-------------------------------- MODULE Kpu --------------------------------
(***************************************************************************)
(* The neural network accelerator, lib/drivers/kpu.c, with its DMA channel:*)
(* the three ways to run a network, kpu_run, kpu_start and kpu_run_kmodel. *)
(*                                                                         *)
(* The caller loads the input and returns; the rest happens in interrupts. *)
(* The channel's interrupt says that the input is in AI memory, or that an *)
(* output has left it; the accelerator's says that its layer FIFO runs     *)
(* empty ("empty") or that a layer is calculated ("calc").  kpu_run and    *)
(* kpu_start feed the FIFO, kpu_run_kmodel goes from layer to layer        *)
(* (ai_step) and does some of them on the CPU.                             *)
(*                                                                         *)
(* Layers are "conv" (stays in AI memory), "out" (a convolution whose      *)
(* output the DMA moves to main memory) and "cpu".                         *)
(***************************************************************************)
EXTENDS Dmac, Sequences

CONSTANTS Jobs,     \* what can be asked for: api, kinds of the layers, how the input gets in
          Burst     \* LAYER_BURST_SIZE

Apis == {"run", "start", "kmodel"}
JobType == [api : Apis, kinds : Seq({"conv", "out", "cpu"}), load : {"dma", "cpu", "none"}]

\* networks as the model compiler makes them: the last layer's output goes to
\* main memory, and only a kmodel has layers for the CPU
ASSUME JobAssumption ==
    /\ Burst \in Nat \ {0}
    /\ \A j \in Jobs :
         /\ j \in JobType
         /\ j.kinds # <<>> /\ j.kinds[Len(j.kinds)] # "conv"
         /\ j.api = "run" => j.load = "dma"
         /\ j.api = "start" => j.load \in {"dma", "none"}
         /\ j.api = "kmodel" => j.load \in {"dma", "cpu"}
         /\ j.api # "kmodel" =>
              \A k \in DOMAIN j.kinds : j.kinds[k] = (IF k = Len(j.kinds) THEN "out" ELSE "conv")

Layers == Ids \X Nat     \* and 0 for the input

ASSUME ChannelAssumption == Channels = {"ch"} /\ Ids \subseteq Nat /\ Ids # {} /\ None \notin Layers

VARIABLES
    flags, mask,    \* interrupt_status; the interrupts interrupt_mask lets through
    pend,           \* the PLIC's gateway holds an accelerator interrupt
    fifo, engine, outp, \* layer FIFO, the layer in work, the output that waits for the DMA
    mem,            \* what AI memory holds: the input and the layers done on it, in order
    busy,           \* g_kpu_context.kpu_status and kpu_status
    cur,            \* the job g_kpu_context.kpu_task is a copy of
    next,           \* layers handed out: layers_length - remain_layers_length, or current_layer
    handler, aion, aiprio,  \* per hart: callback in plic_instance, enabled; the priority
    dcb,            \* dmac_context[].callback and ctx
    pc, arg,        \* per hart and level: place in the code, and the job it is about
    off,            \* harts with interrupts disabled
    job, state,     \* what each job is, and what its caller knows of it
    calls, result   \* how often it was called back, and what mem was then

hardware == <<flags, mask, pend, fifo, engine, outp, mem>>
software == <<busy, cur, next, handler, aion, aiprio, dcb>>
ghosts == <<calls, result>>
vars == <<dmac, hardware, software, pc, arg, off, job, state, ghosts>>

Levels == {"thread", "dma", "ai"}
Agents == Harts \X Levels
Hart(a) == a[1]
NoJob == [api |-> "run", kinds |-> <<"out">>, load |-> "dma"]

Kind(i, k) == job[i].kinds[k]
Size(i) == Len(job[i].kinds)
Api(a) == job[arg[a]].api

\* the kpu_task_t that the code at a works on
Task(a) == IF Api(a) = "run" THEN cur ELSE arg[a]

TypeOK ==
    /\ DmacTypeOK
    /\ flags \subseteq {"calc", "empty"} /\ mask \subseteq {"calc", "empty"} /\ pend \in BOOLEAN
    /\ fifo \in Seq(Layers) /\ {engine, outp} \subseteq Layers \cup {None} /\ mem \in Seq(Layers)
    /\ busy \in [Apis -> BOOLEAN]
    /\ cur \in Ids
    /\ next \in [Ids -> Nat] /\ \A i \in Ids : next[i] <= Size(i)
    /\ handler \in [Harts -> Ids \cup {None}] /\ aion \subseteq Harts /\ aiprio \in {1, 2}
    /\ dcb \in [fn : {"none", "ready", "step", "done"}, id : Ids]
    /\ pc \in [Agents -> {"idle", "cas", "task", "kmask", "aireg", "load", "inreg", "indma",
                          "entry", "ready", "outreg", "outdma", "mask", "unmask",
                          "feed", "push", "count", "step", "conv", "send",
                          "done", "call", "callback", "leave"}]
    /\ arg \in [Agents -> Ids]
    /\ off \subseteq Harts
    /\ job \in [Ids -> Jobs \cup {NoJob}]
    /\ state \in [Ids -> {"new", "asked", "refused", "running", "done"}]
    /\ calls \in [Ids -> 0 .. 2] /\ result \in [Ids -> Seq(Layers)]

First == CHOOSE i \in Ids : TRUE

Init == /\ DmacInit
        /\ flags = {} /\ mask = {} /\ pend = FALSE
        /\ fifo = <<>> /\ engine = None /\ outp = None /\ mem = <<>>
        /\ busy = [p \in Apis |-> FALSE]
        /\ cur = First
        /\ next = [i \in Ids |-> 0]
        /\ handler = [h \in Harts |-> None] /\ aion = {} /\ aiprio = 1
        /\ dcb = [fn |-> "none", id |-> First]
        /\ pc = [a \in Agents |-> "idle"]
        /\ arg = [a \in Agents |-> First]
        /\ off = {}
        /\ job = [i \in Ids |-> NoJob]
        /\ state = [i \in Ids |-> "new"]
        /\ calls = [i \in Ids |-> 0]
        /\ result = [i \in Ids |-> <<>>]

\* the gateway, closed from the claim to the completion
Busy(h, level) == pc[<<h, level>>] # "idle"
Line == flags \cap mask # {} /\ \A h \in Harts : ~Busy(h, "ai")

\* A handler preempts what its hart was doing, and code that the accelerator's
\* interrupt can preempt does not go on before it: a step is many instructions.
\* The channels' priority is 1.
Preempts(h, level) == /\ h \in aion \ off
                      /\ level = "thread" \/ (level = "dma" /\ aiprio > 1)
MayRun(a) == /\ a[2] # "ai" => ~Busy(a[1], "ai")
             /\ a[2] = "thread" => ~Busy(a[1], "dma")
             /\ Preempts(a[1], a[2]) => ~pend /\ ~Line
At(a, p) == MayRun(a) /\ pc[a] = p
Goto(a, p) == pc' = [pc EXCEPT ![a] = p] /\ UNCHANGED <<arg, off>>

\* the end of a call, which in a handler is the end of the callback;
\* ai_step_not_isr enables interrupts again
Return(a) == /\ pc' = [pc EXCEPT ![a] = IF a[2] = "thread" THEN "idle" ELSE "leave"]
             /\ off' = off \ {Hart(a)}
             /\ UNCHANGED arg

BurstOf(a) == IF Api(a) = "run" THEN 1 ELSE Burst
Remain(i) == Size(i) - next[i]
Smaller(m, n) == IF m < n THEN m ELSE n

-----------------------------------------------------------------------------
(***************************************************************************)
(* Plausible bugs.                                                         *)
(***************************************************************************)
Count_With(a, left, flags2) ==
    /\ At(a, "count")
    /\ next' = [next EXCEPT ![Task(a)] = @ + left]
    /\ flags' = flags2
    /\ mask' = IF Api(a) = "start" /\ Remain(Task(a)) <= Burst THEN {} ELSE mask
    /\ IF Api(a) = "start" /\ a[2] # "ai" THEN Goto(a, "unmask") ELSE Return(a)
    /\ UNCHANGED <<dmac, pend, fifo, engine, outp, mem, busy, cur, handler, aion, aiprio, dcb,
                   job, state, ghosts>>

\* interrupt_clear after the layers are in the FIFO
Count_ClearsLate(a) == Count_With(a, Smaller(BurstOf(a), Remain(Task(a))), {})

\* kpu_conv without interrupt_clear
Conv_NoClear(a) ==
    LET out == Kind(arg[a], next[arg[a]]) = "out" IN
    /\ At(a, "conv")
    /\ mask' = IF out THEN {} ELSE {"calc"}
    /\ Goto(a, IF out THEN "outreg" ELSE "send")
    /\ UNCHANGED <<dmac, flags, pend, fifo, engine, outp, mem, software, job, state, ghosts>>

-----------------------------------------------------------------------------
(***************************************************************************)
(* The callers.  kpu_run and kpu_start have a flag each and refuse while   *)
(* it is set; they know nothing of each other and kpu_run_kmodel has no    *)
(* flag: what is not to overlap is the caller's to keep apart.  A callback *)
(* may ask for the next job once the call that asked for its own job is    *)
(* over: kpu_data_ready would unmask in the middle of that job.            *)
(***************************************************************************)
Asks(a, j) ==
    /\ At(a, IF a[2] = "thread" THEN "idle" ELSE "callback")
    /\ a[2] # "thread" => ~Busy(Hart(a), "thread")
    /\ a[2] = "ai" => j.load # "none"
    /\ \A i \in Ids : state[i] \in {"asked", "running"} => job[i].api = j.api /\ j.api # "kmodel"

Ask(a, i, j) == /\ Asks(a, j)
                /\ state[i] = "new" /\ \A k \in Ids : k < i => state[k] # "new"
                /\ job' = [job EXCEPT ![i] = j]
                /\ state' = [state EXCEPT ![i] = "asked"]
                /\ arg' = [arg EXCEPT ![a] = i]
                /\ pc' = [pc EXCEPT ![a] = "cas"]
                /\ UNCHANGED <<dmac, hardware, software, off, ghosts>>

\* atomic_cas of the flag
Cas(a) ==
    LET i == arg[a] IN
    /\ At(a, "cas")
    /\ IF busy[Api(a)]
         THEN /\ state' = [state EXCEPT ![i] = "refused"]
              /\ Return(a)
              /\ UNCHANGED busy
         ELSE /\ state' = [state EXCEPT ![i] = "running"]
              /\ busy' = [busy EXCEPT ![Api(a)] = Api(a) # "kmodel"]
              /\ Goto(a, "task")
    /\ UNCHANGED <<dmac, hardware, cur, next, handler, aion, aiprio, dcb, job, ghosts>>

\* the task, which kpu_run copies; input that is in AI memory already
SetTask(a) ==
    LET i == arg[a] IN
    /\ At(a, "task")
    /\ cur' = IF Api(a) = "run" THEN i ELSE cur
    /\ next' = [next EXCEPT ![i] = 0]
    /\ mem' = IF job[i].load = "none" THEN <<<<i, 0>>>> ELSE mem
    /\ Goto(a, CASE Api(a) = "run" -> "aireg"
                 [] Api(a) = "start" -> IF job[i].load = "dma" THEN "inreg" ELSE "ready"
                 [] Api(a) = "kmodel" -> "kmask")
    /\ UNCHANGED <<dmac, flags, mask, pend, fifo, engine, outp, busy, handler, aion, aiprio, dcb,
                   job, state, ghosts>>

\* kpu_run_kmodel: interrupt_clear and interrupt_mask
KmodelMask(a) == /\ At(a, "kmask")
                 /\ flags' = {} /\ mask' = {"empty"}
                 /\ Goto(a, "aireg")
                 /\ UNCHANGED <<dmac, pend, fifo, engine, outp, mem, software, job, state, ghosts>>

\* plic_set_priority, plic_irq_register and plic_irq_enable of the accelerator
AiRegister(a) ==
    /\ At(a, "aireg")
    /\ handler' = [handler EXCEPT ![Hart(a)] = arg[a]]
    /\ aion' = aion \cup {Hart(a)}
    /\ aiprio' = IF Api(a) = "start" THEN 2 ELSE 1
    /\ Goto(a, CASE Api(a) = "run" -> "inreg"
                 [] Api(a) = "start" -> "feed"
                 [] Api(a) = "kmodel" -> IF job[arg[a]].load = "dma" THEN "inreg" ELSE "load")
    /\ UNCHANGED <<dmac, hardware, busy, cur, next, dcb, job, state, ghosts>>

\* the input copied by the CPU, then ai_step_not_isr
LoadByCpu(a) == /\ At(a, "load")
                /\ mem' = <<<<arg[a], 0>>>>
                /\ off' = off \cup {Hart(a)}
                /\ pc' = [pc EXCEPT ![a] = "step"]
                /\ UNCHANGED <<dmac, flags, mask, pend, fifo, engine, outp, software, arg, job,
                               state, ghosts>>

\* dmac_irq_register and dmac_set_single_mode of the input
InRegister(a) == /\ At(a, "inreg")
                 /\ dcb' = [fn |-> IF Api(a) = "kmodel" THEN "step" ELSE "ready", id |-> arg[a]]
                 /\ IrqRegister(Hart(a), "ch")
                 /\ Goto(a, "indma")
                 /\ UNCHANGED <<bufs, copied, hardware, busy, cur, next, handler, aion, aiprio,
                                job, state, ghosts>>
InDma(a) == /\ At(a, "indma")
            /\ SetSingleMode(Task(a), {"ch"}, {})
            /\ Return(a)
            /\ UNCHANGED <<copied, registered, enabled, hardware, software, job, state, ghosts>>

-----------------------------------------------------------------------------
(***************************************************************************)
(* The channel's interrupt.                                                *)
(***************************************************************************)
\* dmac_irq_callback, up to the call of the callback
Entry(h) ==
    LET a == <<h, "dma">> IN
    /\ At(a, "entry")
    /\ ClearInterrupt({"ch"})
    /\ Settle({"ch"})
    /\ pc' = [pc EXCEPT ![a] = dcb.fn]
    /\ arg' = [arg EXCEPT ![a] = dcb.id]
    /\ UNCHANGED <<registered, enabled, hardware, software, off, job, state, ghosts>>

\* kpu_run_dma_input_done_push_layers and kpu_data_ready: the input is there
Ready(a) == /\ At(a, "ready")
            /\ flags' = IF Api(a) = "run" THEN {} ELSE flags
            /\ ClearInterrupt({"ch"})
            /\ Goto(a, "outreg")
            /\ UNCHANGED <<ctx, bufs, copied, registered, enabled, mask, pend, fifo, engine, outp,
                           mem, software, job, state, ghosts>>

\* kpu_run_dma_output, kpu_data_output, and the same in kpu_conv: the output
\* comes back to ai_step, or ends the job
OutRegister(a) ==
    LET i == Task(a) IN
    /\ At(a, "outreg")
    /\ dcb' = [fn |-> IF Api(a) = "kmodel" /\ next[i] # Size(i) THEN "step" ELSE "done", id |-> i]
    /\ IrqRegister(Hart(a), "ch")
    /\ Goto(a, "outdma")
    /\ UNCHANGED <<bufs, copied, hardware, busy, cur, next, handler, aion, aiprio, job, state,
                   ghosts>>
OutDma(a) == /\ At(a, "outdma")
             /\ SetSingleMode(Task(a), {}, {"ch"})
             /\ Goto(a, CASE Api(a) = "run" -> "unmask"
                          [] Api(a) = "start" -> "mask"
                          [] Api(a) = "kmodel" -> "send")
             /\ UNCHANGED <<copied, registered, enabled, hardware, software, job, state, ghosts>>

\* kpu_data_ready masks all until it has fed the first burst
Mask(a) == /\ At(a, "mask")
           /\ flags' = {} /\ mask' = {}
           /\ Goto(a, "aireg")
           /\ UNCHANGED <<dmac, pend, fifo, engine, outp, mem, software, job, state, ghosts>>
Unmask(a) == /\ At(a, "unmask")
             /\ IF Api(a) = "run" THEN mask' = {"calc", "empty"} /\ Goto(a, "feed")
                                  ELSE mask' = {"empty"} /\ Return(a)
             /\ UNCHANGED <<dmac, flags, pend, fifo, engine, outp, mem, software, job, state, ghosts>>

-----------------------------------------------------------------------------
(***************************************************************************)
(* kpu_continue and kpu_config_input: interrupt_clear, then the next layer *)
(* or burst of layers into the FIFO, then the count of what remains.       *)
(***************************************************************************)
Feed(a) == /\ At(a, "feed")
           /\ flags' = {}
           /\ IF Api(a) = "run" /\ Remain(cur) = 0 THEN Return(a) ELSE Goto(a, "push")
           /\ UNCHANGED <<dmac, mask, pend, fifo, engine, outp, mem, software, job, state, ghosts>>

Push(a) == /\ At(a, "push")
           /\ LET i == Task(a) IN
              fifo' = fifo \o [k \in 1 .. Smaller(BurstOf(a), Remain(i)) |-> <<i, next[i] + k>>]
           /\ Goto(a, "count")
           /\ UNCHANGED <<dmac, flags, mask, pend, engine, outp, mem, software, job, state, ghosts>>

\* kpu_config_input masks all when nothing remains
Count(a) ==
    LET i == Task(a) IN
    /\ At(a, "count")
    /\ next' = [next EXCEPT ![i] = @ + Smaller(BurstOf(a), Remain(i))]
    /\ mask' = IF Api(a) = "start" /\ Remain(i) <= Burst THEN {} ELSE mask
    /\ IF Api(a) = "start" /\ a[2] # "ai" THEN Goto(a, "unmask") ELSE Return(a)
    /\ UNCHANGED <<dmac, flags, pend, fifo, engine, outp, mem, busy, cur, handler, aion, aiprio,
                   dcb, job, state, ghosts>>

-----------------------------------------------------------------------------
(***************************************************************************)
(* ai_step: layers of the CPU one after the other up to a convolution,     *)
(* which kpu_conv starts, or to the end.                                   *)
(***************************************************************************)
AiStep(a) ==
    LET i == arg[a]
        k == next[i] + 1 IN
    /\ At(a, "step")
    /\ next' = [next EXCEPT ![i] = k]
    /\ IF Kind(i, k) = "cpu"
         THEN /\ mem' = Append(mem, <<i, k>>)
              /\ Goto(a, IF k = Size(i) THEN "done" ELSE "step")
         ELSE /\ Goto(a, "conv")
              /\ UNCHANGED mem
    /\ UNCHANGED <<dmac, flags, mask, pend, fifo, engine, outp, busy, cur, handler, aion, aiprio,
                   dcb, job, state, ghosts>>

Conv(a) ==
    LET out == Kind(arg[a], next[arg[a]]) = "out" IN
    /\ At(a, "conv")
    /\ flags' = {}
    /\ mask' = IF out THEN {} ELSE {"calc"}
    /\ Goto(a, IF out THEN "outreg" ELSE "send")
    /\ UNCHANGED <<dmac, pend, fifo, engine, outp, mem, software, job, state, ghosts>>

\* kpu_send_layer
Send(a) == /\ At(a, "send")
           /\ fifo' = Append(fifo, <<arg[a], next[arg[a]]>>)
           /\ Return(a)
           /\ UNCHANGED <<dmac, flags, mask, pend, engine, outp, mem, software, job, state, ghosts>>

-----------------------------------------------------------------------------
(***************************************************************************)
(* The end: kpu_run_all_done, kpu_done, kpu_kmodel_done.                   *)
(***************************************************************************)
Done(a) == /\ At(a, "done")
           /\ busy' = [busy EXCEPT ![Api(a)] = FALSE]
           /\ flags' = IF Api(a) = "kmodel" THEN {} ELSE flags
           /\ mask' = IF Api(a) = "kmodel" THEN {} ELSE mask
           /\ Goto(a, "call")
           /\ UNCHANGED <<dmac, pend, fifo, engine, outp, mem, cur, next, handler, aion, aiprio,
                          dcb, job, state, ghosts>>

\* the callback, which kpu_run_all_done reads from the copy; what the caller
\* finds is what the AI memory held, unless it is still in a bounce buffer
Callback(a) ==
    LET i == Task(a) IN
    /\ At(a, "call")
    /\ calls' = [calls EXCEPT ![i] = Smaller(@ + 1, 2)]
    /\ result' = [result EXCEPT ![i] =
                    IF \E b \in bufs : b.id = i /\ b.side = "dest" THEN <<>> ELSE mem]
    /\ state' = [state EXCEPT ![i] = "done"]
    /\ IF a[2] = "thread" THEN Return(a) ELSE Goto(a, "callback")
    /\ UNCHANGED <<dmac, hardware, software, job>>

\* the handler returns to handle_irq_m_ext, which completes the interrupt; the
\* callback of a job done on the CPU returns through ai_step_not_isr
Leave(a) == /\ a[2] # "thread" /\ (At(a, "leave") \/ At(a, "callback"))
            /\ pc' = [pc EXCEPT ![a] = "idle"]
            /\ off' = off \ {Hart(a)}
            /\ UNCHANGED <<arg, dmac, hardware, software, job, state, ghosts>>

-----------------------------------------------------------------------------
(***************************************************************************)
(* The accelerator takes the next layer from the FIFO and calculates it.   *)
(* kpu_run and kpu_start ask for an interrupt of the last layer, kpu_conv  *)
(* for one of each that stays in AI memory.                                *)
(***************************************************************************)
Pop == /\ engine = None /\ fifo # <<>>
       /\ engine' = Head(fifo)
       /\ fifo' = Tail(fifo)
       /\ flags' = IF Len(fifo) = 1 THEN flags \cup {"empty"} ELSE flags
       /\ UNCHANGED <<dmac, mask, pend, outp, mem, software, pc, arg, off, job, state, ghosts>>

Calculate ==
    LET i == engine[1]
        out == Kind(i, engine[2]) = "out" IN
    /\ engine # None /\ outp = None
    /\ engine' = None
    /\ IF out THEN outp' = engine /\ UNCHANGED mem
              ELSE mem' = Append(mem, engine) /\ UNCHANGED outp
    /\ flags' = IF out = (job[i].api # "kmodel") THEN flags \cup {"calc"} ELSE flags
    /\ UNCHANGED <<dmac, mask, pend, fifo, software, pc, arg, off, job, state, ghosts>>

\* the DMA: the input is in AI memory, or the output in its bounce buffer
Transfer ==
    /\ chan["ch"].run
    /\ Finish("ch")
    /\ \/ ctx["ch"].src # None /\ mem' = <<<<ctx["ch"].src.id, 0>>>> /\ UNCHANGED outp
       \/ ctx["ch"].dest # None /\ outp # None /\ mem' = Append(mem, outp) /\ outp' = None
    /\ UNCHANGED <<ctx, bufs, copied, registered, enabled, flags, mask, pend, fifo, engine,
                   software, pc, arg, off, job, state, ghosts>>

\* the gateway
Latch == /\ Line /\ ~pend
         /\ pend' = TRUE
         /\ UNCHANGED <<dmac, flags, mask, fifo, engine, outp, mem, software, pc, arg, off, job,
                        state, ghosts>>

\* at the same priority the accelerator, which has the lower number, comes first
AiInterrupt(h) ==
    /\ pend /\ ~Busy(h, "ai")
    /\ Preempts(h, IF Busy(h, "dma") THEN "dma" ELSE "thread")
    /\ pend' = FALSE
    /\ pc' = [pc EXCEPT ![<<h, "ai">>] = IF job[handler[h]].api = "kmodel" THEN "step" ELSE "feed"]
    /\ arg' = [arg EXCEPT ![<<h, "ai">>] = handler[h]]
    /\ UNCHANGED <<dmac, flags, mask, fifo, engine, outp, mem, software, off, job, state, ghosts>>

DmaInterrupt(h) ==
    /\ Interrupts(h, "ch") /\ h \notin off
    /\ ~Busy(h, "ai") /\ \A g \in Harts : ~Busy(g, "dma")
    /\ h \in aion => ~pend /\ ~Line
    /\ pc' = [pc EXCEPT ![<<h, "dma">>] = "entry"]
    /\ UNCHANGED <<dmac, hardware, software, arg, off, job, state, ghosts>>

-----------------------------------------------------------------------------
Step(a) == \/ Cas(a) \/ SetTask(a) \/ KmodelMask(a) \/ AiRegister(a) \/ LoadByCpu(a)
           \/ InRegister(a) \/ InDma(a) \/ Ready(a) \/ OutRegister(a) \/ OutDma(a)
           \/ Mask(a) \/ Unmask(a) \/ Feed(a) \/ Push(a) \/ Count(a)
           \/ AiStep(a) \/ Conv(a) \/ Send(a) \/ Done(a) \/ Callback(a) \/ Leave(a)
Interrupt(h) == Entry(h) \/ AiInterrupt(h) \/ DmaInterrupt(h)
Device == Pop \/ Calculate \/ Transfer \/ Latch

Next == \/ \E a \in Agents : Step(a) \/ \E i \in Ids, j \in Jobs : Ask(a, i, j)
        \/ \E h \in Harts : Interrupt(h)
        \/ Device

Spec == Init /\ [][Next]_vars

\* Harts keep executing and take their interrupts; the devices work.
Fairness == /\ \A a \in Agents : WF_vars(Step(a))
            /\ \A h \in Harts : WF_vars(Interrupt(h))
            /\ WF_vars(Pop) /\ WF_vars(Calculate) /\ WF_vars(Transfer) /\ WF_vars(Latch)

FairSpec == Spec /\ Fairness

-----------------------------------------------------------------------------
(***************************************************************************)
(* Properties.                                                             *)
(***************************************************************************)
\* Jobs are run one at a time, refused only for a running one, and called
\* back in the end.
Promise == INSTANCE Accelerator WITH
    state <- [i \in Ids |-> IF state[i] = "asked" THEN "new" ELSE state[i]]
ImplementsAccelerator == Promise!Spec

\* A job is called back once, and what the callback finds is the job's input
\* with every layer applied to it, once and in order; kpu.h: dest is "The
\* result of kpu".
ResultRight == \A i \in Ids : state[i] = "done" =>
    /\ calls[i] = 1
    /\ result[i] = [k \in 1 .. Size(i) + 1 |-> <<i, k - 1>>]
=============================================================================
