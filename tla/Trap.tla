-------------------------------- MODULE Trap --------------------------------
(***************************************************************************)
(* Interrupts on the K210: the handlers of lib/drivers/plic.c and clint.c  *)
(* as they run, nested, on several harts that share one PLIC.              *)
(*                                                                         *)
(* A trap pushes a frame.  Each handler turns MIE back on around its       *)
(* callback, after taking away what must not nest: the external handler    *)
(* raises the hart's threshold to the priority it claimed, the timer and   *)
(* external handlers mask the timer and software interrupts, the software  *)
(* handler masks itself.  On the way out each puts back what it saved.     *)
(*                                                                         *)
(* The PLIC, the CLINT and the trap rules of the hart are hardware and are *)
(* modelled from the register descriptions in the driver headers.          *)
(***************************************************************************)
EXTENDS Integers, Sequences, FiniteSets

CONSTANTS Harts,
          Sources,      \* external interrupt numbers, from 1
          MaxPriority,  \* PLIC_NUM_PRIORITIES
          Priority,     \* the priority given to each by plic_set_priority
          Enabled,      \* the sources each hart has enabled at the start
          CallbackOps,  \* what callbacks do besides returning
          ThreadOps,    \* what each hart's code outside handlers does
          MaxDepth      \* bound: frames on a hart's trap stack

ASSUME SourceAssumption == Sources \subseteq Nat \ {0}
ASSUME PriorityAssumption == MaxPriority \in Nat /\ Priority \in [Sources -> 1 .. MaxPriority]
ASSUME EnableAssumption == Enabled \in [Harts -> SUBSET Sources]
Ops == {"stop", "start", "send", "disable", "enable"}
ASSUME OpsAssumption == CallbackOps \subseteq Ops /\ ThreadOps \in [Harts -> SUBSET Ops]
ASSUME DepthAssumption == MaxDepth \in Nat

None == 0               \* IRQN_NO_INTERRUPT: what an empty claim returns

VARIABLES
    source,     \* PLIC: state of each source's gateway and pending bit
    enable,     \* PLIC: target_enables of each hart
    threshold,  \* PLIC: priority_threshold of each hart
    msip,       \* CLINT: software interrupt posted to each hart
    due,        \* CLINT: mtime has reached mtimecmp of each hart
    shot,       \* clint_timer_instance[].single_shot
    mie, gie,   \* each hart's mie register, and MIE of its mstatus
    stack,      \* the frames of the handlers running on each hart
    rmw,        \* the enable word a thread has read in plic_irq_enable
    asked,      \* what was last asked of each hart's timer
    off,        \* sources each hart has disabled since it enabled them
    unseen      \* harts with an IPI that no callback has followed yet

vars == <<source, enable, threshold, msip, due, shot, mie, gie, stack, rmw, asked, off, unseen>>
plic == <<source, enable, threshold>>
clint == <<msip, due, shot>>
ghosts == <<asked, off, unseen>>

NoWord == {None}
Kinds == {"ext", "soft", "timer"}

Frames == [kind: Kinds, at: {"check", "claim", "clear", "body", "after", "leave"},
           irq: Sources \cup {None}, mie: SUBSET Kinds, threshold: 0 .. MaxPriority]

TypeOK == /\ source \in [Sources -> {"open", "pending", "claimed"}]
          /\ enable \in [Harts -> SUBSET Sources]
          /\ threshold \in [Harts -> 0 .. MaxPriority]
          /\ msip \in [Harts -> BOOLEAN] /\ due \in [Harts -> BOOLEAN] /\ shot \in [Harts -> BOOLEAN]
          /\ mie \in [Harts -> SUBSET Kinds] /\ gie \in [Harts -> BOOLEAN]
          /\ stack \in [Harts -> Seq(Frames)]
          /\ rmw \in [Harts -> (SUBSET Sources) \cup {NoWord}]
          /\ asked \in [Harts -> {"stop", "start", "expired"}]
          /\ off \in [Harts -> SUBSET Sources]
          /\ unseen \subseteq Harts

\* both harts are up: PLIC and IPI enabled, timers initialised and stopped
Init == /\ source = [s \in Sources |-> "open"]
        /\ enable = Enabled
        /\ threshold = [h \in Harts |-> 0]
        /\ msip = [h \in Harts |-> FALSE]
        /\ due = [h \in Harts |-> FALSE]
        /\ shot = [h \in Harts |-> FALSE]
        /\ mie = [h \in Harts |-> {"ext", "soft"}]
        /\ gie = [h \in Harts |-> TRUE]
        /\ stack = [h \in Harts |-> <<>>]
        /\ rmw = [h \in Harts |-> NoWord]
        /\ asked = [h \in Harts |-> "stop"]
        /\ off = [h \in Harts |-> {}]
        /\ unseen = {}

Frame(h) == stack[h][Len(stack[h])]
InFrame(h, kind, at) == stack[h] # <<>> /\ Frame(h).kind = kind /\ Frame(h).at = at
Push(h, f) == stack' = [stack EXCEPT ![h] = Append(@, f)]
Pop(h) == stack' = [stack EXCEPT ![h] = SubSeq(@, 1, Len(@) - 1)]
SetFrame(h, f) == stack' = [stack EXCEPT ![h][Len(stack[h])] = f]
GotoIn(h, at) == SetFrame(h, [Frame(h) EXCEPT !.at = at])

-----------------------------------------------------------------------------
(***************************************************************************)
(* The hardware.                                                           *)
(***************************************************************************)
\* the hart's external interrupt line
Meip(h) == \E s \in enable[h] : source[s] = "pending" /\ Priority[s] > threshold[h]

Asserted(h) == {kind \in mie[h] : CASE kind = "ext" -> Meip(h)
                                    [] kind = "soft" -> msip[h]
                                    [] kind = "timer" -> due[h]}

\* an external interrupt goes before a software one, that before the timer
Taken(h, kind) == /\ gie[h]
                  /\ Len(stack[h]) < MaxDepth
                  /\ kind \in Asserted(h)
                  /\ kind = "soft" => "ext" \notin Asserted(h)
                  /\ kind = "timer" => Asserted(h) = {"timer"}

\* a claim: the pending enabled source of highest priority, then lowest
\* number, whatever the threshold; or None
Claimed(h) == LET S == {s \in enable[h] : source[s] = "pending"} IN
    IF S = {} THEN None
    ELSE CHOOSE s \in S : \A t \in S : \/ Priority[s] > Priority[t]
                                       \/ Priority[s] = Priority[t] /\ s <= t

\* a device raises its line; its gateway sends one request until completion
Raise(s) == /\ source[s] = "open"
            /\ source' = [source EXCEPT ![s] = "pending"]
            /\ UNCHANGED <<enable, threshold, clint, mie, gie, stack, rmw, ghosts>>

\* mtime passes mtimecmp, when the hart listens or may listen again
Tick(h) == /\ ~due[h]
           /\ "timer" \in mie[h] \/ \E i \in DOMAIN stack[h] : "timer" \in stack[h][i].mie
           /\ due' = [due EXCEPT ![h] = TRUE]
           /\ UNCHANGED <<plic, msip, shot, mie, gie, stack, rmw, ghosts>>

\* trap entry: mstatus.MIE goes off
Enter(h, kind, at) == /\ Taken(h, kind)
                      /\ gie' = [gie EXCEPT ![h] = FALSE]
                      /\ Push(h, [kind |-> kind, at |-> at, irq |-> None, mie |-> mie[h],
                                  threshold |-> threshold[h]])

-----------------------------------------------------------------------------
(***************************************************************************)
(* Plausible bugs.                                                         *)
(***************************************************************************)
\* a handler that does not put the threshold back
ExtLeave_KeepsThreshold(h) ==
    /\ InFrame(h, "ext", "leave")
    /\ mie' = [mie EXCEPT ![h] = Frame(h).mie]
    /\ gie' = [gie EXCEPT ![h] = TRUE]
    /\ Pop(h)
    /\ UNCHANGED <<plic, clint, rmw, ghosts>>

\* the completion before the callback, and no completion at all
ExtClaim_CompletesFirst(h) ==
    LET s == Claimed(h) IN
    /\ InFrame(h, "ext", "claim")
    /\ source' = IF s = None THEN source ELSE [source EXCEPT ![s] = "open"]
    /\ SetFrame(h, [Frame(h) EXCEPT !.at = "body", !.irq = s, !.mie = mie[h],
                                    !.threshold = threshold[h]])
    /\ threshold' = [threshold EXCEPT ![h] = IF s = None THEN 0 ELSE Priority[s]]
    /\ mie' = [mie EXCEPT ![h] = @ \ {"timer", "soft"}]
    /\ gie' = [gie EXCEPT ![h] = TRUE]
    /\ UNCHANGED <<enable, clint, rmw, ghosts>>
ExtComplete_Never(h) ==
    /\ InFrame(h, "ext", "after")
    /\ gie' = [gie EXCEPT ![h] = FALSE]
    /\ GotoIn(h, "leave")
    /\ UNCHANGED <<plic, clint, mie, rmw, ghosts>>

\* the IPI flag cleared after the callback, and the software interrupt left
\* masked
SoftLeave_ClearsLate(h) ==
    /\ InFrame(h, "soft", "after")
    /\ msip' = [msip EXCEPT ![h] = FALSE]
    /\ mie' = [mie EXCEPT ![h] = @ \cup {"soft"}]
    /\ gie' = [gie EXCEPT ![h] = TRUE]
    /\ Pop(h)
    /\ UNCHANGED <<plic, due, shot, rmw, ghosts>>
SoftLeave_StaysMasked(h) ==
    /\ InFrame(h, "soft", "after")
    /\ gie' = [gie EXCEPT ![h] = TRUE]
    /\ Pop(h)
    /\ UNCHANGED <<plic, clint, mie, rmw, ghosts>>

\* a software handler that does not mask itself
SoftEnter_NoMask(h) ==
    /\ Taken(h, "soft")
    /\ Push(h, [kind |-> "soft", at |-> "clear", irq |-> None, mie |-> mie[h],
                threshold |-> threshold[h]])
    /\ gie' = [gie EXCEPT ![h] = TRUE]
    /\ UNCHANGED <<plic, clint, mie, rmw, ghosts>>

-----------------------------------------------------------------------------
(***************************************************************************)
(* handle_irq_m_ext.                                                       *)
(***************************************************************************)
ExtEnter(h) == /\ Enter(h, "ext", "check")
               /\ UNCHANGED <<plic, clint, mie, rmw, ghosts>>

\* if(read_csr(mip) & MIP_MEIP): another hart may have claimed meanwhile
ExtCheck(h) == /\ InFrame(h, "ext", "check")
               /\ IF Meip(h) THEN GotoIn(h, "claim") /\ UNCHANGED gie
                             ELSE Pop(h) /\ gie' = [gie EXCEPT ![h] = TRUE]
               /\ UNCHANGED <<plic, clint, mie, rmw, ghosts>>

\* claim, raise the threshold to the claimed priority (that of source 0 is
\* 0), mask the timer and software interrupts, enable interrupts
ExtClaim(h) ==
    LET s == Claimed(h) IN
    /\ InFrame(h, "ext", "claim")
    /\ source' = IF s = None THEN source ELSE [source EXCEPT ![s] = "claimed"]
    /\ SetFrame(h, [Frame(h) EXCEPT !.at = "body", !.irq = s, !.mie = mie[h],
                                    !.threshold = threshold[h]])
    /\ threshold' = [threshold EXCEPT ![h] = IF s = None THEN 0 ELSE Priority[s]]
    /\ mie' = [mie EXCEPT ![h] = @ \ {"timer", "soft"}]
    /\ gie' = [gie EXCEPT ![h] = TRUE]
    /\ UNCHANGED <<enable, clint, rmw, ghosts>>

\* the completion is ignored for a source this hart no longer has enabled
ExtComplete(h) ==
    LET s == Frame(h).irq IN
    /\ InFrame(h, "ext", "after")
    /\ source' = IF s \in enable[h] /\ source[s] = "claimed"
                 THEN [source EXCEPT ![s] = "open"] ELSE source
    /\ gie' = [gie EXCEPT ![h] = FALSE]
    /\ GotoIn(h, "leave")
    /\ UNCHANGED <<enable, threshold, clint, mie, rmw, ghosts>>

\* restore mie and the threshold, mret
ExtLeave(h) ==
    /\ InFrame(h, "ext", "leave")
    /\ mie' = [mie EXCEPT ![h] = Frame(h).mie]
    /\ threshold' = [threshold EXCEPT ![h] = Frame(h).threshold]
    /\ gie' = [gie EXCEPT ![h] = TRUE]
    /\ Pop(h)
    /\ UNCHANGED <<source, enable, clint, rmw, ghosts>>

-----------------------------------------------------------------------------
(***************************************************************************)
(* handle_irq_m_timer.                                                     *)
(***************************************************************************)
TimerEnter(h) == /\ Taken(h, "timer")
                 /\ Push(h, [kind |-> "timer", at |-> "body", irq |-> None, mie |-> mie[h],
                             threshold |-> threshold[h]])
                 /\ mie' = [mie EXCEPT ![h] = @ \ {"timer", "soft"}]
                 /\ gie' = [gie EXCEPT ![h] = TRUE]
                 /\ asked' = [asked EXCEPT ![h] = IF shot[h] THEN "expired" ELSE @]
                 /\ UNCHANGED <<plic, clint, rmw, off, unseen>>

\* restore mie; then the next period, which may already be over, or, for a
\* single shot, no timer interrupt any more
TimerLeave(h) ==
    /\ InFrame(h, "timer", "after")
    /\ IF shot[h]
         THEN /\ mie' = [mie EXCEPT ![h] = Frame(h).mie \ {"timer"}]
              /\ UNCHANGED due
         ELSE /\ mie' = [mie EXCEPT ![h] = Frame(h).mie]
              /\ \E late \in BOOLEAN : due' = [due EXCEPT ![h] = late]
    /\ gie' = [gie EXCEPT ![h] = TRUE]
    /\ Pop(h)
    /\ UNCHANGED <<plic, msip, shot, rmw, ghosts>>

-----------------------------------------------------------------------------
(***************************************************************************)
(* handle_irq_m_soft.                                                      *)
(***************************************************************************)
SoftEnter(h) == /\ Taken(h, "soft")
                /\ Push(h, [kind |-> "soft", at |-> "clear", irq |-> None, mie |-> mie[h],
                            threshold |-> threshold[h]])
                /\ mie' = [mie EXCEPT ![h] = @ \ {"soft"}]
                /\ gie' = [gie EXCEPT ![h] = TRUE]
                /\ UNCHANGED <<plic, clint, rmw, ghosts>>

\* clint_ipi_clear, then the call of the callback
SoftClear(h) == /\ InFrame(h, "soft", "clear")
                /\ msip' = [msip EXCEPT ![h] = FALSE]
                /\ unseen' = unseen \ {h}
                /\ GotoIn(h, "body")
                /\ UNCHANGED <<plic, due, shot, mie, gie, rmw, asked, off>>

SoftLeave(h) == /\ InFrame(h, "soft", "after")
                /\ mie' = [mie EXCEPT ![h] = @ \cup {"soft"}]
                /\ gie' = [gie EXCEPT ![h] = TRUE]
                /\ Pop(h)
                /\ UNCHANGED <<plic, clint, rmw, ghosts>>

-----------------------------------------------------------------------------
(***************************************************************************)
(* Operations of the drivers that callbacks and threads call.              *)
(***************************************************************************)
\* clint_timer_stop
Stop(h) == /\ mie' = [mie EXCEPT ![h] = @ \ {"timer"}]
           /\ asked' = [asked EXCEPT ![h] = "stop"]
           /\ UNCHANGED <<plic, clint, gie, rmw, off, unseen>>

\* clint_timer_start: a new mtimecmp, MIE on, MTIP on
Start(h, single) == /\ shot' = [shot EXCEPT ![h] = single]
                    /\ due' = [due EXCEPT ![h] = FALSE]
                    /\ mie' = [mie EXCEPT ![h] = @ \cup {"timer"}]
                    /\ gie' = [gie EXCEPT ![h] = TRUE]
                    /\ asked' = [asked EXCEPT ![h] = "start"]
                    /\ UNCHANGED <<plic, msip, rmw, off, unseen>>

\* clint_ipi_send
Send(g) == /\ msip' = [msip EXCEPT ![g] = TRUE]
           /\ unseen' = unseen \cup {g}
           /\ UNCHANGED <<plic, due, shot, mie, gie, rmw, asked, off>>

\* plic_irq_disable, as a handler calls it for its own source
Disable(h, s) == /\ enable' = [enable EXCEPT ![h] = @ \ {s}]
                 /\ off' = [off EXCEPT ![h] = @ \cup {s}]
                 /\ UNCHANGED <<source, threshold, clint, mie, gie, rmw, asked, unseen>>

Do(h, ops) == \/ "stop" \in ops /\ Stop(h)
              \/ "start" \in ops /\ \E single \in BOOLEAN : Start(h, single)
              \/ "send" \in ops /\ \E g \in Harts : Send(g)

Callback(h) ==
    /\ stack[h] # <<>> /\ Frame(h).at = "body"
    /\ GotoIn(h, "after")
    /\ \/ UNCHANGED <<plic, clint, mie, gie, rmw, ghosts>>
       \/ Do(h, CallbackOps)
       \/ "disable" \in CallbackOps /\ Frame(h).irq # None /\ Disable(h, Frame(h).irq)

\* a thread runs when no handler does
Thread(h) == /\ stack[h] = <<>>
             /\ Do(h, ThreadOps[h])
             /\ UNCHANGED stack

\* plic_irq_enable reads the enable word ...
EnableRead(h, s) == /\ "enable" \in ThreadOps[h]
                    /\ stack[h] = <<>>
                    /\ rmw[h] = NoWord
                    /\ s \in off[h]
                    /\ rmw' = [rmw EXCEPT ![h] = enable[h] \cup {s}]
                    /\ off' = [off EXCEPT ![h] = @ \ {s}]
                    /\ UNCHANGED <<plic, clint, mie, gie, stack, asked, unseen>>

\* ... and writes it back
EnableWrite(h) == /\ stack[h] = <<>>
                  /\ rmw[h] # NoWord
                  /\ enable' = [enable EXCEPT ![h] = rmw[h]]
                  /\ rmw' = [rmw EXCEPT ![h] = NoWord]
                  /\ UNCHANGED <<source, threshold, clint, mie, gie, stack, ghosts>>

-----------------------------------------------------------------------------
Ext(h) == ExtEnter(h) \/ ExtCheck(h) \/ ExtClaim(h) \/ ExtComplete(h) \/ ExtLeave(h)
Timer(h) == TimerEnter(h) \/ TimerLeave(h)
Soft(h) == SoftEnter(h) \/ SoftClear(h) \/ SoftLeave(h)
Handler(h) == Ext(h) \/ Timer(h) \/ Soft(h) \/ Callback(h)

Next == \/ \E h \in Harts : Handler(h) \/ Thread(h) \/ Tick(h) \/ EnableWrite(h)
        \/ \E h \in Harts, s \in Sources : EnableRead(h, s)
        \/ \E s \in Sources : Raise(s)

Spec == Init /\ [][Next]_vars

\* Handlers run to their end, and an enabled interrupt is taken.
Fairness == \A h \in Harts : WF_vars(Handler(h))

FairSpec == Spec /\ Fairness

-----------------------------------------------------------------------------
(***************************************************************************)
(* Properties.                                                             *)
(***************************************************************************)
Handling(h, s) == \E i \in DOMAIN stack[h] :
    stack[h][i].kind = "ext" /\ stack[h][i].irq = s /\ stack[h][i].at \in {"body", "after"}

Quiet(h) == stack[h] = <<>>

\* A source is never in two handlers at once, on one hart or on two.
NoReentry ==
    /\ \A h, g \in Harts, s \in Sources : Handling(h, s) /\ Handling(g, s) => h = g
    /\ \A h \in Harts : \A i, j \in DOMAIN stack[h] :
         /\ stack[h][i].irq = stack[h][j].irq /\ stack[h][i].irq # None
         /\ {stack[h][i].at, stack[h][j].at} \subseteq {"body", "after"}
         => i = j

\* The trap stack is bounded, as long as callbacks start no timer: one frame
\* for the software interrupt, one for the timer, one for each priority.
StackBounded == \A h \in Harts : Len(stack[h]) <= 2 + Cardinality({Priority[s] : s \in Sources})

\* Back in the thread, the hart is as it was: threshold 0, and exactly the
\* interrupts enabled that were asked for.
Restored == \A h \in Harts : Quiet(h) =>
    /\ threshold[h] = 0
    /\ gie[h]
    /\ mie[h] = {"ext", "soft"} \cup (IF asked[h] = "start" THEN {"timer"} ELSE {})

\* plic.h, Target Completion: once no handler of a source is running any more
\* its gateway is open again, so that no source goes silent.  (plic_irq_disable
\* by the source's own handler breaks it: those callbacks are left out.)
GateReopens == \A s \in Sources :
    source[s] = "claimed" => \E h \in Harts : \E i \in DOMAIN stack[h] : stack[h][i].irq = s

\* Once the devices and the timers, which can take all of a hart's time, are
\* quiet, every IPI is followed by the callback of the hart it was sent to.
Calm == (\A s \in Sources : source[s] # "pending") /\ (\A h \in Harts : ~due[h])
IpiSeen == <>[]Calm => \A h \in Harts : h \in unseen ~> h \notin unseen

\* Every request is claimed, unless more urgent ones keep coming.
Served == \A s \in Sources :
    <>[](\A t \in Sources : Priority[t] > Priority[s] => source[t] # "pending")
      => (source[s] = "pending" ~> source[s] # "pending")
=============================================================================
