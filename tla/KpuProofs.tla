----------------------------- MODULE KpuProofs -----------------------------
(***************************************************************************)
(* Theorems about Kpu, for the hart that uses the accelerator: whatever    *)
(* the jobs, their number and LAYER_BURST_SIZE, a job is called back once, *)
(* with every layer applied in order to its own input, jobs run one at a   *)
(* time, and one is refused only while another runs.                       *)
(*                                                                         *)
(* The invariant says of each place in the code what the thread or handler *)
(* there can rely on (AtPlace); of a job that nobody works for, which      *)
(* interrupt it waits for (Waiting); which places one hart can be at in    *)
(* thread and handlers at once (Nesting); what the callers know (Callers); *)
(* and that the accelerator rests between jobs (Rest), but for the last    *)
(* interrupt of kpu_start, which may come when its job is over             *)
(* (AfterLast).  Where the layers of a job are at any moment is Flow.      *)
(***************************************************************************)
EXTENDS Kpu, SequenceTheorems, TLAPS

-----------------------------------------------------------------------------
(***************************************************************************)
(* One hart: its thread and the handlers of its two interrupts.            *)
(***************************************************************************)
Hart1 == CHOOSE h \in Harts : TRUE
OneHart == Harts = {Hart1}

Th == <<Hart1, "thread">>
Dm == <<Hart1, "dma">>
Ai == <<Hart1, "ai">>

Running == {i \in Ids : state[i] = "running"}

\* An agent that is in the code of a running job works.
Quiet == {"idle", "cas", "entry", "callback", "leave"}
Works(a) == pc[a] \notin Quiet

-----------------------------------------------------------------------------
(***************************************************************************)
(* The accelerator and its channel.                                        *)
(***************************************************************************)
Empty == fifo = <<>> /\ engine = None /\ outp = None

\* nothing interrupts, or is about to
Calm == flags \cap mask = {} /\ ~pend

Buffer(i, side) == [id |-> i, channel |-> "ch", side |-> side]
Src == ctx["ch"].src
Dest == ctx["ch"].dest

NoChannel == /\ ~chan["ch"].run /\ ~chan["ch"].int
             /\ Src = None /\ Dest = None /\ bufs = {}
InUse == chan["ch"].run <=> ~chan["ch"].int

InputSet(i) == /\ chan["ch"].inten
               /\ dcb = [fn |-> IF job[i].api = "kmodel" THEN "step" ELSE "ready", id |-> i]
OutputSet(i) == /\ chan["ch"].inten
                /\ dcb = [fn |-> IF job[i].api = "kmodel" /\ next[i] # Size(i)
                                   THEN "step" ELSE "done", id |-> i]
Input(i) == InputSet(i) /\ InUse /\ Src = Buffer(i, "src") /\ Dest = None /\ bufs = {Src}
Output(i) == OutputSet(i) /\ InUse /\ Src = None /\ Dest = Buffer(i, "dest") /\ bufs = {Dest}

\* AI memory, then the output that waits for the DMA, the layer in work and the
\* FIFO: job i's input and its first n layers, in order.
One(x) == IF x = None THEN 0 ELSE 1
InOrder(i, n, m, o, e, f) ==
    /\ Len(m) # 0 /\ \A k \in DOMAIN m : m[k] = <<i, k - 1>>
    /\ o # None => o = <<i, Len(m)>> /\ e = None /\ f = <<>>
    /\ e # None => e = <<i, Len(m)>>
    /\ \A k \in DOMAIN f : f[k] = <<i, Len(m) + One(e) + k - 1>>
    /\ Len(m) + One(o) + One(e) + Len(f) = n + 1
Flow(i, n) == InOrder(i, n, mem, outp, engine, fifo)

Served(i) == handler[Hart1] = i /\ Hart1 \in aion

\* what the interrupts of a job rely on from its start on
Prepared(i) == /\ job[i].api # "start" => Served(i)
               /\ job[i].api = "run" => aiprio = 1 /\ cur = i

BurstFor(i) == Smaller(IF job[i].api = "run" THEN 1 ELSE Burst, Remain(i))

\* the layers of kpu_run and kpu_start on their way, n of them handed out
Streaming(i, n) == /\ state[i] = "running" /\ Output(i) /\ Flow(i, n)
                   /\ Prepared(i) /\ Served(i) /\ n <= Size(i)
                   /\ outp # None => Len(mem) = Size(i)
                   /\ chan["ch"].int => Len(mem) = Size(i) + 1

-----------------------------------------------------------------------------
(***************************************************************************)
(* The inductive invariant.                                                *)
(***************************************************************************)
Calling(i) == \E a \in Agents : pc[a] = "call" /\ arg[a] = i

\* At most one job runs, at most one more has been asked for; the flag of an
\* interface is set exactly while a job of it runs that has not been ended.
Callers ==
    /\ \A i, j \in Ids : state[i] = "running" /\ state[j] = "running" => i = j
    /\ \A i, j \in Ids : state[i] \in {"asked", "running"} /\ state[j] \in {"asked", "running"} =>
         job[i].api = job[j].api /\ (job[i].api = "kmodel" => i = j)
    /\ \A i \in Ids : state[i] = "asked" => \E a \in Agents : pc[a] = "cas" /\ arg[a] = i
    /\ \A a \in Agents : pc[a] = "cas" => state[arg[a]] = "asked"
    /\ \A a, b \in Agents : pc[a] = "cas" /\ pc[b] = "cas" => a = b
    /\ pc[Dm] \in {"cas", "callback"} \/ pc[Ai] \in {"cas", "callback"} => Running = {}
    /\ \A p \in Apis : busy[p] <=>
         p # "kmodel" /\ \E i \in Running : job[i].api = p /\ ~Calling(i)
    /\ \A i \in Ids : state[i] # "done" => calls[i] = 0
    /\ \A i \in Ids : state[i] = "new" => next[i] = 0
    /\ pc[Ai] = "cas" => Api(Ai) # "start" \/ job[arg[Ai]].load # "none"

\* Who may be where when one preempts another.
Nesting ==
    /\ pc[Th] \notin {"idle", "cas", "count", "unmask"} => pc[Dm] = "idle" /\ pc[Ai] = "idle"
    /\ pc[Th] \in {"count", "unmask"} =>
         pc[Ai] = "idle" /\ pc[Dm] \in {"idle", "entry", "done", "call", "callback", "leave"}
    /\ pc[Dm] \notin {"idle", "leave"} => pc[Ai] = "idle"
    /\ pc[Th] \notin {"entry", "callback", "leave"} /\ pc[Ai] # "entry"
    /\ Hart1 \in off => /\ pc[Ai] \notin {"feed", "push", "count"}
                        /\ \E a \in Agents : pc[a] \notin {"idle", "entry", "leave"}

\* A job is started on an accelerator that is at rest.
Starts(a) == \/ pc[a] \in {"task", "kmask", "load", "inreg", "indma"}
             \/ pc[a] = "aireg" /\ Api(a) # "start"
Begins(a) == LET i == arg[a] IN Starts(a) =>
    /\ state[i] = "running" /\ Empty /\ NoChannel /\ Calm
    /\ pc[a] # "task" => next[i] = 0
    /\ pc[a] = "task" /\ a = Ai => Api(a) # "start" \/ job[i].load # "none"
    /\ pc[a] \in {"kmask", "load"} => Api(a) = "kmodel"
    /\ pc[a] = "aireg" /\ Api(a) = "run" => cur = i
    /\ pc[a] = "load" => Served(i)
    /\ pc[a] \in {"inreg", "indma"} => Prepared(i) /\ job[i].load = "dma"
    /\ pc[a] = "indma" => InputSet(i)

\* kpu_run and kpu_start once the input is there, first before and then with
\* the channel that waits for the output.
Armed(a) == \/ pc[a] \in {"mask", "aireg"} /\ Api(a) = "start"
            \/ pc[a] = "unmask" /\ Api(a) = "run"
            \/ pc[a] \in {"feed", "push"} /\ a # Ai
Opens(a) == LET i == arg[a] IN
    /\ pc[a] \in {"ready", "mask", "unmask", "feed", "push", "count"} => Api(a) # "kmodel"
    /\ pc[a] \in {"ready", "outreg", "outdma", "unmask", "feed", "push", "count"} /\ Api(a) = "run" =>
         a # Th
    /\ pc[a] = "mask" => Api(a) = "start"
    /\ pc[a] = "ready" \/ (pc[a] \in {"outreg", "outdma"} /\ Api(a) # "kmodel") =>
         /\ state[i] = "running" /\ Empty /\ NoChannel /\ Calm
         /\ next[i] = 0 /\ Flow(i, 0) /\ Prepared(i) /\ a # Ai
         /\ pc[a] # "ready" /\ Api(a) = "run" => flags = {}
         /\ pc[a] = "outdma" => OutputSet(i)
    /\ Armed(a) =>
         /\ state[i] = "running" /\ Empty /\ Output(i) /\ chan["ch"].run /\ Calm
         /\ next[i] = 0 /\ Flow(i, 0) /\ Prepared(i) /\ a # Ai
         /\ Api(a) = "run" => flags = {}
         /\ Api(a) = "start" /\ pc[a] # "mask" => mask = {}
         /\ pc[a] \in {"feed", "push"} => Served(i)

\* From the first burst on.  A thread may be late: its output has left and the
\* handler ends the job.  The last interrupt of kpu_start may be later still.
Late(a, i) == /\ a = Th /\ Api(a) = "start"
              /\ \/ state[i] = "done" /\ Running = {}
                 \/ pc[Dm] \in {"done", "call"} /\ arg[Dm] = i
Feeds(a) == LET i == arg[a] IN
    /\ pc[a] = "count" /\ a # Ai =>
         /\ next[i] = 0
         /\ Streaming(i, BurstFor(i)) \/ (Late(a, i) /\ BurstFor(i) = Size(i))
         /\ Api(a) = "start" => mask = {} /\ ~pend /\ Served(i)
    /\ pc[a] = "unmask" /\ Api(a) = "start" =>
         /\ a # Ai /\ mask = {} /\ ~pend /\ Served(i)
         /\ Streaming(i, next[i]) \/ (Late(a, i) /\ next[i] = Size(i))
    /\ pc[a] \in {"feed", "push", "count"} /\ a = Ai =>
         /\ Served(i)
         /\ \/ Streaming(i, IF pc[a] = "count" THEN next[i] + BurstFor(i) ELSE next[i])
            \/ state[i] = "done" /\ Running = {} /\ Api(a) = "start" /\ next[i] = Size(i)

\* kpu_run_kmodel: who works has the accelerator to itself.
Layered(a) == LET i == arg[a] IN
    /\ pc[a] \in {"step", "conv", "send"} => Api(a) = "kmodel"
    /\ pc[a] \in {"step", "conv", "outreg", "outdma", "send", "done", "call"} /\ Api(a) = "kmodel" =>
         /\ state[i] = "running" /\ Empty /\ Served(i) /\ ~pend
         /\ pc[a] # "send" => NoChannel
         /\ (a = Ai /\ pc[a] \in {"step", "conv", "done"}) \/ Calm
         /\ pc[a] = "step" => next[i] < Size(i) /\ Flow(i, next[i])
         /\ pc[a] \in {"done", "call"} => next[i] = Size(i) /\ Flow(i, next[i])
         /\ pc[a] \in {"conv", "outreg", "outdma", "send"} =>
              next[i] # 0 /\ Flow(i, next[i] - 1) /\ Kind(i, next[i]) # "cpu"
         /\ pc[a] \in {"outreg", "outdma"} => Kind(i, next[i]) = "out" /\ mask = {}
         /\ pc[a] = "outdma" => OutputSet(i)
         /\ pc[a] = "send" => IF Kind(i, next[i]) = "out"
                                THEN Output(i) /\ chan["ch"].run /\ mask = {}
                                ELSE NoChannel /\ mask = {"calc"} /\ flags = {}

\* The end of kpu_run and kpu_start.
Ends(a) == LET i == arg[a] IN pc[a] \in {"done", "call"} /\ Api(a) # "kmodel" =>
    /\ state[i] = "running" /\ Empty /\ NoChannel /\ Calm /\ Flow(i, Size(i)) /\ a = Dm
    /\ Api(a) = "run" => cur = i

AtPlace(a) == Begins(a) /\ Opens(a) /\ Feeds(a) /\ Layered(a) /\ Ends(a)

\* A job nobody works for waits for the channel or for the accelerator.
Loading(i) == /\ Input(i) /\ Empty /\ Calm /\ next[i] = 0 /\ Prepared(i)
              /\ chan["ch"].int => Flow(i, 0)
InLayer(i) ==
    /\ job[i].api = "kmodel" /\ next[i] # 0 /\ Flow(i, next[i]) /\ Served(i)
    /\ next[i] <= Len(mem) /\ Kind(i, next[i]) # "cpu"
    /\ outp # None => Kind(i, next[i]) = "out"
    /\ IF Kind(i, next[i]) = "out"
         THEN Output(i) /\ mask = {} /\ ~pend /\ (chan["ch"].int => Empty)
         ELSE /\ NoChannel /\ mask = {"calc"}
              /\ IF Empty THEN "calc" \in flags ELSE "calc" \notin flags /\ ~pend
Waits(i) == Loading(i) \/ (job[i].api # "kmodel" /\ Streaming(i, next[i])) \/ InLayer(i)
Waiting == \A i \in Running : (\A a \in Agents : Works(a) => arg[a] # i) => Waits(i)

\* The handler of the channel finds it and the accelerator at rest.
Entered == pc[Dm] = "entry" => chan["ch"].int /\ Calm /\ Running = {dcb.id}

\* Between jobs all is at rest, but for the last interrupt of kpu_start.
AfterLast == LET i == handler[Hart1] IN
    /\ Hart1 \in aion /\ i # None
    /\ state[i] = "done" /\ job[i].api = "start" /\ next[i] = Size(i)
    /\ pc[Th] = "idle" /\ pc[Dm] = "idle" /\ pc[Ai] \in {"idle", "feed", "push", "count", "leave"}
Rest == Running = {} => /\ Empty /\ NoChannel
                        /\ (Calm /\ pc[Ai] \notin {"feed", "push", "count"}) \/ AfterLast

Core == /\ Callers /\ Nesting /\ Waiting /\ Entered /\ Rest
        /\ \A a \in Agents : AtPlace(a)
Inv == TypeOK /\ ResultRight /\ Core

-----------------------------------------------------------------------------
(***************************************************************************)
(* Jobs and agents.                                                        *)
(***************************************************************************)
LEMMA AgentFacts ==
    ASSUME OneHart
    PROVE  /\ Agents = {Th, Dm, Ai}
           /\ Th # Dm /\ Th # Ai /\ Dm # Ai
           /\ Hart(Th) = Hart1 /\ Hart(Dm) = Hart1 /\ Hart(Ai) = Hart1
           /\ Th[2] = "thread" /\ Dm[2] = "dma" /\ Ai[2] = "ai"
           /\ Hart1 \in Harts
           /\ \A h \in Harts : h = Hart1
<1>1. /\ Th # Dm /\ Th # Ai /\ Dm # Ai
      /\ Hart(Th) = Hart1 /\ Hart(Dm) = Hart1 /\ Hart(Ai) = Hart1
      /\ Th[2] = "thread" /\ Dm[2] = "dma" /\ Ai[2] = "ai"
    BY DEF Th, Dm, Ai, Hart
<1>2. Hart1 \in Harts /\ \A h \in Harts : h = Hart1
    BY DEF OneHart
<1>3. Agents = {Th, Dm, Ai}
  <2>1. Agents = {Hart1} \X {"thread", "dma", "ai"}
      BY DEF Agents, Levels, OneHart
  <2> QED BY <2>1 DEF Th, Dm, Ai
<1> QED BY <1>1, <1>2, <1>3

\* what the model compiler and the callers make sure of, for any job
LEMMA AnyJob ==
    ASSUME NEW j \in Jobs \cup {NoJob}
    PROVE  /\ j \in JobType
           /\ j.kinds # <<>> /\ j.kinds[Len(j.kinds)] # "conv"
           /\ j.api = "run" => j.load = "dma"
           /\ j.api = "start" => j.load \in {"dma", "none"}
           /\ j.api = "kmodel" => j.load \in {"dma", "cpu"}
           /\ j.api # "kmodel" =>
                \A k \in DOMAIN j.kinds : j.kinds[k] = (IF k = Len(j.kinds) THEN "out" ELSE "conv")
<1>1. CASE j \in Jobs
    BY <1>1, JobAssumption
<1>2. CASE j = NoJob
  <2>1. NoJob.kinds = <<"out">> /\ NoJob.api = "run" /\ NoJob.load = "dma"
      BY DEF NoJob
  <2>2. Len(<<"out">>) = 1 /\ DOMAIN <<"out">> = {1} /\ <<"out">>[1] = "out" /\ <<"out">> # <<>>
      OBVIOUS
  <2>3. <<"out">> \in Seq({"conv", "out", "cpu"})
      OBVIOUS
  <2>4. NoJob \in JobType
      BY <2>3 DEF NoJob, JobType, Apis
  <2> QED BY <1>2, <2>1, <2>2, <2>4
<1> QED BY <1>1, <1>2

LEMMA JobFacts ==
    ASSUME TypeOK, NEW i \in Ids
    PROVE  /\ Size(i) \in Nat /\ Size(i) # 0
           /\ job[i].api \in Apis
           /\ Kind(i, Size(i)) # "conv"
           /\ \A k \in 1 .. Size(i) : Kind(i, k) \in {"conv", "out", "cpu"}
           /\ job[i].api = "run" => job[i].load = "dma"
           /\ job[i].api = "start" => job[i].load \in {"dma", "none"}
           /\ job[i].api = "kmodel" => job[i].load \in {"dma", "cpu"}
           /\ job[i].api # "kmodel" =>
                \A k \in 1 .. Size(i) : Kind(i, k) = (IF k = Size(i) THEN "out" ELSE "conv")
           /\ next[i] \in Nat /\ next[i] <= Size(i)
<1>1. job[i] \in Jobs \cup {NoJob} /\ next[i] \in Nat /\ next[i] <= Size(i)
    BY DEF TypeOK
<1> DEFINE j == job[i]
<1>2. /\ j \in JobType
      /\ j.kinds # <<>> /\ j.kinds[Len(j.kinds)] # "conv"
      /\ j.api = "run" => j.load = "dma"
      /\ j.api = "start" => j.load \in {"dma", "none"}
      /\ j.api = "kmodel" => j.load \in {"dma", "cpu"}
      /\ j.api # "kmodel" =>
           \A k \in DOMAIN j.kinds : j.kinds[k] = (IF k = Len(j.kinds) THEN "out" ELSE "conv")
    BY <1>1, AnyJob
<1>3. j.kinds \in Seq({"conv", "out", "cpu"}) /\ j.api \in Apis
    BY <1>2 DEF JobType
<1>4. DOMAIN j.kinds = 1 .. Size(i) /\ Size(i) \in Nat /\ Size(i) # 0
    BY <1>2, <1>3 DEF Size
<1> QED BY <1>1, <1>2, <1>3, <1>4 DEF Size, Kind

-----------------------------------------------------------------------------
(***************************************************************************)
(* The layers on their way through the accelerator.                        *)
(***************************************************************************)
LEMMA InOrderInput ==
    ASSUME NEW i
    PROVE  InOrder(i, 0, <<<<i, 0>>>>, None, None, <<>>)
<1>1. Len(<<<<i, 0>>>>) = 1 /\ DOMAIN <<<<i, 0>>>> = {1} /\ <<<<i, 0>>>>[1] = <<i, 0>>
    OBVIOUS
<1>2. \A k \in DOMAIN <<<<i, 0>>>> : <<<<i, 0>>>>[k] = <<i, k - 1>>
    BY <1>1
<1>3. Len(<<>>) = 0 /\ DOMAIN <<>> = {}
    OBVIOUS
<1> QED BY <1>1, <1>2, <1>3 DEF InOrder, One

\* what the places of job i's layers say of how many they are
LEMMA InOrderBounds ==
    ASSUME NEW i, NEW n \in Nat, NEW m \in Seq(Layers), NEW o \in Layers \cup {None},
           NEW e \in Layers \cup {None}, NEW f \in Seq(Layers), InOrder(i, n, m, o, e, f)
    PROVE  /\ Len(m) \in Nat /\ Len(m) # 0 /\ Len(m) <= n + 1
           /\ Len(m) = n + 1 => o = None /\ e = None /\ f = <<>>
           /\ o = None /\ e = None /\ f = <<>> => Len(m) = n + 1
           /\ o # None => o = <<i, Len(m)>> /\ e = None /\ f = <<>> /\ Len(m) = n
           /\ e # None => o = None /\ e = <<i, Len(m)>> /\ Len(m) + Len(f) = n
           /\ f # <<>> => o = None /\ Len(m) <= n /\ Head(f)[1] = i
<1>1. Len(m) \in Nat /\ Len(f) \in Nat /\ (f = <<>> <=> Len(f) = 0)
    OBVIOUS
<1>2. One(o) \in {0, 1} /\ One(e) \in {0, 1} /\ (o = None <=> One(o) = 0) /\ (e = None <=> One(e) = 0)
    BY DEF One
<1>3. /\ Len(m) # 0
      /\ o # None => o = <<i, Len(m)>> /\ e = None /\ f = <<>>
      /\ e # None => e = <<i, Len(m)>>
      /\ \A k \in DOMAIN f : f[k] = <<i, Len(m) + One(e) + k - 1>>
      /\ Len(m) + One(o) + One(e) + Len(f) = n + 1
    BY DEF InOrder
<1>4. ASSUME f # <<>> PROVE Head(f)[1] = i
  <2>1. 1 \in DOMAIN f /\ Head(f) = f[1]
      BY <1>4
  <2>2. f[1] = <<i, Len(m) + One(e) + 1 - 1>>
      BY <2>1, <1>3
  <2> QED BY <2>1, <2>2
<1>5. Len(m) + One(o) + One(e) + Len(f) = n + 1
    BY <1>3
<1>6. /\ Len(m) <= n + 1
      /\ Len(m) = n + 1 => One(o) = 0 /\ One(e) = 0 /\ Len(f) = 0
      /\ One(o) = 0 /\ One(e) = 0 /\ Len(f) = 0 => Len(m) = n + 1
      /\ One(o) = 1 /\ One(e) = 0 /\ Len(f) = 0 => Len(m) = n
      /\ One(e) = 1 /\ One(o) = 0 => Len(m) + Len(f) = n
      /\ Len(f) # 0 => Len(m) <= n
    BY ONLY <1>1, <1>2, <1>5, n \in Nat
<1> QED BY <1>1, <1>2, <1>3, <1>4, <1>6

LEMMA InOrderResult ==
    ASSUME NEW i, NEW n \in Nat, NEW m \in Seq(Layers), InOrder(i, n, m, None, None, <<>>)
    PROVE  m = [k \in 1 .. n + 1 |-> <<i, k - 1>>]
<1>1. Len(m) = n + 1 /\ \A k \in DOMAIN m : m[k] = <<i, k - 1>>
  <2>1. Len(<<>>) = 0
      OBVIOUS
  <2>2. Len(m) \in Nat
      OBVIOUS
  <2> QED BY <2>1, <2>2 DEF InOrder, One
<1>2. DOMAIN m = 1 .. n + 1 /\ m = [k \in DOMAIN m |-> m[k]]
    BY <1>1
<1> QED BY <1>1, <1>2

\* one more layer at the end of AI memory
LEMMA InOrderAppend ==
    ASSUME NEW i, NEW m \in Seq(Layers), \A k \in DOMAIN m : m[k] = <<i, k - 1>>,
           NEW x, x = <<i, Len(m)>>
    PROVE  /\ Len(Append(m, x)) = Len(m) + 1
           /\ \A k \in DOMAIN Append(m, x) : Append(m, x)[k] = <<i, k - 1>>
<1>1. Len(m) \in Nat /\ DOMAIN m = 1 .. Len(m)
    OBVIOUS
<1>2. Len(Append(m, x)) = Len(m) + 1 /\ DOMAIN Append(m, x) = 1 .. Len(m) + 1
    OBVIOUS
<1>3. ASSUME NEW k \in DOMAIN Append(m, x) PROVE Append(m, x)[k] = <<i, k - 1>>
  <2>1. CASE k = Len(m) + 1
    <3>1. Append(m, x)[k] = x /\ k - 1 = Len(m)
        BY <1>1, <2>1
    <3> QED BY <3>1
  <2>2. CASE k # Len(m) + 1
    <3>1. k \in 1 .. Len(m)
        BY <1>1, <1>2, <2>2
    <3>2. Append(m, x)[k] = m[k]
        BY <1>1, <3>1
    <3> QED BY <1>1, <3>1, <3>2
  <2> QED BY <2>1, <2>2
<1> QED BY <1>2, <1>3

LEMMA InOrderCpu ==
    ASSUME NEW i, NEW n \in Nat, NEW m \in Seq(Layers), InOrder(i, n, m, None, None, <<>>)
    PROVE  InOrder(i, n + 1, Append(m, <<i, n + 1>>), None, None, <<>>)
<1>1. Len(m) \in Nat /\ Len(<<>>) = 0 /\ DOMAIN <<>> = {}
    OBVIOUS
<1>2. Len(m) = n + 1 /\ \A k \in DOMAIN m : m[k] = <<i, k - 1>>
    BY <1>1 DEF InOrder, One
<1> DEFINE x == <<i, n + 1>>
<1>3. /\ Len(Append(m, x)) = n + 2
      /\ \A k \in DOMAIN Append(m, x) : Append(m, x)[k] = <<i, k - 1>>
    BY <1>2, InOrderAppend
<1> HIDE DEF x
<1> SUFFICES InOrder(i, n + 1, Append(m, x), None, None, <<>>)
    BY DEF x
<1> QED BY <1>1, <1>3 DEF InOrder, One

LEMMA InOrderSend ==
    ASSUME NEW i, NEW n \in Nat, NEW m \in Seq(Layers), InOrder(i, n, m, None, None, <<>>)
    PROVE  InOrder(i, n + 1, m, None, None, Append(<<>>, <<i, n + 1>>))
<1>1. Len(m) \in Nat /\ Len(<<>>) = 0 /\ DOMAIN <<>> = {}
    OBVIOUS
<1>2. Len(m) = n + 1 /\ \A k \in DOMAIN m : m[k] = <<i, k - 1>>
    BY <1>1 DEF InOrder, One
<1> DEFINE f == Append(<<>>, <<i, n + 1>>)
<1>3. Len(f) = 1 /\ DOMAIN f = {1} /\ f[1] = <<i, n + 1>>
    OBVIOUS
<1> HIDE DEF f
<1>4. \A k \in DOMAIN f : f[k] = <<i, Len(m) + 0 + k - 1>>
  <2>1. Len(m) + 0 + 1 - 1 = n + 1
      BY <1>2
  <2> QED BY <1>3, <2>1
<1>5. InOrder(i, n + 1, m, None, None, f)
    BY <1>1, <1>2, <1>3, <1>4 DEF InOrder, One
<1> QED BY <1>5 DEF f

\* the place of the k-th layer in the FIFO, when it is behind l others
LEMMA PushedPlace ==
    ASSUME NEW n \in Nat, NEW k \in Nat, NEW l \in Nat, NEW p \in Nat, NEW x \in Nat,
           p + x + l = n + 1
    PROVE  n + (k - l) = p + x + k - 1
OBVIOUS

\* the next s layers in the FIFO
LEMMA InOrderPush ==
    ASSUME NEW i, NEW n \in Nat, NEW m \in Seq(Layers), NEW o \in Layers \cup {None},
           NEW e \in Layers \cup {None}, NEW f \in Seq(Layers), InOrder(i, n, m, o, e, f),
           NEW s \in Nat, o # None => s = 0
    PROVE  InOrder(i, n + s, m, o, e, f \o [k \in 1 .. s |-> <<i, n + k>>])
<1> DEFINE g == [k \in 1 .. s |-> <<i, n + k>>]
<1> DEFINE f2 == f \o g
<1>0. Len(m) + One(o) + One(e) + Len(f) = n + 1
    BY DEF InOrder
<1>1. /\ Len(m) # 0 /\ \A k \in DOMAIN m : m[k] = <<i, k - 1>>
      /\ o # None => o = <<i, Len(m)>> /\ e = None /\ f = <<>>
      /\ e # None => e = <<i, Len(m)>>
      /\ \A k \in DOMAIN f : f[k] = <<i, Len(m) + One(e) + k - 1>>
      /\ Len(m) + One(o) + One(e) + Len(f) = n + 1
    BY DEF InOrder
<1>2. Len(m) \in Nat /\ Len(f) \in Nat /\ One(o) \in {0, 1} /\ One(e) \in {0, 1} /\ DOMAIN f = 1 .. Len(f)
    BY DEF One
<1>3. g \in Seq({<<i, n + k>> : k \in 1 .. s}) /\ Len(g) = s
  <2>1. g \in [1 .. s -> {<<i, n + k>> : k \in 1 .. s}]
      OBVIOUS
  <2>2. g \in Seq({<<i, n + k>> : k \in 1 .. s})
    <3> HIDE DEF g
    <3> DEFINE S == {<<i, n + k>> : k \in 1 .. s}
    <3>1. g \in [1 .. s -> S]
        BY <2>1
    <3> HIDE DEF S
    <3>2. g \in Seq(S)
        BY <3>1, s \in Nat
    <3> QED BY <3>2 DEF S
  <2>3. Len(g) = s
      BY <2>1, <2>2, LenProperties
  <2> QED BY <2>2, <2>3
<1>4. Len(f2) = Len(f) + s /\ DOMAIN f2 = 1 .. Len(f) + s
    BY <1>3
<1>5. \A k \in 1 .. Len(f) : f2[k] = f[k]
    BY <1>2, <1>3
<1>6. \A k \in Len(f) + 1 .. Len(f) + s : f2[k] = g[k - Len(f)]
    BY <1>2, <1>3
<1>7. \A k \in 1 .. s : g[k] = <<i, n + k>>
    OBVIOUS
<1> HIDE DEF g, f2
<1>8. o # None => f2 = <<>>
  <2>1. o # None => Len(f2) = 0
      BY <1>1, <1>4
  <2>2. f2 \in Seq(Layers \cup {<<i, n + k>> : k \in 1 .. s})
    <3>1. g \in Seq(Layers \cup {<<i, n + k>> : k \in 1 .. s}) /\ f \in Seq(Layers \cup {<<i, n + k>> : k \in 1 .. s})
        BY <1>3
    <3> QED BY <3>1 DEF f2
  <2> QED BY <2>1, <2>2
<1>9. ASSUME NEW k \in DOMAIN f2 PROVE f2[k] = <<i, Len(m) + One(e) + k - 1>>
  <2>1. CASE k \in 1 .. Len(f)
      BY <2>1, <1>1, <1>2, <1>5
  <2>2. CASE k \notin 1 .. Len(f)
    <3>1. k \in Len(f) + 1 .. Len(f) + s /\ k - Len(f) \in 1 .. s
        BY <2>2, <1>2, <1>4
    <3>2. f2[k] = <<i, n + (k - Len(f))>>
        BY <3>1, <1>6, <1>7
    <3>3. One(o) = 0
        BY <3>1, <1>2 DEF One
    <3>4. n + (k - Len(f)) = Len(m) + One(e) + k - 1
      <4>1. Len(f) \in Nat /\ Len(m) \in Nat /\ One(e) \in Nat
          BY <1>2
      <4>2. k \in Nat
          BY ONLY <3>1, <4>1, s \in Nat
      <4>3. Len(m) + 0 + One(e) + Len(f) = n + 1
          BY <1>0, <3>3
      <4>4. PICK l \in Nat : l = Len(f)
          BY <4>1
      <4>5. PICK p \in Nat : p = Len(m)
          BY <4>1
      <4>6. PICK x \in Nat : x = One(e)
          BY <4>1
      <4>7. p + x + l = n + 1
          BY <4>1, <4>3, <4>4, <4>5, <4>6
      <4>8. n + (k - l) = p + x + k - 1
          BY <4>2, <4>7, PushedPlace
      <4> QED BY <4>4, <4>5, <4>6, <4>8
    <3> QED BY <3>2, <3>4
  <2> QED BY <2>1, <2>2
<1>10. Len(m) + One(o) + One(e) + Len(f2) = (n + s) + 1
    BY ONLY <1>0, <1>2, <1>4, n \in Nat, s \in Nat
<1>11. InOrder(i, n + s, m, o, e, f2)
    BY <1>1, <1>8, <1>9, <1>10 DEF InOrder
<1> QED BY <1>11 DEF f2, g

\* the accelerator takes the next layer
LEMMA InOrderPop ==
    ASSUME NEW i, NEW n \in Nat, NEW m \in Seq(Layers), NEW o \in Layers \cup {None},
           NEW f \in Seq(Layers), InOrder(i, n, m, o, None, f), f # <<>>
    PROVE  InOrder(i, n, m, o, Head(f), Tail(f))
<1>1. /\ Len(m) # 0 /\ \A k \in DOMAIN m : m[k] = <<i, k - 1>>
      /\ o = None
      /\ \A k \in DOMAIN f : f[k] = <<i, Len(m) + 0 + k - 1>>
      /\ Len(m) + 0 + 0 + Len(f) = n + 1
    BY DEF InOrder, One
<1>2. Len(m) \in Nat /\ Len(f) \in Nat /\ DOMAIN f = 1 .. Len(f) /\ Len(f) # 0
    OBVIOUS
<1>3. Head(f) = f[1] /\ Len(Tail(f)) = Len(f) - 1 /\ DOMAIN Tail(f) = 1 .. Len(f) - 1
      /\ Head(f) \in Layers
    OBVIOUS
<1>4. \A k \in 1 .. Len(f) - 1 : Tail(f)[k] = f[k + 1]
    OBVIOUS
<1>5. Head(f) = <<i, Len(m)>>
    BY <1>1, <1>2, <1>3
<1>6. \A k \in DOMAIN Tail(f) : Tail(f)[k] = <<i, Len(m) + 1 + k - 1>>
  <2> SUFFICES ASSUME NEW k \in DOMAIN Tail(f) PROVE Tail(f)[k] = <<i, Len(m) + 1 + k - 1>>
      OBVIOUS
  <2>1. k \in 1 .. Len(f) - 1 /\ k + 1 \in 1 .. Len(f)
      BY <1>2, <1>3
  <2>2. Tail(f)[k] = <<i, Len(m) + 0 + (k + 1) - 1>>
      BY <2>1, <1>1, <1>2, <1>4
  <2>3. Len(m) + 0 + (k + 1) - 1 = Len(m) + 1 + k - 1
      BY <2>1, <1>2
  <2> QED BY <2>2, <2>3
<1>7. One(Head(f)) = 1 /\ One(None) = 0
    BY <1>3, ChannelAssumption DEF One
<1>8. Len(m) + 0 + 1 + Len(Tail(f)) = n + 1
  <2>1. Len(m) + 0 + 0 + Len(f) = n + 1 /\ Len(Tail(f)) = Len(f) - 1
      BY <1>1, <1>3
  <2> QED BY ONLY <2>1, <1>2, n \in Nat
<1> QED BY <1>1, <1>5, <1>6, <1>7, <1>8 DEF InOrder

\* a layer that stays in AI memory is calculated
LEMMA InOrderConv ==
    ASSUME NEW i, NEW n \in Nat, NEW m \in Seq(Layers), NEW o \in Layers \cup {None},
           NEW e \in Layers, NEW f \in Seq(Layers), InOrder(i, n, m, o, e, f)
    PROVE  InOrder(i, n, Append(m, e), o, None, f)
<1>1. e # None
    BY ChannelAssumption
<1>2. /\ \A k \in DOMAIN m : m[k] = <<i, k - 1>>
      /\ o = None /\ e = <<i, Len(m)>>
      /\ \A k \in DOMAIN f : f[k] = <<i, Len(m) + 1 + k - 1>>
      /\ Len(m) + 0 + 1 + Len(f) = n + 1
    BY <1>1 DEF InOrder, One
<1> DEFINE m2 == Append(m, e)
<1>3. Len(m) \in Nat /\ Len(f) \in Nat /\ DOMAIN f = 1 .. Len(f)
    OBVIOUS
<1>4. Len(m2) = Len(m) + 1 /\ \A k \in DOMAIN m2 : m2[k] = <<i, k - 1>>
    BY <1>2, InOrderAppend
<1> HIDE DEF m2
<1>5. \A k \in DOMAIN f : f[k] = <<i, Len(m2) + 0 + k - 1>>
    BY <1>2, <1>3, <1>4
<1>6. InOrder(i, n, m2, None, None, f)
    BY <1>2, <1>3, <1>4, <1>5 DEF InOrder, One
<1> QED BY <1>2, <1>6 DEF m2

\* a layer whose output the DMA moves is calculated, the last one so far
LEMMA InOrderOut ==
    ASSUME NEW i, NEW n \in Nat, NEW m \in Seq(Layers), NEW o \in Layers \cup {None},
           NEW e \in Layers, InOrder(i, n, m, o, e, <<>>)
    PROVE  InOrder(i, n, m, e, None, <<>>)
<1>1. e # None
    BY ChannelAssumption
<1>2. Len(<<>>) = 0 /\ DOMAIN <<>> = {} /\ Len(m) \in Nat
    OBVIOUS
<1> QED BY <1>1, <1>2 DEF InOrder, One

\* the DMA has moved an output
LEMMA InOrderTransfer ==
    ASSUME NEW i, NEW n \in Nat, NEW m \in Seq(Layers), NEW o \in Layers,
           NEW e \in Layers \cup {None}, NEW f \in Seq(Layers), InOrder(i, n, m, o, e, f)
    PROVE  InOrder(i, n, Append(m, o), None, e, f)
<1>1. o # None
    BY ChannelAssumption
<1>2. Len(<<>>) = 0 /\ DOMAIN <<>> = {} /\ Len(m) \in Nat
    OBVIOUS
<1>3. /\ \A k \in DOMAIN m : m[k] = <<i, k - 1>>
      /\ o = <<i, Len(m)>> /\ e = None /\ f = <<>>
      /\ Len(m) + 1 + 0 + 0 = n + 1
    BY <1>1, <1>2 DEF InOrder, One
<1> DEFINE m2 == Append(m, o)
<1>4. Len(m2) = Len(m) + 1 /\ \A k \in DOMAIN m2 : m2[k] = <<i, k - 1>>
    BY <1>3, InOrderAppend
<1> HIDE DEF m2
<1>5. InOrder(i, n, m2, None, None, <<>>)
    BY <1>2, <1>3, <1>4 DEF InOrder, One
<1> QED BY <1>3, <1>5 DEF m2

-----------------------------------------------------------------------------
(***************************************************************************)
(* The channel.                                                            *)
(***************************************************************************)
ChannelStates == [run : BOOLEAN, int : BOOLEAN, inten : BOOLEAN]
Contexts == [callback : BOOLEAN, src : Buffers \cup {None}, dest : Buffers \cup {None}]

LEMMA ChannelType ==
    ASSUME DmacTypeOK
    PROVE  /\ DOMAIN chan = {"ch"} /\ DOMAIN ctx = {"ch"}
           /\ chan["ch"] \in ChannelStates
           /\ ctx["ch"] \in Contexts
           /\ "ch" \in Channels /\ \A c \in Channels : c = "ch"
<1>1. Channels = {"ch"}
    BY ChannelAssumption
<1> QED BY <1>1 DEF DmacTypeOK, ChannelStates, Contexts

LEMMA BufferFacts ==
    ASSUME NEW i \in Ids
    PROVE  /\ Buffer(i, "src") \in Buffers /\ Buffer(i, "dest") \in Buffers
           /\ Buffer(i, "src") # None /\ Buffer(i, "dest") # None
           /\ Buffer(i, "src").id = i /\ Buffer(i, "dest").id = i
           /\ Buffer(i, "src").side = "src" /\ Buffer(i, "dest").side = "dest"
<1>1. Buffer(i, "src") \in Buffers /\ Buffer(i, "dest") \in Buffers
    BY ChannelAssumption DEF Buffer, Buffers
<1> QED BY <1>1, NoneAssumption DEF Buffer

LEMMA RegisterFacts ==
    ASSUME DmacTypeOK, NEW h \in Harts, IrqRegister(h, "ch"), UNCHANGED <<bufs, copied>>
    PROVE  /\ DmacTypeOK'
           /\ chan'["ch"].run = chan["ch"].run /\ ~chan'["ch"].int /\ chan'["ch"].inten
           /\ Src' = Src /\ Dest' = Dest
<1>1. chan \in [{"ch"} -> ChannelStates] /\ ctx \in [{"ch"} -> Contexts]
    BY ChannelAssumption DEF DmacTypeOK, ChannelStates, Contexts
<1>2. chan' = [chan EXCEPT !["ch"].int = FALSE, !["ch"].inten = TRUE]
    BY DEF IrqRegister
<1>3. /\ chan'["ch"].run = chan["ch"].run /\ chan'["ch"].int = FALSE /\ chan'["ch"].inten = TRUE
      /\ chan' \in [{"ch"} -> ChannelStates]
    BY <1>1, <1>2 DEF ChannelStates, Contexts
<1>4. ctx' = [ctx EXCEPT !["ch"].callback = TRUE]
    BY DEF IrqRegister
<1>5. /\ ctx'["ch"].src = ctx["ch"].src /\ ctx'["ch"].dest = ctx["ch"].dest
      /\ ctx' \in [{"ch"} -> Contexts]
    BY <1>1, <1>4 DEF ChannelStates, Contexts
<1>6. registered' \in [Harts -> SUBSET Channels] /\ enabled' \in [Harts -> SUBSET Channels]
    BY ChannelAssumption DEF DmacTypeOK, ChannelStates, Contexts, IrqRegister
<1> QED BY <1>3, <1>5, <1>6, ChannelAssumption DEF DmacTypeOK, ChannelStates, Contexts, Src, Dest

LEMMA InputFacts ==
    ASSUME DmacTypeOK, NEW i \in Ids, SetSingleMode(i, {"ch"}, {}), UNCHANGED <<copied, registered, enabled>>
    PROVE  /\ DmacTypeOK'
           /\ chan'["ch"].run /\ ~chan'["ch"].int /\ chan'["ch"].inten = chan["ch"].inten
           /\ Src' = Buffer(i, "src") /\ Dest' = Dest /\ bufs' = bufs \cup {Buffer(i, "src")}
<1>1. chan["ch"] \in ChannelStates /\ ctx["ch"] \in Contexts
    BY ChannelAssumption DEF DmacTypeOK, ChannelStates, Contexts
<1>2. chan' = [c \in Channels |-> [chan["ch"] EXCEPT !.int = FALSE, !.run = TRUE]]
    BY ChannelAssumption DEF SetSingleMode
<1>3. chan'["ch"] = [chan["ch"] EXCEPT !.int = FALSE, !.run = TRUE]
    BY <1>2, ChannelAssumption
<1>4. chan'["ch"].run /\ ~chan'["ch"].int /\ chan'["ch"].inten = chan["ch"].inten /\ chan'["ch"] \in ChannelStates
    BY <1>1, <1>3 DEF ChannelStates, Contexts
<1>5. ctx'["ch"] = [ctx["ch"] EXCEPT !.src = Buffer(i, "src"), !.dest = ctx["ch"].dest]
    BY ChannelAssumption DEF SetSingleMode, Buffer
<1>6. Buffer(i, "src") \in Buffers
    BY BufferFacts
<1>7. ctx'["ch"].src = Buffer(i, "src") /\ ctx'["ch"].dest = ctx["ch"].dest /\ ctx'["ch"] \in Contexts
    BY <1>1, <1>5, <1>6 DEF ChannelStates, Contexts
<1>8. bufs' = bufs \cup {Buffer(i, "src")}
    BY DEF SetSingleMode, Buffer
<1>9. chan' = [c \in Channels |-> chan'[c]] /\ ctx' = [c \in Channels |-> ctx'[c]]
    BY DEF SetSingleMode
<1>10. chan' \in [Channels -> ChannelStates] /\ ctx' \in [Channels -> Contexts]
    BY <1>4, <1>7, <1>9, ChannelAssumption
<1> QED BY <1>4, <1>6, <1>7, <1>8, <1>10 DEF DmacTypeOK, ChannelStates, Contexts, Src, Dest

LEMMA OutputFacts ==
    ASSUME DmacTypeOK, NEW i \in Ids, SetSingleMode(i, {}, {"ch"}), UNCHANGED <<copied, registered, enabled>>
    PROVE  /\ DmacTypeOK'
           /\ chan'["ch"].run /\ ~chan'["ch"].int /\ chan'["ch"].inten = chan["ch"].inten
           /\ Dest' = Buffer(i, "dest") /\ Src' = Src /\ bufs' = bufs \cup {Buffer(i, "dest")}
<1>1. chan["ch"] \in ChannelStates /\ ctx["ch"] \in Contexts
    BY ChannelAssumption DEF DmacTypeOK, ChannelStates, Contexts
<1>2. chan' = [c \in Channels |-> [chan["ch"] EXCEPT !.int = FALSE, !.run = TRUE]]
    BY ChannelAssumption DEF SetSingleMode
<1>3. chan'["ch"] = [chan["ch"] EXCEPT !.int = FALSE, !.run = TRUE]
    BY <1>2, ChannelAssumption
<1>4. chan'["ch"].run /\ ~chan'["ch"].int /\ chan'["ch"].inten = chan["ch"].inten /\ chan'["ch"] \in ChannelStates
    BY <1>1, <1>3 DEF ChannelStates, Contexts
<1>5. ctx'["ch"] = [ctx["ch"] EXCEPT !.src = ctx["ch"].src, !.dest = Buffer(i, "dest")]
    BY ChannelAssumption DEF SetSingleMode, Buffer
<1>6. Buffer(i, "dest") \in Buffers
    BY BufferFacts
<1>7. ctx'["ch"].dest = Buffer(i, "dest") /\ ctx'["ch"].src = ctx["ch"].src /\ ctx'["ch"] \in Contexts
    BY <1>1, <1>5, <1>6 DEF ChannelStates, Contexts
<1>8. bufs' = bufs \cup {Buffer(i, "dest")}
    BY DEF SetSingleMode, Buffer
<1>9. chan' = [c \in Channels |-> chan'[c]] /\ ctx' = [c \in Channels |-> ctx'[c]]
    BY DEF SetSingleMode
<1>10. chan' \in [Channels -> ChannelStates] /\ ctx' \in [Channels -> Contexts]
    BY <1>4, <1>7, <1>9, ChannelAssumption
<1> QED BY <1>4, <1>6, <1>7, <1>8, <1>10 DEF DmacTypeOK, ChannelStates, Contexts, Src, Dest

LEMMA ClearFacts ==
    ASSUME DmacTypeOK, ClearInterrupt({"ch"})
    PROVE  /\ chan'["ch"].run = chan["ch"].run /\ ~chan'["ch"].int /\ chan'["ch"].inten = chan["ch"].inten
           /\ chan' \in [Channels -> ChannelStates]
<1>1. chan["ch"] \in ChannelStates
    BY ChannelAssumption DEF DmacTypeOK, ChannelStates, Contexts
<1>2. chan'["ch"] = [chan["ch"] EXCEPT !.int = FALSE]
    BY ChannelAssumption DEF ClearInterrupt
<1>3. chan'["ch"].run = chan["ch"].run /\ ~chan'["ch"].int /\ chan'["ch"].inten = chan["ch"].inten /\ chan'["ch"] \in ChannelStates
    BY <1>1, <1>2 DEF ChannelStates, Contexts
<1>4. chan' = [c \in Channels |-> chan'[c]]
    BY DEF ClearInterrupt
<1> QED BY <1>3, <1>4, ChannelAssumption

LEMMA SettleFacts ==
    ASSUME DmacTypeOK, Settle({"ch"})
    PROVE  /\ Src' = None /\ Dest' = None /\ bufs' = bufs \ {Src, Dest}
           /\ ctx' \in [Channels -> Contexts]
           /\ bufs' \subseteq Buffers /\ copied' \subseteq Ids
<1>1. ctx["ch"] \in Contexts
    BY ChannelAssumption DEF DmacTypeOK, ChannelStates, Contexts
<1>2. ctx'["ch"] = [ctx["ch"] EXCEPT !.src = None, !.dest = None]
    BY ChannelAssumption DEF Settle
<1>3. ctx'["ch"].src = None /\ ctx'["ch"].dest = None /\ ctx'["ch"] \in Contexts
    BY <1>1, <1>2 DEF ChannelStates, Contexts
<1>4. ctx' = [c \in Channels |-> ctx'[c]]
    BY DEF Settle
<1>5. bufs' = bufs \ {Src, Dest}
    BY DEF Settle, Src, Dest
<1>6. copied' \subseteq Ids
  <2>1. Dest # None => Dest.id \in Ids
      BY <1>1 DEF Buffers, Dest, Contexts
  <2>2. copied' = copied \cup {ctx[c].dest.id : c \in {d \in {"ch"} : ctx[d].dest # None}}
      BY DEF Settle
  <2> QED BY <2>1, <2>2 DEF DmacTypeOK, ChannelStates, Contexts, Dest
<1>7. ctx' \in [Channels -> Contexts]
    BY <1>3, <1>4, ChannelAssumption
<1> QED BY <1>3, <1>5, <1>6, <1>7 DEF Src, Dest, DmacTypeOK, ChannelStates, Contexts

LEMMA FinishFacts ==
    ASSUME DmacTypeOK, Finish("ch")
    PROVE  /\ ~chan'["ch"].run /\ chan'["ch"].int = chan["ch"].inten /\ chan'["ch"].inten = chan["ch"].inten
           /\ chan' \in [Channels -> ChannelStates]
<1>1. chan \in [{"ch"} -> ChannelStates]
    BY ChannelAssumption DEF DmacTypeOK, ChannelStates, Contexts
<1>2. chan' = [chan EXCEPT !["ch"].run = FALSE, !["ch"].int = chan["ch"].inten]
    BY DEF Finish
<1> QED BY <1>1, <1>2, ChannelAssumption DEF ChannelStates

-----------------------------------------------------------------------------
(***************************************************************************)
(* How places follow each other: a worker that goes on, and one that       *)
(* returns and leaves its job waiting.                                     *)
(***************************************************************************)
LEMMA Alone ==
    ASSUME OneHart, Nesting, NEW a \in Agents, MayRun(a), pc[a] # "idle",
           a = Dm => pc[Dm] \notin {"entry", "done", "call", "callback", "leave"}
    PROVE  /\ a = Th => pc[Dm] = "idle" /\ pc[Ai] = "idle"
           /\ a = Dm => pc[Ai] = "idle" /\ pc[Th] \in {"idle", "cas"}
           /\ a = Ai => pc[Dm] \in {"idle", "leave"} /\ pc[Th] \in {"idle", "cas"}
<1>1. CASE a = Th
    BY <1>1, AgentFacts DEF MayRun, Busy, Th, Dm, Ai
<1>2. CASE a = Dm
    BY <1>2, AgentFacts DEF MayRun, Busy, Th, Dm, Ai, Nesting
<1>3. CASE a = Ai
    BY <1>3, AgentFacts DEF Nesting
<1> QED BY <1>1, <1>2, <1>3, AgentFacts

LEMMA QuietPlace ==
    ASSUME NEW a \in Agents, pc[a] \in Quiet
    PROVE  AtPlace(a)
BY DEF Quiet, AtPlace, Begins, Starts, Opens, Armed, Feeds, Layered, Ends

LEMMA QuietPlaceNext ==
    ASSUME NEW a \in Agents, pc'[a] \in Quiet
    PROVE  AtPlace(a)'
BY DEF Quiet, AtPlace, Begins, Starts, Opens, Armed, Feeds, Layered, Ends

\* the invariant on the callers, in a step that is none of theirs
LEMMA CallersFrame ==
    ASSUME Callers, UNCHANGED <<job, state, busy, calls>>,
           \A b \in Agents : \/ pc'[b] = pc[b] /\ arg'[b] = arg[b]
                             \/ pc[b] \notin {"cas", "call"} /\ pc'[b] \notin {"cas", "call", "callback"},
           \A k \in Ids : state[k] = "new" => next'[k] = 0,
           Dm \in Agents, Ai \in Agents
    PROVE  Callers' /\ Running' = Running
<1>1. /\ \A b \in Agents : pc'[b] = "cas" <=> pc[b] = "cas"
      /\ \A b \in Agents : pc'[b] = "call" <=> pc[b] = "call"
      /\ \A b \in Agents : pc'[b] = "callback" => pc[b] = "callback"
      /\ \A b \in Agents : pc[b] \in {"cas", "call"} => arg'[b] = arg[b]
    OBVIOUS
<1>2. Running' = Running
    BY DEF Running
<1>3. \A i \in Ids : Calling(i)' <=> Calling(i)
    BY <1>1 DEF Calling
<1>4. Running \subseteq Ids
    BY DEF Running
<1> QED BY <1>1, <1>2, <1>3, <1>4 DEF Callers, Api

LEMMA TheRunning ==
    ASSUME Callers, NEW i \in Ids, state[i] = "running"
    PROVE  Running = {i}
BY DEF Callers, Running

\* a worker goes on
LEMMA WorkerGoes ==
    ASSUME OneHart, TypeOK, Callers, Nesting, \A b \in Agents : AtPlace(b),
           NEW a \in Agents, Works(a), MayRun(a), state[arg[a]] = "running",
           pc[a] \notin {"done", "call"},
           NEW p, p \notin Quiet, p # "call", pc' = [pc EXCEPT ![a] = p],
           UNCHANGED <<job, state, busy, calls, arg>>,
           off' = off \/ (off' = off \cup {Hart(a)} /\ p = "step"),
           a = Ai /\ p \in {"feed", "push", "count"} => pc[a] \in {"feed", "push", "count"},
           a = Dm => p \notin {"entry"},
           \A k \in Ids : k # arg[a] => next'[k] = next[k],
           AtPlace(a)'
    PROVE  /\ Callers' /\ Nesting' /\ Waiting' /\ Entered' /\ Rest'
           /\ \A b \in Agents : AtPlace(b)'
<1>1. arg[a] \in Ids /\ DOMAIN pc = Agents /\ off \subseteq Harts
    BY DEF TypeOK
<1>2. pc'[a] = p /\ \A b \in Agents : b # a => pc'[b] = pc[b]
    BY <1>1
<1>3. /\ a = Th => pc[Dm] = "idle" /\ pc[Ai] = "idle"
      /\ a = Dm => pc[Ai] = "idle" /\ pc[Th] \in {"idle", "cas"}
      /\ a = Ai => pc[Dm] \in {"idle", "leave"} /\ pc[Th] \in {"idle", "cas"}
    BY Alone DEF Works, Quiet
<1>4. Callers' /\ Running' = Running
  <2>1. \A k \in Ids : state[k] = "new" => next'[k] = 0
      BY DEF Callers
  <2>2. \A b \in Agents : \/ pc'[b] = pc[b] /\ arg'[b] = arg[b]
                          \/ pc[b] \notin {"cas", "call"} /\ pc'[b] \notin {"cas", "call", "callback"}
      BY <1>2 DEF Works, Quiet
  <2> QED BY <2>1, <2>2, CallersFrame, AgentFacts
<1>5. Nesting'
  <2>1. Hart1 \in off' => /\ pc'[Ai] \notin {"feed", "push", "count"}
                          /\ \E b \in Agents : pc'[b] \notin {"idle", "entry", "leave"}
    <3>1. pc'[a] \notin {"idle", "entry", "leave"}
        BY <1>2 DEF Quiet
    <3>2. CASE a = Ai
        BY <3>1, <3>2, <1>2 DEF Nesting
    <3>3. CASE a # Ai
        BY <3>1, <3>3, <1>2, <1>3, AgentFacts
    <3> QED BY <3>2, <3>3
  <2> QED BY <2>1, <1>2, <1>3, AgentFacts DEF Nesting, Quiet, Works
<1>6. \A b \in Agents : AtPlace(b)'
  <2> SUFFICES ASSUME NEW b \in Agents, b # a PROVE AtPlace(b)'
      OBVIOUS
  <2> QED BY <1>2, <1>3, AgentFacts, QuietPlaceNext DEF Quiet
<1>7. Running = {arg[a]}
    BY <1>1, TheRunning
<1>8. Waiting'
    BY <1>2, <1>4, <1>7 DEF Waiting, Works
<1>9. Entered' /\ Rest'
  <2>1. pc'[Dm] # "entry"
      BY <1>2, <1>3, AgentFacts DEF Works, Quiet
  <2> QED BY <2>1, <1>4, <1>7 DEF Entered, Rest
<1> QED BY <1>4, <1>5, <1>6, <1>8, <1>9

\* a worker returns: its job waits
LEMMA WorkerReturns ==
    ASSUME OneHart, TypeOK, Callers, Nesting,
           NEW a \in Agents, Works(a), MayRun(a), NEW i \in Ids, arg[a] = i, state[i] = "running",
           pc[a] \notin {"done", "call"}, Return(a),
           UNCHANGED <<job, state, busy, calls>>,
           \A k \in Ids : k # i => next'[k] = next[k],
           Waits(i)'
    PROVE  /\ Callers' /\ Nesting' /\ Waiting' /\ Entered' /\ Rest'
           /\ \A b \in Agents : AtPlace(b)'
<1>1. arg[a] \in Ids /\ DOMAIN pc = Agents /\ off \subseteq Harts /\ arg' = arg
    BY DEF TypeOK, Return
<1>2. /\ pc'[a] = IF a[2] = "thread" THEN "idle" ELSE "leave"
      /\ \A b \in Agents : b # a => pc'[b] = pc[b]
    BY <1>1 DEF Return
<1>3. /\ a = Th => pc[Dm] = "idle" /\ pc[Ai] = "idle"
      /\ a = Dm => pc[Ai] = "idle" /\ pc[Th] \in {"idle", "cas"}
      /\ a = Ai => pc[Dm] \in {"idle", "leave"} /\ pc[Th] \in {"idle", "cas"}
    BY Alone DEF Works, Quiet
<1>4. Callers' /\ Running' = Running
  <2>1. \A k \in Ids : state[k] = "new" => next'[k] = 0
      BY DEF Callers
  <2>2. \A b \in Agents : \/ pc'[b] = pc[b] /\ arg'[b] = arg[b]
                          \/ pc[b] \notin {"cas", "call"} /\ pc'[b] \notin {"cas", "call", "callback"}
      BY <1>1, <1>2 DEF Works, Quiet
  <2> QED BY <1>1, <2>1, <2>2, CallersFrame, AgentFacts
<1>5. Nesting'
  <2>1. Hart1 \notin off'
      BY AgentFacts DEF Return
  <2> QED BY <2>1, <1>2, <1>3, AgentFacts DEF Nesting, Quiet, Works
<1>6. \A b \in Agents : AtPlace(b)'
  <2> SUFFICES ASSUME NEW b \in Agents PROVE AtPlace(b)'
      OBVIOUS
  <2> QED BY <1>2, <1>3, AgentFacts, QuietPlaceNext DEF Quiet
<1>7. Running = {i}
    BY <1>1, TheRunning
<1>8. Waiting'
    BY <1>1, <1>4, <1>7 DEF Waiting
<1>9. Entered' /\ Rest'
  <2>1. pc'[Dm] # "entry"
      BY <1>2, <1>3, AgentFacts DEF Works, Quiet
  <2> QED BY <2>1, <1>4, <1>7 DEF Entered, Rest
<1> QED BY <1>4, <1>5, <1>6, <1>8, <1>9

-----------------------------------------------------------------------------
(***************************************************************************)
(* The types, in parts, and what leaves each alone.                        *)
(***************************************************************************)
Places == {"idle", "cas", "task", "kmask", "aireg", "load", "inreg", "indma",
           "entry", "ready", "outreg", "outdma", "mask", "unmask",
           "feed", "push", "count", "step", "conv", "send",
           "done", "call", "callback", "leave"}

PlaceType == pc \in [Agents -> Places] /\ arg \in [Agents -> Ids] /\ off \subseteq Harts
HardwareType == /\ flags \subseteq {"calc", "empty"} /\ mask \subseteq {"calc", "empty"} /\ pend \in BOOLEAN
                /\ fifo \in Seq(Layers) /\ engine \in Layers \cup {None} /\ outp \in Layers \cup {None}
                /\ mem \in Seq(Layers)
SoftwareType == /\ busy \in [Apis -> BOOLEAN]
                /\ cur \in Ids
                /\ handler \in [Harts -> Ids \cup {None}] /\ aion \subseteq Harts /\ aiprio \in {1, 2}
                /\ dcb \in [fn : {"none", "ready", "step", "done"}, id : Ids]
NextType == next \in [Ids -> Nat] /\ \A i \in Ids : next[i] <= Size(i)
JobsType == job \in [Ids -> Jobs \cup {NoJob}]
StateType == state \in [Ids -> {"new", "asked", "refused", "running", "done"}]
GhostType == calls \in [Ids -> 0 .. 2] /\ result \in [Ids -> Seq(Layers)]

LEMMA TypeParts ==
    TypeOK <=> /\ DmacTypeOK /\ PlaceType /\ HardwareType /\ SoftwareType
               /\ NextType /\ JobsType /\ StateType /\ GhostType
BY DEF TypeOK, PlaceType, HardwareType, SoftwareType, NextType, JobsType, StateType, GhostType, Places

LEMMA TypePartsNext ==
    TypeOK' <=> /\ DmacTypeOK' /\ PlaceType' /\ HardwareType' /\ SoftwareType'
                /\ NextType' /\ JobsType' /\ StateType' /\ GhostType'
BY TypeParts, PTL

LEMMA TypeFrame ==
    /\ UNCHANGED dmac => (DmacTypeOK' <=> DmacTypeOK)
    /\ UNCHANGED <<pc, arg, off>> => (PlaceType' <=> PlaceType)
    /\ UNCHANGED hardware => (HardwareType' <=> HardwareType)
    /\ UNCHANGED <<busy, cur, handler, aion, aiprio, dcb>> => (SoftwareType' <=> SoftwareType)
    /\ UNCHANGED <<next, job>> => (NextType' <=> NextType)
    /\ UNCHANGED job => (JobsType' <=> JobsType)
    /\ UNCHANGED state => (StateType' <=> StateType)
    /\ UNCHANGED ghosts => (GhostType' <=> GhostType)
BY DEF DmacTypeOK, PlaceType, HardwareType, SoftwareType, NextType, JobsType, StateType, GhostType,
   dmac, hardware, ghosts, Size

LEMMA GotoType ==
    ASSUME PlaceType, NEW a \in Agents, NEW p \in Places, Goto(a, p)
    PROVE  PlaceType'
BY DEF PlaceType, Goto

LEMMA ReturnType ==
    ASSUME PlaceType, NEW a \in Agents, Return(a)
    PROVE  PlaceType'
BY DEF PlaceType, Return, Places

LEMMA LayerType ==
    ASSUME NEW i \in Ids, NEW k \in Nat
    PROVE  <<i, k>> \in Layers
BY DEF Layers

-----------------------------------------------------------------------------
(***************************************************************************)
(* Types: the steps of a thread or a handler.                              *)
(***************************************************************************)
LEMMA TaskType ==
    ASSUME TypeOK, NEW a \in Agents
    PROVE  arg[a] \in Ids /\ Task(a) \in Ids /\ Hart(a) \in Harts /\ Api(a) \in Apis
<1>1. arg[a] \in Ids /\ cur \in Ids
    BY DEF TypeOK
<1>2. Hart(a) \in Harts
    BY DEF Agents, Hart
<1> QED BY <1>1, <1>2, JobFacts DEF Task, Api

LEMMA BurstType ==
    ASSUME TypeOK, NEW a \in Agents, NEW i \in Ids
    PROVE  LET s == Smaller(BurstOf(a), Remain(i)) IN
           /\ s \in Nat /\ next[i] \in Nat /\ next[i] + s \in Nat /\ next[i] + s <= Size(i)
<1>1. Burst \in Nat /\ next[i] \in Nat /\ Size(i) \in Nat /\ next[i] <= Size(i)
    BY JobAssumption, JobFacts
<1>2. BurstOf(a) \in Nat /\ Remain(i) = Size(i) - next[i]
    BY <1>1 DEF BurstOf, Remain
<1> HIDE DEF BurstOf, Remain
<1> QED BY <1>1, <1>2 DEF Smaller

LEMMA CasType ==
    ASSUME OneHart, TypeOK, Core, NEW a \in Agents, Cas(a)
    PROVE  TypeOK'
<1>0. arg[a] \in Ids /\ Task(a) \in Ids /\ Hart(a) \in Harts /\ Api(a) \in Apis
    BY TaskType
<1>1. DmacTypeOK'
    BY TypeParts, TypeFrame DEF Cas
<1>2. PlaceType'
    BY TypeParts, GotoType, ReturnType DEF Cas, Places
<1>3. HardwareType'
    BY TypeParts, TypeFrame DEF Cas
<1>4. SoftwareType'
    BY <1>0, TypeParts DEF Cas, SoftwareType
<1>5. NextType'
    BY TypeParts, TypeFrame DEF Cas, software
<1>6. JobsType'
    BY TypeParts, TypeFrame DEF Cas
<1>7. StateType'
    BY <1>0, TypeParts DEF Cas, StateType
<1>8. GhostType'
    BY TypeParts, TypeFrame DEF Cas, ghosts
<1> QED BY <1>1, <1>2, <1>3, <1>4, <1>5, <1>6, <1>7, <1>8, TypePartsNext

LEMMA SetTaskType ==
    ASSUME OneHart, TypeOK, Core, NEW a \in Agents, SetTask(a)
    PROVE  TypeOK'
<1>0. arg[a] \in Ids /\ Task(a) \in Ids /\ Hart(a) \in Harts /\ Api(a) \in Apis
    BY TaskType
<1>1. DmacTypeOK'
    BY TypeParts, TypeFrame DEF SetTask
<1>2. PlaceType'
  <2>1. \E p \in Places : Goto(a, p)
      BY <1>0 DEF SetTask, Places, Apis
  <2> QED BY <2>1, TypeParts, GotoType
<1>3. HardwareType'
  <2>1. <<arg[a], 0>> \in Layers
      BY <1>0, LayerType
  <2>2. <<<<arg[a], 0>>>> \in Seq(Layers)
      BY <2>1
  <2> QED BY <2>2, TypeParts DEF SetTask, HardwareType
<1>4. SoftwareType'
    BY <1>0, TypeParts DEF SetTask, SoftwareType
<1>5. NextType'
    BY <1>0, TypeParts DEF SetTask, NextType, Size
<1>6. JobsType'
    BY TypeParts, TypeFrame DEF SetTask
<1>7. StateType'
    BY TypeParts, TypeFrame DEF SetTask
<1>8. GhostType'
    BY TypeParts, TypeFrame DEF SetTask, ghosts
<1> QED BY <1>1, <1>2, <1>3, <1>4, <1>5, <1>6, <1>7, <1>8, TypePartsNext

LEMMA KmodelMaskType ==
    ASSUME OneHart, TypeOK, Core, NEW a \in Agents, KmodelMask(a)
    PROVE  TypeOK'
<1>0. arg[a] \in Ids /\ Task(a) \in Ids /\ Hart(a) \in Harts /\ Api(a) \in Apis
    BY TaskType
<1>1. DmacTypeOK'
    BY TypeParts, TypeFrame DEF KmodelMask
<1>2. PlaceType'
    BY TypeParts, GotoType DEF KmodelMask, Places
<1>3. HardwareType'
    BY <1>0, TypeParts DEF KmodelMask, HardwareType
<1>4. SoftwareType'
    BY TypeParts, TypeFrame DEF KmodelMask, software
<1>5. NextType'
    BY TypeParts, TypeFrame DEF KmodelMask, software
<1>6. JobsType'
    BY TypeParts, TypeFrame DEF KmodelMask
<1>7. StateType'
    BY TypeParts, TypeFrame DEF KmodelMask
<1>8. GhostType'
    BY TypeParts, TypeFrame DEF KmodelMask, ghosts
<1> QED BY <1>1, <1>2, <1>3, <1>4, <1>5, <1>6, <1>7, <1>8, TypePartsNext

LEMMA AiRegisterType ==
    ASSUME OneHart, TypeOK, Core, NEW a \in Agents, AiRegister(a)
    PROVE  TypeOK'
<1>0. arg[a] \in Ids /\ Task(a) \in Ids /\ Hart(a) \in Harts /\ Api(a) \in Apis
    BY TaskType
<1>1. DmacTypeOK'
    BY TypeParts, TypeFrame DEF AiRegister
<1>2. PlaceType'
  <2>1. \E p \in Places : Goto(a, p)
      BY <1>0 DEF AiRegister, Places, Apis
  <2> QED BY <2>1, TypeParts, GotoType
<1>3. HardwareType'
    BY TypeParts, TypeFrame DEF AiRegister
<1>4. SoftwareType'
    BY <1>0, TypeParts DEF AiRegister, SoftwareType
<1>5. NextType'
    BY TypeParts, TypeFrame DEF AiRegister, software
<1>6. JobsType'
    BY TypeParts, TypeFrame DEF AiRegister
<1>7. StateType'
    BY TypeParts, TypeFrame DEF AiRegister
<1>8. GhostType'
    BY TypeParts, TypeFrame DEF AiRegister, ghosts
<1> QED BY <1>1, <1>2, <1>3, <1>4, <1>5, <1>6, <1>7, <1>8, TypePartsNext

LEMMA LoadByCpuType ==
    ASSUME OneHart, TypeOK, Core, NEW a \in Agents, LoadByCpu(a)
    PROVE  TypeOK'
<1>0. arg[a] \in Ids /\ Task(a) \in Ids /\ Hart(a) \in Harts /\ Api(a) \in Apis
    BY TaskType
<1>1. DmacTypeOK'
    BY TypeParts, TypeFrame DEF LoadByCpu
<1>2. PlaceType'
    BY <1>0, TypeParts DEF LoadByCpu, PlaceType, Places, Hart
<1>3. HardwareType'
  <2>1. <<arg[a], 0>> \in Layers
      BY <1>0, LayerType
  <2>2. <<<<arg[a], 0>>>> \in Seq(Layers)
      BY <2>1
  <2> QED BY <2>2, TypeParts DEF LoadByCpu, HardwareType
<1>4. SoftwareType'
    BY TypeParts, TypeFrame DEF LoadByCpu, software
<1>5. NextType'
    BY TypeParts, TypeFrame DEF LoadByCpu, software
<1>6. JobsType'
    BY TypeParts, TypeFrame DEF LoadByCpu
<1>7. StateType'
    BY TypeParts, TypeFrame DEF LoadByCpu
<1>8. GhostType'
    BY TypeParts, TypeFrame DEF LoadByCpu, ghosts
<1> QED BY <1>1, <1>2, <1>3, <1>4, <1>5, <1>6, <1>7, <1>8, TypePartsNext

LEMMA InRegisterType ==
    ASSUME OneHart, TypeOK, Core, NEW a \in Agents, InRegister(a)
    PROVE  TypeOK'
<1>0. arg[a] \in Ids /\ Task(a) \in Ids /\ Hart(a) \in Harts /\ Api(a) \in Apis
    BY TaskType
<1>1. DmacTypeOK'
    BY <1>0, TypeParts, RegisterFacts DEF InRegister
<1>2. PlaceType'
    BY TypeParts, GotoType DEF InRegister, Places
<1>3. HardwareType'
    BY TypeParts, TypeFrame DEF InRegister
<1>4. SoftwareType'
    BY <1>0, TypeParts DEF InRegister, SoftwareType
<1>5. NextType'
    BY TypeParts, TypeFrame DEF InRegister, software
<1>6. JobsType'
    BY TypeParts, TypeFrame DEF InRegister
<1>7. StateType'
    BY TypeParts, TypeFrame DEF InRegister
<1>8. GhostType'
    BY TypeParts, TypeFrame DEF InRegister, ghosts
<1> QED BY <1>1, <1>2, <1>3, <1>4, <1>5, <1>6, <1>7, <1>8, TypePartsNext

LEMMA InDmaType ==
    ASSUME OneHart, TypeOK, Core, NEW a \in Agents, InDma(a)
    PROVE  TypeOK'
<1>0. arg[a] \in Ids /\ Task(a) \in Ids /\ Hart(a) \in Harts /\ Api(a) \in Apis
    BY TaskType
<1>1. DmacTypeOK'
    BY <1>0, TypeParts, InputFacts DEF InDma
<1>2. PlaceType'
    BY TypeParts, ReturnType DEF InDma
<1>3. HardwareType'
    BY TypeParts, TypeFrame DEF InDma
<1>4. SoftwareType'
    BY TypeParts, TypeFrame DEF InDma, software
<1>5. NextType'
    BY TypeParts, TypeFrame DEF InDma, software
<1>6. JobsType'
    BY TypeParts, TypeFrame DEF InDma
<1>7. StateType'
    BY TypeParts, TypeFrame DEF InDma
<1>8. GhostType'
    BY TypeParts, TypeFrame DEF InDma, ghosts
<1> QED BY <1>1, <1>2, <1>3, <1>4, <1>5, <1>6, <1>7, <1>8, TypePartsNext

LEMMA ReadyType ==
    ASSUME OneHart, TypeOK, Core, NEW a \in Agents, Ready(a)
    PROVE  TypeOK'
<1>0. arg[a] \in Ids /\ Task(a) \in Ids /\ Hart(a) \in Harts /\ Api(a) \in Apis
    BY TaskType
<1>1. DmacTypeOK'
    BY TypeParts, ClearFacts DEF Ready, DmacTypeOK, ChannelStates
<1>2. PlaceType'
    BY TypeParts, GotoType DEF Ready, Places
<1>3. HardwareType'
    BY <1>0, TypeParts DEF Ready, HardwareType
<1>4. SoftwareType'
    BY TypeParts, TypeFrame DEF Ready, software
<1>5. NextType'
    BY TypeParts, TypeFrame DEF Ready, software
<1>6. JobsType'
    BY TypeParts, TypeFrame DEF Ready
<1>7. StateType'
    BY TypeParts, TypeFrame DEF Ready
<1>8. GhostType'
    BY TypeParts, TypeFrame DEF Ready, ghosts
<1> QED BY <1>1, <1>2, <1>3, <1>4, <1>5, <1>6, <1>7, <1>8, TypePartsNext

LEMMA OutRegisterType ==
    ASSUME OneHart, TypeOK, Core, NEW a \in Agents, OutRegister(a)
    PROVE  TypeOK'
<1>0. arg[a] \in Ids /\ Task(a) \in Ids /\ Hart(a) \in Harts /\ Api(a) \in Apis
    BY TaskType
<1>1. DmacTypeOK'
    BY <1>0, TypeParts, RegisterFacts DEF OutRegister
<1>2. PlaceType'
    BY TypeParts, GotoType DEF OutRegister, Places
<1>3. HardwareType'
    BY TypeParts, TypeFrame DEF OutRegister
<1>4. SoftwareType'
    BY <1>0, TypeParts DEF OutRegister, SoftwareType
<1>5. NextType'
    BY TypeParts, TypeFrame DEF OutRegister, software
<1>6. JobsType'
    BY TypeParts, TypeFrame DEF OutRegister
<1>7. StateType'
    BY TypeParts, TypeFrame DEF OutRegister
<1>8. GhostType'
    BY TypeParts, TypeFrame DEF OutRegister, ghosts
<1> QED BY <1>1, <1>2, <1>3, <1>4, <1>5, <1>6, <1>7, <1>8, TypePartsNext

LEMMA OutDmaType ==
    ASSUME OneHart, TypeOK, Core, NEW a \in Agents, OutDma(a)
    PROVE  TypeOK'
<1>0. arg[a] \in Ids /\ Task(a) \in Ids /\ Hart(a) \in Harts /\ Api(a) \in Apis
    BY TaskType
<1>1. DmacTypeOK'
    BY <1>0, TypeParts, OutputFacts DEF OutDma
<1>2. PlaceType'
  <2>1. \E p \in Places : Goto(a, p)
      BY <1>0 DEF OutDma, Places, Apis
  <2> QED BY <2>1, TypeParts, GotoType
<1>3. HardwareType'
    BY TypeParts, TypeFrame DEF OutDma
<1>4. SoftwareType'
    BY TypeParts, TypeFrame DEF OutDma, software
<1>5. NextType'
    BY TypeParts, TypeFrame DEF OutDma, software
<1>6. JobsType'
    BY TypeParts, TypeFrame DEF OutDma
<1>7. StateType'
    BY TypeParts, TypeFrame DEF OutDma
<1>8. GhostType'
    BY TypeParts, TypeFrame DEF OutDma, ghosts
<1> QED BY <1>1, <1>2, <1>3, <1>4, <1>5, <1>6, <1>7, <1>8, TypePartsNext

LEMMA MaskType ==
    ASSUME OneHart, TypeOK, Core, NEW a \in Agents, Mask(a)
    PROVE  TypeOK'
<1>0. arg[a] \in Ids /\ Task(a) \in Ids /\ Hart(a) \in Harts /\ Api(a) \in Apis
    BY TaskType
<1>1. DmacTypeOK'
    BY TypeParts, TypeFrame DEF Mask
<1>2. PlaceType'
    BY TypeParts, GotoType DEF Mask, Places
<1>3. HardwareType'
    BY <1>0, TypeParts DEF Mask, HardwareType
<1>4. SoftwareType'
    BY TypeParts, TypeFrame DEF Mask, software
<1>5. NextType'
    BY TypeParts, TypeFrame DEF Mask, software
<1>6. JobsType'
    BY TypeParts, TypeFrame DEF Mask
<1>7. StateType'
    BY TypeParts, TypeFrame DEF Mask
<1>8. GhostType'
    BY TypeParts, TypeFrame DEF Mask, ghosts
<1> QED BY <1>1, <1>2, <1>3, <1>4, <1>5, <1>6, <1>7, <1>8, TypePartsNext

LEMMA UnmaskType ==
    ASSUME OneHart, TypeOK, Core, NEW a \in Agents, Unmask(a)
    PROVE  TypeOK'
<1>0. arg[a] \in Ids /\ Task(a) \in Ids /\ Hart(a) \in Harts /\ Api(a) \in Apis
    BY TaskType
<1>1. DmacTypeOK'
    BY TypeParts, TypeFrame DEF Unmask
<1>2. PlaceType'
    BY TypeParts, GotoType, ReturnType DEF Unmask, Places
<1>3. HardwareType'
    BY <1>0, TypeParts DEF Unmask, HardwareType
<1>4. SoftwareType'
    BY TypeParts, TypeFrame DEF Unmask, software
<1>5. NextType'
    BY TypeParts, TypeFrame DEF Unmask, software
<1>6. JobsType'
    BY TypeParts, TypeFrame DEF Unmask
<1>7. StateType'
    BY TypeParts, TypeFrame DEF Unmask
<1>8. GhostType'
    BY TypeParts, TypeFrame DEF Unmask, ghosts
<1> QED BY <1>1, <1>2, <1>3, <1>4, <1>5, <1>6, <1>7, <1>8, TypePartsNext

LEMMA FeedType ==
    ASSUME OneHart, TypeOK, Core, NEW a \in Agents, Feed(a)
    PROVE  TypeOK'
<1>0. arg[a] \in Ids /\ Task(a) \in Ids /\ Hart(a) \in Harts /\ Api(a) \in Apis
    BY TaskType
<1>1. DmacTypeOK'
    BY TypeParts, TypeFrame DEF Feed
<1>2. PlaceType'
    BY TypeParts, GotoType, ReturnType DEF Feed, Places
<1>3. HardwareType'
    BY <1>0, TypeParts DEF Feed, HardwareType
<1>4. SoftwareType'
    BY TypeParts, TypeFrame DEF Feed, software
<1>5. NextType'
    BY TypeParts, TypeFrame DEF Feed, software
<1>6. JobsType'
    BY TypeParts, TypeFrame DEF Feed
<1>7. StateType'
    BY TypeParts, TypeFrame DEF Feed
<1>8. GhostType'
    BY TypeParts, TypeFrame DEF Feed, ghosts
<1> QED BY <1>1, <1>2, <1>3, <1>4, <1>5, <1>6, <1>7, <1>8, TypePartsNext

LEMMA PushType ==
    ASSUME OneHart, TypeOK, Core, NEW a \in Agents, Push(a)
    PROVE  TypeOK'
<1>0. arg[a] \in Ids /\ Task(a) \in Ids /\ Hart(a) \in Harts /\ Api(a) \in Apis
    BY TaskType
<1>1. DmacTypeOK'
    BY TypeParts, TypeFrame DEF Push
<1>2. PlaceType'
    BY TypeParts, GotoType DEF Push, Places
<1>3. HardwareType'
  <2> DEFINE i == Task(a)
             s == Smaller(BurstOf(a), Remain(i))
             g == [k \in 1 .. s |-> <<i, next[i] + k>>]
  <2>1. i \in Ids /\ next[i] \in Nat /\ s \in Nat
      BY <1>0, BurstType
  <2>2. fifo' = fifo \o g
      BY DEF Push
  <2> HIDE DEF i, s
  <2>3. \A k \in 1 .. s : <<i, next[i] + k>> \in Layers
      BY <2>1, LayerType
  <2>4. g \in [1 .. s -> Layers]
      BY <2>3
  <2>5. g \in Seq(Layers)
    <3> HIDE DEF g
    <3> QED BY <2>1, <2>4
  <2>6. fifo \in Seq(Layers)
      BY TypeParts DEF HardwareType
  <2>7. fifo' \in Seq(Layers)
    <3> HIDE DEF g
    <3> QED BY <2>2, <2>5, <2>6
  <2> QED BY <2>7, TypeParts DEF Push, HardwareType
<1>4. SoftwareType'
    BY TypeParts, TypeFrame DEF Push, software
<1>5. NextType'
    BY TypeParts, TypeFrame DEF Push, software
<1>6. JobsType'
    BY TypeParts, TypeFrame DEF Push
<1>7. StateType'
    BY TypeParts, TypeFrame DEF Push
<1>8. GhostType'
    BY TypeParts, TypeFrame DEF Push, ghosts
<1> QED BY <1>1, <1>2, <1>3, <1>4, <1>5, <1>6, <1>7, <1>8, TypePartsNext

LEMMA CountType ==
    ASSUME OneHart, TypeOK, Core, NEW a \in Agents, Count(a)
    PROVE  TypeOK'
<1>0. arg[a] \in Ids /\ Task(a) \in Ids /\ Hart(a) \in Harts /\ Api(a) \in Apis
    BY TaskType
<1>1. DmacTypeOK'
    BY TypeParts, TypeFrame DEF Count
<1>2. PlaceType'
    BY TypeParts, GotoType, ReturnType DEF Count, Places
<1>3. HardwareType'
    BY <1>0, TypeParts DEF Count, HardwareType
<1>4. SoftwareType'
    BY TypeParts, TypeFrame DEF Count, software
<1>5. NextType'
  <2> DEFINE i == Task(a)
             s == Smaller(BurstOf(a), Remain(i))
  <2>1. i \in Ids /\ next[i] \in Nat /\ s \in Nat /\ next[i] + s \in Nat /\ next[i] + s <= Size(i)
      BY <1>0, BurstType
  <2>2. next' = [next EXCEPT ![i] = @ + s] /\ UNCHANGED job
      BY DEF Count
  <2>3. \A k \in Ids : Size(k)' = Size(k)
      BY <2>2 DEF Size
  <2> HIDE DEF i, s
  <2>4. next \in [Ids -> Nat] /\ \A k \in Ids : next[k] <= Size(k)
      BY TypeParts DEF NextType
  <2>5. next' \in [Ids -> Nat] /\ next'[i] = next[i] + s /\ \A k \in Ids : k # i => next'[k] = next[k]
      BY <2>1, <2>2, <2>4
  <2> QED BY <2>1, <2>3, <2>4, <2>5 DEF NextType
<1>6. JobsType'
    BY TypeParts, TypeFrame DEF Count
<1>7. StateType'
    BY TypeParts, TypeFrame DEF Count
<1>8. GhostType'
    BY TypeParts, TypeFrame DEF Count, ghosts
<1> QED BY <1>1, <1>2, <1>3, <1>4, <1>5, <1>6, <1>7, <1>8, TypePartsNext

LEMMA AiStepType ==
    ASSUME OneHart, TypeOK, Core, NEW a \in Agents, AiStep(a)
    PROVE  TypeOK'
<1>0. arg[a] \in Ids /\ Task(a) \in Ids /\ Hart(a) \in Harts /\ Api(a) \in Apis
    BY TaskType
<1>1. DmacTypeOK'
    BY TypeParts, TypeFrame DEF AiStep
<1>2. PlaceType'
    BY TypeParts, GotoType DEF AiStep, Places
<1>3. HardwareType'
  <2>1. next[arg[a]] + 1 \in Nat
      BY <1>0, TypeParts DEF NextType
  <2>2. <<arg[a], next[arg[a]] + 1>> \in Layers
      BY <1>0, <2>1, LayerType
  <2>3. Append(mem, <<arg[a], next[arg[a]] + 1>>) \in Seq(Layers)
      BY <2>2, TypeParts DEF HardwareType
  <2> QED BY <2>3, TypeParts DEF AiStep, HardwareType
<1>4. SoftwareType'
    BY TypeParts, TypeFrame DEF AiStep, software
<1>5. NextType'
  <2> DEFINE i == arg[a]
  <2>1. pc[a] = "step" /\ next' = [next EXCEPT ![i] = next[i] + 1] /\ UNCHANGED job
      BY DEF AiStep, At
  <2>2. next[i] < Size(i)
      BY <2>1 DEF Core, AtPlace, Layered
  <2>3. \A k \in Ids : Size(k)' = Size(k)
      BY <2>1 DEF Size
  <2>4. next \in [Ids -> Nat] /\ \A k \in Ids : next[k] <= Size(k)
      BY TypeParts DEF NextType
  <2>5. next[i] + 1 <= Size(i) /\ next[i] + 1 \in Nat
      BY <1>0, <2>2, <2>4, JobFacts
  <2>6. next' \in [Ids -> Nat] /\ next'[i] = next[i] + 1 /\ \A k \in Ids : k # i => next'[k] = next[k]
      BY <1>0, <2>1, <2>4, <2>5
  <2> QED BY <1>0, <2>3, <2>4, <2>5, <2>6 DEF NextType
<1>6. JobsType'
    BY TypeParts, TypeFrame DEF AiStep
<1>7. StateType'
    BY TypeParts, TypeFrame DEF AiStep
<1>8. GhostType'
    BY TypeParts, TypeFrame DEF AiStep, ghosts
<1> QED BY <1>1, <1>2, <1>3, <1>4, <1>5, <1>6, <1>7, <1>8, TypePartsNext

LEMMA ConvType ==
    ASSUME OneHart, TypeOK, Core, NEW a \in Agents, Conv(a)
    PROVE  TypeOK'
<1>0. arg[a] \in Ids /\ Task(a) \in Ids /\ Hart(a) \in Harts /\ Api(a) \in Apis
    BY TaskType
<1>1. DmacTypeOK'
    BY TypeParts, TypeFrame DEF Conv
<1>2. PlaceType'
    BY TypeParts, GotoType DEF Conv, Places
<1>3. HardwareType'
    BY <1>0, TypeParts DEF Conv, HardwareType
<1>4. SoftwareType'
    BY TypeParts, TypeFrame DEF Conv, software
<1>5. NextType'
    BY TypeParts, TypeFrame DEF Conv, software
<1>6. JobsType'
    BY TypeParts, TypeFrame DEF Conv
<1>7. StateType'
    BY TypeParts, TypeFrame DEF Conv
<1>8. GhostType'
    BY TypeParts, TypeFrame DEF Conv, ghosts
<1> QED BY <1>1, <1>2, <1>3, <1>4, <1>5, <1>6, <1>7, <1>8, TypePartsNext

LEMMA SendType ==
    ASSUME OneHart, TypeOK, Core, NEW a \in Agents, Send(a)
    PROVE  TypeOK'
<1>0. arg[a] \in Ids /\ Task(a) \in Ids /\ Hart(a) \in Harts /\ Api(a) \in Apis
    BY TaskType
<1>1. DmacTypeOK'
    BY TypeParts, TypeFrame DEF Send
<1>2. PlaceType'
    BY TypeParts, ReturnType DEF Send
<1>3. HardwareType'
  <2>1. next[arg[a]] \in Nat
      BY <1>0, TypeParts DEF NextType
  <2>2. <<arg[a], next[arg[a]]>> \in Layers
      BY <1>0, <2>1, LayerType
  <2>3. Append(fifo, <<arg[a], next[arg[a]]>>) \in Seq(Layers)
      BY <2>2, TypeParts DEF HardwareType
  <2> QED BY <2>3, TypeParts DEF Send, HardwareType
<1>4. SoftwareType'
    BY TypeParts, TypeFrame DEF Send, software
<1>5. NextType'
    BY TypeParts, TypeFrame DEF Send, software
<1>6. JobsType'
    BY TypeParts, TypeFrame DEF Send
<1>7. StateType'
    BY TypeParts, TypeFrame DEF Send
<1>8. GhostType'
    BY TypeParts, TypeFrame DEF Send, ghosts
<1> QED BY <1>1, <1>2, <1>3, <1>4, <1>5, <1>6, <1>7, <1>8, TypePartsNext

LEMMA DoneType ==
    ASSUME OneHart, TypeOK, Core, NEW a \in Agents, Done(a)
    PROVE  TypeOK'
<1>0. arg[a] \in Ids /\ Task(a) \in Ids /\ Hart(a) \in Harts /\ Api(a) \in Apis
    BY TaskType
<1>1. DmacTypeOK'
    BY TypeParts, TypeFrame DEF Done
<1>2. PlaceType'
    BY TypeParts, GotoType DEF Done, Places
<1>3. HardwareType'
    BY <1>0, TypeParts DEF Done, HardwareType
<1>4. SoftwareType'
    BY <1>0, TypeParts DEF Done, SoftwareType
<1>5. NextType'
    BY TypeParts, TypeFrame DEF Done, software
<1>6. JobsType'
    BY TypeParts, TypeFrame DEF Done
<1>7. StateType'
    BY TypeParts, TypeFrame DEF Done
<1>8. GhostType'
    BY TypeParts, TypeFrame DEF Done, ghosts
<1> QED BY <1>1, <1>2, <1>3, <1>4, <1>5, <1>6, <1>7, <1>8, TypePartsNext

LEMMA CallbackType ==
    ASSUME OneHart, TypeOK, Core, NEW a \in Agents, Callback(a)
    PROVE  TypeOK'
<1>0. arg[a] \in Ids /\ Task(a) \in Ids /\ Hart(a) \in Harts /\ Api(a) \in Apis
    BY TaskType
<1>1. DmacTypeOK'
    BY TypeParts, TypeFrame DEF Callback
<1>2. PlaceType'
    BY TypeParts, GotoType, ReturnType DEF Callback, Places
<1>3. HardwareType'
    BY TypeParts, TypeFrame DEF Callback
<1>4. SoftwareType'
    BY TypeParts, TypeFrame DEF Callback, software
<1>5. NextType'
    BY TypeParts, TypeFrame DEF Callback, software
<1>6. JobsType'
    BY TypeParts, TypeFrame DEF Callback
<1>7. StateType'
    BY <1>0, TypeParts DEF Callback, StateType
<1>8. GhostType'
  <2> DEFINE i == Task(a)
  <2>1. calls \in [Ids -> 0 .. 2] /\ result \in [Ids -> Seq(Layers)] /\ mem \in Seq(Layers)
      BY TypeParts DEF GhostType, HardwareType
  <2>2. \A k \in 0 .. 2 : Smaller(k + 1, 2) \in 0 .. 2
      BY DEF Smaller
  <2>3. calls' = [calls EXCEPT ![i] = Smaller(calls[i] + 1, 2)]
      BY DEF Callback
  <2>4. calls' \in [Ids -> 0 .. 2]
      BY <1>0, <2>1, <2>2, <2>3
  <2>5. \E x \in Seq(Layers) : result' = [result EXCEPT ![i] = x]
    <3>1. <<>> \in Seq(Layers)
        OBVIOUS
    <3> QED BY <2>1, <3>1 DEF Callback
  <2>6. result' \in [Ids -> Seq(Layers)]
      BY <1>0, <2>1, <2>5
  <2> QED BY <2>4, <2>6 DEF GhostType
<1> QED BY <1>1, <1>2, <1>3, <1>4, <1>5, <1>6, <1>7, <1>8, TypePartsNext

LEMMA LeaveType ==
    ASSUME OneHart, TypeOK, Core, NEW a \in Agents, Leave(a)
    PROVE  TypeOK'
<1>0. arg[a] \in Ids /\ Task(a) \in Ids /\ Hart(a) \in Harts /\ Api(a) \in Apis
    BY TaskType
<1>1. DmacTypeOK'
    BY TypeParts, TypeFrame DEF Leave
<1>2. PlaceType'
    BY <1>0, TypeParts DEF Leave, PlaceType, Places, Hart
<1>3. HardwareType'
    BY TypeParts, TypeFrame DEF Leave
<1>4. SoftwareType'
    BY TypeParts, TypeFrame DEF Leave, software
<1>5. NextType'
    BY TypeParts, TypeFrame DEF Leave, software
<1>6. JobsType'
    BY TypeParts, TypeFrame DEF Leave
<1>7. StateType'
    BY TypeParts, TypeFrame DEF Leave
<1>8. GhostType'
    BY TypeParts, TypeFrame DEF Leave, ghosts
<1> QED BY <1>1, <1>2, <1>3, <1>4, <1>5, <1>6, <1>7, <1>8, TypePartsNext

-----------------------------------------------------------------------------
(***************************************************************************)
(* The invariant: the start of a job.                                      *)
(***************************************************************************)
LEMMA Frames ==
    /\ UNCHANGED <<fifo, engine, outp>> => (Empty' <=> Empty)
    /\ UNCHANGED <<flags, mask, pend>> => (Calm' <=> Calm)
    /\ UNCHANGED <<chan, ctx, bufs>> => (NoChannel' <=> NoChannel)
    /\ UNCHANGED <<handler, aion>> => \A i \in Ids : Served(i)' <=> Served(i)
    /\ UNCHANGED <<handler, aion, aiprio, cur, job>> => \A i \in Ids : Prepared(i)' <=> Prepared(i)
    /\ UNCHANGED <<chan, dcb, job>> => \A i \in Ids : InputSet(i)' <=> InputSet(i)
    /\ UNCHANGED <<chan, dcb, job, next>> => \A i \in Ids : OutputSet(i)' <=> OutputSet(i)
    /\ UNCHANGED <<chan, ctx, bufs, dcb, job>> => \A i \in Ids : Input(i)' <=> Input(i)
    /\ UNCHANGED <<chan, ctx, bufs, dcb, job, next>> => \A i \in Ids : Output(i)' <=> Output(i)
    /\ UNCHANGED <<mem, outp, engine, fifo>> => \A i \in Ids, n \in Nat : Flow(i, n)' <=> Flow(i, n)
BY DEF Empty, Calm, NoChannel, Served, Prepared, InputSet, OutputSet, Input, Output, Flow, InUse,
   Src, Dest, Size

LEMMA KmodelMaskStep ==
    ASSUME OneHart, TypeOK, Core, NEW a \in Agents, KmodelMask(a)
    PROVE  Core'
<1> SUFFICES ASSUME NEW i \in Ids, arg[a] = i PROVE Core'
    BY TaskType
<1>1. /\ pc[a] = "kmask" /\ MayRun(a) /\ flags' = {} /\ Goto(a, "aireg")
      /\ UNCHANGED <<dmac, pend, fifo, engine, outp, mem, software, job, state, ghosts>>
    BY DEF KmodelMask, At
<1>2. state[i] = "running" /\ Empty /\ NoChannel /\ Calm /\ next[i] = 0 /\ job[i].api = "kmodel"
    BY <1>1 DEF Core, AtPlace, Begins, Starts, Api
<1>3. Empty' /\ NoChannel' /\ Calm'
  <2>1. Calm'
      BY <1>1, <1>2 DEF Calm
  <2> QED BY <1>1, <1>2, <2>1, Frames DEF dmac
<1>4. pc'[a] = "aireg" /\ arg'[a] = i /\ next' = next /\ job' = job /\ state' = state
    BY <1>1 DEF Goto, software, TypeOK
<1>5. AtPlace(a)'
  <2>1. Begins(a)'
      BY <1>2, <1>3, <1>4 DEF Begins, Starts, Api
  <2>2. Opens(a)' /\ Feeds(a)' /\ Layered(a)' /\ Ends(a)'
      BY <1>2, <1>4 DEF Opens, Armed, Feeds, Layered, Ends, Api
  <2> QED BY <2>1, <2>2 DEF AtPlace
<1> QED BY <1>1, <1>2, <1>4, <1>5, WorkerGoes DEF Core, Goto, software, ghosts, Works, Quiet

LEMMA SetTaskStep ==
    ASSUME OneHart, TypeOK, Core, NEW a \in Agents, SetTask(a)
    PROVE  Core'
<1> SUFFICES ASSUME NEW i \in Ids, arg[a] = i PROVE Core'
    BY TaskType
<1>1. /\ pc[a] = "task" /\ MayRun(a) /\ next' = [next EXCEPT ![i] = 0]
      /\ cur' = IF job[i].api = "run" THEN i ELSE cur
      /\ mem' = IF job[i].load = "none" THEN <<<<i, 0>>>> ELSE mem
      /\ Goto(a, CASE job[i].api = "run" -> "aireg"
                   [] job[i].api = "start" -> IF job[i].load = "dma" THEN "inreg" ELSE "ready"
                   [] job[i].api = "kmodel" -> "kmask")
      /\ UNCHANGED <<dmac, flags, mask, pend, fifo, engine, outp, busy, handler, aion, aiprio, dcb,
                     job, state, ghosts>>
    BY DEF SetTask, At, Api
<1>2. /\ state[i] = "running" /\ Empty /\ NoChannel /\ Calm
      /\ a = Ai => job[i].api # "start" \/ job[i].load # "none"
    BY <1>1 DEF Core, AtPlace, Begins, Starts, Api
<1>3. Empty' /\ NoChannel' /\ Calm'
    BY <1>1, <1>2, Frames DEF dmac
<1>4. /\ arg'[a] = i /\ job' = job /\ state' = state
      /\ next'[i] = 0 /\ \A k \in Ids : k # i => next'[k] = next[k]
    BY <1>1 DEF Goto, TypeOK
<1>5. PICK p : /\ Goto(a, p) /\ p \in {"aireg", "inreg", "ready", "kmask"}
               /\ p = CASE job[i].api = "run" -> "aireg"
                        [] job[i].api = "start" -> IF job[i].load = "dma" THEN "inreg" ELSE "ready"
                        [] job[i].api = "kmodel" -> "kmask"
    BY <1>1, JobFacts DEF Apis
<1>6. pc'[a] = p
    BY <1>5 DEF Goto, TypeOK
<1>7. AtPlace(a)'
  <2>1. CASE p = "aireg"
    <3>1. job[i].api = "run" /\ cur' = i
        BY <1>1, <1>5, <2>1, JobFacts DEF Apis
    <3>2. Begins(a)'
        BY <1>2, <1>3, <1>4, <1>6, <2>1, <3>1 DEF Begins, Starts, Api
    <3>3. Opens(a)' /\ Feeds(a)' /\ Layered(a)' /\ Ends(a)'
        BY <1>4, <1>6, <2>1, <3>1 DEF Opens, Armed, Feeds, Layered, Ends, Api
    <3> QED BY <3>2, <3>3 DEF AtPlace
  <2>2. CASE p = "inreg"
    <3>1. job[i].api = "start" /\ job[i].load = "dma"
        BY <1>5, <2>2, JobFacts DEF Apis
    <3>2. Prepared(i)'
        BY <1>4, <3>1 DEF Prepared
    <3>3. Begins(a)'
        BY <1>2, <1>3, <1>4, <1>6, <2>2, <3>1, <3>2 DEF Begins, Starts, Api
    <3>4. Opens(a)' /\ Feeds(a)' /\ Layered(a)' /\ Ends(a)'
        BY <1>4, <1>6, <2>2, <3>1 DEF Opens, Armed, Feeds, Layered, Ends, Api
    <3> QED BY <3>3, <3>4 DEF AtPlace
  <2>3. CASE p = "ready"
    <3>1. job[i].api = "start" /\ job[i].load = "none"
        BY <1>5, <2>3, JobFacts DEF Apis
    <3>2. Prepared(i)'
        BY <1>4, <3>1 DEF Prepared
    <3>3. Flow(i, 0)'
        BY <1>1, <1>2, <3>1, InOrderInput DEF Flow, Empty
    <3>4. Opens(a)'
        BY <1>2, <1>3, <1>4, <1>6, <2>3, <3>1, <3>2, <3>3 DEF Opens, Armed, Api
    <3>5. Begins(a)' /\ Feeds(a)' /\ Layered(a)' /\ Ends(a)'
        BY <1>4, <1>6, <2>3, <3>1 DEF Begins, Starts, Feeds, Layered, Ends, Api
    <3> QED BY <3>4, <3>5 DEF AtPlace
  <2>4. CASE p = "kmask"
    <3>1. job[i].api = "kmodel"
        BY <1>5, <2>4, JobFacts DEF Apis
    <3>3. Begins(a)'
        BY <1>2, <1>3, <1>4, <1>6, <2>4, <3>1 DEF Begins, Starts, Api
    <3>4. Opens(a)' /\ Feeds(a)' /\ Layered(a)' /\ Ends(a)'
        BY <1>4, <1>6, <2>4, <3>1 DEF Opens, Armed, Feeds, Layered, Ends, Api
    <3> QED BY <3>3, <3>4 DEF AtPlace
  <2> QED BY <1>5, <2>1, <2>2, <2>3, <2>4
<1> QED BY <1>1, <1>2, <1>4, <1>5, <1>7, WorkerGoes DEF Core, Goto, ghosts, Works, Quiet

LEMMA AiRegisterStep ==
    ASSUME OneHart, TypeOK, Core, NEW a \in Agents, AiRegister(a)
    PROVE  Core'
<1> SUFFICES ASSUME NEW i \in Ids, arg[a] = i PROVE Core'
    BY TaskType
<1>1. /\ pc[a] = "aireg" /\ MayRun(a)
      /\ handler' = [handler EXCEPT ![Hart1] = i] /\ aion' = aion \cup {Hart1}
      /\ aiprio' = IF job[i].api = "start" THEN 2 ELSE 1
      /\ Goto(a, CASE job[i].api = "run" -> "inreg"
                   [] job[i].api = "start" -> "feed"
                   [] job[i].api = "kmodel" -> IF job[i].load = "dma" THEN "inreg" ELSE "load")
      /\ UNCHANGED <<dmac, hardware, busy, cur, next, dcb, job, state, ghosts>>
    BY AgentFacts DEF AiRegister, At, Api
<1>2. /\ pc'[a] = CASE job[i].api = "run" -> "inreg"
                    [] job[i].api = "start" -> "feed"
                    [] job[i].api = "kmodel" -> IF job[i].load = "dma" THEN "inreg" ELSE "load"
      /\ arg'[a] = i /\ job' = job /\ state' = state /\ next' = next
    BY <1>1 DEF Goto, TypeOK
<1>3. Served(i)'
    BY <1>1, AgentFacts DEF Served, TypeOK
<1>4. CASE job[i].api # "start"
  <2>1. /\ state[i] = "running" /\ Empty /\ NoChannel /\ Calm /\ next[i] = 0
        /\ job[i].api = "run" => cur = i
      BY <1>1, <1>4 DEF Core, AtPlace, Begins, Starts, Api
  <2>2. Empty' /\ NoChannel' /\ Calm'
      BY <1>1, <2>1, Frames DEF dmac, hardware
  <2>3. Prepared(i)'
      BY <1>1, <1>2, <1>3, <1>4, <2>1 DEF Prepared
  <2>4. PICK p : /\ pc'[a] = p /\ p \in {"inreg", "load"} /\ Goto(a, p)
                 /\ p = "inreg" => job[i].load = "dma"
                 /\ p = "load" => job[i].api = "kmodel"
      BY <1>1, <1>2, <1>4, JobFacts DEF Apis
  <2>5. AtPlace(a)'
    <3>1. Begins(a)'
        BY <1>2, <1>3, <2>1, <2>2, <2>3, <2>4 DEF Begins, Starts, Api
    <3>2. Opens(a)' /\ Feeds(a)' /\ Layered(a)' /\ Ends(a)'
        BY <1>2, <2>4 DEF Opens, Armed, Feeds, Layered, Ends, Api
    <3> QED BY <3>1, <3>2 DEF AtPlace
  <2> QED BY <1>1, <1>2, <2>1, <2>4, <2>5, WorkerGoes DEF Core, Goto, ghosts, Works, Quiet
<1>5. CASE job[i].api = "start"
  <2>1. /\ state[i] = "running" /\ Empty /\ Output(i) /\ chan["ch"].run /\ Calm
        /\ next[i] = 0 /\ Flow(i, 0) /\ a # Ai /\ mask = {}
      BY <1>1, <1>5 DEF Core, AtPlace, Opens, Armed, Api
  <2>2. Empty' /\ Output(i)' /\ chan'["ch"].run /\ Calm' /\ Flow(i, 0)' /\ mask' = {}
      BY <1>1, <2>1, Frames DEF dmac, hardware
  <2>3. Prepared(i)'
      BY <1>2, <1>5 DEF Prepared
  <2>4. pc'[a] = "feed" /\ Goto(a, "feed")
      BY <1>1, <1>2, <1>5
  <2>5. AtPlace(a)'
    <3>1. Opens(a)'
        BY <1>2, <1>3, <1>5, <2>1, <2>2, <2>3, <2>4 DEF Opens, Armed, Api
    <3>2. Begins(a)' /\ Feeds(a)' /\ Layered(a)' /\ Ends(a)'
        BY <1>2, <2>1, <2>4 DEF Begins, Starts, Feeds, Layered, Ends, Api
    <3> QED BY <3>1, <3>2 DEF AtPlace
  <2> QED BY <1>1, <1>2, <2>1, <2>4, <2>5, WorkerGoes DEF Core, Goto, ghosts, Works, Quiet
<1> QED BY <1>4, <1>5

LEMMA LoadByCpuStep ==
    ASSUME OneHart, TypeOK, Core, NEW a \in Agents, LoadByCpu(a)
    PROVE  Core'
<1> SUFFICES ASSUME NEW i \in Ids, arg[a] = i PROVE Core'
    BY TaskType
<1>1. /\ pc[a] = "load" /\ MayRun(a) /\ mem' = <<<<i, 0>>>> /\ off' = off \cup {Hart(a)}
      /\ pc' = [pc EXCEPT ![a] = "step"]
      /\ UNCHANGED <<dmac, flags, mask, pend, fifo, engine, outp, software, arg, job, state, ghosts>>
    BY DEF LoadByCpu, At
<1>2. /\ state[i] = "running" /\ Empty /\ NoChannel /\ Calm /\ next[i] = 0
      /\ job[i].api = "kmodel" /\ Served(i)
    BY <1>1 DEF Core, AtPlace, Begins, Starts, Api
<1>3. Empty' /\ NoChannel' /\ Calm' /\ Served(i)' /\ ~pend'
    BY <1>1, <1>2, Frames DEF dmac, software, Calm
<1>4. Flow(i, 0)'
    BY <1>1, <1>2, InOrderInput DEF Flow, Empty
<1>5. pc'[a] = "step" /\ arg'[a] = i /\ next' = next /\ job' = job /\ state' = state
    BY <1>1 DEF TypeOK, software
<1>6. next'[i] < Size(i)' /\ next'[i] = 0
    BY <1>2, <1>5, JobFacts DEF Size
<1>7. AtPlace(a)'
  <2>1. Layered(a)'
      BY <1>2, <1>3, <1>4, <1>5, <1>6 DEF Layered, Api
  <2>2. Begins(a)' /\ Opens(a)' /\ Feeds(a)' /\ Ends(a)'
      BY <1>2, <1>5 DEF Begins, Starts, Opens, Armed, Feeds, Ends, Api
  <2> QED BY <2>1, <2>2 DEF AtPlace
<1> QED BY <1>1, <1>2, <1>5, <1>7, WorkerGoes DEF Core, software, ghosts, Works, Quiet

LEMMA InRegisterStep ==
    ASSUME OneHart, TypeOK, Core, NEW a \in Agents, InRegister(a)
    PROVE  Core'
<1> SUFFICES ASSUME NEW i \in Ids, arg[a] = i PROVE Core'
    BY TaskType
<1>1. /\ pc[a] = "inreg" /\ MayRun(a)
      /\ dcb' = [fn |-> IF job[i].api = "kmodel" THEN "step" ELSE "ready", id |-> i]
      /\ IrqRegister(Hart(a), "ch") /\ Goto(a, "indma")
      /\ UNCHANGED <<bufs, copied, hardware, busy, cur, next, handler, aion, aiprio, job, state, ghosts>>
    BY DEF InRegister, At, Api
<1>2. /\ state[i] = "running" /\ Empty /\ NoChannel /\ Calm /\ next[i] = 0
      /\ Prepared(i) /\ job[i].load = "dma"
    BY <1>1 DEF Core, AtPlace, Begins, Starts, Api
<1>3. Empty' /\ Calm' /\ Prepared(i)'
    BY <1>1, <1>2, Frames DEF hardware
<1>4. /\ chan'["ch"].run = chan["ch"].run /\ ~chan'["ch"].int /\ chan'["ch"].inten
      /\ Src' = Src /\ Dest' = Dest
  <2>1. DmacTypeOK /\ Hart(a) \in Harts
      BY TaskType DEF TypeOK
  <2>2. IrqRegister(Hart(a), "ch") /\ UNCHANGED <<bufs, copied>>
      BY <1>1
  <2> QED BY <2>1, <2>2, RegisterFacts
<1>5. NoChannel' /\ InputSet(i)'
    BY <1>1, <1>2, <1>4 DEF NoChannel, InputSet
<1>6. pc'[a] = "indma" /\ arg'[a] = i /\ next' = next /\ job' = job /\ state' = state
    BY <1>1 DEF Goto, TypeOK
<1>7. AtPlace(a)'
  <2>1. Begins(a)'
      BY <1>2, <1>3, <1>5, <1>6 DEF Begins, Starts, Api
  <2>2. Opens(a)' /\ Feeds(a)' /\ Layered(a)' /\ Ends(a)'
      BY <1>6 DEF Opens, Armed, Feeds, Layered, Ends, Api
  <2> QED BY <2>1, <2>2 DEF AtPlace
<1> QED BY <1>1, <1>2, <1>6, <1>7, WorkerGoes DEF Core, Goto, ghosts, Works, Quiet

LEMMA InDmaStep ==
    ASSUME OneHart, TypeOK, Core, NEW a \in Agents, InDma(a)
    PROVE  Core'
<1> SUFFICES ASSUME NEW i \in Ids, arg[a] = i PROVE Core'
    BY TaskType
<1>1. /\ pc[a] = "indma" /\ MayRun(a) /\ SetSingleMode(Task(a), {"ch"}, {}) /\ Return(a)
      /\ UNCHANGED <<copied, registered, enabled, hardware, software, job, state, ghosts>>
    BY DEF InDma, At
<1>2. /\ state[i] = "running" /\ Empty /\ NoChannel /\ Calm /\ next[i] = 0
      /\ Prepared(i) /\ InputSet(i)
    BY <1>1 DEF Core, AtPlace, Begins, Starts, Api
<1>3. Task(a) = i
    BY <1>2 DEF Task, Api, Prepared
<1>4. Empty' /\ Calm' /\ Prepared(i)' /\ next' = next /\ job' = job /\ dcb' = dcb
    BY <1>1, <1>2, Frames DEF hardware, software
<1>5. /\ chan'["ch"].run /\ ~chan'["ch"].int /\ chan'["ch"].inten = chan["ch"].inten
      /\ Src' = Buffer(i, "src") /\ Dest' = Dest /\ bufs' = bufs \cup {Buffer(i, "src")}
    BY <1>1, <1>3, InputFacts DEF TypeOK
<1>6. Input(i)'
    BY <1>2, <1>4, <1>5 DEF Input, InputSet, InUse, NoChannel, Buffer
<1>7. Waits(i)'
    BY <1>2, <1>4, <1>5, <1>6 DEF Waits, Loading
<1> QED BY <1>1, <1>2, <1>4, <1>7, WorkerReturns DEF Core, software, ghosts, Works, Quiet

LEMMA ReadyStep ==
    ASSUME OneHart, TypeOK, Core, NEW a \in Agents, Ready(a)
    PROVE  Core'
<1> SUFFICES ASSUME NEW i \in Ids, arg[a] = i PROVE Core'
    BY TaskType
<1>1. /\ pc[a] = "ready" /\ MayRun(a)
      /\ flags' = IF job[i].api = "run" THEN {} ELSE flags
      /\ ClearInterrupt({"ch"}) /\ Goto(a, "outreg")
      /\ UNCHANGED <<ctx, bufs, copied, registered, enabled, mask, pend, fifo, engine, outp,
                     mem, software, job, state, ghosts>>
    BY DEF Ready, At, Api
<1>2. /\ state[i] = "running" /\ Empty /\ NoChannel /\ Calm /\ next[i] = 0
      /\ Prepared(i) /\ Flow(i, 0) /\ a # Ai /\ job[i].api # "kmodel"
      /\ job[i].api = "run" => a # Th
    BY <1>1 DEF Core, AtPlace, Opens, Api
<1>3. Empty' /\ Prepared(i)' /\ Flow(i, 0)'
    BY <1>1, <1>2, Frames DEF software
<1>4. Calm'
    BY <1>1, <1>2 DEF Calm
<1>5. NoChannel'
  <2>1. chan'["ch"].run = chan["ch"].run /\ ~chan'["ch"].int
      BY <1>1, ClearFacts DEF TypeOK
  <2> QED BY <1>1, <1>2, <2>1 DEF NoChannel, Src, Dest
<1>6. pc'[a] = "outreg" /\ arg'[a] = i /\ next' = next /\ job' = job /\ state' = state
    BY <1>1 DEF Goto, TypeOK, software
<1>7. AtPlace(a)'
  <2>1. Opens(a)'
      BY <1>1, <1>2, <1>3, <1>4, <1>5, <1>6 DEF Opens, Armed, Api
  <2>2. Begins(a)' /\ Feeds(a)' /\ Layered(a)' /\ Ends(a)'
      BY <1>2, <1>6 DEF Begins, Starts, Feeds, Layered, Ends, Api
  <2> QED BY <2>1, <2>2 DEF AtPlace
<1> QED BY <1>1, <1>2, <1>6, <1>7, WorkerGoes DEF Core, Goto, software, ghosts, Works, Quiet

-----------------------------------------------------------------------------
(***************************************************************************)
(* The invariant: the input is there.                                      *)
(***************************************************************************)
\* code of a job that has ended already goes on, or returns
LEMMA LateGoes ==
    ASSUME OneHart, TypeOK, Core, NEW a \in Agents, Works(a), MayRun(a), Running = {},
           pc[a] \notin {"done", "call"},
           NEW p, p \notin {"cas", "entry", "callback", "call"},
           \/ Goto(a, p) /\ p \notin {"idle", "leave"}
           \/ Return(a) /\ p = IF a[2] = "thread" THEN "idle" ELSE "leave",
           a = Ai /\ p \in {"feed", "push", "count"} => pc[a] \in {"feed", "push", "count"},
           UNCHANGED <<job, state, busy, calls, next>>,
           AtPlace(a)', Rest'
    PROVE  Core'
<1>1. DOMAIN pc = Agents /\ off \subseteq Harts /\ arg' = arg
    BY DEF TypeOK, Goto, Return
<1>2. pc'[a] = p /\ \A b \in Agents : b # a => pc'[b] = pc[b]
    BY <1>1 DEF Goto, Return
<1>3. /\ a = Th => pc[Dm] = "idle" /\ pc[Ai] = "idle"
      /\ a = Dm => pc[Ai] = "idle" /\ pc[Th] \in {"idle", "cas"}
      /\ a = Ai => pc[Dm] \in {"idle", "leave"} /\ pc[Th] \in {"idle", "cas"}
    BY Alone DEF Works, Quiet, Core
<1>4. Callers' /\ Running' = Running
  <2>1. \A k \in Ids : state[k] = "new" => next'[k] = 0
      BY DEF Core, Callers
  <2>2. \A b \in Agents : \/ pc'[b] = pc[b] /\ arg'[b] = arg[b]
                          \/ pc[b] \notin {"cas", "call"} /\ pc'[b] \notin {"cas", "call", "callback"}
      BY <1>1, <1>2 DEF Works, Quiet
  <2> QED BY <1>1, <2>1, <2>2, CallersFrame, AgentFacts DEF Core
<1>5. Nesting'
  <2>1. Hart1 \in off' => /\ pc'[Ai] \notin {"feed", "push", "count"}
                          /\ \E b \in Agents : pc'[b] \notin {"idle", "entry", "leave"}
    <3> SUFFICES ASSUME Hart1 \in off' PROVE /\ pc'[Ai] \notin {"feed", "push", "count"}
                          /\ \E b \in Agents : pc'[b] \notin {"idle", "entry", "leave"}
        OBVIOUS
    <3>1. off' = off /\ pc'[a] \notin {"idle", "entry", "leave"}
        BY <1>2, AgentFacts DEF Goto, Return
    <3>2. CASE a = Ai
        BY <3>1, <3>2, <1>2 DEF Nesting, Core
    <3>3. CASE a # Ai
        BY <3>1, <3>3, <1>2, <1>3, AgentFacts
    <3> QED BY <3>2, <3>3
  <2>2. a = Th => p # "leave"
      BY AgentFacts
  <2> QED BY <2>1, <2>2, <1>2, <1>3, AgentFacts DEF Nesting, Quiet, Works
<1>6. \A b \in Agents : AtPlace(b)'
  <2> SUFFICES ASSUME NEW b \in Agents, b # a PROVE AtPlace(b)'
      OBVIOUS
  <2> QED BY <1>2, <1>3, AgentFacts, QuietPlaceNext DEF Quiet
<1>7. Waiting'
    BY <1>4 DEF Waiting
<1>8. Entered'
  <2>1. pc'[Dm] # "entry"
      BY <1>2, <1>3, AgentFacts DEF Works, Quiet
  <2> QED BY <2>1 DEF Entered
<1> QED BY <1>4, <1>5, <1>6, <1>7, <1>8 DEF Core

LEMMA OutRegisterStep ==
    ASSUME OneHart, TypeOK, Core, NEW a \in Agents, OutRegister(a)
    PROVE  Core'
<1> SUFFICES ASSUME NEW i \in Ids, arg[a] = i PROVE Core'
    BY TaskType
<1>1. /\ pc[a] = "outreg" /\ MayRun(a)
      /\ dcb' = [fn |-> IF job[i].api = "kmodel" /\ next[Task(a)] # Size(Task(a)) THEN "step" ELSE "done",
                 id |-> Task(a)]
      /\ IrqRegister(Hart(a), "ch") /\ Goto(a, "outdma")
      /\ UNCHANGED <<bufs, copied, hardware, busy, cur, next, handler, aion, aiprio, job, state, ghosts>>
    BY DEF OutRegister, At, Api
<1>2. state[i] = "running" /\ Empty /\ NoChannel /\ Calm
    BY <1>1 DEF Core, AtPlace, Opens, Layered, Api
<1>3. Task(a) = i
  <2>1. job[i].api = "run" => Prepared(i)
      BY <1>1 DEF Core, AtPlace, Opens, Api
  <2> QED BY <2>1 DEF Task, Api, Prepared
<1>4. /\ chan'["ch"].run = chan["ch"].run /\ ~chan'["ch"].int /\ chan'["ch"].inten
      /\ Src' = Src /\ Dest' = Dest
  <2>1. DmacTypeOK /\ Hart(a) \in Harts
      BY TaskType DEF TypeOK
  <2>2. IrqRegister(Hart(a), "ch") /\ UNCHANGED <<bufs, copied>>
      BY <1>1
  <2> QED BY <2>1, <2>2, RegisterFacts
<1>5. NoChannel'
    BY <1>1, <1>2, <1>4 DEF NoChannel
<1>6. pc'[a] = "outdma" /\ arg'[a] = i /\ next' = next /\ job' = job /\ state' = state
    BY <1>1 DEF Goto, TypeOK
<1>7. OutputSet(i)'
    BY <1>1, <1>3, <1>4, <1>6 DEF OutputSet, Size
<1>8. Empty' /\ Calm'
    BY <1>1, <1>2, Frames DEF hardware
<1>9. AtPlace(a)'
  <2>1. CASE job[i].api # "kmodel"
    <3>1. /\ next[i] = 0 /\ Flow(i, 0) /\ Prepared(i) /\ a # Ai
          /\ job[i].api = "run" => flags = {} /\ a # Th
        BY <1>1, <2>1 DEF Core, AtPlace, Opens, Api
    <3>2. Flow(i, 0)' /\ Prepared(i)' /\ flags' = flags
        BY <1>1, <3>1, Frames DEF hardware
    <3>3. Opens(a)'
        BY <1>2, <1>5, <1>6, <1>7, <1>8, <2>1, <3>1, <3>2 DEF Opens, Armed, Api
    <3>4. Begins(a)' /\ Feeds(a)' /\ Layered(a)' /\ Ends(a)'
        BY <1>6, <2>1 DEF Begins, Starts, Feeds, Layered, Ends, Api
    <3> QED BY <3>3, <3>4 DEF AtPlace
  <2>2. CASE job[i].api = "kmodel"
    <3>1. /\ Served(i) /\ ~pend /\ next[i] # 0 /\ Flow(i, next[i] - 1) /\ Kind(i, next[i]) = "out" /\ mask = {}
        BY <1>1, <2>2 DEF Core, AtPlace, Layered, Api
    <3>2. Served(i)' /\ ~pend' /\ Flow(i, next[i] - 1)' /\ mask' = {} /\ Kind(i, next[i])' = "out"
      <4>1. next[i] - 1 \in Nat
          BY <3>1, JobFacts
      <4>2. Flow(i, next[i] - 1)'
          BY <1>1, <3>1 DEF hardware, Flow
      <4> QED BY <1>1, <3>1, <4>2, Frames DEF hardware, Kind
    <3>3. Layered(a)'
        BY <1>2, <1>5, <1>6, <1>7, <1>8, <2>2, <3>1, <3>2 DEF Layered, Api
    <3>4. Begins(a)' /\ Opens(a)' /\ Feeds(a)' /\ Ends(a)'
        BY <1>6, <2>2 DEF Begins, Starts, Opens, Armed, Feeds, Ends, Api
    <3> QED BY <3>3, <3>4 DEF AtPlace
  <2> QED BY <2>1, <2>2
<1> QED BY <1>1, <1>2, <1>6, <1>9, WorkerGoes DEF Core, Goto, ghosts, Works, Quiet

LEMMA OutDmaStep ==
    ASSUME OneHart, TypeOK, Core, NEW a \in Agents, OutDma(a)
    PROVE  Core'
<1> SUFFICES ASSUME NEW i \in Ids, arg[a] = i PROVE Core'
    BY TaskType
<1>1. /\ pc[a] = "outdma" /\ MayRun(a) /\ SetSingleMode(Task(a), {}, {"ch"})
      /\ Goto(a, CASE job[i].api = "run" -> "unmask"
                   [] job[i].api = "start" -> "mask"
                   [] job[i].api = "kmodel" -> "send")
      /\ UNCHANGED <<copied, registered, enabled, hardware, software, job, state, ghosts>>
    BY DEF OutDma, At, Api
<1>2. state[i] = "running" /\ Empty /\ NoChannel /\ Calm /\ OutputSet(i)
    BY <1>1 DEF Core, AtPlace, Opens, Layered, Api
<1>3. Task(a) = i
  <2>1. job[i].api = "run" => Prepared(i)
      BY <1>1 DEF Core, AtPlace, Opens, Api
  <2> QED BY <2>1 DEF Task, Api, Prepared
<1>4. /\ chan'["ch"].run /\ ~chan'["ch"].int /\ chan'["ch"].inten = chan["ch"].inten
      /\ Src' = Src /\ Dest' = Buffer(i, "dest") /\ bufs' = bufs \cup {Buffer(i, "dest")}
    BY <1>1, <1>3, OutputFacts DEF TypeOK
<1>5. PICK p : /\ Goto(a, p) /\ p \in {"unmask", "mask", "send"}
               /\ p = CASE job[i].api = "run" -> "unmask"
                        [] job[i].api = "start" -> "mask"
                        [] job[i].api = "kmodel" -> "send"
    BY <1>1, JobFacts DEF Apis
<1>6. pc'[a] = p /\ arg'[a] = i /\ next' = next /\ job' = job /\ state' = state /\ dcb' = dcb
    BY <1>1, <1>5 DEF Goto, TypeOK, software
<1>7. Output(i)'
    BY <1>2, <1>4, <1>6 DEF Output, OutputSet, InUse, NoChannel, Buffer, Size
<1>8. Empty' /\ Calm'
    BY <1>1, <1>2, Frames DEF hardware
<1>9. AtPlace(a)'
  <2>1. CASE job[i].api # "kmodel"
    <3>1. /\ next[i] = 0 /\ Flow(i, 0) /\ Prepared(i) /\ a # Ai
          /\ job[i].api = "run" => flags = {} /\ a # Th
        BY <1>1, <2>1 DEF Core, AtPlace, Opens, Api
    <3>2. Flow(i, 0)' /\ Prepared(i)' /\ flags' = flags
        BY <1>1, <3>1, Frames DEF hardware, software
    <3>3. (p = "unmask" /\ job[i].api = "run") \/ (p = "mask" /\ job[i].api = "start")
        BY <1>5, <2>1, JobFacts DEF Apis
    <3>4. Opens(a)'
        BY <1>2, <1>4, <1>6, <1>7, <1>8, <3>1, <3>2, <3>3 DEF Opens, Armed, Api
    <3>5. Begins(a)' /\ Feeds(a)' /\ Layered(a)' /\ Ends(a)'
        BY <1>6, <3>3 DEF Begins, Starts, Feeds, Layered, Ends, Api
    <3> QED BY <3>4, <3>5 DEF AtPlace
  <2>2. CASE job[i].api = "kmodel"
    <3>1. /\ Served(i) /\ ~pend /\ next[i] # 0 /\ Flow(i, next[i] - 1) /\ Kind(i, next[i]) = "out" /\ mask = {}
        BY <1>1, <2>2 DEF Core, AtPlace, Layered, Api
    <3>2. Served(i)' /\ ~pend' /\ Flow(i, next[i] - 1)' /\ mask' = {} /\ Kind(i, next[i])' = "out"
      <4>1. Flow(i, next[i] - 1)'
          BY <1>1, <3>1 DEF hardware, software, Flow
      <4> QED BY <1>1, <3>1, <4>1, Frames DEF hardware, software, Kind
    <3>3. p = "send"
        BY <1>5, <2>2
    <3>4. Layered(a)'
        BY <1>2, <1>4, <1>6, <1>7, <1>8, <2>2, <3>1, <3>2, <3>3 DEF Layered, Api
    <3>5. Begins(a)' /\ Opens(a)' /\ Feeds(a)' /\ Ends(a)'
        BY <1>6, <2>2, <3>3 DEF Begins, Starts, Opens, Armed, Feeds, Ends, Api
    <3> QED BY <3>4, <3>5 DEF AtPlace
  <2> QED BY <2>1, <2>2
<1> QED BY <1>1, <1>2, <1>5, <1>6, <1>9, WorkerGoes DEF Core, Goto, software, ghosts, Works, Quiet

LEMMA MaskStep ==
    ASSUME OneHart, TypeOK, Core, NEW a \in Agents, Mask(a)
    PROVE  Core'
<1> SUFFICES ASSUME NEW i \in Ids, arg[a] = i PROVE Core'
    BY TaskType
<1>1. /\ pc[a] = "mask" /\ MayRun(a) /\ flags' = {} /\ mask' = {} /\ Goto(a, "aireg")
      /\ UNCHANGED <<dmac, pend, fifo, engine, outp, mem, software, job, state, ghosts>>
    BY DEF Mask, At
<1>2. job[i].api = "start"
    BY <1>1 DEF Core, AtPlace, Opens, Api
<1>3. /\ state[i] = "running" /\ Empty /\ Output(i) /\ chan["ch"].run /\ Calm
      /\ next[i] = 0 /\ Flow(i, 0) /\ Prepared(i) /\ a # Ai
    BY <1>1, <1>2 DEF Core, AtPlace, Opens, Armed, Api
<1>4. Empty' /\ Output(i)' /\ chan'["ch"].run /\ Flow(i, 0)' /\ Prepared(i)'
    BY <1>1, <1>3, Frames DEF dmac, software
<1>5. Calm'
    BY <1>1, <1>3 DEF Calm
<1>6. pc'[a] = "aireg" /\ arg'[a] = i /\ next' = next /\ job' = job /\ state' = state
    BY <1>1 DEF Goto, TypeOK, software
<1>7. AtPlace(a)'
  <2>1. Opens(a)'
      BY <1>1, <1>2, <1>3, <1>4, <1>5, <1>6 DEF Opens, Armed, Api
  <2>2. Begins(a)' /\ Feeds(a)' /\ Layered(a)' /\ Ends(a)'
      BY <1>2, <1>6 DEF Begins, Starts, Feeds, Layered, Ends, Api
  <2> QED BY <2>1, <2>2 DEF AtPlace
<1> QED BY <1>1, <1>3, <1>6, <1>7, WorkerGoes DEF Core, Goto, software, ghosts, Works, Quiet

LEMMA UnmaskStep ==
    ASSUME OneHart, TypeOK, Core, NEW a \in Agents, Unmask(a)
    PROVE  Core'
<1> SUFFICES ASSUME NEW i \in Ids, arg[a] = i PROVE Core'
    BY TaskType
<1>1. /\ pc[a] = "unmask" /\ MayRun(a)
      /\ IF job[i].api = "run" THEN mask' = {"calc", "empty"} /\ Goto(a, "feed")
                               ELSE mask' = {"empty"} /\ Return(a)
      /\ UNCHANGED <<dmac, flags, pend, fifo, engine, outp, mem, software, job, state, ghosts>>
    BY DEF Unmask, At, Api
<1>2. job[i].api \in {"run", "start"}
  <2>1. job[i].api # "kmodel"
      BY <1>1 DEF Core, AtPlace, Opens, Api
  <2> QED BY <2>1, JobFacts DEF Apis
<1>3. arg'[a] = i /\ next' = next /\ job' = job /\ state' = state
    BY <1>1 DEF Goto, Return, TypeOK, software
<1>4. CASE job[i].api = "run"
  <2>1. /\ state[i] = "running" /\ Empty /\ Output(i) /\ chan["ch"].run /\ Calm
        /\ next[i] = 0 /\ Flow(i, 0) /\ Prepared(i) /\ a # Ai /\ flags = {} /\ a # Th
      BY <1>1, <1>4 DEF Core, AtPlace, Opens, Armed, Api
  <2>2. Empty' /\ Output(i)' /\ chan'["ch"].run /\ Flow(i, 0)' /\ Prepared(i)' /\ flags' = {}
      BY <1>1, <2>1, Frames DEF dmac, software
  <2>3. Calm' /\ Served(i)'
      BY <1>1, <1>3, <1>4, <2>1, <2>2 DEF Calm, Prepared
  <2>4. pc'[a] = "feed" /\ Goto(a, "feed")
      BY <1>1, <1>4 DEF Goto, TypeOK
  <2>5. AtPlace(a)'
    <3>1. Opens(a)'
        BY <1>3, <1>4, <2>1, <2>2, <2>3, <2>4 DEF Opens, Armed, Api
    <3>2. Begins(a)' /\ Feeds(a)' /\ Layered(a)' /\ Ends(a)'
        BY <2>1, <2>4 DEF Begins, Starts, Feeds, Layered, Ends, Api
    <3> QED BY <3>1, <3>2 DEF AtPlace
  <2> QED BY <1>1, <1>3, <2>1, <2>4, <2>5, WorkerGoes DEF Core, Goto, software, ghosts, Works, Quiet
<1>5. CASE job[i].api = "start"
  <2>1. /\ a # Ai /\ Served(i)
        /\ Streaming(i, next[i]) \/ (Late(a, i) /\ next[i] = Size(i))
      BY <1>1, <1>5 DEF Core, AtPlace, Feeds, Api
  <2>2. Return(a) /\ Works(a) /\ UNCHANGED <<job, state, busy, calls, next>>
      BY <1>1, <1>5 DEF Works, Quiet, software, ghosts
  <2>3. CASE Streaming(i, next[i])
    <3>1. Streaming(i, next[i])'
      <4>1. next[i] \in Nat
          BY JobFacts
      <4> QED BY <1>1, <1>3, <2>3, <4>1, Frames DEF Streaming, dmac, software, Size
    <3>2. Waits(i)'
        BY <1>3, <1>5, <3>1 DEF Waits
    <3> QED BY <1>1, <2>2, <2>3, <3>2, WorkerReturns DEF Core, Streaming
  <2>4. CASE Late(a, i) /\ next[i] = Size(i)
    <3>1. a = Th /\ pc[Dm] = "idle" /\ pc[Ai] = "idle"
        BY <1>1, <2>2, <2>4, Alone DEF Late, Core
    <3>2. state[i] = "done" /\ Running = {}
        BY <2>4, <3>1 DEF Late
    <3>3. pc'[Th] = "idle" /\ pc'[Dm] = "idle" /\ pc'[Ai] = "idle"
        BY <2>2, <3>1, AgentFacts DEF Return, TypeOK
    <3>4. Rest'
      <4>1. Empty /\ NoChannel
          BY <3>2 DEF Core, Rest
      <4>2. Empty' /\ NoChannel'
          BY <1>1, <4>1, Frames DEF dmac
      <4>3. AfterLast'
          BY <1>1, <1>3, <1>5, <2>1, <2>4, <3>2, <3>3, NoneAssumption DEF AfterLast, Served, Size, software
      <4> QED BY <4>2, <4>3 DEF Rest
    <3>5. AtPlace(a)'
        BY <3>1, <3>3, QuietPlaceNext DEF Quiet
    <3> QED BY <1>1, <2>2, <3>1, <3>2, <3>4, <3>5, LateGoes, AgentFacts
  <2> QED BY <2>1, <2>3, <2>4
<1> QED BY <1>2, <1>4, <1>5

-----------------------------------------------------------------------------
(***************************************************************************)
(* The invariant: kpu_continue and kpu_config_input.                       *)
(***************************************************************************)
LEMMA BurstForFacts ==
    ASSUME TypeOK, NEW i \in Ids
    PROVE  /\ BurstFor(i) \in Nat /\ next[i] + BurstFor(i) \in Nat /\ next[i] + BurstFor(i) <= Size(i)
           /\ next[i] = Size(i) => BurstFor(i) = 0 /\ Remain(i) <= Burst
           /\ next[i] = 0 => Remain(i) # 0
<1>1. Burst \in Nat /\ next[i] \in Nat /\ Size(i) \in Nat /\ next[i] <= Size(i) /\ Size(i) # 0
    BY JobAssumption, JobFacts
<1>2. Remain(i) = Size(i) - next[i]
    BY DEF Remain
<1> QED BY <1>1, <1>2 DEF BurstFor, Smaller

LEMMA BurstIs ==
    ASSUME TypeOK, NEW a \in Agents, NEW i \in Ids, arg[a] = i, job[i].api = "run" => cur = i
    PROVE  Task(a) = i /\ Smaller(BurstOf(a), Remain(i)) = BurstFor(i)
BY DEF Task, BurstOf, BurstFor, Api

LEMMA FeedStep ==
    ASSUME OneHart, TypeOK, Core, NEW a \in Agents, Feed(a)
    PROVE  Core'
<1> SUFFICES ASSUME NEW i \in Ids, arg[a] = i PROVE Core'
    BY TaskType
<1>1. /\ pc[a] = "feed" /\ MayRun(a) /\ flags' = {}
      /\ IF job[i].api = "run" /\ Remain(cur) = 0 THEN Return(a) ELSE Goto(a, "push")
      /\ UNCHANGED <<dmac, mask, pend, fifo, engine, outp, mem, software, job, state, ghosts>>
    BY DEF Feed, At, Api
<1>2. /\ job[i].api # "kmodel" /\ Works(a) /\ UNCHANGED <<job, state, busy, calls, next>>
      /\ job[i].api = "run" => a # Th
    BY <1>1 DEF Core, AtPlace, Opens, Api, Works, Quiet, software, ghosts
<1>3. arg'[a] = i
    BY <1>1 DEF Goto, Return, TypeOK
<1>4. CASE a # Ai
  <2>1. /\ state[i] = "running" /\ Empty /\ Output(i) /\ chan["ch"].run /\ Calm
        /\ next[i] = 0 /\ Flow(i, 0) /\ Prepared(i) /\ Served(i)
        /\ job[i].api = "start" => mask = {}
      BY <1>1, <1>4 DEF Core, AtPlace, Opens, Armed, Api
  <2>2. Empty' /\ Output(i)' /\ chan'["ch"].run /\ Flow(i, 0)' /\ Prepared(i)' /\ Served(i)'
      BY <1>1, <2>1, Frames DEF dmac, software
  <2>3. Calm'
      BY <1>1, <2>1 DEF Calm
  <2>4. pc'[a] = "push" /\ Goto(a, "push")
    <3>1. job[i].api = "run" => Remain(cur) # 0
        BY <2>1, BurstForFacts DEF Prepared
    <3> QED BY <1>1, <3>1 DEF Goto, TypeOK
  <2>5. AtPlace(a)'
    <3>1. Opens(a)'
        BY <1>1, <1>2, <1>3, <1>4, <2>1, <2>2, <2>3, <2>4 DEF Opens, Armed, Api
    <3>2. Begins(a)' /\ Feeds(a)' /\ Layered(a)' /\ Ends(a)'
        BY <1>4, <2>4 DEF Begins, Starts, Feeds, Layered, Ends, Api
    <3> QED BY <3>1, <3>2 DEF AtPlace
  <2> QED BY <1>1, <1>2, <1>4, <2>1, <2>4, <2>5, WorkerGoes DEF Core, Goto, Quiet
<1>5. CASE a = Ai
  <2>1. /\ Served(i)
        /\ \/ Streaming(i, next[i])
           \/ state[i] = "done" /\ Running = {} /\ job[i].api = "start" /\ next[i] = Size(i)
      BY <1>1, <1>5 DEF Core, AtPlace, Feeds, Api
  <2>2. Served(i)'
      BY <1>1, <2>1, Frames DEF software
  <2>3. CASE Streaming(i, next[i])
    <3>1. Streaming(i, next[i])'
      <4>1. next[i] \in Nat
          BY JobFacts
      <4> QED BY <1>1, <1>2, <2>3, <4>1, Frames DEF Streaming, dmac, software, Size
    <3>2. CASE Return(a)
      <4>1. Waits(i)'
          BY <1>2, <3>1 DEF Waits
      <4> QED BY <1>1, <1>2, <2>3, <3>2, <4>1, WorkerReturns DEF Core, Streaming
    <3>3. CASE Goto(a, "push")
      <4>1. pc'[a] = "push"
          BY <3>3 DEF Goto, TypeOK
      <4>2. AtPlace(a)'
        <5>1. Feeds(a)'
            BY <1>2, <1>3, <1>5, <2>2, <3>1, <4>1 DEF Feeds, Api
        <5>2. Opens(a)' /\ Begins(a)' /\ Layered(a)' /\ Ends(a)'
            BY <1>2, <1>3, <1>5, <4>1 DEF Opens, Armed, Begins, Starts, Layered, Ends, Api
        <5> QED BY <5>1, <5>2 DEF AtPlace
      <4> QED BY <1>1, <1>2, <2>3, <3>3, <4>1, <4>2, WorkerGoes DEF Core, Goto, Quiet, Streaming
    <3> QED BY <1>1, <3>2, <3>3
  <2>4. CASE state[i] = "done" /\ Running = {} /\ job[i].api = "start" /\ next[i] = Size(i)
    <3>1. Goto(a, "push") /\ pc'[a] = "push"
        BY <1>1, <2>4 DEF Goto, TypeOK
    <3>2. Running' = {}
        BY <1>2, <2>4 DEF Running
    <3>3. AtPlace(a)'
      <4>1. Feeds(a)'
          BY <1>2, <1>3, <1>5, <2>2, <2>4, <3>1, <3>2 DEF Feeds, Api, Size
      <4>2. Opens(a)' /\ Begins(a)' /\ Layered(a)' /\ Ends(a)'
          BY <1>2, <1>3, <1>5, <3>1 DEF Opens, Armed, Begins, Starts, Layered, Ends, Api
      <4> QED BY <4>1, <4>2 DEF AtPlace
    <3>4. Rest'
      <4>1. Empty /\ NoChannel /\ AfterLast
          BY <1>1, <1>5, <2>4 DEF Core, Rest
      <4>2. Empty' /\ NoChannel'
          BY <1>1, <4>1, Frames DEF dmac
      <4>3. pc'[Th] = pc[Th] /\ pc'[Dm] = pc[Dm]
          BY <1>5, <3>1, AgentFacts DEF Goto, TypeOK
      <4>4. AfterLast'
          BY <1>1, <1>2, <1>5, <3>1, <4>1, <4>3 DEF AfterLast, software, Size
      <4> QED BY <4>2, <4>4 DEF Rest
    <3> QED BY <1>1, <1>2, <2>4, <3>1, <3>3, <3>4, LateGoes
  <2> QED BY <2>1, <2>3, <2>4
<1> QED BY <1>4, <1>5

LEMMA PushStep ==
    ASSUME OneHart, TypeOK, Core, NEW a \in Agents, Push(a)
    PROVE  Core'
<1> SUFFICES ASSUME NEW i \in Ids, arg[a] = i PROVE Core'
    BY TaskType
<1>0. PICK n \in Nat, s \in Nat : n = next[i] /\ s = BurstFor(i)
    BY BurstForFacts, JobFacts
<1>1. /\ pc[a] = "push" /\ MayRun(a) /\ Goto(a, "count")
      /\ fifo' = fifo \o [k \in 1 .. Smaller(BurstOf(a), Remain(Task(a))) |-> <<Task(a), next[Task(a)] + k>>]
      /\ UNCHANGED <<dmac, flags, mask, pend, engine, outp, mem, software, job, state, ghosts>>
    BY DEF Push, At
<1>2. /\ job[i].api # "kmodel" /\ Works(a) /\ UNCHANGED <<job, state, busy, calls, next>>
      /\ job[i].api = "run" => a # Th
    BY <1>1 DEF Core, AtPlace, Opens, Api, Works, Quiet, software, ghosts
<1>3. arg'[a] = i /\ pc'[a] = "count"
    BY <1>1 DEF Goto, TypeOK
<1>4. job[i].api = "run" => cur = i
  <2>1. CASE a # Ai
      BY <1>1, <2>1 DEF Core, AtPlace, Opens, Armed, Api, Prepared
  <2>2. CASE a = Ai
      BY <1>1, <2>2 DEF Core, AtPlace, Feeds, Api, Streaming, Prepared
  <2> QED BY <2>1, <2>2
<1>5. fifo' = fifo \o [k \in 1 .. s |-> <<i, n + k>>]
    BY <1>0, <1>1, <1>4, BurstIs
<1>6. BurstFor(i)' = s /\ next'[i] = n /\ Size(i)' = Size(i)
    BY <1>0, <1>1, <1>2 DEF BurstFor, Remain, Size
<1>7. n + s \in Nat /\ n + s <= Size(i) /\ Size(i) \in Nat /\ n <= Size(i) /\ (n = Size(i) => s = 0)
    BY <1>0, BurstForFacts, JobFacts
<1>8. ASSUME Streaming(i, n)
      PROVE  Streaming(i, n + s)'
  <2>1. /\ mem \in Seq(Layers) /\ outp \in Layers \cup {None} /\ engine \in Layers \cup {None}
        /\ fifo \in Seq(Layers)
      BY DEF TypeOK
  <2>2. Flow(i, n) /\ (outp # None => Len(mem) = Size(i))
      BY <1>8 DEF Streaming
  <2>3. outp # None => s = 0
    <3>1. outp # None => Len(mem) = n
        BY <1>7, <2>1, <2>2, InOrderBounds DEF Flow
    <3> QED BY <1>7, <2>2, <3>1
  <2>4. InOrder(i, n + s, mem, outp, engine, fifo \o [k \in 1 .. s |-> <<i, n + k>>])
      BY <1>7, <2>1, <2>2, <2>3, InOrderPush DEF Flow
  <2>5. Flow(i, n + s)'
      BY <1>1, <1>5, <2>4 DEF Flow, software
  <2>6. Output(i)' /\ Prepared(i)' /\ Served(i)'
      BY <1>1, <1>8, Frames DEF Streaming, dmac, software
  <2> QED BY <1>1, <1>2, <1>6, <1>7, <1>8, <2>2, <2>5, <2>6 DEF Streaming, dmac
<1>9. CASE a # Ai
  <2>1. /\ state[i] = "running" /\ Empty /\ Output(i) /\ chan["ch"].run /\ Calm
        /\ n = 0 /\ Flow(i, 0) /\ Prepared(i) /\ Served(i)
        /\ job[i].api = "start" => mask = {}
      BY <1>0, <1>1, <1>9 DEF Core, AtPlace, Opens, Armed, Api
  <2>2. Streaming(i, n)
      BY <1>7, <2>1 DEF Streaming, Empty, Output, InUse
  <2>3. Streaming(i, s)' /\ Served(i)'
      BY <1>7, <1>8, <2>1, <2>2 DEF Streaming
  <2>4. job[i].api = "start" => mask' = {} /\ ~pend'
      BY <1>1, <2>1 DEF Calm
  <2>5. AtPlace(a)'
    <3>1. Feeds(a)'
        BY <1>2, <1>3, <1>6, <1>9, <2>1, <2>3, <2>4 DEF Feeds, Api
    <3>2. Begins(a)' /\ Opens(a)' /\ Layered(a)' /\ Ends(a)'
        BY <1>2, <1>3 DEF Begins, Starts, Opens, Armed, Layered, Ends, Api
    <3> QED BY <3>1, <3>2 DEF AtPlace
  <2> QED BY <1>1, <1>2, <1>9, <2>1, <2>5, WorkerGoes DEF Core, Goto, Quiet
<1>10. CASE a = Ai
  <2>1. /\ Served(i)
        /\ \/ Streaming(i, n)
           \/ state[i] = "done" /\ Running = {} /\ job[i].api = "start" /\ n = Size(i)
      BY <1>0, <1>1, <1>10 DEF Core, AtPlace, Feeds, Api
  <2>2. Served(i)'
      BY <1>1, <2>1, Frames DEF software
  <2>3. CASE Streaming(i, n)
    <3>1. Streaming(i, n + s)'
        BY <1>8, <2>3
    <3>2. AtPlace(a)'
      <4>1. Feeds(a)'
          BY <1>2, <1>3, <1>6, <1>10, <2>2, <3>1 DEF Feeds, Api
      <4>2. Begins(a)' /\ Opens(a)' /\ Layered(a)' /\ Ends(a)'
          BY <1>2, <1>3, <1>10 DEF Begins, Starts, Opens, Armed, Layered, Ends, Api
      <4> QED BY <4>1, <4>2 DEF AtPlace
    <3> QED BY <1>1, <1>2, <2>3, <3>2, WorkerGoes DEF Core, Goto, Quiet, Streaming
  <2>4. CASE state[i] = "done" /\ Running = {} /\ job[i].api = "start" /\ n = Size(i)
    <3>2. Running' = {}
        BY <1>2, <2>4 DEF Running
    <3>3. AtPlace(a)'
      <4>1. Feeds(a)'
          BY <1>0, <1>2, <1>3, <1>6, <1>10, <2>2, <2>4, <3>2 DEF Feeds, Api
      <4>2. Opens(a)' /\ Begins(a)' /\ Layered(a)' /\ Ends(a)'
          BY <1>2, <1>3, <1>10 DEF Opens, Armed, Begins, Starts, Layered, Ends, Api
      <4> QED BY <4>1, <4>2 DEF AtPlace
    <3>4. Rest'
      <4>1. Empty /\ NoChannel /\ AfterLast
          BY <1>1, <1>10, <2>4 DEF Core, Rest
      <4>2. fifo' = <<>>
        <5>1. s = 0 /\ fifo = <<>>
            BY <1>7, <2>4, <4>1 DEF Empty
        <5>2. [k \in 1 .. s |-> <<i, n + k>>] = <<>>
            BY <5>1
                <5>3. <<>> \o <<>> = <<>>
            OBVIOUS
        <5> QED BY ONLY <1>5, <5>1, <5>2, <5>3
      <4>3. Empty' /\ NoChannel'
          BY <1>1, <4>1, <4>2, Frames DEF dmac, Empty
      <4>4. pc'[Th] = pc[Th] /\ pc'[Dm] = pc[Dm]
          BY <1>1, <1>10, AgentFacts DEF Goto, TypeOK
      <4>5. AfterLast'
          BY <1>1, <1>2, <1>3, <1>10, <4>1, <4>4 DEF AfterLast, software, Size
      <4> QED BY <4>3, <4>5 DEF Rest
    <3> QED BY <1>1, <1>2, <2>4, <3>3, <3>4, LateGoes
  <2> QED BY <2>1, <2>3, <2>4
<1> QED BY <1>9, <1>10

-----------------------------------------------------------------------------
(***************************************************************************)
(* The invariant: the end of a burst, and ai_step.                         *)
(***************************************************************************)
LEMMA CountStep ==
    ASSUME OneHart, TypeOK, Core, NEW a \in Agents, Count(a)
    PROVE  Core'
<1> SUFFICES ASSUME NEW i \in Ids, arg[a] = i PROVE Core'
    BY TaskType
<1>0. PICK n \in Nat, s \in Nat : n = next[i] /\ s = BurstFor(i)
    BY BurstForFacts, JobFacts
<1>1. /\ pc[a] = "count" /\ MayRun(a)
      /\ next' = [next EXCEPT ![Task(a)] = @ + Smaller(BurstOf(a), Remain(Task(a)))]
      /\ mask' = IF job[i].api = "start" /\ Remain(Task(a)) <= Burst THEN {} ELSE mask
      /\ IF job[i].api = "start" /\ a[2] # "ai" THEN Goto(a, "unmask") ELSE Return(a)
      /\ UNCHANGED <<dmac, flags, pend, fifo, engine, outp, mem, busy, cur, handler, aion, aiprio,
                     dcb, job, state, ghosts>>
    BY DEF Count, At, Api
<1>2. /\ job[i].api # "kmodel" /\ job[i].api \in Apis /\ Works(a) /\ UNCHANGED <<job, state, busy, calls>>
      /\ job[i].api = "run" => a # Th
    BY <1>1, JobFacts DEF Core, AtPlace, Opens, Api, Works, Quiet, ghosts
<1>3. arg'[a] = i
    BY <1>1 DEF Goto, Return, TypeOK
<1>4. job[i].api = "run" => cur = i
  <2>1. CASE a # Ai
      BY <1>1, <1>2, <2>1 DEF Core, AtPlace, Feeds, Api, Streaming, Prepared, Late
  <2>2. CASE a = Ai
      BY <1>1, <2>2 DEF Core, AtPlace, Feeds, Api, Streaming, Prepared
  <2> QED BY <2>1, <2>2
<1>5. Task(a) = i /\ next'[i] = n + s /\ \A k \in Ids : k # i => next'[k] = next[k]
    BY <1>0, <1>1, <1>4, BurstIs DEF TypeOK
<1>6. n + s \in Nat /\ n + s <= Size(i) /\ Size(i) \in Nat /\ n <= Size(i) /\ (n = Size(i) => s = 0)
      /\ (n = Size(i) => Remain(i) <= Burst)
    BY <1>0, BurstForFacts, JobFacts
<1>7. Size(i)' = Size(i)
    BY <1>1 DEF Size
<1>8. ASSUME Streaming(i, n + s)
      PROVE  Streaming(i, n + s)'
  <2>1. Flow(i, n + s)' /\ Prepared(i)' /\ Served(i)'
      BY <1>1, <1>6, <1>8, Frames DEF Streaming
  <2>2. Output(i)'
      BY <1>1, <1>2, <1>8 DEF Streaming, Output, OutputSet, InUse, Src, Dest, dmac
  <2> QED BY <1>1, <1>7, <1>8, <2>1, <2>2 DEF Streaming, dmac
<1>9. CASE a # Ai
  <2>1. /\ n = 0
        /\ Streaming(i, s) \/ (Late(a, i) /\ s = Size(i))
        /\ job[i].api = "start" => mask = {} /\ ~pend /\ Served(i)
      BY <1>0, <1>1, <1>9 DEF Core, AtPlace, Feeds, Api
  <2>2. a[2] # "ai"
      BY <1>9, AgentFacts
  <2>3. job[i].api = "start" => /\ Goto(a, "unmask") /\ pc'[a] = "unmask" /\ mask' = {} /\ ~pend'
                                /\ Served(i)'
      BY <1>1, <2>1, <2>2, Frames DEF Goto, TypeOK
  <2>4. CASE Streaming(i, s)
    <3>1. n + s = s /\ Streaming(i, n + s)'
      <4>1. n + s = s
          BY <2>1
      <4>2. Streaming(i, n + s)
          BY <2>4, <4>1
      <4> QED BY <1>8, <4>1, <4>2
    <3>2. state[i] = "running"
        BY <2>4 DEF Streaming
    <3>3. CASE job[i].api = "start"
      <4>1. AtPlace(a)'
        <5>1. Feeds(a)'
            BY <1>2, <1>3, <1>5, <1>9, <2>3, <3>1, <3>3 DEF Feeds, Api
        <5>2. Begins(a)' /\ Opens(a)' /\ Layered(a)' /\ Ends(a)'
            BY <1>2, <1>3, <2>3, <3>3 DEF Begins, Starts, Opens, Armed, Layered, Ends, Api
        <5> QED BY <5>1, <5>2 DEF AtPlace
      <4> QED BY <1>1, <1>2, <1>5, <1>9, <2>3, <3>2, <3>3, <4>1, WorkerGoes DEF Core, Goto, Quiet
    <3>4. CASE job[i].api # "start"
      <4>1. Waits(i)'
          BY <1>2, <1>5, <3>1 DEF Waits
      <4> QED BY <1>1, <1>2, <1>5, <3>2, <3>4, <4>1, WorkerReturns DEF Core
    <3> QED BY <3>3, <3>4
  <2>5. CASE Late(a, i) /\ s = Size(i)
    <3>1. a = Th /\ job[i].api = "start" /\ pc[Dm] = "idle" /\ pc[Ai] = "idle"
        BY <1>1, <1>2, <1>3, <2>5, Alone DEF Late, Core, Api
    <3>2. state[i] = "done" /\ Running = {}
        BY <2>5, <3>1 DEF Late
    <3>3. Running' = {}
        BY <1>2, <3>2 DEF Running
    <3>4. AtPlace(a)'
      <4>1. Feeds(a)'
          BY <1>2, <1>3, <1>5, <1>6, <1>7, <1>9, <2>1, <2>3, <2>5, <3>1, <3>2, <3>3 DEF Feeds, Api, Late
      <4>2. Begins(a)' /\ Opens(a)' /\ Layered(a)' /\ Ends(a)'
          BY <1>2, <1>3, <2>3, <3>1 DEF Begins, Starts, Opens, Armed, Layered, Ends, Api
      <4> QED BY <4>1, <4>2 DEF AtPlace
    <3>5. /\ Empty' /\ NoChannel' /\ Calm'
      <4>1. Empty /\ NoChannel
          BY <3>2 DEF Core, Rest
      <4>2. Calm'
          BY <2>3, <3>1 DEF Calm
      <4> QED BY <1>1, <4>1, <4>2, Frames DEF dmac
    <3>6. pc'[Ai] = "idle" /\ pc'[Dm] = "idle" /\ pc'[Th] = "unmask" /\ arg' = arg /\ off' = off
        BY <2>3, <3>1, AgentFacts DEF Goto, TypeOK
    <3>7. Callers' /\ Nesting' /\ Waiting' /\ Entered' /\ Rest'
      <4>1. Rest'
          BY <3>5, <3>6 DEF Rest
      <4>2. Waiting' /\ Entered'
          BY <3>3, <3>6 DEF Waiting, Entered
      <4>3. Nesting'
          BY <3>6, AgentFacts DEF Nesting
      <4>4. Callers'
        <5>1. \A b \in Agents : \/ pc'[b] = pc[b] /\ arg'[b] = arg[b]
                                \/ pc[b] \notin {"cas", "call"} /\ pc'[b] \notin {"cas", "call", "callback"}
            BY <1>1, <3>1, <3>6, AgentFacts
        <5>2. \A k \in Ids : state[k] = "new" => next'[k] = 0
            BY <1>5, <3>2 DEF Core, Callers
        <5> QED BY <1>2, <3>6, <5>1, <5>2, CallersFrame, AgentFacts DEF Core
      <4> QED BY <4>1, <4>2, <4>3, <4>4
    <3>8. \A b \in Agents : AtPlace(b)'
        BY <3>1, <3>4, <3>6, AgentFacts, QuietPlaceNext DEF Quiet
    <3> QED BY <3>7, <3>8 DEF Core
  <2> QED BY <2>1, <2>4, <2>5
<1>10. CASE a = Ai
  <2>1. /\ Served(i)
        /\ \/ Streaming(i, n + s)
           \/ state[i] = "done" /\ Running = {} /\ job[i].api = "start" /\ n = Size(i)
      BY <1>0, <1>1, <1>10 DEF Core, AtPlace, Feeds, Api
  <2>2. Return(a)
      BY <1>1, <1>10, AgentFacts
  <2>3. CASE Streaming(i, n + s)
    <3>1. Waits(i)'
        BY <1>2, <1>5, <1>8, <2>3 DEF Waits
    <3> QED BY <1>1, <1>2, <1>5, <2>2, <2>3, <3>1, WorkerReturns DEF Core, Streaming
  <2>4. CASE state[i] = "done" /\ Running = {} /\ job[i].api = "start" /\ n = Size(i)
    <3>1. pc'[Ai] = "leave" /\ pc'[Th] = pc[Th] /\ pc'[Dm] = pc[Dm]
        BY <1>10, <2>2, AgentFacts DEF Return, TypeOK
    <3>2. next' = next
      <4>1. n + s = n
          BY <1>6, <2>4
      <4>2. next' = [next EXCEPT ![i] = n + s]
          BY <1>0, <1>1, <1>4, <1>5, BurstIs
      <4> QED BY <1>0, <4>1, <4>2 DEF TypeOK
    <3>3. AtPlace(a)'
        BY <1>10, <3>1, QuietPlaceNext DEF Quiet
    <3>4. Rest'
      <4>1. Empty /\ NoChannel /\ AfterLast
          BY <1>1, <1>10, <2>4 DEF Core, Rest
      <4>2. Empty' /\ NoChannel'
          BY <1>1, <4>1, Frames DEF dmac
      <4>3. AfterLast'
          BY <1>1, <1>2, <3>1, <3>2, <4>1 DEF AfterLast, Size
      <4> QED BY <4>2, <4>3 DEF Rest
    <3>5. a[2] # "thread"
        BY <1>10, AgentFacts
    <3> QED BY <1>1, <1>2, <2>2, <2>4, <3>2, <3>3, <3>4, <3>5, LateGoes
  <2> QED BY <2>1, <2>3, <2>4
<1> QED BY <1>9, <1>10

LEMMA AiStepStep ==
    ASSUME OneHart, TypeOK, Core, NEW a \in Agents, AiStep(a)
    PROVE  Core'
<1> SUFFICES ASSUME NEW i \in Ids, arg[a] = i PROVE Core'
    BY TaskType
<1>0. PICK n \in Nat : n = next[i]
    BY JobFacts
<1>1. /\ pc[a] = "step" /\ MayRun(a) /\ next' = [next EXCEPT ![i] = n + 1]
      /\ IF Kind(i, n + 1) = "cpu"
           THEN mem' = Append(mem, <<i, n + 1>>) /\ Goto(a, IF n + 1 = Size(i) THEN "done" ELSE "step")
           ELSE Goto(a, "conv") /\ UNCHANGED mem
      /\ UNCHANGED <<dmac, flags, mask, pend, fifo, engine, outp, busy, cur, handler, aion, aiprio,
                     dcb, job, state, ghosts>>
    BY <1>0 DEF AiStep, At
<1>2. /\ job[i].api = "kmodel" /\ state[i] = "running" /\ Empty /\ Served(i) /\ ~pend /\ NoChannel
      /\ a = Ai \/ Calm
      /\ n < Size(i) /\ Flow(i, n)
    BY <1>0, <1>1 DEF Core, AtPlace, Layered, Api
<1>3. /\ next'[i] = n + 1 /\ (\A k \in Ids : k # i => next'[k] = next[k])
      /\ job' = job /\ state' = state /\ arg'[a] = i /\ Size(i)' = Size(i)
      /\ \A k : Kind(i, k)' = Kind(i, k)
    BY <1>1 DEF TypeOK, Goto, Size, Kind
<1>4. Empty' /\ Served(i)' /\ ~pend' /\ NoChannel' /\ (a = Ai \/ Calm')
    BY <1>1, <1>2, Frames DEF dmac
<1>5. /\ job[i].api = "kmodel" /\ Works(a) /\ UNCHANGED <<job, state, busy, calls>>
    BY <1>1, <1>2 DEF Works, Quiet, ghosts
<1>6. Size(i) \in Nat /\ n + 1 \in Nat /\ (n + 1) - 1 = n
    BY JobFacts
<1>7. CASE Kind(i, n + 1) = "cpu"
  <2>1. PICK p : Goto(a, p) /\ p = IF n + 1 = Size(i) THEN "done" ELSE "step"
      BY <1>1, <1>7
  <2>2. pc'[a] = p
      BY <2>1 DEF Goto, TypeOK
  <2>3. Flow(i, n + 1)'
    <3>1. mem \in Seq(Layers) /\ InOrder(i, n, mem, None, None, <<>>)
        BY <1>2 DEF TypeOK, Flow, Empty
    <3>2. InOrder(i, n + 1, Append(mem, <<i, n + 1>>), None, None, <<>>)
        BY <3>1, InOrderCpu
    <3> QED BY <1>1, <1>2, <1>7, <3>2 DEF Flow, Empty
  <2>4. p = "step" => n + 1 < Size(i)
      BY <1>2, <1>6, <2>1
  <2>5. AtPlace(a)'
    <3>1. Layered(a)'
        BY <1>2, <1>3, <1>4, <1>6, <2>1, <2>2, <2>3, <2>4 DEF Layered, Api
    <3>2. Begins(a)' /\ Opens(a)' /\ Feeds(a)' /\ Ends(a)'
        BY <1>2, <1>3, <2>1, <2>2 DEF Begins, Starts, Opens, Armed, Feeds, Ends, Api
    <3> QED BY <3>1, <3>2 DEF AtPlace
  <2> QED BY <1>1, <1>2, <1>3, <1>5, <2>1, <2>5, WorkerGoes DEF Core, Goto, Quiet
<1>8. CASE Kind(i, n + 1) # "cpu"
  <2>1. Goto(a, "conv") /\ pc'[a] = "conv"
      BY <1>1, <1>8 DEF Goto, TypeOK
  <2>2. Flow(i, n)'
      BY <1>1, <1>2, <1>8, Frames
  <2>3. AtPlace(a)'
    <3>1. Layered(a)'
        BY <1>2, <1>3, <1>4, <1>6, <1>8, <2>1, <2>2 DEF Layered, Api
    <3>2. Begins(a)' /\ Opens(a)' /\ Feeds(a)' /\ Ends(a)'
        BY <1>2, <1>3, <2>1 DEF Begins, Starts, Opens, Armed, Feeds, Ends, Api
    <3> QED BY <3>1, <3>2 DEF AtPlace
  <2> QED BY <1>1, <1>2, <1>3, <1>5, <2>1, <2>3, WorkerGoes DEF Core, Goto, Quiet
<1> QED BY <1>7, <1>8

LEMMA ConvStep ==
    ASSUME OneHart, TypeOK, Core, NEW a \in Agents, Conv(a)
    PROVE  Core'
<1> SUFFICES ASSUME NEW i \in Ids, arg[a] = i PROVE Core'
    BY TaskType
<1>0. PICK n \in Nat : n = next[i]
    BY JobFacts
<1>1. /\ pc[a] = "conv" /\ MayRun(a) /\ flags' = {}
      /\ mask' = IF Kind(i, n) = "out" THEN {} ELSE {"calc"}
      /\ Goto(a, IF Kind(i, n) = "out" THEN "outreg" ELSE "send")
      /\ UNCHANGED <<dmac, pend, fifo, engine, outp, mem, software, job, state, ghosts>>
    BY <1>0 DEF Conv, At
<1>2. /\ job[i].api = "kmodel" /\ state[i] = "running" /\ Empty /\ Served(i) /\ ~pend /\ NoChannel
      /\ n # 0 /\ Flow(i, n - 1) /\ Kind(i, n) # "cpu"
    BY <1>0, <1>1 DEF Core, AtPlace, Layered, Api
<1>3. /\ next'[i] = n /\ next' = next /\ Kind(i, n)' = Kind(i, n)
      /\ job' = job /\ state' = state /\ arg'[a] = i
    BY <1>0, <1>1 DEF TypeOK, Goto, Kind, software
<1>4. Empty' /\ Served(i)' /\ ~pend' /\ NoChannel' /\ Flow(i, n - 1)'
  <2>1. n - 1 \in Nat
      BY <1>2
  <2> QED BY <1>1, <1>2, <2>1, Frames DEF dmac, software
<1>5. Calm'
    BY <1>1, <1>2 DEF Calm
<1>6. PICK p : Goto(a, p) /\ p = IF Kind(i, n) = "out" THEN "outreg" ELSE "send"
    BY <1>1
<1>7. pc'[a] = p
    BY <1>6 DEF Goto, TypeOK
<1>8. AtPlace(a)'
  <2>1. Layered(a)'
      BY <1>1, <1>2, <1>3, <1>4, <1>5, <1>6, <1>7 DEF Layered, Api
  <2>2. Begins(a)' /\ Opens(a)' /\ Feeds(a)' /\ Ends(a)'
      BY <1>2, <1>3, <1>6, <1>7 DEF Begins, Starts, Opens, Armed, Feeds, Ends, Api
  <2> QED BY <2>1, <2>2 DEF AtPlace
<1> QED BY <1>1, <1>2, <1>3, <1>6, <1>8, WorkerGoes DEF Core, Goto, Works, Quiet, software, ghosts

LEMMA SendStep ==
    ASSUME OneHart, TypeOK, Core, NEW a \in Agents, Send(a)
    PROVE  Core'
<1> SUFFICES ASSUME NEW i \in Ids, arg[a] = i PROVE Core'
    BY TaskType
<1>0. PICK n \in Nat : n = next[i]
    BY JobFacts
<1>1. /\ pc[a] = "send" /\ MayRun(a) /\ fifo' = Append(fifo, <<i, n>>) /\ Return(a)
      /\ UNCHANGED <<dmac, flags, mask, pend, engine, outp, mem, software, job, state, ghosts>>
    BY <1>0 DEF Send, At
<1>2. /\ job[i].api = "kmodel" /\ state[i] = "running" /\ Empty /\ Served(i) /\ ~pend
      /\ n # 0 /\ Flow(i, n - 1) /\ Kind(i, n) # "cpu"
      /\ IF Kind(i, n) = "out" THEN Output(i) /\ chan["ch"].run /\ mask = {}
                               ELSE NoChannel /\ mask = {"calc"} /\ flags = {}
    BY <1>0, <1>1 DEF Core, AtPlace, Layered, Api
<1>3. next'[i] = n /\ next' = next /\ Kind(i, n)' = Kind(i, n) /\ job' = job
    BY <1>0, <1>1 DEF Kind, software
<1>4. /\ fifo' = Append(<<>>, <<i, n>>) /\ outp' = None
      /\ mem \in Seq(Layers) /\ InOrder(i, n - 1, mem, None, None, <<>>)
    BY <1>1, <1>2 DEF TypeOK, Flow, Empty
<1>5. n - 1 \in Nat /\ (n - 1) + 1 = n
    BY <1>2
<1>6. Flow(i, n)'
  <2>1. InOrder(i, (n - 1) + 1, mem, None, None, Append(<<>>, <<i, (n - 1) + 1>>))
      BY ONLY <1>4, <1>5, InOrderSend
  <2>2. InOrder(i, n, mem, None, None, fifo')
      BY <1>4, <1>5, <2>1
  <2> QED BY <1>1, <1>2, <2>2 DEF Flow, Empty
<1>7. n <= Len(mem') /\ ~Empty'
  <2>1. Len(mem) = n
    <3>1. <<>> \in Seq(Layers)
        OBVIOUS
    <3>2. \A l \in Nat : InOrder(i, l, mem, None, None, <<>>) => Len(mem) = l + 1
        BY <1>4, <3>1, InOrderBounds
    <3>3. Len(mem) = (n - 1) + 1
        BY <1>4, <1>5, <3>2
    <3> QED BY <1>5, <3>3
  <2>2. Append(<<>>, <<i, n>>) # <<>>
      OBVIOUS
  <2> QED BY <1>1, <1>4, <2>1, <2>2 DEF Empty
<1>8. Served(i)' /\ mask' = mask /\ flags' = flags /\ ~pend'
    BY <1>1, <1>2, Frames DEF software
<1>9. IF Kind(i, n) = "out" THEN Output(i)' /\ ~chan'["ch"].int ELSE NoChannel'
    BY <1>1, <1>2, Frames DEF dmac, software, Output, InUse
<1>10. InLayer(i)'
    BY <1>2, <1>3, <1>4, <1>6, <1>7, <1>8, <1>9 DEF InLayer
<1>11. Waits(i)'
    BY <1>10 DEF Waits
<1> QED BY <1>1, <1>2, <1>3, <1>11, WorkerReturns DEF Core, software, ghosts, Works, Quiet

-----------------------------------------------------------------------------
(***************************************************************************)
(* The invariant: the end of a job.                                        *)
(***************************************************************************)
\* what the code of a job says of it
LEMMA WorkRunning ==
    ASSUME TypeOK, NEW b \in Agents, AtPlace(b), Works(b)
    PROVE  \/ state[arg[b]] = "running"
           \/ b = Th /\ pc[b] \in {"count", "unmask"} /\ Late(b, arg[b])
           \/ b = Ai /\ pc[b] \in {"feed", "push", "count"} /\ state[arg[b]] = "done" /\ Running = {}
<1> SUFFICES ASSUME NEW i \in Ids, arg[b] = i
             PROVE  \/ state[i] = "running"
                    \/ b = Th /\ pc[b] \in {"count", "unmask"} /\ Late(b, i)
                    \/ b = Ai /\ pc[b] \in {"feed", "push", "count"} /\ state[i] = "done" /\ Running = {}
    BY TaskType
<1>0. pc[b] \in Places \ Quiet /\ job[i].api \in Apis
    BY JobFacts DEF TypeOK, Places, Works
<1>1. CASE Starts(b)
    BY <1>1 DEF AtPlace, Begins
<1>2. CASE Armed(b) \/ pc[b] = "ready" \/ (pc[b] \in {"outreg", "outdma"} /\ job[i].api # "kmodel")
    BY <1>2 DEF AtPlace, Opens, Api
<1>3. CASE pc[b] \in {"step", "conv", "outreg", "outdma", "send", "done", "call"} /\ job[i].api = "kmodel"
    BY <1>3 DEF AtPlace, Layered, Api
<1>4. CASE pc[b] \in {"done", "call"} /\ job[i].api # "kmodel"
    BY <1>4 DEF AtPlace, Ends, Api
<1>5. CASE pc[b] = "count" /\ b # Ai
    BY <1>5 DEF AtPlace, Feeds, Streaming, Late
<1>6. CASE pc[b] = "unmask" /\ job[i].api = "start"
    BY <1>6 DEF AtPlace, Feeds, Streaming, Late, Api
<1>7. CASE pc[b] \in {"feed", "push", "count"} /\ b = Ai
    BY <1>7 DEF AtPlace, Feeds, Streaming
<1>8. /\ pc[b] \in {"unmask", "step", "conv", "send"} =>
           \/ pc[b] = "unmask" /\ job[i].api \in {"run", "start"}
           \/ pc[b] # "unmask" /\ job[i].api = "kmodel"
      /\ pc[b] = "mask" => job[i].api = "start"
    BY <1>0 DEF AtPlace, Opens, Layered, Api, Apis
<1> QED
  <2>1. CASE pc[b] \in {"task", "kmask", "load", "inreg", "indma", "aireg"}
      BY <1>1, <1>2, <2>1 DEF Starts, Armed, Api
  <2>2. CASE pc[b] \in {"ready", "mask", "unmask", "feed", "push", "count"}
      BY <1>2, <1>5, <1>6, <1>7, <1>8, <2>2 DEF Armed, Api
  <2>3. CASE pc[b] \in {"step", "conv", "outreg", "outdma", "send", "done", "call"}
      BY <1>2, <1>3, <1>4, <1>8, <2>3
  <2> QED BY <1>0, <2>1, <2>2, <2>3 DEF Places, Quiet

LEMMA DoneStep ==
    ASSUME OneHart, TypeOK, Core, NEW a \in Agents, Done(a)
    PROVE  Core'
<1> SUFFICES ASSUME NEW i \in Ids, arg[a] = i PROVE Core'
    BY TaskType
<1>1. /\ pc[a] = "done" /\ MayRun(a) /\ busy' = [busy EXCEPT ![job[i].api] = FALSE]
      /\ flags' = IF job[i].api = "kmodel" THEN {} ELSE flags
      /\ mask' = IF job[i].api = "kmodel" THEN {} ELSE mask
      /\ Goto(a, "call")
      /\ UNCHANGED <<dmac, pend, fifo, engine, outp, mem, cur, next, handler, aion, aiprio,
                     dcb, job, state, ghosts>>
    BY DEF Done, At, Api
<1>2. pc' = [pc EXCEPT ![a] = "call"] /\ arg' = arg /\ off' = off /\ calls' = calls
    BY <1>1 DEF Goto, ghosts
<1>3. pc'[a] = "call" /\ \A b \in Agents : b # a => pc'[b] = pc[b]
    BY <1>2 DEF TypeOK
<1>4. /\ state[i] = "running" /\ Empty /\ NoChannel /\ Flow(i, Size(i))
      /\ job[i].api # "kmodel" => Calm /\ a = Dm /\ (job[i].api = "run" => cur = i)
      /\ job[i].api = "kmodel" => Served(i) /\ ~pend /\ next[i] = Size(i)
    BY <1>1 DEF Core, AtPlace, Ends, Layered, Api
<1>5. Empty' /\ NoChannel' /\ Calm' /\ (Served(i) => Served(i)') /\ (~pend => ~pend')
  <2>1. Calm'
      BY <1>1, <1>4 DEF Calm
  <2> QED BY <1>1, <1>4, <2>1, Frames DEF dmac
<1>6. Size(i)' = Size(i) /\ Flow(i, Size(i))'
  <2>1. Size(i)' = Size(i)
      BY <1>1 DEF Size
  <2> QED BY <1>1, <1>4, <2>1 DEF Flow
<1>7. AtPlace(a)'
  <2>1. CASE job[i].api = "kmodel"
    <3>1. next'[i] = Size(i)' /\ Flow(i, next[i])'
        BY <1>1, <1>4, <1>6, <2>1 DEF Flow
    <3>2. Layered(a)'
        BY <1>1, <1>2, <1>3, <1>4, <1>5, <2>1, <3>1 DEF Layered, Api
    <3>3. Begins(a)' /\ Opens(a)' /\ Feeds(a)' /\ Ends(a)'
        BY <1>1, <1>2, <1>3, <2>1 DEF Begins, Starts, Opens, Armed, Feeds, Ends, Api
    <3> QED BY <3>2, <3>3 DEF AtPlace
  <2>2. CASE job[i].api # "kmodel"
    <3>1. Ends(a)'
        BY <1>1, <1>2, <1>3, <1>4, <1>5, <1>6, <2>2 DEF Ends, Api
    <3>2. Begins(a)' /\ Opens(a)' /\ Feeds(a)' /\ Layered(a)'
        BY <1>1, <1>2, <1>3, <2>2 DEF Begins, Starts, Opens, Armed, Feeds, Layered, Api
    <3> QED BY <3>1, <3>2 DEF AtPlace
  <2> QED BY <2>1, <2>2
<1>8. Running = {i} /\ Running' = {i}
  <2>1. Running = {i}
      BY <1>4, TheRunning DEF Core
  <2> QED BY <1>1, <2>1 DEF Running
<1>9. /\ a = Th => pc[Dm] = "idle" /\ pc[Ai] = "idle"
      /\ a = Dm => pc[Ai] = "idle" /\ pc[Th] \in {"idle", "cas", "count", "unmask"}
      /\ a = Ai => pc[Dm] \in {"idle", "leave"} /\ pc[Th] \in {"idle", "cas"}
    BY <1>1, Alone, AgentFacts DEF Core, Nesting, MayRun, Busy, Ai, Dm, Th
<1>10. Callers'
  <2>1. /\ \A b \in Agents : pc'[b] = "cas" <=> pc[b] = "cas"
        /\ \A b \in Agents : pc'[b] = "callback" <=> pc[b] = "callback"
        /\ \A b \in Agents : pc[b] = "call" => pc'[b] = "call"
      BY <1>1, <1>3
  <2>2. \A p \in Apis : busy'[p] <=>
          p # "kmodel" /\ \E k \in Running' : job'[k].api = p /\ ~Calling(k)'
    <3>1. Calling(i)'
        BY <1>2, <1>3 DEF Calling
    <3>2. \A p \in Apis : ~busy'[p]
      <4>1. busy \in [Apis -> BOOLEAN] /\ job[i].api \in Apis
          BY JobFacts DEF TypeOK
      <4>2. \A p \in Apis : busy[p] => job[i].api = p
          BY <1>8 DEF Core, Callers
      <4> QED BY <1>1, <4>1, <4>2
    <3> QED BY <1>8, <3>1, <3>2
  <2>3. Running' = Running
      BY <1>8
  <2> QED BY <1>1, <1>2, <1>8, <2>1, <2>2, <2>3, AgentFacts DEF Core, Callers, Api
<1>11. Nesting'
  <2>1. Hart1 \in off' => /\ pc'[Ai] \notin {"feed", "push", "count"}
                          /\ \E b \in Agents : pc'[b] \notin {"idle", "entry", "leave"}
      BY <1>1, <1>2, <1>3, AgentFacts DEF Core, Nesting
  <2> QED BY <1>1, <1>3, <1>9, <2>1, AgentFacts DEF Core, Nesting
<1>12. \A b \in Agents : AtPlace(b)'
  <2> SUFFICES ASSUME NEW b \in Agents, b # a PROVE AtPlace(b)'
      BY <1>7
  <2>1. CASE pc[b] \in Quiet
      BY <1>3, <2>1, QuietPlaceNext
  <2>2. CASE pc[b] \notin Quiet
    <3>1. a = Dm /\ b = Th /\ pc[Th] \in {"count", "unmask"}
        BY <1>9, <2>2, AgentFacts DEF Quiet
    <3> SUFFICES ASSUME NEW j \in Ids, arg[Th] = j PROVE AtPlace(Th)'
        BY <3>1, TaskType
    <3>2. job[j].api # "kmodel" /\ job[j].api # "run" /\ job[j].api \in Apis
        BY <3>1, JobFacts DEF Core, AtPlace, Opens, Api
    <3>3. job[j].api = "start"
        BY <3>2 DEF Apis
    <3>4. \A n \in Nat : ~Streaming(j, n)
        BY <1>4, <1>8 DEF Streaming, Output, InUse, NoChannel, Running
    <3>5. next[j] \in Nat /\ BurstFor(j) \in Nat
        BY BurstForFacts, JobFacts
    <3>6. /\ Late(Th, j) /\ mask = {} /\ ~pend /\ Served(j)
          /\ pc[Th] = "count" => next[j] = 0 /\ BurstFor(j) = Size(j)
          /\ pc[Th] = "unmask" => next[j] = Size(j)
        BY <3>1, <3>3, <3>4, <3>5, AgentFacts DEF Core, AtPlace, Feeds, Api
    <3>7. Late(Th, j)' /\ mask' = {} /\ ~pend' /\ Served(j)'
        BY <1>1, <1>2, <1>3, <1>8, <3>1, <3>6, Frames DEF Late, Api
    <3>8. BurstFor(j)' = BurstFor(j) /\ Size(j)' = Size(j) /\ next' = next
        BY <1>1 DEF BurstFor, Remain, Size
    <3>9. pc'[Th] = pc[Th] /\ arg'[Th] = j /\ job' = job
        BY <1>1, <1>2, <1>3, <3>1
    <3>10. Feeds(Th)'
        BY <3>1, <3>3, <3>6, <3>7, <3>8, <3>9, AgentFacts DEF Feeds, Api
    <3>11. Begins(Th)' /\ Opens(Th)' /\ Layered(Th)' /\ Ends(Th)'
        BY <3>1, <3>3, <3>9 DEF Begins, Starts, Opens, Armed, Layered, Ends, Api
    <3> QED BY <3>10, <3>11 DEF AtPlace
  <2> QED BY <2>1, <2>2
<1>13. Waiting' /\ Rest'
    BY <1>2, <1>3, <1>8 DEF Waiting, Rest, Works, Quiet
<1>14. Entered'
    BY <1>3, <1>9, AgentFacts DEF Entered
<1> QED BY <1>10, <1>11, <1>12, <1>13, <1>14 DEF Core

LEMMA WaitsFrame ==
    ASSUME TypeOK, NEW i \in Ids, UNCHANGED <<dmac, hardware, software>>,
           job'[i] = job[i], state'[i] = state[i]
    PROVE  Waits(i)' <=> Waits(i)
<1> PICK n \in Nat : n = next[i]
    BY JobFacts
<1>1. /\ next'[i] = n /\ Size(i)' = Size(i) /\ \A k : Kind(i, k)' = Kind(i, k)
      /\ flags' = flags /\ mask' = mask /\ pend' = pend
      /\ mem' = mem /\ outp' = outp /\ chan' = chan /\ mask' = mask
    BY DEF Size, Kind, software, hardware, dmac
<1>2. /\ (Empty' <=> Empty) /\ (Calm' <=> Calm) /\ (NoChannel' <=> NoChannel)
      /\ (Served(i)' <=> Served(i))
      /\ (Flow(i, 0)' <=> Flow(i, 0)) /\ (Flow(i, n)' <=> Flow(i, n))
    BY Frames DEF software, hardware, dmac
<1>3. Prepared(i)' <=> Prepared(i)
    BY <1>2 DEF Prepared, software
<1>4. InputSet(i)' <=> InputSet(i)
    BY DEF InputSet, software, dmac
<1>5. OutputSet(i)' <=> OutputSet(i)
    BY <1>1 DEF OutputSet, software, dmac
<1>6. Input(i)' <=> Input(i)
    BY <1>4 DEF Input, InUse, Src, Dest, dmac
<1>7. Output(i)' <=> Output(i)
    BY <1>5 DEF Output, InUse, Src, Dest, dmac
<1>8. Loading(i)' <=> Loading(i)
    BY <1>1, <1>2, <1>3, <1>6 DEF Loading
<1>9. Streaming(i, n)' <=> Streaming(i, n)
    BY <1>1, <1>2, <1>3, <1>7 DEF Streaming
<1>10. InLayer(i)' <=> InLayer(i)
    BY <1>1, <1>2, <1>7 DEF InLayer
<1> QED BY <1>1, <1>8, <1>9, <1>10 DEF Waits

\* a job's layers are done and all has left the accelerator
LEMMA FlowResult ==
    ASSUME TypeOK, NEW i \in Ids, Flow(i, Size(i)), Empty
    PROVE  mem = [k \in 1 .. Size(i) + 1 |-> <<i, k - 1>>]
<1>1. mem \in Seq(Layers) /\ Size(i) \in Nat
    BY JobFacts DEF TypeOK
<1>2. InOrder(i, Size(i), mem, None, None, <<>>)
    BY DEF Flow, Empty
<1> QED BY <1>1, <1>2, InOrderResult

LEMMA CallbackFacts ==
    ASSUME OneHart, TypeOK, Core, NEW a \in Agents, Callback(a), NEW i \in Ids, arg[a] = i
    PROVE  /\ pc[a] = "call" /\ MayRun(a) /\ Task(a) = i /\ state[i] = "running"
           /\ Empty /\ NoChannel /\ Calm /\ Flow(i, Size(i))
           /\ Running = {i} /\ calls[i] = 0
           /\ \A k \in Ids : state'[k] = IF k = i THEN "done" ELSE state[k]
           /\ \A k \in Ids : k # i => calls'[k] = calls[k] /\ result'[k] = result[k]
           /\ calls'[i] = 1 /\ result'[i] = mem
<1>1. /\ pc[a] = "call" /\ MayRun(a)
      /\ calls' = [calls EXCEPT ![Task(a)] = Smaller(@ + 1, 2)]
      /\ result' = [result EXCEPT ![Task(a)] =
                      IF \E b \in bufs : b.id = Task(a) /\ b.side = "dest" THEN <<>> ELSE mem]
      /\ state' = [state EXCEPT ![Task(a)] = "done"]
    BY DEF Callback, At
<1>2. /\ state[i] = "running" /\ Empty /\ NoChannel /\ Flow(i, Size(i)) /\ Calm
      /\ job[i].api = "run" => cur = i
    BY <1>1, AgentFacts DEF Core, AtPlace, Ends, Layered, Api
<1>3. Task(a) = i
    BY <1>2 DEF Task, Api
<1>4. Running = {i}
    BY <1>2, TheRunning DEF Core
<1>5. calls[i] = 0
    BY <1>2 DEF Core, Callers
<1>6. bufs = {}
    BY <1>2 DEF NoChannel
<1>7. Smaller(0 + 1, 2) = 1
    BY DEF Smaller
<1>8. calls \in [Ids -> 0 .. 2] /\ DOMAIN result = Ids /\ DOMAIN state = Ids
    BY DEF TypeOK
<1>9. result' = [result EXCEPT ![i] = mem] /\ calls' = [calls EXCEPT ![i] = 1]
    BY <1>1, <1>3, <1>5, <1>6, <1>7, <1>8
<1> QED BY <1>1, <1>2, <1>3, <1>4, <1>5, <1>8, <1>9

LEMMA CallbackResult ==
    ASSUME OneHart, TypeOK, Core, ResultRight, NEW a \in Agents, Callback(a)
    PROVE  ResultRight'
<1> SUFFICES ASSUME NEW i \in Ids, arg[a] = i PROVE ResultRight'
    BY TaskType
<1>1. mem = [k \in 1 .. Size(i) + 1 |-> <<i, k - 1>>]
    BY CallbackFacts, FlowResult
<1>2. \A k \in Ids : Size(k)' = Size(k)
    BY DEF Callback, Size
<1> SUFFICES ASSUME NEW k \in Ids, state'[k] = "done"
             PROVE  calls'[k] = 1 /\ result'[k] = [l \in 1 .. Size(k) + 1 |-> <<k, l - 1>>]
    BY <1>2 DEF ResultRight
<1>3. CASE k = i
    BY <1>1, <1>3, CallbackFacts
<1>4. CASE k # i
    BY <1>4, CallbackFacts DEF ResultRight
<1> QED BY <1>3, <1>4

LEMMA CallbackStep ==
    ASSUME OneHart, TypeOK, Core, NEW a \in Agents, Callback(a)
    PROVE  Core'
<1> SUFFICES ASSUME NEW i \in Ids, arg[a] = i PROVE Core'
    BY TaskType
<1>1. /\ IF a[2] = "thread" THEN Return(a) ELSE Goto(a, "callback")
      /\ UNCHANGED <<dmac, hardware, software, job>>
    BY DEF Callback
<1>2. /\ pc[a] = "call" /\ MayRun(a) /\ state[i] = "running"
      /\ Empty /\ NoChannel /\ Calm /\ Running = {i}
      /\ \A k \in Ids : state'[k] = IF k = i THEN "done" ELSE state[k]
      /\ \A k \in Ids : k # i => calls'[k] = calls[k]
    BY CallbackFacts
<1>3. /\ arg' = arg
      /\ pc'[a] = IF a = Th THEN "idle" ELSE "callback"
      /\ \A b \in Agents : b # a => pc'[b] = pc[b]
      /\ off' = IF a = Th THEN off \ {Hart1} ELSE off
  <2>1. a[2] = "thread" <=> a = Th
      BY AgentFacts
  <2> QED BY <1>1, <2>1, AgentFacts DEF Return, Goto, TypeOK
<1>4. /\ a = Th => pc[Dm] = "idle" /\ pc[Ai] = "idle"
      /\ a = Dm => pc[Ai] = "idle" /\ pc[Th] \in {"idle", "cas", "count", "unmask"}
      /\ a = Ai => pc[Dm] \in {"idle", "leave"} /\ pc[Th] \in {"idle", "cas"}
    BY <1>2, Alone, AgentFacts DEF Core, Nesting, MayRun, Busy, Ai, Dm, Th
<1>5. Running' = {}
    BY <1>2 DEF Running
<1>6. Empty' /\ NoChannel' /\ Calm'
    BY <1>1, <1>2, Frames DEF dmac, hardware
<1>7. Callers'
  <2>1. \A b \in Agents : pc'[b] = "cas" <=> pc[b] = "cas"
      BY <1>2, <1>3
  <2>2. \A p \in Apis : ~busy'[p]
    <3>1. Calling(i)
        BY <1>2 DEF Calling
    <3> QED BY <1>1, <1>2, <3>1 DEF Core, Callers, software
  <2>3. \A k \in Ids : /\ state'[k] # "running"
                       /\ state'[k] \in {"asked", "running"} => state[k] \in {"asked", "running"}
                       /\ state'[k] = "asked" <=> state[k] = "asked"
                       /\ state'[k] # "done" => state[k] # "done" /\ calls'[k] = calls[k]
                       /\ state'[k] = "new" => state[k] = "new"
      BY <1>2, <1>5 DEF Running
  <2>4. pc[Ai] = "cas" => arg[Ai] \in Ids
      BY AgentFacts DEF TypeOK
  <2> QED BY <1>1, <1>3, <1>5, <2>1, <2>2, <2>3, TaskType, AgentFacts DEF Core, Callers, software, Api
<1>8. Nesting'
  <2>1. Hart1 \in off' => /\ pc'[Ai] \notin {"feed", "push", "count"}
                          /\ \E b \in Agents : pc'[b] \notin {"idle", "entry", "leave"}
      BY <1>3, AgentFacts DEF Core, Nesting
  <2> QED BY <1>3, <1>4, <2>1, AgentFacts DEF Core, Nesting
<1>9. \A b \in Agents : AtPlace(b)'
  <2> SUFFICES ASSUME NEW b \in Agents PROVE AtPlace(b)'
      OBVIOUS
  <2>1. CASE b = a \/ pc[b] \in Quiet
      BY <1>3, <2>1, QuietPlaceNext DEF Quiet
  <2>2. CASE b # a /\ pc[b] \notin Quiet
    <3>1. a = Dm /\ b = Th /\ pc[Th] \in {"count", "unmask"}
        BY <1>4, <2>2, AgentFacts DEF Quiet
    <3> SUFFICES ASSUME NEW j \in Ids, arg[Th] = j PROVE AtPlace(Th)'
        BY <3>1, TaskType
    <3>2. job[j].api # "kmodel" /\ job[j].api # "run" /\ job[j].api \in Apis
        BY <3>1, JobFacts DEF Core, AtPlace, Opens, Api
    <3>3. job[j].api = "start"
        BY <3>2 DEF Apis
    <3>4. \A n \in Nat : ~Streaming(j, n)
        BY <1>2 DEF Streaming, Output, InUse, NoChannel, Running
    <3>5. next[j] \in Nat /\ BurstFor(j) \in Nat
        BY BurstForFacts, JobFacts
    <3>6. /\ Late(Th, j) /\ mask = {} /\ ~pend /\ Served(j)
          /\ pc[Th] = "count" => next[j] = 0 /\ BurstFor(j) = Size(j)
          /\ pc[Th] = "unmask" => next[j] = Size(j)
        BY <3>1, <3>3, <3>4, <3>5, AgentFacts DEF Core, AtPlace, Feeds, Api
    <3>7. j = i
        BY <1>2, <3>1, <3>6 DEF Late
    <3>8. Late(Th, j)' /\ mask' = {} /\ ~pend' /\ Served(j)'
      <4>1. Late(Th, j)'
          BY <1>1, <1>2, <1>3, <1>5, <3>1, <3>3, <3>7 DEF Late, Api
      <4> QED BY <1>1, <3>6, <4>1, Frames DEF hardware, software
    <3>9. BurstFor(j)' = BurstFor(j) /\ Size(j)' = Size(j) /\ next' = next
        BY <1>1 DEF BurstFor, Remain, Size, software
    <3>10. pc'[Th] = pc[Th] /\ arg'[Th] = j /\ job' = job
        BY <1>1, <1>3, <3>1, AgentFacts
    <3>11. Feeds(Th)'
        BY <3>1, <3>3, <3>6, <3>8, <3>9, <3>10, AgentFacts DEF Feeds, Api
    <3>12. Begins(Th)' /\ Opens(Th)' /\ Layered(Th)' /\ Ends(Th)'
        BY <3>1, <3>3, <3>10 DEF Begins, Starts, Opens, Armed, Layered, Ends, Api
    <3> QED BY <3>1, <3>11, <3>12 DEF AtPlace
  <2> QED BY <2>1, <2>2
<1>10. Waiting'
    BY <1>5 DEF Waiting
<1>11. Entered' /\ Rest'
    BY <1>3, <1>4, <1>5, <1>6, AgentFacts DEF Entered, Rest
<1> QED BY <1>7, <1>8, <1>9, <1>10, <1>11 DEF Core

LEMMA LeaveStep ==
    ASSUME OneHart, TypeOK, Core, NEW a \in Agents, Leave(a)
    PROVE  Core'
<1>1. /\ a # Th /\ MayRun(a) /\ pc[a] \in {"leave", "callback"}
      /\ pc' = [pc EXCEPT ![a] = "idle"] /\ off' = off \ {Hart1}
      /\ UNCHANGED <<arg, dmac, hardware, software, job, state, ghosts>>
    BY AgentFacts DEF Leave, At
<1>2. pc'[a] = "idle" /\ \A b \in Agents : b # a => pc'[b] = pc[b]
    BY <1>1 DEF TypeOK
<1>3. /\ a = Dm => pc[Ai] = "idle"
      /\ a = Ai => pc[Dm] \in {"idle", "leave"} /\ pc[Th] \in {"idle", "cas"}
    BY <1>1, AgentFacts DEF Core, Nesting, MayRun, Busy, Ai, Dm, Th
<1>4. Callers' /\ Running' = Running
  <2>1. \A b \in Agents : \/ pc'[b] = pc[b] /\ arg'[b] = arg[b]
                          \/ pc[b] \notin {"cas", "call"} /\ pc'[b] \notin {"cas", "call", "callback"}
      BY <1>1, <1>2
  <2>2. \A k \in Ids : state[k] = "new" => next'[k] = 0
      BY <1>1 DEF Core, Callers, software
  <2> QED BY <1>1, <2>1, <2>2, CallersFrame, AgentFacts DEF Core, software, ghosts
<1>5. Nesting'
  <2>1. Hart1 \notin off'
      BY <1>1
  <2> QED BY <1>1, <1>2, <1>3, <2>1, AgentFacts DEF Core, Nesting
<1>6. \A b \in Agents : Works(b)' <=> Works(b)
    BY <1>1, <1>2 DEF Works, Quiet
<1>7. \A b \in Agents : AtPlace(b)'
  <2> SUFFICES ASSUME NEW b \in Agents PROVE AtPlace(b)'
      OBVIOUS
  <2>1. CASE pc'[b] \in Quiet
      BY <2>1, QuietPlaceNext
  <2>2. CASE pc'[b] \notin Quiet
    <3>1. b # a
        BY <1>2, <2>2 DEF Quiet
    <3>2. a = Dm /\ b = Th
        BY <1>1, <1>2, <1>3, <2>2, <3>1, AgentFacts DEF Quiet
    <3>3. pc[Th] \in {"count", "unmask"} \/ pc[Dm] = "idle"
        BY <1>2, <2>2, <3>2, AgentFacts DEF Core, Nesting, Quiet
    <3>4. pc[Th] \in {"count", "unmask"} /\ pc'[Th] = pc[Th]
        BY <1>1, <1>2, <3>2, <3>3, AgentFacts
    <3> SUFFICES ASSUME NEW j \in Ids, arg[Th] = j PROVE AtPlace(Th)'
        BY <3>2, TaskType
    <3>5. job[j].api = "start"
      <4>1. job[j].api # "kmodel" /\ job[j].api # "run" /\ job[j].api \in Apis
          BY <3>2, <3>4, JobFacts DEF Core, AtPlace, Opens, Api
      <4> QED BY <4>1 DEF Apis
    <3>6. PICK n \in Nat : n = IF pc[Th] = "count" THEN BurstFor(j) ELSE next[j]
        BY BurstForFacts, JobFacts
    <3>7. /\ mask = {} /\ ~pend /\ Served(j) /\ (Streaming(j, n) \/ (Late(Th, j) /\ n = Size(j)))
          /\ pc[Th] = "count" => next[j] = 0
        BY <3>2, <3>4, <3>5, <3>6, AgentFacts DEF Core, AtPlace, Feeds, Api
    <3>8. mask' = {} /\ ~pend' /\ Served(j)' /\ BurstFor(j)' = BurstFor(j) /\ Size(j)' = Size(j)
          /\ next' = next
        BY <1>1, <3>7, Frames DEF hardware, software, BurstFor, Remain, Size
    <3>9. Streaming(j, n) => Streaming(j, n)'
        BY <1>1, <3>8, Frames DEF Streaming, dmac, hardware, software
    <3>10. Late(Th, j) => Late(Th, j)'
        BY <1>1, <1>4, <3>2, AgentFacts DEF Late, Api
    <3>11. arg'[Th] = j /\ job' = job
        BY <1>1
    <3>12. Feeds(Th)'
        BY <3>4, <3>5, <3>6, <3>7, <3>8, <3>9, <3>10, <3>11, AgentFacts DEF Feeds, Api
    <3>13. Begins(Th)' /\ Opens(Th)' /\ Layered(Th)' /\ Ends(Th)'
        BY <3>4, <3>5, <3>11 DEF Begins, Starts, Opens, Armed, Layered, Ends, Api
    <3> QED BY <3>2, <3>12, <3>13 DEF AtPlace
  <2> QED BY <2>1, <2>2
<1>8. \A k \in Ids : Waits(k) => Waits(k)'
    BY <1>1, WaitsFrame
<1>9. Waiting'
  <2>1. Running \subseteq Ids
      BY DEF Running
  <2> QED BY <1>1, <1>4, <1>6, <1>8, <2>1 DEF Core, Waiting
<1>10. Entered'
  <2>1. pc'[Dm] # "entry"
      BY <1>1, <1>2, <1>3, AgentFacts
  <2> QED BY <2>1 DEF Entered
<1>11. Rest'
  <2>1. (pc'[Ai] = pc[Ai] \/ pc'[Ai] = "idle") /\ (pc'[Dm] = pc[Dm] \/ pc'[Dm] = "idle") /\ pc'[Th] = pc[Th]
      BY <1>1, <1>2, AgentFacts
  <2>2. AfterLast => AfterLast'
      BY <1>1, <2>1 DEF AfterLast, software, Size
  <2>3. (Empty' <=> Empty) /\ (NoChannel' <=> NoChannel) /\ (Calm' <=> Calm)
      BY <1>1, Frames DEF dmac, hardware
  <2> QED BY <1>4, <2>1, <2>2, <2>3 DEF Core, Rest
<1> QED BY <1>4, <1>5, <1>7, <1>9, <1>10, <1>11 DEF Core

-----------------------------------------------------------------------------
(***************************************************************************)
(* The invariant: the callers.                                             *)
(***************************************************************************)
\* who asks for a job is alone
LEMMA Asking ==
    ASSUME OneHart, Core, NEW a \in Agents, MayRun(a),
           \/ pc[a] = "cas"
           \/ pc[a] = "idle" /\ a = Th
           \/ pc[a] = "callback" /\ a # Th /\ pc[Th] = "idle"
    PROVE  /\ a = Th => pc[Dm] = "idle" /\ pc[Ai] = "idle"
           /\ a = Dm => pc[Th] = "idle" /\ pc[Ai] = "idle"
           /\ a = Ai => pc[Th] = "idle" /\ pc[Dm] \in {"idle", "leave"}
           /\ \A b \in Agents : b # a => pc[b] \in {"idle", "leave"}
<1>1. a = Th => pc[Dm] = "idle" /\ pc[Ai] = "idle"
    BY AgentFacts DEF MayRun, Busy, Dm, Ai, Th
<1>2. a = Dm => pc[Th] = "idle" /\ pc[Ai] = "idle"
  <2> SUFFICES ASSUME a = Dm PROVE pc[Th] = "idle" /\ pc[Ai] = "idle"
      OBVIOUS
  <2>1. pc[Ai] = "idle" /\ (pc[Th] \in {"idle", "cas", "count", "unmask"})
      BY AgentFacts DEF Core, Nesting
  <2>2. pc[Dm] = "cas" => pc[Th] \notin {"cas", "count", "unmask"}
      BY AgentFacts DEF Core, Nesting, Callers
  <2> QED BY <2>1, <2>2, AgentFacts
<1>3. a = Ai => pc[Th] = "idle" /\ pc[Dm] \in {"idle", "leave"}
  <2> SUFFICES ASSUME a = Ai PROVE pc[Th] = "idle" /\ pc[Dm] \in {"idle", "leave"}
      OBVIOUS
  <2>1. pc[Dm] \in {"idle", "leave"} /\ (pc[Th] \in {"idle", "cas"})
      BY AgentFacts DEF Core, Nesting
  <2>2. pc[Ai] = "cas" => pc[Th] # "cas"
      BY AgentFacts DEF Core, Callers
  <2> QED BY <2>1, <2>2, AgentFacts
<1> QED BY <1>1, <1>2, <1>3, AgentFacts

\* and finds the accelerator quiet if it is at rest
LEMMA AskingCalm ==
    ASSUME OneHart, Core, NEW a \in Agents, MayRun(a), Running = {},
           \/ pc[a] = "cas"
           \/ pc[a] = "idle" /\ a = Th
           \/ pc[a] = "callback" /\ a # Th /\ pc[Th] = "idle"
    PROVE  Calm /\ pc[Ai] \notin {"feed", "push", "count"}
<1> SUFFICES ASSUME AfterLast PROVE Calm /\ pc[Ai] \notin {"feed", "push", "count"}
    BY DEF Core, Rest
<1>1. a = Th /\ pc[Th] = "idle" /\ pc[Dm] = "idle" /\ pc[Ai] = "idle" /\ Hart1 \in aion
    BY Asking, AgentFacts DEF AfterLast
<1>2. Hart1 \notin off
    BY <1>1, AgentFacts DEF Core, Nesting
<1>3. ~pend /\ ~Line
  <2>1. Preempts(Hart1, "thread")
      BY <1>1, <1>2 DEF Preempts
  <2>2. Th[1] = Hart1 /\ Th[2] = "thread" /\ MayRun(Th)
      BY <1>1 DEF Th
  <2> QED BY <2>1, <2>2 DEF MayRun
<1>4. \A h \in Harts : ~Busy(h, "ai")
    BY <1>1, AgentFacts DEF Busy, Ai
<1> QED BY <1>1, <1>3, <1>4 DEF Calm, Line

LEMMA CasStep ==
    ASSUME OneHart, TypeOK, Core, NEW a \in Agents, Cas(a)
    PROVE  Core'
<1> SUFFICES ASSUME NEW i \in Ids, arg[a] = i PROVE Core'
    BY TaskType
<1>1. /\ pc[a] = "cas" /\ MayRun(a)
      /\ IF busy[job[i].api]
           THEN /\ state' = [state EXCEPT ![i] = "refused"]
                /\ Return(a)
                /\ UNCHANGED busy
           ELSE /\ state' = [state EXCEPT ![i] = "running"]
                /\ busy' = [busy EXCEPT ![job[i].api] = job[i].api # "kmodel"]
                /\ Goto(a, "task")
      /\ UNCHANGED <<dmac, hardware, cur, next, handler, aion, aiprio, dcb, job, ghosts>>
    BY DEF Cas, At, Api
<1>2. /\ a = Th => pc[Dm] = "idle" /\ pc[Ai] = "idle"
      /\ a = Dm => pc[Th] = "idle" /\ pc[Ai] = "idle"
      /\ a = Ai => pc[Th] = "idle" /\ pc[Dm] \in {"idle", "leave"}
      /\ \A b \in Agents : b # a => pc[b] \in {"idle", "leave"}
    BY <1>1, Asking
<1>3. state[i] = "asked" /\ job[i].api \in Apis
    BY <1>1, JobFacts DEF Core, Callers
<1>4. Empty' = Empty /\ NoChannel' = NoChannel /\ Calm' = Calm
  <2>1. (Empty' <=> Empty) /\ (NoChannel' <=> NoChannel) /\ (Calm' <=> Calm)
      BY <1>1, Frames DEF dmac, hardware
  <2> QED BY <2>1 DEF Empty, NoChannel, Calm
<1>5. CASE busy[job[i].api]
  <2>1. /\ arg' = arg /\ pc'[a] = (IF a = Th THEN "idle" ELSE "leave") /\ off' = off \ {Hart1}
        /\ \A b \in Agents : b # a => pc'[b] = pc[b]
    <3>1. (a[2] = "thread" <=> a = Th) /\ Hart(a) = Hart1
        BY AgentFacts
    <3>2. Return(a) /\ DOMAIN pc = Agents
        BY <1>1, <1>5 DEF TypeOK
    <3> QED BY <3>1, <3>2 DEF Return
  <2>2. \A k \in Ids : state'[k] = IF k = i THEN "refused" ELSE state[k]
      BY <1>1, <1>5 DEF TypeOK
  <2>3. Running' = Running /\ i \notin Running
      BY <1>3, <2>2 DEF Running
  <2>4. \A b \in Agents : pc'[b] \in {"idle", "leave"} /\ pc[b] \in {"idle", "leave", "cas"}
      BY <1>1, <1>2, <2>1
  <2>5. Callers'
    <3>1. \A k \in Ids : state'[k] # "asked"
      <4>1. \A k \in Ids : state[k] = "asked" => k = i
        <5> SUFFICES ASSUME NEW k \in Ids, state[k] = "asked" PROVE k = i
            OBVIOUS
        <5>1. PICK b \in Agents : pc[b] = "cas" /\ arg[b] = k
            BY DEF Core, Callers
        <5>2. b = a
            BY <1>2, <5>1
        <5> QED BY <5>1, <5>2
      <4> QED BY <2>2, <4>1
    <3>2. \A k \in Ids : ~Calling(k) /\ ~Calling(k)'
        BY <2>4 DEF Calling
    <3>3. \A k \in Ids : /\ state'[k] \in {"asked", "running"} => state[k] \in {"asked", "running"}
                         /\ state'[k] = "running" => state[k] = "running"
                         /\ state'[k] = "new" => state[k] = "new"
                         /\ state'[k] # "done" => state[k] # "done"
        BY <1>3, <2>2
    <3>4. job' = job /\ busy' = busy /\ next' = next /\ calls' = calls
        BY <1>1, <1>5 DEF ghosts
    <3>5. Running \subseteq Ids
        BY DEF Running
    <3>6. \A p \in Apis : busy'[p] <=>
            p # "kmodel" /\ \E k \in Running' : job'[k].api = p /\ ~Calling(k)'
        BY <2>3, <3>2, <3>4, <3>5 DEF Core, Callers
    <3>7. \A b \in Agents : pc'[b] \notin {"cas", "callback"}
        BY <2>4
    <3> QED BY <3>1, <3>3, <3>4, <3>6, <3>7, AgentFacts DEF Core, Callers
  <2>6. Nesting'
    <3>1. pc'[Th] = "idle" /\ Hart1 \notin off'
      <4>1. CASE a = Th
          BY <2>1, <4>1
      <4>2. CASE a # Th
          BY <1>2, <2>1, <4>2, AgentFacts
      <4> QED BY <2>1, <4>1, <4>2
    <3>2. pc'[Dm] \in {"idle", "leave"} /\ pc'[Ai] \in {"idle", "leave"}
        BY <2>4, AgentFacts
    <3> QED BY <3>1, <3>2 DEF Nesting
  <2>7. \A b \in Agents : AtPlace(b)'
      BY <2>4, QuietPlaceNext DEF Quiet
  <2>8. Waiting'
    <3> SUFFICES ASSUME NEW k \in Running' PROVE Waits(k)'
        BY DEF Waiting
    <3>1. k \in Ids /\ k \in Running /\ k # i
        BY <2>3 DEF Running
    <3>2. Waits(k)
        BY <2>4, <3>1 DEF Core, Waiting, Works, Quiet
    <3> QED BY <1>1, <1>5, <2>2, <3>1, <3>2, WaitsFrame DEF software
  <2>9. Entered'
      BY <2>4, AgentFacts DEF Entered
  <2>10. Rest'
    <3> SUFFICES ASSUME Running' = {} PROVE Empty' /\ NoChannel' /\ Calm' /\ pc'[Ai] \notin {"feed", "push", "count"}
        BY DEF Rest
    <3>1. Calm /\ Empty /\ NoChannel
        BY <1>1, <2>3, AskingCalm DEF Core, Rest
    <3> QED BY <1>4, <2>4, <3>1, AgentFacts
  <2> QED BY <2>5, <2>6, <2>7, <2>8, <2>9, <2>10 DEF Core
<1>6. CASE ~busy[job[i].api]
  <2>1. /\ arg' = arg /\ pc'[a] = "task" /\ off' = off /\ \A b \in Agents : b # a => pc'[b] = pc[b]
      BY <1>1, <1>6 DEF Goto, TypeOK
  <2>2. \A k \in Ids : state'[k] = IF k = i THEN "running" ELSE state[k]
      BY <1>1, <1>6 DEF TypeOK
  <2>3. \A k \in Ids : ~Calling(k) /\ ~Calling(k)'
      BY <1>1, <1>2, <2>1 DEF Calling
  <2>4. Running = {}
    <3> SUFFICES ASSUME NEW k \in Ids, state[k] = "running" PROVE FALSE
        BY DEF Running
    <3>1. k # i /\ job[k].api = job[i].api /\ job[i].api # "kmodel"
        BY <1>3 DEF Core, Callers
    <3>2. k \in Running
        BY DEF Running
    <3>3. busy[job[i].api]
        BY <1>3, <2>3, <3>1, <3>2 DEF Core, Callers
    <3> QED BY <1>6, <3>3
  <2>5. Running' = {i}
      BY <2>2, <2>4 DEF Running
  <2>6. Empty' /\ NoChannel' /\ Calm'
    <3>1. Empty /\ NoChannel /\ Calm
        BY <1>1, <2>4, AskingCalm DEF Core, Rest
    <3> QED BY <1>4, <3>1
  <2>7. Callers'
    <3>1. \A k \in Ids : /\ state'[k] = "running" => k = i
                         /\ state'[k] = "asked" => state[k] = "asked" /\ k # i
                         /\ state'[k] \in {"asked", "running"} => state[k] \in {"asked", "running"}
                         /\ state'[k] = "new" => state[k] = "new"
                         /\ state'[k] # "done" => state[k] # "done"
        BY <1>3, <2>2, <2>5 DEF Running
    <3>2. \A k \in Ids : state[k] = "asked" => k = i
      <4> SUFFICES ASSUME NEW k \in Ids, state[k] = "asked" PROVE k = i
          OBVIOUS
      <4>1. PICK b \in Agents : pc[b] = "cas" /\ arg[b] = k
          BY DEF Core, Callers
      <4>2. b = a
          BY <1>2, <4>1
      <4> QED BY <4>1, <4>2
    <3>3. job' = job /\ next' = next /\ calls' = calls
        BY <1>1 DEF ghosts
    <3>4. \A p \in Apis : busy'[p] <=>
            p # "kmodel" /\ \E k \in Running' : job'[k].api = p /\ ~Calling(k)'
      <4>1. \A p \in Apis : ~busy[p]
          BY <2>4 DEF Core, Callers
      <4>2. busy \in [Apis -> BOOLEAN] /\ busy' = [busy EXCEPT ![job[i].api] = job[i].api # "kmodel"]
          BY <1>1, <1>6 DEF TypeOK
      <4>3. \A p \in Apis : busy'[p] <=> (p = job[i].api /\ p # "kmodel")
          BY <1>3, <4>1, <4>2
      <4> QED BY <2>3, <2>5, <3>3, <4>3
    <3>5. \A b \in Agents : pc'[b] \notin {"cas", "callback"}
        BY <1>2, <2>1
    <3> QED BY <3>1, <3>2, <3>3, <3>4, <3>5, AgentFacts DEF Core, Callers
  <2>8. Nesting'
    <3>1. Hart1 \in off' => /\ pc'[Ai] \notin {"feed", "push", "count"}
                            /\ \E b \in Agents : pc'[b] \notin {"idle", "entry", "leave"}
        BY <1>2, <2>1, AgentFacts
    <3> QED BY <1>2, <2>1, <3>1, AgentFacts DEF Nesting
  <2>9. AtPlace(a)'
    <3>1. a = Ai => job[i].api # "start" \/ job[i].load # "none"
        BY <1>1 DEF Core, Callers, Api
    <3>2. Begins(a)'
        BY <1>1, <2>1, <2>2, <2>6, <3>1 DEF Begins, Starts, Api
    <3>3. Opens(a)' /\ Feeds(a)' /\ Layered(a)' /\ Ends(a)'
        BY <2>1 DEF Opens, Armed, Feeds, Layered, Ends, Api
    <3> QED BY <3>2, <3>3 DEF AtPlace
  <2>10. \A b \in Agents : AtPlace(b)'
      BY <1>2, <2>1, <2>9, QuietPlaceNext DEF Quiet
  <2>11. Waiting'
      BY <2>1, <2>5 DEF Waiting, Works, Quiet
  <2>12. Entered' /\ Rest'
      BY <1>2, <2>1, <2>5, AgentFacts DEF Entered, Rest
  <2> QED BY <2>7, <2>8, <2>10, <2>11, <2>12 DEF Core
<1> QED BY <1>5, <1>6

LEMMA AskStep ==
    ASSUME OneHart, TypeOK, Core, NEW a \in Agents, NEW i \in Ids, NEW j \in Jobs, Ask(a, i, j)
    PROVE  Core'
<1>1. /\ MayRun(a)
      /\ (pc[a] = "idle" /\ a = Th) \/ (pc[a] = "callback" /\ a # Th /\ pc[Th] = "idle")
      /\ a = Ai => j.load # "none"
      /\ \A k \in Ids : state[k] \in {"asked", "running"} => job[k].api = j.api /\ j.api # "kmodel"
      /\ state[i] = "new"
      /\ job' = [job EXCEPT ![i] = j] /\ state' = [state EXCEPT ![i] = "asked"]
      /\ arg' = [arg EXCEPT ![a] = i] /\ pc' = [pc EXCEPT ![a] = "cas"]
      /\ UNCHANGED <<dmac, hardware, software, off, ghosts>>
    BY AgentFacts DEF Ask, Asks, At, Busy, Th
<1>2. /\ a = Th => pc[Dm] = "idle" /\ pc[Ai] = "idle"
      /\ a = Dm => pc[Th] = "idle" /\ pc[Ai] = "idle"
      /\ a = Ai => pc[Th] = "idle" /\ pc[Dm] \in {"idle", "leave"}
      /\ \A b \in Agents : b # a => pc[b] \in {"idle", "leave"}
    BY <1>1, Asking
<1>3. /\ pc'[a] = "cas" /\ arg'[a] = i
      /\ \A b \in Agents : b # a => pc'[b] = pc[b] /\ arg'[b] = arg[b]
      /\ job'[i] = j /\ state'[i] = "asked"
      /\ \A k \in Ids : k # i => job'[k] = job[k] /\ state'[k] = state[k]
    BY <1>1 DEF TypeOK
<1>4. Running' = Running /\ i \notin Running /\ Running \subseteq Ids
    BY <1>1, <1>3 DEF Running
<1>5. \A b \in Agents : pc'[b] \in {"idle", "leave", "cas"} /\ pc[b] \in {"idle", "leave", "callback"}
    BY <1>1, <1>2, <1>3
<1>6. Callers'
  <2>1. \A k \in Ids : ~Calling(k) /\ ~Calling(k)'
      BY <1>5 DEF Calling
  <2>2. \A p \in Apis : busy'[p] <=>
          p # "kmodel" /\ \E k \in Running' : job'[k].api = p /\ ~Calling(k)'
    <3>1. \A k \in Running : job'[k] = job[k]
        BY <1>3, <1>4
    <3> QED BY <1>1, <1>4, <2>1, <3>1 DEF Core, Callers, software
  <2>3. \A k \in Ids : state[k] # "asked"
    <3> SUFFICES ASSUME NEW k \in Ids, state[k] = "asked" PROVE FALSE
        OBVIOUS
    <3>1. PICK b \in Agents : pc[b] = "cas"
        BY DEF Core, Callers
    <3> QED BY <1>5, <3>1
  <2>4. \A b \in Agents : pc'[b] = "cas" <=> b = a
      BY <1>2, <1>3
  <2>5. \A k \in Ids : state'[k] = "asked" <=> k = i
      BY <1>3, <2>3
  <2>6. \A k \in Ids : state'[k] = "running" <=> state[k] = "running"
      BY <1>1, <1>3
  <2>7. \A k, l \in Ids : state'[k] \in {"asked", "running"} /\ state'[l] \in {"asked", "running"} =>
          job'[k].api = job'[l].api /\ (job'[k].api = "kmodel" => k = l)
    <3> SUFFICES ASSUME NEW k \in Ids, NEW l \in Ids,
                        state'[k] \in {"asked", "running"}, state'[l] \in {"asked", "running"}
                 PROVE  job'[k].api = job'[l].api /\ (job'[k].api = "kmodel" => k = l)
        OBVIOUS
    <3>1. (k = i \/ state[k] = "running") /\ (l = i \/ state[l] = "running")
        BY <2>5, <2>6
    <3>2. k # i => job'[k].api = j.api /\ j.api # "kmodel"
        BY <1>1, <1>3, <3>1
    <3>3. l # i => job'[l].api = j.api /\ j.api # "kmodel"
        BY <1>1, <1>3, <3>1
    <3> QED BY <1>3, <3>2, <3>3
  <2>8. pc'[Dm] \in {"cas", "callback"} \/ pc'[Ai] \in {"cas", "callback"} => Running' = {}
      BY <1>1, <1>3, <1>4, <1>5, <2>4, AgentFacts DEF Core, Callers
  <2>9. pc'[Ai] = "cas" => job'[arg'[Ai]].api # "start" \/ job'[arg'[Ai]].load # "none"
      BY <1>1, <1>3, <2>4, AgentFacts
  <2>10. /\ \A k \in Ids : state'[k] # "done" => calls'[k] = 0
         /\ \A k \in Ids : state'[k] = "new" => next'[k] = 0
    <3>1. \A k \in Ids : (state'[k] # "done" => state[k] # "done") /\ (state'[k] = "new" => state[k] = "new")
        BY <1>1, <1>3
    <3> QED BY <1>1, <3>1 DEF Core, Callers, ghosts, software
  <2>11. \A k \in Ids : state'[k] = "asked" => \E b \in Agents : pc'[b] = "cas" /\ arg'[b] = k
      BY <1>3, <2>5
  <2>12. \A k, l \in Ids : state'[k] = "running" /\ state'[l] = "running" => k = l
      BY <2>6 DEF Core, Callers
  <2> QED BY <1>3, <2>2, <2>4, <2>7, <2>8, <2>9, <2>10, <2>11, <2>12 DEF Callers, Api
<1>7. Nesting'
  <2>1. Hart1 \in off' => /\ pc'[Ai] \notin {"feed", "push", "count"}
                          /\ \E b \in Agents : pc'[b] \notin {"idle", "entry", "leave"}
      BY <1>3, <1>5, AgentFacts
  <2> QED BY <1>2, <1>3, <1>5, <2>1, AgentFacts DEF Nesting
<1>8. \A b \in Agents : AtPlace(b)'
    BY <1>5, QuietPlaceNext DEF Quiet
<1>9. Waiting'
  <2> SUFFICES ASSUME NEW k \in Running' PROVE Waits(k)'
      BY DEF Waiting
  <2>1. k \in Ids /\ k \in Running /\ k # i
      BY <1>4
  <2>2. Waits(k)
      BY <1>5, <2>1 DEF Core, Waiting, Works, Quiet
  <2> QED BY <1>1, <1>3, <2>1, <2>2, WaitsFrame
<1>10. Entered'
    BY <1>5, AgentFacts DEF Entered
<1>11. Rest'
  <2> SUFFICES ASSUME Running' = {} PROVE Empty' /\ NoChannel' /\ Calm' /\ pc'[Ai] \notin {"feed", "push", "count"}
      BY DEF Rest
  <2>1. Calm /\ Empty /\ NoChannel
      BY <1>1, <1>4, AskingCalm DEF Core, Rest
  <2> QED BY <1>1, <1>5, <2>1, AgentFacts, Frames DEF dmac, hardware
<1> QED BY <1>6, <1>7, <1>8, <1>9, <1>10, <1>11 DEF Core

-----------------------------------------------------------------------------
(***************************************************************************)
(* The interrupts: what their handlers find.                               *)
(***************************************************************************)
\* the interrupt of the channel, before its handler has it
LEMMA StreamInt ==
    ASSUME TypeOK, NEW i \in Ids, NEW n \in Nat, Streaming(i, n), chan["ch"].int, job[i].api # "kmodel"
    PROVE  n = Size(i) /\ Empty /\ ~chan["ch"].run /\ dcb = [fn |-> "done", id |-> i]
<1>1. /\ Len(mem) = Size(i) + 1 /\ n <= Size(i) /\ ~chan["ch"].run /\ dcb = [fn |-> "done", id |-> i]
      /\ InOrder(i, n, mem, outp, engine, fifo)
    BY DEF Streaming, Output, OutputSet, InUse, Flow
<1>2. /\ mem \in Seq(Layers) /\ outp \in Layers \cup {None} /\ engine \in Layers \cup {None}
      /\ fifo \in Seq(Layers)
    BY DEF TypeOK
<1>3. Len(mem) <= n + 1 /\ (Len(mem) = n + 1 => outp = None /\ engine = None /\ fifo = <<>>)
    BY <1>1, <1>2, InOrderBounds
<1>4. Size(i) \in Nat
    BY JobFacts
<1>5. n = Size(i)
    BY <1>1, <1>3, <1>4
<1> QED BY <1>1, <1>3, <1>5 DEF Empty

LEMMA WaitsInt ==
    ASSUME TypeOK, NEW i \in Ids, Waits(i), chan["ch"].int
    PROVE  /\ Empty /\ ~chan["ch"].run /\ chan["ch"].inten /\ dcb.id = i
           /\ \/ /\ Loading(i)
                 /\ dcb.fn = IF job[i].api = "kmodel" THEN "step" ELSE "ready"
              \/ /\ job[i].api # "kmodel" /\ Streaming(i, next[i]) /\ next[i] = Size(i)
                 /\ dcb.fn = "done"
              \/ /\ InLayer(i) /\ Kind(i, next[i]) = "out"
                 /\ dcb.fn = IF next[i] # Size(i) THEN "step" ELSE "done"
<1>1. next[i] \in Nat
    BY JobFacts
<1>2. CASE Loading(i)
    BY <1>2 DEF Loading, Input, InputSet, InUse
<1>3. CASE job[i].api # "kmodel" /\ Streaming(i, next[i])
  <2>1. chan["ch"].inten
      BY <1>3 DEF Streaming, Output, OutputSet
  <2> QED BY <1>1, <1>3, <2>1, StreamInt
<1>4. CASE InLayer(i)
  <2>1. Kind(i, next[i]) = "out"
      BY <1>4 DEF InLayer, NoChannel
  <2> QED BY <1>4, <2>1 DEF InLayer, Output, OutputSet, InUse
<1> QED BY <1>2, <1>3, <1>4 DEF Waits

LEMMA EntryState ==
    ASSUME OneHart, TypeOK, Core, pc[Dm] = "entry"
    PROVE  /\ pc[Ai] = "idle"
           /\ pc[Th] \in {"idle", "cas", "count", "unmask"}
           /\ chan["ch"].int /\ Calm /\ dcb.id \in Ids
           /\ Running = {dcb.id} /\ state[dcb.id] = "running"
           /\ Empty /\ ~chan["ch"].run /\ chan["ch"].inten
           /\ \/ Waits(dcb.id) /\ pc[Th] \in {"idle", "cas"}
              \/ /\ pc[Th] \in {"count", "unmask"} /\ arg[Th] = dcb.id /\ job[dcb.id].api = "start"
                 /\ mask = {} /\ Served(dcb.id)
                 /\ pc[Th] = "count" => next[dcb.id] = 0 /\ BurstFor(dcb.id) = Size(dcb.id)
                 /\ pc[Th] = "unmask" => next[dcb.id] = Size(dcb.id)
                 /\ Streaming(dcb.id, Size(dcb.id))
                 /\ dcb.fn = "done"
<1>1. pc[Dm] = "entry"
    OBVIOUS
<1>2. pc[Ai] = "idle" /\ (pc[Th] \in {"idle", "cas", "count", "unmask"})
    BY <1>1, AgentFacts DEF Core, Nesting
<1>3. chan["ch"].int /\ Calm /\ Running = {dcb.id}
    BY <1>1 DEF Core, Entered
<1> SUFFICES ASSUME NEW i, i = dcb.id
    PROVE  /\ i \in Ids /\ state[i] = "running"
           /\ Empty /\ ~chan["ch"].run /\ chan["ch"].inten
           /\ \/ Waits(i) /\ pc[Th] \in {"idle", "cas"}
              \/ /\ pc[Th] \in {"count", "unmask"} /\ arg[Th] = i /\ job[i].api = "start"
                 /\ mask = {} /\ Served(i)
                 /\ pc[Th] = "count" => next[i] = 0 /\ BurstFor(i) = Size(i)
                 /\ pc[Th] = "unmask" => next[i] = Size(i)
                 /\ Streaming(i, Size(i))
                 /\ dcb.fn = "done"
    BY <1>1, <1>2, <1>3
<1>4. i \in Ids /\ i \in Running /\ state[i] = "running"
    BY <1>3 DEF Running
<1>5. CASE pc[Th] \in {"idle", "cas"}
  <2>1. \A a \in Agents : ~Works(a)
      BY <1>1, <1>2, <1>5, AgentFacts DEF Works, Quiet
  <2>2. Waits(i)
      BY <1>4, <2>1 DEF Core, Waiting
  <2> QED BY <1>3, <1>4, <1>5, <2>2, WaitsInt
<1>6. CASE pc[Th] \in {"count", "unmask"}
  <2> SUFFICES ASSUME NEW j \in Ids, arg[Th] = j
      PROVE  /\ Empty /\ ~chan["ch"].run /\ chan["ch"].inten
             /\ arg[Th] = i /\ job[i].api = "start"
             /\ mask = {} /\ Served(i)
             /\ pc[Th] = "count" => next[i] = 0 /\ BurstFor(i) = Size(i)
             /\ pc[Th] = "unmask" => next[i] = Size(i)
             /\ Streaming(i, Size(i))
             /\ dcb.fn = "done"
      BY <1>4, <1>6, TaskType, AgentFacts
  <2>1. job[j].api = "start"
    <3>1. job[j].api # "kmodel" /\ job[j].api # "run" /\ job[j].api \in Apis
        BY <1>6, AgentFacts, JobFacts DEF Core, AtPlace, Opens, Api
    <3> QED BY <3>1 DEF Apis
  <2>2. PICK n \in Nat : n = IF pc[Th] = "count" THEN BurstFor(j) ELSE next[j]
      BY BurstForFacts, JobFacts
  <2>3. /\ mask = {} /\ ~pend /\ Served(j) /\ (Streaming(j, n) \/ (Late(Th, j) /\ n = Size(j)))
        /\ pc[Th] = "count" => next[j] = 0
      BY <1>6, <2>1, <2>2, AgentFacts DEF Core, AtPlace, Feeds, Api
  <2>4. ~Late(Th, j)
      BY <1>1, <1>4 DEF Late
  <2>5. j = i
      BY <1>3, <2>3, <2>4 DEF Streaming, Running
  <2>6. chan["ch"].inten
      BY <2>3, <2>4 DEF Streaming, Output, OutputSet
  <2>7. n = Size(i) /\ Empty /\ ~chan["ch"].run /\ dcb = [fn |-> "done", id |-> i]
      BY <1>3, <1>4, <2>1, <2>3, <2>4, <2>5, StreamInt
  <2> QED BY <1>6, <2>1, <2>2, <2>3, <2>4, <2>5, <2>6, <2>7
<1> QED BY <1>2, <1>4, <1>5, <1>6

LEMMA EntryFacts ==
    ASSUME OneHart, TypeOK, Core, NEW h \in Harts, Entry(h)
    PROVE  /\ pc[Dm] = "entry" /\ MayRun(Dm)
           /\ dcb.id \in Ids
<1>1. h = Hart1
    BY AgentFacts
<1>2. pc[Dm] = "entry" /\ MayRun(Dm)
    BY <1>1 DEF Entry, At, Dm
<1> QED BY <1>2, EntryState

\* Who works for a job has no interrupt of the accelerator pending, except that
\* the handler of the channel may be at the end of kpu_run's first push.
LEMMA WorkersCalm ==
    ASSUME OneHart, TypeOK, NEW a \in Agents, AtPlace(a), Works(a), a # Ai
    PROVE  Calm \/ (pc[a] = "count" /\ Api(a) = "run" /\ a # Th /\ aiprio = 1)
<1> SUFFICES ASSUME NEW i \in Ids, arg[a] = i, ~Calm
             PROVE  pc[a] = "count" /\ job[i].api = "run" /\ a # Th /\ aiprio = 1
    BY TaskType DEF Api
<1>1. job[i].api \in {"run", "start", "kmodel"} /\ pc[a] \in Places
    BY JobFacts, TypeParts DEF Apis, PlaceType
<1>2. ~Starts(a)
    BY DEF AtPlace, Begins
<1>3. ~Armed(a)
    BY DEF AtPlace, Opens
<1>4. pc[a] \notin {"ready", "outreg", "outdma", "step", "conv", "send", "done", "call"}
    BY DEF AtPlace, Opens, Layered, Ends, Api
<1>5. pc[a] \notin {"mask", "unmask", "feed", "push"}
    BY <1>1, <1>3 DEF AtPlace, Opens, Armed, Feeds, Calm, Api
<1>6. pc[a] = "count"
    BY <1>1, <1>2, <1>3, <1>4, <1>5 DEF Starts, Armed, Works, Quiet, Places
<1>7. job[i].api = "run" /\ a # Th
    BY <1>1, <1>6 DEF AtPlace, Opens, Feeds, Calm, Api
<1>8. BurstFor(i) \in Nat
    BY BurstForFacts
<1>9. Streaming(i, BurstFor(i))
    BY <1>6, <1>7 DEF AtPlace, Feeds, Late
<1> QED BY <1>6, <1>7, <1>9 DEF Streaming, Prepared

LEMMA AiInterruptFacts ==
    ASSUME OneHart, TypeOK, Core, NEW h \in Harts, AiInterrupt(h)
    PROVE  /\ h = Hart1 /\ pend /\ pc[Ai] = "idle" /\ Hart1 \in aion /\ Hart1 \notin off
           /\ pc[Th] \in {"idle", "cas"} /\ pc[Dm] \in {"idle", "leave"}
           /\ \/ Running = {} /\ AfterLast
              \/ \E i \in Ids :
                   /\ Running = {i} /\ state[i] = "running" /\ handler[Hart1] = i
                   /\ \/ job[i].api # "kmodel" /\ Streaming(i, next[i])
                      \/ /\ InLayer(i) /\ Kind(i, next[i]) = "conv" /\ Empty
                         /\ next[i] < Size(i)
<1>1. h = Hart1 /\ pend /\ pc[Ai] = "idle" /\ Hart1 \in aion /\ Hart1 \notin off
  <2>1. h = Hart1
      BY AgentFacts
  <2> QED BY <2>1 DEF AiInterrupt, Preempts, Busy, Ai
<1>2. pc[Dm] # "idle" => aiprio # 1
  <2>1. pc[Dm] # "idle" => aiprio > 1
      BY <1>1 DEF AiInterrupt, Preempts, Busy, Dm
  <2> QED BY <2>1
<1>3. \A a \in Agents : ~Works(a)
  <2> SUFFICES ASSUME NEW a \in Agents, Works(a) PROVE FALSE
      OBVIOUS
  <2>1. a # Ai
      BY <1>1 DEF Works, Quiet
  <2>2. pc[a] = "count" /\ a # Th /\ aiprio = 1
      BY <1>1, <2>1, WorkersCalm DEF Core, Calm
  <2>3. a = Dm
      BY <2>1, <2>2, AgentFacts
  <2> QED BY <1>2, <2>2, <2>3
<1>4. pc[Th] \in {"idle", "cas"}
    BY <1>3, AgentFacts DEF Works, Quiet, Core, Nesting
<1>5. ~Calm
    BY <1>1 DEF Calm
<1>6. CASE Running = {}
  <2>1. AfterLast
      BY <1>5, <1>6 DEF Core, Rest
  <2> QED BY <1>1, <1>4, <1>6, <2>1 DEF AfterLast
<1>7. CASE Running # {}
  <2> PICK i \in Ids : state[i] = "running"
      BY <1>7 DEF Running
  <2>1. Running = {i}
      BY TheRunning DEF Core
  <2>2. Waits(i)
      BY <1>3, <2>1 DEF Core, Waiting
  <2>3. pc[Dm] \in {"idle", "leave"}
    <3>1. pc[Dm] \notin {"cas", "callback"}
        BY <2>1 DEF Core, Callers
    <3>2. pc[Dm] # "entry"
        BY <1>5 DEF Core, Entered
    <3> QED BY <1>3, <3>1, <3>2, AgentFacts DEF Works, Quiet
  <2>4. \/ job[i].api # "kmodel" /\ Streaming(i, next[i])
        \/ InLayer(i) /\ Kind(i, next[i]) # "out"
      BY <1>1, <1>5, <2>2 DEF Waits, Loading, InLayer
  <2>5. CASE InLayer(i) /\ Kind(i, next[i]) # "out"
    <3>1. next[i] # 0 /\ Served(i) /\ Empty /\ Kind(i, next[i]) # "cpu"
        BY <1>1, <2>5 DEF InLayer
    <3>2. Kind(i, next[i]) = "conv"
        BY <2>5, <3>1, JobFacts
    <3>3. next[i] < Size(i)
        BY <3>2, JobFacts
    <3> QED BY <1>1, <1>4, <2>1, <2>3, <2>5, <3>1, <3>2, <3>3 DEF Served
  <2>6. CASE job[i].api # "kmodel" /\ Streaming(i, next[i])
    <3>1. handler[Hart1] = i
        BY <2>6 DEF Streaming, Served
    <3> QED BY <1>1, <1>4, <2>1, <2>3, <2>6, <3>1
  <2> QED BY <2>4, <2>5, <2>6
<1> QED BY <1>6, <1>7

LEMMA AskType ==
    ASSUME OneHart, TypeOK, Core, NEW a \in Agents, NEW i \in Ids, NEW j \in Jobs, Ask(a, i, j)
    PROVE  TypeOK'
<1>1. DmacTypeOK'
    BY TypeParts, TypeFrame DEF Ask
<1>2. PlaceType'
    BY TypeParts DEF Ask, PlaceType, Places
<1>3. HardwareType'
    BY TypeParts, TypeFrame DEF Ask
<1>4. SoftwareType'
    BY TypeParts, TypeFrame DEF Ask, software
<1>5. NextType'
  <2>1. next' = next /\ next \in [Ids -> Nat] /\ \A k \in Ids : next[k] <= Size(k)
      BY TypeParts DEF Ask, software, NextType
  <2>2. job'[i] = j /\ \A k \in Ids : k # i => job'[k] = job[k]
      BY TypeParts DEF Ask, JobsType
  <2>3. next[i] = 0
      BY DEF Ask, Core, Callers
  <2>4. Size(i)' \in Nat
    <3>1. j.kinds \in Seq({"conv", "out", "cpu"})
        BY JobAssumption DEF JobType
    <3> QED BY <2>2, <3>1 DEF Size
  <2>5. \A k \in Ids : k # i => Size(k)' = Size(k)
      BY <2>2 DEF Size
  <2>6. \A k \in Ids : next'[k] <= Size(k)'
    <3> SUFFICES ASSUME NEW k \in Ids PROVE next'[k] <= Size(k)'
        OBVIOUS
    <3>1. CASE k = i
      <4>1. 0 <= Size(i)'
          BY <2>4
      <4> QED BY <2>1, <2>3, <3>1, <4>1
    <3>2. CASE k # i
        BY <2>1, <2>5, <3>2
    <3> QED BY <3>1, <3>2
  <2> QED BY <2>1, <2>6 DEF NextType
<1>6. JobsType'
    BY TypeParts DEF Ask, JobsType
<1>7. StateType'
    BY TypeParts DEF Ask, StateType
<1>8. GhostType'
    BY TypeParts, TypeFrame DEF Ask, ghosts
<1> QED BY <1>1, <1>2, <1>3, <1>4, <1>5, <1>6, <1>7, <1>8, TypePartsNext

LEMMA EntryType ==
    ASSUME OneHart, TypeOK, Core, NEW h \in Harts, Entry(h)
    PROVE  TypeOK'
<1>1. DmacTypeOK'
    BY TypeParts, ClearFacts, SettleFacts DEF Entry, DmacTypeOK, ChannelStates, Contexts
<1>2. PlaceType'
  <2>1. dcb.fn \in {"ready", "step", "done"} /\ dcb.id \in Ids
    <3>1. pc[Dm] = "entry" /\ dcb.id \in Ids
        BY EntryFacts
    <3> QED BY <3>1, EntryState, WaitsInt
  <2> QED BY <2>1, TypeParts DEF Entry, PlaceType, Places
<1>3. HardwareType'
    BY TypeParts, TypeFrame DEF Entry
<1>4. SoftwareType'
    BY TypeParts, TypeFrame DEF Entry, software
<1>5. NextType'
    BY TypeParts, TypeFrame DEF Entry, software
<1>6. JobsType'
    BY TypeParts, TypeFrame DEF Entry
<1>7. StateType'
    BY TypeParts, TypeFrame DEF Entry
<1>8. GhostType'
    BY TypeParts, TypeFrame DEF Entry, ghosts
<1> QED BY <1>1, <1>2, <1>3, <1>4, <1>5, <1>6, <1>7, <1>8, TypePartsNext

LEMMA AiInterruptType ==
    ASSUME OneHart, TypeOK, Core, NEW h \in Harts, AiInterrupt(h)
    PROVE  TypeOK'
<1>1. DmacTypeOK'
    BY TypeParts, TypeFrame DEF AiInterrupt
<1>2. PlaceType'
  <2>1. h = Hart1
      BY AgentFacts
  <2>2. handler[h] \in Ids
    <3>1. AfterLast => handler[Hart1] \in Ids
        BY AgentFacts, TypeParts DEF AfterLast, SoftwareType
    <3> QED BY <2>1, <3>1, AiInterruptFacts
  <2> QED BY <2>2, TypeParts DEF AiInterrupt, PlaceType, Places
<1>3. HardwareType'
    BY TypeParts DEF AiInterrupt, HardwareType
<1>4. SoftwareType'
    BY TypeParts, TypeFrame DEF AiInterrupt, software
<1>5. NextType'
    BY TypeParts, TypeFrame DEF AiInterrupt, software
<1>6. JobsType'
    BY TypeParts, TypeFrame DEF AiInterrupt
<1>7. StateType'
    BY TypeParts, TypeFrame DEF AiInterrupt
<1>8. GhostType'
    BY TypeParts, TypeFrame DEF AiInterrupt, ghosts
<1> QED BY <1>1, <1>2, <1>3, <1>4, <1>5, <1>6, <1>7, <1>8, TypePartsNext

LEMMA DmaInterruptType ==
    ASSUME OneHart, TypeOK, Core, NEW h \in Harts, DmaInterrupt(h)
    PROVE  TypeOK'
<1>1. DmacTypeOK'
    BY TypeParts, TypeFrame DEF DmaInterrupt
<1>2. PlaceType'
    BY TypeParts DEF DmaInterrupt, PlaceType, Places
<1>3. HardwareType'
    BY TypeParts, TypeFrame DEF DmaInterrupt
<1>4. SoftwareType'
    BY TypeParts, TypeFrame DEF DmaInterrupt, software
<1>5. NextType'
    BY TypeParts, TypeFrame DEF DmaInterrupt, software
<1>6. JobsType'
    BY TypeParts, TypeFrame DEF DmaInterrupt
<1>7. StateType'
    BY TypeParts, TypeFrame DEF DmaInterrupt
<1>8. GhostType'
    BY TypeParts, TypeFrame DEF DmaInterrupt, ghosts
<1> QED BY <1>1, <1>2, <1>3, <1>4, <1>5, <1>6, <1>7, <1>8, TypePartsNext

LEMMA PopType ==
    ASSUME OneHart, TypeOK, Core, Pop
    PROVE  TypeOK'
<1>1. DmacTypeOK'
    BY TypeParts, TypeFrame DEF Pop
<1>2. PlaceType'
    BY TypeParts, TypeFrame DEF Pop
<1>3. HardwareType'
  <2>1. fifo \in Seq(Layers) /\ fifo # <<>>
      BY TypeParts DEF Pop, HardwareType
  <2>2. Head(fifo) \in Layers /\ Tail(fifo) \in Seq(Layers)
      BY <2>1
  <2> QED BY <2>2, TypeParts DEF Pop, HardwareType
<1>4. SoftwareType'
    BY TypeParts, TypeFrame DEF Pop, software
<1>5. NextType'
    BY TypeParts, TypeFrame DEF Pop, software
<1>6. JobsType'
    BY TypeParts, TypeFrame DEF Pop
<1>7. StateType'
    BY TypeParts, TypeFrame DEF Pop
<1>8. GhostType'
    BY TypeParts, TypeFrame DEF Pop, ghosts
<1> QED BY <1>1, <1>2, <1>3, <1>4, <1>5, <1>6, <1>7, <1>8, TypePartsNext

LEMMA CalculateType ==
    ASSUME OneHart, TypeOK, Core, Calculate
    PROVE  TypeOK'
<1>1. DmacTypeOK'
    BY TypeParts, TypeFrame DEF Calculate
<1>2. PlaceType'
    BY TypeParts, TypeFrame DEF Calculate
<1>3. HardwareType'
  <2>1. mem \in Seq(Layers) /\ engine \in Layers
      BY TypeParts DEF Calculate, HardwareType
  <2>2. Append(mem, engine) \in Seq(Layers)
      BY <2>1
  <2> QED BY <2>1, <2>2, TypeParts DEF Calculate, HardwareType
<1>4. SoftwareType'
    BY TypeParts, TypeFrame DEF Calculate, software
<1>5. NextType'
    BY TypeParts, TypeFrame DEF Calculate, software
<1>6. JobsType'
    BY TypeParts, TypeFrame DEF Calculate
<1>7. StateType'
    BY TypeParts, TypeFrame DEF Calculate
<1>8. GhostType'
    BY TypeParts, TypeFrame DEF Calculate, ghosts
<1> QED BY <1>1, <1>2, <1>3, <1>4, <1>5, <1>6, <1>7, <1>8, TypePartsNext

LEMMA TransferType ==
    ASSUME OneHart, TypeOK, Core, Transfer
    PROVE  TypeOK'
<1>1. DmacTypeOK'
    BY TypeParts, FinishFacts DEF Transfer, DmacTypeOK, ChannelStates, Contexts
<1>2. PlaceType'
    BY TypeParts, TypeFrame DEF Transfer
<1>3. HardwareType'
  <2>1. mem \in Seq(Layers) /\ outp \in Layers \cup {None} /\ ctx["ch"] \in Contexts
      BY TypeParts, ChannelType DEF HardwareType
  <2>2. outp # None => Append(mem, outp) \in Seq(Layers)
      BY <2>1
  <2>3. ctx["ch"].src # None => <<<<ctx["ch"].src.id, 0>>>> \in Seq(Layers)
    <3> SUFFICES ASSUME NEW x, x = ctx["ch"].src.id, ctx["ch"].src # None PROVE <<<<x, 0>>>> \in Seq(Layers)
        OBVIOUS
    <3>1. x \in Ids
        BY <2>1 DEF Contexts, Buffers
    <3>2. <<x, 0>> \in Layers
        BY <3>1, LayerType
    <3> QED BY <3>2
  <2> QED BY <2>2, <2>3, TypeParts DEF Transfer, HardwareType
<1>4. SoftwareType'
    BY TypeParts, TypeFrame DEF Transfer, software
<1>5. NextType'
    BY TypeParts, TypeFrame DEF Transfer, software
<1>6. JobsType'
    BY TypeParts, TypeFrame DEF Transfer
<1>7. StateType'
    BY TypeParts, TypeFrame DEF Transfer
<1>8. GhostType'
    BY TypeParts, TypeFrame DEF Transfer, ghosts
<1> QED BY <1>1, <1>2, <1>3, <1>4, <1>5, <1>6, <1>7, <1>8, TypePartsNext

LEMMA LatchType ==
    ASSUME OneHart, TypeOK, Core, Latch
    PROVE  TypeOK'
<1>1. DmacTypeOK'
    BY TypeParts, TypeFrame DEF Latch
<1>2. PlaceType'
    BY TypeParts, TypeFrame DEF Latch
<1>3. HardwareType'
    BY TypeParts DEF Latch, HardwareType
<1>4. SoftwareType'
    BY TypeParts, TypeFrame DEF Latch, software
<1>5. NextType'
    BY TypeParts, TypeFrame DEF Latch, software
<1>6. JobsType'
    BY TypeParts, TypeFrame DEF Latch
<1>7. StateType'
    BY TypeParts, TypeFrame DEF Latch
<1>8. GhostType'
    BY TypeParts, TypeFrame DEF Latch, ghosts
<1> QED BY <1>1, <1>2, <1>3, <1>4, <1>5, <1>6, <1>7, <1>8, TypePartsNext

-----------------------------------------------------------------------------
(***************************************************************************)
(* The invariant: the interrupts.                                          *)
(***************************************************************************)
LEMMA EntryStep ==
    ASSUME OneHart, TypeOK, Core, NEW h \in Harts, Entry(h)
    PROVE  Core'
<1> SUFFICES ASSUME NEW i \in Ids, dcb.id = i PROVE Core'
    BY EntryFacts
<1> PICK n \in Nat : n = next[i]
    BY JobFacts
<1> PICK z \in Nat : z = Size(i)
    BY JobFacts
<1>1. /\ pc[Dm] = "entry" /\ MayRun(Dm) /\ pc[Ai] = "idle"
      /\ pc[Th] \in {"idle", "cas", "count", "unmask"}
      /\ chan["ch"].int /\ Calm /\ Running = {i} /\ state[i] = "running"
      /\ Empty /\ ~chan["ch"].run /\ chan["ch"].inten
      /\ \/ Waits(i) /\ pc[Th] \in {"idle", "cas"}
         \/ /\ pc[Th] \in {"count", "unmask"} /\ arg[Th] = i /\ job[i].api = "start"
            /\ mask = {} /\ Served(i)
            /\ pc[Th] = "count" => n = 0 /\ BurstFor(i) = z
            /\ pc[Th] = "unmask" => n = z
            /\ Streaming(i, z)
            /\ dcb.fn = "done"
    BY EntryFacts, EntryState
<1>2. /\ ClearInterrupt({"ch"}) /\ Settle({"ch"})
      /\ pc' = [pc EXCEPT ![Dm] = dcb.fn] /\ arg' = [arg EXCEPT ![Dm] = i]
      /\ UNCHANGED <<hardware, software, off, job, state, ghosts>>
  <2>1. h = Hart1
      BY AgentFacts
  <2> QED BY <2>1 DEF Entry, Dm
<1>3. /\ pc'[Dm] = dcb.fn /\ arg'[Dm] = i
      /\ \A b \in Agents : b # Dm => pc'[b] = pc[b] /\ arg'[b] = arg[b]
    BY <1>2, AgentFacts DEF TypeOK
<1>4. NoChannel'
  <2>1. bufs \subseteq {Src, Dest}
      BY <1>1 DEF Waits, Loading, InLayer, NoChannel, Streaming, Input, Output
  <2>2. Src' = None /\ Dest' = None /\ bufs' = bufs \ {Src, Dest}
      BY <1>2, SettleFacts DEF TypeOK
  <2>3. ~chan'["ch"].run /\ ~chan'["ch"].int
      BY <1>1, <1>2, ClearFacts DEF TypeOK
  <2> QED BY <2>1, <2>2, <2>3 DEF NoChannel
<1>5. /\ Empty' /\ Calm' /\ (Flow(i, 0)' <=> Flow(i, 0)) /\ (Flow(i, n)' <=> Flow(i, n))
      /\ (Flow(i, z)' <=> Flow(i, z))
      /\ (Served(i)' <=> Served(i)) /\ (Prepared(i)' <=> Prepared(i))
      /\ cur' = cur /\ next'[i] = n /\ Size(i)' = z /\ job' = job /\ state' = state
      /\ mask' = mask /\ pend' = pend
    BY <1>1, <1>2, Frames DEF hardware, software, Size
<1>6. /\ dcb.fn \in {"ready", "step", "done"}
      /\ dcb.fn = "ready" =>
           job[i].api # "kmodel" /\ n = 0 /\ Flow(i, 0) /\ Prepared(i)
      /\ dcb.fn = "step" =>
           job[i].api = "kmodel" /\ n < z /\ Flow(i, n) /\ Served(i)
      /\ dcb.fn = "done" =>
           IF job[i].api = "kmodel" THEN n = z /\ Flow(i, n) /\ Served(i)
                                    ELSE Flow(i, z) /\ (job[i].api = "run" => cur = i)
  <2>1. CASE Waits(i)
    <3>1. CASE Loading(i) /\ dcb.fn = IF job[i].api = "kmodel" THEN "step" ELSE "ready"
      <4>1. n = 0 /\ z # 0 /\ Flow(i, 0) /\ Prepared(i)
          BY <1>1, <3>1, JobFacts DEF Loading
      <4>2. 0 < z
          BY <4>1
      <4> QED BY <3>1, <4>1, <4>2 DEF Prepared
    <3>2. CASE job[i].api # "kmodel" /\ Streaming(i, n) /\ n = z /\ dcb.fn = "done"
        BY <3>2 DEF Streaming, Prepared
    <3>3. CASE InLayer(i) /\ dcb.fn = IF n # z THEN "step" ELSE "done"
      <4>1. n <= z /\ job[i].api = "kmodel" /\ Flow(i, n) /\ Served(i)
          BY <3>3, JobFacts DEF InLayer
      <4>2. n # z => n < z
          BY <4>1
      <4> QED BY <3>3, <4>1, <4>2
    <3> QED BY <1>1, <2>1, <3>1, <3>2, <3>3, WaitsInt
  <2>2. CASE Streaming(i, z) /\ dcb.fn = "done" /\ job[i].api = "start"
      BY <2>2 DEF Streaming
  <2> QED BY <1>1, <2>1, <2>2
<1>7. Callers' /\ Running' = Running
  <2>1. \A b \in Agents : \/ pc'[b] = pc[b] /\ arg'[b] = arg[b]
                          \/ pc[b] \notin {"cas", "call"} /\ pc'[b] \notin {"cas", "call", "callback"}
      BY <1>1, <1>3, <1>6
  <2>2. \A k \in Ids : state[k] = "new" => next'[k] = 0
      BY <1>2 DEF Core, Callers, software
  <2> QED BY <1>2, <2>1, <2>2, CallersFrame, AgentFacts DEF Core, software, ghosts
<1>8. Nesting'
  <2>1. Hart1 \in off' => /\ pc'[Ai] \notin {"feed", "push", "count"}
                          /\ \E b \in Agents : pc'[b] \notin {"idle", "entry", "leave"}
      BY <1>1, <1>3, <1>6, AgentFacts
  <2>2. pc'[Ai] = "idle" /\ pc'[Th] = pc[Th]
      BY <1>1, <1>3, AgentFacts
  <2>3. pc'[Th] \in {"count", "unmask"} => pc'[Dm] = "done"
      BY <1>1, <1>3, <2>2
  <2> QED BY <1>1, <1>3, <1>6, <2>1, <2>2, <2>3 DEF Nesting
<1>9. AtPlace(Dm)'
  <2>1. Begins(Dm)' /\ Feeds(Dm)'
      BY <1>3, <1>6 DEF Begins, Starts, Feeds
  <2>2. Opens(Dm)'
      BY <1>1, <1>3, <1>4, <1>5, <1>6, AgentFacts DEF Opens, Armed, Api
  <2>3. Layered(Dm)'
    <3>1. ~pend'
        BY <1>5 DEF Calm
    <3> QED BY <1>1, <1>3, <1>4, <1>5, <1>6, <3>1 DEF Layered, Api
  <2>4. Ends(Dm)'
      BY <1>1, <1>3, <1>4, <1>5, <1>6 DEF Ends, Api
  <2> QED BY <2>1, <2>2, <2>3, <2>4 DEF AtPlace
<1>10. AtPlace(Th)'
  <2>1. CASE pc[Th] \in {"idle", "cas"}
      BY <1>3, <2>1, AgentFacts, QuietPlaceNext DEF Quiet
  <2>2. CASE pc[Th] \in {"count", "unmask"}
    <3>1. pc'[Th] = pc[Th] /\ arg'[Th] = i /\ job[i].api = "start"
        BY <1>1, <1>3, <2>2, AgentFacts
    <3>2. Late(Th, i)'
        BY <1>1, <1>3, <1>5, <2>2, <3>1 DEF Late, Api
    <3>3. BurstFor(i)' = BurstFor(i)
        BY <1>2 DEF BurstFor, Remain, Size, software
    <3>4. ~pend
        BY <1>1 DEF Calm
    <3>5. Feeds(Th)'
        BY <1>1, <1>5, <2>2, <3>1, <3>2, <3>3, <3>4, AgentFacts DEF Feeds, Api
    <3>6. Begins(Th)' /\ Opens(Th)' /\ Layered(Th)' /\ Ends(Th)'
        BY <1>5, <2>2, <3>1 DEF Begins, Starts, Opens, Armed, Layered, Ends, Api
    <3> QED BY <3>5, <3>6 DEF AtPlace
  <2> QED BY <1>1, <2>1, <2>2
<1>11. \A b \in Agents : AtPlace(b)'
  <2>1. AtPlace(Ai)'
      BY <1>1, <1>3, AgentFacts, QuietPlaceNext DEF Quiet
  <2> QED BY <1>9, <1>10, <2>1, AgentFacts
<1>12. Waiting'
    BY <1>1, <1>3, <1>6, <1>7, AgentFacts DEF Waiting, Works, Quiet
<1>13. Entered' /\ Rest'
    BY <1>1, <1>3, <1>6, <1>7 DEF Entered, Rest
<1> QED BY <1>7, <1>8, <1>11, <1>12, <1>13 DEF Core

LEMMA AiInterruptStep ==
    ASSUME OneHart, TypeOK, Core, NEW h \in Harts, AiInterrupt(h)
    PROVE  Core'
<1> PICK i \in Ids : i = handler[Hart1]
  <2>1. handler[Hart1] \in Ids \cup {None}
      BY AgentFacts DEF TypeOK
  <2> QED BY <2>1, AiInterruptFacts DEF AfterLast
<1> PICK n \in Nat : n = next[i]
    BY JobFacts
<1>1. /\ pend /\ pc[Ai] = "idle" /\ Hart1 \in aion /\ Hart1 \notin off
      /\ pc[Th] \in {"idle", "cas"} /\ pc[Dm] \in {"idle", "leave"}
      /\ \/ Running = {} /\ AfterLast
         \/ /\ Running = {i} /\ state[i] = "running"
            /\ \/ job[i].api # "kmodel" /\ Streaming(i, n)
               \/ InLayer(i) /\ Kind(i, n) = "conv" /\ Empty /\ n < Size(i)
    BY AiInterruptFacts
<1>2. /\ pend' = FALSE
      /\ pc' = [pc EXCEPT ![Ai] = IF job[i].api = "kmodel" THEN "step" ELSE "feed"]
      /\ arg' = [arg EXCEPT ![Ai] = i]
      /\ UNCHANGED <<dmac, flags, mask, fifo, engine, outp, mem, software, off, job, state, ghosts>>
  <2>1. h = Hart1
      BY AgentFacts
  <2> QED BY <2>1 DEF AiInterrupt, Ai
<1>3. /\ pc'[Ai] = (IF job[i].api = "kmodel" THEN "step" ELSE "feed") /\ arg'[Ai] = i
      /\ \A b \in Agents : b # Ai => pc'[b] = pc[b] /\ arg'[b] = arg[b]
    BY <1>2, AgentFacts DEF TypeOK
<1>4. Callers' /\ Running' = Running
  <2>1. \A b \in Agents : \/ pc'[b] = pc[b] /\ arg'[b] = arg[b]
                          \/ pc[b] \notin {"cas", "call"} /\ pc'[b] \notin {"cas", "call", "callback"}
      BY <1>1, <1>3
  <2>2. \A k \in Ids : state[k] = "new" => next'[k] = 0
      BY <1>2 DEF Core, Callers, software
  <2> QED BY <1>2, <2>1, <2>2, CallersFrame, AgentFacts DEF Core, software, ghosts
<1>5. pc'[Th] = pc[Th] /\ pc'[Dm] = pc[Dm] /\ pc'[Ai] \in {"step", "feed"}
    BY <1>3, AgentFacts
<1>6. Nesting'
    BY <1>1, <1>2, <1>5 DEF Nesting
<1>7. /\ (Empty' <=> Empty) /\ (NoChannel' <=> NoChannel) /\ (Flow(i, n)' <=> Flow(i, n))
      /\ (Served(i)' <=> Served(i)) /\ (Prepared(i)' <=> Prepared(i)) /\ (Output(i)' <=> Output(i))
      /\ next' = next /\ Size(i)' = Size(i) /\ job' = job /\ state' = state
    BY <1>2, Frames DEF dmac, software, Size
<1>8. AtPlace(Ai)' /\ (Running = {} => AfterLast')
  <2>1. CASE Running = {} /\ AfterLast
    <3>1. /\ Served(i) /\ state[i] = "done" /\ job[i].api = "start" /\ next[i] = Size(i)
          /\ pc[Th] = "idle" /\ pc[Dm] = "idle"
        BY <2>1 DEF AfterLast, Served
    <3>2. pc'[Ai] = "feed"
        BY <1>3, <3>1
    <3>3. Feeds(Ai)'
        BY <1>3, <1>4, <1>7, <2>1, <3>1, <3>2 DEF Feeds, Api
    <3>4. Begins(Ai)' /\ Opens(Ai)' /\ Layered(Ai)' /\ Ends(Ai)'
        BY <1>3, <1>7, <3>1, <3>2 DEF Begins, Starts, Opens, Armed, Layered, Ends, Api
    <3>5. AfterLast'
        BY <1>2, <1>5, <1>7, <2>1, <3>1, <3>2 DEF AfterLast, software, Size
    <3> QED BY <3>3, <3>4, <3>5 DEF AtPlace
  <2>2. CASE Running = {i} /\ job[i].api # "kmodel" /\ Streaming(i, n)
    <3>1. Streaming(i, n)'
        BY <1>2, <1>7, <2>2 DEF Streaming, dmac
    <3>2. pc'[Ai] = "feed" /\ Served(i)'
        BY <1>3, <1>7, <2>2 DEF Streaming
    <3>3. Feeds(Ai)'
        BY <1>3, <1>7, <3>1, <3>2 DEF Feeds, Api
    <3>4. Begins(Ai)' /\ Opens(Ai)' /\ Layered(Ai)' /\ Ends(Ai)'
        BY <1>3, <1>7, <2>2, <3>2, AgentFacts DEF Begins, Starts, Opens, Armed, Layered, Ends, Api
    <3> QED BY <2>2, <3>3, <3>4 DEF AtPlace
  <2>3. CASE Running = {i} /\ state[i] = "running" /\ InLayer(i) /\ Kind(i, n) = "conv" /\ Empty /\ n < Size(i)
    <3>1. job[i].api = "kmodel" /\ Flow(i, n) /\ Served(i) /\ NoChannel
        BY <2>3 DEF InLayer
    <3>2. pc'[Ai] = "step"
        BY <1>3, <3>1
    <3>3. Layered(Ai)'
        BY <1>2, <1>3, <1>7, <2>3, <3>1, <3>2 DEF Layered, Api
    <3>4. Begins(Ai)' /\ Opens(Ai)' /\ Feeds(Ai)' /\ Ends(Ai)'
        BY <1>3, <3>2 DEF Begins, Starts, Opens, Armed, Feeds, Ends, Api
    <3> QED BY <2>3, <3>3, <3>4 DEF AtPlace
  <2> QED BY <1>1, <2>1, <2>2, <2>3
<1>9. \A b \in Agents : AtPlace(b)'
  <2>1. AtPlace(Th)' /\ AtPlace(Dm)'
      BY <1>1, <1>5, AgentFacts, QuietPlaceNext DEF Quiet
  <2> QED BY <1>8, <2>1, AgentFacts
<1>10. Waiting'
    BY <1>1, <1>3, <1>4, <1>5, AgentFacts DEF Waiting, Works, Quiet
<1>11. Entered' /\ Rest'
  <2>1. pc'[Dm] # "entry"
      BY <1>1, <1>5
  <2> QED BY <1>4, <1>7, <1>8, <2>1 DEF Entered, Rest, Core
<1> QED BY <1>4, <1>6, <1>9, <1>10, <1>11 DEF Core

\* Who works for a job holds the channel at rest or running, up to the first push.
LEMMA WorkersChannel ==
    ASSUME OneHart, TypeOK, NEW a \in Agents, AtPlace(a), Works(a), a # Ai, chan["ch"].int
    PROVE  pc[a] \in {"count", "unmask"}
<1> SUFFICES ASSUME NEW i \in Ids, arg[a] = i PROVE pc[a] \in {"count", "unmask"}
    BY TaskType
<1>1. job[i].api \in {"run", "start", "kmodel"} /\ pc[a] \in Places
    BY JobFacts, TypeParts DEF Apis, PlaceType
<1>2. ~Starts(a)
    BY DEF AtPlace, Begins, NoChannel
<1>3. ~Armed(a)
    BY DEF AtPlace, Opens, Output, InUse
<1>4. pc[a] \notin {"ready", "outreg", "outdma", "step", "conv", "send", "done", "call"}
    BY DEF AtPlace, Opens, Layered, Ends, NoChannel, Output, InUse, Api
<1>5. pc[a] \notin {"mask", "feed", "push"}
    BY <1>1, <1>3 DEF AtPlace, Opens, Armed, Api
<1> QED BY <1>1, <1>2, <1>3, <1>4, <1>5 DEF Starts, Armed, Works, Quiet, Places

LEMMA DmaInterruptStep ==
    ASSUME OneHart, TypeOK, Core, NEW h \in Harts, DmaInterrupt(h)
    PROVE  Core'
<1>1. /\ chan["ch"].int /\ Hart1 \notin off /\ pc[Dm] = "idle" /\ pc[Ai] = "idle"
      /\ Hart1 \in aion => ~pend /\ ~Line
      /\ pc' = [pc EXCEPT ![Dm] = "entry"]
      /\ UNCHANGED <<dmac, hardware, software, arg, off, job, state, ghosts>>
  <2>1. h = Hart1
      BY AgentFacts
  <2> QED BY <2>1, AgentFacts DEF DmaInterrupt, Interrupts, Busy, Dm, Ai
<1>2. pc'[Dm] = "entry" /\ \A b \in Agents : b # Dm => pc'[b] = pc[b]
    BY <1>1, AgentFacts DEF TypeOK
<1>3. PICK i \in Ids : state[i] = "running" /\ Running = {i}
  <2>1. Running # {}
      BY <1>1 DEF Core, Rest, NoChannel
  <2> QED BY <2>1, TheRunning DEF Running, Core
<1>4. pc[Th] \in {"idle", "cas", "count", "unmask"}
  <2>1. Works(Th) => pc[Th] \in {"count", "unmask"}
      BY <1>1, WorkersChannel, AgentFacts DEF Core
  <2> QED BY <2>1 DEF Works, Quiet, Core, Nesting
<1>5. Hart1 \in aion => Calm
    BY <1>1, AgentFacts DEF Calm, Line, Busy, Ai
<1>6. Callers' /\ Running' = Running
  <2>1. \A b \in Agents : \/ pc'[b] = pc[b] /\ arg'[b] = arg[b]
                          \/ pc[b] \notin {"cas", "call"} /\ pc'[b] \notin {"cas", "call", "callback"}
      BY <1>1, <1>2
  <2>2. \A k \in Ids : state[k] = "new" => next'[k] = 0
      BY <1>1 DEF Core, Callers, software
  <2> QED BY <1>1, <2>1, <2>2, CallersFrame, AgentFacts DEF Core, software, ghosts
<1>7. Nesting'
    BY <1>1, <1>2, <1>4, AgentFacts DEF Nesting
<1>8. (Calm' <=> Calm) /\ dcb' = dcb /\ chan' = chan
    BY <1>1, Frames DEF hardware, software, dmac
<1>9. Waiting'
  <2>1. \A k \in Running : Waits(k) => Waits(k)'
      BY <1>1, WaitsFrame DEF Running
  <2>2. \A b \in Agents : Works(b)' <=> Works(b)
      BY <1>1, <1>2 DEF Works, Quiet
  <2> QED BY <1>1, <1>6, <2>1, <2>2 DEF Core, Waiting
<1>10. AtPlace(Th)' /\ Calm /\ dcb.id = i
  <2>1. CASE pc[Th] \in {"idle", "cas"}
    <3>1. AtPlace(Th)'
        BY <1>2, <2>1, AgentFacts, QuietPlaceNext DEF Quiet
    <3>2. \A a \in Agents : ~Works(a)
        BY <1>1, <2>1, AgentFacts DEF Works, Quiet
    <3>3. Waits(i)
        BY <1>3, <3>2 DEF Core, Waiting
    <3>4. Calm
        BY <1>5, <3>3 DEF Waits, Loading, Streaming, InLayer, Served
    <3> QED BY <1>1, <3>1, <3>3, <3>4, WaitsInt
  <2>2. CASE pc[Th] \in {"count", "unmask"}
    <3> SUFFICES ASSUME NEW j \in Ids, arg[Th] = j PROVE AtPlace(Th)' /\ Calm /\ dcb.id = i
        BY TaskType, AgentFacts
    <3>1. job[j].api = "start"
      <4>1. job[j].api # "kmodel" /\ job[j].api # "run" /\ job[j].api \in Apis
          BY <2>2, AgentFacts, JobFacts DEF Core, AtPlace, Opens, Api
      <4> QED BY <4>1 DEF Apis
    <3>2. PICK n \in Nat : n = IF pc[Th] = "count" THEN BurstFor(j) ELSE next[j]
        BY BurstForFacts, JobFacts
    <3>3. /\ mask = {} /\ ~pend /\ Served(j) /\ (Streaming(j, n) \/ (Late(Th, j) /\ n = Size(j)))
          /\ pc[Th] = "count" => next[j] = 0
        BY <2>2, <3>1, <3>2, AgentFacts DEF Core, AtPlace, Feeds, Api
    <3>4. ~Late(Th, j)
        BY <1>1, <1>3 DEF Late
    <3>5. j = i
        BY <1>3, <3>3, <3>4 DEF Streaming, Running
    <3>6. dcb.id = i
        BY <1>1, <3>1, <3>3, <3>4, <3>5, StreamInt
    <3>7. Calm
        BY <1>5, <3>3 DEF Served
    <3>8. Streaming(j, n)'
        BY <1>1, <3>3, <3>4, Frames DEF Streaming, dmac, hardware, software, Size
    <3>9. mask' = {} /\ ~pend' /\ Served(j)' /\ BurstFor(j)' = BurstFor(j) /\ next' = next
        BY <1>1, <3>3, Frames DEF hardware, software, BurstFor, Remain, Size
    <3>10. pc'[Th] = pc[Th] /\ arg'[Th] = j /\ job' = job
        BY <1>1, <1>2, AgentFacts
    <3>11. Feeds(Th)'
        BY <2>2, <3>1, <3>2, <3>3, <3>8, <3>9, <3>10, AgentFacts DEF Feeds, Api
    <3>12. Begins(Th)' /\ Opens(Th)' /\ Layered(Th)' /\ Ends(Th)'
        BY <2>2, <3>1, <3>10 DEF Begins, Starts, Opens, Armed, Layered, Ends, Api
    <3> QED BY <3>6, <3>7, <3>11, <3>12 DEF AtPlace
  <2> QED BY <1>4, <2>1, <2>2
<1>11. \A b \in Agents : AtPlace(b)'
  <2>1. AtPlace(Dm)' /\ AtPlace(Ai)'
      BY <1>1, <1>2, AgentFacts, QuietPlaceNext DEF Quiet
  <2> QED BY <1>10, <2>1, AgentFacts
<1>12. Entered' /\ Rest'
    BY <1>1, <1>3, <1>6, <1>8, <1>10 DEF Entered, Rest
<1> QED BY <1>6, <1>7, <1>9, <1>11, <1>12 DEF Core

-----------------------------------------------------------------------------
(***************************************************************************)
(* The invariant: the accelerator and the DMA.                             *)
(***************************************************************************)
\* the invariant on the harts, in a step of the devices
LEMMA DeviceFrame ==
    ASSUME OneHart, Core, UNCHANGED <<software, pc, arg, off, job, state, ghosts>>
    PROVE  /\ Callers' /\ Nesting' /\ Running' = Running
           /\ \A a \in Agents : Works(a)' <=> Works(a)
<1>1. Callers' /\ Running' = Running
  <2>1. \A k \in Ids : state[k] = "new" => next'[k] = 0
      BY DEF Core, Callers, software
  <2> QED BY <2>1, CallersFrame, AgentFacts DEF Core, software, ghosts
<1> QED BY <1>1 DEF Core, Nesting, Works

\* With a layer on its way, who works has handed out some of them.
Handed(a) == LET i == arg[a] IN IF pc[a] = "count" THEN next[i] + BurstFor(i) ELSE next[i]

LEMMA HandedType ==
    ASSUME TypeOK, NEW a \in Agents
    PROVE  Handed(a) \in Nat /\ arg[a] \in Ids
<1>1. arg[a] \in Ids
    BY TaskType
<1> QED BY <1>1, BurstForFacts, JobFacts DEF Handed

LEMMA FullNotEntry ==
    ASSUME OneHart, TypeOK, Core, ~Empty
    PROVE  pc[Dm] # "entry"
BY EntryState

LEMMA StreamingWorker ==
    ASSUME OneHart, TypeOK, Core, ~Empty, NEW a \in Agents, Works(a), NEW i \in Ids, arg[a] = i
    PROVE  /\ pc[a] \in {"unmask", "feed", "push", "count"} /\ Streaming(i, Handed(a))
           /\ job[i].api # "kmodel" /\ ~Armed(a)
<1>1. job[i].api \in {"run", "start", "kmodel"} /\ pc[a] \in Places /\ AtPlace(a)
    BY JobFacts, TypeParts DEF Apis, PlaceType, Core
<1>2. ~Starts(a) /\ ~Armed(a)
    BY <1>1 DEF AtPlace, Begins, Opens
<1>3. pc[a] \notin {"ready", "outreg", "outdma", "step", "conv", "send", "done", "call"}
    BY <1>1 DEF AtPlace, Opens, Layered, Ends, Api
<1>4. pc[a] # "mask"
    BY <1>1, <1>2 DEF AtPlace, Opens, Armed, Api
<1>5. pc[a] \in {"unmask", "feed", "push", "count"}
    BY <1>1, <1>2, <1>3, <1>4 DEF Starts, Armed, Works, Quiet, Places
<1>6. job[i].api # "kmodel"
    BY <1>1, <1>5 DEF AtPlace, Opens, Api
<1>7. Running # {}
    BY DEF Core, Rest
<1>8. ~Late(a, i)
  <2>1. pc[Dm] \in {"done", "call"} => Empty
      BY AgentFacts DEF Core, AtPlace, Ends, Layered
  <2> QED BY <1>7, <2>1 DEF Late
<1>9. next[i] \in Nat /\ BurstFor(i) \in Nat
    BY BurstForFacts, JobFacts
<1>10. Streaming(i, Handed(a))
  <2>1. CASE pc[a] = "count" /\ a # Ai
    <3>1. next[i] = 0 /\ Streaming(i, BurstFor(i))
        BY <1>1, <1>8, <2>1 DEF AtPlace, Feeds
    <3>2. Handed(a) = BurstFor(i)
        BY <1>9, <2>1, <3>1 DEF Handed
    <3> QED BY <3>1, <3>2
  <2>2. CASE pc[a] = "unmask"
    <3>1. job[i].api = "start"
        BY <1>1, <1>2, <1>6, <2>2 DEF Armed, Api
    <3>2. Streaming(i, next[i])
        BY <1>1, <1>8, <2>2, <3>1 DEF AtPlace, Feeds, Api
    <3> QED BY <2>2, <3>2 DEF Handed
  <2>3. CASE pc[a] \in {"feed", "push", "count"} /\ a = Ai
      BY <1>1, <1>7, <2>3 DEF AtPlace, Feeds, Handed
  <2> QED BY <1>2, <1>5, <2>1, <2>2, <2>3 DEF Armed
<1> QED BY <1>2, <1>5, <1>6, <1>10

\* and in a step of the devices its place stays as good as the layers are.
LEMMA StreamingPlace ==
    ASSUME OneHart, TypeOK, Core, ~Empty, NEW a \in Agents,
           UNCHANGED <<mask, pend, software, pc, arg, off, job, state, ghosts>>,
           \A i \in Ids, n \in Nat : job[i].api # "kmodel" /\ Streaming(i, n) => Streaming(i, n)'
    PROVE  AtPlace(a)'
<1>1. CASE ~Works(a)
    BY <1>1, QuietPlaceNext DEF Works
<1>2. CASE Works(a)
  <2> SUFFICES ASSUME NEW i \in Ids, arg[a] = i PROVE AtPlace(a)'
      BY TaskType
  <2> PICK n \in Nat : n = Handed(a)
      BY HandedType
  <2>1. /\ pc[a] \in {"unmask", "feed", "push", "count"} /\ Streaming(i, n)
        /\ job[i].api # "kmodel" /\ ~Armed(a)
      BY <1>2, StreamingWorker
  <2>2. Streaming(i, n)'
      BY <2>1
  <2>3. /\ pc'[a] = pc[a] /\ arg'[a] = i /\ job' = job /\ next' = next /\ mask' = mask /\ pend' = pend
        /\ BurstFor(i)' = BurstFor(i) /\ Size(i)' = Size(i) /\ (Served(i)' <=> Served(i))
      BY Frames DEF software, BurstFor, Remain, Size
  <2>4. AtPlace(a) /\ next[i] \in Nat /\ BurstFor(i) \in Nat
      BY BurstForFacts, JobFacts DEF Core
  <2>5. next[i] = 0 => next[i] + BurstFor(i) = BurstFor(i)
      BY <2>4
  <2>6. Feeds(a)'
      BY <2>1, <2>2, <2>3, <2>4, <2>5 DEF AtPlace, Feeds, Handed, Api
  <2>7. Opens(a)'
    <3>1. ~Armed(a)'
        BY <2>1, <2>3 DEF Armed, Api
    <3> QED BY <2>1, <2>3, <2>4, <3>1 DEF AtPlace, Opens, Api
  <2>8. Begins(a)' /\ Layered(a)' /\ Ends(a)'
      BY <2>1, <2>3 DEF Begins, Starts, Layered, Ends
  <2> QED BY <2>6, <2>7, <2>8 DEF AtPlace
<1> QED BY <1>1, <1>2

\* A step of the devices with a layer on its way keeps the invariant if it
\* keeps what it says of the layers.
LEMMA FullStep ==
    ASSUME OneHart, TypeOK, Core, ~Empty,
           UNCHANGED <<mask, pend, software, pc, arg, off, job, state, ghosts>>,
           \A i \in Ids, n \in Nat : job[i].api # "kmodel" /\ Streaming(i, n) => Streaming(i, n)',
           \A i \in Ids : InLayer(i) => InLayer(i)'
    PROVE  Core'
<1>1. /\ Callers' /\ Nesting' /\ Running' = Running
      /\ \A a \in Agents : Works(a)' <=> Works(a)
    BY DeviceFrame
<1>2. \A a \in Agents : AtPlace(a)'
    BY StreamingPlace
<1>3. Waiting'
  <2> SUFFICES ASSUME NEW i \in Running', \A a \in Agents : Works(a)' => arg'[a] # i
               PROVE  Waits(i)'
      BY DEF Waiting
  <2>1. i \in Running /\ i \in Ids
      BY <1>1 DEF Running
  <2>2. Waits(i)
      BY <1>1, <2>1 DEF Core, Waiting
  <2> PICK n \in Nat : n = next[i]
      BY <2>1, JobFacts
  <2>3. next'[i] = n /\ job' = job
      BY DEF software
  <2>4. (job[i].api # "kmodel" /\ Streaming(i, n)) \/ InLayer(i)
      BY <2>2 DEF Waits, Loading
  <2>5. (job[i].api # "kmodel" /\ Streaming(i, n)') \/ InLayer(i)'
      BY <2>1, <2>4
  <2> QED BY <2>3, <2>5 DEF Waits
<1>4. Entered'
    BY FullNotEntry DEF Entered
<1>5. Rest'
    BY <1>1 DEF Core, Rest
<1> QED BY <1>1, <1>2, <1>3, <1>4, <1>5 DEF Core

LEMMA HardwareFacts ==
    ASSUME TypeOK
    PROVE  /\ mem \in Seq(Layers) /\ outp \in Layers \cup {None} /\ engine \in Layers \cup {None}
           /\ fifo \in Seq(Layers) /\ None \notin Layers
BY ChannelAssumption DEF TypeOK

LEMMA PopStep ==
    ASSUME OneHart, TypeOK, Core, Pop
    PROVE  Core'
<1>1. /\ engine = None /\ fifo # <<>> /\ engine' = Head(fifo) /\ fifo' = Tail(fifo)
      /\ flags' = flags \/ flags' = flags \cup {"empty"}
      /\ UNCHANGED <<dmac, mask, pend, outp, mem, software, pc, arg, off, job, state, ghosts>>
    BY DEF Pop
<1>2. ~Empty
    BY <1>1 DEF Empty
<1>3. ASSUME NEW i \in Ids, NEW n \in Nat, Flow(i, n)
      PROVE  Flow(i, n)' /\ outp = None
  <2>1. InOrder(i, n, mem, outp, None, fifo)
      BY <1>1, <1>3 DEF Flow
  <2>2. outp = None
      BY <1>1, <2>1, HardwareFacts, InOrderBounds
  <2>3. InOrder(i, n, mem, outp, Head(fifo), Tail(fifo))
      BY <1>1, <2>1, HardwareFacts, InOrderPop
  <2> QED BY <1>1, <2>2, <2>3 DEF Flow
<1>4. ASSUME NEW i \in Ids, NEW n \in Nat, Streaming(i, n)
      PROVE  Streaming(i, n)'
  <2>1. Flow(i, n)' /\ outp = None
      BY <1>3, <1>4 DEF Streaming
  <2>2. Output(i)' /\ Prepared(i)' /\ Served(i)'
      BY <1>1, <1>4, Frames DEF Streaming, dmac, software
  <2> QED BY <1>1, <1>4, <2>1, <2>2 DEF Streaming, dmac, Size
<1>5. ASSUME NEW i \in Ids, InLayer(i)
      PROVE  InLayer(i)'
  <2> PICK n \in Nat : n = next[i]
      BY JobFacts
  <2>1. /\ job[i].api = "kmodel" /\ n # 0 /\ Flow(i, n) /\ Served(i) /\ n <= Len(mem) /\ Kind(i, n) # "cpu"
        /\ IF Kind(i, n) = "out"
             THEN Output(i) /\ mask = {} /\ ~pend /\ ~chan["ch"].int
             ELSE NoChannel /\ mask = {"calc"} /\ "calc" \notin flags /\ ~pend
      BY <1>2, <1>5 DEF InLayer
  <2>2. next'[i] = n /\ Kind(i, n)' = Kind(i, n) /\ job' = job /\ chan' = chan
      BY <1>1 DEF software, dmac, Kind
  <2>3. Flow(i, n)' /\ outp' = None
      BY <1>1, <1>3, <2>1
  <2>4. (Output(i)' <=> Output(i)) /\ (NoChannel' <=> NoChannel) /\ Served(i)'
      BY <1>1, <2>1, Frames DEF dmac, software
  <2>5. ~Empty'
    <3>1. Head(fifo) # None
        BY <1>1, HardwareFacts
    <3> QED BY <1>1, <3>1 DEF Empty
  <2>6. "calc" \notin flags => "calc" \notin flags'
      BY <1>1
  <2> QED BY <1>1, <2>1, <2>2, <2>3, <2>4, <2>5, <2>6 DEF InLayer
<1> QED BY <1>1, <1>2, <1>4, <1>5, FullStep

LEMMA CalculateStep ==
    ASSUME OneHart, TypeOK, Core, Calculate
    PROVE  Core'
<1> PICK i \in Ids, k \in Nat : engine = <<i, k>>
  <2>1. engine \in Layers
      BY HardwareFacts DEF Calculate
  <2> QED BY <2>1 DEF Layers
<1>1. /\ engine # None /\ outp = None /\ engine' = None
      /\ IF Kind(i, k) = "out" THEN outp' = engine /\ mem' = mem
                               ELSE mem' = Append(mem, engine) /\ outp' = None
      /\ job[i].api = "kmodel" /\ Kind(i, k) # "out" => "calc" \in flags'
      /\ UNCHANGED <<dmac, mask, pend, fifo, software, pc, arg, off, job, state, ghosts>>
    BY DEF Calculate
<1>2. ~Empty
    BY <1>1 DEF Empty
<1>3. ASSUME NEW l \in Ids, NEW n \in Nat, Flow(l, n)
      PROVE  /\ l = i /\ k = Len(mem) /\ k # 0 /\ k <= n
             /\ k = n => fifo = <<>>
             /\ Kind(i, k) = "out" /\ k = n => Flow(l, n)'
             /\ Kind(i, k) # "out" => Flow(l, n)' /\ Len(mem') = k + 1
  <2>1. InOrder(l, n, mem, outp, engine, fifo)
      BY <1>3 DEF Flow
  <2>2. engine = <<l, Len(mem)>> /\ Len(mem) + Len(fifo) = n /\ Len(mem) # 0
    <3>1. /\ mem \in Seq(Layers) /\ outp \in Layers \cup {None} /\ engine \in Layers \cup {None}
          /\ fifo \in Seq(Layers)
        BY HardwareFacts
    <3>2. /\ Len(mem) # 0
          /\ engine # None => engine = <<l, Len(mem)>> /\ Len(mem) + Len(fifo) = n
        BY <2>1, <3>1, InOrderBounds
    <3> QED BY <1>1, <3>2
  <2>3. l = i /\ k = Len(mem)
      BY <2>2
  <2>4. Len(mem) \in Nat /\ Len(fifo) \in Nat /\ (Len(fifo) = 0 => fifo = <<>>)
      BY HardwareFacts
  <2>5. k <= n /\ (k = n => fifo = <<>>)
      BY <2>2, <2>3, <2>4
  <2>6. ASSUME Kind(i, k) = "out", k = n PROVE Flow(l, n)'
    <3>1. InOrder(l, n, mem, engine, None, <<>>)
        BY <1>1, <2>1, <2>5, <2>6, HardwareFacts, InOrderOut
    <3> QED BY <1>1, <2>5, <2>6, <3>1 DEF Flow
  <2>7. ASSUME Kind(i, k) # "out" PROVE Flow(l, n)' /\ Len(mem') = k + 1
    <3>1. InOrder(l, n, Append(mem, engine), None, None, fifo)
        BY <1>1, <2>1, HardwareFacts, InOrderConv
    <3>2. Len(Append(mem, engine)) = Len(mem) + 1
        BY <1>1, HardwareFacts
    <3> QED BY <1>1, <2>3, <2>7, <3>1, <3>2 DEF Flow
  <2> QED BY <2>2, <2>3, <2>5, <2>6, <2>7
<1>4. ASSUME NEW l \in Ids, NEW n \in Nat, job[l].api # "kmodel", Streaming(l, n)
      PROVE  Streaming(l, n)'
  <2>1. l = i /\ k = Len(mem) /\ k # 0 /\ k <= n /\ n <= Size(l) /\ Size(l) \in Nat
      BY <1>3, <1>4, JobFacts DEF Streaming
  <2>2. Kind(i, k) = (IF k = Size(i) THEN "out" ELSE "conv")
    <3>1. k \in 1 .. Size(i)
        BY <2>1
    <3> QED BY <1>4, <2>1, <3>1, JobFacts
  <2>3. Kind(i, k) = "out" => k = n
      BY <2>1, <2>2
  <2>4. Flow(l, n)'
      BY <1>3, <1>4, <2>3 DEF Streaming
  <2>5. Output(l)' /\ Prepared(l)' /\ Served(l)'
      BY <1>1, <1>4, Frames DEF Streaming, dmac, software
  <2>6. ~chan["ch"].int
      BY <1>2, <1>4, StreamInt
  <2>7. outp' # None => Len(mem') = Size(l)
      BY <1>1, <2>1, <2>2
  <2> QED BY <1>1, <1>4, <2>1, <2>4, <2>5, <2>6, <2>7 DEF Streaming, dmac, Size
<1>5. ASSUME NEW l \in Ids, InLayer(l)
      PROVE  InLayer(l)'
  <2> PICK n \in Nat : n = next[l]
      BY JobFacts
  <2>1. /\ job[l].api = "kmodel" /\ n # 0 /\ Flow(l, n) /\ Served(l) /\ n <= Len(mem) /\ Kind(l, n) # "cpu"
        /\ IF Kind(l, n) = "out"
             THEN Output(l) /\ mask = {} /\ ~pend /\ ~chan["ch"].int
             ELSE NoChannel /\ mask = {"calc"} /\ "calc" \notin flags /\ ~pend
      BY <1>2, <1>5 DEF InLayer
  <2>2. l = i /\ k = n /\ k = Len(mem) /\ fifo = <<>>
    <3>1. l = i /\ k = Len(mem) /\ k <= n /\ (k = n => fifo = <<>>)
        BY <1>3, <2>1
    <3> QED BY <2>1, <3>1
  <2>3. next'[l] = n /\ Kind(l, n)' = Kind(l, n) /\ job' = job /\ chan' = chan
      BY <1>1 DEF software, dmac, Kind
  <2>4. Flow(l, n)'
      BY <1>3, <2>1, <2>2
  <2>5. (Output(l)' <=> Output(l)) /\ (NoChannel' <=> NoChannel) /\ Served(l)'
      BY <1>1, <2>1, Frames DEF dmac, software
  <2>6. CASE Kind(l, n) = "out"
      BY <1>1, <2>1, <2>2, <2>3, <2>4, <2>5, <2>6 DEF InLayer
  <2>7. CASE Kind(l, n) # "out"
    <3>1. Empty' /\ "calc" \in flags' /\ outp' = None
        BY <1>1, <2>1, <2>2, <2>7 DEF Empty
    <3>2. n <= Len(mem')
      <4>1. Len(mem') = k + 1
          BY <1>3, <2>1, <2>2, <2>7
      <4> QED BY <2>2, <4>1
    <3> QED BY <1>1, <2>1, <2>3, <2>4, <2>5, <2>7, <3>1, <3>2 DEF InLayer
  <2> QED BY <2>6, <2>7
<1> QED BY <1>1, <1>2, <1>4, <1>5, FullStep

LEMMA TransferOut ==
    ASSUME OneHart, TypeOK, Core, Transfer, Dest # None, outp # None,
           mem' = Append(mem, outp), outp' = None
    PROVE  Core'
<1>1. /\ chan["ch"].run
      /\ UNCHANGED <<ctx, bufs, copied, registered, enabled, flags, mask, pend, fifo, engine,
                     software, pc, arg, off, job, state, ghosts>>
    BY DEF Transfer
<1>2. ~Empty
    BY DEF Empty
<1>3. ~chan'["ch"].run /\ chan'["ch"].int = chan["ch"].inten /\ chan'["ch"].inten = chan["ch"].inten
    BY FinishFacts DEF Transfer, TypeOK
<1>4. ASSUME NEW i \in Ids, NEW n \in Nat, Flow(i, n)
      PROVE  Flow(i, n)' /\ engine = None /\ fifo = <<>> /\ Len(mem') = Len(mem) + 1
  <2>1. InOrder(i, n, mem, outp, engine, fifo)
      BY <1>4 DEF Flow
  <2>2. engine = None /\ fifo = <<>>
      BY <2>1 DEF InOrder
  <2>3. InOrder(i, n, Append(mem, outp), None, engine, fifo)
      BY <2>1, HardwareFacts, InOrderTransfer
  <2>4. Len(Append(mem, outp)) = Len(mem) + 1
      BY HardwareFacts
  <2> QED BY <1>1, <2>2, <2>3, <2>4 DEF Flow
<1>5. ASSUME NEW i \in Ids, Output(i)
      PROVE  Output(i)'
  <2>1. OutputSet(i)'
      BY <1>1, <1>3, <1>5 DEF Output, OutputSet, software, Size
  <2>2. chan["ch"].inten
      BY <1>5 DEF Output, OutputSet
  <2> QED BY <1>1, <1>3, <1>5, <2>1, <2>2 DEF Output, InUse, Src, Dest
<1>6. ASSUME NEW i \in Ids, NEW n \in Nat, Streaming(i, n)
      PROVE  Streaming(i, n)'
  <2>1. Flow(i, n)' /\ Len(mem') = Len(mem) + 1 /\ Len(mem) = Size(i)
      BY <1>4, <1>6 DEF Streaming
  <2>2. Output(i)' /\ Prepared(i)' /\ Served(i)'
      BY <1>1, <1>5, <1>6, Frames DEF Streaming, software
  <2> QED BY <1>1, <1>6, <2>1, <2>2 DEF Streaming, Size
<1>7. ASSUME NEW i \in Ids, InLayer(i)
      PROVE  InLayer(i)'
  <2> PICK n \in Nat : n = next[i]
      BY JobFacts
  <2>1. /\ job[i].api = "kmodel" /\ n # 0 /\ Flow(i, n) /\ Served(i) /\ n <= Len(mem) /\ Kind(i, n) # "cpu"
        /\ Kind(i, n) = "out" /\ Output(i) /\ mask = {} /\ ~pend
      BY <1>7 DEF InLayer
  <2>2. next'[i] = n /\ Kind(i, n)' = Kind(i, n) /\ job' = job
      BY <1>1 DEF software, Kind
  <2>3. Flow(i, n)' /\ engine = None /\ fifo = <<>> /\ Len(mem') = Len(mem) + 1
      BY <1>4, <2>1
  <2>4. n <= Len(mem')
    <3>1. Len(mem) \in Nat
        BY HardwareFacts
    <3> QED BY ONLY <2>1, <2>3, <3>1, n \in Nat
  <2>5. Empty'
      BY <1>1, <2>3 DEF Empty
  <2>6. Output(i)' /\ Served(i)'
      BY <1>1, <1>5, <2>1, Frames DEF software
  <2> QED BY <1>1, <2>1, <2>2, <2>3, <2>4, <2>5, <2>6 DEF InLayer
<1> QED BY <1>1, <1>2, <1>6, <1>7, FullStep

\* While the input is on its way nobody works for its job.
LEMMA InputNoWorker ==
    ASSUME OneHart, TypeOK, Core, chan["ch"].run, Src # None, NEW a \in Agents
    PROVE  ~Works(a)
<1> SUFFICES ASSUME NEW i \in Ids, arg[a] = i, Works(a) PROVE FALSE
    BY TaskType
<1>1. job[i].api \in {"run", "start", "kmodel"} /\ pc[a] \in Places /\ AtPlace(a)
    BY JobFacts, TypeParts DEF Apis, PlaceType, Core
<1>2. ~Starts(a) /\ ~Armed(a)
    BY <1>1 DEF AtPlace, Begins, Opens, NoChannel, Output
<1>3. pc[a] \notin {"ready", "outreg", "outdma", "step", "conv", "send", "done", "call"}
    BY <1>1 DEF AtPlace, Opens, Layered, Ends, Api, NoChannel, Output
<1>4. pc[a] # "mask"
    BY <1>1, <1>2 DEF AtPlace, Opens, Armed, Api
<1>5. pc[a] \in {"unmask", "feed", "push", "count"}
    BY <1>1, <1>2, <1>3, <1>4 DEF Starts, Armed, Works, Quiet, Places
<1>6. job[i].api # "kmodel"
    BY <1>1, <1>5 DEF AtPlace, Opens, Api
<1>7. Running # {}
    BY DEF Core, Rest, NoChannel
<1>8. ~Late(a, i)
  <2>1. pc[Dm] \in {"done", "call"} => NoChannel
      BY AgentFacts DEF Core, AtPlace, Ends, Layered
  <2> QED BY <1>7, <2>1 DEF Late, NoChannel
<1>9. \A n \in Nat : ~Streaming(i, n)
    BY DEF Streaming, Output
<1>10. next[i] \in Nat /\ BurstFor(i) \in Nat /\ next[i] + BurstFor(i) \in Nat
    BY BurstForFacts, JobFacts
<1>11. ~(pc[a] = "count" /\ a # Ai)
    BY <1>1, <1>8, <1>9, <1>10 DEF AtPlace, Feeds
<1>12. pc[a] # "unmask"
    BY <1>1, <1>2, <1>6, <1>8, <1>9, <1>10 DEF AtPlace, Feeds, Armed, Api
<1>13. ~(pc[a] \in {"feed", "push", "count"} /\ a = Ai)
    BY <1>1, <1>7, <1>9, <1>10 DEF AtPlace, Feeds
<1> QED BY <1>2, <1>5, <1>11, <1>12, <1>13 DEF Armed

LEMMA TransferIn ==
    ASSUME OneHart, TypeOK, Core, Transfer, Src # None, mem' = <<<<Src.id, 0>>>>, outp' = outp
    PROVE  Core'
<1>1. /\ chan["ch"].run
      /\ UNCHANGED <<ctx, bufs, copied, registered, enabled, flags, mask, pend, fifo, engine,
                     software, pc, arg, off, job, state, ghosts>>
    BY DEF Transfer
<1>2. ~chan'["ch"].run /\ chan'["ch"].int = chan["ch"].inten /\ chan'["ch"].inten = chan["ch"].inten
    BY FinishFacts DEF Transfer, TypeOK
<1>3. /\ Callers' /\ Nesting' /\ Running' = Running
      /\ \A a \in Agents : Works(a)' <=> Works(a)
    BY <1>1, DeviceFrame
<1>4. \A a \in Agents : ~Works(a)
    BY <1>1, InputNoWorker
<1>5. \A a \in Agents : AtPlace(a)'
    BY <1>3, <1>4, QuietPlaceNext DEF Works
<1>6. PICK i \in Ids : state[i] = "running" /\ Running = {i}
  <2>1. Running # {}
      BY <1>1 DEF Core, Rest, NoChannel
  <2> QED BY <2>1, TheRunning DEF Running, Core
<1>7. Loading(i)
  <2>1. Waits(i)
      BY <1>4, <1>6 DEF Core, Waiting
  <2> QED BY <1>1, <2>1 DEF Waits, Streaming, InLayer, Output, NoChannel
<1>8. Flow(i, 0)'
  <2>1. Src.id = i
      BY <1>7, BufferFacts DEF Loading, Input
  <2>2. fifo' = <<>> /\ engine' = None /\ outp' = None
      BY <1>1, <1>7 DEF Loading, Empty
  <2>3. InOrder(i, 0, <<<<i, 0>>>>, None, None, <<>>)
      BY InOrderInput
  <2> QED BY <2>1, <2>2, <2>3 DEF Flow
<1>9. Input(i)'
  <2>1. InputSet(i)'
      BY <1>1, <1>2, <1>7 DEF Loading, Input, InputSet, software
  <2>2. chan["ch"].inten
      BY <1>7 DEF Loading, Input, InputSet
  <2> QED BY <1>1, <1>2, <1>7, <2>1, <2>2 DEF Loading, Input, InUse, Src, Dest
<1>10. Loading(i)'
  <2>1. Empty' /\ Calm' /\ Prepared(i)' /\ next'[i] = 0
      BY <1>1, <1>7, Frames DEF Loading, software
  <2> QED BY <1>8, <1>9, <2>1 DEF Loading
<1>11. Waiting'
    BY <1>3, <1>6, <1>10 DEF Waiting, Waits
<1>12. Entered'
  <2>1. pc[Dm] # "entry"
      BY <1>1, EntryState
  <2> QED BY <1>1, <2>1 DEF Entered
<1>13. Rest'
    BY <1>3, <1>6 DEF Rest
<1> QED BY <1>3, <1>5, <1>11, <1>12, <1>13 DEF Core

LEMMA TransferStep ==
    ASSUME OneHart, TypeOK, Core, Transfer
    PROVE  Core'
<1>1. \/ Src # None /\ mem' = <<<<Src.id, 0>>>> /\ outp' = outp
      \/ Dest # None /\ outp # None /\ mem' = Append(mem, outp) /\ outp' = None
    BY DEF Transfer, Src, Dest
<1> QED BY <1>1, TransferIn, TransferOut

LEMMA LatchStep ==
    ASSUME OneHart, TypeOK, Core, Latch
    PROVE  Core'
<1>1. /\ Line /\ pend' = TRUE
      /\ UNCHANGED <<dmac, flags, mask, fifo, engine, outp, mem, software, pc, arg, off, job,
                     state, ghosts>>
    BY DEF Latch
<1>2. flags \cap mask # {} /\ pc[Ai] = "idle" /\ ~Calm
  <2>1. ~Busy(Hart1, "ai")
      BY <1>1, AgentFacts DEF Line
  <2> QED BY <1>1, <2>1 DEF Line, Busy, Ai, Calm
<1>3. /\ Callers' /\ Nesting' /\ Running' = Running
      /\ \A a \in Agents : Works(a)' <=> Works(a)
    BY <1>1, DeviceFrame
<1>4. ASSUME NEW i \in Ids, NEW n \in Nat, Streaming(i, n)
      PROVE  Streaming(i, n)'
  <2>1. Flow(i, n)' /\ Output(i)' /\ Prepared(i)' /\ Served(i)'
      BY <1>1, <1>4, Frames DEF Streaming, dmac, software
  <2> QED BY <1>1, <1>4, <2>1 DEF Streaming, dmac, Size
<1>5. ASSUME NEW a \in Agents
      PROVE  AtPlace(a)'
  <2>1. CASE ~Works(a)
      BY <1>3, <2>1, QuietPlaceNext DEF Works
  <2>2. CASE Works(a)
    <3> SUFFICES ASSUME NEW i \in Ids, arg[a] = i PROVE AtPlace(a)'
        BY TaskType
    <3>1. a # Ai /\ AtPlace(a)
        BY <1>2, <2>2 DEF Works, Quiet, Core
    <3>2. pc[a] = "count" /\ job[i].api = "run" /\ a # Th
        BY <1>2, <2>2, <3>1, WorkersCalm DEF Api
    <3> PICK n \in Nat : n = BurstFor(i)
        BY BurstForFacts
    <3>3. next[i] = 0 /\ Streaming(i, n)
        BY <3>1, <3>2 DEF AtPlace, Feeds, Late
    <3>4. Streaming(i, n)' /\ BurstFor(i)' = n /\ next' = next /\ job' = job
        BY <1>1, <1>4, <3>3 DEF software, BurstFor, Remain, Size
    <3>5. pc'[a] = "count" /\ arg'[a] = i
        BY <1>1, <3>2
    <3>6. Feeds(a)'
        BY <3>1, <3>2, <3>3, <3>4, <3>5 DEF Feeds, Api
    <3>7. Begins(a)' /\ Opens(a)' /\ Layered(a)' /\ Ends(a)'
        BY <3>2, <3>4, <3>5 DEF Begins, Starts, Opens, Armed, Layered, Ends, Api
    <3> QED BY <3>6, <3>7 DEF AtPlace
  <2> QED BY <2>1, <2>2
<1>6. Waiting'
  <2> SUFFICES ASSUME NEW i \in Running', \A a \in Agents : Works(a)' => arg'[a] # i
               PROVE  Waits(i)'
      BY DEF Waiting
  <2>1. i \in Running /\ i \in Ids
      BY <1>3 DEF Running
  <2>2. Waits(i)
      BY <1>1, <1>3, <2>1 DEF Core, Waiting
  <2> PICK n \in Nat : n = next[i]
      BY <2>1, JobFacts
  <2>3. next'[i] = n /\ job' = job /\ Kind(i, n)' = Kind(i, n) /\ chan' = chan
      BY <1>1 DEF software, dmac, Kind
  <2>4. CASE job[i].api # "kmodel" /\ Streaming(i, n)
      BY <1>4, <2>1, <2>3, <2>4 DEF Waits
  <2>5. CASE InLayer(i)
    <3>1. /\ job[i].api = "kmodel" /\ n # 0 /\ Flow(i, n) /\ Served(i)
          /\ n <= Len(mem) /\ Kind(i, n) # "cpu" /\ Kind(i, n) # "out"
          /\ NoChannel /\ mask = {"calc"} /\ Empty /\ "calc" \in flags
        BY <1>2, <2>5 DEF InLayer
    <3>2. Flow(i, n)' /\ Served(i)' /\ NoChannel' /\ Empty'
        BY <1>1, <2>1, <3>1, Frames DEF software, dmac
    <3>3. outp = None
        BY <3>1 DEF Empty
    <3>4. InLayer(i)'
        BY <1>1, <2>3, <3>1, <3>2, <3>3 DEF InLayer
    <3> QED BY <3>4 DEF Waits
  <2> QED BY <1>2, <2>2, <2>4, <2>5 DEF Waits, Loading
<1>7. Entered'
    BY <1>1, <1>2 DEF Core, Entered
<1>8. Rest'
  <2>1. (Empty' <=> Empty) /\ (NoChannel' <=> NoChannel)
      BY <1>1, Frames DEF dmac
  <2>2. AfterLast' <=> AfterLast
      BY <1>1 DEF AfterLast, software, Size
  <2> QED BY <1>2, <1>3, <2>1, <2>2 DEF Core, Rest
<1> QED BY <1>3, <1>5, <1>6, <1>7, <1>8 DEF Core

-----------------------------------------------------------------------------
(***************************************************************************)
(* The theorems.                                                           *)
(***************************************************************************)
LEMMA InitInv == ASSUME OneHart, Init PROVE Inv
<1>1. First \in Ids
    BY ChannelAssumption DEF First
<1>2. TypeOK
  <2>1. DmacTypeOK
      BY NoneAssumption DEF Init, DmacInit, DmacTypeOK
  <2>2. PlaceType
      BY <1>1 DEF Init, PlaceType, Places
  <2>3. HardwareType
    <3>1. <<>> \in Seq(Layers)
        OBVIOUS
    <3> QED BY <3>1 DEF Init, HardwareType
  <2>4. SoftwareType
      BY <1>1 DEF Init, SoftwareType
  <2>5. JobsType /\ StateType
      BY DEF Init, JobsType, StateType
  <2>6. NextType
    <3>1. \A i \in Ids : Size(i) \in Nat /\ 0 <= Size(i)
      <4>1. \A i \in Ids : Size(i) = Len(<<"out">>)
          BY DEF Init, Size, NoJob
      <4> QED BY <4>1
    <3> QED BY <3>1 DEF Init, NextType
  <2>7. GhostType
      BY DEF Init, GhostType
  <2> QED BY <2>1, <2>2, <2>3, <2>4, <2>5, <2>6, <2>7, TypeParts
<1>3. Running = {} /\ \A a \in Agents : pc[a] = "idle"
    BY DEF Init, Running
<1>4. pc[Th] = "idle" /\ pc[Dm] = "idle" /\ pc[Ai] = "idle"
    BY <1>3, AgentFacts
<1>5. ResultRight
    BY DEF Init, ResultRight
<1>6. Callers
    BY <1>3, <1>4 DEF Init, Callers
<1>7. Nesting
    BY <1>4 DEF Init, Nesting
<1>8. Waiting /\ Entered
    BY <1>3, <1>4 DEF Waiting, Entered
<1>9. Rest
  <2>1. Empty /\ Calm
      BY DEF Init, Empty, Calm
  <2>2. NoChannel
      BY ChannelAssumption DEF Init, DmacInit, NoChannel, Src, Dest
  <2> QED BY <1>4, <2>1, <2>2 DEF Rest
<1>10. \A a \in Agents : AtPlace(a)
    BY <1>3, QuietPlace DEF Quiet
<1> QED BY <1>2, <1>5, <1>6, <1>7, <1>8, <1>9, <1>10 DEF Inv, Core

\* what is done stays as it was found
LEMMA ResultFrame ==
    ASSUME ResultRight, UNCHANGED ghosts,
           \A i \in Ids : state'[i] = "done" => state[i] = "done" /\ job'[i] = job[i]
    PROVE  ResultRight'
<1>1. \A i \in Ids : state'[i] = "done" => Size(i)' = Size(i)
    BY DEF Size
<1> QED BY <1>1 DEF ResultRight, ghosts

LEMMA AgentStep ==
    ASSUME OneHart, Inv, NEW a \in Agents, Step(a)
    PROVE  Inv'
<1>0. TypeOK /\ Core /\ ResultRight
    BY DEF Inv
<1>1. CASE Cas(a)
  <2>1. \A i \in Ids : state'[i] = "done" => state[i] = "done" /\ job'[i] = job[i]
      BY <1>0, <1>1 DEF Cas, TypeOK
  <2>2. ResultRight'
      BY <1>0, <1>1, <2>1, ResultFrame DEF Cas
  <2> QED BY <1>0, <1>1, <2>2, CasType, CasStep DEF Inv
<1>2. CASE SetTask(a)
    BY <1>0, <1>2, ResultFrame, SetTaskType, SetTaskStep DEF Inv, SetTask
<1>3. CASE KmodelMask(a)
    BY <1>0, <1>3, ResultFrame, KmodelMaskType, KmodelMaskStep DEF Inv, KmodelMask
<1>4. CASE AiRegister(a)
    BY <1>0, <1>4, ResultFrame, AiRegisterType, AiRegisterStep DEF Inv, AiRegister
<1>5. CASE LoadByCpu(a)
    BY <1>0, <1>5, ResultFrame, LoadByCpuType, LoadByCpuStep DEF Inv, LoadByCpu
<1>6. CASE InRegister(a)
    BY <1>0, <1>6, ResultFrame, InRegisterType, InRegisterStep DEF Inv, InRegister
<1>7. CASE InDma(a)
    BY <1>0, <1>7, ResultFrame, InDmaType, InDmaStep DEF Inv, InDma
<1>8. CASE Ready(a)
    BY <1>0, <1>8, ResultFrame, ReadyType, ReadyStep DEF Inv, Ready
<1>9. CASE OutRegister(a)
    BY <1>0, <1>9, ResultFrame, OutRegisterType, OutRegisterStep DEF Inv, OutRegister
<1>10. CASE OutDma(a)
    BY <1>0, <1>10, ResultFrame, OutDmaType, OutDmaStep DEF Inv, OutDma
<1>11. CASE Mask(a)
    BY <1>0, <1>11, ResultFrame, MaskType, MaskStep DEF Inv, Mask
<1>12. CASE Unmask(a)
    BY <1>0, <1>12, ResultFrame, UnmaskType, UnmaskStep DEF Inv, Unmask
<1>13. CASE Feed(a)
    BY <1>0, <1>13, ResultFrame, FeedType, FeedStep DEF Inv, Feed
<1>14. CASE Push(a)
    BY <1>0, <1>14, ResultFrame, PushType, PushStep DEF Inv, Push
<1>15. CASE Count(a)
    BY <1>0, <1>15, ResultFrame, CountType, CountStep DEF Inv, Count
<1>16. CASE AiStep(a)
    BY <1>0, <1>16, ResultFrame, AiStepType, AiStepStep DEF Inv, AiStep
<1>17. CASE Conv(a)
    BY <1>0, <1>17, ResultFrame, ConvType, ConvStep DEF Inv, Conv
<1>18. CASE Send(a)
    BY <1>0, <1>18, ResultFrame, SendType, SendStep DEF Inv, Send
<1>19. CASE Done(a)
    BY <1>0, <1>19, ResultFrame, DoneType, DoneStep DEF Inv, Done
<1>20. CASE Callback(a)
    BY <1>0, <1>20, CallbackResult, CallbackType, CallbackStep DEF Inv
<1>21. CASE Leave(a)
    BY <1>0, <1>21, ResultFrame, LeaveType, LeaveStep DEF Inv, Leave
<1> QED BY <1>1, <1>2, <1>3, <1>4, <1>5, <1>6, <1>7, <1>8, <1>9, <1>10, <1>11, <1>12, <1>13,
          <1>14, <1>15, <1>16, <1>17, <1>18, <1>19, <1>20, <1>21 DEF Step

LEMMA AskInv ==
    ASSUME OneHart, Inv, NEW a \in Agents, NEW i \in Ids, NEW j \in Jobs, Ask(a, i, j)
    PROVE  Inv'
<1>1. TypeOK /\ Core /\ ResultRight
    BY DEF Inv
<1>2. \A k \in Ids : state'[k] = "done" => state[k] = "done" /\ job'[k] = job[k]
    BY <1>1 DEF Ask, TypeOK
<1>3. ResultRight'
    BY <1>1, <1>2, ResultFrame DEF Ask
<1> QED BY <1>1, <1>3, AskType, AskStep DEF Inv

LEMMA InterruptInv ==
    ASSUME OneHart, Inv, NEW h \in Harts, Interrupt(h)
    PROVE  Inv'
<1>0. TypeOK /\ Core /\ ResultRight
    BY DEF Inv
<1>1. CASE Entry(h)
    BY <1>0, <1>1, ResultFrame, EntryType, EntryStep DEF Inv, Entry
<1>2. CASE AiInterrupt(h)
    BY <1>0, <1>2, ResultFrame, AiInterruptType, AiInterruptStep DEF Inv, AiInterrupt
<1>3. CASE DmaInterrupt(h)
    BY <1>0, <1>3, ResultFrame, DmaInterruptType, DmaInterruptStep DEF Inv, DmaInterrupt
<1> QED BY <1>1, <1>2, <1>3 DEF Interrupt

LEMMA DeviceInv ==
    ASSUME OneHart, Inv, Device
    PROVE  Inv'
<1>0. TypeOK /\ Core /\ ResultRight
    BY DEF Inv
<1>1. CASE Pop
    BY <1>0, <1>1, ResultFrame, PopType, PopStep DEF Inv, Pop
<1>2. CASE Calculate
    BY <1>0, <1>2, ResultFrame, CalculateType, CalculateStep DEF Inv, Calculate
<1>3. CASE Transfer
    BY <1>0, <1>3, ResultFrame, TransferType, TransferStep DEF Inv, Transfer
<1>4. CASE Latch
    BY <1>0, <1>4, ResultFrame, LatchType, LatchStep DEF Inv, Latch
<1> QED BY <1>1, <1>2, <1>3, <1>4 DEF Device

LEMMA StutterInv ==
    ASSUME OneHart, Inv, UNCHANGED vars
    PROVE  Inv'
<1>0. TypeOK /\ Core /\ ResultRight
    BY DEF Inv
<1>1. UNCHANGED <<dmac, hardware, software, pc, arg, off, job, state, ghosts>>
    BY DEF vars
<1>2. TypeOK'
    BY <1>0, <1>1, TypeParts, TypePartsNext, TypeFrame DEF software
<1>3. ResultRight'
    BY <1>0, <1>1, ResultFrame
<1>4. \A a \in Agents : AtPlace(a) => AtPlace(a)'
  <2> SUFFICES ASSUME NEW a \in Agents PROVE AtPlace(a) => AtPlace(a)'
      OBVIOUS
  <2>1. Begins(a) => Begins(a)'
      BY <1>1 DEF dmac, hardware, software, Begins, Starts, Api, Empty, Calm, NoChannel, InputSet,
        Served, Prepared, Src, Dest
  <2>2. Opens(a) => Opens(a)'
      BY <1>1 DEF dmac, hardware, software, Opens, Armed, Api, Empty, Calm, NoChannel, OutputSet,
        Output, InUse, Flow, Served, Prepared, Size, Src, Dest
  <2>3. Feeds(a) => Feeds(a)'
      BY <1>1 DEF dmac, hardware, software, Feeds, Late, Streaming, Api, OutputSet, Output, InUse,
        Flow, Served, Prepared, BurstFor, Remain, Size, Running, Src, Dest
  <2>4. Layered(a) => Layered(a)'
      BY <1>1 DEF dmac, hardware, software, Layered, Api, Kind, Size, Empty, Calm, NoChannel,
        OutputSet, Output, InUse, Flow, Served, Src, Dest
  <2>5. Ends(a) => Ends(a)'
      BY <1>1 DEF dmac, hardware, software, Ends, Api, Size, Empty, Calm, NoChannel, Flow, Src, Dest
  <2> QED BY <2>1, <2>2, <2>3, <2>4, <2>5 DEF AtPlace
<1>5. \A i \in Ids : Waits(i) => Waits(i)'
    BY <1>0, <1>1, WaitsFrame
<1>6. Callers' /\ Nesting' /\ Running' = Running /\ \A a \in Agents : Works(a)' <=> Works(a)
    BY <1>0, <1>1, DeviceFrame
<1>7. Waiting'
    BY <1>0, <1>1, <1>5, <1>6 DEF Core, Waiting, Running
<1>8. Entered' /\ Rest'
  <2>1. (Empty' <=> Empty) /\ (NoChannel' <=> NoChannel) /\ (Calm' <=> Calm)
      BY <1>1, Frames DEF dmac, hardware
  <2>2. AfterLast' <=> AfterLast
      BY <1>1 DEF AfterLast, software, Size
  <2> QED BY <1>0, <1>1, <1>6, <2>1, <2>2 DEF Core, Entered, Rest, dmac, software
<1> QED BY <1>0, <1>2, <1>3, <1>4, <1>6, <1>7, <1>8 DEF Inv, Core

\* The invariant is inductive.
LEMMA Invariance == OneHart => (Spec => []Inv)
<1> SUFFICES ASSUME OneHart PROVE Spec => []Inv
    OBVIOUS
<1>1. Init => Inv
    BY InitInv
<1>2. Inv /\ [Next]_vars => Inv'
    BY AgentStep, AskInv, InterruptInv, DeviceInv, StutterInv DEF Next
<1> QED BY <1>1, <1>2, PTL DEF Spec

\* On one hart the state of kpu.c is always well-typed; in particular no more
\* layers are handed out than the network has (remain_layers_length, current_layer).
THEOREM KpuTypeCorrect == OneHart => (Spec => []TypeOK)
<1>1. Inv => TypeOK
    BY DEF Inv
<1> QED BY <1>1, Invariance, PTL

\* A job of kpu_run, kpu_start or kpu_run_kmodel is called back once, when every
\* layer has been applied to its input, once and in order, and the output has
\* reached its destination.
THEOREM ResultsRight == OneHart => (Spec => []ResultRight)
<1>1. Inv => ResultRight
    BY DEF Inv
<1> QED BY <1>1, Invariance, PTL

\* what Accelerator's state is here
StateSeen == [i \in Ids |-> IF state[i] = "asked" THEN "new" ELSE state[i]]

LEMMA SeenFrame ==
    ASSUME \A i \in Ids : (IF state'[i] = "asked" THEN "new" ELSE state'[i]) =
                          (IF state[i] = "asked" THEN "new" ELSE state[i])
    PROVE  StateSeen' = StateSeen
BY DEF StateSeen

\* Accelerator and Kpu mean the same jobs by Running
LEMMA SeenRunning == Promise!Running = Running
BY DEF Promise!Running, Running

\* Cas accepts or refuses, Callback finishes; no other step shows.
LEMMA StepSeen ==
    ASSUME OneHart, Inv, [Next]_vars
    PROVE  [Promise!Next]_StateSeen
<1>0. TypeOK /\ Core /\ DOMAIN state = Ids
    BY DEF Inv, TypeOK
<1>1. ASSUME NEW a \in Agents, Cas(a)
      PROVE  Promise!Next
  <2> SUFFICES ASSUME NEW i \in Ids, arg[a] = i PROVE Promise!Next
      BY <1>0, TaskType
  <2>1. state[i] = "asked" /\ job[i].api \in Apis
      BY <1>0, <1>1, JobFacts DEF Core, Callers, Cas, At
  <2>2. CASE busy[job[i].api]
    <3>1. Running # {}
        BY <1>0, <2>1, <2>2 DEF Core, Callers
    <3>2. state' = [state EXCEPT ![i] = "refused"]
        BY <1>1, <2>2 DEF Cas, Api
    <3>3. StateSeen' = [StateSeen EXCEPT ![i] = "refused"] /\ StateSeen[i] = "new"
        BY <1>0, <2>1, <3>2 DEF StateSeen
    <3>4. Promise!Refuse(i)
        BY <3>1, <3>3, SeenRunning DEF Promise!Refuse, Promise!To, StateSeen
    <3> QED BY <3>4 DEF Promise!Next
  <2>3. CASE ~busy[job[i].api]
    <3>1. Running = {}
      <4> SUFFICES ASSUME NEW k \in Ids, state[k] = "running" PROVE FALSE
          BY DEF Running
      <4>1. k # i /\ job[k].api = job[i].api /\ job[i].api # "kmodel"
          BY <1>0, <2>1 DEF Core, Callers
      <4>2. ~Calling(k)
          BY <1>0, <1>1, Asking, AgentFacts DEF Calling, Cas, At
      <4> QED BY <1>0, <2>1, <2>3, <4>1, <4>2 DEF Core, Callers, Running
    <3>2. state' = [state EXCEPT ![i] = "running"]
        BY <1>1, <2>3 DEF Cas, Api
    <3>3. StateSeen' = [StateSeen EXCEPT ![i] = "running"] /\ StateSeen[i] = "new"
        BY <1>0, <2>1, <3>2 DEF StateSeen
    <3>4. Promise!Start(i)
        BY <3>1, <3>3, SeenRunning DEF Promise!Start, Promise!To, StateSeen
    <3> QED BY <3>4 DEF Promise!Next
  <2> QED BY <2>2, <2>3
<1>2. ASSUME NEW a \in Agents, Callback(a)
      PROVE  Promise!Next
  <2> SUFFICES ASSUME NEW i \in Ids, arg[a] = i PROVE Promise!Next
      BY <1>0, TaskType
  <2>1. state[i] = "running" /\ Task(a) = i
      BY <1>0, <1>2, CallbackFacts
  <2>2. state' = [state EXCEPT ![i] = "done"]
      BY <1>2, <2>1 DEF Callback
  <2>3. StateSeen' = [StateSeen EXCEPT ![i] = "done"] /\ StateSeen[i] = "running"
      BY <1>0, <2>1, <2>2 DEF StateSeen
  <2>4. Promise!Finish(i)
      BY <2>3 DEF Promise!Finish, Promise!To, StateSeen
  <2> QED BY <2>4 DEF Promise!Next
<1>3. ASSUME NEW a \in Agents, Step(a), ~Cas(a), ~Callback(a)
      PROVE  state' = state
    BY <1>3 DEF Step, SetTask, KmodelMask, AiRegister, LoadByCpu, InRegister, InDma, Ready,
      OutRegister, OutDma, Mask, Unmask, Feed, Push, Count, AiStep, Conv, Send, Done, Leave
<1>4. ASSUME NEW a \in Agents, NEW i \in Ids, NEW j \in Jobs, Ask(a, i, j)
      PROVE  StateSeen' = StateSeen
    BY <1>0, <1>4, SeenFrame DEF Ask
<1>5. ASSUME NEW h \in Harts, Interrupt(h)
      PROVE  state' = state
    BY <1>5 DEF Interrupt, Entry, AiInterrupt, DmaInterrupt
<1>6. ASSUME Device
      PROVE  state' = state
    BY <1>6 DEF Device, Pop, Calculate, Transfer, Latch
<1>7. ASSUME UNCHANGED vars
      PROVE  state' = state
    BY <1>7 DEF vars
<1>8. state' = state => StateSeen' = StateSeen
    BY DEF StateSeen
<1> QED BY <1>1, <1>2, <1>3, <1>4, <1>5, <1>6, <1>7, <1>8 DEF Next

\* The driver implements Accelerator, but for what must happen in the end: jobs
\* run one at a time, the flag that atomic_cas finds set means that one runs, a
\* refused job stays refused, and only a running job is called back.
THEOREM RunsAsPromised == OneHart => (Spec => Promise!Init /\ [][Promise!Next]_StateSeen)
<1> SUFFICES ASSUME OneHart PROVE Spec => Promise!Init /\ [][Promise!Next]_StateSeen
    OBVIOUS
<1>1. Init => Promise!Init
    BY DEF Init, Promise!Init
<1>2. Inv /\ [Next]_vars => [Promise!Next]_StateSeen
    BY StepSeen
<1> QED BY <1>1, <1>2, Invariance, PTL DEF Spec
=============================================================================
