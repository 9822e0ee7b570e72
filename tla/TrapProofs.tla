----------------------------- MODULE TrapProofs -----------------------------
(***************************************************************************)
(* Module Trap for every set of harts and sources, every priority and      *)
(* every nesting depth: NoReentry whatever callbacks and threads do; that  *)
(* gates reopen unless a callback disables its own source; that the stack  *)
(* is bounded on harts with sources of their own, unless a callback starts *)
(* the timer; and that a thread is returned to as it was left, unless a    *)
(* callback starts or stops the timer.                                     *)
(*                                                                         *)
(* Every handler moves the last frame of one hart's stack: the lemmas say  *)
(* what entering, moving on, claiming and leaving keep of each invariant,  *)
(* and each handler is then one of these four.                             *)
(***************************************************************************)
EXTENDS Trap, FiniteSetTheorems, WellFoundedInduction, TLAPS

-----------------------------------------------------------------------------
(***************************************************************************)
(* What the operations on a hart's trap stack leave, frame by frame.       *)
(***************************************************************************)
Top(h) == Len(stack[h])

\* A stack is a sequence of frames; Frame is the last of them.
LEMMA StackFacts ==
    ASSUME TypeOK, NEW h \in Harts
    PROVE  /\ stack[h] \in Seq(Frames) /\ Top(h) \in Nat /\ DOMAIN stack[h] = 1 .. Top(h)
           /\ \A i \in 1 .. Top(h) : stack[h][i] \in Frames
           /\ stack[h] = <<>> <=> Top(h) = 0
           /\ stack[h] # <<>> => Top(h) \in 1 .. Top(h) /\ Frame(h) = stack[h][Top(h)]
                                 /\ Frame(h) \in Frames
  BY DEF TypeOK, Top, Frame

LEMMA PushFacts ==
    ASSUME TypeOK, NEW h \in Harts, NEW f \in Frames, Push(h, f)
    PROVE  /\ Top(h)' = Top(h) + 1
           /\ \A i \in 1 .. Top(h) : stack'[h][i] = stack[h][i]
           /\ stack'[h][Top(h)'] = f
           /\ \A g \in Harts : g # h => stack'[g] = stack[g]
           /\ stack' \in [Harts -> Seq(Frames)]
<1>1. stack[h] \in Seq(Frames) BY DEF TypeOK
<1>2. stack'[h] = Append(stack[h], f) BY DEF TypeOK, Push
<1>3. \A g \in Harts : g # h => stack'[g] = stack[g] BY DEF TypeOK, Push
<1>4. Append(stack[h], f) \in Seq(Frames) BY <1>1
<1>5. stack' \in [Harts -> Seq(Frames)] BY <1>4 DEF TypeOK, Push
<1> QED BY <1>1, <1>2, <1>3, <1>5 DEF Top

LEMMA PopFacts ==
    ASSUME TypeOK, NEW h \in Harts, stack[h] # <<>>, Pop(h)
    PROVE  /\ Top(h)' = Top(h) - 1
           /\ \A i \in 1 .. Top(h) - 1 : stack'[h][i] = stack[h][i]
           /\ \A g \in Harts : g # h => stack'[g] = stack[g]
           /\ stack' \in [Harts -> Seq(Frames)]
<1>1. stack[h] \in Seq(Frames) /\ Len(stack[h]) \in Nat \ {0} BY DEF TypeOK
<1>2. stack'[h] = SubSeq(stack[h], 1, Len(stack[h]) - 1) BY DEF TypeOK, Pop
<1>3. \A g \in Harts : g # h => stack'[g] = stack[g] BY DEF TypeOK, Pop
<1>4. SubSeq(stack[h], 1, Len(stack[h]) - 1) \in Seq(Frames) BY <1>1
<1>5. stack' \in [Harts -> Seq(Frames)] BY <1>4 DEF TypeOK, Pop
<1>6. Len(SubSeq(stack[h], 1, Len(stack[h]) - 1)) = Len(stack[h]) - 1 BY <1>1
<1>7. \A i \in 1 .. Len(stack[h]) - 1 : SubSeq(stack[h], 1, Len(stack[h]) - 1)[i] = stack[h][i]
  BY <1>1
<1> QED BY <1>2, <1>3, <1>5, <1>6, <1>7 DEF Top

LEMMA SetFacts ==
    ASSUME TypeOK, NEW h \in Harts, stack[h] # <<>>, NEW f \in Frames, SetFrame(h, f)
    PROVE  /\ Top(h)' = Top(h)
           /\ \A i \in 1 .. Top(h) : i # Top(h) => stack'[h][i] = stack[h][i]
           /\ stack'[h][Top(h)] = f
           /\ \A g \in Harts : g # h => stack'[g] = stack[g]
           /\ stack' \in [Harts -> Seq(Frames)]
<1>1. stack[h] \in Seq(Frames) /\ Len(stack[h]) \in 1 .. Len(stack[h]) BY DEF TypeOK
<1>2. stack'[h] = [stack[h] EXCEPT ![Len(stack[h])] = f] BY DEF TypeOK, SetFrame
<1>3. \A g \in Harts : g # h => stack'[g] = stack[g] BY DEF TypeOK, SetFrame
<1>4. [stack[h] EXCEPT ![Len(stack[h])] = f] \in Seq(Frames) BY <1>1
<1>5. stack' \in [Harts -> Seq(Frames)] BY <1>4 DEF TypeOK, SetFrame
<1> QED BY <1>1, <1>2, <1>3, <1>5 DEF Top

\* The frame that a handler sets when it moves on.
LEMMA GotoFrame ==
    ASSUME NEW f \in Frames, NEW a \in {"check", "claim", "clear", "body", "after", "leave"}
    PROVE  /\ [f EXCEPT !.at = a] \in Frames
           /\ [f EXCEPT !.at = a].at = a /\ [f EXCEPT !.at = a].kind = f.kind
           /\ [f EXCEPT !.at = a].irq = f.irq /\ [f EXCEPT !.at = a].mie = f.mie
           /\ [f EXCEPT !.at = a].threshold = f.threshold
  BY DEF Frames

-----------------------------------------------------------------------------
(***************************************************************************)
(* A claim of the PLIC returns the most urgent of the sources it could.    *)
(***************************************************************************)
LEMMA Least ==
    ASSUME NEW S \in SUBSET Nat, S # {}
    PROVE  \E x \in S : \A y \in S : x <= y
<1> DEFINE R == {p \in Nat \X Nat : p[1] < p[2]}
<1>1. IsWellFoundedOn(R, Nat) BY NatLessThanWellFounded DEF OpToRel
<1> HIDE DEF R
<1>2. PICK x \in S : \A y \in S : ~ (<<y, x>> \in R) BY <1>1, WFMin
<1>3. ASSUME NEW y \in S PROVE x <= y
  <2>1. y < x => <<y, x>> \in R BY DEF R
  <2> QED BY <2>1, <1>2
<1> QED BY <1>3

LEMMA ClaimRight ==
    ASSUME TypeOK, NEW h \in Harts
    PROVE  /\ Claimed(h) \in Sources \cup {None}
           /\ Claimed(h) # None => Claimed(h) \in enable[h] /\ source[Claimed(h)] = "pending"
           /\ \A t \in enable[h] : source[t] = "pending" =>
                 Claimed(h) # None /\ Priority[t] <= Priority[Claimed(h)]
<1> DEFINE S == {s \in enable[h] : source[s] = "pending"}
<1> DEFINE First(s) == \A t \in S : \/ Priority[s] > Priority[t]
                                    \/ Priority[s] = Priority[t] /\ s <= t
<1>1. S \subseteq Sources /\ S \subseteq Nat \ {0} BY SourceAssumption DEF TypeOK
<1>2. \A s \in S : Priority[s] \in 1 .. MaxPriority BY <1>1, PriorityAssumption
<1>3. CASE S = {} BY <1>3 DEF Claimed
<1>4. CASE S # {}
  <2> DEFINE D == {MaxPriority - Priority[s] : s \in S}
  <2>1. D \in SUBSET Nat /\ D # {} BY <1>2, <1>4, PriorityAssumption
  <2>2. PICK d \in D : \A e \in D : d <= e BY <2>1, Least
  <2>3. PICK m \in S : d = MaxPriority - Priority[m] BY <2>2
  <2>4. \A t \in S : Priority[t] <= Priority[m]
    <3> SUFFICES ASSUME NEW t \in S PROVE Priority[t] <= Priority[m] OBVIOUS
    <3>1. MaxPriority - Priority[m] <= MaxPriority - Priority[t] BY <2>2, <2>3
    <3> QED BY <3>1, <1>2, PriorityAssumption
  <2> DEFINE E == {s \in S : Priority[s] = Priority[m]}
  <2>5. E \in SUBSET Nat /\ E # {} BY <1>1, <2>3
  <2>6. PICK s \in E : \A t \in E : s <= t BY <2>5, Least
  <2>7. First(s)
    <3> SUFFICES ASSUME NEW t \in S
                 PROVE Priority[s] > Priority[t] \/ (Priority[s] = Priority[t] /\ s <= t)
      OBVIOUS
    <3>1. CASE t \in E BY <3>1, <2>6
    <3>2. CASE t \notin E
      <4>1. Priority[t] <= Priority[m] /\ Priority[t] # Priority[m] BY <3>2, <2>4
      <4>2. Priority[s] = Priority[m] BY <2>6
      <4>3. Priority[t] \in Int /\ Priority[m] \in Int BY <1>2, PriorityAssumption
      <4>4. Priority[m] > Priority[t] BY <4>1, <4>3
      <4> QED BY <4>2, <4>4
    <3> QED BY <3>1, <3>2
  <2>8. Claimed(h) = CHOOSE x \in S : First(x) BY <1>4 DEF Claimed
  <2>9. Claimed(h) \in S /\ First(Claimed(h)) BY <2>6, <2>7, <2>8
  <2>10. Claimed(h) # None BY <2>9, <1>1 DEF None
  <2> QED BY <1>1, <1>2, <2>9, <2>10
<1> QED BY <1>3, <1>4

-----------------------------------------------------------------------------
(***************************************************************************)
(* Types.                                                                  *)
(***************************************************************************)
NewFrame(h, kind, at) == [kind |-> kind, at |-> at, irq |-> None, mie |-> mie[h],
                          threshold |-> threshold[h]]

LEMMA NewFrameTypes ==
    ASSUME TypeOK, NEW h \in Harts, NEW kind \in Kinds,
           NEW at \in {"check", "claim", "clear", "body", "after", "leave"}
    PROVE  NewFrame(h, kind, at) \in Frames
  BY DEF TypeOK, NewFrame, Frames

LEMMA EnterFacts ==
    ASSUME TypeOK, NEW h \in Harts, NEW kind \in Kinds,
           NEW at \in {"check", "claim", "clear", "body", "after", "leave"},
           Push(h, NewFrame(h, kind, at))
    PROVE  /\ Top(h)' = Top(h) + 1 /\ Top(h) \in Nat
           /\ \A i \in 1 .. Top(h) : stack'[h][i] = stack[h][i]
           /\ stack'[h][Top(h) + 1].kind = kind /\ stack'[h][Top(h) + 1].at = at
           /\ stack'[h][Top(h) + 1].irq = None /\ stack'[h][Top(h) + 1].mie = mie[h]
           /\ stack'[h][Top(h) + 1].threshold = threshold[h]
           /\ \A g \in Harts : g # h => stack'[g] = stack[g] /\ Top(g)' = Top(g)
<1> DEFINE f == NewFrame(h, kind, at)
<1>1. f \in Frames BY NewFrameTypes
<1>2. /\ f.kind = kind /\ f.at = at /\ f.irq = None /\ f.mie = mie[h]
      /\ f.threshold = threshold[h] BY DEF NewFrame
<1> HIDE DEF f
<1>3. Push(h, f) BY DEF f
<1>4. Top(h) \in Nat BY StackFacts
<1>5. /\ Top(h)' = Top(h) + 1
      /\ \A i \in 1 .. Top(h) : stack'[h][i] = stack[h][i]
      /\ stack'[h][Top(h)'] = f
      /\ \A g \in Harts : g # h => stack'[g] = stack[g]
  BY <1>1, <1>3, PushFacts
<1> QED BY <1>2, <1>4, <1>5 DEF Top

LEMMA GotoFacts ==
    ASSUME TypeOK, NEW h \in Harts, stack[h] # <<>>,
           NEW at \in {"check", "claim", "clear", "body", "after", "leave"}, GotoIn(h, at)
    PROVE  /\ Top(h)' = Top(h) /\ Top(h) \in Nat \ {0}
           /\ \A i \in 1 .. Top(h) : i # Top(h) => stack'[h][i] = stack[h][i]
           /\ stack'[h][Top(h)].at = at
           /\ stack'[h][Top(h)].kind = stack[h][Top(h)].kind
           /\ stack'[h][Top(h)].irq = stack[h][Top(h)].irq
           /\ stack'[h][Top(h)].mie = stack[h][Top(h)].mie
           /\ stack'[h][Top(h)].threshold = stack[h][Top(h)].threshold
           /\ \A g \in Harts : g # h => stack'[g] = stack[g] /\ Top(g)' = Top(g)
<1> DEFINE f == [Frame(h) EXCEPT !.at = at]
<1>1. Frame(h) \in Frames /\ Frame(h) = stack[h][Top(h)] /\ Top(h) \in Nat \ {0}
  BY StackFacts
<1>2. f \in Frames /\ f.at = at /\ f.kind = Frame(h).kind
      /\ f.irq = Frame(h).irq /\ f.mie = Frame(h).mie /\ f.threshold = Frame(h).threshold
  <2>1. PICK g \in Frames : g = Frame(h) BY <1>1
  <2>2. f = [g EXCEPT !.at = at] BY <2>1
  <2> HIDE DEF f
  <2>3. f \in Frames /\ f.at = at /\ f.kind = g.kind /\ f.irq = g.irq /\ f.mie = g.mie
        /\ f.threshold = g.threshold
    BY ONLY <2>2, at \in {"check", "claim", "clear", "body", "after", "leave"}, g \in Frames DEF Frames
  <2> QED BY ONLY <2>1, <2>3
<1> HIDE DEF f
<1>3. SetFrame(h, f) BY DEF GotoIn, f
<1>4. /\ Top(h)' = Top(h)
      /\ \A i \in 1 .. Top(h) : i # Top(h) => stack'[h][i] = stack[h][i]
      /\ stack'[h][Top(h)] = f
      /\ \A g \in Harts : g # h => stack'[g] = stack[g]
  BY <1>2, <1>3, SetFacts
<1> QED BY <1>1, <1>2, <1>4 DEF Top

LEMMA LeaveFacts ==
    ASSUME TypeOK, NEW h \in Harts, stack[h] # <<>>, Pop(h)
    PROVE  /\ Top(h)' = Top(h) - 1 /\ Top(h) \in Nat \ {0}
           /\ \A i \in 1 .. Top(h) - 1 : i \in 1 .. Top(h) /\ stack'[h][i] = stack[h][i]
           /\ \A g \in Harts : g # h => stack'[g] = stack[g] /\ Top(g)' = Top(g)
<1>1. Top(h) \in Nat \ {0} BY StackFacts
<1> QED BY <1>1, PopFacts DEF Top

LEMMA ClaimFacts ==
    ASSUME TypeOK, NEW h \in Harts, ExtClaim(h), NEW s, s = Claimed(h)
    PROVE  /\ Top(h)' = Top(h) /\ Top(h) \in Nat \ {0}
           /\ stack[h][Top(h)].kind = "ext" /\ stack[h][Top(h)].at = "claim"
           /\ \A i \in 1 .. Top(h) : i # Top(h) => stack'[h][i] = stack[h][i]
           /\ stack'[h][Top(h)].at = "body" /\ stack'[h][Top(h)].kind = "ext"
           /\ stack'[h][Top(h)].irq = s /\ stack'[h][Top(h)].mie = mie[h]
           /\ stack'[h][Top(h)].threshold = threshold[h]
           /\ \A g \in Harts : g # h => stack'[g] = stack[g] /\ Top(g)' = Top(g)
           /\ stack' \in [Harts -> Seq(Frames)]
<1> DEFINE f == [Frame(h) EXCEPT !.at = "body", !.irq = s, !.mie = mie[h],
                                 !.threshold = threshold[h]]
<1>1. stack[h] # <<>> /\ Frame(h).kind = "ext" /\ Frame(h).at = "claim" BY DEF ExtClaim, InFrame
<1>2. Frame(h) \in Frames /\ Frame(h) = stack[h][Top(h)] /\ Top(h) \in Nat \ {0}
  BY <1>1, StackFacts
<1>3. s \in Sources \cup {None} BY ClaimRight
<1>4. threshold[h] \in 0 .. MaxPriority /\ mie[h] \in SUBSET Kinds BY DEF TypeOK
<1>5. /\ f \in Frames /\ f.at = "body" /\ f.kind = Frame(h).kind /\ f.irq = s
      /\ f.mie = mie[h] /\ f.threshold = threshold[h]
  <2>1. PICK fr \in Frames, m \in SUBSET Kinds, t \in 0 .. MaxPriority :
           fr = Frame(h) /\ m = mie[h] /\ t = threshold[h] BY <1>2, <1>4
  <2>2. f = [fr EXCEPT !.at = "body", !.irq = s, !.mie = m, !.threshold = t] BY <2>1
  <2>3. /\ f \in Frames /\ f.at = "body" /\ f.kind = fr.kind /\ f.irq = s
        /\ f.mie = m /\ f.threshold = t
    BY <1>3, <2>2 DEF Frames
  <2> QED BY <2>1, <2>3
<1>6. SetFrame(h, f) BY DEF ExtClaim
<1> HIDE DEF f
<1>7. /\ Top(h)' = Top(h)
      /\ \A i \in 1 .. Top(h) : i # Top(h) => stack'[h][i] = stack[h][i]
      /\ stack'[h][Top(h)] = f
      /\ \A g \in Harts : g # h => stack'[g] = stack[g]
      /\ stack' \in [Harts -> Seq(Frames)]
  BY <1>1, <1>5, <1>6, SetFacts
<1> QED BY <1>1, <1>2, <1>5, <1>7 DEF Top

\* The handler's frame is the last one of its hart's stack.
LEMMA TopFacts ==
    ASSUME TypeOK, NEW h \in Harts, stack[h] # <<>>
    PROVE  /\ Top(h) \in 1 .. Top(h) /\ Top(h) \in Nat \ {0}
           /\ Frame(h) = stack[h][Top(h)]
  BY StackFacts

\* Every action but those that claim and complete leaves the frames of a
\* stack as they were, but for the last.
LEMMA EnterTypes ==
    ASSUME TypeOK, NEW h \in Harts, NEW kind \in Kinds,
           NEW at \in {"check", "claim", "clear", "body", "after", "leave"},
           Push(h, NewFrame(h, kind, at))
    PROVE  stack' \in [Harts -> Seq(Frames)]
  BY NewFrameTypes, PushFacts

LEMMA GotoTypes ==
    ASSUME TypeOK, NEW h \in Harts, stack[h] # <<>>,
           NEW at \in {"check", "claim", "clear", "body", "after", "leave"}, GotoIn(h, at)
    PROVE  stack' \in [Harts -> Seq(Frames)]
  BY StackFacts, GotoFrame, SetFacts DEF GotoIn

LEMMA DoTypes ==
    ASSUME TypeOK, NEW h \in Harts, NEW ops, Do(h, ops), stack' \in [Harts -> Seq(Frames)]
    PROVE  TypeOK'
<1>1. CASE Stop(h) BY <1>1 DEF TypeOK, Stop, plic, clint
<1>2. ASSUME NEW single \in BOOLEAN, Start(h, single) PROVE TypeOK'
  BY <1>2 DEF TypeOK, Start, plic, Kinds
<1>3. ASSUME NEW g \in Harts, Send(g) PROVE TypeOK' BY <1>3 DEF TypeOK, Send, plic
<1> QED BY <1>1, <1>2, <1>3 DEF Do

LEMMA HandlerTypes ==
    ASSUME TypeOK, NEW h \in Harts, Handler(h)
    PROVE  TypeOK'
<1>1. CASE ExtEnter(h)
  <2>1. stack' \in [Harts -> Seq(Frames)] BY <1>1, EnterTypes DEF ExtEnter, Enter, NewFrame, Kinds
  <2> QED BY <1>1, <2>1 DEF TypeOK, ExtEnter, Enter, plic, clint, ghosts
<1>2. CASE ExtCheck(h)
  <2>1. stack[h] # <<>> BY <1>2 DEF ExtCheck, InFrame
  <2>2. stack' \in [Harts -> Seq(Frames)]
    <3>1. CASE Meip(h) BY <1>2, <2>1, <3>1, GotoTypes DEF ExtCheck
    <3>2. CASE ~Meip(h) BY <1>2, <2>1, <3>2, PopFacts DEF ExtCheck
    <3> QED BY <3>1, <3>2
  <2>3. gie' \in [Harts -> BOOLEAN] BY <1>2 DEF TypeOK, ExtCheck
  <2> QED BY <1>2, <2>2, <2>3 DEF TypeOK, ExtCheck, plic, clint, ghosts
<1>3. CASE ExtClaim(h)
  <2> DEFINE s == Claimed(h)
  <2>2. s \in Sources \cup {None} BY ClaimRight
  <2> HIDE DEF s
  <2>4. stack' \in [Harts -> Seq(Frames)] BY <1>3, ClaimFacts
  <2>5. threshold' = [threshold EXCEPT ![h] = IF s = None THEN 0 ELSE Priority[s]]
    BY <1>3 DEF ExtClaim, s
  <2>6. (IF s = None THEN 0 ELSE Priority[s]) \in 0 .. MaxPriority
    BY <2>2, PriorityAssumption
  <2>7. threshold' \in [Harts -> 0 .. MaxPriority] BY <2>5, <2>6 DEF TypeOK
  <2>8. source' \in [Sources -> {"open", "pending", "claimed"}] BY <1>3 DEF TypeOK, ExtClaim
  <2>9. mie' \in [Harts -> SUBSET Kinds] /\ gie' \in [Harts -> BOOLEAN] BY <1>3 DEF TypeOK, ExtClaim
  <2> QED BY <1>3, <2>4, <2>7, <2>8, <2>9 DEF TypeOK, ExtClaim, clint, ghosts
<1>4. CASE ExtComplete(h)
  <2>1. stack[h] # <<>> BY <1>4 DEF ExtComplete, InFrame
  <2>2. stack' \in [Harts -> Seq(Frames)] BY <1>4, <2>1, GotoTypes DEF ExtComplete
  <2>3. source' \in [Sources -> {"open", "pending", "claimed"}] BY <1>4 DEF TypeOK, ExtComplete
  <2> QED BY <1>4, <2>2, <2>3 DEF TypeOK, ExtComplete, clint, ghosts
<1>5. CASE ExtLeave(h)
  <2>1. stack[h] # <<>> /\ Frame(h) \in Frames BY <1>5, StackFacts DEF ExtLeave, InFrame
  <2>2. stack' \in [Harts -> Seq(Frames)] BY <1>5, <2>1, PopFacts DEF ExtLeave
  <2>3. Frame(h).mie \in SUBSET Kinds /\ Frame(h).threshold \in 0 .. MaxPriority
    BY <2>1 DEF Frames
  <2> QED BY <1>5, <2>2, <2>3 DEF TypeOK, ExtLeave, clint, ghosts
<1>6. CASE TimerEnter(h)
  <2>1. stack' \in [Harts -> Seq(Frames)]
    BY <1>6, EnterTypes DEF TimerEnter, NewFrame, Kinds
  <2>2. asked' \in [Harts -> {"stop", "start", "expired"}] BY <1>6 DEF TypeOK, TimerEnter
  <2> QED BY <1>6, <2>1, <2>2 DEF TypeOK, TimerEnter, plic, clint
<1>7. CASE TimerLeave(h)
  <2>1. stack[h] # <<>> /\ Frame(h) \in Frames BY <1>7, StackFacts DEF TimerLeave, InFrame
  <2>2. stack' \in [Harts -> Seq(Frames)] BY <1>7, <2>1, PopFacts DEF TimerLeave
  <2>3. Frame(h).mie \in SUBSET Kinds BY <2>1 DEF Frames
  <2>4. mie' \in [Harts -> SUBSET Kinds]
    <3>1. Frame(h).mie \ {"timer"} \in SUBSET Kinds BY <2>3
    <3>2. CASE shot[h] BY <1>7, <3>1, <3>2 DEF TypeOK, TimerLeave
    <3>3. CASE ~shot[h] BY <1>7, <2>3, <3>3 DEF TypeOK, TimerLeave
    <3> QED BY <3>2, <3>3
  <2>5. due' \in [Harts -> BOOLEAN] BY <1>7 DEF TypeOK, TimerLeave
  <2> QED BY <1>7, <2>2, <2>4, <2>5 DEF TypeOK, TimerLeave, plic, ghosts
<1>8. CASE SoftEnter(h)
  <2>1. stack' \in [Harts -> Seq(Frames)] BY <1>8, EnterTypes DEF SoftEnter, NewFrame, Kinds
  <2> QED BY <1>8, <2>1 DEF TypeOK, SoftEnter, plic, clint, ghosts
<1>9. CASE SoftClear(h)
  <2>1. stack[h] # <<>> BY <1>9 DEF SoftClear, InFrame
  <2>2. stack' \in [Harts -> Seq(Frames)] BY <1>9, <2>1, GotoTypes DEF SoftClear
  <2> QED BY <1>9, <2>2 DEF TypeOK, SoftClear, plic
<1>10. CASE SoftLeave(h)
  <2>1. stack[h] # <<>> BY <1>10 DEF SoftLeave, InFrame
  <2>2. stack' \in [Harts -> Seq(Frames)] BY <1>10, <2>1, PopFacts DEF SoftLeave
  <2>3. mie' \in [Harts -> SUBSET Kinds] BY <1>10 DEF TypeOK, SoftLeave, Kinds
  <2> QED BY <1>10, <2>2, <2>3 DEF TypeOK, SoftLeave, plic, clint, ghosts
<1>11. CASE Callback(h)
  <2>1. stack[h] # <<>> BY <1>11 DEF Callback
  <2>2. stack' \in [Harts -> Seq(Frames)] BY <1>11, <2>1, GotoTypes DEF Callback
  <2>3. CASE UNCHANGED <<plic, clint, mie, gie, rmw, ghosts>>
    BY <2>2, <2>3 DEF TypeOK, plic, clint, ghosts
  <2>4. CASE Do(h, CallbackOps) BY <2>2, <2>4, DoTypes
  <2>5. CASE Frame(h).irq # None /\ Disable(h, Frame(h).irq)
    <3>1. Frame(h).irq \in Sources BY <2>1, <2>5, StackFacts DEF Frames
    <3> QED BY <2>2, <2>5, <3>1 DEF TypeOK, Disable, clint
  <2> QED BY <1>11, <2>3, <2>4, <2>5 DEF Callback
<1> QED BY <1>1, <1>2, <1>3, <1>4, <1>5, <1>6, <1>7, <1>8, <1>9, <1>10, <1>11
        DEF Handler, Ext, Timer, Soft

LEMMA StepTypes == ASSUME TypeOK, [Next]_vars PROVE TypeOK'
<1>1. ASSUME NEW h \in Harts, Handler(h) PROVE TypeOK' BY <1>1, HandlerTypes
<1>2. ASSUME NEW h \in Harts, Thread(h) PROVE TypeOK' BY <1>2, DoTypes DEF Thread, TypeOK
<1>3. ASSUME NEW h \in Harts, Tick(h) PROVE TypeOK' BY <1>3 DEF Tick, TypeOK, plic, ghosts
<1>4. ASSUME NEW h \in Harts, EnableWrite(h) PROVE TypeOK'
  <2>1. rmw[h] \in SUBSET Sources BY <1>4 DEF EnableWrite, TypeOK
  <2> QED BY <1>4, <2>1 DEF EnableWrite, TypeOK, clint, ghosts
<1>5. ASSUME NEW h \in Harts, NEW s \in Sources, EnableRead(h, s) PROVE TypeOK'
  <2>1. enable[h] \cup {s} \in SUBSET Sources /\ off[h] \ {s} \in SUBSET Sources BY DEF TypeOK
  <2> QED BY <1>5, <2>1 DEF EnableRead, TypeOK, plic, clint
<1>6. ASSUME NEW s \in Sources, Raise(s) PROVE TypeOK' BY <1>6 DEF Raise, TypeOK, clint, ghosts
<1>7. CASE UNCHANGED vars BY <1>7 DEF TypeOK, vars
<1> QED BY <1>1, <1>2, <1>3, <1>4, <1>5, <1>6, <1>7 DEF Next

LEMMA InitTypes == ASSUME Init PROVE TypeOK
<1>1. threshold \in [Harts -> 0 .. MaxPriority] BY PriorityAssumption DEF Init
<1>2. enable \in [Harts -> SUBSET Sources] BY EnableAssumption DEF Init
<1>3. stack \in [Harts -> Seq(Frames)] BY DEF Init
<1> QED BY <1>1, <1>2, <1>3 DEF Init, TypeOK, Kinds

\* Type correctness.
THEOREM TypeCorrect == Spec => []TypeOK
<1>1. Init => TypeOK BY InitTypes
<1>2. TypeOK /\ [Next]_vars => TypeOK' BY StepTypes
<1> QED BY <1>1, <1>2, PTL DEF Spec
-----------------------------------------------------------------------------
(***************************************************************************)
(* NoReentry.                                                              *)
(***************************************************************************)
\* Frame i of h's stack runs the callback of s, or has, and has not completed.
Runs(h, i, s) == stack[h][i].irq = s /\ stack[h][i].at \in {"body", "after"}

\* A frame has no source before its claim.
Unclaimed == \A h \in Harts : \A i \in 1 .. Top(h) :
    stack[h][i].at \in {"check", "claim", "clear"} => stack[h][i].irq = None

\* While a source is handled its gateway is closed: no claim returns it.
Held == \A h \in Harts, s \in Sources : \A i \in 1 .. Top(h) :
    Runs(h, i, s) => source[s] = "claimed"

Once == \A h, g \in Harts, s \in Sources : \A i \in 1 .. Top(h), j \in 1 .. Top(g) :
    Runs(h, i, s) /\ Runs(g, j, s) => h = g /\ i = j

\* A step that starts no handling and completes none.
LEMMA NoMoreRuns ==
    ASSUME Held, Once,
           \A h \in Harts, s \in Sources : \A i \in 1 .. Top(h)' :
               Runs(h, i, s)' => i \in 1 .. Top(h) /\ Runs(h, i, s),
           \A s \in Sources : source[s] = "claimed" => source'[s] = "claimed"
    PROVE  Held' /\ Once'
  BY DEF Held, Once

LEMMA SameStack ==
    ASSUME Unclaimed, Held, Once, stack' = stack,
           \A s \in Sources : source[s] = "claimed" => source'[s] = "claimed"
    PROVE  (Unclaimed /\ Held /\ Once)'
<1>1. Unclaimed' BY DEF Unclaimed, Top
<1>2. \A h \in Harts, s \in Sources : \A i \in 1 .. Top(h)' :
         Runs(h, i, s)' => i \in 1 .. Top(h) /\ Runs(h, i, s) BY DEF Top, Runs
<1> QED BY <1>1, <1>2, NoMoreRuns

\* A trap that enters, and a handler that leaves its own last frame.
LEMMA EnterOnce ==
    ASSUME TypeOK, Unclaimed, Held, Once, NEW h \in Harts, NEW kind \in Kinds,
           NEW at \in {"check", "clear", "body"}, Push(h, NewFrame(h, kind, at)),
           source' = source
    PROVE  (Unclaimed /\ Held /\ Once)'
<1>1. /\ Top(h)' = Top(h) + 1 /\ Top(h) \in Nat
      /\ \A i \in 1 .. Top(h) : stack'[h][i] = stack[h][i]
      /\ stack'[h][Top(h) + 1].irq = None
      /\ \A g \in Harts : g # h => stack'[g] = stack[g] /\ Top(g)' = Top(g)
  BY EnterFacts
<1>2. \A i \in 1 .. Top(h) + 1 : i \in 1 .. Top(h) \/ i = Top(h) + 1 BY <1>1
<1>3. Unclaimed'
  <2> SUFFICES ASSUME NEW g \in Harts, NEW i \in 1 .. Top(g)',
                      stack'[g][i].at \in {"check", "claim", "clear"}
               PROVE  stack'[g][i].irq = None BY DEF Unclaimed
  <2>1. CASE g = h BY <2>1, <1>1, <1>2 DEF Unclaimed
  <2>2. CASE g # h BY <2>2, <1>1 DEF Unclaimed
  <2> QED BY <2>1, <2>2
<1>4. ASSUME NEW g \in Harts, NEW s \in Sources, NEW i \in 1 .. Top(g)', Runs(g, i, s)'
      PROVE  i \in 1 .. Top(g) /\ Runs(g, i, s)
  <2>1. s # None BY SourceAssumption DEF None
  <2>2. CASE g = h BY <2>1, <2>2, <1>1, <1>2, <1>4 DEF Runs
  <2>3. CASE g # h BY <2>3, <1>1, <1>4 DEF Runs
  <2> QED BY <2>2, <2>3
<1> QED BY <1>3, <1>4, NoMoreRuns

LEMMA LeaveOnce ==
    ASSUME TypeOK, Unclaimed, Held, Once, NEW h \in Harts, stack[h] # <<>>, Pop(h),
           source' = source
    PROVE  (Unclaimed /\ Held /\ Once)'
<1>1. /\ Top(h)' = Top(h) - 1 /\ Top(h) \in Nat \ {0}
      /\ \A i \in 1 .. Top(h) - 1 : i \in 1 .. Top(h) /\ stack'[h][i] = stack[h][i]
      /\ \A g \in Harts : g # h => stack'[g] = stack[g] /\ Top(g)' = Top(g)
  BY LeaveFacts
<1>2. \A g \in Harts : \A i \in 1 .. Top(g)' : i \in 1 .. Top(g) /\ stack'[g][i] = stack[g][i]
  BY <1>1
<1>3. Unclaimed' BY <1>2 DEF Unclaimed
<1>4. \A g \in Harts, s \in Sources : \A i \in 1 .. Top(g)' :
          Runs(g, i, s)' => i \in 1 .. Top(g) /\ Runs(g, i, s)
  BY <1>2 DEF Runs
<1> QED BY <1>3, <1>4, NoMoreRuns

LEMMA GotoOnce ==
    ASSUME TypeOK, Unclaimed, Held, Once, NEW h \in Harts, stack[h] # <<>>,
           NEW at \in {"claim", "body", "after"}, GotoIn(h, at), source' = source,
           at = "claim" => Frame(h).at = "check",
           at = "body" => Frame(h).at = "clear", at = "after" => Frame(h).at = "body"
    PROVE  (Unclaimed /\ Held /\ Once)'
<1>1. /\ Top(h)' = Top(h) /\ Top(h) \in Nat \ {0}
      /\ \A i \in 1 .. Top(h) : i # Top(h) => stack'[h][i] = stack[h][i]
      /\ stack'[h][Top(h)].at = at
      /\ stack'[h][Top(h)].irq = stack[h][Top(h)].irq
      /\ \A g \in Harts : g # h => stack'[g] = stack[g] /\ Top(g)' = Top(g)
  BY GotoFacts
<1>2. Frame(h) = stack[h][Top(h)] /\ Top(h) \in 1 .. Top(h) BY TopFacts
<1>3. Unclaimed'
  <2> SUFFICES ASSUME NEW g \in Harts, NEW i \in 1 .. Top(g)',
                      stack'[g][i].at \in {"check", "claim", "clear"}
               PROVE  stack'[g][i].irq = None BY DEF Unclaimed
  <2>1. CASE g = h /\ i = Top(h) BY <2>1, <1>1, <1>2 DEF Unclaimed
  <2>2. CASE g # h \/ i # Top(h) BY <2>2, <1>1 DEF Unclaimed
  <2> QED BY <2>1, <2>2
<1>4. ASSUME NEW g \in Harts, NEW s \in Sources, NEW i \in 1 .. Top(g)', Runs(g, i, s)'
      PROVE  i \in 1 .. Top(g) /\ Runs(g, i, s)
  <2>1. s # None BY SourceAssumption DEF None
  <2>2. CASE g = h /\ i = Top(h)
    <3>1. stack[h][i].irq = s /\ at \in {"body", "after"} BY <2>2, <1>1, <1>4 DEF Runs
    <3>2. CASE at = "body" BY <3>1, <3>2, <2>1, <2>2, <1>2 DEF Unclaimed
    <3>3. CASE at = "after" BY <3>1, <3>3, <2>2, <1>2 DEF Runs
    <3> QED BY <3>1, <3>2, <3>3
  <2>3. CASE g # h \/ i # Top(h) BY <2>3, <1>1, <1>4 DEF Runs
  <2> QED BY <2>2, <2>3
<1> QED BY <1>3, <1>4, NoMoreRuns

LEMMA ClaimOnce ==
    ASSUME TypeOK, Unclaimed, Held, Once, NEW h \in Harts, ExtClaim(h)
    PROVE  (Unclaimed /\ Held /\ Once)'
<1> PICK s : s = Claimed(h) OBVIOUS
<1>1. /\ Top(h)' = Top(h) /\ Top(h) \in Nat \ {0}
      /\ \A i \in 1 .. Top(h) : i # Top(h) => stack'[h][i] = stack[h][i]
      /\ stack'[h][Top(h)].at = "body" /\ stack'[h][Top(h)].irq = s
      /\ \A g \in Harts : g # h => stack'[g] = stack[g] /\ Top(g)' = Top(g)
  BY ClaimFacts
<1>2. s # None => s \in Sources /\ source[s] = "pending" BY ClaimRight
<1>3. source' = IF s = None THEN source ELSE [source EXCEPT ![s] = "claimed"]
  BY DEF ExtClaim
<1>4. /\ s # None => source'[s] = "claimed"
      /\ \A t \in Sources : source[t] = "claimed" => source'[t] = "claimed"
  BY <1>2, <1>3 DEF TypeOK
<1>5. Unclaimed'
  <2> SUFFICES ASSUME NEW g \in Harts, NEW i \in 1 .. Top(g)',
                      stack'[g][i].at \in {"check", "claim", "clear"}
               PROVE  stack'[g][i].irq = None BY DEF Unclaimed
  <2> QED BY <1>1 DEF Unclaimed
\* either the new handling, or one there was
<1>6. ASSUME NEW g \in Harts, NEW t \in Sources, NEW i \in 1 .. Top(g)', Runs(g, i, t)'
      PROVE  \/ g = h /\ i = Top(h) /\ t = s
             \/ i \in 1 .. Top(g) /\ Runs(g, i, t) /\ t # s
  <2>1. CASE g = h /\ i = Top(h) BY <2>1, <1>1, <1>6 DEF Runs
  <2>2. CASE g # h \/ i # Top(h)
    <3>1. i \in 1 .. Top(g) /\ Runs(g, i, t) BY <2>2, <1>1, <1>6 DEF Runs
    <3>2. source[t] = "claimed" BY <3>1 DEF Held
    <3>3. t # None BY SourceAssumption DEF None
    <3> QED BY <3>1, <3>2, <3>3, <1>2
  <2> QED BY <2>1, <2>2
<1>7. Held'
  <2> SUFFICES ASSUME NEW g \in Harts, NEW t \in Sources, NEW i \in 1 .. Top(g)', Runs(g, i, t)'
               PROVE  source'[t] = "claimed" BY DEF Held
  <2>1. t # None BY SourceAssumption DEF None
  <2> QED BY <2>1, <1>4, <1>6 DEF Held
<1>8. Once'
  <2> SUFFICES ASSUME NEW g \in Harts, NEW k \in Harts, NEW t \in Sources,
                      NEW i \in 1 .. Top(g)', NEW j \in 1 .. Top(k)',
                      Runs(g, i, t)', Runs(k, j, t)'
               PROVE  g = k /\ i = j BY DEF Once
  <2>1. \/ g = h /\ i = Top(h) /\ t = s
        \/ i \in 1 .. Top(g) /\ Runs(g, i, t) /\ t # s BY <1>6
  <2>2. \/ k = h /\ j = Top(h) /\ t = s
        \/ j \in 1 .. Top(k) /\ Runs(k, j, t) /\ t # s BY <1>6
  <2> QED BY <2>1, <2>2 DEF Once
<1> QED BY <1>5, <1>7, <1>8

LEMMA CompleteOnce ==
    ASSUME TypeOK, Unclaimed, Held, Once, NEW h \in Harts, ExtComplete(h)
    PROVE  (Unclaimed /\ Held /\ Once)'
<1>0. stack[h] # <<>> /\ Frame(h).at = "after" /\ GotoIn(h, "leave") BY DEF ExtComplete, InFrame
<1>1. /\ Top(h)' = Top(h) /\ Top(h) \in Nat \ {0}
      /\ \A i \in 1 .. Top(h) : i # Top(h) => stack'[h][i] = stack[h][i]
      /\ stack'[h][Top(h)].at = "leave"
      /\ \A g \in Harts : g # h => stack'[g] = stack[g] /\ Top(g)' = Top(g)
  BY <1>0, GotoFacts
<1>2. Frame(h) = stack[h][Top(h)] /\ Top(h) \in 1 .. Top(h) BY <1>0, TopFacts
<1>3. Unclaimed'
  <2> SUFFICES ASSUME NEW g \in Harts, NEW i \in 1 .. Top(g)',
                      stack'[g][i].at \in {"check", "claim", "clear"}
               PROVE  stack'[g][i].irq = None BY DEF Unclaimed
  <2> QED BY <1>1 DEF Unclaimed
<1>4. ASSUME NEW g \in Harts, NEW t \in Sources, NEW i \in 1 .. Top(g)', Runs(g, i, t)'
      PROVE  i \in 1 .. Top(g) /\ Runs(g, i, t) /\ (g # h \/ i # Top(h))
  BY <1>1, <1>4 DEF Runs
\* what is completed is handled no more, by Once
<1>5. Held'
  <2> SUFFICES ASSUME NEW g \in Harts, NEW t \in Sources, NEW i \in 1 .. Top(g)', Runs(g, i, t)'
               PROVE  source'[t] = "claimed" BY DEF Held
  <2>1. i \in 1 .. Top(g) /\ Runs(g, i, t) /\ (g # h \/ i # Top(h)) BY <1>4
  <2>2. source[t] = "claimed" BY <2>1 DEF Held
  <2>3. t # Frame(h).irq
    <3>1. t = Frame(h).irq => Runs(h, Top(h), t) BY <1>0, <1>2 DEF Runs
    <3> QED BY <3>1, <2>1, <1>2 DEF Once
  <2> QED BY <2>2, <2>3 DEF ExtComplete, TypeOK
<1>6. Once' BY <1>4 DEF Once
<1> QED BY <1>3, <1>5, <1>6

LEMMA StepOnce ==
    ASSUME TypeOK, Unclaimed, Held, Once, [Next]_vars
    PROVE  (Unclaimed /\ Held /\ Once)'
<1>1. ASSUME NEW h \in Harts, Handler(h) PROVE (Unclaimed /\ Held /\ Once)'
  <2>1. CASE ExtEnter(h)
    BY <2>1, EnterOnce DEF ExtEnter, Enter, NewFrame, Kinds, plic
  <2>2. CASE ExtCheck(h)
    <3>1. stack[h] # <<>> /\ Frame(h).at = "check" /\ source' = source
      BY <2>2 DEF ExtCheck, InFrame, plic
    <3>2. CASE Meip(h) BY <2>2, <3>1, <3>2, GotoOnce DEF ExtCheck
    <3>3. CASE ~Meip(h) BY <2>2, <3>1, <3>3, LeaveOnce DEF ExtCheck
    <3> QED BY <3>2, <3>3
  <2>3. CASE ExtClaim(h) BY <2>3, ClaimOnce
  <2>4. CASE ExtComplete(h) BY <2>4, CompleteOnce
  <2>5. CASE ExtLeave(h) BY <2>5, LeaveOnce DEF ExtLeave, InFrame
  <2>6. CASE TimerEnter(h) BY <2>6, EnterOnce DEF TimerEnter, NewFrame, Kinds, plic
  <2>7. CASE TimerLeave(h) BY <2>7, LeaveOnce DEF TimerLeave, InFrame, plic
  <2>8. CASE SoftEnter(h) BY <2>8, EnterOnce DEF SoftEnter, NewFrame, Kinds, plic
  <2>9. CASE SoftClear(h) BY <2>9, GotoOnce DEF SoftClear, InFrame, plic
  <2>10. CASE SoftLeave(h) BY <2>10, LeaveOnce DEF SoftLeave, InFrame, plic
  <2>11. CASE Callback(h)
    <3>1. source' = source
      BY <2>11 DEF Callback, Do, Stop, Start, Send, Disable, plic
    <3> QED BY <2>11, <3>1, GotoOnce DEF Callback
  <2> QED BY <1>1, <2>1, <2>2, <2>3, <2>4, <2>5, <2>6, <2>7, <2>8, <2>9, <2>10, <2>11
          DEF Handler, Ext, Timer, Soft
<1>2. ASSUME stack' = stack, source' = source PROVE (Unclaimed /\ Held /\ Once)'
  BY <1>2, SameStack
<1>3. ASSUME NEW h \in Harts, Thread(h) PROVE (Unclaimed /\ Held /\ Once)'
  BY <1>2, <1>3 DEF Thread, Do, Stop, Start, Send, plic
<1>4. ASSUME NEW h \in Harts, Tick(h) PROVE (Unclaimed /\ Held /\ Once)'
  BY <1>2, <1>4 DEF Tick, plic
<1>5. ASSUME NEW h \in Harts, EnableWrite(h) PROVE (Unclaimed /\ Held /\ Once)'
  BY <1>2, <1>5 DEF EnableWrite
<1>6. ASSUME NEW h \in Harts, NEW s \in Sources, EnableRead(h, s)
      PROVE  (Unclaimed /\ Held /\ Once)'
  BY <1>2, <1>6 DEF EnableRead, plic
<1>7. ASSUME NEW s \in Sources, Raise(s) PROVE (Unclaimed /\ Held /\ Once)'
  <2>1. \A t \in Sources : source[t] = "claimed" => source'[t] = "claimed"
    BY <1>7 DEF Raise, TypeOK
  <2> QED BY <1>7, <2>1, SameStack DEF Raise
<1>8. CASE UNCHANGED vars BY <1>2, <1>8 DEF vars
<1> QED BY <1>1, <1>3, <1>4, <1>5, <1>6, <1>7, <1>8 DEF Next

LEMMA OnceMeans == ASSUME TypeOK, Once PROVE NoReentry
<1>1. \A h \in Harts : DOMAIN stack[h] = 1 .. Top(h) BY StackFacts
<1>2. ASSUME NEW h \in Harts, NEW g \in Harts, NEW s \in Sources, Handling(h, s), Handling(g, s)
      PROVE  h = g
  <2>1. PICK i \in 1 .. Top(h) : Runs(h, i, s) BY <1>1, <1>2 DEF Handling, Runs
  <2>2. PICK j \in 1 .. Top(g) : Runs(g, j, s) BY <1>1, <1>2 DEF Handling, Runs
  <2> QED BY <2>1, <2>2 DEF Once
<1>3. ASSUME NEW h \in Harts, NEW i \in 1 .. Top(h), NEW j \in 1 .. Top(h),
             stack[h][i].irq = stack[h][j].irq, stack[h][i].irq # None,
             {stack[h][i].at, stack[h][j].at} \subseteq {"body", "after"}
      PROVE  i = j
  <2>1. stack[h][i].irq \in Sources BY <1>3, StackFacts DEF Frames
  <2>2. Runs(h, i, stack[h][i].irq) /\ Runs(h, j, stack[h][i].irq) BY <1>3 DEF Runs
  <2> QED BY <2>1, <2>2 DEF Once
<1> QED BY <1>1, <1>2, <1>3 DEF NoReentry

\* A source is never in two handlers at once, on one hart or on two, for any
\* sources, priorities, harts and enables, whatever callbacks and threads do.
THEOREM NeverTwice == Spec => []NoReentry
<1>1. Init => TypeOK /\ Unclaimed /\ Held /\ Once
  <2>1. ASSUME Init PROVE Unclaimed /\ Held /\ Once
    <3>1. \A h \in Harts : Top(h) = 0 BY <2>1 DEF Init, Top
    <3> QED BY <3>1 DEF Unclaimed, Held, Once
  <2> QED BY <2>1, InitTypes
<1>2. TypeOK /\ Unclaimed /\ Held /\ Once /\ [Next]_vars
        => (TypeOK /\ Unclaimed /\ Held /\ Once)'
  BY StepTypes, StepOnce
<1>3. TypeOK /\ Once => NoReentry BY OnceMeans
<1> QED BY <1>1, <1>2, <1>3, PTL DEF Spec

-----------------------------------------------------------------------------
(***************************************************************************)
(* GateReopens.                                                            *)
(***************************************************************************)
\* A hart's sources are among those it had enabled at the start.
Words == \A h \in Harts : /\ enable[h] \subseteq Enabled[h] /\ off[h] \subseteq Enabled[h]
                          /\ rmw[h] = NoWord \/ rmw[h] \subseteq Enabled[h]

\* So are those its frames have claimed, which external interrupts do only.
Own == \A h \in Harts : \A i \in 1 .. Top(h) :
    /\ stack[h][i].irq \in Enabled[h] \cup {None}
    /\ stack[h][i].kind # "ext" => stack[h][i].irq = None

LEMMA EnterOwn ==
    ASSUME TypeOK, Own, NEW h \in Harts, NEW kind \in Kinds,
           NEW at \in {"check", "clear", "body"}, Push(h, NewFrame(h, kind, at))
    PROVE  Own'
<1>1. /\ Top(h)' = Top(h) + 1 /\ Top(h) \in Nat
      /\ \A i \in 1 .. Top(h) : stack'[h][i] = stack[h][i]
      /\ stack'[h][Top(h) + 1].irq = None
      /\ \A g \in Harts : g # h => stack'[g] = stack[g] /\ Top(g)' = Top(g)
  BY EnterFacts
<1>2. \A i \in 1 .. Top(h) + 1 : i \in 1 .. Top(h) \/ i = Top(h) + 1 BY <1>1
<1> SUFFICES ASSUME NEW g \in Harts, NEW i \in 1 .. Top(g)'
             PROVE  /\ stack'[g][i].irq \in Enabled[g] \cup {None}
                    /\ stack'[g][i].kind # "ext" => stack'[g][i].irq = None
  BY DEF Own
<1>3. CASE g = h BY <1>3, <1>1, <1>2 DEF Own
<1>4. CASE g # h BY <1>4, <1>1 DEF Own
<1> QED BY <1>3, <1>4

LEMMA LeaveOwn ==
    ASSUME TypeOK, Own, NEW h \in Harts, stack[h] # <<>>, Pop(h)
    PROVE  Own'
<1>1. /\ Top(h)' = Top(h) - 1 /\ Top(h) \in Nat \ {0}
      /\ \A i \in 1 .. Top(h) - 1 : i \in 1 .. Top(h) /\ stack'[h][i] = stack[h][i]
      /\ \A g \in Harts : g # h => stack'[g] = stack[g] /\ Top(g)' = Top(g)
  BY LeaveFacts
<1>2. \A g \in Harts : \A i \in 1 .. Top(g)' : i \in 1 .. Top(g) /\ stack'[g][i] = stack[g][i]
  BY <1>1
<1> QED BY <1>2 DEF Own

LEMMA GotoOwn ==
    ASSUME TypeOK, Own, NEW h \in Harts, stack[h] # <<>>,
           NEW at \in {"check", "claim", "clear", "body", "after", "leave"}, GotoIn(h, at)
    PROVE  Own'
<1>1. /\ Top(h)' = Top(h) /\ Top(h) \in Nat \ {0}
      /\ \A i \in 1 .. Top(h) : i # Top(h) => stack'[h][i] = stack[h][i]
      /\ stack'[h][Top(h)].kind = stack[h][Top(h)].kind
      /\ stack'[h][Top(h)].irq = stack[h][Top(h)].irq
      /\ \A g \in Harts : g # h => stack'[g] = stack[g] /\ Top(g)' = Top(g)
  BY GotoFacts
<1> SUFFICES ASSUME NEW g \in Harts, NEW i \in 1 .. Top(g)'
             PROVE  /\ stack'[g][i].irq \in Enabled[g] \cup {None}
                    /\ stack'[g][i].kind # "ext" => stack'[g][i].irq = None
  BY DEF Own
<1>2. CASE g = h /\ i = Top(h) BY <1>2, <1>1 DEF Own
<1>3. CASE g # h \/ i # Top(h) BY <1>3, <1>1 DEF Own
<1> QED BY <1>2, <1>3

LEMMA ClaimOwn ==
    ASSUME TypeOK, Own, Words, NEW h \in Harts, ExtClaim(h)
    PROVE  Own'
<1> PICK s : s = Claimed(h) OBVIOUS
<1>1. /\ Top(h)' = Top(h) /\ Top(h) \in Nat \ {0}
      /\ \A i \in 1 .. Top(h) : i # Top(h) => stack'[h][i] = stack[h][i]
      /\ stack'[h][Top(h)].kind = "ext" /\ stack'[h][Top(h)].irq = s
      /\ \A g \in Harts : g # h => stack'[g] = stack[g] /\ Top(g)' = Top(g)
  BY ClaimFacts
<1>2. s \in Enabled[h] \cup {None} BY ClaimRight DEF Words
<1> SUFFICES ASSUME NEW g \in Harts, NEW i \in 1 .. Top(g)'
             PROVE  /\ stack'[g][i].irq \in Enabled[g] \cup {None}
                    /\ stack'[g][i].kind # "ext" => stack'[g][i].irq = None
  BY DEF Own
<1>3. CASE g = h /\ i = Top(h) BY <1>3, <1>1, <1>2
<1>4. CASE g # h \/ i # Top(h) BY <1>4, <1>1 DEF Own
<1> QED BY <1>3, <1>4

LEMMA StepOwn == ASSUME TypeOK, Own, Words, [Next]_vars PROVE Own' /\ Words'
<1>0. ASSUME enable' = enable, off' = off, rmw' = rmw PROVE Words' BY <1>0 DEF Words
<1>1. ASSUME NEW h \in Harts, Handler(h) PROVE Own' /\ Words'
  <2>1. CASE ExtEnter(h)
    BY <2>1, <1>0, EnterOwn DEF ExtEnter, Enter, NewFrame, Kinds, plic, ghosts
  <2>2. CASE ExtCheck(h)
    <3>1. stack[h] # <<>> /\ Words' BY <2>2, <1>0 DEF ExtCheck, InFrame, plic, ghosts
    <3>2. CASE Meip(h) BY <2>2, <3>1, <3>2, GotoOwn DEF ExtCheck
    <3>3. CASE ~Meip(h) BY <2>2, <3>1, <3>3, LeaveOwn DEF ExtCheck
    <3> QED BY <3>2, <3>3
  <2>3. CASE ExtClaim(h) BY <2>3, <1>0, ClaimOwn DEF ExtClaim, ghosts
  <2>4. CASE ExtComplete(h) BY <2>4, <1>0, GotoOwn DEF ExtComplete, InFrame, ghosts
  <2>5. CASE ExtLeave(h) BY <2>5, <1>0, LeaveOwn DEF ExtLeave, InFrame, ghosts
  <2>6. CASE TimerEnter(h) BY <2>6, <1>0, EnterOwn DEF TimerEnter, NewFrame, Kinds, plic
  <2>7. CASE TimerLeave(h) BY <2>7, <1>0, LeaveOwn DEF TimerLeave, InFrame, plic, ghosts
  <2>8. CASE SoftEnter(h) BY <2>8, <1>0, EnterOwn DEF SoftEnter, NewFrame, Kinds, plic, ghosts
  <2>9. CASE SoftClear(h) BY <2>9, <1>0, GotoOwn DEF SoftClear, InFrame, plic
  <2>10. CASE SoftLeave(h) BY <2>10, <1>0, LeaveOwn DEF SoftLeave, InFrame, plic, ghosts
  <2>11. CASE Callback(h)
    <3>1. stack[h] # <<>> /\ GotoIn(h, "after") BY <2>11 DEF Callback
    <3>2. Own' BY <3>1, GotoOwn
    <3>3. CASE UNCHANGED <<plic, clint, mie, gie, rmw, ghosts>>
      BY <3>2, <3>3, <1>0 DEF plic, ghosts
    <3>4. CASE Do(h, CallbackOps) BY <3>2, <3>4, <1>0 DEF Do, Stop, Start, Send, plic
    <3>5. CASE Frame(h).irq # None /\ Disable(h, Frame(h).irq)
      <4>1. Frame(h).irq \in Enabled[h] BY <3>1, <3>5, TopFacts DEF Own
      <4> QED BY <3>2, <3>5, <4>1 DEF Words, Disable, TypeOK
    <3> QED BY <2>11, <3>3, <3>4, <3>5 DEF Callback
  <2> QED BY <1>1, <2>1, <2>2, <2>3, <2>4, <2>5, <2>6, <2>7, <2>8, <2>9, <2>10, <2>11
          DEF Handler, Ext, Timer, Soft
<1>2. ASSUME stack' = stack PROVE Own' BY <1>2 DEF Own, Top
<1>3. ASSUME NEW h \in Harts, Thread(h) PROVE Own' /\ Words'
  BY <1>0, <1>2, <1>3 DEF Thread, Do, Stop, Start, Send, plic
<1>4. ASSUME NEW h \in Harts, Tick(h) PROVE Own' /\ Words'
  BY <1>0, <1>2, <1>4 DEF Tick, plic, ghosts
<1>5. ASSUME NEW h \in Harts, EnableWrite(h) PROVE Own' /\ Words'
  <2>1. rmw[h] \subseteq Enabled[h] BY <1>5 DEF EnableWrite, Words
  <2>2. Words' BY <1>5, <2>1 DEF EnableWrite, Words, TypeOK, ghosts
  <2> QED BY <1>2, <1>5, <2>2 DEF EnableWrite
<1>6. ASSUME NEW h \in Harts, NEW s \in Sources, EnableRead(h, s) PROVE Own' /\ Words'
  <2>1. enable[h] \cup {s} \subseteq Enabled[h] BY <1>6 DEF EnableRead, Words
  <2>2. Words' BY <1>6, <2>1 DEF EnableRead, Words, TypeOK, plic
  <2> QED BY <1>2, <1>6, <2>2 DEF EnableRead
<1>7. ASSUME NEW s \in Sources, Raise(s) PROVE Own' /\ Words'
  BY <1>0, <1>2, <1>7 DEF Raise, ghosts
<1>8. CASE UNCHANGED vars BY <1>0, <1>2, <1>8 DEF vars
<1> QED BY <1>1, <1>3, <1>4, <1>5, <1>6, <1>7, <1>8 DEF Next

\* Without a callback that disables its source, nothing is ever disabled.
Fixed == \A h \in Harts : enable[h] = Enabled[h] /\ off[h] = {} /\ rmw[h] = NoWord

LEMMA StepFixed ==
    ASSUME "disable" \notin CallbackOps, TypeOK, Fixed, [Next]_vars
    PROVE  Fixed'
<1>0. ASSUME enable' = enable, off' = off, rmw' = rmw PROVE Fixed' BY <1>0 DEF Fixed
<1>1. ASSUME NEW h \in Harts, Handler(h) PROVE Fixed'
  <2>1. CASE Ext(h)
    BY <2>1, <1>0 DEF Ext, ExtEnter, ExtCheck, ExtClaim, ExtComplete, ExtLeave, plic, ghosts
  <2>2. CASE Timer(h) BY <2>2, <1>0 DEF Timer, TimerEnter, TimerLeave, plic, ghosts
  <2>3. CASE Soft(h) BY <2>3, <1>0 DEF Soft, SoftEnter, SoftClear, SoftLeave, plic, ghosts
  <2>4. CASE Callback(h) BY <2>4, <1>0 DEF Callback, Do, Stop, Start, Send, plic, ghosts
  <2> QED BY <1>1, <2>1, <2>2, <2>3, <2>4 DEF Handler
<1>3. ASSUME NEW h \in Harts, Thread(h) PROVE Fixed'
  BY <1>0, <1>3 DEF Thread, Do, Stop, Start, Send, plic
<1>4. ASSUME NEW h \in Harts, Tick(h) PROVE Fixed' BY <1>0, <1>4 DEF Tick, plic, ghosts
<1>5. ASSUME NEW h \in Harts, EnableWrite(h) PROVE Fixed' BY <1>5 DEF Fixed, EnableWrite
<1>6. ASSUME NEW h \in Harts, NEW s \in Sources, EnableRead(h, s) PROVE Fixed'
  BY <1>6 DEF Fixed, EnableRead
<1>7. ASSUME NEW s \in Sources, Raise(s) PROVE Fixed' BY <1>0, <1>7 DEF Raise, ghosts
<1>8. CASE UNCHANGED vars BY <1>0, <1>8 DEF vars
<1> QED BY <1>1, <1>3, <1>4, <1>5, <1>6, <1>7, <1>8 DEF Next

\* A closed gateway has a handler that will open it.
Attended == \A s \in Sources : source[s] = "claimed" =>
    \E h \in Harts : \E i \in 1 .. Top(h) : Runs(h, i, s)

\* A step that keeps every handling, but for the last frame of hart h.
LEMMA KeepsRuns ==
    ASSUME Attended, NEW h \in Harts, Top(h) \in Nat, \A t \in Sources : ~Runs(h, Top(h), t),
           Top(h)' \in Nat, Top(h)' >= Top(h) - 1,
           \A i \in 1 .. Top(h) - 1 : stack'[h][i] = stack[h][i],
           \A g \in Harts : g # h => stack'[g] = stack[g] /\ Top(g)' = Top(g),
           \A s \in Sources : source'[s] = "claimed" => source[s] = "claimed"
    PROVE  Attended'
<1> SUFFICES ASSUME NEW s \in Sources, source'[s] = "claimed"
             PROVE  \E g \in Harts : \E i \in 1 .. Top(g)' : Runs(g, i, s)'
  BY DEF Attended
<1>1. PICK g \in Harts : \E i \in 1 .. Top(g) : Runs(g, i, s) BY DEF Attended
<1>1i. PICK i \in 1 .. Top(g) : Runs(g, i, s) BY <1>1
<1>2. CASE g = h
  <2>1. i # Top(h) BY <1>1i, <1>2
  <2>2. i \in 1 .. Top(h) - 1 /\ i \in 1 .. Top(h)' BY <1>2, <2>1
  <2> QED BY <1>1i, <1>2, <2>2 DEF Runs
<1>3. CASE g # h BY <1>1i, <1>3 DEF Runs
<1> QED BY <1>2, <1>3

LEMMA StepAttended ==
    ASSUME TypeOK, Unclaimed, Once, Own, Fixed, Attended, [Next]_vars
    PROVE  Attended'
<1>0. ASSUME stack' = stack, \A s \in Sources : source'[s] = "claimed" => source[s] = "claimed"
      PROVE  Attended'
  BY <1>0 DEF Attended, Runs, Top
<1>n. \A s \in Sources : s # None BY SourceAssumption DEF None
<1>e. ASSUME NEW h \in Harts, NEW kind \in Kinds, NEW at \in {"check", "clear", "body"},
             Push(h, NewFrame(h, kind, at)), source' = source
      PROVE  Attended'
  <2>1. /\ Top(h)' = Top(h) + 1 /\ Top(h) \in Nat
        /\ \A i \in 1 .. Top(h) : stack'[h][i] = stack[h][i]
        /\ \A g \in Harts : g # h => stack'[g] = stack[g] /\ Top(g)' = Top(g)
    BY <1>e, EnterFacts
  <2>2. \A i \in 1 .. Top(h) : i \in 1 .. Top(h) + 1 BY <2>1
  <2>3. \A g \in Harts : \A i \in 1 .. Top(g) : i \in 1 .. Top(g)' /\ stack'[g][i] = stack[g][i]
    BY <2>1, <2>2
  <2> QED BY <1>e, <2>3 DEF Attended, Runs
<1>l. ASSUME NEW h \in Harts, stack[h] # <<>>, Pop(h), source' = source,
             \A t \in Sources : ~Runs(h, Top(h), t)
      PROVE  Attended'
  <2>1. /\ Top(h)' = Top(h) - 1 /\ Top(h) \in Nat \ {0}
        /\ \A i \in 1 .. Top(h) - 1 : i \in 1 .. Top(h) /\ stack'[h][i] = stack[h][i]
        /\ \A g \in Harts : g # h => stack'[g] = stack[g] /\ Top(g)' = Top(g)
    BY <1>l, LeaveFacts
  <2> QED BY <1>l, <2>1, KeepsRuns
<1>g. ASSUME NEW h \in Harts, stack[h] # <<>>, NEW at \in {"claim", "body"}, GotoIn(h, at),
             source' = source, \A t \in Sources : ~Runs(h, Top(h), t)
      PROVE  Attended'
  <2>1. /\ Top(h)' = Top(h) /\ Top(h) \in Nat \ {0}
        /\ \A i \in 1 .. Top(h) : i # Top(h) => stack'[h][i] = stack[h][i]
        /\ \A g \in Harts : g # h => stack'[g] = stack[g] /\ Top(g)' = Top(g)
    BY <1>g, GotoFacts
  <2> QED BY <1>g, <2>1, KeepsRuns
<1>1. ASSUME NEW h \in Harts, Handler(h) PROVE Attended'
  <2>0. stack[h] # <<>> => Top(h) \in 1 .. Top(h) /\ Frame(h) = stack[h][Top(h)] BY TopFacts
  <2>u. ASSUME stack[h] # <<>>, Frame(h).at \notin {"body", "after"} \/ Frame(h).kind # "ext"
        PROVE  \A t \in Sources : ~Runs(h, Top(h), t)
    BY <2>0, <2>u, <1>n DEF Runs, Own
  <2>1. CASE ExtEnter(h)
    BY <2>1, <1>e DEF ExtEnter, Enter, NewFrame, Kinds, plic
  <2>2. CASE ExtCheck(h)
    <3>1. stack[h] # <<>> /\ Frame(h).at = "check" /\ source' = source
      BY <2>2 DEF ExtCheck, InFrame, plic
    <3>2. CASE Meip(h) BY <2>2, <3>1, <3>2, <1>g, <2>u DEF ExtCheck
    <3>3. CASE ~Meip(h) BY <2>2, <3>1, <3>3, <1>l, <2>u DEF ExtCheck
    <3> QED BY <3>2, <3>3
  <2>3. CASE ExtClaim(h)
    <3> PICK s : s = Claimed(h) OBVIOUS
    <3>1. /\ Top(h)' = Top(h) /\ Top(h) \in Nat \ {0}
          /\ \A i \in 1 .. Top(h) : i # Top(h) => stack'[h][i] = stack[h][i]
          /\ stack[h][Top(h)].at = "claim"
          /\ stack'[h][Top(h)].at = "body" /\ stack'[h][Top(h)].irq = s
          /\ \A g \in Harts : g # h => stack'[g] = stack[g] /\ Top(g)' = Top(g)
      BY <2>3, ClaimFacts
    <3>2. source' = IF s = None THEN source ELSE [source EXCEPT ![s] = "claimed"]
      BY <2>3 DEF ExtClaim
    <3> SUFFICES ASSUME NEW t \in Sources, source'[t] = "claimed"
                 PROVE  \E g \in Harts : \E i \in 1 .. Top(g)' : Runs(g, i, t)'
      BY DEF Attended
    <3>3. CASE t = s BY <3>1, <3>3 DEF Runs
    <3>4. CASE t # s
      <4>1. source[t] = "claimed" BY <3>2, <3>4 DEF TypeOK
      <4>2. PICK g \in Harts : \E i \in 1 .. Top(g) : Runs(g, i, t) BY <4>1 DEF Attended
      <4>2i. PICK i \in 1 .. Top(g) : Runs(g, i, t) BY <4>2
      <4>3. g # h \/ i # Top(h) BY <4>2i, <3>1 DEF Runs
      <4> QED BY <4>2i, <4>3, <3>1 DEF Runs
    <3> QED BY <3>3, <3>4
  <2>4. CASE ExtComplete(h)
    <3>0. stack[h] # <<>> /\ Frame(h).at = "after" /\ GotoIn(h, "leave")
      BY <2>4 DEF ExtComplete, InFrame
    <3>1. /\ Top(h)' = Top(h) /\ Top(h) \in Nat \ {0}
          /\ \A i \in 1 .. Top(h) : i # Top(h) => stack'[h][i] = stack[h][i]
          /\ \A g \in Harts : g # h => stack'[g] = stack[g] /\ Top(g)' = Top(g)
      BY <3>0, GotoFacts
    <3> PICK s : s = Frame(h).irq OBVIOUS
    <3>2. s = None \/ s \in enable[h] BY <3>0, <2>0 DEF Own, Fixed
    <3>3. source' = IF s \in enable[h] /\ source[s] = "claimed"
                    THEN [source EXCEPT ![s] = "open"] ELSE source
      BY <2>4 DEF ExtComplete
    <3> SUFFICES ASSUME NEW t \in Sources, source'[t] = "claimed"
                 PROVE  \E g \in Harts : \E i \in 1 .. Top(g)' : Runs(g, i, t)'
      BY DEF Attended
    <3>4. t # s /\ source[t] = "claimed" BY <3>2, <3>3, <1>n DEF TypeOK
    <3>5. PICK g \in Harts : \E i \in 1 .. Top(g) : Runs(g, i, t) BY <3>4 DEF Attended
    <3>5i. PICK i \in 1 .. Top(g) : Runs(g, i, t) BY <3>5
    <3>6. g # h \/ i # Top(h) BY <3>4, <3>5i, <2>0, <3>0 DEF Runs
    <3> QED BY <3>1, <3>5i, <3>6 DEF Runs
  <2>5. CASE ExtLeave(h) BY <2>5, <1>l, <2>u DEF ExtLeave, InFrame
  <2>6. CASE TimerEnter(h) BY <2>6, <1>e DEF TimerEnter, NewFrame, Kinds, plic
  <2>7. CASE TimerLeave(h) BY <2>7, <1>l, <2>u DEF TimerLeave, InFrame, plic
  <2>8. CASE SoftEnter(h) BY <2>8, <1>e DEF SoftEnter, NewFrame, Kinds, plic
  <2>9. CASE SoftClear(h) BY <2>9, <1>g, <2>u DEF SoftClear, InFrame, plic
  <2>10. CASE SoftLeave(h) BY <2>10, <1>l, <2>u DEF SoftLeave, InFrame, plic
  <2>11. CASE Callback(h)
    <3>1. source' = source BY <2>11 DEF Callback, Do, Stop, Start, Send, Disable, plic
    <3>2. stack[h] # <<>> /\ Frame(h).at = "body" /\ GotoIn(h, "after") BY <2>11 DEF Callback
    <3>3. /\ Top(h)' = Top(h) /\ Top(h) \in Nat \ {0}
          /\ \A i \in 1 .. Top(h) : i # Top(h) => stack'[h][i] = stack[h][i]
          /\ stack'[h][Top(h)].at = "after"
          /\ stack'[h][Top(h)].irq = stack[h][Top(h)].irq
          /\ \A g \in Harts : g # h => stack'[g] = stack[g] /\ Top(g)' = Top(g)
      BY <3>2, GotoFacts
    <3>4. ASSUME NEW g \in Harts, NEW t \in Sources, NEW i \in 1 .. Top(g), Runs(g, i, t)
          PROVE  i \in 1 .. Top(g)' /\ Runs(g, i, t)'
      <4>1. CASE g = h /\ i = Top(h) BY <3>3, <3>4, <4>1 DEF Runs
      <4>2. CASE g # h \/ i # Top(h) BY <3>3, <3>4, <4>2 DEF Runs
      <4> QED BY <4>1, <4>2
    <3> QED BY <3>1, <3>4 DEF Attended
  <2> QED BY <1>1, <2>1, <2>2, <2>3, <2>4, <2>5, <2>6, <2>7, <2>8, <2>9, <2>10, <2>11
          DEF Handler, Ext, Timer, Soft
<1>3. ASSUME NEW h \in Harts, Thread(h) PROVE Attended'
  BY <1>0, <1>3 DEF Thread, Do, Stop, Start, Send, plic
<1>4. ASSUME NEW h \in Harts, Tick(h) PROVE Attended' BY <1>0, <1>4 DEF Tick, plic
<1>5. ASSUME NEW h \in Harts, EnableWrite(h) PROVE Attended' BY <1>0, <1>5 DEF EnableWrite
<1>6. ASSUME NEW h \in Harts, NEW s \in Sources, EnableRead(h, s) PROVE Attended'
  BY <1>0, <1>6 DEF EnableRead, plic
<1>7. ASSUME NEW s \in Sources, Raise(s) PROVE Attended'
  <2>1. \A t \in Sources : source'[t] = "claimed" => source[t] = "claimed"
    BY <1>7 DEF Raise, TypeOK
  <2> QED BY <1>0, <1>7, <2>1 DEF Raise
<1>8. CASE UNCHANGED vars BY <1>0, <1>8 DEF vars
<1> QED BY <1>1, <1>3, <1>4, <1>5, <1>6, <1>7, <1>8 DEF Next

LEMMA InitFrames == ASSUME Init PROVE Unclaimed /\ Held /\ Once /\ Own /\ Words
<1>1. \A h \in Harts : Top(h) = 0 BY DEF Init, Top
<1>2. Words BY DEF Init, Words
<1> QED BY <1>1, <1>2 DEF Unclaimed, Held, Once, Own

\* No source goes silent, unless its own handler disables it.
THEOREM GatesReopen ==
    ASSUME "disable" \notin CallbackOps
    PROVE  Spec => []GateReopens
<1> DEFINE Inv == /\ TypeOK /\ Unclaimed /\ Held /\ Once /\ Own /\ Words /\ Fixed /\ Attended
<1>1. Init => Inv
  <2>1. ASSUME Init PROVE Fixed /\ Attended BY <2>1 DEF Init, Fixed, Attended
  <2> QED BY <2>1, InitTypes, InitFrames
<1>2. Inv /\ [Next]_vars => Inv'
  BY StepTypes, StepOnce, StepOwn, StepFixed, StepAttended
<1>3. Inv => GateReopens
  <2>1. ASSUME Inv, NEW s \in Sources, source[s] = "claimed"
        PROVE  \E h \in Harts : \E i \in DOMAIN stack[h] : stack[h][i].irq = s
    <3>1. PICK h \in Harts : \E i \in 1 .. Top(h) : Runs(h, i, s) BY <2>1 DEF Attended
    <3>1i. PICK i \in 1 .. Top(h) : Runs(h, i, s) BY <3>1
    <3>2. i \in DOMAIN stack[h] BY <2>1, StackFacts
    <3> QED BY <3>1i, <3>2 DEF Runs
  <2> QED BY <2>1 DEF GateReopens
<1> QED BY <1>1, <1>2, <1>3, PTL DEF Spec

-----------------------------------------------------------------------------
(***************************************************************************)
(* How handlers nest, when no callback starts the timer: a software        *)
(* interrupt first, then a timer interrupt, then external ones.            *)
(***************************************************************************)
\* An external handler before its claim, and from then on.
Fresh(h, i) == stack[h][i].kind = "ext" /\ stack[h][i].at \in {"check", "claim"}
Masks(h, i) == stack[h][i].kind = "ext" /\ stack[h][i].at \notin {"check", "claim"}
IsSoft(h, i) == stack[h][i].kind = "soft"
IsTimer(h, i) == stack[h][i].kind = "timer"

\* Only the last frame is at a place where interrupts are off.
LastOnly(h) == \A i \in 1 .. Top(h) :
    stack[h][i].at \in {"check", "claim", "leave"} => i = Top(h) /\ ~gie[h]

\* The order of the frames.
SoftFirst(h) == \A i \in 1 .. Top(h) : IsSoft(h, i) => i = 1
TimerLow(h) == \A i, j \in 1 .. Top(h) : IsTimer(h, i) /\ j < i => IsSoft(h, j)

\* What keeps them in that order: mie, and what will be written back to it.
SoftMasked(h) == "soft" \in mie[h] => \A i \in 1 .. Top(h) : Fresh(h, i)
TimerMasked(h) == "timer" \in mie[h] => \A i \in 1 .. Top(h) : Fresh(h, i) \/ IsSoft(h, i)
SavedMasks(h) == \A i \in 1 .. Top(h) : Masks(h, i) \/ IsTimer(h, i) =>
    /\ "soft" \in stack[h][i].mie => i = 1
    /\ "timer" \in stack[h][i].mie => \A j \in 1 .. Top(h) : j < i => IsSoft(h, j)

Shape(h) == /\ LastOnly(h) /\ SoftFirst(h) /\ TimerLow(h)
            /\ SoftMasked(h) /\ TimerMasked(h) /\ SavedMasks(h)

\* A handler of h is no matter of the other harts.
LEMMA Elsewhere ==
    ASSUME TypeOK, NEW h \in Harts, Handler(h), NEW g \in Harts, g # h
    PROVE  /\ stack'[g] = stack[g] /\ Top(g)' = Top(g)
           /\ mie'[g] = mie[g] /\ gie'[g] = gie[g] /\ threshold'[g] = threshold[g]
           /\ asked'[g] = asked[g] /\ shot'[g] = shot[g] /\ enable'[g] = enable[g]
<1>1. stack'[g] = stack[g]
  <2>1. CASE Ext(h)
    BY <2>1 DEF TypeOK, Ext, ExtEnter, Enter, ExtCheck, ExtClaim, ExtComplete, ExtLeave, GotoIn,
                SetFrame, Push, Pop
  <2>2. CASE Timer(h) BY <2>2 DEF TypeOK, Timer, TimerEnter, TimerLeave, Push, Pop
  <2>3. CASE Soft(h)
    BY <2>3 DEF TypeOK, Soft, SoftEnter, SoftClear, SoftLeave, GotoIn, SetFrame, Push, Pop
  <2>4. CASE Callback(h) BY <2>4 DEF TypeOK, Callback, GotoIn, SetFrame
  <2> QED BY <2>1, <2>2, <2>3, <2>4 DEF Handler
<1>2. /\ mie'[g] = mie[g] /\ gie'[g] = gie[g] /\ threshold'[g] = threshold[g]
      /\ asked'[g] = asked[g] /\ shot'[g] = shot[g] /\ enable'[g] = enable[g]
  <2> USE DEF TypeOK, plic, clint, ghosts
  <2>1. CASE Ext(h)
    BY <2>1 DEF Ext, ExtEnter, Enter, ExtCheck, ExtClaim, ExtComplete, ExtLeave
  <2>2. CASE Timer(h)
    <3>1. CASE TimerEnter(h) BY <3>1 DEF TimerEnter
    <3>2. CASE TimerLeave(h) /\ shot[h] BY <3>2 DEF TimerLeave
    <3>3. CASE TimerLeave(h) /\ ~shot[h] BY <3>3 DEF TimerLeave
    <3> QED BY <2>2, <3>1, <3>2, <3>3 DEF Timer
  <2>3. CASE Soft(h) BY <2>3 DEF Soft, SoftEnter, SoftClear, SoftLeave
  <2>4. CASE Callback(h)
    BY <2>4 DEF Callback, Do, Stop, Start, Send, Disable
  <2> QED BY <2>1, <2>2, <2>3, <2>4 DEF Handler
<1> QED BY <1>1, <1>2 DEF Top

LEMMA ShapeKept ==
    ASSUME NEW g \in Harts, Shape(g), stack'[g] = stack[g], mie'[g] = mie[g], gie'[g] = gie[g]
    PROVE  Shape(g)'
  BY DEF Shape, LastOnly, SoftFirst, TimerLow, SoftMasked, TimerMasked, SavedMasks, Fresh, Masks,
         IsSoft, IsTimer, Top

LEMMA ShapeEmpty == ASSUME NEW g \in Harts, stack'[g] = <<>> PROVE Shape(g)'
<1>1. Top(g)' = 0 BY DEF Top
<1> QED BY <1>1 DEF Shape, LastOnly, SoftFirst, TimerLow, SoftMasked, TimerMasked, SavedMasks

\* While interrupts are on, no frame is at a place where they are off.
LEMMA NoneFresh ==
    ASSUME NEW h \in Harts, Shape(h), gie[h]
    PROVE  /\ \A i \in 1 .. Top(h) : stack[h][i].at \notin {"check", "claim", "leave"}
           /\ \A i \in 1 .. Top(h) : ~Fresh(h, i)
  BY DEF Shape, LastOnly, Fresh

LEMMA EnterShape ==
    ASSUME TypeOK, NEW h \in Harts, Shape(h), NEW kind \in Kinds,
           NEW at \in {"check", "clear", "body"}, Push(h, NewFrame(h, kind, at)),
           gie[h], kind \in mie[h], mie'[h] \subseteq mie[h],
           kind = "ext" => at = "check" /\ ~gie'[h],
           kind = "soft" => at = "clear" /\ "soft" \notin mie'[h],
           kind = "timer" => at = "body" /\ mie'[h] \cap {"timer", "soft"} = {}
    PROVE  Shape(h)'
<1> PICK n : n = Top(h) + 1 OBVIOUS
<1>1. /\ Top(h)' = n /\ n = Top(h) + 1 /\ Top(h) \in Nat
      /\ \A i \in 1 .. Top(h) : stack'[h][i] = stack[h][i]
      /\ stack'[h][n].kind = kind /\ stack'[h][n].at = at /\ stack'[h][n].mie = mie[h]
  BY EnterFacts
<1>2. n \in 1 .. n /\ \A i \in 1 .. n : i \in 1 .. Top(h) \/ i = n BY <1>1
<1>3. /\ \A i \in 1 .. Top(h) : stack[h][i].at \notin {"check", "claim", "leave"}
      /\ \A i \in 1 .. Top(h) : ~Fresh(h, i)
  BY NoneFresh
<1>4. \A i \in 1 .. Top(h) : /\ Fresh(h, i)' = Fresh(h, i) /\ Masks(h, i)' = Masks(h, i)
                             /\ IsSoft(h, i)' = IsSoft(h, i) /\ IsTimer(h, i)' = IsTimer(h, i)
  BY <1>1 DEF Fresh, Masks, IsSoft, IsTimer
<1>5. /\ Fresh(h, n)' <=> kind = "ext"
      /\ ~Masks(h, n)' /\ (IsSoft(h, n)' <=> kind = "soft") /\ (IsTimer(h, n)' <=> kind = "timer")
  BY <1>1 DEF Fresh, Masks, IsSoft, IsTimer
<1>6. "soft" \in mie[h] => Top(h) = 0 /\ n = 1
  BY <1>1, <1>3 DEF Shape, SoftMasked
<1>7. "timer" \in mie[h] => \A i \in 1 .. Top(h) : IsSoft(h, i)
  BY <1>3 DEF Shape, TimerMasked
<1>8. LastOnly(h)' BY <1>1, <1>2, <1>3 DEF LastOnly, Kinds
<1>9. SoftFirst(h)' BY <1>1, <1>2, <1>4, <1>5, <1>6 DEF SoftFirst, Shape
<1>10. TimerLow(h)'
  <2> SUFFICES ASSUME NEW i \in 1 .. n, NEW j \in 1 .. n, IsTimer(h, i)', j < i
               PROVE  IsSoft(h, j)' BY <1>1 DEF TimerLow
  <2>1. j \in 1 .. Top(h) BY <1>1, <1>2
  <2>2. CASE i = n BY <2>1, <2>2, <1>4, <1>5, <1>7
  <2>3. CASE i \in 1 .. Top(h) BY <2>1, <2>3, <1>4 DEF Shape, TimerLow
  <2> QED BY <2>2, <2>3, <1>2
<1>11. SoftMasked(h)'
  <2>1. CASE kind = "ext" BY <2>1, <1>1, <1>2, <1>5, <1>6 DEF SoftMasked
  <2>2. CASE kind # "ext" BY <2>2 DEF SoftMasked, Kinds
  <2> QED BY <2>1, <2>2
<1>12. TimerMasked(h)'
  <2>1. CASE kind = "timer" BY <2>1 DEF TimerMasked
  <2>2. CASE kind # "timer" BY <2>2, <1>1, <1>2, <1>4, <1>5, <1>7 DEF TimerMasked, Kinds
  <2> QED BY <2>1, <2>2
<1>13. SavedMasks(h)'
  <2> SUFFICES ASSUME NEW i \in 1 .. n, Masks(h, i)' \/ IsTimer(h, i)'
               PROVE  /\ "soft" \in stack'[h][i].mie => i = 1
                      /\ "timer" \in stack'[h][i].mie => \A j \in 1 .. n : j < i => IsSoft(h, j)'
    BY <1>1 DEF SavedMasks
  <2>0. \A j \in 1 .. n : j < i => j \in 1 .. Top(h) BY <1>1, <1>2
  <2>1. CASE i = n BY <2>0, <2>1, <1>1, <1>4, <1>6, <1>7
  <2>2. CASE i \in 1 .. Top(h) BY <2>0, <2>2, <1>1, <1>4 DEF Shape, SavedMasks
  <2> QED BY <2>1, <2>2, <1>2
<1> QED BY <1>8, <1>9, <1>10, <1>11, <1>12, <1>13 DEF Shape

LEMMA LeaveShape ==
    ASSUME TypeOK, NEW h \in Harts, Shape(h), stack[h] # <<>>, Pop(h),
           "soft" \in mie'[h] => Top(h) = 1,
           "timer" \in mie'[h] => \A i \in 1 .. Top(h) : i < Top(h) => IsSoft(h, i)
    PROVE  Shape(h)'
<1>1. /\ Top(h)' = Top(h) - 1 /\ Top(h) \in Nat \ {0}
      /\ \A i \in 1 .. Top(h) - 1 : i \in 1 .. Top(h) /\ stack'[h][i] = stack[h][i]
  BY LeaveFacts
<1>2. \A i \in 1 .. Top(h)' : /\ i \in 1 .. Top(h) /\ i < Top(h) /\ stack'[h][i] = stack[h][i]
                              /\ Masks(h, i)' = Masks(h, i)
                              /\ IsSoft(h, i)' = IsSoft(h, i) /\ IsTimer(h, i)' = IsTimer(h, i)
  BY <1>1 DEF Masks, IsSoft, IsTimer
<1>3. LastOnly(h)' BY <1>2 DEF Shape, LastOnly
<1>4. SoftFirst(h)' BY <1>2 DEF Shape, SoftFirst
<1>5. TimerLow(h)' BY <1>2 DEF Shape, TimerLow
<1>6. SoftMasked(h)' BY <1>1 DEF SoftMasked
<1>7. TimerMasked(h)' BY <1>2 DEF TimerMasked
<1>8. SavedMasks(h)' BY <1>2 DEF Shape, SavedMasks
<1> QED BY <1>3, <1>4, <1>5, <1>6, <1>7, <1>8 DEF Shape

LEMMA GotoShape ==
    ASSUME TypeOK, NEW h \in Harts, Shape(h), stack[h] # <<>>,
           NEW at \in {"claim", "body", "after", "leave"}, GotoIn(h, at),
           mie'[h] \subseteq mie[h],
           at = "claim" => Fresh(h, Top(h)) /\ ~gie'[h],
           at # "claim" => Frame(h).at \notin {"check", "claim"},
           at = "leave" => ~gie'[h]
    PROVE  Shape(h)'
<1>1. /\ Top(h)' = Top(h) /\ Top(h) \in Nat \ {0}
      /\ \A i \in 1 .. Top(h) : i # Top(h) => stack'[h][i] = stack[h][i]
      /\ stack'[h][Top(h)].at = at
      /\ stack'[h][Top(h)].kind = stack[h][Top(h)].kind
      /\ stack'[h][Top(h)].mie = stack[h][Top(h)].mie
  BY GotoFacts
<1>2. Frame(h) = stack[h][Top(h)] BY TopFacts
<1>3. \A i \in 1 .. Top(h) : stack'[h][i].kind = stack[h][i].kind /\ stack'[h][i].mie = stack[h][i].mie
  BY <1>1
<1>4. \A i \in 1 .. Top(h) : /\ Fresh(h, i)' = Fresh(h, i) /\ Masks(h, i)' = Masks(h, i)
                             /\ IsSoft(h, i)' = IsSoft(h, i) /\ IsTimer(h, i)' = IsTimer(h, i)
  <2> TAKE i \in 1 .. Top(h)
  <2>1. CASE i = Top(h) BY <2>1, <1>1, <1>2 DEF Fresh, Masks, IsSoft, IsTimer
  <2>2. CASE i # Top(h) BY <2>2, <1>1 DEF Fresh, Masks, IsSoft, IsTimer
  <2> QED BY <2>1, <2>2
<1>5. LastOnly(h)' BY <1>1 DEF Shape, LastOnly
<1>6. SoftFirst(h)' BY <1>1, <1>4 DEF Shape, SoftFirst
<1>7. TimerLow(h)' BY <1>1, <1>4 DEF Shape, TimerLow
<1>8. SoftMasked(h)' BY <1>1, <1>4 DEF Shape, SoftMasked
<1>9. TimerMasked(h)' BY <1>1, <1>4 DEF Shape, TimerMasked
<1>10. SavedMasks(h)' BY <1>1, <1>3, <1>4 DEF Shape, SavedMasks
<1> QED BY <1>5, <1>6, <1>7, <1>8, <1>9, <1>10 DEF Shape

LEMMA ClaimShape ==
    ASSUME TypeOK, NEW h \in Harts, Shape(h), ExtClaim(h)
    PROVE  Shape(h)'
<1> PICK s : s = Claimed(h) OBVIOUS
<1>1. /\ Top(h)' = Top(h) /\ Top(h) \in Nat \ {0}
      /\ stack[h][Top(h)].kind = "ext" /\ stack[h][Top(h)].at = "claim"
      /\ \A i \in 1 .. Top(h) : i # Top(h) => stack'[h][i] = stack[h][i]
      /\ stack'[h][Top(h)].at = "body" /\ stack'[h][Top(h)].kind = "ext"
      /\ stack'[h][Top(h)].mie = mie[h]
  BY ClaimFacts
<1>2. mie'[h] = mie[h] \ {"timer", "soft"} BY DEF ExtClaim, TypeOK
<1>3. \A i \in 1 .. Top(h) : /\ IsSoft(h, i)' = IsSoft(h, i) /\ IsTimer(h, i)' = IsTimer(h, i)
                             /\ i # Top(h) => Masks(h, i)' = Masks(h, i) /\ ~Fresh(h, i)
  BY <1>1 DEF IsSoft, IsTimer, Masks, Fresh, Shape, LastOnly
<1>4. LastOnly(h)' BY <1>1 DEF Shape, LastOnly
<1>5. SoftFirst(h)' BY <1>1, <1>3 DEF Shape, SoftFirst
<1>6. TimerLow(h)' BY <1>1, <1>3 DEF Shape, TimerLow
<1>7. SoftMasked(h)' /\ TimerMasked(h)' BY <1>2 DEF SoftMasked, TimerMasked
<1>8. SavedMasks(h)'
  <2> SUFFICES ASSUME NEW i \in 1 .. Top(h), Masks(h, i)' \/ IsTimer(h, i)'
               PROVE  /\ "soft" \in stack'[h][i].mie => i = 1
                      /\ "timer" \in stack'[h][i].mie =>
                           \A j \in 1 .. Top(h) : j < i => IsSoft(h, j)'
    BY <1>1 DEF SavedMasks
  <2>1. CASE i = Top(h)
    <3>1. "soft" \in mie[h] => Top(h) = 1
      <4>1. 1 \in 1 .. Top(h) BY <1>1
      <4> QED BY <4>1, <1>3 DEF Shape, SoftMasked
    <3>2. "timer" \in mie[h] => \A j \in 1 .. Top(h) : j < i => IsSoft(h, j)
      BY <1>1, <1>3, <2>1 DEF Shape, TimerMasked
    <3> QED BY <1>1, <1>3, <2>1, <3>1, <3>2
  <2>2. CASE i # Top(h) BY <2>2, <1>1, <1>3 DEF Shape, SavedMasks
  <2> QED BY <2>1, <2>2
<1> QED BY <1>4, <1>5, <1>6, <1>7, <1>8 DEF Shape

LEMMA HandlerShape ==
    ASSUME "start" \notin CallbackOps, TypeOK, NEW h \in Harts, Shape(h), Handler(h)
    PROVE  Shape(h)'
<1> USE DEF TypeOK
<1>0. stack[h] # <<>> => Top(h) \in 1 .. Top(h) /\ Top(h) \in Nat \ {0} /\ Frame(h) = stack[h][Top(h)]
  BY TopFacts
<1>1. CASE ExtEnter(h)
  <2>1. "ext" \in mie[h] /\ gie[h] BY <1>1 DEF ExtEnter, Enter, Taken, Asserted
  <2>2. ~gie'[h] /\ mie'[h] = mie[h] BY <1>1 DEF ExtEnter, Enter
  <2> QED BY <1>1, <2>1, <2>2, EnterShape DEF ExtEnter, Enter, NewFrame, Kinds
<1>2. CASE ExtCheck(h)
  <2>1. stack[h] # <<>> /\ Fresh(h, Top(h)) /\ mie' = mie
    BY <1>0, <1>2 DEF ExtCheck, InFrame, Fresh
  <2>2. ~gie[h] BY <1>0, <2>1 DEF Shape, LastOnly, Fresh
  <2>3. CASE Meip(h) BY <1>2, <2>1, <2>2, <2>3, GotoShape DEF ExtCheck
  <2>4. CASE ~Meip(h)
    <3>1. \A i \in 1 .. Top(h) : i < Top(h) => ~Fresh(h, i) BY <1>0, <2>1 DEF Shape, LastOnly, Fresh
    <3>2. "soft" \in mie'[h] => Top(h) = 1
      <4>1. 1 \in 1 .. Top(h) BY <1>0, <2>1
      <4> QED BY <4>1, <1>0, <2>1, <3>1 DEF Shape, SoftMasked
    <3>3. "timer" \in mie'[h] => \A i \in 1 .. Top(h) : i < Top(h) => IsSoft(h, i)
      BY <2>1, <3>1 DEF Shape, TimerMasked
    <3> QED BY <1>2, <2>1, <2>4, <3>2, <3>3, LeaveShape DEF ExtCheck
  <2> QED BY <2>3, <2>4
<1>3. CASE ExtClaim(h) BY <1>3, ClaimShape
<1>4. CASE ExtComplete(h)
  <2>1. stack[h] # <<>> /\ Frame(h).at = "after" /\ GotoIn(h, "leave") /\ mie' = mie /\ ~gie'[h]
    BY <1>4 DEF ExtComplete, InFrame
  <2> QED BY <2>1, GotoShape
<1>5. CASE ExtLeave(h)
  <2>1. stack[h] # <<>> /\ Masks(h, Top(h)) /\ mie'[h] = stack[h][Top(h)].mie /\ Pop(h)
    BY <1>0, <1>5 DEF ExtLeave, InFrame, Masks
  <2> QED BY <1>0, <2>1, LeaveShape DEF Shape, SavedMasks
<1>6. CASE TimerEnter(h)
  <2>1. "timer" \in mie[h] /\ gie[h] BY <1>6 DEF TimerEnter, Taken, Asserted
  <2>2. mie'[h] = mie[h] \ {"timer", "soft"} BY <1>6 DEF TimerEnter
  <2> QED BY <1>6, <2>1, <2>2, EnterShape DEF TimerEnter, NewFrame, Kinds
<1>7. CASE TimerLeave(h)
  <2>1. stack[h] # <<>> /\ IsTimer(h, Top(h)) /\ Pop(h) BY <1>0, <1>7 DEF TimerLeave, InFrame, IsTimer
  <2>2. mie'[h] \subseteq stack[h][Top(h)].mie
    <3>1. CASE shot[h] BY <1>0, <1>7, <2>1, <3>1 DEF TimerLeave
    <3>2. CASE ~shot[h] BY <1>0, <1>7, <2>1, <3>2 DEF TimerLeave
    <3> QED BY <3>1, <3>2
  <2> QED BY <1>0, <2>1, <2>2, LeaveShape DEF Shape, SavedMasks
<1>8. CASE SoftEnter(h)
  <2>1. "soft" \in mie[h] /\ gie[h] BY <1>8 DEF SoftEnter, Taken, Asserted
  <2>2. mie'[h] = mie[h] \ {"soft"} BY <1>8 DEF SoftEnter
  <2> QED BY <1>8, <2>1, <2>2, EnterShape DEF SoftEnter, NewFrame, Kinds
<1>9. CASE SoftClear(h)
  <2>1. stack[h] # <<>> /\ Frame(h).at = "clear" /\ GotoIn(h, "body") /\ mie' = mie
    BY <1>9 DEF SoftClear, InFrame
  <2> QED BY <2>1, GotoShape
<1>10. CASE SoftLeave(h)
  <2>1. stack[h] # <<>> /\ IsSoft(h, Top(h)) /\ Pop(h) BY <1>0, <1>10 DEF SoftLeave, InFrame, IsSoft
  <2>2. Top(h) = 1 BY <1>0, <2>1 DEF Shape, SoftFirst
  <2> QED BY <2>1, <2>2, LeaveShape
<1>11. CASE Callback(h)
  <2>1. stack[h] # <<>> /\ Frame(h).at = "body" /\ GotoIn(h, "after") BY <1>11 DEF Callback
  <2>2. mie'[h] \subseteq mie[h] BY <1>11 DEF Callback, Do, Stop, Send, Disable
  <2> QED BY <2>1, <2>2, GotoShape
<1> QED BY <1>1, <1>2, <1>3, <1>4, <1>5, <1>6, <1>7, <1>8, <1>9, <1>10, <1>11
        DEF Handler, Ext, Timer, Soft

LEMMA StepShape ==
    ASSUME "start" \notin CallbackOps, TypeOK, \A g \in Harts : Shape(g), [Next]_vars
    PROVE  \A g \in Harts : Shape(g)'
<1> TAKE g \in Harts
<1>1. ASSUME NEW h \in Harts, Handler(h) PROVE Shape(g)'
  <2>1. CASE g = h BY <1>1, <2>1, HandlerShape
  <2>2. CASE g # h BY <1>1, <2>2, Elsewhere, ShapeKept
  <2> QED BY <2>1, <2>2
<1>2. ASSUME NEW h \in Harts, Thread(h) PROVE Shape(g)'
  <2>1. CASE g = h BY <1>2, <2>1, ShapeEmpty DEF Thread
  <2>2. CASE g # h
    <3>1. stack' = stack /\ mie'[g] = mie[g] /\ gie'[g] = gie[g]
      BY <1>2, <2>2 DEF TypeOK, Thread, Do, Stop, Start, Send
    <3> QED BY <3>1, ShapeKept
  <2> QED BY <2>1, <2>2
<1>3. ASSUME stack' = stack, mie' = mie, gie' = gie PROVE Shape(g)' BY <1>3, ShapeKept
<1>4. ASSUME NEW h \in Harts, Tick(h) PROVE Shape(g)' BY <1>3, <1>4 DEF Tick
<1>5. ASSUME NEW h \in Harts, EnableWrite(h) PROVE Shape(g)' BY <1>3, <1>5 DEF EnableWrite
<1>6. ASSUME NEW h \in Harts, NEW s \in Sources, EnableRead(h, s) PROVE Shape(g)'
  BY <1>3, <1>6 DEF EnableRead
<1>7. ASSUME NEW s \in Sources, Raise(s) PROVE Shape(g)' BY <1>3, <1>7 DEF Raise
<1>8. CASE UNCHANGED vars BY <1>3, <1>8 DEF vars
<1> QED BY <1>1, <1>2, <1>4, <1>5, <1>6, <1>7, <1>8 DEF Next

LEMMA InitShape == ASSUME Init, NEW g \in Harts PROVE Shape(g)
<1>1. Top(g) = 0 BY DEF Init, Top
<1> QED BY <1>1 DEF Shape, LastOnly, SoftFirst, TimerLow, SoftMasked, TimerMasked, SavedMasks

-----------------------------------------------------------------------------
(***************************************************************************)
(* StackBounded.                                                           *)
(***************************************************************************)
\* No source is enabled on two harts.
Private == \A h, g \in Harts : h # g => Enabled[h] \cap Enabled[g] = {}

\* A handler has claimed a source that its hart's threshold, now and while
\* the handlers above it last, keeps out; and that one above saved.
Claims(h) == \A i \in 1 .. Top(h) : Masks(h, i) =>
    /\ stack[h][i].irq # None
    /\ stack[h][i].threshold < Priority[stack[h][i].irq]
    /\ Priority[stack[h][i].irq] <= threshold[h]
Climb(h) == \A i, j \in 1 .. Top(h) : Masks(h, i) /\ Masks(h, j) /\ i < j =>
    Priority[stack[h][i].irq] <= stack[h][j].threshold

\* What let the trap in is still there when the handler claims.
Invited(h) == \A i \in 1 .. Top(h) : Fresh(h, i) => Meip(h)

Rises(h) == Claims(h) /\ Climb(h) /\ Invited(h)

LEMMA RisesKept ==
    ASSUME NEW g \in Harts, Rises(g), stack'[g] = stack[g], threshold'[g] = threshold[g],
           Meip(g) => Meip(g)'
    PROVE  Rises(g)'
  BY DEF Rises, Claims, Climb, Invited, Fresh, Masks, Top

LEMMA RisesEmpty == ASSUME NEW g \in Harts, stack'[g] = <<>> PROVE Rises(g)'
<1>1. Top(g)' = 0 BY DEF Top
<1> QED BY <1>1 DEF Rises, Claims, Climb, Invited

LEMMA EnterRises ==
    ASSUME TypeOK, NEW h \in Harts, Shape(h), Rises(h), NEW kind \in Kinds,
           NEW at \in {"check", "clear", "body"}, Push(h, NewFrame(h, kind, at)),
           gie[h], threshold'[h] = threshold[h],
           kind = "ext" => at = "check" /\ Meip(h)'
    PROVE  Rises(h)'
<1> PICK n : n = Top(h) + 1 OBVIOUS
<1>1. /\ Top(h)' = n /\ n = Top(h) + 1 /\ Top(h) \in Nat
      /\ \A i \in 1 .. Top(h) : stack'[h][i] = stack[h][i]
      /\ stack'[h][n].kind = kind /\ stack'[h][n].at = at
  BY EnterFacts
<1>2. n \in 1 .. n /\ \A i \in 1 .. n : i \in 1 .. Top(h) \/ i = n BY <1>1
<1>3. \A i \in 1 .. Top(h) : ~Fresh(h, i) BY NoneFresh
<1>4. \A i \in 1 .. Top(h) : Fresh(h, i)' = Fresh(h, i) /\ Masks(h, i)' = Masks(h, i)
  BY <1>1 DEF Fresh, Masks
<1>5. ~Masks(h, n)' /\ (Fresh(h, n)' => Meip(h)') BY <1>1 DEF Fresh, Masks
<1>6. Claims(h)' BY <1>1, <1>2, <1>4, <1>5 DEF Rises, Claims
<1>7. Climb(h)'
  <2> SUFFICES ASSUME NEW i \in 1 .. n, NEW j \in 1 .. n, Masks(h, i)', Masks(h, j)', i < j
               PROVE  Priority[stack'[h][i].irq] <= stack'[h][j].threshold
    BY <1>1 DEF Climb
  <2>1. i \in 1 .. Top(h) /\ j \in 1 .. Top(h) BY <1>2, <1>5
  <2> QED BY <2>1, <1>1, <1>4 DEF Rises, Climb
<1>8. Invited(h)' BY <1>1, <1>2, <1>3, <1>4, <1>5 DEF Invited
<1> QED BY <1>6, <1>7, <1>8 DEF Rises

LEMMA LeaveRises ==
    ASSUME TypeOK, NEW h \in Harts, Shape(h), Rises(h), stack[h] # <<>>, Pop(h),
           \/ threshold'[h] = threshold[h]
           \/ Masks(h, Top(h)) /\ threshold'[h] = stack[h][Top(h)].threshold
    PROVE  Rises(h)'
<1>1. /\ Top(h)' = Top(h) - 1 /\ Top(h) \in Nat \ {0}
      /\ \A i \in 1 .. Top(h) - 1 : i \in 1 .. Top(h) /\ stack'[h][i] = stack[h][i]
  BY LeaveFacts
<1>2. \A i \in 1 .. Top(h)' : /\ i \in 1 .. Top(h) /\ i < Top(h) /\ stack'[h][i] = stack[h][i]
                              /\ Masks(h, i)' = Masks(h, i) /\ ~Fresh(h, i)'
  BY <1>1 DEF Masks, Fresh, Shape, LastOnly
<1>3. Claims(h)'
  <2> SUFFICES ASSUME NEW i \in 1 .. Top(h)', Masks(h, i)'
               PROVE  /\ stack'[h][i].irq # None
                      /\ stack'[h][i].threshold < Priority[stack'[h][i].irq]
                      /\ Priority[stack'[h][i].irq] <= threshold'[h]
    BY DEF Claims
  <2>1. CASE threshold'[h] = threshold[h] BY <2>1, <1>2 DEF Rises, Claims
  <2>2. CASE Masks(h, Top(h)) /\ threshold'[h] = stack[h][Top(h)].threshold
    <3>1. Top(h) \in 1 .. Top(h) BY <1>1
    <3>2. Priority[stack[h][i].irq] <= stack[h][Top(h)].threshold
      BY <3>1, <2>2, <1>2 DEF Rises, Climb
    <3> QED BY <3>2, <2>2, <1>2 DEF Rises, Claims
  <2> QED BY <2>1, <2>2
<1>4. Climb(h)' BY <1>2 DEF Rises, Climb
<1>5. Invited(h)' BY <1>2 DEF Invited
<1> QED BY <1>3, <1>4, <1>5 DEF Rises

LEMMA GotoRises ==
    ASSUME TypeOK, NEW h \in Harts, Shape(h), Rises(h), stack[h] # <<>>,
           NEW at \in {"claim", "body", "after", "leave"}, GotoIn(h, at),
           threshold'[h] = threshold[h],
           at = "claim" => Fresh(h, Top(h)) /\ Meip(h)',
           at # "claim" => Frame(h).at \notin {"check", "claim"}
    PROVE  Rises(h)'
<1>1. /\ Top(h)' = Top(h) /\ Top(h) \in Nat \ {0}
      /\ \A i \in 1 .. Top(h) : i # Top(h) => stack'[h][i] = stack[h][i]
      /\ stack'[h][Top(h)].at = at
      /\ stack'[h][Top(h)].kind = stack[h][Top(h)].kind
      /\ stack'[h][Top(h)].irq = stack[h][Top(h)].irq
      /\ stack'[h][Top(h)].threshold = stack[h][Top(h)].threshold
  BY GotoFacts
<1>2. Frame(h) = stack[h][Top(h)] BY TopFacts
<1>3. \A i \in 1 .. Top(h) : /\ stack'[h][i].irq = stack[h][i].irq
                             /\ stack'[h][i].threshold = stack[h][i].threshold
  BY <1>1
<1>4. \A i \in 1 .. Top(h) : Masks(h, i)' = Masks(h, i) /\ (Fresh(h, i)' => Meip(h)')
  <2> TAKE i \in 1 .. Top(h)
  <2>1. CASE i = Top(h) BY <2>1, <1>1, <1>2 DEF Fresh, Masks
  <2>2. CASE i # Top(h) BY <2>2, <1>1 DEF Fresh, Masks, Shape, LastOnly
  <2> QED BY <2>1, <2>2
<1>5. Claims(h)' BY <1>1, <1>3, <1>4 DEF Rises, Claims
<1>6. Climb(h)' BY <1>1, <1>3, <1>4 DEF Rises, Climb
<1>7. Invited(h)' BY <1>1, <1>4 DEF Invited
<1> QED BY <1>5, <1>6, <1>7 DEF Rises

LEMMA ClaimRises ==
    ASSUME TypeOK, NEW h \in Harts, Shape(h), Rises(h), ExtClaim(h)
    PROVE  Rises(h)'
<1> PICK s : s = Claimed(h) OBVIOUS
<1>1. /\ Top(h)' = Top(h) /\ Top(h) \in Nat \ {0}
      /\ stack[h][Top(h)].kind = "ext" /\ stack[h][Top(h)].at = "claim"
      /\ \A i \in 1 .. Top(h) : i # Top(h) => stack'[h][i] = stack[h][i]
      /\ stack'[h][Top(h)].at = "body" /\ stack'[h][Top(h)].kind = "ext"
      /\ stack'[h][Top(h)].irq = s /\ stack'[h][Top(h)].threshold = threshold[h]
  BY ClaimFacts
<1>2. Meip(h) BY <1>1 DEF Rises, Invited, Fresh
<1>3. PICK t \in enable[h] : source[t] = "pending" /\ Priority[t] > threshold[h]
  BY <1>2 DEF Meip
<1>4. s # None /\ s \in Sources /\ Priority[t] <= Priority[s] BY <1>3, ClaimRight
<1>5. t \in Sources BY DEF TypeOK
<1>6. threshold'[h] = Priority[s] BY <1>4 DEF ExtClaim, TypeOK
<1>7. threshold[h] \in Int /\ Priority[s] \in Int /\ Priority[t] \in Int
  BY <1>4, <1>5, PriorityAssumption DEF TypeOK
<1>8. threshold[h] < Priority[s] BY <1>3, <1>4, <1>7
<1>9. \A i \in 1 .. Top(h) : i # Top(h) => Masks(h, i)' = Masks(h, i) /\ ~Fresh(h, i)'
  BY <1>1 DEF Masks, Fresh, Shape, LastOnly
<1>10. Claims(h)'
  <2> SUFFICES ASSUME NEW i \in 1 .. Top(h), Masks(h, i)'
               PROVE  /\ stack'[h][i].irq # None
                      /\ stack'[h][i].threshold < Priority[stack'[h][i].irq]
                      /\ Priority[stack'[h][i].irq] <= threshold'[h]
    BY <1>1 DEF Claims
  <2>1. CASE i = Top(h) BY <2>1, <1>1, <1>4, <1>6, <1>7, <1>8
  <2>2. CASE i # Top(h)
    <3>1. /\ stack[h][i].irq # None /\ stack'[h][i] = stack[h][i]
          /\ stack[h][i].threshold < Priority[stack[h][i].irq]
          /\ Priority[stack[h][i].irq] <= threshold[h]
      BY <2>2, <1>1, <1>9 DEF Rises, Claims
    <3>2. stack[h][i].irq \in Sources BY <3>1, StackFacts DEF Frames
    <3>3. Priority[stack[h][i].irq] \in Int BY <3>2, PriorityAssumption
    <3> QED BY <3>1, <3>3, <1>6, <1>7, <1>8
  <2> QED BY <2>1, <2>2
<1>11. Climb(h)'
  <2> SUFFICES ASSUME NEW i \in 1 .. Top(h), NEW j \in 1 .. Top(h), Masks(h, i)', Masks(h, j)', i < j
               PROVE  Priority[stack'[h][i].irq] <= stack'[h][j].threshold
    BY <1>1 DEF Climb
  <2>1. i # Top(h) BY <1>1
  <2>2. CASE j = Top(h) BY <2>1, <2>2, <1>1, <1>9 DEF Rises, Claims
  <2>3. CASE j # Top(h) BY <2>1, <2>3, <1>1, <1>9 DEF Rises, Climb
  <2> QED BY <2>2, <2>3
<1>12. Invited(h)' BY <1>1, <1>9 DEF Invited, Fresh
<1> QED BY <1>10, <1>11, <1>12 DEF Rises

LEMMA HandlerRises ==
    ASSUME TypeOK, NEW h \in Harts, Shape(h), Rises(h), Handler(h)
    PROVE  Rises(h)'
<1> USE DEF TypeOK
<1>0. stack[h] # <<>> => Top(h) \in 1 .. Top(h) /\ Top(h) \in Nat \ {0} /\ Frame(h) = stack[h][Top(h)]
  BY TopFacts
<1>k. ASSUME plic' = plic PROVE threshold' = threshold /\ (Meip(h) => Meip(h)')
  BY <1>k DEF plic, Meip
<1>1. CASE ExtEnter(h)
  <2>1. Meip(h) /\ gie[h] BY <1>1 DEF ExtEnter, Enter, Taken, Asserted
  <2>2. plic' = plic BY <1>1 DEF ExtEnter
  <2> QED BY <1>1, <1>k, <2>1, <2>2, EnterRises DEF ExtEnter, Enter, NewFrame, Kinds
<1>2. CASE ExtCheck(h)
  <2>1. stack[h] # <<>> /\ Fresh(h, Top(h)) /\ plic' = plic
    BY <1>0, <1>2 DEF ExtCheck, InFrame, Fresh
  <2>2. CASE Meip(h) BY <1>2, <1>k, <2>1, <2>2, GotoRises DEF ExtCheck
  <2>3. CASE ~Meip(h) BY <1>2, <1>k, <2>1, <2>3, LeaveRises DEF ExtCheck
  <2> QED BY <2>2, <2>3
<1>3. CASE ExtClaim(h) BY <1>3, ClaimRises
<1>4. CASE ExtComplete(h)
  <2>1. stack[h] # <<>> /\ Frame(h).at = "after" /\ GotoIn(h, "leave") /\ threshold' = threshold
    BY <1>4 DEF ExtComplete, InFrame
  <2> QED BY <2>1, GotoRises
<1>5. CASE ExtLeave(h)
  <2>1. /\ stack[h] # <<>> /\ Masks(h, Top(h)) /\ Pop(h)
        /\ threshold'[h] = stack[h][Top(h)].threshold
    BY <1>0, <1>5 DEF ExtLeave, InFrame, Masks
  <2> QED BY <2>1, LeaveRises
<1>6. CASE TimerEnter(h)
  <2>1. gie[h] /\ plic' = plic BY <1>6 DEF TimerEnter, Taken
  <2> QED BY <1>6, <1>k, <2>1, EnterRises DEF TimerEnter, NewFrame, Kinds
<1>7. CASE TimerLeave(h)
  <2>1. stack[h] # <<>> /\ Pop(h) /\ plic' = plic BY <1>7 DEF TimerLeave, InFrame
  <2> QED BY <1>k, <2>1, LeaveRises
<1>8. CASE SoftEnter(h)
  <2>1. gie[h] /\ plic' = plic BY <1>8 DEF SoftEnter, Taken
  <2> QED BY <1>8, <1>k, <2>1, EnterRises DEF SoftEnter, NewFrame, Kinds
<1>9. CASE SoftClear(h)
  <2>1. stack[h] # <<>> /\ Frame(h).at = "clear" /\ GotoIn(h, "body") /\ plic' = plic
    BY <1>9 DEF SoftClear, InFrame
  <2> QED BY <1>k, <2>1, GotoRises
<1>10. CASE SoftLeave(h)
  <2>1. stack[h] # <<>> /\ Pop(h) /\ plic' = plic BY <1>10 DEF SoftLeave, InFrame
  <2> QED BY <1>k, <2>1, LeaveRises
<1>11. CASE Callback(h)
  <2>1. stack[h] # <<>> /\ Frame(h).at = "body" /\ GotoIn(h, "after") BY <1>11 DEF Callback
  <2>2. threshold' = threshold BY <1>11 DEF Callback, Do, Stop, Start, Send, Disable, plic
  <2> QED BY <2>1, <2>2, GotoRises
<1> QED BY <1>1, <1>2, <1>3, <1>4, <1>5, <1>6, <1>7, <1>8, <1>9, <1>10, <1>11
        DEF Handler, Ext, Timer, Soft

\* A claim or a completion on one hart takes nothing from another.
LEMMA MeipElsewhere ==
    ASSUME Private, TypeOK, Words, NEW h \in Harts, Handler(h), NEW g \in Harts, g # h, Meip(g)
    PROVE  Meip(g)'
<1>1. enable'[g] = enable[g] /\ threshold'[g] = threshold[g] BY Elsewhere
<1>2. PICK t \in enable[g] : source[t] = "pending" /\ Priority[t] > threshold[g] BY DEF Meip
<1>3. t \in Sources /\ t \notin enable[h] BY DEF TypeOK, Words, Private
<1>4. source'[t] = source[t]
  <2>1. CASE ExtClaim(h)
    <3>1. Claimed(h) # None => Claimed(h) # t BY <1>3, ClaimRight
    <3>2. CASE Claimed(h) = None BY <2>1, <3>2 DEF ExtClaim
    <3>3. CASE Claimed(h) # None BY <2>1, <3>1, <3>3, <1>3 DEF ExtClaim, TypeOK
    <3> QED BY <3>2, <3>3
  <2>2. CASE ExtComplete(h) BY <2>2, <1>3 DEF ExtComplete, TypeOK
  <2>3. CASE ExtEnter(h) \/ ExtCheck(h) \/ ExtLeave(h) BY <2>3 DEF ExtEnter, ExtCheck, ExtLeave, plic
  <2>4. CASE Timer(h) BY <2>4 DEF Timer, TimerEnter, TimerLeave, plic
  <2>5. CASE Soft(h) BY <2>5 DEF Soft, SoftEnter, SoftClear, SoftLeave, plic
  <2>6. CASE Callback(h) BY <2>6 DEF Callback, Do, Stop, Start, Send, Disable, plic
  <2> QED BY <2>1, <2>2, <2>3, <2>4, <2>5, <2>6 DEF Handler, Ext
<1> QED BY <1>1, <1>2, <1>4 DEF Meip

LEMMA StepRises ==
    ASSUME Private, TypeOK, Words, \A g \in Harts : Shape(g) /\ Rises(g), [Next]_vars
    PROVE  \A g \in Harts : Rises(g)'
<1> TAKE g \in Harts
<1>0. ASSUME stack' = stack, plic' = plic PROVE Rises(g)' BY <1>0, RisesKept DEF plic, Meip
<1>1. ASSUME NEW h \in Harts, Handler(h) PROVE Rises(g)'
  <2>1. CASE g = h BY <1>1, <2>1, HandlerRises
  <2>2. CASE g # h BY <1>1, <2>2, Elsewhere, MeipElsewhere, RisesKept
  <2> QED BY <2>1, <2>2
<1>2. ASSUME NEW h \in Harts, Thread(h) PROVE Rises(g)'
  BY <1>0, <1>2 DEF Thread, Do, Stop, Start, Send
<1>3. ASSUME NEW h \in Harts, Tick(h) PROVE Rises(g)' BY <1>0, <1>3 DEF Tick
<1>4. ASSUME NEW h \in Harts, EnableWrite(h) PROVE Rises(g)'
  <2>1. CASE g = h BY <1>4, <2>1, RisesEmpty DEF EnableWrite
  <2>2. CASE g # h
    <3>1. enable'[g] = enable[g] BY <1>4, <2>2 DEF EnableWrite, TypeOK
    <3> QED BY <1>4, <3>1, RisesKept DEF EnableWrite, Meip
  <2> QED BY <2>1, <2>2
<1>5. ASSUME NEW h \in Harts, NEW s \in Sources, EnableRead(h, s) PROVE Rises(g)'
  BY <1>0, <1>5 DEF EnableRead
<1>6. ASSUME NEW s \in Sources, Raise(s) PROVE Rises(g)'
  <2>1. \A t \in Sources : source[t] = "pending" => source'[t] = "pending"
    BY <1>6 DEF Raise, TypeOK
  <2>2. Meip(g) => Meip(g)' BY <1>6, <2>1 DEF Raise, Meip, TypeOK
  <2> QED BY <1>6, <2>2, RisesKept DEF Raise
<1>7. CASE UNCHANGED vars BY <1>0, <1>7 DEF vars, plic
<1> QED BY <1>1, <1>2, <1>3, <1>4, <1>5, <1>6, <1>7 DEF Next

\* At most one soft and one timer frame, and one frame for each priority: the
\* external frames' priorities rise from the bottom of the stack to its top.
LEMMA RisesBounds ==
    ASSUME TypeOK, NEW h \in Harts, Shape(h), Rises(h)
    PROVE  Len(stack[h]) <= 2 + Cardinality({Priority[s] : s \in Sources})
<1> DEFINE P == {Priority[s] : s \in Sources}
<1> PICK n : n = Top(h) OBVIOUS
<1>1. n \in Nat /\ \A i \in 1 .. n : stack[h][i] \in Frames BY StackFacts
<1>2. IsFiniteSet(P) /\ Cardinality(P) \in Nat
  <2>1. P \subseteq 1 .. MaxPriority BY PriorityAssumption
  <2>2. IsFiniteSet(1 .. MaxPriority) BY PriorityAssumption, FS_Interval
  <2> HIDE DEF P
  <2> QED BY <2>1, <2>2, FS_Subset, FS_CardinalityType
<1>3. P \subseteq Int BY PriorityAssumption
<1>4. CASE n <= 2
  <2> HIDE DEF P
  <2>1. n <= 2 + Cardinality(P) BY <1>1, <1>2, <1>4
  <2> QED BY <2>1 DEF P, Top
<1>5. CASE n > 2
  <2>1. \A i \in 3 .. n : i \in 1 .. n /\ stack[h][i].kind = "ext"
    <3> SUFFICES ASSUME NEW i \in 3 .. n PROVE i \in 1 .. n /\ stack[h][i].kind = "ext" OBVIOUS
    <3>1. i \in 1 .. n /\ 2 \in 1 .. n /\ 2 < i BY <1>1
    <3>2. ~IsSoft(h, i) /\ ~IsSoft(h, 2) BY <3>1 DEF Shape, SoftFirst
    <3>3. ~IsTimer(h, i) BY <3>1, <3>2 DEF Shape, TimerLow
    <3> QED BY <3>1, <3>2, <3>3, <1>1 DEF IsSoft, IsTimer, Frames, Kinds
  <2>2. \A i \in 3 .. n : i # n => Masks(h, i) BY <2>1 DEF Masks, Shape, LastOnly
  <2>3. \A i \in 3 .. n : Masks(h, i) =>
           /\ Priority[stack[h][i].irq] \in P /\ threshold[h] \in Int
           /\ Priority[stack[h][i].irq] <= threshold[h]
    BY <1>1, <2>1 DEF Rises, Claims, Frames, TypeOK
  <2>4. \A i, j \in 3 .. n : Masks(h, i) /\ Masks(h, j) /\ i < j =>
           Priority[stack[h][i].irq] < Priority[stack[h][j].irq]
    <3> SUFFICES ASSUME NEW i \in 3 .. n, NEW j \in 3 .. n, Masks(h, i), Masks(h, j), i < j
                 PROVE  Priority[stack[h][i].irq] < Priority[stack[h][j].irq]
      OBVIOUS
    <3>1. Priority[stack[h][i].irq] <= stack[h][j].threshold BY <2>1 DEF Rises, Climb
    <3>2. stack[h][j].threshold < Priority[stack[h][j].irq] BY <2>1 DEF Rises, Claims
    <3>3. stack[h][j].threshold \in Int BY <1>1, <2>1 DEF Frames
    <3>4. Priority[stack[h][i].irq] \in Int /\ Priority[stack[h][j].irq] \in Int BY <2>3, <1>3
    <3> QED BY <3>1, <3>2, <3>3, <3>4
  <2>5. n \in 3 .. n BY <1>1, <1>5
  <2> HIDE DEF P
  \* a priority for the last frame
  <2>6. \E p \in P : \A i \in 3 .. n : i # n => Priority[stack[h][i].irq] < p
    <3>1. CASE Masks(h, n)
      <4>1. \A i \in 3 .. n : i # n => Priority[stack[h][i].irq] < Priority[stack[h][n].irq]
        BY <3>1, <2>2, <2>4, <2>5, <1>1
      <4> QED BY <4>1, <3>1, <2>3, <2>5
    <3>2. CASE ~Masks(h, n)
      <4>1. Meip(h) BY <3>2, <2>1, <2>5 DEF Masks, Fresh, Rises, Invited
      <4>2. PICK t \in Sources : Priority[t] > threshold[h] BY <4>1 DEF Meip, TypeOK
      <4>3. Priority[t] \in P BY DEF P
      <4>4. ASSUME NEW i \in 3 .. n, i # n PROVE Priority[stack[h][i].irq] < Priority[t]
        <5>1. /\ Priority[stack[h][i].irq] \in Int /\ threshold[h] \in Int
              /\ Priority[stack[h][i].irq] <= threshold[h]
          BY <4>4, <2>2, <2>3, <1>3
        <5>2. Priority[t] \in Int BY <4>3, <1>3
        <5> QED BY <4>2, <5>1, <5>2
      <4> QED BY <4>3, <4>4
    <3> QED BY <3>1, <3>2
  <2>7. PICK p \in P : \A i \in 3 .. n : i # n => Priority[stack[h][i].irq] < p BY <2>6
  <2> DEFINE f == [i \in 3 .. n |-> IF i = n THEN p ELSE Priority[stack[h][i].irq]]
  <2>8. \A i \in 3 .. n : f[i] \in P BY <2>2, <2>3
  <2>9. ASSUME NEW i \in 3 .. n, NEW j \in 3 .. n, i < j PROVE f[i] < f[j]
    <3>1. i # n /\ f[i] = Priority[stack[h][i].irq] BY <2>9, <1>1
    <3>2. CASE j = n BY <3>1, <3>2, <2>7
    <3>3. CASE j # n BY <3>1, <3>3, <2>9, <2>2, <2>4
    <3> QED BY <3>2, <3>3
  <2>10. f \in [3 .. n -> P] BY <2>8
  <2> HIDE DEF f
  <2>11. \A i, j \in 3 .. n : f[i] = f[j] => i = j
    <3> SUFFICES ASSUME NEW i \in 3 .. n, NEW j \in 3 .. n, i # j PROVE f[i] # f[j] OBVIOUS
    <3>1. f[i] \in Int /\ f[j] \in Int BY <2>8, <1>3
    <3>2. CASE i < j BY <3>1, <3>2, <2>9
    <3>3. CASE j < i BY <3>1, <3>3, <2>9
    <3> QED BY <3>2, <3>3, <1>1
  <2>12. f \in Injection(3 .. n, P) BY <2>10, <2>11 DEF Injection, IsInjective
  <2>13. Cardinality(3 .. n) <= Cardinality(P) BY <2>12, <1>2, FS_Injection
  <2>14. Cardinality(3 .. n) = n - 3 + 1 BY <1>1, <1>5, FS_Interval
  <2>15. n <= 2 + Cardinality(P) BY <2>13, <2>14, <1>1, <1>2
  <2> QED BY <2>15 DEF P, Top
<1> QED BY <1>1, <1>4, <1>5

\* The trap stack is bounded, whatever the priorities, on harts with sources
\* of their own, when no callback starts the timer.
THEOREM StacksBounded ==
    ASSUME "start" \notin CallbackOps, Private
    PROVE  Spec => []StackBounded
<1> DEFINE Inv == /\ TypeOK /\ Own /\ Words /\ \A g \in Harts : Shape(g) /\ Rises(g)
<1>1. Init => Inv
  <2>1. ASSUME Init, NEW g \in Harts PROVE Rises(g)
    <3>1. Top(g) = 0 BY <2>1 DEF Init, Top
    <3> QED BY <3>1 DEF Rises, Claims, Climb, Invited
  <2> QED BY <2>1, InitTypes, InitFrames, InitShape
<1>2. Inv /\ [Next]_vars => Inv' BY StepTypes, StepOwn, StepShape, StepRises
<1>3. Inv => StackBounded BY RisesBounds DEF StackBounded
<1> QED BY <1>1, <1>2, <1>3, PTL DEF Spec

-----------------------------------------------------------------------------
(***************************************************************************)
(* Restored.                                                               *)
(***************************************************************************)
\* External interrupts are masked by nobody.
ExtKept(h) == /\ "ext" \in mie[h]
              /\ \A i \in 1 .. Top(h) : Masks(h, i) \/ IsTimer(h, i) => "ext" \in stack[h][i].mie

\* Software interrupts are masked by handlers only, and were not when the
\* first frame was pushed.
SoftKept(h) ==
    /\ (\A i \in 1 .. Top(h) : Fresh(h, i)) => "soft" \in mie[h]
    /\ \A i \in 1 .. Top(h) : (Masks(h, i) \/ IsTimer(h, i)) /\ i = 1 => "soft" \in stack[h][i].mie

\* Where no handler masks it, and in what the first that does has saved, the
\* timer interrupt is enabled if the timer was started.
TimerKept(h) ==
    /\ (\A i \in 1 .. Top(h) : Fresh(h, i) \/ IsSoft(h, i)) =>
         ("timer" \in mie[h] <=> asked[h] = "start")
    /\ \A i \in 1 .. Top(h) : Masks(h, i) /\ (\A j \in 1 .. Top(h) : j < i => IsSoft(h, j)) =>
         ("timer" \in stack[h][i].mie <=> asked[h] = "start")
Shot(h) == \A i \in 1 .. Top(h) : IsTimer(h, i) =>
    "timer" \in stack[h][i].mie /\ asked[h] = IF shot[h] THEN "expired" ELSE "start"

\* Interrupts are off in the first and last instructions of a handler only.
OffInTraps(h) == ~gie[h] => Top(h) > 0 /\ stack[h][Top(h)].at \in {"check", "claim", "leave"}

\* The threshold that frames 1 to i set: each has saved that of the one below.
Level(h, i) == IF i = 0 THEN 0
               ELSE IF ~Masks(h, i) THEN stack[h][i].threshold
               ELSE IF stack[h][i].irq = None THEN 0 ELSE Priority[stack[h][i].irq]
Levels(h) == /\ threshold[h] = Level(h, Top(h))
             /\ \A i \in 1 .. Top(h) : stack[h][i].threshold = Level(h, i - 1)

Kept(h) == /\ ExtKept(h) /\ SoftKept(h) /\ TimerKept(h) /\ Shot(h)
           /\ OffInTraps(h) /\ Levels(h)

LEMMA KeptElsewhere ==
    ASSUME NEW g \in Harts, Kept(g), stack'[g] = stack[g], mie'[g] = mie[g], gie'[g] = gie[g],
           threshold'[g] = threshold[g], asked'[g] = asked[g], shot'[g] = shot[g]
    PROVE  Kept(g)'
<1> USE DEF Fresh, Masks, IsSoft, IsTimer, Top
<1>1. ExtKept(g)' /\ SoftKept(g)' BY DEF Kept, ExtKept, SoftKept
<1>2. TimerKept(g)' /\ Shot(g)' BY DEF Kept, TimerKept, Shot
<1>3. OffInTraps(g)' /\ Levels(g)' BY DEF Kept, OffInTraps, Levels, Level
<1> QED BY <1>1, <1>2, <1>3 DEF Kept

LEMMA KeptEmpty ==
    ASSUME NEW h \in Harts, stack'[h] = <<>>, gie'[h], threshold'[h] = 0,
           {"ext", "soft"} \subseteq mie'[h], "timer" \in mie'[h] <=> asked'[h] = "start"
    PROVE  Kept(h)'
<1>1. Top(h)' = 0 BY DEF Top
<1> QED BY <1>1 DEF Kept, ExtKept, SoftKept, TimerKept, Shot, OffInTraps, Levels, Level

LEMMA EmptyKept ==
    ASSUME NEW h \in Harts, stack[h] = <<>>, Kept(h)
    PROVE  /\ gie[h] /\ threshold[h] = 0 /\ {"ext", "soft"} \subseteq mie[h]
           /\ "timer" \in mie[h] <=> asked[h] = "start"
<1>1. Top(h) = 0 BY DEF Top
<1> QED BY <1>1 DEF Kept, ExtKept, SoftKept, TimerKept, OffInTraps, Levels, Level

LEMMA EnterKept ==
    ASSUME TypeOK, NEW h \in Harts, Shape(h), Kept(h), NEW kind \in Kinds,
           NEW at \in {"check", "clear", "body"}, Push(h, NewFrame(h, kind, at)),
           gie[h], kind \in mie[h], threshold'[h] = threshold[h], shot'[h] = shot[h],
           kind = "ext" => at = "check" /\ mie'[h] = mie[h] /\ asked'[h] = asked[h],
           kind = "soft" => mie'[h] = mie[h] \ {"soft"} /\ gie'[h] /\ asked'[h] = asked[h],
           kind = "timer" => /\ mie'[h] = mie[h] \ {"timer", "soft"} /\ gie'[h]
                             /\ asked'[h] = IF shot[h] THEN "expired" ELSE asked[h]
    PROVE  Kept(h)'
<1> PICK n : n = Top(h) + 1 OBVIOUS
<1>1. /\ Top(h)' = n /\ n = Top(h) + 1 /\ Top(h) \in Nat
      /\ \A i \in 1 .. Top(h) : stack'[h][i] = stack[h][i]
      /\ stack'[h][n].kind = kind /\ stack'[h][n].at = at /\ stack'[h][n].mie = mie[h]
      /\ stack'[h][n].threshold = threshold[h]
  BY EnterFacts
<1>2. n \in 1 .. n /\ \A i \in 1 .. n : i \in 1 .. Top(h) \/ i = n BY <1>1
<1>3. \A i \in 1 .. Top(h) : ~Fresh(h, i) BY NoneFresh
<1>4. \A i \in 1 .. Top(h) : /\ Fresh(h, i)' = Fresh(h, i) /\ Masks(h, i)' = Masks(h, i)
                             /\ IsSoft(h, i)' = IsSoft(h, i) /\ IsTimer(h, i)' = IsTimer(h, i)
                             /\ i \in 1 .. n
  BY <1>1 DEF Fresh, Masks, IsSoft, IsTimer
<1>5. /\ Fresh(h, n)' <=> kind = "ext"
      /\ ~Masks(h, n)' /\ (IsSoft(h, n)' <=> kind = "soft") /\ (IsTimer(h, n)' <=> kind = "timer")
  BY <1>1 DEF Fresh, Masks, IsSoft, IsTimer
<1>6. kind = "timer" => \A i \in 1 .. Top(h) : IsSoft(h, i)
  BY <1>3 DEF Shape, TimerMasked
<1>7. kind = "timer" => \A i \in 1 .. Top(h) : ~Masks(h, i) /\ ~IsTimer(h, i)
  BY <1>6 DEF IsSoft, Masks, IsTimer
<1>8. "timer" \in mie'[h] /\ asked'[h] = asked[h] <=> "timer" \in mie[h] /\ kind # "timer" /\ asked'[h] = asked[h]
  BY DEF Kinds
<1>9. ExtKept(h)'
  <2>1. "ext" \in mie[h] BY DEF Kept, ExtKept
  <2>2. "ext" \in mie'[h] BY <2>1 DEF Kinds
  <2> QED BY <1>1, <1>2, <1>4, <2>1, <2>2 DEF Kept, ExtKept
<1>10. SoftKept(h)'
  <2>1. n = 1 => "soft" \in mie[h] BY <1>1 DEF Kept, SoftKept
  <2>2. (\A i \in 1 .. n : Fresh(h, i)') => n = 1 /\ kind = "ext"
    <3> SUFFICES ASSUME \A i \in 1 .. n : Fresh(h, i)' PROVE n = 1 /\ kind = "ext" OBVIOUS
    <3>1. kind = "ext" BY <1>2, <1>5
    <3>2. \A i \in 1 .. Top(h) : FALSE BY <1>3, <1>4
    <3> QED BY <3>1, <3>2, <1>1
  <2>3. (\A i \in 1 .. n : Fresh(h, i)') => "soft" \in mie'[h] BY <2>1, <2>2
  <2>4. ASSUME NEW i \in 1 .. n, Masks(h, i)' \/ IsTimer(h, i)', i = 1
        PROVE  "soft" \in stack'[h][i].mie
    <3>1. CASE i = n BY <3>1, <2>1, <2>4, <1>1
    <3>2. CASE i \in 1 .. Top(h) BY <3>2, <2>4, <1>1, <1>4 DEF Kept, SoftKept
    <3> QED BY <3>1, <3>2, <1>2
  <2> QED BY <2>3, <2>4, <1>1 DEF SoftKept
<1>11. TimerKept(h)'
  <2>1. (\A i \in 1 .. n : Fresh(h, i)' \/ IsSoft(h, i)')
          => ("timer" \in mie'[h] <=> asked'[h] = "start")
    <3> SUFFICES ASSUME \A i \in 1 .. n : Fresh(h, i)' \/ IsSoft(h, i)'
                 PROVE  "timer" \in mie'[h] <=> asked'[h] = "start" OBVIOUS
    <3>1. kind \in {"ext", "soft"} BY <1>2, <1>5
    <3>2. \A i \in 1 .. Top(h) : Fresh(h, i) \/ IsSoft(h, i) BY <1>4
    <3>3. "timer" \in mie[h] <=> asked[h] = "start" BY <3>2 DEF Kept, TimerKept
    <3> QED BY <3>1, <3>3
  <2>2. ASSUME NEW i \in 1 .. n, Masks(h, i)', \A j \in 1 .. n : j < i => IsSoft(h, j)'
        PROVE  "timer" \in stack'[h][i].mie <=> asked'[h] = "start"
    <3>1. i \in 1 .. Top(h) /\ Masks(h, i) BY <2>2, <1>2, <1>4, <1>5
    <3>2. asked'[h] = asked[h] BY <3>1, <1>7 DEF Kinds
    <3>3. \A j \in 1 .. Top(h) : j < i => IsSoft(h, j) BY <2>2, <1>4
    <3> QED BY <3>1, <3>2, <3>3, <1>1 DEF Kept, TimerKept
  <2> QED BY <2>1, <2>2, <1>1 DEF TimerKept
<1>12. Shot(h)'
  <2> SUFFICES ASSUME NEW i \in 1 .. n, IsTimer(h, i)'
               PROVE  /\ "timer" \in stack'[h][i].mie
                      /\ asked'[h] = IF shot'[h] THEN "expired" ELSE "start"
    BY <1>1 DEF Shot
  <2>1. CASE i = n
    <3>1. kind = "timer" BY <2>1, <1>5
    <3>2. asked[h] = "start" BY <3>1, <1>6 DEF Kept, TimerKept
    <3> QED BY <2>1, <3>1, <3>2, <1>1
  <2>2. CASE i \in 1 .. Top(h)
    <3>1. IsTimer(h, i) /\ kind # "timer" BY <2>2, <1>4, <1>7
    <3> QED BY <2>2, <3>1, <1>1 DEF Kept, Shot, Kinds
  <2> QED BY <2>1, <2>2, <1>2
<1>13. OffInTraps(h)' BY <1>1, <1>2 DEF OffInTraps, Kinds
<1>14. Levels(h)'
  <2>1. \A i \in 0 .. Top(h) : Level(h, i)' = Level(h, i) BY <1>1, <1>4 DEF Level
  <2>2. Level(h, n)' = threshold[h] BY <1>1, <1>5 DEF Level
  <2>3. threshold[h] = Level(h, n - 1) BY <1>1 DEF Kept, Levels
  <2>4. ASSUME NEW i \in 1 .. n PROVE stack'[h][i].threshold = Level(h, i - 1)'
    <3>1. i - 1 \in 0 .. Top(h) BY <1>1
    <3>2. Level(h, i - 1)' = Level(h, i - 1) BY <2>1, <3>1
    <3>3. CASE i = n BY <3>2, <3>3, <2>3, <1>1
    <3>4. CASE i \in 1 .. Top(h) BY <3>2, <3>4, <1>1 DEF Kept, Levels
    <3> QED BY <3>3, <3>4, <1>2
  <2>5. threshold'[h] = Level(h, Top(h))' BY <2>2, <1>1
  <2> QED BY <2>4, <2>5, <1>1 DEF Levels
<1> QED BY <1>9, <1>10, <1>11, <1>12, <1>13, <1>14 DEF Kept

LEMMA LeaveKept ==
    ASSUME TypeOK, NEW h \in Harts, Shape(h), Kept(h), stack[h] # <<>>, Pop(h),
           asked'[h] = asked[h], shot'[h] = shot[h], gie'[h], "ext" \in mie'[h],
           Top(h) = 1 => "soft" \in mie'[h],
           (\A i \in 1 .. Top(h) : i < Top(h) => IsSoft(h, i))
             => ("timer" \in mie'[h] <=> asked[h] = "start"),
           threshold'[h] = stack[h][Top(h)].threshold
    PROVE  Kept(h)'
<1> PICK n : n = Top(h) - 1 OBVIOUS
<1>1. /\ Top(h)' = n /\ n = Top(h) - 1 /\ Top(h) \in Nat \ {0}
      /\ \A i \in 1 .. Top(h) - 1 : i \in 1 .. Top(h) /\ stack'[h][i] = stack[h][i]
  BY LeaveFacts
<1>2. \A i \in 1 .. n : /\ i \in 1 .. Top(h) /\ i < Top(h) /\ stack'[h][i] = stack[h][i]
                        /\ Masks(h, i)' = Masks(h, i) /\ ~Fresh(h, i)'
                        /\ IsSoft(h, i)' = IsSoft(h, i) /\ IsTimer(h, i)' = IsTimer(h, i)
  BY <1>1 DEF Masks, Fresh, IsSoft, IsTimer, Shape, LastOnly
<1>3. ExtKept(h)' BY <1>1, <1>2 DEF Kept, ExtKept
<1>4. SoftKept(h)'
  <2>1. (\A i \in 1 .. n : Fresh(h, i)') => Top(h) = 1
    <3> SUFFICES ASSUME \A i \in 1 .. n : Fresh(h, i)' PROVE Top(h) = 1 OBVIOUS
    <3>1. \A i \in 1 .. n : FALSE BY <1>2
    <3> QED BY <3>1, <1>1
  <2> QED BY <2>1, <1>1, <1>2 DEF Kept, SoftKept
<1>5. TimerKept(h)'
  <2>1. (\A i \in 1 .. n : Fresh(h, i)' \/ IsSoft(h, i)')
          => ("timer" \in mie'[h] <=> asked'[h] = "start")
    <3> SUFFICES ASSUME \A i \in 1 .. n : Fresh(h, i)' \/ IsSoft(h, i)'
                 PROVE  "timer" \in mie'[h] <=> asked'[h] = "start" OBVIOUS
    <3>1. \A i \in 1 .. Top(h) : i < Top(h) => i \in 1 .. n BY <1>1
    <3>2. \A i \in 1 .. Top(h) : i < Top(h) => IsSoft(h, i) BY <3>1, <1>2
    <3> QED BY <3>2
  <2>2. ASSUME NEW i \in 1 .. n, Masks(h, i)', \A j \in 1 .. n : j < i => IsSoft(h, j)'
        PROVE  "timer" \in stack'[h][i].mie <=> asked'[h] = "start"
    <3>1. \A j \in 1 .. Top(h) : j < i => j \in 1 .. n BY <1>1
    <3>2. \A j \in 1 .. Top(h) : j < i => IsSoft(h, j) BY <2>2, <3>1, <1>2
    <3> QED BY <2>2, <3>2, <1>2 DEF Kept, TimerKept
  <2> QED BY <2>1, <2>2, <1>1 DEF TimerKept
<1>6. Shot(h)' BY <1>1, <1>2 DEF Kept, Shot
<1>7. OffInTraps(h)' BY DEF OffInTraps
<1>8. Levels(h)'
  <2>1. \A i \in 0 .. n : Level(h, i)' = Level(h, i) BY <1>1, <1>2 DEF Level
  <2>2. Top(h) \in 1 .. Top(h) /\ n \in 0 .. n BY <1>1
  <2>3. threshold'[h] = Level(h, n) BY <2>2, <1>1 DEF Kept, Levels
  <2>4. threshold'[h] = Level(h, Top(h))' BY <2>1, <2>2, <2>3, <1>1
  <2>5. ASSUME NEW i \in 1 .. n PROVE stack'[h][i].threshold = Level(h, i - 1)'
    <3>1. i - 1 \in 0 .. n BY <1>1
    <3>2. Level(h, i - 1)' = Level(h, i - 1) BY <2>1, <3>1
    <3> QED BY <3>2, <1>2 DEF Kept, Levels
  <2> QED BY <2>4, <2>5, <1>1 DEF Levels
<1> QED BY <1>3, <1>4, <1>5, <1>6, <1>7, <1>8 DEF Kept

LEMMA GotoKept ==
    ASSUME TypeOK, NEW h \in Harts, Shape(h), Kept(h), stack[h] # <<>>,
           NEW at \in {"claim", "body", "after", "leave"}, GotoIn(h, at),
           mie'[h] = mie[h], asked'[h] = asked[h], shot'[h] = shot[h],
           threshold'[h] = threshold[h],
           at = "claim" => Fresh(h, Top(h)),
           at # "claim" => Frame(h).at \notin {"check", "claim"},
           at \in {"body", "after"} => gie'[h]
    PROVE  Kept(h)'
<1>1. /\ Top(h)' = Top(h) /\ Top(h) \in Nat \ {0}
      /\ \A i \in 1 .. Top(h) : i # Top(h) => stack'[h][i] = stack[h][i]
      /\ stack'[h][Top(h)].at = at
      /\ stack'[h][Top(h)].kind = stack[h][Top(h)].kind
      /\ stack'[h][Top(h)].irq = stack[h][Top(h)].irq
      /\ stack'[h][Top(h)].mie = stack[h][Top(h)].mie
      /\ stack'[h][Top(h)].threshold = stack[h][Top(h)].threshold
  BY GotoFacts
<1>2. Frame(h) = stack[h][Top(h)] BY TopFacts
<1>3. \A i \in 1 .. Top(h) : /\ stack'[h][i].mie = stack[h][i].mie
                             /\ stack'[h][i].irq = stack[h][i].irq
                             /\ stack'[h][i].threshold = stack[h][i].threshold
  BY <1>1
<1>4. \A i \in 1 .. Top(h) : /\ Fresh(h, i)' = Fresh(h, i) /\ Masks(h, i)' = Masks(h, i)
                             /\ IsSoft(h, i)' = IsSoft(h, i) /\ IsTimer(h, i)' = IsTimer(h, i)
  <2> TAKE i \in 1 .. Top(h)
  <2>1. CASE i = Top(h) BY <2>1, <1>1, <1>2 DEF Fresh, Masks, IsSoft, IsTimer
  <2>2. CASE i # Top(h) BY <2>2, <1>1 DEF Fresh, Masks, IsSoft, IsTimer
  <2> QED BY <2>1, <2>2
<1>5. ExtKept(h)' BY <1>1, <1>3, <1>4 DEF Kept, ExtKept
<1>6. SoftKept(h)' BY <1>1, <1>3, <1>4 DEF Kept, SoftKept
<1>7. TimerKept(h)' BY <1>1, <1>3, <1>4 DEF Kept, TimerKept
<1>8. Shot(h)' BY <1>1, <1>3, <1>4 DEF Kept, Shot
<1>9. OffInTraps(h)' BY <1>1 DEF OffInTraps
<1>10. Levels(h)'
  <2>1. \A i \in 0 .. Top(h) : Level(h, i)' = Level(h, i) BY <1>1, <1>3, <1>4 DEF Level
  <2>2. threshold'[h] = Level(h, Top(h))' BY <2>1, <1>1 DEF Kept, Levels
  <2>3. ASSUME NEW i \in 1 .. Top(h) PROVE stack'[h][i].threshold = Level(h, i - 1)'
    <3>1. i - 1 \in 0 .. Top(h) BY <1>1
    <3> QED BY <2>1, <3>1, <1>3 DEF Kept, Levels
  <2> QED BY <2>2, <2>3, <1>1 DEF Levels
<1> QED BY <1>5, <1>6, <1>7, <1>8, <1>9, <1>10 DEF Kept

LEMMA ClaimKept ==
    ASSUME TypeOK, NEW h \in Harts, Shape(h), Kept(h), ExtClaim(h)
    PROVE  Kept(h)'
<1> PICK s : s = Claimed(h) OBVIOUS
<1>1. /\ Top(h)' = Top(h) /\ Top(h) \in Nat \ {0}
      /\ stack[h][Top(h)].kind = "ext" /\ stack[h][Top(h)].at = "claim"
      /\ \A i \in 1 .. Top(h) : i # Top(h) => stack'[h][i] = stack[h][i]
      /\ stack'[h][Top(h)].at = "body" /\ stack'[h][Top(h)].kind = "ext"
      /\ stack'[h][Top(h)].irq = s /\ stack'[h][Top(h)].mie = mie[h]
      /\ stack'[h][Top(h)].threshold = threshold[h]
  BY ClaimFacts
<1>2. /\ mie'[h] = mie[h] \ {"timer", "soft"} /\ gie'[h]
      /\ threshold'[h] = IF s = None THEN 0 ELSE Priority[s]
      /\ asked'[h] = asked[h] /\ shot'[h] = shot[h]
  BY DEF ExtClaim, TypeOK, clint, ghosts
<1>3. \A i \in 1 .. Top(h) : i # Top(h) =>
         /\ Masks(h, i)' = Masks(h, i) /\ ~Fresh(h, i)
         /\ IsSoft(h, i)' = IsSoft(h, i) /\ IsTimer(h, i)' = IsTimer(h, i)
  BY <1>1 DEF IsSoft, IsTimer, Masks, Fresh, Shape, LastOnly
<1>4. /\ Masks(h, Top(h)) = FALSE /\ Fresh(h, Top(h))
      /\ Top(h) \in 1 .. Top(h)
  BY <1>1 DEF Masks, Fresh
<1>5. \A i \in 1 .. Top(h) : i = Top(h) =>
         ~Fresh(h, i)' /\ ~IsSoft(h, i)' /\ ~IsTimer(h, i)' /\ Masks(h, i)'
  BY <1>1 DEF Fresh, IsSoft, IsTimer, Masks
<1>6. ExtKept(h)' BY <1>1, <1>2, <1>3 DEF Kept, ExtKept
<1>7. SoftKept(h)'
  <2>1. ~ \A i \in 1 .. Top(h) : Fresh(h, i)' BY <1>4, <1>5
  <2>2. Top(h) = 1 => "soft" \in mie[h] BY <1>4 DEF Kept, SoftKept
  <2>3. ASSUME NEW i \in 1 .. Top(h), Masks(h, i)' \/ IsTimer(h, i)', i = 1
        PROVE  "soft" \in stack'[h][i].mie
    <3>1. CASE i = Top(h) BY <3>1, <2>2, <2>3, <1>1
    <3>2. CASE i # Top(h) BY <3>2, <2>3, <1>1, <1>3 DEF Kept, SoftKept
    <3> QED BY <3>1, <3>2
  <2> QED BY <2>1, <2>3, <1>1 DEF SoftKept
<1>8. TimerKept(h)'
  <2>1. ~ \A i \in 1 .. Top(h) : Fresh(h, i)' \/ IsSoft(h, i)' BY <1>4, <1>5
  <2>2. ASSUME NEW i \in 1 .. Top(h), Masks(h, i)', \A j \in 1 .. Top(h) : j < i => IsSoft(h, j)'
        PROVE  "timer" \in stack'[h][i].mie <=> asked'[h] = "start"
    <3>1. \A j \in 1 .. Top(h) : j < i => j # Top(h) /\ IsSoft(h, j) BY <2>2, <1>1, <1>3
    <3>2. CASE i = Top(h)
      <4>1. \A j \in 1 .. Top(h) : Fresh(h, j) \/ IsSoft(h, j) BY <3>1, <3>2, <1>1, <1>4
      <4> QED BY <4>1, <3>2, <1>1, <1>2 DEF Kept, TimerKept
    <3>3. CASE i # Top(h) BY <3>1, <3>3, <2>2, <1>1, <1>2, <1>3 DEF Kept, TimerKept
    <3> QED BY <3>2, <3>3
  <2> QED BY <2>1, <2>2, <1>1 DEF TimerKept
<1>9. Shot(h)'
  <2> SUFFICES ASSUME NEW i \in 1 .. Top(h), IsTimer(h, i)'
               PROVE  /\ "timer" \in stack'[h][i].mie
                      /\ asked'[h] = IF shot'[h] THEN "expired" ELSE "start"
    BY <1>1 DEF Shot
  <2>1. i # Top(h) BY <1>5
  <2> QED BY <2>1, <1>1, <1>2, <1>3 DEF Kept, Shot
<1>10. OffInTraps(h)' BY <1>2 DEF OffInTraps
<1>11. Levels(h)'
  <2>1. \A i \in 0 .. Top(h) - 1 : Level(h, i)' = Level(h, i) BY <1>1, <1>3 DEF Level
  <2>2. threshold[h] = Level(h, Top(h) - 1)
    <3>1. threshold[h] = stack[h][Top(h)].threshold BY <1>1, <1>4 DEF Kept, Levels, Level
    <3> QED BY <3>1, <1>4 DEF Kept, Levels
  <2>3. threshold'[h] = Level(h, Top(h))' BY <1>1, <1>2, <1>4, <1>5 DEF Level
  <2>4. ASSUME NEW i \in 1 .. Top(h) PROVE stack'[h][i].threshold = Level(h, i - 1)'
    <3>1. i - 1 \in 0 .. Top(h) - 1 BY <1>1
    <3>2. Level(h, i - 1)' = Level(h, i - 1) BY <2>1, <3>1
    <3>3. CASE i = Top(h) BY <3>2, <3>3, <2>2, <1>1
    <3>4. CASE i # Top(h) BY <3>2, <3>4, <1>1 DEF Kept, Levels
    <3> QED BY <3>3, <3>4
  <2> QED BY <2>3, <2>4, <1>1 DEF Levels
<1> QED BY <1>6, <1>7, <1>8, <1>9, <1>10, <1>11 DEF Kept

LEMMA HandlerKept ==
    ASSUME CallbackOps \cap {"start", "stop"} = {}, TypeOK, NEW h \in Harts, Shape(h), Kept(h),
           Handler(h)
    PROVE  Kept(h)'
<1> USE DEF TypeOK, plic, clint, ghosts
<1>0. stack[h] # <<>> => Top(h) \in 1 .. Top(h) /\ Top(h) \in Nat \ {0} /\ Frame(h) = stack[h][Top(h)]
  BY TopFacts
\* where the last frame is no external handler past its claim
<1>t. ASSUME stack[h] # <<>>, ~Masks(h, Top(h)) PROVE threshold[h] = stack[h][Top(h)].threshold
  BY <1>t, <1>0 DEF Kept, Levels, Level
<1>1. CASE ExtEnter(h)
  <2>1. "ext" \in mie[h] /\ gie[h] BY <1>1 DEF ExtEnter, Enter, Taken, Asserted
  <2>2. /\ mie'[h] = mie[h] /\ threshold'[h] = threshold[h] /\ shot'[h] = shot[h]
        /\ asked'[h] = asked[h]
    BY <1>1 DEF ExtEnter
  <2> QED BY <1>1, <2>1, <2>2, EnterKept DEF ExtEnter, Enter, NewFrame, Kinds
<1>2. CASE ExtCheck(h)
  <2>1. /\ stack[h] # <<>> /\ Fresh(h, Top(h)) /\ mie' = mie
        /\ threshold'[h] = threshold[h] /\ shot'[h] = shot[h] /\ asked'[h] = asked[h]
    BY <1>0, <1>2 DEF ExtCheck, InFrame, Fresh
  <2>2. CASE Meip(h) BY <1>2, <2>1, <2>2, GotoKept DEF ExtCheck
  <2>3. CASE ~Meip(h)
    <3>1. Pop(h) /\ gie'[h] BY <1>2, <2>3 DEF ExtCheck
    <3>2. "ext" \in mie'[h] BY <2>1 DEF Kept, ExtKept
    <3>3. Top(h) = 1 => "soft" \in mie'[h] BY <2>1 DEF Kept, SoftKept
    <3>4. (\A i \in 1 .. Top(h) : i < Top(h) => IsSoft(h, i))
            => ("timer" \in mie'[h] <=> asked[h] = "start")
      <4>1. \A i \in 1 .. Top(h) : i < Top(h) \/ i = Top(h) BY <1>0, <2>1
      <4> QED BY <2>1, <4>1 DEF Kept, TimerKept
    <3>5. threshold'[h] = stack[h][Top(h)].threshold BY <1>t, <2>1 DEF Fresh, Masks
    <3> QED BY <2>1, <3>1, <3>2, <3>3, <3>4, <3>5, LeaveKept
  <2> QED BY <2>2, <2>3
<1>3. CASE ExtClaim(h) BY <1>3, ClaimKept
<1>4. CASE ExtComplete(h)
  <2>1. /\ stack[h] # <<>> /\ Frame(h).at = "after" /\ GotoIn(h, "leave") /\ mie' = mie
        /\ threshold'[h] = threshold[h] /\ shot'[h] = shot[h] /\ asked'[h] = asked[h]
    BY <1>4 DEF ExtComplete, InFrame
  <2> QED BY <2>1, GotoKept
<1>5. CASE ExtLeave(h)
  <2>1. /\ stack[h] # <<>> /\ Masks(h, Top(h)) /\ mie'[h] = stack[h][Top(h)].mie /\ Pop(h)
        /\ threshold'[h] = stack[h][Top(h)].threshold /\ gie'[h]
        /\ shot'[h] = shot[h] /\ asked'[h] = asked[h]
    BY <1>0, <1>5 DEF ExtLeave, InFrame, Masks
  <2>2. "ext" \in mie'[h] BY <1>0, <2>1 DEF Kept, ExtKept
  <2>3. Top(h) = 1 => "soft" \in mie'[h] BY <1>0, <2>1 DEF Kept, SoftKept
  <2>4. (\A i \in 1 .. Top(h) : i < Top(h) => IsSoft(h, i))
          => ("timer" \in mie'[h] <=> asked[h] = "start")
    BY <1>0, <2>1 DEF Kept, TimerKept
  <2> QED BY <2>1, <2>2, <2>3, <2>4, LeaveKept
<1>6. CASE TimerEnter(h)
  <2>1. "timer" \in mie[h] /\ gie[h] BY <1>6 DEF TimerEnter, Taken, Asserted
  <2>2. /\ mie'[h] = mie[h] \ {"timer", "soft"} /\ gie'[h] /\ threshold'[h] = threshold[h]
        /\ shot'[h] = shot[h] /\ asked'[h] = IF shot[h] THEN "expired" ELSE asked[h]
    BY <1>6 DEF TimerEnter
  <2> QED BY <1>6, <2>1, <2>2, EnterKept DEF TimerEnter, NewFrame, Kinds
<1>7. CASE TimerLeave(h)
  <2>1. /\ stack[h] # <<>> /\ IsTimer(h, Top(h)) /\ Pop(h) /\ gie'[h]
        /\ threshold'[h] = threshold[h] /\ shot'[h] = shot[h] /\ asked'[h] = asked[h]
    BY <1>0, <1>7 DEF TimerLeave, InFrame, IsTimer
  <2>2. mie'[h] = IF shot[h] THEN stack[h][Top(h)].mie \ {"timer"} ELSE stack[h][Top(h)].mie
    <3>1. CASE shot[h] BY <1>0, <1>7, <2>1, <3>1 DEF TimerLeave
    <3>2. CASE ~shot[h] BY <1>0, <1>7, <2>1, <3>2 DEF TimerLeave
    <3> QED BY <3>1, <3>2
  <2>3. "ext" \in mie'[h] BY <1>0, <2>1, <2>2 DEF Kept, ExtKept
  <2>4. Top(h) = 1 => "soft" \in mie'[h] BY <1>0, <2>1, <2>2 DEF Kept, SoftKept
  <2>5. "timer" \in mie'[h] <=> asked[h] = "start" BY <1>0, <2>1, <2>2 DEF Kept, Shot
  <2>6. threshold'[h] = stack[h][Top(h)].threshold BY <1>t, <2>1 DEF IsTimer, Masks
  <2> QED BY <2>1, <2>3, <2>4, <2>5, <2>6, LeaveKept
<1>8. CASE SoftEnter(h)
  <2>1. "soft" \in mie[h] /\ gie[h] BY <1>8 DEF SoftEnter, Taken, Asserted
  <2>2. /\ mie'[h] = mie[h] \ {"soft"} /\ gie'[h] /\ threshold'[h] = threshold[h]
        /\ shot'[h] = shot[h] /\ asked'[h] = asked[h]
    BY <1>8 DEF SoftEnter
  <2> QED BY <1>8, <2>1, <2>2, EnterKept DEF SoftEnter, NewFrame, Kinds
<1>9. CASE SoftClear(h)
  <2>1. /\ stack[h] # <<>> /\ Frame(h).at = "clear" /\ GotoIn(h, "body") /\ mie' = mie
        /\ gie' = gie /\ threshold'[h] = threshold[h] /\ shot'[h] = shot[h]
        /\ asked'[h] = asked[h]
    BY <1>9 DEF SoftClear, InFrame
  <2>2. gie[h] BY <1>0, <2>1 DEF Kept, OffInTraps
  <2> QED BY <2>1, <2>2, GotoKept
<1>10. CASE SoftLeave(h)
  <2>1. /\ stack[h] # <<>> /\ IsSoft(h, Top(h)) /\ Pop(h) /\ gie'[h]
        /\ mie'[h] = mie[h] \cup {"soft"}
        /\ threshold'[h] = threshold[h] /\ shot'[h] = shot[h] /\ asked'[h] = asked[h]
    BY <1>0, <1>10 DEF SoftLeave, InFrame, IsSoft
  <2>2. Top(h) = 1 BY <1>0, <2>1 DEF Shape, SoftFirst
  <2>3. "ext" \in mie'[h] BY <2>1 DEF Kept, ExtKept
  <2>4. "timer" \in mie'[h] <=> asked[h] = "start" BY <2>1, <2>2 DEF Kept, TimerKept
  <2>5. threshold'[h] = stack[h][Top(h)].threshold BY <1>t, <2>1 DEF IsSoft, Masks
  <2> QED BY <2>1, <2>3, <2>4, <2>5, LeaveKept
<1>11. CASE Callback(h)
  <2>1. stack[h] # <<>> /\ Frame(h).at = "body" /\ GotoIn(h, "after") BY <1>11 DEF Callback
  <2>2. /\ mie' = mie /\ gie' = gie /\ threshold'[h] = threshold[h]
        /\ shot'[h] = shot[h] /\ asked'[h] = asked[h]
    BY <1>11 DEF Callback, Do, Send, Disable
  <2>3. gie[h] BY <1>0, <2>1 DEF Kept, OffInTraps
  <2> QED BY <2>1, <2>2, <2>3, GotoKept
<1> QED BY <1>1, <1>2, <1>3, <1>4, <1>5, <1>6, <1>7, <1>8, <1>9, <1>10, <1>11
        DEF Handler, Ext, Timer, Soft

LEMMA StepKept ==
    ASSUME CallbackOps \cap {"start", "stop"} = {}, TypeOK,
           \A g \in Harts : Shape(g) /\ Kept(g), [Next]_vars
    PROVE  \A g \in Harts : Kept(g)'
<1> TAKE g \in Harts
<1>0. ASSUME stack' = stack, mie'[g] = mie[g], gie'[g] = gie[g], threshold'[g] = threshold[g],
             asked'[g] = asked[g], shot'[g] = shot[g]
      PROVE  Kept(g)'
  BY <1>0, KeptElsewhere
<1>1. ASSUME NEW h \in Harts, Handler(h) PROVE Kept(g)'
  <2>1. CASE g = h BY <1>1, <2>1, HandlerKept
  <2>2. CASE g # h BY <1>1, <2>2, Elsewhere, KeptElsewhere
  <2> QED BY <2>1, <2>2
<1>2. ASSUME NEW h \in Harts, Thread(h) PROVE Kept(g)'
  <2> USE DEF TypeOK, Thread, Do, plic, clint
  <2>1. CASE Stop(h)
    <3>1. CASE g = h BY <1>2, <2>1, <3>1, EmptyKept, KeptEmpty DEF Stop
    <3>2. CASE g # h BY <1>2, <2>1, <3>2, <1>0 DEF Stop
    <3> QED BY <3>1, <3>2
  <2>2. ASSUME NEW single \in BOOLEAN, Start(h, single) PROVE Kept(g)'
    <3>1. CASE g = h BY <1>2, <2>2, <3>1, EmptyKept, KeptEmpty DEF Start
    <3>2. CASE g # h BY <1>2, <2>2, <3>2, <1>0 DEF Start
    <3> QED BY <3>1, <3>2
  <2>3. ASSUME NEW k \in Harts, Send(k) PROVE Kept(g)' BY <1>2, <2>3, <1>0 DEF Send
  <2> QED BY <1>2, <2>1, <2>2, <2>3
<1>3. ASSUME NEW h \in Harts, Tick(h) PROVE Kept(g)' BY <1>0, <1>3 DEF Tick, plic, ghosts
<1>4. ASSUME NEW h \in Harts, EnableWrite(h) PROVE Kept(g)'
  BY <1>0, <1>4 DEF EnableWrite, clint, ghosts
<1>5. ASSUME NEW h \in Harts, NEW s \in Sources, EnableRead(h, s) PROVE Kept(g)'
  BY <1>0, <1>5 DEF EnableRead, plic, clint
<1>6. ASSUME NEW s \in Sources, Raise(s) PROVE Kept(g)' BY <1>0, <1>6 DEF Raise, clint, ghosts
<1>7. CASE UNCHANGED vars BY <1>0, <1>7 DEF vars
<1> QED BY <1>1, <1>2, <1>3, <1>4, <1>5, <1>6, <1>7 DEF Next

LEMMA InitKept == ASSUME Init, NEW g \in Harts PROVE Kept(g)
<1>1. Top(g) = 0 BY DEF Init, Top
<1>2. /\ mie[g] = {"ext", "soft"} /\ gie[g] /\ threshold[g] = 0 /\ asked[g] = "stop" BY DEF Init
<1> QED BY <1>1, <1>2 DEF Kept, ExtKept, SoftKept, TimerKept, Shot, OffInTraps, Levels, Level

\* Back in its thread a hart is as it was left, for any sources, priorities
\* and depth, when callbacks neither start nor stop the timer.
THEOREM RestoresAll ==
    ASSUME CallbackOps \cap {"start", "stop"} = {}
    PROVE  Spec => []Restored
<1> DEFINE Inv == TypeOK /\ \A g \in Harts : Shape(g) /\ Kept(g)
<1>1. Init => Inv BY InitTypes, InitShape, InitKept
<1>2. Inv /\ [Next]_vars => Inv' BY StepTypes, StepShape, StepKept
<1>3. Inv => Restored
  <2> SUFFICES ASSUME Inv, NEW h \in Harts, Quiet(h)
               PROVE  /\ threshold[h] = 0 /\ gie[h]
                      /\ mie[h] = {"ext", "soft"}
                                    \cup (IF asked[h] = "start" THEN {"timer"} ELSE {})
    BY DEF Restored
  <2>1. /\ gie[h] /\ threshold[h] = 0 /\ {"ext", "soft"} \subseteq mie[h]
        /\ "timer" \in mie[h] <=> asked[h] = "start"
    BY EmptyKept DEF Quiet
  <2>2. mie[h] \subseteq Kinds BY DEF TypeOK
  <2> QED BY <2>1, <2>2 DEF Kinds
<1> QED BY <1>1, <1>2, <1>3, PTL DEF Spec
=============================================================================
