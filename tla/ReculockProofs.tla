--------------------------- MODULE ReculockProofs ---------------------------
(***************************************************************************)
(* Proofs about the recursive locks of newlib, for any harts, locks, slots *)
(* and nesting, careless releases included: the table agrees with what the *)
(* callers hold, and each lock implements RecMutex.                        *)
(***************************************************************************)
EXTENDS Reculock, WellFoundedInduction, TLAPS

-----------------------------------------------------------------------------
(***************************************************************************)
(* The inductive invariant.                                                *)
(***************************************************************************)
Acquires == {"lock", "trylock", "relock"}
Active(h) == pc[h] \notin {"idle", "exited"}

\* h holds the word of l; _lock_init_recursive does without
Inside(h, l) == /\ lk[h] = l
                /\ \/ pc[h] \in {"find", "test", "leave"}
                   \/ pc[h] \in {"mspin", "claim", "mleave"} /\ op[h] # "init"
InMutex(h) == pc[h] \in {"claim", "mleave"}

\* A word is taken exactly while one hart is inside, reculock_mutex likewise.
WordGuards == \A l \in Locks :
    /\ word[l] = 0 => \A h \in Harts : ~Inside(h, l)
    /\ word[l] # 0 => \E h \in Harts : Inside(h, l)
    /\ \A g, h \in Harts : Inside(g, l) /\ Inside(h, l) => g = h
MutexGuards == /\ mutex = 0 => \A h \in Harts : ~InMutex(h)
               /\ \A g, h \in Harts : InMutex(g) /\ InMutex(h) => g = h

\* Where each kind of call can be, and that a lock is initialised and closed
\* by a hart that has it to itself.
Alone(h) == /\ \A g \in Harts : Active(g) /\ lk[g] = lk[h] => g = h
            /\ \A g \in Harts : held[lk[h]][g] = 0
Caller(h) ==
    /\ pc[h] # "idle" => lk[h] \in Locks
    /\ op[h] = "init" => pc[h] \in {"idle", "mspin", "claim", "mleave"}
    /\ pc[h] \in {"mspin", "claim", "mleave"} => op[h] \in Acquires \cup {"init"}
    /\ pc[h] = "poll" => op[h] \in Acquires
    /\ pc[h] = "leave" /\ op[h] = "close" => res[h] = 0
    /\ op[h] = "init" /\ Active(h) => Alone(h) /\ lk[h] \in inited
    /\ op[h] = "close" /\ Active(h) => Alone(h) /\ lk[h] \notin inited
Callers == \A h \in Harts : Caller(h)

\* A lock has one slot at most.
OneSlot == \A s, t \in Slots : slots[s].lock = slots[t].lock /\ slots[s].lock # NoLock => s = t

\* What a call knows of the slot it works on.
HasSlot(h) == IF mine[h] = Null THEN SlotOf(lk[h]) = {} ELSE slots[mine[h]].lock = lk[h]
Knows(h) ==
    /\ pc[h] \in {"mspin", "claim"} => SlotOf(lk[h]) = {}
    /\ pc[h] = "claim" /\ mine[h] # Null => slots[mine[h]].lock = NoLock
    /\ pc[h] \in {"mleave", "test"} => HasSlot(h)
    /\ pc[h] = "leave" /\ op[h] = "close" => SlotOf(lk[h]) = {}
    /\ pc[h] = "leave" /\ op[h] \in Acquires /\ res[h] = 0
         => mine[h] # Null /\ slots[mine[h]].lock = lk[h] /\ slots[mine[h]].core = h
    /\ pc[h] = "leave" /\ op[h] \in Acquires /\ res[h] = -1
         => HasSlot(h) /\ (mine[h] # Null => slots[mine[h]].counter > 0)
Mine == \A h \in Harts : Knows(h)

\* Levels a call has written to the table and not yet returned to its caller.
Gain(h, l) == IF lk[h] = l /\ pc[h] = "leave" /\ res[h] = 0
              THEN CASE op[h] = "unlock" -> -1 [] op[h] = "close" -> 0 [] OTHER -> 1
              ELSE 0

\* A slot says who holds its lock and how deep; a lock without a slot is held
\* by nobody, but for the last level of a release that has not returned.
Levels == \A l \in Locks : \A s \in Slots : slots[s].lock = l =>
    \A h \in Harts : held[l][h] + Gain(h, l) = IF slots[s].core = h THEN slots[s].counter ELSE 0
NoLevels == \A l \in Locks : SlotOf(l) = {} =>
    \A h \in Harts : held[l][h] = 0 \/ (held[l][h] = 1 /\ Gain(h, l) = -1)

\* A slot with no level belongs to an initialised lock, or to a call that is
\* about to use or to free it.
Fresh == \A s \in Slots : slots[s].lock # NoLock /\ slots[s].counter = 0 =>
    \/ slots[s].lock \in inited
    \/ \E h \in Harts : /\ lk[h] = slots[s].lock
                        /\ \/ pc[h] \in {"mleave", "test"} /\ op[h] \in Acquires
                           \/ pc[h] \in {"spin", "find", "test"} /\ op[h] = "close"

IInv == /\ TypeOK /\ WordGuards /\ MutexGuards /\ Callers
        /\ OneSlot /\ Mine /\ Levels /\ NoLevels /\ Fresh

-----------------------------------------------------------------------------
\* get_reculock and get_free_reculock find a slot if there is one.
LEMMA LowestIn == ASSUME NEW S \in SUBSET Slots, S # {} PROVE Lowest(S) \in S
<1> DEFINE R == {p \in Nat \X Nat : p[1] < p[2]}
<1>1. IsWellFoundedOn(R, Nat) BY NatLessThanWellFounded DEF OpToRel
<1>2. S \subseteq Nat BY SlotAssumption DEF Slots
<1> HIDE DEF R
<1>3. PICK x \in S : \A y \in S : ~ (<<y, x>> \in R) BY <1>1, <1>2, WFMin
<1>4. ASSUME NEW y \in S PROVE x <= y
  <2>1. x \in Nat /\ y \in Nat BY <1>2
  <2>2. y < x => <<y, x>> \in R BY <2>1 DEF R
  <2> QED BY <2>1, <2>2, <1>3
<1> QED BY <1>4 DEF Lowest

LEMMA FindsSlot ==
    ASSUME TypeOK, NEW l
    PROVE  LET m == IF SlotOf(l) = {} THEN Null ELSE Lowest(SlotOf(l)) IN
           /\ m \in Slots \cup {Null}
           /\ m = Null <=> SlotOf(l) = {}
           /\ m # Null => m \in Slots /\ slots[m].lock = l
<1>1. Null \notin Slots BY SlotAssumption DEF Null, Slots
<1>2. SlotOf(l) \in SUBSET Slots BY DEF SlotOf
<1>3. SlotOf(l) # {} => Lowest(SlotOf(l)) \in SlotOf(l) BY <1>2, LowestIn
<1> QED BY <1>1, <1>3 DEF SlotOf

LEMMA InitInv == Init => IInv
  BY HartAssumption, LockAssumption, SlotAssumption
  DEF Init, IInv, TypeOK, WordGuards, MutexGuards, Callers, Caller, OneSlot, Mine, Knows, Levels, NoLevels, Fresh,
      Free, Null, Inside, InMutex, Active, Gain, SlotOf, Acquires

\* One field of a slot changed leaves it well typed.
SlotRecord == [lock : Locks \cup {NoLock}, counter : Nat, core : Harts]
LEMMA SlotFields ==
    ASSUME NEW r \in SlotRecord, NEW n \in Nat, NEW c \in Harts
    PROVE  /\ [r EXCEPT !.counter = n] \in SlotRecord
           /\ [r EXCEPT !.counter = n, !.core = c] \in SlotRecord
  BY DEF SlotRecord

\* What the actions that may end a call do to the calls, hart by hart.
Elsewhere(h) == \A g \in Harts \ {h} : /\ pc'[g] = pc[g] /\ op'[g] = op[g] /\ lk'[g] = lk[g]
                                      /\ res'[g] = res[g] /\ mine'[g] = mine[g]
Ended(h) == pc'[h] = "idle" /\ op'[h] = "lock" /\ lk'[h] = NoLock /\ res'[h] = 0 /\ mine'[h] = Null
WentTo(h, next) == /\ pc'[h] = next /\ op'[h] = op[h] /\ lk'[h] = lk[h]
                   /\ res'[h] = res[h] /\ mine'[h] = mine[h]

LEMMA ReturnEffect == ASSUME TypeOK, NEW h \in Harts, Return(h, "idle") PROVE Elsewhere(h) /\ Ended(h)
  BY DEF TypeOK, Return, Elsewhere, Ended
LEMMA WordBusyEffect ==
    ASSUME TypeOK, NEW h \in Harts, WordBusy(h)
    PROVE  /\ Elsewhere(h)
           /\ IF op[h] = "relock" THEN WentTo(h, "poll") ELSE Ended(h)
  <1>1. CASE op[h] = "relock" BY <1>1 DEF TypeOK, WordBusy, Elsewhere, WentTo
  <1>2. CASE op[h] # "relock" BY <1>2, ReturnEffect DEF WordBusy
  <1> QED BY <1>1, <1>2
LEMMA MutexLeaveEffect ==
    ASSUME TypeOK, NEW h \in Harts, MutexLeave(h)
    PROVE  /\ Elsewhere(h)
           /\ IF op[h] = "init" THEN Ended(h) ELSE WentTo(h, "test")
  <1>1. CASE op[h] # "init" BY <1>1 DEF TypeOK, MutexLeave, Elsewhere, WentTo
  <1>2. CASE op[h] = "init" BY <1>2, ReturnEffect DEF MutexLeave
  <1> QED BY <1>1, <1>2
LEMMA LeaveDoneEffect == ASSUME TypeOK, NEW h \in Harts, LeaveDone(h) PROVE Elsewhere(h) /\ Ended(h)
  BY ReturnEffect DEF LeaveDone
LEMMA LeaveRefusedEffect ==
    ASSUME TypeOK, NEW h \in Harts, LeaveRefused(h)
    PROVE  /\ Elsewhere(h)
           /\ IF op[h] = "trylock" THEN Ended(h) ELSE WentTo(h, "poll")
  <1>1. CASE op[h] # "trylock" BY <1>1 DEF TypeOK, LeaveRefused, Elsewhere, WentTo
  <1>2. CASE op[h] = "trylock" BY <1>2, ReturnEffect DEF LeaveRefused
  <1> QED BY <1>1, <1>2

\* What the others do to the table and to the levels held, entry by entry.
Left(h, r) == /\ pc'[h] = "leave" /\ op'[h] = op[h] /\ lk'[h] = lk[h] /\ mine'[h] = mine[h]
              /\ res'[h] = r

LEMMA ClaimEffect ==
    ASSUME TypeOK, NEW h \in Harts, Claim(h)
    PROVE  /\ Elsewhere(h) /\ WentTo(h, "mleave")
           /\ \A s \in Slots : slots'[s] = IF s = mine[h] THEN [lock |-> lk[h], counter |-> 0, core |-> 0]
                                                        ELSE slots[s]
  <1>1. Elsewhere(h) /\ WentTo(h, "mleave") BY DEF TypeOK, Claim, Elsewhere, WentTo
  <1>2. Null \notin Slots BY SlotAssumption DEF Null, Slots
  <1>3. CASE mine[h] = Null BY <1>1, <1>2, <1>3 DEF Claim
  <1>4. CASE mine[h] # Null BY <1>1, <1>4 DEF Claim, TypeOK, Free
  <1> QED BY <1>3, <1>4

Takes(h) == mine[h] # Null /\ (slots[mine[h]].counter = 0 \/ slots[mine[h]].core = h)
LEMMA AcquireEffect ==
    ASSUME TypeOK, NEW h \in Harts, Acquire(h)
    PROVE  /\ Elsewhere(h)
           /\ Takes(h) =>
                /\ Left(h, 0) /\ mine[h] \in Slots
                /\ \A s \in Slots :
                     IF s # mine[h] THEN slots'[s] = slots[s]
                     ELSE /\ slots'[s].lock = slots[s].lock /\ slots'[s].core = h
                          /\ slots'[s].counter = slots[s].counter + 1
           /\ ~Takes(h) => Left(h, -1) /\ slots' = slots
  <1>1. Elsewhere(h) /\ \E r \in {0, -1} : Left(h, r) BY DEF TypeOK, Acquire, Elsewhere, Left
  <1>2. CASE ~Takes(h) BY <1>1, <1>2 DEF Acquire, Takes, TypeOK, Left
  <1>3. CASE Takes(h)
    <2>1. mine[h] \in Slots BY <1>3 DEF TypeOK, Takes
    <2>2. slots' = [slots EXCEPT ![mine[h]].counter = @ + 1, ![mine[h]].core = h] /\ Left(h, 0)
      BY <1>1, <1>3 DEF Acquire, Takes, TypeOK, Left
    <2>3. ASSUME NEW s \in Slots, s # mine[h] PROVE slots'[s] = slots[s]
      BY <2>1, <2>2, <2>3 DEF TypeOK
    <2>4. /\ slots'[mine[h]].lock = slots[mine[h]].lock /\ slots'[mine[h]].core = h
          /\ slots'[mine[h]].counter = slots[mine[h]].counter + 1
      BY <2>1, <2>2 DEF TypeOK
    <2> QED BY <1>1, <1>3, <2>1, <2>2, <2>3, <2>4
  <1> QED BY <1>2, <1>3

Gives(h) == mine[h] # Null /\ slots[mine[h]].core = h
LEMMA ReleaseEffect ==
    ASSUME TypeOK, NEW h \in Harts, Release(h)
    PROVE  /\ Elsewhere(h)
           /\ Gives(h) =>
                /\ Left(h, 0) /\ mine[h] \in Slots
                /\ \A s \in Slots : slots'[s] =
                     IF s # mine[h] THEN slots[s]
                     ELSE IF slots[s].counter <= 1 THEN Free
                     ELSE [lock |-> slots[s].lock, counter |-> slots[s].counter - 1, core |-> h]
           /\ ~Gives(h) => Left(h, -1) /\ slots' = slots
  <1>1. Elsewhere(h) /\ \E r \in {0, -1} : Left(h, r) BY DEF TypeOK, Release, Elsewhere, Left
  <1>2. CASE ~Gives(h) BY <1>1, <1>2 DEF Release, Gives, TypeOK, Left
  <1>3. CASE Gives(h)
    <2>1. mine[h] \in Slots BY <1>3 DEF TypeOK, Gives
    <2>2. /\ slots' = IF slots[mine[h]].counter <= 1 THEN [slots EXCEPT ![mine[h]] = Free]
                      ELSE [slots EXCEPT ![mine[h]].counter = @ - 1]
          /\ Left(h, 0) /\ slots[mine[h]].core = h
      BY <1>1, <1>3 DEF Release, Gives, TypeOK, Left
    <2>3. ASSUME NEW s \in Slots
          PROVE  slots'[s] = IF s # mine[h] THEN slots[s]
                             ELSE IF slots[s].counter <= 1 THEN Free
                             ELSE [lock |-> slots[s].lock, counter |-> slots[s].counter - 1, core |-> h]
      BY <2>1, <2>2 DEF TypeOK
    <2> QED BY <1>1, <1>3, <2>1, <2>2, <2>3
  <1> QED BY <1>2, <1>3

LEMMA CloseEffect ==
    ASSUME TypeOK, NEW h \in Harts, Close(h)
    PROVE  /\ Elsewhere(h) /\ Left(h, 0)
           /\ \A s \in Slots : slots'[s] = IF s = mine[h] THEN Free ELSE slots[s]
  <1>1. Elsewhere(h) /\ Left(h, 0) BY DEF TypeOK, Close, Elsewhere, Left
  <1>2. Null \notin Slots BY SlotAssumption DEF Null, Slots
  <1>3. CASE mine[h] = Null BY <1>1, <1>2, <1>3 DEF Close
  <1>4. CASE mine[h] # Null BY <1>1, <1>4 DEF Close, TypeOK
  <1> QED BY <1>3, <1>4

LEMMA HeldEffect ==
    ASSUME TypeOK, NEW h \in Harts, LeaveDone(h), lk[h] \in Locks
    PROVE  \A l \in Locks, g \in Harts : held'[l][g] =
             IF l # lk[h] \/ g # h THEN held[l][g]
             ELSE CASE op[h] = "close" -> held[l][g]
                    [] op[h] = "unlock" -> IF held[l][g] > 0 THEN held[l][g] - 1 ELSE 0
                    [] OTHER -> held[l][g] + 1
  BY DEF TypeOK, LeaveDone

LEMMA NextTypeOK == TypeOK /\ Callers /\ [Next]_vars => TypeOK'
  <1> SUFFICES ASSUME TypeOK, Callers, [Next]_vars PROVE TypeOK'
    OBVIOUS
  <1> USE HartAssumption DEF TypeOK, Callers, Caller
  <1>1. ASSUME NEW h \in Harts, NEW l \in Locks, CallLock(h, l) PROVE TypeOK'
    BY <1>1 DEF CallLock, Call
  <1>2. ASSUME NEW h \in Harts, NEW l \in Locks, CallTrylock(h, l) PROVE TypeOK'
    BY <1>2 DEF CallTrylock, Call
  <1>3. ASSUME NEW h \in Harts, NEW l \in Locks, CallUnlock(h, l) PROVE TypeOK'
    BY <1>3 DEF CallUnlock, Call
  <1>4. ASSUME NEW h \in Harts, NEW l \in Locks, CallInit(h, l) PROVE TypeOK'
    BY <1>4 DEF CallInit, Call
  <1>5. ASSUME NEW h \in Harts, NEW l \in Locks, CallClose(h, l) PROVE TypeOK'
    BY <1>5 DEF CallClose, Call
  <1>6. ASSUME NEW h \in Harts, WordTake(h) PROVE TypeOK'
    BY <1>6 DEF WordTake
  <1>7. ASSUME NEW h \in Harts, WordBusy(h) PROVE TypeOK'
    <2>1. Elsewhere(h) /\ IF op[h] = "relock" THEN WentTo(h, "poll") ELSE Ended(h) BY <1>7, WordBusyEffect
    <2> QED BY <1>7, <2>1 DEF WordBusy, Null, Return, Elsewhere, Ended, WentTo
  <1>8. ASSUME NEW h \in Harts, Poll(h) PROVE TypeOK'
    BY <1>8 DEF Poll
  <1>9. ASSUME NEW h \in Harts, Find(h) PROVE TypeOK'
    BY <1>9, FindsSlot DEF Find
  <1>10. ASSUME NEW h \in Harts, MutexTake(h) PROVE TypeOK'
    BY <1>10, FindsSlot DEF MutexTake
  <1>11. ASSUME NEW h \in Harts, Claim(h) PROVE TypeOK'
    BY <1>11 DEF Claim, Free
  <1>12. ASSUME NEW h \in Harts, MutexLeave(h) PROVE TypeOK'
    <2>1. Elsewhere(h) /\ IF op[h] = "init" THEN Ended(h) ELSE WentTo(h, "test") BY <1>12, MutexLeaveEffect
    <2> QED BY <1>12, <2>1 DEF MutexLeave, Null, Return, Elsewhere, Ended, WentTo
  <1>13. ASSUME NEW h \in Harts, Acquire(h) PROVE TypeOK'
    <2>1. CASE slots' = slots BY <1>13, <2>1 DEF Acquire
    <2>2. CASE slots' # slots
      <3> DEFINE s == mine[h]
                 r == [slots[s] EXCEPT !.counter = slots[s].counter + 1, !.core = h]
      <3>1. s \in Slots BY <1>13, <2>2 DEF Acquire
      <3>2. slots[s] \in SlotRecord /\ slots[s].counter + 1 \in Nat BY <3>1 DEF SlotRecord
      <3>3. r \in SlotRecord BY <3>2, SlotFields
      <3>4. slots' = [slots EXCEPT ![s] = r] BY <1>13, <2>2, <3>1 DEF Acquire
      <3> HIDE DEF r
      <3>5. slots' \in [Slots -> SlotRecord] BY <3>1, <3>3, <3>4 DEF SlotRecord
      <3> QED BY <1>13, <3>5 DEF Acquire, SlotRecord
    <2> QED BY <2>1, <2>2
  <1>14. ASSUME NEW h \in Harts, Release(h) PROVE TypeOK'
    <2>1. CASE slots' = slots BY <1>14, <2>1 DEF Release, Free
    <2>2. CASE slots' # slots
      <3> DEFINE s == mine[h]
                 r == IF slots[s].counter <= 1 THEN Free
                      ELSE [slots[s] EXCEPT !.counter = slots[s].counter - 1]
      <3>1. s \in Slots BY <1>14, <2>2 DEF Release, Free
      <3>2. slots[s] \in SlotRecord /\ slots[s].counter \in Nat BY <3>1 DEF SlotRecord
      <3>3. r \in SlotRecord
        <4>1. CASE slots[s].counter <= 1 BY <4>1 DEF Free, SlotRecord
        <4>2. CASE ~(slots[s].counter <= 1)
          <5>1. slots[s].counter - 1 \in Nat BY <3>2, <4>2
          <5> QED BY <4>2, <3>2, <5>1, SlotFields
        <4> QED BY <4>1, <4>2
      <3>4. slots' = [slots EXCEPT ![s] = r]
        <4> HIDE DEF TypeOK, Callers, Caller
        <4> QED BY <1>14, <2>2 DEF Release
      <3> HIDE DEF r
      <3>5. slots' \in [Slots -> SlotRecord] BY <3>1, <3>3, <3>4 DEF SlotRecord
      <3> QED BY <1>14, <3>5 DEF Release, Free, SlotRecord
    <2> QED BY <2>1, <2>2
  <1>15. ASSUME NEW h \in Harts, Close(h) PROVE TypeOK'
    BY <1>15 DEF Close, Free
  <1>16. ASSUME NEW h \in Harts, LeaveDone(h) PROVE TypeOK'
    <2>1. Elsewhere(h) /\ Ended(h) BY <1>16, LeaveDoneEffect
    <2> QED BY <1>16, <2>1 DEF LeaveDone, Null, Return, Elsewhere, Ended
  <1>17. ASSUME NEW h \in Harts, LeaveRefused(h) PROVE TypeOK'
    <2>1. Elsewhere(h) /\ IF op[h] = "trylock" THEN Ended(h) ELSE WentTo(h, "poll") BY <1>17, LeaveRefusedEffect
    <2>2. word' \in [Locks -> {0, -1}] BY <1>17 DEF LeaveRefused
    <2>3. CASE op[h] = "trylock"
      <3>1. Return(h, "idle") /\ UNCHANGED <<mutex, slots, inited, held>>
        BY <1>17, <2>3 DEF LeaveRefused
      <3> QED BY <2>2, <3>1 DEF Return, Null
    <2>4. CASE op[h] # "trylock"
      <3>1. pc' = [pc EXCEPT ![h] = "poll"] /\ UNCHANGED <<op, lk, res, mine, mutex, slots, inited, held>>
        BY <1>17, <2>4 DEF LeaveRefused
      <3> QED BY <2>2, <3>1
    <2> QED BY <2>3, <2>4
  <1>18. ASSUME NEW h \in Harts, LeaveExit(h) PROVE TypeOK'
    BY <1>18 DEF LeaveExit
  <1>19. CASE UNCHANGED vars
    BY <1>19 DEF vars
  <1> QED
    BY <1>1, <1>2, <1>3, <1>4, <1>5, <1>6, <1>7, <1>8, <1>9, <1>10, <1>11, <1>12, <1>13,
       <1>14, <1>15, <1>16, <1>17, <1>18, <1>19 DEF Next, Calls, Step

LEMMA NextWordGuards == TypeOK /\ Callers /\ WordGuards /\ [Next]_vars => WordGuards'
  <1> SUFFICES ASSUME TypeOK, Callers, WordGuards, [Next]_vars PROVE WordGuards'
    OBVIOUS
  <1> USE HartAssumption DEF TypeOK, Callers, Caller, WordGuards, Inside, Acquires
  <1>1. ASSUME NEW h \in Harts, NEW l \in Locks, CallLock(h, l) PROVE WordGuards'
    BY <1>1 DEF CallLock, Call
  <1>2. ASSUME NEW h \in Harts, NEW l \in Locks, CallTrylock(h, l) PROVE WordGuards'
    BY <1>2 DEF CallTrylock, Call
  <1>3. ASSUME NEW h \in Harts, NEW l \in Locks, CallUnlock(h, l) PROVE WordGuards'
    BY <1>3 DEF CallUnlock, Call
  <1>4. ASSUME NEW h \in Harts, NEW l \in Locks, CallInit(h, l) PROVE WordGuards'
    BY <1>4 DEF CallInit, Call
  <1>5. ASSUME NEW h \in Harts, NEW l \in Locks, CallClose(h, l) PROVE WordGuards'
    BY <1>5 DEF CallClose, Call
  <1>6. ASSUME NEW h \in Harts, WordTake(h) PROVE WordGuards'
    BY <1>6 DEF WordTake
  <1>7. ASSUME NEW h \in Harts, WordBusy(h) PROVE WordGuards'
    <2>1. Elsewhere(h) /\ IF op[h] = "relock" THEN WentTo(h, "poll") ELSE Ended(h) BY <1>7, WordBusyEffect
    <2>2. \A g \in Harts, l \in Locks : Inside(g, l)' <=> Inside(g, l)
      BY <1>7, <2>1, LockAssumption DEF WordBusy, Elsewhere, Ended, WentTo
    <2>3. word' = word BY <1>7 DEF WordBusy
    <2> HIDE DEF TypeOK, Callers, Caller
    <2> QED BY <2>2, <2>3
  <1>8. ASSUME NEW h \in Harts, Poll(h) PROVE WordGuards'
    BY <1>8 DEF Poll
  <1>9. ASSUME NEW h \in Harts, Find(h) PROVE WordGuards'
    BY <1>9 DEF Find
  <1>10. ASSUME NEW h \in Harts, MutexTake(h) PROVE WordGuards'
    BY <1>10 DEF MutexTake
  <1>11. ASSUME NEW h \in Harts, Claim(h) PROVE WordGuards'
    BY <1>11 DEF Claim
  <1>12. ASSUME NEW h \in Harts, MutexLeave(h) PROVE WordGuards'
    <2>1. Elsewhere(h) /\ IF op[h] = "init" THEN Ended(h) ELSE WentTo(h, "test") BY <1>12, MutexLeaveEffect
    <2>2. \A g \in Harts, l \in Locks : Inside(g, l)' <=> Inside(g, l)
      BY <1>12, <2>1 DEF MutexLeave, Elsewhere, Ended, WentTo
    <2> HIDE DEF TypeOK, Callers, Caller, Inside
    <2> QED BY <1>12, <2>2 DEF MutexLeave
  <1>13. ASSUME NEW h \in Harts, Acquire(h) PROVE WordGuards'
    BY <1>13 DEF Acquire
  <1>14. ASSUME NEW h \in Harts, Release(h) PROVE WordGuards'
    BY <1>14 DEF Release
  <1>15. ASSUME NEW h \in Harts, Close(h) PROVE WordGuards'
    BY <1>15 DEF Close
  <1>16. ASSUME NEW h \in Harts, LeaveDone(h) PROVE WordGuards'
    <2>1. Elsewhere(h) /\ Ended(h) BY <1>16, LeaveDoneEffect
    <2>2. \A g \in Harts, l \in Locks : Inside(g, l)' <=> g # h /\ Inside(g, l)
      BY <1>16, <2>1, LockAssumption DEF LeaveDone, Elsewhere, Ended
    <2>3. Inside(h, lk[h]) /\ lk[h] \in Locks BY <1>16 DEF LeaveDone
    <2>4. \A l \in Locks : l # lk[h] => ~Inside(h, l) OBVIOUS
    <2>5. \A l \in Locks : word'[l] = IF l = lk[h] THEN 0 ELSE word[l] BY <1>16 DEF LeaveDone
    <2> HIDE DEF TypeOK, Callers, Caller, Inside
    <2>6. ASSUME NEW l \in Locks
          PROVE  /\ word'[l] = 0 => \A g \in Harts : ~Inside(g, l)'
                 /\ word'[l] # 0 => \E g \in Harts : Inside(g, l)'
                 /\ \A f, g \in Harts : Inside(f, l)' /\ Inside(g, l)' => f = g
      <3>1. CASE l = lk[h] BY <2>2, <2>3, <2>5, <3>1
      <3>2. CASE l # lk[h] BY <2>2, <2>4, <2>5, <3>2
      <3> QED BY <3>1, <3>2
    <2> QED BY <2>6
  <1>17. ASSUME NEW h \in Harts, LeaveRefused(h) PROVE WordGuards'
    <2>1. Elsewhere(h) /\ IF op[h] = "trylock" THEN Ended(h) ELSE WentTo(h, "poll") BY <1>17, LeaveRefusedEffect
    <2>2. \A g \in Harts, l \in Locks : Inside(g, l)' <=> g # h /\ Inside(g, l)
      BY <1>17, <2>1, LockAssumption DEF LeaveRefused, Elsewhere, Ended, WentTo
    <2>3. Inside(h, lk[h]) /\ lk[h] \in Locks BY <1>17 DEF LeaveRefused
    <2>4. \A l \in Locks : l # lk[h] => ~Inside(h, l) OBVIOUS
    <2>5. \A l \in Locks : word'[l] = IF l = lk[h] THEN 0 ELSE word[l] BY <1>17 DEF LeaveRefused
    <2> HIDE DEF TypeOK, Callers, Caller, Inside
    <2>6. ASSUME NEW l \in Locks
          PROVE  /\ word'[l] = 0 => \A g \in Harts : ~Inside(g, l)'
                 /\ word'[l] # 0 => \E g \in Harts : Inside(g, l)'
                 /\ \A f, g \in Harts : Inside(f, l)' /\ Inside(g, l)' => f = g
      <3>1. CASE l = lk[h] BY <2>2, <2>3, <2>5, <3>1
      <3>2. CASE l # lk[h] BY <2>2, <2>4, <2>5, <3>2
      <3> QED BY <3>1, <3>2
    <2> QED BY <2>6
  <1>18. ASSUME NEW h \in Harts, LeaveExit(h) PROVE WordGuards'
    BY <1>18 DEF LeaveExit
  <1>19. CASE UNCHANGED vars
    BY <1>19 DEF vars
  <1> QED
    BY <1>1, <1>2, <1>3, <1>4, <1>5, <1>6, <1>7, <1>8, <1>9, <1>10, <1>11, <1>12, <1>13,
       <1>14, <1>15, <1>16, <1>17, <1>18, <1>19 DEF Next, Calls, Step

LEMMA NextMutexGuards == TypeOK /\ MutexGuards /\ [Next]_vars => MutexGuards'
  <1> SUFFICES ASSUME TypeOK, MutexGuards, [Next]_vars PROVE MutexGuards'
    OBVIOUS
  <1> USE DEF TypeOK, MutexGuards, InMutex
  <1>1. ASSUME NEW h \in Harts, NEW l \in Locks, CallLock(h, l) PROVE MutexGuards'
    BY <1>1 DEF CallLock, Call
  <1>2. ASSUME NEW h \in Harts, NEW l \in Locks, CallTrylock(h, l) PROVE MutexGuards'
    BY <1>2 DEF CallTrylock, Call
  <1>3. ASSUME NEW h \in Harts, NEW l \in Locks, CallUnlock(h, l) PROVE MutexGuards'
    BY <1>3 DEF CallUnlock, Call
  <1>4. ASSUME NEW h \in Harts, NEW l \in Locks, CallInit(h, l) PROVE MutexGuards'
    BY <1>4 DEF CallInit, Call
  <1>5. ASSUME NEW h \in Harts, NEW l \in Locks, CallClose(h, l) PROVE MutexGuards'
    BY <1>5 DEF CallClose, Call
  <1>6. ASSUME NEW h \in Harts, WordTake(h) PROVE MutexGuards'
    BY <1>6 DEF WordTake
  <1>7. ASSUME NEW h \in Harts, WordBusy(h) PROVE MutexGuards'
    <2>1. Elsewhere(h) /\ IF op[h] = "relock" THEN WentTo(h, "poll") ELSE Ended(h) BY <1>7, WordBusyEffect
    <2> QED BY <1>7, <2>1 DEF WordBusy, Elsewhere, Ended, WentTo
  <1>8. ASSUME NEW h \in Harts, Poll(h) PROVE MutexGuards'
    BY <1>8 DEF Poll
  <1>9. ASSUME NEW h \in Harts, Find(h) PROVE MutexGuards'
    BY <1>9 DEF Find
  <1>10. ASSUME NEW h \in Harts, MutexTake(h) PROVE MutexGuards'
    BY <1>10 DEF MutexTake
  <1>11. ASSUME NEW h \in Harts, Claim(h) PROVE MutexGuards'
    BY <1>11 DEF Claim
  <1>12. ASSUME NEW h \in Harts, MutexLeave(h) PROVE MutexGuards'
    <2>1. Elsewhere(h) /\ IF op[h] = "init" THEN Ended(h) ELSE WentTo(h, "test") BY <1>12, MutexLeaveEffect
    <2> QED BY <1>12, <2>1 DEF MutexLeave, Elsewhere, Ended, WentTo
  <1>13. ASSUME NEW h \in Harts, Acquire(h) PROVE MutexGuards'
    BY <1>13 DEF Acquire
  <1>14. ASSUME NEW h \in Harts, Release(h) PROVE MutexGuards'
    BY <1>14 DEF Release
  <1>15. ASSUME NEW h \in Harts, Close(h) PROVE MutexGuards'
    BY <1>15 DEF Close
  <1>16. ASSUME NEW h \in Harts, LeaveDone(h) PROVE MutexGuards'
    <2>1. Elsewhere(h) /\ Ended(h) BY <1>16, LeaveDoneEffect
    <2> QED BY <1>16, <2>1 DEF LeaveDone, Elsewhere, Ended
  <1>17. ASSUME NEW h \in Harts, LeaveRefused(h) PROVE MutexGuards'
    <2>1. Elsewhere(h) /\ IF op[h] = "trylock" THEN Ended(h) ELSE WentTo(h, "poll") BY <1>17, LeaveRefusedEffect
    <2> QED BY <1>17, <2>1 DEF LeaveRefused, Elsewhere, Ended, WentTo
  <1>18. ASSUME NEW h \in Harts, LeaveExit(h) PROVE MutexGuards'
    BY <1>18 DEF LeaveExit
  <1>19. CASE UNCHANGED vars
    BY <1>19 DEF vars
  <1> QED
    BY <1>1, <1>2, <1>3, <1>4, <1>5, <1>6, <1>7, <1>8, <1>9, <1>10, <1>11, <1>12, <1>13,
       <1>14, <1>15, <1>16, <1>17, <1>18, <1>19 DEF Next, Calls, Step

LEMMA NextCallers == TypeOK /\ Callers /\ [Next]_vars => Callers'
  <1> SUFFICES ASSUME TypeOK, Callers, [Next]_vars PROVE Callers'
    OBVIOUS
  <1> USE HartAssumption DEF TypeOK, Callers, Caller, Active, Alone, Acquires
  <1>1. ASSUME NEW h \in Harts, NEW l \in Locks, CallLock(h, l) PROVE Callers'
    BY <1>1 DEF CallLock, Call, MayTake, Open
  <1>2. ASSUME NEW h \in Harts, NEW l \in Locks, CallTrylock(h, l) PROVE Callers'
    BY <1>2 DEF CallTrylock, Call, MayTake, Open
  <1>3. ASSUME NEW h \in Harts, NEW l \in Locks, CallUnlock(h, l) PROVE Callers'
    BY <1>3 DEF CallUnlock, Call, Open
  <1>4. ASSUME NEW h \in Harts, NEW l \in Locks, CallInit(h, l) PROVE Callers'
    BY <1>4 DEF CallInit, Call, Unused
  <1>5. ASSUME NEW h \in Harts, NEW l \in Locks, CallClose(h, l) PROVE Callers'
    BY <1>5 DEF CallClose, Call, Unused
  <1>6. ASSUME NEW h \in Harts, WordTake(h) PROVE Callers'
    BY <1>6 DEF WordTake
  <1>7. ASSUME NEW h \in Harts, WordBusy(h) PROVE Callers'
    <2>1. Elsewhere(h) /\ IF op[h] = "relock" THEN WentTo(h, "poll") ELSE Ended(h) BY <1>7, WordBusyEffect
    <2> QED BY <1>7, <2>1 DEF WordBusy, Elsewhere, Ended, WentTo
  <1>8. ASSUME NEW h \in Harts, Poll(h) PROVE Callers'
    BY <1>8 DEF Poll
  <1>9. ASSUME NEW h \in Harts, Find(h) PROVE Callers'
    BY <1>9 DEF Find
  <1>10. ASSUME NEW h \in Harts, MutexTake(h) PROVE Callers'
    BY <1>10 DEF MutexTake
  <1>11. ASSUME NEW h \in Harts, Claim(h) PROVE Callers'
    BY <1>11 DEF Claim
  <1>12. ASSUME NEW h \in Harts, MutexLeave(h) PROVE Callers'
    <2>1. Elsewhere(h) /\ IF op[h] = "init" THEN Ended(h) ELSE WentTo(h, "test") BY <1>12, MutexLeaveEffect
    <2> QED BY <1>12, <2>1 DEF MutexLeave, Elsewhere, Ended, WentTo
  <1>13. ASSUME NEW h \in Harts, Acquire(h) PROVE Callers'
    BY <1>13 DEF Acquire
  <1>14. ASSUME NEW h \in Harts, Release(h) PROVE Callers'
    BY <1>14 DEF Release
  <1>15. ASSUME NEW h \in Harts, Close(h) PROVE Callers'
    BY <1>15 DEF Close
  <1>16. ASSUME NEW h \in Harts, LeaveDone(h) PROVE Callers'
    <2>1. Elsewhere(h) /\ Ended(h) BY <1>16, LeaveDoneEffect
    <2>2. Caller(h)' BY <2>1 DEF Ended
    <2>3. ASSUME NEW g \in Harts \ {h} PROVE Caller(g)'
      <3>1. /\ pc'[g] = pc[g] /\ op'[g] = op[g] /\ lk'[g] = lk[g] /\ res'[g] = res[g]
            /\ inited' = inited
            /\ \A l \in Locks \ {lk[h]} : held'[l] = held[l]
        BY <1>16, <2>1 DEF LeaveDone, Elsewhere
      <3>2. op[g] \in {"init", "close"} /\ Active(g) => lk[g] # lk[h] BY <1>16 DEF LeaveDone
      <3>3. op[g] \in {"init", "close"} /\ Active(g) => Alone(g)'
        BY <2>1, <3>1, <3>2 DEF Elsewhere, Ended
      <3> HIDE DEF TypeOK, Callers, Alone
      <3>4. Caller(g) BY DEF Callers
      <3> QED BY <3>1, <3>3, <3>4
    <2> HIDE DEF TypeOK, Caller
    <2> QED BY <2>2, <2>3
  <1>17. ASSUME NEW h \in Harts, LeaveRefused(h) PROVE Callers'
    <2>1. Elsewhere(h) /\ IF op[h] = "trylock" THEN Ended(h) ELSE WentTo(h, "poll")
      BY <1>17, LeaveRefusedEffect
    <2>2. pc[h] = "leave" /\ op[h] # "unlock" /\ held' = held /\ inited' = inited
      BY <1>17 DEF LeaveRefused
    <2>3. op[h] \in Acquires BY <1>17 DEF LeaveRefused
    <2>4. ASSUME NEW g \in Harts \ {h} PROVE Caller(g)' BY <2>1, <2>2, <2>4 DEF Elsewhere, Ended, WentTo
    <2>5. Caller(h)'
      <3>1. CASE op[h] = "trylock" BY <2>1, <3>1 DEF Ended
      <3>2. CASE op[h] # "trylock" BY <2>1, <2>2, <2>3, <3>2 DEF WentTo
      <3> QED BY <3>1, <3>2
    <2> HIDE DEF TypeOK, Caller
    <2> QED BY <2>4, <2>5
  <1>18. ASSUME NEW h \in Harts, LeaveExit(h) PROVE Callers'
    BY <1>18 DEF LeaveExit
  <1>19. CASE UNCHANGED vars
    BY <1>19 DEF vars
  <1> QED
    BY <1>1, <1>2, <1>3, <1>4, <1>5, <1>6, <1>7, <1>8, <1>9, <1>10, <1>11, <1>12, <1>13,
       <1>14, <1>15, <1>16, <1>17, <1>18, <1>19 DEF Next, Calls, Step

-----------------------------------------------------------------------------
\* Two harts that work with the word, or initialise, work on two locks.
Working(h) == pc[h] \in {"find", "mspin", "claim", "mleave", "test", "leave"}
LEMMA Apart ==
    ASSUME WordGuards, Callers, NEW g \in Harts, NEW h \in Harts, g # h, Working(g), Working(h)
    PROVE  lk[g] # lk[h]
  <1> SUFFICES ASSUME lk[g] = lk[h] PROVE FALSE OBVIOUS
  <1>1. lk[h] \in Locks /\ op[g] # "init" /\ op[h] # "init"
    BY DEF Callers, Caller, Alone, Active, Working
  <1>2. Inside(g, lk[h]) /\ Inside(h, lk[h]) BY <1>1 DEF Inside, Working
  <1> QED BY <1>1, <1>2 DEF WordGuards

LEMMA WhoWrites ==
    ASSUME [Next]_vars
    PROVE  slots' = slots \/ \E h \in Harts : Claim(h) \/ Acquire(h) \/ Release(h) \/ Close(h)
  <1>1. ASSUME NEW h \in Harts, Calls(h) PROVE slots' = slots
    BY <1>1 DEF Calls, CallLock, CallTrylock, CallUnlock, CallInit, CallClose, Call
  <1>2. ASSUME NEW h \in Harts, WordTake(h) \/ WordBusy(h) \/ Poll(h) \/ Find(h) \/ MutexTake(h) \/ MutexLeave(h)
        PROVE  slots' = slots
    BY <1>2 DEF WordTake, WordBusy, Poll, Find, MutexTake, MutexLeave
  <1>3. ASSUME NEW h \in Harts, LeaveDone(h) \/ LeaveRefused(h) \/ LeaveExit(h) PROVE slots' = slots
    BY <1>3 DEF LeaveDone, LeaveRefused, LeaveExit
  <1>4. CASE UNCHANGED vars BY <1>4 DEF vars
  <1> QED BY <1>1, <1>2, <1>3, <1>4 DEF Next, Step

\* The calls under the word leave a slot its lock, or free it.
LEMMA WritersKeepLocks ==
    ASSUME TypeOK, NEW h \in Harts, Acquire(h) \/ Release(h) \/ Close(h), NEW s \in Slots
    PROVE  /\ s # mine[h] => slots'[s] = slots[s]
           /\ slots'[s].lock \in {slots[s].lock, NoLock}
  <1>1. CASE Acquire(h)
    <2>1. CASE Takes(h) BY <1>1, <2>1, AcquireEffect
    <2>2. CASE ~Takes(h) BY <1>1, <2>2, AcquireEffect
    <2> QED BY <2>1, <2>2
  <1>2. CASE Release(h)
    <2>1. CASE Gives(h)
      <3>1. slots'[s] = IF s # mine[h] THEN slots[s]
                        ELSE IF slots[s].counter <= 1 THEN Free
                        ELSE [lock |-> slots[s].lock, counter |-> slots[s].counter - 1, core |-> h]
        BY <1>2, <2>1, ReleaseEffect
      <3> QED BY <3>1 DEF Free
    <2>2. CASE ~Gives(h) BY <1>2, <2>2, ReleaseEffect
    <2> QED BY <2>1, <2>2
  <1>3. CASE Close(h)
    <2>1. slots'[s] = IF s = mine[h] THEN Free ELSE slots[s] BY <1>3, CloseEffect
    <2> QED BY <2>1 DEF Free
  <1> QED BY <1>1, <1>2, <1>3

LEMMA NextOneSlot == TypeOK /\ Mine /\ OneSlot /\ [Next]_vars => OneSlot'
  <1> SUFFICES ASSUME TypeOK, Mine, OneSlot, [Next]_vars PROVE OneSlot'
    OBVIOUS
  <1>1. CASE slots' = slots BY <1>1 DEF OneSlot
  <1>2. ASSUME NEW h \in Harts, Claim(h) PROVE OneSlot'
    <2>1. \A s \in Slots : slots[s].lock # lk[h] BY <1>2 DEF Mine, Knows, Claim, SlotOf
    <2>2. \A s \in Slots : slots'[s] = IF s = mine[h] THEN [lock |-> lk[h], counter |-> 0, core |-> 0]
                                                      ELSE slots[s]
      BY <1>2, ClaimEffect
    <2> QED BY <2>1, <2>2 DEF OneSlot
  <1>3. ASSUME NEW h \in Harts, Acquire(h) \/ Release(h) \/ Close(h) PROVE OneSlot'
    <2>1. \A s \in Slots : slots'[s].lock \in {slots[s].lock, NoLock} BY <1>3, WritersKeepLocks
    <2> QED BY <2>1 DEF OneSlot
  <1> QED BY <1>1, <1>2, <1>3, WhoWrites

\* A lock that nobody has initialised, holds or works on has no slot.
LEMMA UnusedHasNoSlot ==
    ASSUME TypeOK, Levels, Fresh, NEW l \in Locks, Unused(l), l \notin inited
    PROVE  SlotOf(l) = {}
  <1> SUFFICES ASSUME NEW s \in Slots, slots[s].lock = l PROVE FALSE
    BY DEF SlotOf
  <1>1. slots[s].core \in Harts /\ slots[s].counter \in Nat BY DEF TypeOK
  <1>2. \A h \in Harts : held[l][h] = 0 /\ (lk[h] = l => pc[h] \in {"idle", "exited"}) BY DEF Unused
  <1>3. \A h \in Harts : Gain(h, l) = 0 BY <1>2 DEF Gain
  <1>4. slots[s].counter = 0 BY <1>1, <1>2, <1>3 DEF Levels
  <1> QED BY <1>2, <1>4, LockAssumption DEF Fresh

LEMMA NextMine ==
    IInv /\ [Next]_vars => Mine'
  <1> SUFFICES ASSUME TypeOK, Callers, WordGuards, MutexGuards, OneSlot, Levels, Fresh, Mine,
                      [Next]_vars
               PROVE  Mine'
    BY DEF IInv
  <1>0. ASSUME NEW h \in Harts, Elsewhere(h), slots' = slots, NEW g \in Harts \ {h} PROVE Knows(g)'
    BY <1>0 DEF Elsewhere, Mine, Knows, HasSlot, SlotOf
  <1>1. ASSUME NEW h \in Harts, NEW l \in Locks,
               CallLock(h, l) \/ CallTrylock(h, l) \/ CallUnlock(h, l) PROVE Mine'
    <2>1. pc'[h] = "spin" /\ Elsewhere(h) /\ slots' = slots
      BY <1>1 DEF CallLock, CallTrylock, CallUnlock, Call, TypeOK, Elsewhere
    <2> QED BY <2>1, <1>0 DEF Mine, Knows
  <1>2. ASSUME NEW h \in Harts, NEW l \in Locks, CallInit(h, l) PROVE Mine'
    <2>1. pc'[h] = "mspin" /\ lk'[h] = l /\ Elsewhere(h) /\ slots' = slots
      BY <1>2 DEF CallInit, Call, TypeOK, Elsewhere
    <2>2. SlotOf(l) = {} BY <1>2, UnusedHasNoSlot DEF CallInit
    <2>3. Knows(h)' BY <2>1, <2>2 DEF Knows, SlotOf
    <2> QED BY <2>1, <2>3, <1>0 DEF Mine
  <1>3. ASSUME NEW h \in Harts, NEW l \in Locks, CallClose(h, l) PROVE Mine'
    <2>1. pc'[h] = "spin" /\ Elsewhere(h) /\ slots' = slots
      BY <1>3 DEF CallClose, Call, TypeOK, Elsewhere
    <2> QED BY <2>1, <1>0 DEF Mine, Knows
  <1>4. ASSUME NEW h \in Harts, WordTake(h) \/ Poll(h) \/ LeaveExit(h) PROVE Mine'
    <2>1. pc'[h] \in {"find", "spin", "exited"} /\ Elsewhere(h) /\ slots' = slots
      BY <1>4 DEF WordTake, Poll, LeaveExit, TypeOK, Elsewhere
    <2> QED BY <2>1, <1>0 DEF Mine, Knows
  <1>5. ASSUME NEW h \in Harts, WordBusy(h) \/ LeaveDone(h) \/ LeaveRefused(h) PROVE Mine'
    <2>1. pc'[h] \in {"idle", "poll"} /\ Elsewhere(h)
      BY <1>5, WordBusyEffect, LeaveDoneEffect, LeaveRefusedEffect DEF Ended, WentTo
    <2>2. slots' = slots BY <1>5 DEF WordBusy, LeaveDone, LeaveRefused
    <2> QED BY <2>1, <2>2, <1>0 DEF Mine, Knows
  <1>6. ASSUME NEW h \in Harts, Find(h) PROVE Mine'
    <2>1. /\ pc'[h] \in {"mspin", "test"} /\ (pc'[h] = "mspin" => SlotOf(lk[h]) = {})
          /\ lk' = lk /\ slots' = slots /\ Elsewhere(h)
          /\ mine'[h] = IF SlotOf(lk[h]) = {} THEN Null ELSE Lowest(SlotOf(lk[h]))
      BY <1>6 DEF Find, TypeOK, Elsewhere
    <2>2. IF mine'[h] = Null THEN SlotOf(lk[h]) = {} ELSE slots[mine'[h]].lock = lk[h]
      BY <2>1, FindsSlot
    <2>3. Knows(h)' BY <2>1, <2>2 DEF Knows, HasSlot, SlotOf
    <2> QED BY <2>1, <2>3, <1>0 DEF Mine
  <1>7. ASSUME NEW h \in Harts, MutexTake(h) PROVE Mine'
    <2>1. /\ pc[h] = "mspin" /\ pc'[h] = "claim" /\ lk' = lk /\ slots' = slots /\ Elsewhere(h)
          /\ mine'[h] = IF SlotOf(NoLock) = {} THEN Null ELSE Lowest(SlotOf(NoLock))
      BY <1>7 DEF MutexTake, TypeOK, Elsewhere
    <2>2. mine'[h] # Null => slots[mine'[h]].lock = NoLock BY <2>1, FindsSlot
    <2>3. Knows(h)' BY <2>1, <2>2 DEF Mine, Knows, SlotOf
    <2> QED BY <2>1, <2>3, <1>0 DEF Mine
  <1>8. ASSUME NEW h \in Harts, MutexLeave(h) PROVE Mine'
    <2>1. Elsewhere(h) /\ IF op[h] = "init" THEN Ended(h) ELSE WentTo(h, "test")
      BY <1>8, MutexLeaveEffect
    <2>2. pc[h] = "mleave" /\ slots' = slots BY <1>8 DEF MutexLeave
    <2>3. Knows(h)' BY <2>1, <2>2 DEF Ended, WentTo, Mine, Knows, HasSlot, SlotOf
    <2> QED BY <2>1, <2>2, <2>3, <1>0 DEF Mine
  <1>9. ASSUME NEW h \in Harts, Claim(h) PROVE Mine'
    <2>1. /\ Elsewhere(h) /\ WentTo(h, "mleave") /\ pc[h] = "claim"
          /\ \A s \in Slots : slots'[s] = IF s = mine[h] THEN [lock |-> lk[h], counter |-> 0, core |-> 0]
                                                       ELSE slots[s]
      BY <1>9, ClaimEffect DEF Claim
    <2>2. mine[h] \in Slots \cup {Null} /\ (mine[h] \in Slots => slots[mine[h]].lock = NoLock)
          /\ SlotOf(lk[h]) = {} /\ Null \notin Slots
      BY <2>1, SlotAssumption DEF TypeOK, Mine, Knows, Null, Slots
    <2>3. Knows(h)' BY <2>1, <2>2 DEF WentTo, Knows, HasSlot, SlotOf
    <2>4. ASSUME NEW g \in Harts \ {h} PROVE Knows(g)'
      <3>1. /\ pc'[g] = pc[g] /\ op'[g] = op[g] /\ lk'[g] = lk[g] /\ res'[g] = res[g]
            /\ mine'[g] = mine[g]
        BY <2>1 DEF Elsewhere
      <3>2. pc[g] # "claim" BY <2>1 DEF MutexGuards, InMutex
      <3>3. Working(g) => lk[g] # lk[h] /\ lk[g] \in Locks
        BY <2>1, Apart DEF Working, Callers, Caller
      <3>4. Working(g) => SlotOf(lk[g])' = SlotOf(lk[g])
        BY <2>1, <2>2, <3>1, <3>3, LockAssumption DEF SlotOf
      <3>5. mine[g] \in Slots \cup {Null} BY DEF TypeOK
      <3> QED BY <2>1, <2>2, <3>1, <3>2, <3>3, <3>4, <3>5, LockAssumption DEF Mine, Knows, HasSlot, Working
    <2> QED BY <2>3, <2>4 DEF Mine
  <1>10. ASSUME NEW h \in Harts, Acquire(h) \/ Release(h) \/ Close(h), NEW g \in Harts \ {h}
         PROVE  Knows(g)'
    <2>1. Elsewhere(h) BY <1>10, AcquireEffect, ReleaseEffect, CloseEffect
    <2>2. ASSUME NEW s \in Slots
          PROVE /\ s # mine[h] => slots'[s] = slots[s]
                /\ slots'[s].lock \in {slots[s].lock, NoLock}
      BY <1>10, WritersKeepLocks
    <2>3. mine[h] \in Slots => slots[mine[h]].lock = lk[h] /\ lk[h] \in Locks
      BY <1>10, SlotAssumption DEF Acquire, Release, Close, Mine, Knows, HasSlot, Callers, Caller, Null, Slots
    <2>4. /\ pc'[g] = pc[g] /\ op'[g] = op[g] /\ lk'[g] = lk[g] /\ res'[g] = res[g] /\ mine'[g] = mine[g]
      BY <2>1 DEF Elsewhere
    <2>5. Working(g) => lk[g] # lk[h] /\ lk[g] \in Locks
      BY <1>10, Apart DEF Working, Callers, Caller, Acquire, Release, Close
    <2>6. Working(g) => SlotOf(lk[g])' = SlotOf(lk[g])
      BY <2>2, <2>3, <2>4, <2>5, LockAssumption DEF SlotOf
    <2>7. mine[g] \in Slots \cup {Null} BY DEF TypeOK
    <2> QED BY <2>2, <2>3, <2>4, <2>5, <2>6, <2>7, LockAssumption DEF Mine, Knows, HasSlot, Working
  <1>11. ASSUME NEW h \in Harts, Acquire(h) PROVE Mine'
    <2>1. op[h] \in Acquires /\ HasSlot(h) /\ mine[h] \in Slots \cup {Null}
      BY <1>11 DEF Acquire, Acquires, Mine, Knows, TypeOK
    <2>2. CASE Takes(h)
      <3>1. Left(h, 0) /\ mine[h] \in Slots /\ slots'[mine[h]].lock = slots[mine[h]].lock
            /\ slots'[mine[h]].core = h
        BY <1>11, <2>2, AcquireEffect
      <3>2. Knows(h)' BY <2>1, <2>2, <3>1 DEF Left, Knows, HasSlot, Takes, Acquires
      <3> QED BY <3>2, <1>11, <1>10 DEF Mine
    <2>3. CASE ~Takes(h)
      <3>1. Left(h, -1) /\ slots' = slots BY <1>11, <2>3, AcquireEffect
      <3>2. mine[h] # Null => slots[mine[h]].counter > 0 BY <2>1, <2>3 DEF Takes, TypeOK
      <3>3. Knows(h)' BY <2>1, <3>1, <3>2 DEF Left, Knows, HasSlot, SlotOf, Acquires
      <3> QED BY <3>3, <1>11, <1>10 DEF Mine
    <2> QED BY <2>2, <2>3
  <1>12. ASSUME NEW h \in Harts, Release(h) PROVE Mine'
    <2>1. pc'[h] = "leave" /\ op'[h] = "unlock" BY <1>12 DEF Release, TypeOK
    <2>2. Knows(h)' BY <2>1 DEF Knows, Acquires
    <2> QED BY <2>2, <1>12, <1>10 DEF Mine
  <1>13. ASSUME NEW h \in Harts, Close(h) PROVE Mine'
    <2>1. /\ Left(h, 0) /\ op[h] = "close" /\ HasSlot(h)
          /\ \A s \in Slots : slots'[s] = IF s = mine[h] THEN Free ELSE slots[s]
      BY <1>13, CloseEffect DEF Close, Mine, Knows
    <2>2. lk[h] \in Locks BY <1>13 DEF Callers, Caller, Close
    <2>3. \A s \in Slots : slots[s].lock = lk[h] => s = mine[h]
      BY <2>1, <2>2, LockAssumption DEF HasSlot, SlotOf, OneSlot, TypeOK
    <2>4. SlotOf(lk[h])' = {} BY <2>1, <2>2, <2>3, LockAssumption DEF SlotOf, Free, Left
    <2>5. Knows(h)' BY <2>1, <2>4 DEF Left, Knows, Acquires
    <2> QED BY <2>5, <1>13, <1>10 DEF Mine
  <1>14. CASE UNCHANGED vars BY <1>14 DEF vars, Mine, Knows, HasSlot, SlotOf
  <1> QED
    BY <1>1, <1>2, <1>3, <1>4, <1>5, <1>6, <1>7, <1>8, <1>9, <1>11, <1>12, <1>13, <1>14
    DEF Next, Calls, Step
-----------------------------------------------------------------------------
\* Levels and NoLevels, one lock at a time.
Balanced(l) ==
    /\ \A s \in Slots : slots[s].lock = l => \A g \in Harts :
         held[l][g] + Gain(g, l) = IF slots[s].core = g THEN slots[s].counter ELSE 0
    /\ SlotOf(l) = {} => \A g \in Harts :
         held[l][g] = 0 \/ (held[l][g] = 1 /\ Gain(g, l) = -1)
LEMMA BalancedAll == Levels /\ NoLevels <=> \A l \in Locks : Balanced(l)
  BY DEF Levels, NoLevels, Balanced

LEMMA Untouched ==
    ASSUME NEW l \in Locks, Balanced(l),
           \A s \in Slots : slots[s].lock = l \/ slots'[s].lock = l => slots'[s] = slots[s],
           \A g \in Harts : held'[l][g] = held[l][g] /\ Gain(g, l)' = Gain(g, l)
    PROVE  Balanced(l)'
  <1>1. SlotOf(l)' = SlotOf(l) BY DEF SlotOf
  <1>2. \A s \in Slots : slots'[s].lock = l => slots'[s] = slots[s] /\ slots[s].lock = l OBVIOUS
  <1> HIDE DEF Gain, SlotOf
  <1> QED BY <1>1, <1>2 DEF Balanced

\* Only a hart that leaves with success has levels to return.
LEMMA GainElsewhere ==
    ASSUME NEW h \in Harts, Elsewhere(h), NEW l, NEW g \in Harts \ {h}
    PROVE  Gain(g, l)' = Gain(g, l)
  BY DEF Elsewhere, Gain

LEMMA Quiet ==
    ASSUME Levels, NoLevels, NEW h \in Harts, Elsewhere(h), slots' = slots, held' = held,
           pc[h] # "leave" \/ res[h] # 0, pc'[h] # "leave" \/ res'[h] # 0
    PROVE  Levels' /\ NoLevels'
  <1>1. \A l \in Locks, g \in Harts : Gain(g, l)' = Gain(g, l)
    <2> TAKE l \in Locks, g \in Harts
    <2>1. CASE g = h BY <2>1 DEF Gain
    <2>2. CASE g # h BY <2>2, GainElsewhere
    <2> QED BY <2>1, <2>2
  <1> HIDE DEF Gain
  <1>2. \A l \in Locks : Balanced(l) BY BalancedAll
  <1>3. \A l \in Locks : Balanced(l)' BY <1>1, <1>2, Untouched
  <1> QED BY <1>3 DEF Levels, NoLevels, Balanced

\* A call that works on a lock has no effect on the levels of another lock.
LEMMA OtherLock ==
    ASSUME NEW h \in Harts, Elsewhere(h), lk'[h] \in {lk[h], NoLock},
           NEW l \in Locks, l # lk[h], Balanced(l),
           \A s \in Slots : slots[s].lock = l \/ slots'[s].lock = l => slots'[s] = slots[s],
           \A g \in Harts : held'[l][g] = held[l][g]
    PROVE  Balanced(l)'
  <1>1. \A g \in Harts : Gain(g, l)' = Gain(g, l)
    <2> TAKE g \in Harts
    <2>1. CASE g = h BY <2>1, LockAssumption DEF Gain
    <2>2. CASE g # h BY <2>2, GainElsewhere
    <2> QED BY <2>1, <2>2
  <1> QED BY <1>1, Untouched

\* While a call works on a lock, it alone has levels of it to return.
LEMMA OthersGainNothing ==
    ASSUME TypeOK, WordGuards, Callers, NEW h \in Harts, Working(h), NEW g \in Harts \ {h}
    PROVE  Gain(g, lk[h]) = 0
  <1>1. Working(g) => lk[g] # lk[h] BY Apart
  <1> QED BY <1>1 DEF Gain, Working

LEMMA ClaimLevels ==
    ASSUME IInv, NEW h \in Harts, Claim(h)
    PROVE  Levels' /\ NoLevels'
  <1> USE DEF IInv
  <1>1. /\ Elsewhere(h) /\ WentTo(h, "mleave") /\ pc[h] = "claim" /\ held' = held
        /\ \A s \in Slots : slots'[s] = IF s = mine[h] THEN [lock |-> lk[h], counter |-> 0, core |-> 0]
                                                     ELSE slots[s]
    BY ClaimEffect DEF Claim
  <1>2. lk[h] \in Locks /\ lk'[h] = lk[h] /\ SlotOf(lk[h]) = {}
    BY <1>1 DEF Callers, Caller, WentTo, Mine, Knows
  <1>3. \A s \in Slots : s = mine[h] => slots[s].lock = NoLock
    BY <1>1, SlotAssumption DEF Mine, Knows, Null, Slots
  <1>4. ASSUME NEW l \in Locks PROVE Balanced(l)'
    <2>1. Balanced(l) BY BalancedAll
    <2>2. CASE l # lk[h]
      <3>1. \A s \in Slots : slots[s].lock = l \/ slots'[s].lock = l => slots'[s] = slots[s]
        BY <1>1, <1>2, <1>3, <2>2, LockAssumption
      <3> QED BY <1>1, <1>2, <2>1, <2>2, <3>1, OtherLock
    <2>3. CASE l = lk[h]
      <3>1. \A g \in Harts \ {h} : Gain(g, l) = 0 BY <1>1, <2>3, OthersGainNothing DEF Working
      <3>2. Gain(h, l) = 0 /\ Gain(h, l)' = 0 BY <1>1 DEF Gain, WentTo
      <3>3. \A g \in Harts \ {h} : Gain(g, l)' = Gain(g, l) BY <1>1, GainElsewhere
      <3>4. \A g \in Harts : Gain(g, l)' = Gain(g, l) /\ Gain(g, l) = 0 BY <3>1, <3>2, <3>3
      <3> HIDE DEF Gain
      <3>5. \A g \in Harts : held[l][g] = 0 BY <1>2, <2>1, <2>3, <3>4 DEF Balanced
      <3>6. \A s \in Slots : slots'[s].lock = l => slots'[s].counter = 0
        BY <1>1, <1>2, <2>3 DEF SlotOf
      <3>7. \A g \in Harts : held'[l][g] = 0 /\ Gain(g, l)' = 0 BY <1>1, <3>4, <3>5
      <3> QED BY <3>6, <3>7 DEF Balanced
    <2> QED BY <2>2, <2>3
  <1> QED BY <1>4 DEF Levels, NoLevels, Balanced

\* The slot of the lock a call works on under the word.
LEMMA SlotOfCall ==
    ASSUME TypeOK, Callers, OneSlot, Mine, NEW h \in Harts, pc[h] = "test"
    PROVE  /\ lk[h] \in Locks /\ lk[h] # NoLock
           /\ mine[h] = Null => \A s \in Slots : slots[s].lock # lk[h]
           /\ mine[h] # Null => /\ mine[h] \in Slots
                                /\ \A s \in Slots : slots[s].lock = lk[h] <=> s = mine[h]
  <1>1. lk[h] \in Locks /\ lk[h] # NoLock BY LockAssumption DEF Callers, Caller
  <1>2. mine[h] \in Slots \cup {Null} /\ HasSlot(h) BY DEF TypeOK, Mine, Knows
  <1> QED BY <1>1, <1>2 DEF HasSlot, SlotOf, OneSlot

LEMMA AcquireLevels ==
    ASSUME IInv, NEW h \in Harts, Acquire(h)
    PROVE  Levels' /\ NoLevels'
  <1> USE DEF IInv
  <1>1. Elsewhere(h) /\ pc[h] = "test" /\ op[h] \in Acquires /\ held' = held
    BY AcquireEffect DEF Acquire, Acquires
  <1>2. CASE ~Takes(h)
    <2>1. Left(h, -1) /\ slots' = slots BY <1>2, AcquireEffect
    <2> QED BY <1>1, <2>1, Quiet DEF Left
  <1>3. CASE Takes(h)
    <2> DEFINE m == mine[h]
    <2>1. /\ Left(h, 0) /\ m \in Slots
          /\ \A s \in Slots :
               IF s # m THEN slots'[s] = slots[s]
               ELSE /\ slots'[s].lock = slots[s].lock /\ slots'[s].core = h
                    /\ slots'[s].counter = slots[s].counter + 1
      BY <1>3, AcquireEffect
    <2>2. lk[h] \in Locks /\ m # Null /\ \A s \in Slots : slots[s].lock = lk[h] <=> s = m
      BY <1>1, <1>3, SlotOfCall DEF Takes
    <2>3. ASSUME NEW l \in Locks PROVE Balanced(l)'
      <3>1. Balanced(l) BY BalancedAll
      <3>2. CASE l # lk[h]
        <4>1. \A s \in Slots : slots[s].lock = l \/ slots'[s].lock = l => slots'[s] = slots[s]
          BY <2>1, <2>2, <3>2
        <4> QED BY <1>1, <2>1, <3>1, <3>2, <4>1, OtherLock DEF Left
      <3>3. CASE l = lk[h]
        <4>1. \A g \in Harts \ {h} : Gain(g, l) = 0 BY <1>1, <3>3, OthersGainNothing DEF Working
        <4>2. Gain(h, l) = 0 BY <1>1 DEF Gain
        <4>3. Gain(h, l)' = 1 BY <1>1, <2>1, <3>3 DEF Gain, Left, Acquires
        <4>4. \A g \in Harts \ {h} : Gain(g, l)' = 0 BY <1>1, <4>1, GainElsewhere
        <4> HIDE DEF Gain
        <4>5. \A g \in Harts : held[l][g] \in Nat BY DEF TypeOK
        <4>6. \A g \in Harts : held[l][g] = IF slots[m].core = g THEN slots[m].counter ELSE 0
          BY <2>1, <2>2, <3>1, <3>3, <4>1, <4>2, <4>5 DEF Balanced
        <4>7. slots[m].counter \in Nat /\ slots[m].core \in Harts BY <2>1 DEF TypeOK
        <4>8. \A g \in Harts : held[l][g] = IF h = g THEN slots[m].counter ELSE 0
          BY <1>3, <4>6, <4>7 DEF Takes
        <4>9. \A s \in Slots : slots'[s].lock = l => slots'[s].core = h /\ slots'[s].counter = slots[m].counter + 1
          BY <2>1, <2>2, <3>3
        <4>10. \A g \in Harts : held'[l][g] + Gain(g, l)' = IF h = g THEN slots[m].counter + 1 ELSE 0
          BY <1>1, <4>3, <4>4, <4>7, <4>8
        <4>11. SlotOf(l)' # {} BY <2>1, <2>2, <3>3 DEF SlotOf
        <4> QED BY <4>9, <4>10, <4>11 DEF Balanced
      <3> QED BY <3>2, <3>3
    <2> QED BY <2>3 DEF Levels, NoLevels, Balanced
  <1> QED BY <1>2, <1>3

LEMMA ReleaseLevels ==
    ASSUME IInv, NEW h \in Harts, Release(h)
    PROVE  Levels' /\ NoLevels'
  <1> USE DEF IInv
  <1>1. Elsewhere(h) /\ pc[h] = "test" /\ op[h] = "unlock" /\ held' = held
    BY ReleaseEffect DEF Release
  <1>2. CASE ~Gives(h)
    <2>1. Left(h, -1) /\ slots' = slots BY <1>2, ReleaseEffect
    <2> QED BY <1>1, <2>1, Quiet DEF Left
  <1>3. CASE Gives(h)
    <2> DEFINE m == mine[h]
    <2>1. /\ Left(h, 0) /\ m \in Slots
          /\ \A s \in Slots : slots'[s] =
               IF s # m THEN slots[s]
               ELSE IF slots[s].counter <= 1 THEN Free
               ELSE [lock |-> slots[s].lock, counter |-> slots[s].counter - 1, core |-> h]
      BY <1>3, ReleaseEffect
    <2>2. lk[h] \in Locks /\ lk[h] # NoLock /\ \A s \in Slots : slots[s].lock = lk[h] <=> s = m
      BY <1>1, <1>3, SlotOfCall DEF Gives
    <2>3. slots'[m] = IF slots[m].counter <= 1 THEN Free
                      ELSE [lock |-> lk[h], counter |-> slots[m].counter - 1, core |-> h]
      BY <2>1, <2>2
    <2>4. \A s \in Slots \ {m} : slots'[s] = slots[s] BY <2>1
    <2>5. slots'[m].lock \in {NoLock, lk[h]} /\ (slots[m].counter <= 1 => slots'[m].lock = NoLock)
      BY <2>3 DEF Free
    <2>6. ASSUME NEW l \in Locks PROVE Balanced(l)'
      <3>1. Balanced(l) BY BalancedAll
      <3>2. CASE l # lk[h]
        <4>1. \A s \in Slots : slots[s].lock = l \/ slots'[s].lock = l => slots'[s] = slots[s]
          BY <2>2, <2>4, <2>5, <3>2, LockAssumption
        <4> QED BY <1>1, <2>1, <3>1, <3>2, <4>1, OtherLock DEF Left
      <3>3. CASE l = lk[h]
        <4>1. \A g \in Harts \ {h} : Gain(g, l) = 0 BY <1>1, <3>3, OthersGainNothing DEF Working
        <4>2. Gain(h, l) = 0 BY <1>1 DEF Gain
        <4>3. Gain(h, l)' = -1 BY <1>1, <2>1, <3>3 DEF Gain, Left
        <4>4. \A g \in Harts \ {h} : Gain(g, l)' = 0 BY <1>1, <4>1, GainElsewhere
        <4> HIDE DEF Gain
        <4>5. \A g \in Harts : held[l][g] \in Nat BY DEF TypeOK
        <4>6. \A g \in Harts : held[l][g] = IF h = g THEN slots[m].counter ELSE 0
          BY <1>3, <2>1, <2>2, <3>1, <3>3, <4>1, <4>2, <4>5 DEF Balanced, Gives
        <4>7. slots[m].counter \in Nat BY <2>1 DEF TypeOK
        <4>8. CASE slots[m].counter <= 1
          <5>1. SlotOf(l)' = {} BY <2>2, <2>4, <2>5, <3>3, <4>8 DEF SlotOf
          <5>2. \A s \in Slots : slots'[s].lock # l BY <5>1 DEF SlotOf
          <5>3. \A g \in Harts : held'[l][g] = 0 \/ (held'[l][g] = 1 /\ Gain(g, l)' = -1)
            BY <1>1, <4>3, <4>6, <4>7, <4>8
          <5> QED BY <5>2, <5>3 DEF Balanced
        <4>9. CASE slots[m].counter > 1
          <5>1. slots'[m] = [lock |-> l, counter |-> slots[m].counter - 1, core |-> h]
            BY <2>3, <3>3, <4>7, <4>9
          <5>2. \A s \in Slots : slots'[s].lock = l => s = m BY <2>1, <2>2, <3>3
          <5>3. SlotOf(l)' # {} BY <2>1, <5>1 DEF SlotOf
          <5>4. \A g \in Harts : held'[l][g] + Gain(g, l)' = IF h = g THEN slots[m].counter - 1 ELSE 0
            BY <1>1, <4>3, <4>4, <4>6, <4>7
          <5> QED BY <5>1, <5>2, <5>3, <5>4 DEF Balanced
        <4> QED BY <4>7, <4>8, <4>9
      <3> QED BY <3>2, <3>3
    <2> QED BY <2>6 DEF Levels, NoLevels, Balanced
  <1> QED BY <1>2, <1>3

LEMMA CloseLevels ==
    ASSUME IInv, NEW h \in Harts, Close(h)
    PROVE  Levels' /\ NoLevels'
  <1> USE DEF IInv
  <1>1. /\ Elsewhere(h) /\ pc[h] = "test" /\ op[h] = "close" /\ held' = held /\ Left(h, 0)
        /\ \A s \in Slots : slots'[s] = IF s = mine[h] THEN Free ELSE slots[s]
    BY CloseEffect DEF Close
  <1>2. /\ lk[h] \in Locks /\ lk[h] # NoLock
        /\ \A s \in Slots : slots[s].lock = lk[h] <=> s = mine[h]
    <2>1. Null \notin Slots BY SlotAssumption DEF Null, Slots
    <2> QED BY <1>1, <2>1, SlotOfCall
  <1>3. ASSUME NEW l \in Locks PROVE Balanced(l)'
    <2>1. Balanced(l) BY BalancedAll
    <2>2. CASE l # lk[h]
      <3>1. \A s \in Slots : slots[s].lock = l \/ slots'[s].lock = l => slots'[s] = slots[s]
        BY <1>1, <1>2, <2>2, LockAssumption DEF Free
      <3> QED BY <1>1, <2>1, <2>2, <3>1, OtherLock DEF Left
    <2>3. CASE l = lk[h]
      <3>1. \A g \in Harts : held'[l][g] = 0 BY <1>1, <2>3 DEF Callers, Caller, Alone, Active
      <3>2. \A s \in Slots : slots'[s].lock # l BY <1>1, <1>2, <2>3, LockAssumption DEF Free
      <3> QED BY <3>1, <3>2 DEF Balanced
    <2> QED BY <2>2, <2>3
  <1> QED BY <1>3 DEF Levels, NoLevels, Balanced

LEMMA LeaveDoneLevels ==
    ASSUME IInv, NEW h \in Harts, LeaveDone(h)
    PROVE  Levels' /\ NoLevels'
  <1> USE DEF IInv
  <1>1. /\ Elsewhere(h) /\ Ended(h) /\ pc[h] = "leave" /\ res[h] = 0 /\ slots' = slots
        /\ lk[h] \in Locks
    BY LeaveDoneEffect DEF LeaveDone, Callers, Caller
  <1>2. ASSUME NEW l \in Locks PROVE Balanced(l)'
    <2>1. Balanced(l) BY BalancedAll
    <2>2. CASE l # lk[h]
      <3>1. \A g \in Harts : held'[l][g] = held[l][g] BY <1>1, <2>2, HeldEffect
      <3> QED BY <1>1, <2>1, <2>2, <3>1, OtherLock DEF Ended
    <2>3. CASE l = lk[h]
      <3>1. \A g \in Harts \ {h} : Gain(g, l) = 0 BY <1>1, <2>3, OthersGainNothing DEF Working
      <3>2. \A g \in Harts \ {h} : Gain(g, l)' = 0 BY <1>1, <3>1, GainElsewhere
      <3>3. Gain(h, l)' = 0 BY <1>1 DEF Gain, Ended
      <3>4. Gain(h, l) = CASE op[h] = "unlock" -> -1 [] op[h] = "close" -> 0 [] OTHER -> 1
        BY <1>1, <2>3 DEF Gain
      <3> HIDE DEF Gain
      <3>5. \A g \in Harts : held[l][g] \in Nat BY DEF TypeOK
      <3>6. \A g \in Harts : held'[l][g] =
              IF g # h THEN held[l][g]
              ELSE CASE op[h] = "close" -> held[l][g]
                     [] op[h] = "unlock" -> IF held[l][g] > 0 THEN held[l][g] - 1 ELSE 0
                     [] OTHER -> held[l][g] + 1
        BY <1>1, <2>3, HeldEffect
      <3>7. \A s \in Slots : slots[s].counter \in Nat BY DEF TypeOK
      <3>8. SlotOf(l)' = SlotOf(l) BY <1>1 DEF SlotOf
      <3>9. CASE SlotOf(l) = {}
        <4>1. op[h] \in {"unlock", "close"}
          <5>1. op[h] \notin Acquires
            BY <1>1, <2>3, <3>9, SlotAssumption DEF Mine, Knows, SlotOf, TypeOK, Null, Slots
          <5> QED BY <1>1, <5>1 DEF TypeOK, Acquires, Callers, Caller
        <4>2. \A g \in Harts : held[l][g] = 0 \/ (held[l][g] = 1 /\ Gain(g, l) = -1)
          BY <2>1, <3>9 DEF Balanced
        <4>3. \A g \in Harts : held'[l][g] = 0
          BY <3>1, <3>4, <3>5, <3>6, <4>1, <4>2
        <4> QED BY <3>8, <3>9, <4>3, <1>1 DEF Balanced, SlotOf
      <3>10. CASE SlotOf(l) # {}
        <4>1. \A s \in Slots : slots[s].lock = l => \A g \in Harts :
                held[l][g] + Gain(g, l) = IF slots[s].core = g THEN slots[s].counter ELSE 0
          BY <2>1 DEF Balanced
        <4>2. ASSUME NEW s \in Slots, slots[s].lock = l, NEW g \in Harts
              PROVE  held'[l][g] = IF slots[s].core = g THEN slots[s].counter ELSE 0
          <5>1. held[l][g] + Gain(g, l) = IF slots[s].core = g THEN slots[s].counter ELSE 0
            BY <4>1, <4>2
          <5>2. CASE g # h BY <3>1, <3>5, <3>6, <5>1, <5>2
          <5>3. CASE g = h BY <3>4, <3>5, <3>6, <3>7, <5>1, <5>3
          <5> QED BY <5>2, <5>3
        <4>3. \A g \in Harts : Gain(g, l)' = 0 BY <3>2, <3>3
        <4>4. \A s \in Slots : slots'[s].lock = l => \A g \in Harts :
                held'[l][g] + Gain(g, l)' = IF slots'[s].core = g THEN slots'[s].counter ELSE 0
          BY <1>1, <3>7, <4>2, <4>3
        <4> QED BY <3>8, <3>10, <4>4 DEF Balanced
      <3> QED BY <3>9, <3>10
    <2> QED BY <2>2, <2>3
  <1> QED BY <1>2 DEF Levels, NoLevels, Balanced

LEMMA NextLevels == IInv /\ [Next]_vars => Levels' /\ NoLevels'
  <1> SUFFICES ASSUME IInv, [Next]_vars PROVE Levels' /\ NoLevels'
    OBVIOUS
  <1>1. Levels /\ NoLevels /\ TypeOK BY DEF IInv
  <1>2. ASSUME NEW h \in Harts, NEW l \in Locks,
               CallLock(h, l) \/ CallTrylock(h, l) \/ CallUnlock(h, l) \/ CallInit(h, l) \/ CallClose(h, l)
        PROVE  Levels' /\ NoLevels'
    <2>1. /\ pc[h] = "idle" /\ pc'[h] \in {"spin", "mspin"} /\ slots' = slots /\ held' = held
          /\ Elsewhere(h)
      BY <1>1, <1>2 DEF CallLock, CallTrylock, CallUnlock, CallInit, CallClose, Call, TypeOK, Elsewhere
    <2> QED BY <1>1, <2>1, Quiet
  <1>3. ASSUME NEW h \in Harts, WordTake(h) \/ Find(h) \/ MutexTake(h) \/ LeaveExit(h) \/ Poll(h)
        PROVE  Levels' /\ NoLevels'
    <2>1. /\ pc[h] \in {"spin", "find", "mspin", "poll"} \/ res[h] # 0
          /\ pc'[h] # "leave" /\ slots' = slots /\ held' = held /\ Elsewhere(h)
      BY <1>1, <1>3 DEF WordTake, Find, MutexTake, LeaveExit, Poll, TypeOK, Elsewhere
    <2> QED BY <1>1, <2>1, Quiet
  <1>4. ASSUME NEW h \in Harts, WordBusy(h) \/ MutexLeave(h) \/ LeaveRefused(h)
        PROVE  Levels' /\ NoLevels'
    <2>1. pc'[h] \in {"idle", "poll", "test"} /\ Elsewhere(h)
      BY <1>1, <1>4, WordBusyEffect, MutexLeaveEffect, LeaveRefusedEffect DEF Ended, WentTo
    <2>2. (pc[h] \in {"spin", "mleave"} \/ res[h] # 0) /\ slots' = slots /\ held' = held
      BY <1>4 DEF WordBusy, MutexLeave, LeaveRefused
    <2> QED BY <1>1, <2>1, <2>2, Quiet
  <1>5. CASE UNCHANGED vars
    <2>1. \A h \in Harts, l \in Locks : Gain(h, l)' = Gain(h, l) BY <1>5 DEF vars, Gain
    <2> HIDE DEF Gain
    <2>2. Levels' BY <1>1, <1>5, <2>1 DEF vars, Levels
    <2>3. NoLevels' BY <1>1, <1>5, <2>1 DEF vars, NoLevels, SlotOf
    <2> QED BY <2>2, <2>3
  <1> QED
    BY <1>2, <1>3, <1>4, <1>5, ClaimLevels, AcquireLevels, ReleaseLevels, CloseLevels, LeaveDoneLevels
    DEF Next, Calls, Step

\* Who may be about to use or to free a slot with no level.
Expects(h, l) == /\ lk[h] = l
                 /\ \/ pc[h] \in {"mleave", "test"} /\ op[h] \in Acquires
                    \/ pc[h] \in {"spin", "find", "test"} /\ op[h] = "close"
Accounted(l) == l \in inited \/ \E h \in Harts : Expects(h, l)
LEMMA FreshDef == Fresh <=> \A s \in Slots : slots[s].lock # NoLock /\ slots[s].counter = 0 =>
                                Accounted(slots[s].lock)
  BY DEF Fresh, Accounted, Expects

LEMMA ExpectsElsewhere ==
    ASSUME NEW h \in Harts, Elsewhere(h), NEW l, NEW g \in Harts \ {h}, Expects(g, l)
    PROVE  Expects(g, l)'
  BY DEF Elsewhere, Expects

\* The call that moves gives up the wait only for a slot that is in use, or
\* gone.
LEMMA KeepsAccount ==
    ASSUME NEW h \in Harts, Elsewhere(h), NEW l, Accounted(l),
           l \in inited => l \in inited' \/ Expects(h, l)',
           Expects(h, l) => Expects(h, l)' \/ l \in inited'
    PROVE  Accounted(l)'
  <1>1. CASE l \in inited BY <1>1 DEF Accounted
  <1>2. CASE l \notin inited
    <2>1. PICK g \in Harts : Expects(g, l) BY <1>2 DEF Accounted
    <2>2. CASE g = h BY <2>1, <2>2 DEF Accounted
    <2>3. CASE g # h
      <3>1. Expects(g, l)' BY <2>1, <2>3, ExpectsElsewhere
      <3> QED BY <3>1 DEF Accounted
    <2> QED BY <2>2, <2>3
  <1> QED BY <1>1, <1>2

\* A step that leaves the table alone and moves h on.
LEMMA FreshKept ==
    ASSUME Fresh, NEW h \in Harts, Elsewhere(h), slots' = slots,
           \A l \in Locks \cup {NoLock} : l \in inited => l \in inited' \/ Expects(h, l)',
           \A s \in Slots : slots[s].lock # NoLock /\ slots[s].counter = 0 /\ Expects(h, slots[s].lock)
             => Expects(h, slots[s].lock)' \/ slots[s].lock \in inited',
           TypeOK
    PROVE  Fresh'
  <1>1. ASSUME NEW s \in Slots, NEW l, l = slots[s].lock, l # NoLock, slots[s].counter = 0
        PROVE  Accounted(l)'
    <2>1. Accounted(l) BY <1>1, FreshDef
    <2>2. l \in Locks \cup {NoLock} BY <1>1 DEF TypeOK
    <2> HIDE DEF Expects, Accounted
    <2> QED BY <1>1, <2>1, <2>2, KeepsAccount
  <1> QED BY <1>1 DEF Fresh, Accounted, Expects

LEMMA NextFresh == IInv /\ [Next]_vars => Fresh'
  <1> SUFFICES ASSUME TypeOK, Callers, WordGuards, Mine, OneSlot, Levels, Fresh, [Next]_vars PROVE Fresh'
    BY DEF IInv
  <1>1. ASSUME NEW h \in Harts, NEW l \in Locks,
               CallLock(h, l) \/ CallTrylock(h, l) \/ CallUnlock(h, l) \/ CallInit(h, l)
        PROVE  Fresh'
    <2>1. pc[h] = "idle" /\ inited \subseteq inited' /\ slots' = slots /\ Elsewhere(h)
      BY <1>1 DEF CallLock, CallTrylock, CallUnlock, CallInit, Call, TypeOK, Elsewhere
    <2>2. \A k : ~Expects(h, k) BY <2>1 DEF Expects
    <2> QED BY <2>1, <2>2, FreshKept
  <1>2. ASSUME NEW h \in Harts, NEW l \in Locks, CallClose(h, l) PROVE Fresh'
    <2>1. /\ pc[h] = "idle" /\ inited' = inited \ {l} /\ slots' = slots /\ Elsewhere(h)
          /\ pc'[h] = "spin" /\ op'[h] = "close" /\ lk'[h] = l
      BY <1>2 DEF CallClose, Call, TypeOK, Elsewhere
    <2>2. (\A k : ~Expects(h, k)) /\ Expects(h, l)' BY <2>1 DEF Expects
    <2> HIDE DEF Expects
    <2>3. \A k \in Locks \cup {NoLock} : k \in inited => k \in inited' \/ Expects(h, k)' BY <2>1, <2>2
    <2> QED BY <2>1, <2>2, <2>3, FreshKept
  <1>3. ASSUME NEW h \in Harts, WordTake(h) PROVE Fresh'
    <2>1. Elsewhere(h) /\ slots' = slots /\ inited' = inited BY <1>3 DEF WordTake, TypeOK, Elsewhere
    <2>2. \A l : Expects(h, l) => Expects(h, l)' BY <1>3 DEF WordTake, TypeOK, Expects, Acquires
    <2> HIDE DEF Expects
    <2> QED BY <2>1, <2>2, FreshKept
  <1>4. ASSUME NEW h \in Harts, WordBusy(h) PROVE Fresh'
    <2>1. Elsewhere(h) /\ slots' = slots /\ inited' = inited BY <1>4, WordBusyEffect DEF WordBusy
    <2>2. \A l : ~Expects(h, l) BY <1>4 DEF WordBusy, Expects
    <2> HIDE DEF Expects
    <2> QED BY <2>1, <2>2, FreshKept
  <1>5. ASSUME NEW h \in Harts, Find(h) PROVE Fresh'
    <2>1. Elsewhere(h) /\ slots' = slots /\ inited' = inited BY <1>5 DEF Find, TypeOK, Elsewhere
    <2>2. \A l : Expects(h, l) => Expects(h, l)' BY <1>5 DEF Find, TypeOK, Expects, Acquires
    <2> HIDE DEF Expects
    <2> QED BY <2>1, <2>2, FreshKept
  <1>6. ASSUME NEW h \in Harts, MutexTake(h) \/ LeaveExit(h) \/ Poll(h) PROVE Fresh'
    <2>1. Elsewhere(h) /\ slots' = slots /\ inited' = inited
      BY <1>6 DEF MutexTake, LeaveExit, Poll, TypeOK, Elsewhere
    <2>2. \A l : ~Expects(h, l) BY <1>6 DEF MutexTake, LeaveExit, Poll, Expects
    <2> HIDE DEF Expects
    <2> QED BY <2>1, <2>2, FreshKept
  <1>7. ASSUME NEW h \in Harts, Claim(h) PROVE Fresh'
    <2>1. /\ Elsewhere(h) /\ WentTo(h, "mleave") /\ pc[h] = "claim" /\ inited' = inited
          /\ \A s \in Slots : slots'[s] = IF s = mine[h] THEN [lock |-> lk[h], counter |-> 0, core |-> 0]
                                                       ELSE slots[s]
      BY <1>7, ClaimEffect DEF Claim
    <2>2. ASSUME NEW l, l = lk[h] PROVE Accounted(l)'
      BY <2>1, <2>2 DEF Callers, Caller, Active, Accounted, Expects, WentTo
    <2>3. \A l : Expects(h, l) => Expects(h, l)' BY <2>1 DEF Expects
    <2>4. ASSUME NEW s \in Slots, NEW l, l = slots'[s].lock, l # NoLock, slots'[s].counter = 0
          PROVE  Accounted(l)'
      <3>1. CASE s = mine[h]
        <4>1. l = lk[h] BY <2>1, <2>4, <3>1
        <4> QED BY <2>2, <4>1
      <3>2. CASE s # mine[h]
        <4>1. Accounted(l) BY <2>1, <2>4, <3>2, FreshDef
        <4>2. Expects(h, l) => Expects(h, l)' BY <2>3
        <4> QED BY <2>1, <4>1, <4>2, KeepsAccount
      <3> QED BY <3>1, <3>2
    <2> QED BY <2>4 DEF Fresh, Accounted, Expects
  <1>8. ASSUME NEW h \in Harts, MutexLeave(h) PROVE Fresh'
    <2>1. Elsewhere(h) /\ slots' = slots /\ inited' = inited BY <1>8, MutexLeaveEffect DEF MutexLeave
    <2>2. \A l : Expects(h, l) => Expects(h, l)'
      BY <1>8, MutexLeaveEffect DEF MutexLeave, Expects, Acquires, WentTo
    <2> HIDE DEF Expects
    <2> QED BY <2>1, <2>2, FreshKept
  <1>9. ASSUME NEW h \in Harts, Acquire(h) \/ Release(h) \/ Close(h),
               \A s \in Slots : slots'[s].lock = lk[h] => slots'[s].counter # 0
        PROVE  Fresh'
    <2>1. Elsewhere(h) /\ inited' = inited
      BY <1>9, AcquireEffect, ReleaseEffect, CloseEffect DEF Acquire, Release, Close
    <2>2. ASSUME NEW s \in Slots, NEW l, l = slots'[s].lock, l # NoLock, slots'[s].counter = 0
          PROVE  Accounted(l)'
      <3>1. slots'[s].lock # lk[h] BY <1>9, <2>2
      <3>2. s # mine[h]
        <4>1. pc[h] = "test" BY <1>9 DEF Acquire, Release, Close
        <4>2. slots'[s].lock = slots[s].lock BY <1>9, <2>2, WritersKeepLocks
        <4>3. s = mine[h] => slots[s].lock = lk[h]
          BY <4>1, SlotAssumption DEF Mine, Knows, HasSlot, Null, Slots
        <4> QED BY <3>1, <4>2, <4>3
      <3>3. slots'[s] = slots[s] BY <1>9, <3>2, WritersKeepLocks
      <3>4. Accounted(l) BY <2>2, <3>3, FreshDef
      <3>5. ~Expects(h, l) BY <2>2, <3>1 DEF Expects
      <3> QED BY <2>1, <3>4, <3>5, KeepsAccount
    <2> QED BY <2>2 DEF Fresh, Accounted, Expects
  <1>10. ASSUME NEW h \in Harts, Acquire(h) PROVE Fresh'
    <2>1. pc[h] = "test" BY <1>10 DEF Acquire
    <2>2. ASSUME NEW s \in Slots, slots'[s].lock = lk[h] PROVE slots'[s].counter # 0
      <3>1. slots[s].counter \in Nat BY DEF TypeOK
      <3>2. CASE Takes(h)
        <4>1. s = mine[h] BY <1>10, <2>1, <2>2, <3>2, AcquireEffect, SlotOfCall DEF Takes
        <4> QED BY <1>10, <3>1, <3>2, <4>1, AcquireEffect
      <3>3. CASE ~Takes(h)
        <4>1. slots' = slots BY <1>10, <3>3, AcquireEffect
        <4>2. s = mine[h] /\ mine[h] # Null BY <2>1, <2>2, <4>1, SlotOfCall
        <4> QED BY <3>3, <4>1, <4>2 DEF Takes
      <3> QED BY <3>2, <3>3
    <2> QED BY <1>9, <1>10, <2>2
  <1>11. ASSUME NEW h \in Harts, Release(h) PROVE Fresh'
    <2>1. Elsewhere(h) /\ inited' = inited /\ pc[h] = "test" /\ op[h] = "unlock"
      BY <1>11, ReleaseEffect DEF Release
    <2>2. \A l : ~Expects(h, l) BY <2>1 DEF Expects, Acquires
    <2>3. CASE ~Gives(h)
      <3>1. slots' = slots BY <1>11, <2>3, ReleaseEffect
      <3> HIDE DEF Expects
      <3> QED BY <2>1, <2>2, <3>1, FreshKept
    <2>4. CASE Gives(h)
      <3>1. lk[h] # NoLock /\ \A s \in Slots : slots[s].lock = lk[h] <=> s = mine[h]
        BY <2>1, <2>4, SlotOfCall DEF Gives
      <3>2. ASSUME NEW s \in Slots, slots'[s].lock = lk[h] PROVE slots'[s].counter # 0
        <4>1. s = mine[h] /\ slots[s].counter \in Nat
          BY <1>11, <3>1, <3>2, WritersKeepLocks DEF TypeOK
        <4>2. slots'[s] = IF slots[s].counter <= 1 THEN Free
                          ELSE [lock |-> slots[s].lock, counter |-> slots[s].counter - 1, core |-> h]
          BY <1>11, <2>4, <4>1, ReleaseEffect
        <4> QED BY <3>1, <3>2, <4>1, <4>2 DEF Free
      <3> QED BY <1>9, <1>11, <3>2
    <2> QED BY <2>3, <2>4
  <1>12. ASSUME NEW h \in Harts, Close(h) PROVE Fresh'
    <2>1. /\ pc[h] = "test"
          /\ \A s \in Slots : slots'[s] = IF s = mine[h] THEN Free ELSE slots[s]
      BY <1>12, CloseEffect DEF Close
    <2>2. /\ lk[h] # NoLock
          /\ \A s \in Slots : slots[s].lock = lk[h] => s = mine[h]
      BY <2>1, SlotOfCall
    <2>3. \A s \in Slots : slots'[s].lock # lk[h] BY <2>1, <2>2 DEF Free
    <2> QED BY <1>9, <1>12, <2>3
  <1>13. ASSUME NEW h \in Harts, LeaveDone(h) \/ LeaveRefused(h) PROVE Fresh'
    <2>1. Elsewhere(h) /\ slots' = slots /\ inited' = inited
      BY <1>13, LeaveDoneEffect, LeaveRefusedEffect DEF LeaveDone, LeaveRefused
    <2>2. \A l : ~Expects(h, l) BY <1>13 DEF LeaveDone, LeaveRefused, Expects
    <2> HIDE DEF Expects
    <2> QED BY <2>1, <2>2, FreshKept
  <1>14. CASE UNCHANGED vars BY <1>14 DEF vars, Fresh
  <1> QED
    BY <1>1, <1>2, <1>3, <1>4, <1>5, <1>6, <1>7, <1>8, <1>10, <1>11, <1>12, <1>13, <1>14
    DEF Next, Calls, Step

-----------------------------------------------------------------------------
(***************************************************************************)
(* The theorems.                                                           *)
(***************************************************************************)
LEMMA Inductive == Spec => []IInv
  <1>1. IInv /\ [Next]_vars => IInv'
    <2> SUFFICES ASSUME IInv, [Next]_vars PROVE IInv'
      OBVIOUS
    <2>1. TypeOK' BY NextTypeOK DEF IInv
    <2>2. WordGuards' BY NextWordGuards DEF IInv
    <2>3. MutexGuards' BY NextMutexGuards DEF IInv
    <2>4. Callers' BY NextCallers DEF IInv
    <2>5. OneSlot' BY NextOneSlot DEF IInv
    <2>6. Mine' BY NextMine
    <2>7. Levels' /\ NoLevels' BY NextLevels
    <2>8. Fresh' BY NextFresh
    <2> HIDE DEF TypeOK
    <2> QED BY <2>1, <2>2, <2>3, <2>4, <2>5, <2>6, <2>7, <2>8 DEF IInv
  <1> QED BY InitInv, <1>1, PTL DEF Spec

\* The variables of locks.c keep their ranges: a word is 0 or -1, a slot's
\* counter never goes below 0, a call works on a slot of the table.
THEOREM TypeCorrect == Spec => []TypeOK
  BY Inductive, PTL DEF IInv

\* Outside a call on a lock, its levels are in exactly one slot, under the
\* hart that holds it, and no slot stays behind for a lock nobody has.
LEMMA InvImpliesTable == IInv => TableAgrees
  <1> SUFFICES ASSUME TypeOK, WordGuards, OneSlot, Levels, NoLevels, Fresh PROVE TableAgrees
    BY DEF IInv
  <1>1. ASSUME NEW l \in Locks, word[l] = 0, NEW g \in Harts PROVE Gain(g, l) = 0 /\ ~Inside(g, l)
    BY <1>1 DEF WordGuards, Gain, Inside
  <1>2. HeldHaveSlots
    <2> SUFFICES ASSUME NEW l \in Locks, word[l] = 0, NEW h \in Harts, held[l][h] > 0
                 PROVE  \E s \in Slots : /\ SlotOf(l) = {s}
                                         /\ slots[s] = [lock |-> l, counter |-> held[l][h], core |-> h]
      BY DEF HeldHaveSlots
    <2>1. Gain(h, l) = 0 /\ held[l][h] \in Nat BY <1>1 DEF TypeOK
    <2>2. SlotOf(l) # {} BY <2>1 DEF NoLevels
    <2>3. PICK s \in Slots : slots[s].lock = l BY <2>2 DEF SlotOf
    <2>4. SlotOf(l) = {s} BY <2>3, LockAssumption DEF SlotOf, OneSlot
    <2>5. held[l][h] + Gain(h, l) = IF slots[s].core = h THEN slots[s].counter ELSE 0 BY <2>3 DEF Levels
    <2>6. slots[s].core = h /\ slots[s].counter = held[l][h] BY <2>1, <2>5 DEF TypeOK
    <2>7. slots[s] = [lock |-> l, counter |-> held[l][h], core |-> h] BY <2>3, <2>6 DEF TypeOK
    <2> QED BY <2>4, <2>7
  <1>3. NoSlotLeaks
    <2> SUFFICES ASSUME NEW s \in Slots, slots[s].lock # NoLock, slots[s].lock \notin inited,
                        word[slots[s].lock] = 0,
                        \A h \in Harts : ~(held[slots[s].lock][h] > 0)
                 PROVE  \E h \in Harts : /\ lk[h] = slots[s].lock /\ op[h] = "close"
                                         /\ pc[h] \in {"spin", "find", "test"}
      BY DEF NoSlotLeaks
    <2> DEFINE l == slots[s].lock
    <2>1. l \in Locks /\ slots[s].counter \in Nat /\ slots[s].core \in Harts BY DEF TypeOK
    <2>2. held[l][slots[s].core] = 0 BY <2>1 DEF TypeOK
    <2>3. Gain(slots[s].core, l) = 0 BY <1>1, <2>1
    <2>4. held[l][slots[s].core] + Gain(slots[s].core, l) = slots[s].counter BY <2>1 DEF Levels
    <2>5. slots[s].counter = 0 BY <2>2, <2>3, <2>4
    <2>6. \A h \in Harts : ~Inside(h, l) BY <1>1, <2>1
    <2>7. PICK h \in Harts : /\ lk[h] = l
                             /\ \/ pc[h] \in {"mleave", "test"} /\ op[h] \in Acquires
                                \/ pc[h] \in {"spin", "find", "test"} /\ op[h] = "close"
      BY <2>5 DEF Fresh
    <2> QED BY <2>6, <2>7 DEF Inside, Acquires
  <1> QED BY <1>2, <1>3 DEF TableAgrees
THEOREM TableRight == Spec => []TableAgrees
  BY Inductive, InvImpliesTable, PTL

\* Each lock is a recursive mutex for its callers: a level is granted only
\* while no other hart has one, and a release takes back a level that was
\* granted, or nothing.
LEMMA StepImplements ==
    IInv /\ [Next]_vars => [\A l \in Locks : Abstract(l)!Next \/ held'[l] = held[l]]_held
  <1> SUFFICES ASSUME IInv, [Next]_vars, held' # held, NEW l \in Locks, held'[l] # held[l]
               PROVE  Abstract(l)!Next
    OBVIOUS
  <1> USE DEF IInv
  <1>1. PICK h \in Harts : LeaveDone(h)
    <2> HIDE DEF IInv
    <2>1. ASSUME NEW g \in Harts, Calls(g) PROVE FALSE
      BY <2>1 DEF Calls, CallLock, CallTrylock, CallUnlock, CallInit, CallClose, Call
    <2>2. ASSUME NEW g \in Harts,
                 \/ WordTake(g) \/ WordBusy(g) \/ Poll(g) \/ Find(g) \/ MutexTake(g) \/ Claim(g)
                 \/ MutexLeave(g) \/ Acquire(g) \/ Release(g) \/ Close(g)
          PROVE  FALSE
      BY <2>2 DEF WordTake, WordBusy, Poll, Find, MutexTake, Claim, MutexLeave, Acquire, Release, Close
    <2>3. ASSUME NEW g \in Harts, LeaveRefused(g) \/ LeaveExit(g) PROVE FALSE
      BY <2>3 DEF LeaveRefused, LeaveExit
    <2>4. ~UNCHANGED vars BY DEF vars
    <2> QED BY <2>1, <2>2, <2>3, <2>4 DEF Next, Step
  <1>2. /\ pc[h] = "leave" /\ res[h] = 0 /\ lk[h] \in Locks
        /\ held' = [held EXCEPT ![lk[h]][h] =
                      CASE op[h] = "close" -> @
                        [] op[h] = "unlock" -> IF @ > 0 THEN @ - 1 ELSE 0
                        [] OTHER -> @ + 1]
    BY <1>1 DEF LeaveDone, Callers, Caller
  <1>3. l = lk[h] BY <1>2 DEF TypeOK
  <1>4. held[l] \in [Harts -> Nat] BY DEF TypeOK
  <1>5. held'[l] = [held[l] EXCEPT ![h] =
                      CASE op[h] = "close" -> held[l][h]
                        [] op[h] = "unlock" -> IF held[l][h] > 0 THEN held[l][h] - 1 ELSE 0
                        [] OTHER -> held[l][h] + 1]
    BY <1>2, <1>3 DEF TypeOK
  <1>6. op[h] # "close" BY <1>4, <1>5
  <1>7. CASE op[h] = "unlock"
    <2>1. held[l][h] > 0 /\ held'[l] = [held[l] EXCEPT ![h] = held[l][h] - 1]
      BY <1>4, <1>5, <1>7
    <2> QED BY <2>1 DEF Abstract!Next, Abstract!Release
  <1>8. CASE op[h] # "unlock"
    <2>1. op[h] \in Acquires BY <1>2, <1>6, <1>8 DEF TypeOK, Callers, Caller, Acquires
    <2>2. mine[h] \in Slots /\ slots[mine[h]].lock = l /\ slots[mine[h]].core = h
      BY <1>2, <1>3, <2>1 DEF Mine, Knows, TypeOK
    <2>3. ASSUME NEW g \in Harts \ {h} PROVE held[l][g] = 0
      <3>1. Gain(g, l) = 0 BY <1>2, <1>3, OthersGainNothing DEF Working
      <3>2. held[l][g] + Gain(g, l) = 0 BY <2>2, <2>3 DEF Levels
      <3> QED BY <1>4, <3>1, <3>2
    <2>4. held'[l] = [held[l] EXCEPT ![h] = held[l][h] + 1] BY <1>5, <1>6, <1>8
    <2> QED BY <2>3, <2>4 DEF Abstract!Next, Abstract!Acquire
  <1> QED BY <1>7, <1>8
THEOREM Refinement == Spec => EachIsRecMutex
  <1>1. Init => \A l \in Locks : Abstract(l)!Init BY DEF Init, Abstract!Init
  <1> QED BY <1>1, Inductive, StepImplements, PTL DEF Spec, EachIsRecMutex
=============================================================================
