---------------------------- MODULE AtomicProofs ----------------------------
(***************************************************************************)
(* Proofs about the two types of atomic.h that are more than a word, for   *)
(* any set of harts.                                                       *)
(*                                                                         *)
(* corelock_t: the inductive invariant IInv is the conjunction of the type *)
(* invariant, the exclusion by the word, the agreement of count and core   *)
(* with the callers, and LastOut, for the moment in which an unlock has    *)
(* freed the lock and not returned.                                        *)
(*                                                                         *)
(* semaphore_t, for any amounts: SemIInv is inductive.  The two types     *)
(* have a word and a count each; one variable serves in either            *)
(* specification, and no theorem is about both.                            *)
(***************************************************************************)
EXTENDS CoreLock, Semaphore, TLAPS

LEMMA InitInv == Init => IInv
  BY HartAssumption
  DEF Init, IInv, TypeOK, WordGuards, Accounting, LastOut, Inside, Pending, Ops, PCs

LEMMA NextType == TypeOK /\ Accounting /\ [Next]_vars => TypeOK'
  <1> SUFFICES ASSUME TypeOK, Accounting, [Next]_vars PROVE TypeOK'
    OBVIOUS
  <1> USE DEF TypeOK, Ops, PCs
  <1>1. ASSUME NEW h \in Harts, Calls(h) PROVE TypeOK'
    BY <1>1 DEF Calls, CallLock, CallTrylock, CallUnlock, Call
  <1>2. ASSUME NEW h \in Harts, SpinTake(h) \/ SpinBusy(h) PROVE TypeOK'
    BY <1>2 DEF SpinTake, SpinBusy
  <1>3. ASSUME NEW h \in Harts, TestAcquire(h) PROVE TypeOK'
    BY <1>3 DEF TestAcquire
  <1>4. ASSUME NEW h \in Harts, TestRelease(h) PROVE TypeOK'
    BY <1>4, HartAssumption DEF TestRelease, Accounting
  <1>5. ASSUME NEW h \in Harts, LeaveTaken(h) \/ LeaveRefused(h) \/ LeaveStray(h)
        PROVE TypeOK'
    BY <1>5 DEF LeaveTaken, LeaveRefused, LeaveStray
  <1>6. ASSUME NEW h \in Harts, LeaveReleased(h) PROVE TypeOK'
    BY <1>6 DEF LeaveReleased, Accounting, Pending
  <1>7. ASSUME NEW h \in Harts, Poll(h) PROVE TypeOK'
    BY <1>7 DEF Poll
  <1>8. CASE UNCHANGED vars
    BY <1>8 DEF vars
  <1>. QED
    BY <1>1, <1>2, <1>3, <1>4, <1>5, <1>6, <1>7, <1>8 DEF Next, Step

LEMMA NextWord == TypeOK /\ WordGuards /\ [Next]_vars => WordGuards'
  <1> SUFFICES ASSUME TypeOK, WordGuards, [Next]_vars PROVE WordGuards'
    OBVIOUS
  <1> USE DEF TypeOK, WordGuards, Inside
  <1>1. ASSUME NEW h \in Harts, Calls(h) PROVE WordGuards'
    BY <1>1 DEF Calls, CallLock, CallTrylock, CallUnlock, Call
  <1>2. ASSUME NEW h \in Harts, SpinTake(h) PROVE WordGuards'
    BY <1>2 DEF SpinTake
  <1>3. ASSUME NEW h \in Harts, SpinBusy(h) \/ Poll(h) PROVE WordGuards'
    BY <1>3 DEF SpinBusy, Poll
  <1>4. ASSUME NEW h \in Harts, TestAcquire(h) \/ TestRelease(h) PROVE WordGuards'
    BY <1>4 DEF TestAcquire, TestRelease
  <1>5. ASSUME NEW h \in Harts,
               LeaveTaken(h) \/ LeaveRefused(h) \/ LeaveReleased(h) \/ LeaveStray(h)
        PROVE WordGuards'
    BY <1>5 DEF LeaveTaken, LeaveRefused, LeaveReleased, LeaveStray
  <1>6. CASE UNCHANGED vars
    BY <1>6 DEF vars
  <1>. QED
    BY <1>1, <1>2, <1>3, <1>4, <1>5, <1>6 DEF Next, Step

LEMMA NextAccounting == IInv /\ [Next]_vars => Accounting'
  <1> SUFFICES ASSUME TypeOK, WordGuards, Accounting, [Next]_vars PROVE Accounting'
    BY DEF IInv
  <1> USE HartAssumption DEF TypeOK, Accounting, Pending
  <1>1. ASSUME NEW h \in Harts, Calls(h) PROVE Accounting'
    BY <1>1 DEF Calls, CallLock, CallTrylock, CallUnlock, Call
  <1>2. ASSUME NEW h \in Harts, SpinTake(h) \/ SpinBusy(h) \/ Poll(h) PROVE Accounting'
    BY <1>2 DEF SpinTake, SpinBusy, Poll
  <1>3. ASSUME NEW h \in Harts, TestAcquire(h) PROVE Accounting'
    BY <1>3 DEF TestAcquire
  <1>4. ASSUME NEW h \in Harts, TestRelease(h) PROVE Accounting'
    BY <1>4 DEF TestRelease
  <1>5. ASSUME NEW h \in Harts, LeaveTaken(h) PROVE Accounting'
    BY <1>5 DEF LeaveTaken
  <1>6. ASSUME NEW h \in Harts, LeaveRefused(h) \/ LeaveStray(h) PROVE Accounting'
    BY <1>6 DEF LeaveRefused, LeaveStray
  <1>7. ASSUME NEW h \in Harts, LeaveReleased(h) PROVE Accounting'
    BY <1>7 DEF LeaveReleased
  <1>8. CASE UNCHANGED vars
    BY <1>8 DEF vars
  <1>. QED
    BY <1>1, <1>2, <1>3, <1>4, <1>5, <1>6, <1>7, <1>8 DEF Next, Step

LEMMA NextLastOut == IInv /\ [Next]_vars => LastOut'
  <1> SUFFICES ASSUME TypeOK, WordGuards, LastOut, [Next]_vars PROVE LastOut'
    BY DEF IInv
  <1> USE HartAssumption DEF TypeOK, LastOut, Pending
  <1>1. ASSUME NEW h \in Harts, Calls(h) PROVE LastOut'
    BY <1>1 DEF Calls, CallLock, CallTrylock, CallUnlock, Call
  <1>2. ASSUME NEW h \in Harts, SpinTake(h) \/ SpinBusy(h) \/ Poll(h) PROVE LastOut'
    BY <1>2 DEF SpinTake, SpinBusy, Poll
  <1>3. ASSUME NEW h \in Harts, TestAcquire(h) PROVE LastOut'
    BY <1>3 DEF TestAcquire, WordGuards, Inside
  <1>4. ASSUME NEW h \in Harts, TestRelease(h) PROVE LastOut'
    BY <1>4 DEF TestRelease, WordGuards, Inside
  <1>5. ASSUME NEW h \in Harts,
               LeaveTaken(h) \/ LeaveRefused(h) \/ LeaveReleased(h) \/ LeaveStray(h)
        PROVE LastOut'
    BY <1>5 DEF LeaveTaken, LeaveRefused, LeaveReleased, LeaveStray
  <1>6. CASE UNCHANGED vars
    BY <1>6 DEF vars
  <1>. QED
    BY <1>1, <1>2, <1>3, <1>4, <1>5, <1>6 DEF Next, Step

LEMMA Inductive == IInv /\ [Next]_vars => IInv'
  BY NextType, NextWord, NextAccounting, NextLastOut DEF IInv

\* corelock_t keeps its types, whatever its callers do: an unlock by the
\* wrong core never drives count below zero.
THEOREM TypeCorrect == Spec => []TypeOK
  BY InitInv, Inductive, PTL DEF Spec, IInv

\* No two harts are ever both between their lock call and their unlock.
THEOREM Exclusion == Spec => []MutualExclusion
  <1>1. IInv => MutualExclusion
    <2> SUFFICES ASSUME TypeOK, WordGuards, Accounting, LastOut,
                        NEW g \in Harts, NEW h \in Harts,
                        held[g] > 0, held[h] > 0, g # h
                 PROVE  FALSE
      BY DEF IInv, MutualExclusion
    <2>1. ASSUME NEW x \in Harts, held[x] > 0, core # x
          PROVE  Pending(x) = -1 /\ Inside(x) /\ core = NoHart
      BY <2>1 DEF TypeOK, Accounting, LastOut, Pending, Inside
    <2>. QED
      BY <2>1, HartAssumption DEF WordGuards
  <1>. QED
    BY InitInv, Inductive, <1>1, PTL DEF Spec

\* The levels the harts were granted are the levels the lock has counted.
THEOREM LevelsAgree == Spec => [](Accounting /\ WordGuards)
  BY InitInv, Inductive, PTL DEF Spec, IInv

\* corelock_t implements the recursive mutex: only the return of a
\* successful lock call acquires, only the end of the owner's unlock
\* releases, and every other step is invisible to the callers.
THEOREM Refinement == Spec => ImplementsRecMutex
  <1>1. Init => Abstract!Init
    BY DEF Init, Abstract!Init
  <1>2. IInv /\ [Next]_vars => [Abstract!Next]_held
    <2> SUFFICES ASSUME TypeOK, Accounting, WordGuards, [Next]_vars,
                        held' # held
                 PROVE  Abstract!Next
      BY DEF IInv
    <2>1. ASSUME NEW h \in Harts, LeaveTaken(h) PROVE Abstract!Acquire(h)
      <3>1. core = h
        BY <2>1, HartAssumption DEF LeaveTaken, TypeOK, Accounting, Pending
      <3>2. ASSUME NEW g \in Harts \ {h} PROVE held[g] = 0
        <4>1. ~Inside(g)
          BY <2>1 DEF LeaveTaken, WordGuards, Inside
        <4>2. Pending(g) = 0
          BY <4>1 DEF Pending, Inside
        <4>. QED
          BY <3>1, <4>2 DEF TypeOK, Accounting
      <3>. QED
        BY <2>1, <3>2 DEF LeaveTaken, Abstract!Acquire
    <2>2. ASSUME NEW h \in Harts, LeaveReleased(h) PROVE Abstract!Release(h)
      BY <2>2 DEF LeaveReleased, Abstract!Release, TypeOK, Accounting, Pending
    <2>3. PICK h \in Harts : LeaveTaken(h) \/ LeaveReleased(h)
      BY DEF Next, Step, Calls, CallLock, CallTrylock, CallUnlock, Call, SpinTake,
             SpinBusy, TestAcquire, TestRelease, LeaveRefused, LeaveStray, Poll, vars
    <2>. QED
      BY <2>1, <2>2, <2>3 DEF Abstract!Next
  <1>. QED
    BY InitInv, Inductive, <1>1, <1>2, PTL DEF Spec, ImplementsRecMutex, Abstract!Spec

-----------------------------------------------------------------------------
(***************************************************************************)
(* semaphore_t.                                                            *)
(***************************************************************************)
LEMMA SemaphoreInit == SemInit => SemIInv
  BY AmountAssumption
  DEF SemInit, SemIInv, SemTypeOK, SemWordGuards, Guarded, FreshRead, Conservation

LEMMA SemaphoreNext == SemIInv /\ [SemNext]_semVars => SemIInv'
  <1> SUFFICES ASSUME SemIInv, [SemNext]_semVars PROVE SemIInv'
    OBVIOUS
  <1> USE AmountAssumption DEF SemIInv, SemTypeOK, SemWordGuards, Guarded, FreshRead,
              Conservation
  <1>1. ASSUME NEW h \in Cores, NEW i \in Amounts, Signal(h, i) \/ Wait(h, i)
        PROVE  SemIInv'
    <2>1. CASE Signal(h, i)
      BY <2>1 DEF Signal
    <2>2. CASE Wait(h, i)
      BY <2>2 DEF Wait
    <2>. QED
      BY <1>1, <2>1, <2>2
  <1>2. ASSUME NEW h \in Cores, ReadCount(h) PROVE SemIInv'
    BY <1>2 DEF ReadCount
  <1>3. ASSUME NEW h \in Cores, TakeWord(h) PROVE SemIInv'
    BY <1>3 DEF TakeWord
  <1>4. ASSUME NEW h \in Cores, Read(h) PROVE SemIInv'
    BY <1>4 DEF Read, Look
  <1>5. ASSUME NEW h \in Cores, Write(h) PROVE SemIInv'
    <2>1. CASE call[h] = "signal"
      BY <1>5, <2>1 DEF Write
    <2>2. CASE call[h] # "signal"
      <3>1. call[h] = "wait" /\ arg[h] <= tmp[h] /\ tmp[h] = units
        BY <1>5, <2>2 DEF Write
      <3>. QED
        BY <1>5, <3>1 DEF Write
    <2>. QED
      BY <2>1, <2>2
  <1>6. ASSUME NEW h \in Cores, Unwait(h) \/ GiveBack(h) \/ Retry(h) PROVE SemIInv'
    BY <1>6 DEF Unwait, GiveBack, Retry
  <1>7. CASE UNCHANGED semVars
    BY <1>7 DEF semVars
  <1>. QED
    BY <1>1, <1>2, <1>3, <1>4, <1>5, <1>6, <1>7 DEF SemNext, SemCalls, SemStep

\* No signal is lost and nothing is taken twice, for any number of harts
\* and any amounts.
THEOREM NothingLost == SemSpec => []Conservation
  BY SemaphoreInit, SemaphoreNext, PTL DEF SemSpec, SemIInv

\* The count never goes negative: SemTypeOK has it in Nat.
THEOREM CountCorrect == SemSpec => []SemTypeOK
  BY SemaphoreInit, SemaphoreNext, PTL DEF SemSpec, SemIInv
=============================================================================
