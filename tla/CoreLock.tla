------------------------------ MODULE CoreLock ------------------------------
(***************************************************************************)
(* corelock_t of lib/bsp/include/atomic.h: a recursive lock between harts. *)
(* A spinlock word guards the pair (count, core); a hart that finds the    *)
(* lock taken leaves the word, polls count WITHOUT the word, and competes  *)
(* again through corelock_trylock.  vprintk (lib/bsp/printf.c) is its user.*)
(*                                                                         *)
(* Every access to the word is a step of its own; count and core are only  *)
(* written by the hart that owns the word, so one step covers them.        *)
(***************************************************************************)
EXTENDS Integers, FiniteSets

CONSTANTS Harts,        \* the harts that share the lock
          NoHart,       \* core = -1
          Trying,       \* the harts whose code calls corelock_trylock
          Careless,     \* the harts that may unlock what they do not hold
          MaxDepth      \* bound on the nesting of one hart's acquisitions

ASSUME HartAssumption == NoHart \notin Harts
ASSUME DepthAssumption == MaxDepth \in Nat \ {0}

VARIABLES word,     \* lock->lock, the spinlock word: 0 or -1
          count,    \* lock->count
          core,     \* lock->core
          pc,       \* where each hart is in a call on the lock
          op,       \* the call it is in ("relock": the trylock inside lock)
          res,      \* what its current call will return
          held      \* acquisitions its caller has not given back

vars == <<word, count, core, pc, op, res, held>>

Ops == {"lock", "trylock", "relock", "unlock"}
PCs == {"idle", "spin", "test", "leave", "poll", "exited"}

TypeOK == /\ word \in {0, -1}
          /\ count \in Nat
          /\ core \in Harts \cup {NoHart}
          /\ pc \in [Harts -> PCs]
          /\ op \in [Harts -> Ops]
          /\ res \in [Harts -> {0, -1}]
          /\ held \in [Harts -> Nat]

\* CORELOCK_INIT
Init == /\ word = 0
        /\ count = 0
        /\ core = NoHart
        /\ pc = [h \in Harts |-> "idle"]
        /\ op = [h \in Harts |-> "lock"]
        /\ res = [h \in Harts |-> 0]
        /\ held = [h \in Harts |-> 0]

-----------------------------------------------------------------------------
(***************************************************************************)
(* Plausible bugs, one for each property below: what would be lost.        *)
(***************************************************************************)

\* corelock_lock without the lock->core == core test
TestAcquire_AnyCore(h) ==
    /\ pc[h] = "test" /\ op[h] # "unlock"
    /\ count' = count + 1 /\ core' = h
    /\ res' = [res EXCEPT ![h] = 0]
    /\ pc' = [pc EXCEPT ![h] = "leave"]
    /\ UNCHANGED <<word, op, held>>

\* corelock_unlock with a changed owner test or a changed release
TestRelease_With(h, owner, count2, core2) ==
    /\ pc[h] = "test" /\ op[h] = "unlock"
    /\ IF owner THEN /\ count' = count2
                     /\ core' = core2
                     /\ res' = [res EXCEPT ![h] = 0]
                ELSE /\ res' = [res EXCEPT ![h] = -1]
                     /\ UNCHANGED <<count, core>>
    /\ pc' = [pc EXCEPT ![h] = "leave"]
    /\ UNCHANGED <<word, op, held>>
TestRelease_AnyCore(h) == TestRelease_With(h, TRUE, count - 1, core)
TestRelease_Whole(h) == TestRelease_With(h, core = h, 0, NoHart)

\* the error exit of corelock_unlock without spinlock_unlock
LeaveStray_KeepsWord(h) ==
    /\ pc[h] = "leave" /\ op[h] = "unlock" /\ res[h] = -1
    /\ pc' = [pc EXCEPT ![h] = "exited"]
    /\ UNCHANGED <<word, count, core, op, res, held>>

\* waiting on corelock_trylock alone, without the loop on count
Poll_Never(h) == /\ pc[h] = "poll"
                 /\ pc' = [pc EXCEPT ![h] = "spin"]
                 /\ op' = [op EXCEPT ![h] = "relock"]
                 /\ UNCHANGED <<word, count, core, res, held>>

-----------------------------------------------------------------------------
(***************************************************************************)
(* The callers.                                                            *)
(***************************************************************************)
Call(h, o) == /\ pc[h] = "idle"
              /\ pc' = [pc EXCEPT ![h] = "spin"]
              /\ op' = [op EXCEPT ![h] = o]
              /\ UNCHANGED <<word, count, core, res, held>>

CallLock(h) == held[h] < MaxDepth /\ Call(h, "lock")
CallTrylock(h) == h \in Trying /\ held[h] < MaxDepth /\ Call(h, "trylock")
CallUnlock(h) == (held[h] > 0 \/ h \in Careless) /\ Call(h, "unlock")

-----------------------------------------------------------------------------
(***************************************************************************)
(* The word.  spinlock_trylock swaps -1 in: 0 means the word was free.     *)
(* The loop of spinlock_lock is the waiting for word = 0.                  *)
(***************************************************************************)
SpinTake(h) == /\ pc[h] = "spin"
               /\ word = 0
               /\ word' = -1
               /\ pc' = [pc EXCEPT ![h] = "test"]
               /\ UNCHANGED <<count, core, op, res, held>>

\* corelock_trylock gives up on a busy word: -1 to the caller, or back to
\* the polling loop when it is the trylock inside corelock_lock.
SpinBusy(h) == /\ pc[h] = "spin"
               /\ op[h] \in {"trylock", "relock"}
               /\ word # 0
               /\ pc' = [pc EXCEPT ![h] = IF op[h] = "relock" THEN "poll" ELSE "idle"]
               /\ UNCHANGED <<word, count, core, op, res, held>>

(***************************************************************************)
(* Under the word: first time, same core, or another core's.               *)
(***************************************************************************)
TestAcquire(h) ==
    /\ pc[h] = "test"
    /\ op[h] # "unlock"
    /\ IF count = 0 \/ core = h
         THEN /\ count' = count + 1
              /\ core' = h
              /\ res' = [res EXCEPT ![h] = 0]
         ELSE /\ res' = [res EXCEPT ![h] = -1]
              /\ UNCHANGED <<count, core>>
    /\ pc' = [pc EXCEPT ![h] = "leave"]
    /\ UNCHANGED <<word, op, held>>

TestRelease(h) ==
    /\ pc[h] = "test"
    /\ op[h] = "unlock"
    /\ IF core = h
         THEN /\ count' = count - 1
              /\ core' = IF count - 1 <= 0 THEN NoHart ELSE core
              /\ res' = [res EXCEPT ![h] = 0]
         ELSE /\ res' = [res EXCEPT ![h] = -1]
              /\ UNCHANGED <<count, core>>
    /\ pc' = [pc EXCEPT ![h] = "leave"]
    /\ UNCHANGED <<word, op, held>>

(***************************************************************************)
(* spinlock_unlock, then the return, the polling loop, or the scall 93     *)
(* (sys_exit, which never returns) of an unlock by the wrong core.         *)
(***************************************************************************)
LeaveTaken(h) == /\ pc[h] = "leave"
                 /\ op[h] # "unlock" /\ res[h] = 0
                 /\ word' = 0
                 /\ pc' = [pc EXCEPT ![h] = "idle"]
                 /\ held' = [held EXCEPT ![h] = @ + 1]
                 /\ UNCHANGED <<count, core, op, res>>

LeaveRefused(h) == /\ pc[h] = "leave"
                   /\ op[h] # "unlock" /\ res[h] = -1
                   /\ word' = 0
                   /\ pc' = [pc EXCEPT ![h] = IF op[h] = "trylock" THEN "idle" ELSE "poll"]
                   /\ UNCHANGED <<count, core, op, res, held>>

LeaveReleased(h) == /\ pc[h] = "leave"
                    /\ op[h] = "unlock" /\ res[h] = 0
                    /\ word' = 0
                    /\ pc' = [pc EXCEPT ![h] = "idle"]
                    /\ held' = [held EXCEPT ![h] = @ - 1]
                    /\ UNCHANGED <<count, core, op, res>>

LeaveStray(h) == /\ pc[h] = "leave"
                 /\ op[h] = "unlock" /\ res[h] = -1
                 /\ word' = 0
                 /\ pc' = [pc EXCEPT ![h] = "exited"]
                 /\ UNCHANGED <<count, core, op, res, held>>

\* while(atomic_read(&lock->count)); then corelock_trylock
Poll(h) == /\ pc[h] = "poll"
           /\ count = 0
           /\ pc' = [pc EXCEPT ![h] = "spin"]
           /\ op' = [op EXCEPT ![h] = "relock"]
           /\ UNCHANGED <<word, count, core, res, held>>

-----------------------------------------------------------------------------
Calls(h) == CallLock(h) \/ CallTrylock(h) \/ CallUnlock(h)

Step(h) == \/ SpinTake(h) \/ SpinBusy(h)
           \/ TestAcquire(h) \/ TestRelease(h)
           \/ LeaveTaken(h) \/ LeaveRefused(h) \/ LeaveReleased(h) \/ LeaveStray(h)
           \/ Poll(h)

Next == \E h \in Harts : Calls(h) \/ Step(h)

Spec == Init /\ [][Next]_vars

\* A hart that is inside a call keeps executing; no caller has to call.
Fairness == \A h \in Harts : WF_vars(Step(h))

FairSpec == Spec /\ Fairness

-----------------------------------------------------------------------------
(***************************************************************************)
(* Properties.                                                             *)
(***************************************************************************)
\* Two harts never both hold the lock, from the return of the lock call of
\* one to the moment its last unlock gives the word back.
MutualExclusion == \A g, h \in Harts : held[g] > 0 /\ held[h] > 0 => g = h

\* The difference between the lock's own count and the caller's, while a
\* hart that has updated count has not yet returned.
Pending(h) == IF pc[h] = "leave" /\ res[h] = 0
              THEN IF op[h] = "unlock" THEN -1 ELSE 1
              ELSE 0

\* count and core agree with what the harts were granted: nothing a refused
\* trylock, a stray unlock or a polling hart does loses or invents a level.
Accounting ==
    /\ count = 0 <=> core = NoHart
    /\ \A h \in Harts :
         held[h] + Pending(h) = IF core = h THEN count ELSE 0

\* The inner spinlock: the word is taken exactly while one hart is inside.
Inside(h) == pc[h] \in {"test", "leave"}
WordGuards == /\ \A g, h \in Harts : Inside(g) /\ Inside(h) => g = h
              /\ word = 0 <=> \A h \in Harts : ~Inside(h)

\* A hart that gave up its last level is still the last one to have touched
\* the lock until it gives the word back.
LastOut == \A h \in Harts : Pending(h) = -1 /\ core # h => core = NoHart

\* The strengthening of MutualExclusion that every step preserves.
IInv == TypeOK /\ WordGuards /\ Accounting /\ LastOut

\* The callers see a recursive mutex.
Abstract == INSTANCE RecMutex
ImplementsRecMutex == Abstract!Spec

Waiting(h) == pc[h] # "idle" /\ op[h] \in {"lock", "relock"}

\* A hart waiting for the lock never waits on nobody: some hart gets it,
\* even after harts have left through the error exit.
SomeoneGetsIt == \A h \in Harts : Waiting(h) ~> \E g \in Harts : held[g] > 0

\* The reason corelock_lock polls count instead of the word: waiters cannot
\* keep the holder from giving the lock back.  (Harts that call trylock over
\* and over can: they take the word each time.)
UnlockReturns == \A h \in Harts :
    (op[h] = "unlock" /\ pc[h] = "spin" /\ held[h] > 0)
        ~> \/ pc[h] = "idle"
           \/ \E g \in Harts : op[g] = "trylock" /\ pc[g] # "idle"
=============================================================================
