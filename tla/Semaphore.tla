----------------------------- MODULE Semaphore -----------------------------
(***************************************************************************)
(* semaphore_t of lib/bsp/include/atomic.h: a count guarded by a spinlock  *)
(* word, and a number of waiters kept with atomic adds outside the word.   *)
(* A waiter takes the word, looks, gives the word back and looks again.    *)
(* The read and the write of count are steps of their own, so the model    *)
(* says what the word is for.                                              *)
(***************************************************************************)
EXTENDS Integers, FiniteSets

CONSTANTS Cores,        \* the harts
          Amounts,      \* the arguments i of signal and wait
          Start,        \* the initial count
          MaxPut        \* bound on the total signalled

ASSUME AmountAssumption == Amounts \subseteq Nat \ {0} /\ Start \in Nat /\ MaxPut \in Nat

VARIABLES lock,         \* semaphore->lock: 0 or -1
          units,        \* semaphore->count
          waiting,      \* semaphore->waiting
          at, call, arg, \* each hart's call, and its argument i
          tmp,          \* the count a hart has read
          put, got      \* totals signalled and taken so far

semVars == <<lock, units, waiting, at, call, arg, tmp, put, got>>

SemTypeOK == /\ lock \in {0, -1}
             /\ units \in Nat
             /\ waiting \in Int
             /\ at \in [Cores -> {"idle", "spin", "read", "write", "unwait", "leave", "retry"}]
             /\ call \in [Cores -> {"signal", "wait", "count"}]
             /\ arg \in [Cores -> Nat]
             /\ tmp \in [Cores -> Nat]
             /\ put \in Nat
             /\ got \in Nat

SemInit == /\ lock = 0
           /\ units = Start
           /\ waiting = 0
           /\ at = [h \in Cores |-> "idle"]
           /\ call = [h \in Cores |-> "count"]
           /\ arg = [h \in Cores |-> 0]
           /\ tmp = [h \in Cores |-> 0]
           /\ put = 0
           /\ got = 0

-----------------------------------------------------------------------------
(***************************************************************************)
(* Plausible bugs.                                                         *)
(***************************************************************************)
\* spinlock_trylock that does not look at the old value
TakeWord_Blind(h) == /\ at[h] = "spin"
                     /\ lock' = -1
                     /\ at' = [at EXCEPT ![h] = "read"]
                     /\ UNCHANGED <<units, waiting, call, arg, tmp, put, got>>

Look(h, enough) ==
    /\ at[h] = "read"
    /\ tmp' = [tmp EXCEPT ![h] = units]
    /\ at' = [at EXCEPT ![h] =
                CASE call[h] = "signal" -> "write"
                  [] call[h] = "wait" -> IF enough THEN "write" ELSE "retry"
                  [] call[h] = "count" -> "leave"]
    /\ UNCHANGED <<lock, units, waiting, call, arg, put, got>>

\* semaphore->count > i
Read_TooStrict(h) == Look(h, units > arg[h])

-----------------------------------------------------------------------------
\* semaphore_signal(i)
Signal(h, i) == /\ at[h] = "idle"
                /\ put + i <= MaxPut
                /\ at' = [at EXCEPT ![h] = "spin"]
                /\ call' = [call EXCEPT ![h] = "signal"]
                /\ arg' = [arg EXCEPT ![h] = i]
                /\ UNCHANGED <<lock, units, waiting, tmp, put, got>>

\* semaphore_wait(i): the waiter is counted before it first looks
Wait(h, i) == /\ at[h] = "idle"
              /\ at' = [at EXCEPT ![h] = "spin"]
              /\ call' = [call EXCEPT ![h] = "wait"]
              /\ arg' = [arg EXCEPT ![h] = i]
              /\ waiting' = waiting + 1
              /\ UNCHANGED <<lock, units, tmp, put, got>>

\* semaphore_count
ReadCount(h) == /\ at[h] = "idle"
                /\ at' = [at EXCEPT ![h] = "spin"]
                /\ call' = [call EXCEPT ![h] = "count"]
                /\ UNCHANGED <<lock, units, waiting, arg, tmp, put, got>>

-----------------------------------------------------------------------------
\* spinlock_lock
TakeWord(h) == /\ at[h] = "spin"
               /\ lock = 0
               /\ lock' = -1
               /\ at' = [at EXCEPT ![h] = "read"]
               /\ UNCHANGED <<units, waiting, call, arg, tmp, put, got>>

Read(h) == Look(h, units >= arg[h])

Write(h) == /\ at[h] = "write"
            /\ IF call[h] = "signal"
                 THEN /\ units' = tmp[h] + arg[h]
                      /\ put' = put + arg[h]
                      /\ at' = [at EXCEPT ![h] = "leave"]
                      /\ UNCHANGED got
                 ELSE /\ units' = tmp[h] - arg[h]
                      /\ got' = got + arg[h]
                      /\ at' = [at EXCEPT ![h] = "unwait"]
                      /\ UNCHANGED put
            /\ UNCHANGED <<lock, waiting, call, arg, tmp>>

\* atomic_add(&semaphore->waiting, -1), still under the word
Unwait(h) == /\ at[h] = "unwait"
             /\ waiting' = waiting - 1
             /\ at' = [at EXCEPT ![h] = "leave"]
             /\ UNCHANGED <<lock, units, call, arg, tmp, put, got>>

\* spinlock_unlock and return; the call's locals end with it
GiveBack(h) == /\ at[h] = "leave"
               /\ lock' = 0
               /\ at' = [at EXCEPT ![h] = "idle"]
               /\ call' = [call EXCEPT ![h] = "count"]
               /\ arg' = [arg EXCEPT ![h] = 0]
               /\ tmp' = [tmp EXCEPT ![h] = 0]
               /\ UNCHANGED <<units, waiting, put, got>>

\* not enough: give the word back and go round the loop
Retry(h) == /\ at[h] = "retry"
            /\ lock' = 0
            /\ at' = [at EXCEPT ![h] = "spin"]
            /\ tmp' = [tmp EXCEPT ![h] = 0]
            /\ UNCHANGED <<units, waiting, call, arg, put, got>>

SemCalls(h) == (\E i \in Amounts : Signal(h, i) \/ Wait(h, i)) \/ ReadCount(h)
SemStep(h) == TakeWord(h) \/ Read(h) \/ Write(h) \/ Unwait(h) \/ GiveBack(h) \/ Retry(h)

SemNext == \E h \in Cores : SemCalls(h) \/ SemStep(h)

SemSpec == SemInit /\ [][SemNext]_semVars

(***************************************************************************)
(* A hart inside a call keeps executing.  Waiters here keep taking the     *)
(* word, so weak fairness would let one hart's swaps always meet -1; the   *)
(* strong fairness of TakeWord is the arbitration of the memory system     *)
(* between harts that keep swapping the same word.                         *)
(***************************************************************************)
SemFairness == \A h \in Cores : WF_semVars(SemStep(h)) /\ SF_semVars(TakeWord(h))

SemFairSpec == SemSpec /\ SemFairness

-----------------------------------------------------------------------------
(***************************************************************************)
(* Properties.                                                             *)
(***************************************************************************)
Guarded(h) == at[h] \in {"read", "write", "unwait", "leave", "retry"}

SemWordGuards == /\ \A g, h \in Cores : Guarded(g) /\ Guarded(h) => g = h
                 /\ lock = 0 <=> \A h \in Cores : ~Guarded(h)

\* No signal is lost and nothing is taken twice: the count is what was there
\* plus all that was signalled minus all that waits took.
Conservation == units = Start + put - got

\* What a hart is about to write is based on the present count.
FreshRead == \A h \in Cores :
    at[h] = "write" => /\ tmp[h] = units
                       /\ call[h] # "count"
                       /\ call[h] = "wait" => arg[h] <= tmp[h]

\* The strengthening of Conservation that every step preserves.
SemIInv == SemTypeOK /\ SemWordGuards /\ FreshRead /\ Conservation

InWait(h) == call[h] = "wait" /\ at[h] \in {"spin", "read", "write", "unwait", "retry"}

\* A wait that the count would satisfy for good is satisfied.
EnoughIsServed == \A h \in Cores : []<>(~InWait(h) \/ units < arg[h])

=============================================================================
