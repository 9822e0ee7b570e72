------------------------------ MODULE Reculock ------------------------------
(***************************************************************************)
(* The recursive locks newlib asks for (lib/bsp/locks.c).  A _lock_t is    *)
(* one word; who owns it and how deep is kept in a table of LOCK_MAX_NUM   *)
(* slots, shared by all locks.  The word of a lock guards its slot, a      *)
(* mutex guards the search for a free slot, and a slot is given back when  *)
(* its lock is fully released.  The allocator of iomem.c is the main user. *)
(*                                                                         *)
(* get_reculock and get_free_reculock are one step each: the slot of a     *)
(* lock changes only under that lock's word, and slots are claimed only    *)
(* under the mutex.                                                        *)
(***************************************************************************)
EXTENDS Integers, FiniteSets

CONSTANTS Harts,        \* hart ids, with core 0 among them
          Locks,
          NoLock,       \* NULL
          NSlots,       \* LOCK_MAX_NUM
          MaxDepth,     \* per lock, bound on the nesting of one hart on it
          Careless      \* harts that may release a lock they do not hold

ASSUME HartAssumption == 0 \in Harts /\ Harts \subseteq Nat
ASSUME LockAssumption == NoLock \notin Locks
ASSUME SlotAssumption == NSlots \in Nat \ {0} /\ MaxDepth \in [Locks -> Nat \ {0}]

Slots == 0 .. NSlots - 1

VARIABLES word,     \* *lock, for each lock: 0 or -1
          mutex,    \* reculock_mutex
          slots,    \* reculock[]: lock, counter, core
          inited,   \* locks between _lock_init_recursive and _lock_close_recursive
          pc, op, lk, res,
          mine,     \* v_reculock: the slot a call works on, or NULL
          held      \* held[l][h]: acquisitions of h on l not yet given back

vars == <<word, mutex, slots, inited, pc, op, lk, res, mine, held>>

Null == NSlots
Free == [lock |-> NoLock, counter |-> 0, core |-> 0]

TypeOK ==
    /\ word \in [Locks -> {0, -1}]
    /\ mutex \in {0, -1}
    /\ slots \in [Slots -> [lock: Locks \cup {NoLock}, counter: Nat, core: Harts]]
    /\ inited \subseteq Locks
    /\ pc \in [Harts -> {"idle", "spin", "find", "mspin", "claim", "mleave", "test",
                         "leave", "poll", "exited"}]
    /\ op \in [Harts -> {"lock", "trylock", "relock", "unlock", "init", "close"}]
    /\ lk \in [Harts -> Locks \cup {NoLock}]
    /\ res \in [Harts -> {0, -1}]
    /\ mine \in [Harts -> Slots \cup {Null}]
    /\ held \in [Locks -> [Harts -> Nat]]

Init == /\ word = [l \in Locks |-> 0]
        /\ mutex = 0
        /\ slots = [s \in Slots |-> Free]
        /\ inited = {}
        /\ pc = [h \in Harts |-> "idle"]
        /\ op = [h \in Harts |-> "lock"]
        /\ lk = [h \in Harts |-> NoLock]
        /\ res = [h \in Harts |-> 0]
        /\ mine = [h \in Harts |-> Null]
        /\ held = [l \in Locks |-> [h \in Harts |-> 0]]

SlotOf(l) == {s \in Slots : slots[s].lock = l}

\* a call ends, and its locals with it
Return(h, next) == /\ pc' = [pc EXCEPT ![h] = next]
                   /\ op' = [op EXCEPT ![h] = "lock"]
                   /\ lk' = [lk EXCEPT ![h] = NoLock]
                   /\ res' = [res EXCEPT ![h] = 0]
                   /\ mine' = [mine EXCEPT ![h] = Null]

Lowest(S) == CHOOSE s \in S : \A t \in S : s <= t

-----------------------------------------------------------------------------
(***************************************************************************)
(* Plausible bugs.                                                         *)
(***************************************************************************)
\* the free slot is looked for without reculock_mutex
MutexTake_Blind(h) == /\ pc[h] = "mspin"
                      /\ mutex' = -1
                      /\ mine' = [mine EXCEPT ![h] =
                                    IF SlotOf(NoLock) = {} THEN Null ELSE Lowest(SlotOf(NoLock))]
                      /\ pc' = [pc EXCEPT ![h] = "claim"]
                      /\ UNCHANGED <<word, slots, inited, op, lk, res, held>>

\* reculock_unlock with a changed end: what the slot becomes at depth 0
Release_With(h, end) ==
    LET l == lk[h] s == mine[h] IN
    /\ pc[h] = "test" /\ op[h] = "unlock"
    /\ IF s # Null /\ slots[s].core = h
         THEN /\ slots' = IF slots[s].counter <= 1 THEN [slots EXCEPT ![s] = end]
                                                   ELSE [slots EXCEPT ![s].counter = @ - 1]
              /\ res' = [res EXCEPT ![h] = 0]
         ELSE /\ res' = [res EXCEPT ![h] = -1]
              /\ UNCHANGED slots
    /\ pc' = [pc EXCEPT ![h] = "leave"]
    /\ UNCHANGED <<word, mutex, inited, op, lk, mine, held>>
Release_KeepsCounter(h) == Release_With(h, [lock |-> NoLock, counter |-> 1, core |-> h])

\* an acquisition without the owner test
Acquire_AnyCore(h) ==
    LET s == mine[h] IN
    /\ pc[h] = "test" /\ op[h] \in {"lock", "trylock", "relock"}
    /\ s # Null
    /\ slots' = [slots EXCEPT ![s].counter = @ + 1, ![s].core = h]
    /\ res' = [res EXCEPT ![h] = 0]
    /\ pc' = [pc EXCEPT ![h] = "leave"]
    /\ UNCHANGED <<word, mutex, inited, op, lk, mine, held>>

-----------------------------------------------------------------------------
(***************************************************************************)
(* The callers.  A lock object is initialised and closed by a hart that    *)
(* has it to itself; a static one is used without either.                  *)
(***************************************************************************)
Unused(l) == /\ \A h \in Harts : held[l][h] = 0
             /\ \A h \in Harts : pc[h] \notin {"idle", "exited"} => lk[h] # l

Call(h, l, o) == /\ pc[h] = "idle"
                 /\ pc' = [pc EXCEPT ![h] = IF o = "init" THEN "mspin" ELSE "spin"]
                 /\ op' = [op EXCEPT ![h] = o]
                 /\ lk' = [lk EXCEPT ![h] = l]
                 /\ UNCHANGED <<word, mutex, slots, res, mine, held>>

\* nobody is initialising or closing the lock
Open(l) == \A g \in Harts : pc[g] \notin {"idle", "exited"} /\ op[g] \in {"init", "close"}
                             => lk[g] # l

MayTake(h, l) == held[l][h] < MaxDepth[l] /\ Open(l)

\* _lock_acquire_recursive, _lock_try_acquire_recursive
CallLock(h, l) == MayTake(h, l) /\ Call(h, l, "lock") /\ UNCHANGED inited
CallTrylock(h, l) == MayTake(h, l) /\ Call(h, l, "trylock") /\ UNCHANGED inited

\* _lock_release_recursive
CallUnlock(h, l) == /\ held[l][h] > 0 \/ (h \in Careless /\ Open(l))
                    /\ Call(h, l, "unlock") /\ UNCHANGED inited

\* _lock_init_recursive: takes a slot, whether or not it will be needed
CallInit(h, l) == /\ l \notin inited /\ Unused(l)
                  /\ Call(h, l, "init")
                  /\ inited' = inited \cup {l}

\* _lock_close_recursive
CallClose(h, l) == /\ l \in inited /\ Unused(l)
                   /\ Call(h, l, "close")
                   /\ inited' = inited \ {l}

-----------------------------------------------------------------------------
\* lock_lock, or the one swap of lock_trylock
WordTake(h) == /\ pc[h] = "spin"
               /\ word[lk[h]] = 0
               /\ word' = [word EXCEPT ![lk[h]] = -1]
               /\ pc' = [pc EXCEPT ![h] = "find"]
               /\ UNCHANGED <<mutex, slots, inited, op, lk, res, mine, held>>

WordBusy(h) == /\ pc[h] = "spin"
               /\ op[h] \in {"trylock", "relock"}
               /\ word[lk[h]] # 0
               /\ IF op[h] = "relock"
                    THEN pc' = [pc EXCEPT ![h] = "poll"] /\ UNCHANGED <<op, lk, res, mine>>
                    ELSE Return(h, "idle")
               /\ UNCHANGED <<word, mutex, slots, inited, held>>

\* get_reculock; an acquiring call without a slot goes on to reculock_init
Find(h) == LET found == SlotOf(lk[h]) IN
    /\ pc[h] = "find"
    /\ mine' = [mine EXCEPT ![h] = IF found = {} THEN Null ELSE Lowest(found)]
    /\ pc' = [pc EXCEPT ![h] =
                IF found = {} /\ op[h] \notin {"unlock", "close"} THEN "mspin" ELSE "test"]
    /\ UNCHANGED <<word, mutex, slots, inited, op, lk, res, held>>

-----------------------------------------------------------------------------
(***************************************************************************)
(* reculock_init, under reculock_mutex.                                    *)
(***************************************************************************)
\* lock_lock(&reculock_mutex) and get_free_reculock
MutexTake(h) == /\ pc[h] = "mspin"
                /\ mutex = 0
                /\ mutex' = -1
                /\ mine' = [mine EXCEPT ![h] =
                              IF SlotOf(NoLock) = {} THEN Null ELSE Lowest(SlotOf(NoLock))]
                /\ pc' = [pc EXCEPT ![h] = "claim"]
                /\ UNCHANGED <<word, slots, inited, op, lk, res, held>>

Claim(h) == /\ pc[h] = "claim"
            /\ slots' = IF mine[h] = Null THEN slots
                        ELSE [slots EXCEPT ![mine[h]] = [Free EXCEPT !.lock = lk[h]]]
            /\ pc' = [pc EXCEPT ![h] = "mleave"]
            /\ UNCHANGED <<word, mutex, inited, op, lk, res, mine, held>>

\* back to the caller: done for _lock_init_recursive, with the slot or with
\* NULL for an acquiring call
MutexLeave(h) == /\ pc[h] = "mleave"
                 /\ mutex' = 0
                 /\ IF op[h] = "init"
                      THEN Return(h, "idle")
                      ELSE pc' = [pc EXCEPT ![h] = "test"] /\ UNCHANGED <<op, lk, res, mine>>
                 /\ UNCHANGED <<word, slots, inited, held>>

-----------------------------------------------------------------------------
(***************************************************************************)
(* Under the word: first time, same core, another core; or no slot at all. *)
(***************************************************************************)
Acquire(h) ==
    LET s == mine[h] IN
    /\ pc[h] = "test"
    /\ op[h] \in {"lock", "trylock", "relock"}
    /\ IF s # Null /\ (slots[s].counter = 0 \/ slots[s].core = h)
         THEN /\ slots' = [slots EXCEPT ![s].counter = @ + 1, ![s].core = h]
              /\ res' = [res EXCEPT ![h] = 0]
         ELSE /\ res' = [res EXCEPT ![h] = -1]
              /\ UNCHANGED slots
    /\ pc' = [pc EXCEPT ![h] = "leave"]
    /\ UNCHANGED <<word, mutex, inited, op, lk, mine, held>>

\* the last level gives the slot back; core 0 owns a slot nobody has taken
Release(h) ==
    LET s == mine[h] IN
    /\ pc[h] = "test"
    /\ op[h] = "unlock"
    /\ IF s # Null /\ slots[s].core = h
         THEN /\ slots' = IF slots[s].counter <= 1 THEN [slots EXCEPT ![s] = Free]
                                                   ELSE [slots EXCEPT ![s].counter = @ - 1]
              /\ res' = [res EXCEPT ![h] = 0]
         ELSE /\ res' = [res EXCEPT ![h] = -1]
              /\ UNCHANGED slots
    /\ pc' = [pc EXCEPT ![h] = "leave"]
    /\ UNCHANGED <<word, mutex, inited, op, lk, mine, held>>

\* reculock_deinit
Close(h) == /\ pc[h] = "test"
            /\ op[h] = "close"
            /\ slots' = IF mine[h] = Null THEN slots ELSE [slots EXCEPT ![mine[h]] = Free]
            /\ res' = [res EXCEPT ![h] = 0]
            /\ pc' = [pc EXCEPT ![h] = "leave"]
            /\ UNCHANGED <<word, mutex, inited, op, lk, mine, held>>

-----------------------------------------------------------------------------
(***************************************************************************)
(* lock_unlock and what follows it.                                        *)
(***************************************************************************)
\* a level a careless hart 0 takes back from an unused slot was never held
LeaveDone(h) ==
    /\ pc[h] = "leave" /\ res[h] = 0
    /\ word' = [word EXCEPT ![lk[h]] = 0]
    /\ Return(h, "idle")
    /\ held' = [held EXCEPT ![lk[h]][h] =
                  CASE op[h] = "close" -> @
                    [] op[h] = "unlock" -> IF @ > 0 THEN @ - 1 ELSE 0
                    [] OTHER -> @ + 1]
    /\ UNCHANGED <<mutex, slots, inited>>

LeaveRefused(h) ==
    /\ pc[h] = "leave" /\ res[h] = -1
    /\ op[h] # "unlock" /\ mine[h] # Null
    /\ word' = [word EXCEPT ![lk[h]] = 0]
    /\ IF op[h] = "trylock"
         THEN Return(h, "idle")
         ELSE pc' = [pc EXCEPT ![h] = "poll"] /\ UNCHANGED <<op, lk, res, mine>>
    /\ UNCHANGED <<mutex, slots, inited, held>>

\* show_error: scall 93 never returns
LeaveExit(h) ==
    /\ pc[h] = "leave" /\ res[h] = -1
    /\ op[h] = "unlock" \/ mine[h] = Null
    /\ word' = [word EXCEPT ![lk[h]] = 0]
    /\ pc' = [pc EXCEPT ![h] = "exited"]
    /\ UNCHANGED <<mutex, slots, inited, op, lk, res, mine, held>>

\* while(atomic_read(&reculock->counter)): the name reculock is the table,
\* so every waiter polls the counter of slot 0
Poll(h) == /\ pc[h] = "poll"
           /\ slots[0].counter = 0
           /\ pc' = [pc EXCEPT ![h] = "spin"]
           /\ op' = [op EXCEPT ![h] = "relock"]
           /\ UNCHANGED <<word, mutex, slots, inited, lk, res, mine, held>>

-----------------------------------------------------------------------------
Calls(h) == \E l \in Locks : \/ CallLock(h, l) \/ CallTrylock(h, l) \/ CallUnlock(h, l)
                             \/ CallInit(h, l) \/ CallClose(h, l)

Step(h) == \/ WordTake(h) \/ WordBusy(h) \/ Find(h)
           \/ MutexTake(h) \/ Claim(h) \/ MutexLeave(h)
           \/ Acquire(h) \/ Release(h) \/ Close(h)
           \/ LeaveDone(h) \/ LeaveRefused(h) \/ LeaveExit(h)
           \/ Poll(h)

Next == \E h \in Harts : Calls(h) \/ Step(h)

Spec == Init /\ [][Next]_vars

(***************************************************************************)
(* A hart inside a call keeps executing; a caller gives back what it took. *)
(* Slot 0 can belong to a lock that other harts take again and again, so   *)
(* the polling load needs strong fairness: it does not always fall in the  *)
(* moments in which that lock is held.  The swaps of the words are         *)
(* arbitrated by the memory system.                                        *)
(***************************************************************************)
Fairness == \A h \in Harts : /\ WF_vars(Step(h))
                             /\ SF_vars(WordTake(h)) /\ SF_vars(MutexTake(h))
                             /\ SF_vars(Poll(h))
                             /\ WF_vars(\E l \in Locks : held[l][h] > 0 /\ CallUnlock(h, l))

FairSpec == Spec /\ Fairness

-----------------------------------------------------------------------------
(***************************************************************************)
(* Properties.                                                             *)
(***************************************************************************)
\* For each lock the callers see a recursive mutex, whatever happens to the
\* table and to the other locks.
Abstract(l) == INSTANCE RecMutex WITH held <- held[l]
EachIsRecMutex ==
    /\ \A l \in Locks : Abstract(l)!Init
    /\ [][\A l \in Locks : Abstract(l)!Next \/ held'[l] = held[l]]_held

\* The table says who holds what: outside a call on it, a held lock has one
\* slot, with its owner and depth, and no slot leaks, those in use belong to
\* locks that are initialised, held, or in the middle of a call.
HeldHaveSlots == \A l \in Locks :
    word[l] = 0 =>
      \A h \in Harts : held[l][h] > 0 =>
        \E s \in Slots : /\ SlotOf(l) = {s}
                         /\ slots[s] = [lock |-> l, counter |-> held[l][h], core |-> h]
NoSlotLeaks == \A s \in Slots : slots[s].lock # NoLock =>
    LET l == slots[s].lock IN
      \/ l \in inited
      \/ word[l] # 0
      \/ \E h \in Harts : held[l][h] > 0
      \/ \E h \in Harts : lk[h] = l /\ op[h] = "close" /\ pc[h] \in {"spin", "find", "test"}
TableAgrees == HeldHaveSlots /\ NoSlotLeaks

\* As long as harts hold one lock at a time, a lock that is waited for is
\* got by some hart.
OneAtATime == \A h \in Harts, l \in Locks :
    held[l][h] > 0 /\ pc[h] # "idle" => op[h] = "unlock" /\ lk[h] = l /\ pc[h] # "exited"
SomeoneGetsIt == []OneAtATime => \A h \in Harts, l \in Locks :
    (pc[h] # "idle" /\ lk[h] = l /\ op[h] \in {"lock", "relock"})
      ~> (\E g \in Harts : held[l][g] > 0) \/ pc[h] = "exited"
=============================================================================
