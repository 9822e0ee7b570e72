------------------------------ MODULE RecMutex ------------------------------
(***************************************************************************)
(* What a recursive inter-hart lock promises its callers: at any time at   *)
(* most one hart has acquisitions outstanding, and that hart may nest      *)
(* them.  corelock_t (CoreLock.tla) and the newlib recursive locks         *)
(* (Reculock.tla) are both shown to implement this specification.          *)
(***************************************************************************)
EXTENDS Integers

CONSTANT Harts

VARIABLE held       \* held[h]: acquisitions of hart h not yet given back

Init == held = [h \in Harts |-> 0]

Acquire(h) == /\ \A g \in Harts \ {h} : held[g] = 0
              /\ held' = [held EXCEPT ![h] = @ + 1]

Release(h) == /\ held[h] > 0
              /\ held' = [held EXCEPT ![h] = @ - 1]

Next == \E h \in Harts : Acquire(h) \/ Release(h)

Spec == Init /\ [][Next]_held

Exclusive == \A g, h \in Harts : held[g] > 0 /\ held[h] > 0 => g = h
=============================================================================
