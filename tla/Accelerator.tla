---------------------------- MODULE Accelerator ----------------------------
(***************************************************************************)
(* What kpu_run, kpu_start and kpu_run_kmodel promise (kpu.h): jobs are    *)
(* run one at a time, a job is refused only because the accelerator is     *)
(* busy with another one, and an accepted job is called back, once.        *)
(***************************************************************************)
CONSTANT Ids
VARIABLE state

Running == {i \in Ids : state[i] = "running"}

Init == state = [i \in Ids |-> "new"]

To(i, from, s) == state[i] = from /\ state' = [state EXCEPT ![i] = s]

Start(i) == Running = {} /\ To(i, "new", "running")
Refuse(i) == Running # {} /\ To(i, "new", "refused")
Finish(i) == To(i, "running", "done")

Next == \E i \in Ids : Start(i) \/ Refuse(i) \/ Finish(i)

Spec == Init /\ [][Next]_state /\ WF_state(\E i \in Ids : Finish(i))
=============================================================================
