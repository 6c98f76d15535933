----------------------------- MODULE AtomicSweep -----------------------------
(***************************************************************************)
(* What a rollout gate may rely on when it sweeps the fleet (FleetSweep's   *)
(* promise, and the one step FleetOperator makes of it): the verdict is     *)
(* given at one moment, fails or finds the fleet restoring at will, but     *)
(* finds it warm only when no restore is left of those that were going on    *)
(* when the sweep began.                                                    *)
(***************************************************************************)
CONSTANT Pods

VARIABLES
    old,         \* pods with restores that began before the sweep
    verdict      \* none before a sweep, pending during it

Verdicts == {"failed", "restoring"} \cup (IF old = {} THEN {"warm"} ELSE {})

Init == old = {} /\ verdict = "none"

Begin == verdict = "none" /\ verdict' = "pending" /\ old' \in SUBSET Pods
Finish == old' \in SUBSET old /\ UNCHANGED verdict
Judge == verdict = "pending" /\ verdict' \in Verdicts /\ UNCHANGED old
Forget == verdict \notin {"none", "pending"} /\ verdict' = "none" /\ old' = {}

Next == Begin \/ Finish \/ Judge \/ Forget

Spec == Init /\ [][Next]_<<old, verdict>>
=============================================================================
