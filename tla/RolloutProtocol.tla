--------------------------- MODULE RolloutProtocol ---------------------------
(***************************************************************************)
(* What anyone who watches the StatefulSet of a fleet may rely on, whoever  *)
(* writes it: the moves it makes, one at a time.  A new template either     *)
(* rolls, frozen at first and then released one ordinal at a time, or is    *)
(* started on a fleet that was stopped and has no pod left.                 *)
(***************************************************************************)
EXTENDS Integers

CONSTANTS
    Templates,
    NoTemplate,
    MaxReplicas,
    Breaking(_, _),  \* may the second template not roll over the first?
    Lossy(_, _)      \* can the second one not read what the first one left?

VARIABLES
    fleet,           \* template, partition, replicas, and whether it is being recreated
    empty            \* is there no pod left, not even a terminating one?

Init ==
    /\ fleet = [exists |-> FALSE, template |-> NoTemplate, partition |-> 0,
                replicas |-> 0, recreating |-> FALSE]
    /\ empty = TRUE

Create(t, n) ==
    /\ ~fleet.exists
    /\ fleet' = [exists |-> TRUE, template |-> t, partition |-> 0,
                 replicas |-> n, recreating |-> FALSE]

\* A template that may roll is written with every ordinal frozen.
Roll(t) ==
    /\ fleet.exists /\ ~fleet.recreating
    /\ t # fleet.template
    /\ ~Breaking(fleet.template, t) /\ ~Lossy(fleet.template, t)
    /\ fleet' = [fleet EXCEPT !.template = t, !.partition = fleet.replicas]

Release ==
    /\ fleet.exists /\ ~fleet.recreating
    /\ fleet.partition \in 1 .. fleet.replicas
    /\ fleet' = [fleet EXCEPT !.partition = fleet.partition - 1]

\* The fleet was scaled down below the ordinals that are frozen.
Clamp ==
    /\ fleet.exists /\ ~fleet.recreating
    /\ fleet.partition > fleet.replicas
    /\ fleet' = [fleet EXCEPT !.partition = fleet.replicas]

Stop ==
    /\ fleet.exists /\ fleet.replicas # 0
    /\ fleet' = [fleet EXCEPT !.replicas = 0, !.recreating = TRUE]

Start(t, n) ==
    /\ fleet.exists /\ fleet.recreating /\ fleet.replicas = 0
    /\ empty
    /\ ~Lossy(fleet.template, t)
    /\ fleet' = [fleet EXCEPT !.template = t, !.partition = 0, !.replicas = n,
                              !.recreating = FALSE]

Scale(n) ==
    /\ fleet.exists
    /\ fleet' = [fleet EXCEPT !.replicas = n]

\* Pods come and go between the writes.
Next ==
    \/ UNCHANGED fleet
    \/ /\ UNCHANGED empty
       /\ \/ Release \/ Clamp \/ Stop
          \/ \E t \in Templates : Roll(t)
          \/ \E n \in 1 .. MaxReplicas : Scale(n)
          \/ \E t \in Templates, n \in 1 .. MaxReplicas : Create(t, n) \/ Start(t, n)

Spec == Init /\ [][Next]_<<fleet, empty>>
=============================================================================
