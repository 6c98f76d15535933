--------------------------- MODULE MCFleetRollout ---------------------------
(***************************************************************************)
(* Small instances of FleetRollout for TLC: the specs a user applies.       *)
(***************************************************************************)
EXTENDS FleetRollout

Celld(minor) == [ok |-> TRUE, major |-> 0, minor |-> minor, patch |-> 0]
Tmpl(minor, config) == [image |-> Celld(minor), durability |-> "bucket", config |-> config]
AppSpec(template, strategy, replicas, autoscaling) ==
    [template |-> template, strategy |-> strategy,
     replicas |-> replicas, autoscaling |-> autoscaling]

\* Two configurations of one runtime.
A == AppSpec(Tmpl(6, 1), "Rolling", 2, FALSE)
B == AppSpec(Tmpl(6, 2), "Rolling", 2, FALSE)
TwoConfigs == {A, B}
\* The second one again, asking for Recreate.
BStop == AppSpec(Tmpl(6, 2), "Recreate", 2, FALSE)
AskRecreate == {A, B, BStop}
\* A runtime, the next one beyond a boundary of the table (which needs Recreate),
\* and a configuration change of that one.
Old == AppSpec(Tmpl(4, 1), "Rolling", 2, FALSE)
New == AppSpec(Tmpl(5, 1), "Recreate", 2, FALSE)
NewB == AppSpec(Tmpl(5, 2), "Rolling", 2, FALSE)
AcrossBoundary == {Old, New, NewB}
\* Three pods: a configuration change, a runtime beyond a boundary with and without
\* Recreate (then on a smaller fleet), and one older than v0.3's replicated log.
L == AppSpec(Tmpl(4, 1), "Rolling", 3, FALSE)
LConfig == AppSpec(Tmpl(4, 2), "Rolling", 3, FALSE)
LUp == AppSpec(Tmpl(6, 1), "Rolling", 3, FALSE)
LUpStop == AppSpec(Tmpl(6, 1), "Recreate", 2, FALSE)
LDown == AppSpec(Tmpl(2, 1), "Recreate", 3, FALSE)
ThreePods == {L, LConfig, LUp, LUpStop, LDown}
\* Autoscaled fleets.
X == AppSpec(Tmpl(6, 1), "Rolling", 2, TRUE)
Y == AppSpec(Tmpl(6, 2), "Rolling", 2, TRUE)
Autoscaled == {X, Y}
\* The second one broken, and a third without the scaler on a smaller fleet, by Recreate.
CStop == AppSpec(Tmpl(6, 3), "Recreate", 1, FALSE)
SomeBroken == {X, Y, CStop}
Broken == {Y.template}
=============================================================================
