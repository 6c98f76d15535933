----------------------------- MODULE FleetState -----------------------------
(***************************************************************************)
(* The state that the operator shares with the rest of the cluster for one  *)
(* WorkerApp, and the state of the operator's reconcile pass.  FleetOperator *)
(* and FleetCluster define the actions on it, FleetRollout composes them.   *)
(***************************************************************************)
EXTENDS CelldVersions, FiniteSets

CONSTANTS
    Specs,           \* the WorkerApp specs the user may apply
    FirstSpec,       \* the one the WorkerApp is created with
    NoTemplate,      \* an empty revision name in the StatefulSet's status
    MaxReplicas,     \* bound on replicas, hence on pod ordinals
    KedaInstalled,   \* are the keda.sh CRDs installed?
    AppLags,         \* may the informer's WorkerApp lag the API server's?
    PodsLag,         \* may the informer's pods lag the API server's?
    EditAtRest,      \* does the user only edit a fleet that is at rest?
    BadTemplates,    \* templates whose new pods never become ready
    FailuresHeal,    \* does a pod that lost its readiness regain it?
    MaxEdits,        \* bounds: edits of the spec,
    MaxDisruptions,  \*   pods failing or evicted by the cluster,
    MaxScalings,     \*   replica counts written by the HPA,
    MaxAborts        \*   passes ended by an API error or a crash

Templates == { s.template : s \in Specs }
Ordinals == 0 .. MaxReplicas - 1
Phases == {"", "Pending", "Ready", "RollingOut", "Recreating", "Degraded"}

\* What every proof and every run assumes of the constants.
ASSUME ConstantsAssumption ==
    /\ MaxReplicas \in Nat \ {0}
    /\ \A s \in Specs :
          /\ s = [template |-> s.template, strategy |-> s.strategy,
                  replicas |-> s.replicas, autoscaling |-> s.autoscaling]
          /\ IsTemplate(s.template)
          /\ s.strategy \in {"Rolling", "Recreate"}
          /\ s.replicas \in 1 .. MaxReplicas
          /\ s.autoscaling \in BOOLEAN
    /\ FirstSpec \in Specs
    /\ NoTemplate \notin Templates
    /\ KedaInstalled \in BOOLEAN /\ AppLags \in BOOLEAN /\ PodsLag \in BOOLEAN
    /\ EditAtRest \in BOOLEAN /\ FailuresHeal \in BOOLEAN
    /\ MaxEdits \in Nat /\ MaxDisruptions \in Nat /\ MaxScalings \in Nat /\ MaxAborts \in Nat

VARIABLES
    (* API objects *)
    app,         \* the WorkerApp: spec, status.phase, status.rollout.partition
    sts,         \* the StatefulSet: spec and the recreating annotation
    settling,    \* is its settle-until annotation still in the future?
    stat,        \* the StatefulSet's status
    pods,        \* pod per ordinal
    scaler,      \* the ScaledObject: its pause annotation, or its absence
    acked,       \* the ScaledObject's condition Paused=True
    hpa,         \* does an HPA target the StatefulSet?
    (* what others hold or feel *)
    ctl,         \* StatefulSet spec the StatefulSet controller works from
    restoring,   \* is the fleet-wide sum of restoring cells above zero?
    (* the operator's informer caches *)
    lister,      \* cached WorkerApp
    podLister,   \* cached pods
    (* the reconcile pass in flight *)
    pc,          \* its next call
    held,        \* the WorkerApp it works on
    seen,        \* the StatefulSet and status it read
    want,        \* the StatefulSet it is about to write, whether the write
                 \*   stamps a new settle-until, and the fleetOutcome if it lands
    (* bounds *)
    edits, disruptions, scalings, aborts

\* What a reconcile pass leaves alone unless it writes the StatefulSet.
clusterVars == <<pods, hpa, ctl, restoring, lister, podLister>>
apiVars == <<app, sts, settling, stat, pods, scaler, acked, hpa>>
passVars == <<pc, held, seen, want>>
countVars == <<edits, disruptions, scalings, aborts>>
vars == <<app, sts, settling, stat, pods, scaler, acked, hpa, ctl, restoring, lister,
          podLister, pc, held, seen, want,
          edits, disruptions, scalings, aborts>>

-----------------------------------------------------------------------------
(* Pods *)

NoPod == [rev |-> NoTemplate, st |-> "absent"]
Exists(o) == pods[o].st # "absent"
podReady(p) == p.st = "ready"
Live == { o \in Ordinals : Exists(o) }
Below(n) == { o \in Ordinals : o < n }

-----------------------------------------------------------------------------
(* The objects the operator's client serves from informer caches. *)

cachedApp == IF AppLags THEN lister ELSE app
cachedPods == IF PodsLag THEN podLister ELSE pods

-----------------------------------------------------------------------------
(* StatefulSet values.  The template-hash annotation is written together    *)
(* with the template and nowhere else, so the template stands for both.     *)

NoSts == [exists |-> FALSE, template |-> NoTemplate, partition |-> 0,
          replicas |-> 0, recreating |-> FALSE]
NoStat == [observed |-> FALSE, updateRevision |-> NoTemplate,
           currentRevision |-> NoTemplate, replicas |-> 0, ready |-> 0, updated |-> 0]

\* The part of the StatefulSet that bumps its generation.
SpecOf(s) == [exists |-> s.exists, template |-> s.template,
              partition |-> s.partition, replicas |-> s.replicas]

buildStatefulSet(spec) ==
    [exists |-> TRUE, template |-> spec.template, partition |-> 0,
     replicas |-> spec.replicas, recreating |-> FALSE]

Outcome(phase, partition) == [phase |-> phase, partition |-> partition]

NoHeld == [spec |-> FirstSpec, phase |-> "", partition |-> 0]
NoSeen == [sts |-> NoSts, stat |-> NoStat]
NoWant == [sts |-> NoSts, stamp |-> FALSE, outcome |-> Outcome("", 0)]

-----------------------------------------------------------------------------
(* Types *)

\* Nothing yet, or the pods of some ordinals.
Counts == {0} \cup { Cardinality(S) : S \in SUBSET Ordinals }

PodSet == [rev : Templates \cup {NoTemplate},
           st : {"absent", "starting", "ready", "failed", "terminating"}]
AppSet == [spec : Specs, phase : Phases, partition : 0 .. MaxReplicas]
StsSet == [exists : BOOLEAN, template : Templates \cup {NoTemplate},
           partition : 0 .. MaxReplicas, replicas : 0 .. MaxReplicas, recreating : BOOLEAN]
StatSet == [observed : BOOLEAN, updateRevision : Templates \cup {NoTemplate},
            currentRevision : Templates \cup {NoTemplate},
            replicas : Counts, ready : Counts, updated : Counts]
CtlSet == [exists : BOOLEAN, template : Templates \cup {NoTemplate},
           partition : 0 .. MaxReplicas, replicas : 0 .. MaxReplicas]
OutcomeSet == [phase : Phases, partition : 0 .. MaxReplicas]
SeenSet == [sts : StsSet, stat : StatSet]
WantSet == [sts : StsSet, stamp : BOOLEAN, outcome : OutcomeSet]

\* Every variable has its type: above all, every partition and replica count, read,
\* intended or written, stays within the fleet.
TypeOK ==
    /\ app \in AppSet /\ lister \in AppSet /\ held \in AppSet
    /\ sts \in StsSet /\ settling \in BOOLEAN
    /\ stat \in StatSet
    /\ ctl \in CtlSet
    /\ pods \in [Ordinals -> PodSet] /\ podLister \in [Ordinals -> PodSet]
    /\ restoring \in BOOLEAN
    /\ scaler \in {"none", "active", "paused"} /\ acked \in BOOLEAN /\ hpa \in BOOLEAN
    /\ pc \in {"idle", "decide", "write"}
    /\ seen \in SeenSet
    /\ want \in WantSet
    /\ edits \in Nat /\ disruptions \in Nat /\ scalings \in Nat /\ aborts \in Nat
=============================================================================
