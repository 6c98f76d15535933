------------------------- MODULE FleetRolloutProofs -------------------------
(***************************************************************************)
(* Proofs about FleetRollout, for any set of specs, any number of replicas, *)
(* any lag of the caches and any number of edits, disruptions, scalings and *)
(* aborted passes: types, the moves of the operator and safe writes.        *)
(***************************************************************************)
EXTENDS FleetRollout, TLAPS

\* Zenon proves a leaf unless it names another prover.
USE Zenon

-----------------------------------------------------------------------------
(* Types *)

LEMMA SpecFields ==
    ASSUME NEW s \in Specs
    PROVE  /\ s.template \in Templates
           /\ IsTemplate(s.template)
           /\ s.replicas \in 1 .. MaxReplicas
           /\ s.autoscaling \in BOOLEAN
BY ConstantsAssumption DEF Templates

LEMMA ConstantTypes ==
    /\ NoHeld \in AppSet
    /\ NoSts \in StsSet
    /\ NoStat \in StatSet
    /\ NoSeen \in SeenSet
    /\ NoWant \in WantSet
    /\ NoPod \in PodSet
<1>1. NoHeld \in AppSet
  BY ConstantsAssumption, SMT DEF NoHeld, AppSet, Phases
<1>2. NoSts \in StsSet
  BY ConstantsAssumption, SMT DEF NoSts, StsSet
<1>3. NoStat \in StatSet
  BY DEF NoStat, StatSet, Counts
<1>4. NoSeen \in SeenSet
  BY <1>2, <1>3 DEF NoSeen, SeenSet
<1>5. Outcome("", 0) \in OutcomeSet
  BY ConstantsAssumption, SMT DEF Outcome, OutcomeSet, Phases
<1>6. NoWant \in WantSet
  BY <1>2, <1>5 DEF NoWant, WantSet
<1>7. NoPod \in PodSet
  BY DEF NoPod, PodSet
<1> QED
  BY <1>1, <1>2, <1>3, <1>4, <1>6, <1>7

LEMMA SpecOfType ==
    ASSUME NEW s \in StsSet
    PROVE  SpecOf(s) \in CtlSet
BY DEF SpecOf, StsSet, CtlSet

LEMMA StsUpdateType ==
    ASSUME NEW s \in StsSet, NEW t \in Templates, NEW b \in BOOLEAN,
           NEW r \in 0 .. MaxReplicas, NEW n \in 0 .. MaxReplicas
    PROVE  /\ [s EXCEPT !.replicas = r, !.recreating = b] \in StsSet
           /\ [s EXCEPT !.template = t, !.recreating = b, !.replicas = r, !.partition = n]
                 \in StsSet
BY DEF StsSet

\* What the last calls of a pass, and an intended write, leave behind.
PassTyped ==
    /\ app \in AppSet /\ held \in AppSet
    /\ scaler \in {"none", "active", "paused"} /\ acked \in BOOLEAN
    /\ pc \in {"idle", "decide", "write"}
    /\ seen \in SeenSet /\ want \in WantSet
    /\ aborts \in Nat

LEMMA EndPassType ==
    ASSUME TypeOK, NEW o \in OutcomeSet, EndPass(o)
    PROVE  PassTyped'
<1>1. pc' = "idle" /\ held' \in AppSet /\ seen' \in SeenSet /\ want' \in WantSet
  BY ConstantTypes DEF EndPass, DropPass
<1>2. app' \in AppSet
  BY DEF EndPass, updateStatus, TypeOK, AppSet, OutcomeSet
<1>3. scaler' \in {"none", "active", "paused"} /\ acked' \in BOOLEAN
  BY DEF EndPass, ensureScaledObject, TypeOK
<1>4. aborts' \in Nat
  BY SMT DEF EndPass, TypeOK
<1> QED
  BY <1>1, <1>2, <1>3, <1>4 DEF PassTyped

LEMMA IntendType ==
    ASSUME TypeOK, NEW s \in StsSet, NEW stamp \in BOOLEAN, NEW o \in OutcomeSet,
           Intend(s, stamp, o)
    PROVE  PassTyped'
BY DEF Intend, TypeOK, PassTyped, WantSet

\* What no step of a pass before its write touches.
ClusterTyped ==
    /\ lister \in AppSet /\ sts \in StsSet /\ settling \in BOOLEAN /\ stat \in StatSet
    /\ ctl \in CtlSet
    /\ pods \in [Ordinals -> PodSet] /\ podLister \in [Ordinals -> PodSet]
    /\ restoring \in BOOLEAN /\ hpa \in BOOLEAN
    /\ edits \in Nat /\ disruptions \in Nat /\ scalings \in Nat

LEMMA TypeOKSplits == TypeOK <=> PassTyped /\ ClusterTyped
BY DEF TypeOK, PassTyped, ClusterTyped

LEMMA TypeOKSplitsNext == TypeOK' <=> PassTyped' /\ ClusterTyped'
BY DEF TypeOK, PassTyped, ClusterTyped

\* Every branch of reconcileFleet ends the pass with an outcome or intends a write,
\* both of them typed.
LEMMA DecideFleetType ==
    ASSUME TypeOK, DecideFleet
    PROVE  TypeOK'
<1>1. ClusterTyped'
  BY DEF DecideFleet, Deciding, clusterVars, TypeOK, ClusterTyped
<1> SUFFICES PassTyped'
  BY <1>1, TypeOKSplitsNext
<1>2. /\ live \in StsSet
      /\ live.partition \in 0 .. MaxReplicas /\ live.replicas \in 0 .. MaxReplicas
      /\ live.template \in Templates \cup {NoTemplate}
      /\ MaxReplicas \in Nat
  BY ConstantsAssumption DEF TypeOK, SeenSet, StsSet, live
<1>3. held.spec \in Specs
  BY DEF TypeOK, AppSet
<1>4. desiredReplicas \in 0 .. MaxReplicas /\ held.spec.template \in Templates
  BY <1>2, <1>3, SpecFields, SMT DEF desiredReplicas
<1>5. \A ph \in Phases : \A n \in 0 .. MaxReplicas : Outcome(ph, n) \in OutcomeSet
  BY DEF Outcome, OutcomeSet
<1>6. {"Pending", "Ready", "RollingOut", "Recreating", "Degraded"} \subseteq Phases
      /\ 0 \in 0 .. MaxReplicas
  BY <1>2, SMT DEF Phases
<1>7. CASE Refuse
  BY <1>7, <1>5, <1>6, EndPassType DEF Refuse
<1>8. CASE StopFleet
  <2>1. [live EXCEPT !.replicas = 0, !.recreating = TRUE] \in StsSet
    BY <1>2, <1>4, <1>6, StsUpdateType
  <2> QED
    BY <1>8, <2>1, <1>5, <1>6, IntendType DEF StopFleet
<1>9. CASE AwaitStop
  BY <1>9, <1>5, <1>6, EndPassType DEF AwaitStop
<1>10. CASE StartFleet
  <2>1. [live EXCEPT !.template = held.spec.template, !.recreating = FALSE,
                     !.replicas = desiredReplicas, !.partition = 0] \in StsSet
    BY <1>2, <1>4, <1>6, StsUpdateType
  <2> QED
    BY <1>10, <2>1, <1>5, <1>6, IntendType DEF StartFleet
<1>11. CASE StartRollout
  <2>1. [live EXCEPT !.template = held.spec.template, !.partition = live.replicas] \in StsSet
    BY <1>2, <1>4 DEF StsSet
  <2> QED
    BY <1>11, <2>1, <1>2, <1>5, <1>6, IntendType DEF StartRollout
<1>12. CASE ClampPartition
  <2>1. [live EXCEPT !.partition = live.replicas] \in StsSet
    BY <1>2 DEF StsSet
  <2> QED
    BY <1>12, <2>1, <1>2, <1>5, <1>6, IntendType DEF ClampPartition
<1>13. CASE AwaitGates
  BY <1>13, <1>2, <1>5, <1>6, EndPassType DEF AwaitGates
<1>14. CASE ReleaseNext
  <2>1. live.partition - 1 \in 0 .. MaxReplicas
    BY <1>14, <1>2, SMT DEF ReleaseNext, inRollout
  <2>2. [live EXCEPT !.partition = live.partition - 1] \in StsSet
    BY <2>1, <1>2 DEF StsSet
  <2> QED
    BY <1>14, <2>1, <2>2, <1>5, <1>6, IntendType DEF ReleaseNext
<1>15. CASE ScaleFleet
  <2>1. [live EXCEPT !.replicas = desiredReplicas] \in StsSet
    BY <1>2, <1>4 DEF StsSet
  <2> QED
    BY <1>15, <2>1, <1>5, <1>6, IntendType DEF ScaleFleet
<1>16. CASE AwaitConvergence
  BY <1>16, <1>5, <1>6, EndPassType DEF AwaitConvergence
<1>17. CASE ReportReady
  BY <1>17, <1>5, <1>6, EndPassType DEF ReportReady
<1> QED
  BY <1>7, <1>8, <1>9, <1>10, <1>11, <1>12, <1>13, <1>14, <1>15, <1>16, <1>17
     DEF DecideFleet

LEMMA CreateFleetType ==
    ASSUME TypeOK, CreateFleet
    PROVE  TypeOK'
<1>1. held.spec \in Specs /\ MaxReplicas \in Nat
  BY ConstantsAssumption DEF TypeOK, AppSet
<1>2. sts' \in StsSet
  BY <1>1, SpecFields, SMT DEF CreateFleet, buildStatefulSet, StsSet
<1>3. ClusterTyped'
  BY <1>2 DEF CreateFleet, clusterVars, TypeOK, ClusterTyped
<1>4. Outcome("Pending", 0) \in OutcomeSet
  BY <1>1, SMT DEF Outcome, OutcomeSet, Phases
<1> QED
  BY <1>3, <1>4, EndPassType, TypeOKSplitsNext DEF CreateFleet

LEMMA AwaitPauseType ==
    ASSUME TypeOK, AwaitPause
    PROVE  TypeOK'
<1>1. ClusterTyped'
  BY DEF AwaitPause, clusterVars, TypeOK, ClusterTyped
<1>2. Outcome("RollingOut", 0) \in OutcomeSet
  BY ConstantsAssumption, SMT DEF Outcome, OutcomeSet, Phases
<1> QED
  BY <1>1, <1>2, EndPassType, TypeOKSplitsNext DEF AwaitPause

LEMMA updateFleetType ==
    ASSUME TypeOK, updateFleet
    PROVE  TypeOK'
<1>1. want.sts \in StsSet /\ want.outcome \in OutcomeSet /\ want.stamp \in BOOLEAN
  BY DEF TypeOK, WantSet
<1>2. conflictOutcome \in OutcomeSet
  <2>1. held.phase \in Phases /\ "Pending" \in Phases
    BY DEF TypeOK, AppSet, Phases
  <2>2. (IF held.phase = "" THEN "Pending" ELSE held.phase) \in Phases
    BY <2>1
  <2>3. \A ph \in Phases : Outcome(ph, 0) \in OutcomeSet
    BY ConstantsAssumption, SMT DEF Outcome, OutcomeSet
  <2> QED
    BY <2>2, <2>3 DEF conflictOutcome
<1>3. PassTyped'
  BY <1>1, <1>2, EndPassType DEF updateFleet
<1>4. stat' \in StatSet
  BY DEF updateFleet, TypeOK, StatSet
<1>5. ClusterTyped'
  BY <1>1, <1>4 DEF updateFleet, clusterVars, TypeOK, ClusterTyped
<1> QED
  BY <1>3, <1>5, TypeOKSplitsNext

LEMMA OperatorType ==
    ASSUME TypeOK, Operator
    PROVE  TypeOK'
<1>1. CASE BeginPass
  <2>1. cachedApp \in AppSet
    BY DEF cachedApp, TypeOK
  <2> QED
    BY <1>1, <2>1 DEF BeginPass, apiVars, countVars, TypeOK, SeenSet
<1>2. CASE AbortPass
  BY <1>2, ConstantTypes, SMT DEF AbortPass, DropPass, apiVars, TypeOK
<1> QED
  BY <1>1, <1>2, CreateFleetType, AwaitPauseType, DecideFleetType, updateFleetType
     DEF Operator

LEMMA InformersType ==
    ASSUME TypeOK, Informers
    PROVE  TypeOK'
<1>1. CASE SyncApp
  BY <1>1 DEF SyncApp, apiVars, passVars, countVars, TypeOK
<1>2. CASE SettleElapses
  BY <1>2 DEF SettleElapses, passVars, countVars, TypeOK
<1>3. ASSUME NEW o \in Ordinals, SyncPod(o)
      PROVE  TypeOK'
  BY <1>3 DEF SyncPod, apiVars, passVars, countVars, TypeOK
<1> QED
  BY <1>1, <1>2, <1>3 DEF Informers

LEMMA currentRevisionType ==
    ASSUME TypeOK
    PROVE  currentRevision \in Templates \cup {NoTemplate}
BY DEF currentRevision, TypeOK, StatSet, CtlSet

LEMMA CtlStatusType ==
    ASSUME TypeOK, CtlStatus
    PROVE  TypeOK'
<1>1. Live \subseteq Ordinals /\ updatedPods \subseteq Ordinals /\ readyPods \subseteq Ordinals
  BY DEF Live, updatedPods, readyPods
<1>2. count(Live) \in Counts /\ count(updatedPods) \in Counts /\ count(readyPods) \in Counts
  BY <1>1 DEF count, Counts
<1>3. (ctl = SpecOf(sts)) \in BOOLEAN /\ ctl.template \in Templates \cup {NoTemplate}
  BY DEF TypeOK, CtlSet
<1>4. stat' \in StatSet
  BY <1>2, <1>3, currentRevisionType DEF CtlStatus, StatSet
<1> QED
  BY <1>4 DEF CtlStatus, passVars, countVars, TypeOK

LEMMA TerminateType ==
    ASSUME TypeOK, NEW o \in Ordinals, Terminate(o)
    PROVE  pods' \in [Ordinals -> PodSet] /\ restoring' \in BOOLEAN
BY DEF Terminate, TypeOK, PodSet

LEMMA StatefulSetControllerType ==
    ASSUME TypeOK, StatefulSetController
    PROVE  TypeOK'
<1>1. CASE CtlFetch
  BY <1>1, SpecOfType DEF CtlFetch, apiVars, passVars, countVars, TypeOK
<1>2. ASSUME NEW o \in Ordinals, CtlCreate(o)
      PROVE  TypeOK'
  <2>1. ctl.template \in Templates \cup {NoTemplate}
    BY DEF TypeOK, CtlSet
  <2>2. pods' \in [Ordinals -> PodSet]
    BY <1>2, <2>1, currentRevisionType DEF CtlCreate, PodSet, TypeOK
  <2> QED
    BY <1>2, <2>2 DEF CtlCreate, passVars, countVars, TypeOK
<1>3. ASSUME NEW o \in Ordinals, CtlScaleDown(o)
      PROVE  TypeOK'
  BY <1>3, TerminateType DEF CtlScaleDown, passVars, countVars, TypeOK
<1>4. ASSUME NEW o \in Ordinals, CtlUpdate(o)
      PROVE  TypeOK'
  BY <1>4, TerminateType DEF CtlUpdate, passVars, countVars, TypeOK
<1> QED
  BY <1>1, <1>2, <1>3, <1>4, CtlStatusType DEF StatefulSetController

LEMMA KubeletsType ==
    ASSUME TypeOK, Kubelets
    PROVE  TypeOK'
<1>1. CASE Rewarm
  BY <1>1 DEF Rewarm, apiVars, passVars, countVars, TypeOK
<1>2. ASSUME NEW o \in Ordinals, PodBecomesReady(o)
      PROVE  TypeOK'
  <2>1. pods' \in [Ordinals -> PodSet]
    BY <1>2 DEF PodBecomesReady, PodSet, TypeOK
  <2> QED
    BY <1>2, <2>1 DEF PodBecomesReady, passVars, countVars, TypeOK
<1>3. ASSUME NEW o \in Ordinals, PodGone(o)
      PROVE  TypeOK'
  BY <1>3, ConstantTypes DEF PodGone, passVars, countVars, TypeOK
<1>4. ASSUME NEW o \in Ordinals, DisruptPod(o)
      PROVE  TypeOK'
  <2>1. pods' \in [Ordinals -> PodSet] /\ restoring' \in BOOLEAN
    BY <1>4, TerminateType, ZenonT(30) DEF DisruptPod, PodSet, TypeOK
  <2> QED
    BY <1>4, <2>1, SMT DEF DisruptPod, passVars, TypeOK
<1> QED
  BY <1>1, <1>2, <1>3, <1>4 DEF Kubelets

LEMMA KedaType ==
    ASSUME TypeOK, Keda
    PROVE  TypeOK'
<1>1. CASE KedaRemovesHpa
  BY <1>1 DEF KedaRemovesHpa, passVars, countVars, TypeOK
<1>2. CASE KedaAcknowledges
  BY <1>2 DEF KedaAcknowledges, passVars, countVars, TypeOK
<1>3. CASE KedaResumes
  BY <1>3 DEF KedaResumes, passVars, countVars, TypeOK
<1>4. ASSUME NEW n \in 1 .. MaxReplicas, HpaScales(n)
      PROVE  TypeOK'
  <2>1. sts' \in StsSet
    BY <1>4, ConstantsAssumption, SMT DEF HpaScales, TypeOK, StsSet
  <2>2. stat' \in StatSet
    BY <1>4 DEF HpaScales, TypeOK, StatSet
  <2> QED
    BY <1>4, <2>1, <2>2, SMT DEF HpaScales, passVars, TypeOK
<1> QED
  BY <1>1, <1>2, <1>3, <1>4 DEF Keda

LEMMA EditSpecType ==
    ASSUME TypeOK, NEW s \in Specs, EditSpec(s)
    PROVE  TypeOK'
<1>1. app' \in AppSet
  BY DEF EditSpec, TypeOK, AppSet
<1> QED
  BY <1>1, SMT DEF EditSpec, passVars, TypeOK

LEMMA TypeInit == Init => TypeOK
<1>1. [o \in Ordinals |-> NoPod] \in [Ordinals -> PodSet]
  BY ConstantTypes
<1>2. SpecOf(NoSts) \in CtlSet
  BY ConstantTypes, SpecOfType
<1> SUFFICES ASSUME Init PROVE TypeOK
  OBVIOUS
<1>3. PassTyped
  BY ConstantTypes DEF Init, PassTyped
<1>4. ClusterTyped
  BY <1>1, <1>2, ConstantTypes DEF Init, ClusterTyped
<1> QED
  BY <1>3, <1>4, TypeOKSplits

LEMMA TypeStep == TypeOK /\ [Next]_vars => TypeOK'
<1> SUFFICES ASSUME TypeOK, [Next]_vars PROVE TypeOK'
  OBVIOUS
<1>1. CASE UNCHANGED vars
  BY <1>1 DEF vars, TypeOK
<1>2. CASE Next
  BY <1>2, OperatorType, InformersType, StatefulSetControllerType, KubeletsType, KedaType,
     EditSpecType DEF Next
<1> QED
  BY <1>1, <1>2

\* Every partition and replica count the operator reads, intends or writes lies
\* within the fleet, and every revision is a template of some spec.
THEOREM TypeCorrect == Spec => []TypeOK
BY TypeInit, TypeStep, PTL DEF Spec

-----------------------------------------------------------------------------
(* The six writes of reconcileFleet, from f to s for the spec w *)

LEMMA FieldTypes ==
    ASSUME TypeOK
    PROVE  /\ sts \in StsSet /\ seen.sts \in StsSet /\ want.sts \in StsSet
           /\ seen.stat \in StatSet /\ stat \in StatSet
           /\ held.spec \in Specs
           /\ held.spec.template \in Templates /\ held.spec.template # NoTemplate
<1>1. held.spec \in Specs
  BY DEF TypeOK, AppSet
<1> QED
  BY <1>1, SpecFields, ConstantsAssumption DEF TypeOK, SeenSet, WantSet

StopsTo(f, s) ==
    /\ f.replicas # 0
    /\ s.template = f.template /\ s.partition = f.partition
    /\ s.replicas = 0 /\ s.recreating

StartsTo(f, s, w) ==
    /\ f.replicas = 0
    /\ s.template = w.template /\ s.partition = 0
    /\ s.replicas = w.replicas /\ ~s.recreating

RollsTo(f, s, w) ==
    /\ ~f.recreating /\ f.template # w.template /\ ~fleetBreaking(f.template, w.template)
    /\ s.template = w.template /\ s.partition = f.replicas
    /\ s.replicas = f.replicas /\ ~s.recreating

ClampsTo(f, s) ==
    /\ ~f.recreating /\ f.partition > f.replicas
    /\ s.template = f.template /\ s.partition = f.replicas
    /\ s.replicas = f.replicas /\ ~s.recreating

ReleasesTo(f, s) ==
    /\ ~f.recreating /\ f.partition > 0 /\ f.partition <= f.replicas
    /\ s.template = f.template /\ s.partition = f.partition - 1
    /\ s.replicas = f.replicas /\ ~s.recreating

ScalesTo(f, s, w) ==
    /\ ~f.recreating /\ f.partition = 0 /\ f.replicas # w.replicas
    /\ s.template = f.template /\ s.partition = 0
    /\ s.replicas = w.replicas /\ ~s.recreating

Moves(f, s, w) ==
    /\ f.exists /\ s.exists
    /\ ~LossyDowngrade(f.template.image, w.template.image)
    /\ \/ StopsTo(f, s) \/ StartsTo(f, s, w) \/ RollsTo(f, s, w)
       \/ ClampsTo(f, s) \/ ReleasesTo(f, s) \/ ScalesTo(f, s, w)

\* The write s that a pass decides on, and what it has checked for it.
Decided(s) ==
    /\ s \in StsSet
    /\ Moves(live, s, held.spec)
    /\ \/ StopsTo(live, s)
       \/ StartsTo(live, s, held.spec) /\ Stopped
       \/ RollsTo(live, s, held.spec)
       \/ ClampsTo(live, s)
       \/ ReleasesTo(live, s) /\ gatesPass
       \/ ScalesTo(live, s, held.spec)

\* A decision of reconcileFleet is the outcome of the pass or one of these writes.
LEMMA Decisions ==
    ASSUME TypeOK, DecideFleet
    PROVE  \/ \E o : EndPass(o) /\ (o.phase = "Ready" => ReportReady)
           \/ \E s, stamp, o : Intend(s, stamp, o) /\ o.phase # "Ready" /\ Decided(s)
<1>1. live \in StsSet /\ live.exists /\ held.spec \in Specs
  BY FieldTypes DEF DecideFleet, Deciding, live
<1>2. /\ live.template \in Templates \cup {NoTemplate} /\ live.exists \in BOOLEAN
      /\ live.partition \in 0 .. MaxReplicas /\ live.replicas \in 0 .. MaxReplicas
      /\ live.recreating \in BOOLEAN /\ MaxReplicas \in Nat
      /\ held.spec.template \in Templates
      /\ held.spec.replicas \in 0 .. MaxReplicas /\ 0 \in 0 .. MaxReplicas
  BY <1>1, SpecFields, ConstantsAssumption, SMT DEF StsSet
<1>3. \A ph, n : Outcome(ph, n).phase = ph
  BY DEF Outcome
<1>4. CASE Refuse \/ AwaitStop \/ AwaitGates \/ AwaitConvergence \/ ReportReady
  <2>1. \E ph, n : EndPass(Outcome(ph, n)) /\ (ph = "Ready" => ReportReady)
    BY <1>4, SMT DEF Refuse, AwaitStop, AwaitGates, AwaitConvergence, ReportReady
  <2> QED
    BY <1>3, <2>1
<1>5. ASSUME ~refused
      PROVE  ~LossyDowngrade(live.template.image, held.spec.template.image)
  BY <1>5 DEF refused, runtimeChangeRefused, LossyDowngrade
<1> DEFINE Goal == \E s, stamp, o : Intend(s, stamp, o) /\ o.phase # "Ready" /\ Decided(s)
<1>w. ASSUME NEW s, NEW stamp, NEW ph, NEW n,
              Intend(s, stamp, Outcome(ph, n)), ph # "Ready", Decided(s)
       PROVE  Goal
  BY <1>3, <1>w
<1> HIDE DEF Goal
<1>6. CASE StopFleet
  <2> DEFINE s == [live EXCEPT !.replicas = 0, !.recreating = TRUE]
  <2>0. s \in StsSet
    BY <1>1, <1>2, StsUpdateType
  <2>1. /\ s.exists = live.exists /\ s.template = live.template
        /\ s.partition = live.partition /\ s.replicas = 0 /\ s.recreating
    BY <1>1 DEF StsSet
  <2>2. Intend(s, FALSE, Outcome("Recreating", 0)) /\ ~refused /\ live.replicas # 0
    BY <1>6 DEF StopFleet, inRecreate
  <2> HIDE DEF s
  <2>3. Decided(s)
    BY <1>1, <1>5, <2>0, <2>1, <2>2 DEF Decided, Moves, StopsTo
  <2> QED
    BY <1>w, <2>2, <2>3 DEF Goal
<1>7. CASE StartFleet
  <2> DEFINE s == [live EXCEPT !.template = held.spec.template, !.recreating = FALSE,
                               !.replicas = desiredReplicas, !.partition = 0]
  <2>0. s \in StsSet
    BY <1>1, <1>2, StsUpdateType DEF desiredReplicas
  <2>1. /\ s.exists = live.exists /\ s.template = held.spec.template
        /\ s.partition = 0 /\ s.replicas = held.spec.replicas /\ ~s.recreating
    BY <1>1 DEF StsSet, desiredReplicas
  <2>2. /\ Intend(s, FALSE, Outcome("Recreating", 0)) /\ ~refused
        /\ live.replicas = 0 /\ Stopped
    BY <1>7 DEF StartFleet, inRecreate
  <2> HIDE DEF s
  <2>3. Decided(s)
    BY <1>1, <1>5, <2>0, <2>1, <2>2 DEF Decided, Moves, StartsTo
  <2> QED
    BY <1>w, <2>2, <2>3 DEF Goal
<1>8. CASE StartRollout
  <2> DEFINE s == [live EXCEPT !.template = held.spec.template, !.partition = live.replicas]
  <2>1. /\ s \in StsSet /\ s.exists = live.exists /\ s.template = held.spec.template
        /\ s.partition = live.replicas /\ s.replicas = live.replicas
        /\ s.recreating = live.recreating
    BY <1>1, <1>2 DEF StsSet
  <2>2. /\ Intend(s, TRUE, Outcome("RollingOut", live.replicas)) /\ ~refused
        /\ ~live.recreating /\ live.template # held.spec.template
        /\ ~fleetBreaking(live.template, held.spec.template)
    BY <1>8 DEF StartRollout, refuseChange, inRecreate, liveFleetBreaking, templateChanged
  <2> HIDE DEF s
  <2>3. Decided(s)
    BY <1>1, <1>5, <2>1, <2>2 DEF Decided, Moves, RollsTo
  <2> QED
    BY <1>w, <2>2, <2>3 DEF Goal
<1>9. ASSUME NEW n \in 0 .. MaxReplicas
      PROVE  LET s == [live EXCEPT !.partition = n]
             IN  /\ s \in StsSet /\ s.exists = live.exists /\ s.template = live.template
                 /\ s.partition = n /\ s.replicas = live.replicas
                 /\ s.recreating = live.recreating
  BY <1>1, <1>2 DEF StsSet
<1>10. CASE ClampPartition
  <2> DEFINE s == [live EXCEPT !.partition = live.replicas]
  <2>1. /\ s \in StsSet /\ s.exists = live.exists /\ s.template = live.template
        /\ s.partition = live.replicas /\ s.replicas = live.replicas
        /\ s.recreating = live.recreating
    BY <1>2, <1>9
  <2>2. /\ Intend(s, FALSE, Outcome("RollingOut", live.replicas)) /\ ~refused
        /\ ~live.recreating /\ live.partition > live.replicas
    BY <1>10 DEF ClampPartition, inRollout, refuseChange, inRecreate
  <2> HIDE DEF s
  <2>3. Decided(s)
    BY <1>1, <1>5, <2>1, <2>2 DEF Decided, Moves, ClampsTo
  <2> QED
    BY <1>w, <2>2, <2>3 DEF Goal
<1>11. CASE ReleaseNext
  <2> DEFINE s == [live EXCEPT !.partition = live.partition - 1]
  <2>1. /\ ~refused /\ ~live.recreating /\ live.partition > 0
        /\ live.partition <= live.replicas /\ gatesPass
    BY <1>11 DEF ReleaseNext, inRollout, refuseChange, inRecreate
  <2>2. live.partition - 1 \in 0 .. MaxReplicas
    BY <2>1, <1>2, SMT
  <2>3. /\ s \in StsSet /\ s.exists = live.exists /\ s.template = live.template
        /\ s.partition = live.partition - 1 /\ s.replicas = live.replicas
        /\ s.recreating = live.recreating
    BY <2>2, <1>9
  <2>4. Intend(s, TRUE, Outcome("RollingOut", live.partition - 1))
    BY <1>11 DEF ReleaseNext
  <2> HIDE DEF s
  <2>5. Decided(s)
    BY <1>1, <1>5, <2>1, <2>3 DEF Decided, Moves, ReleasesTo
  <2> QED
    BY <1>w, <2>4, <2>5 DEF Goal
<1>12. CASE ScaleFleet
  <2> DEFINE s == [live EXCEPT !.replicas = desiredReplicas]
  <2>0. s \in StsSet
    BY <1>1, <1>2 DEF StsSet, desiredReplicas
  <2>1. /\ s.exists = live.exists /\ s.template = live.template
        /\ s.partition = live.partition /\ s.replicas = held.spec.replicas
        /\ s.recreating = live.recreating
    BY <1>1 DEF StsSet, desiredReplicas
  <2>2. /\ Intend(s, FALSE, Outcome("Pending", 0)) /\ ~refused
        /\ ~live.recreating /\ live.partition = 0 /\ live.replicas # held.spec.replicas
    BY <1>12
       DEF ScaleFleet, inSteady, refuseChange, inRecreate, mustScale, desiredReplicas
  <2> HIDE DEF s
  <2>3. Decided(s)
    BY <1>1, <1>5, <2>0, <2>1, <2>2 DEF Decided, Moves, ScalesTo
  <2> QED
    BY <1>w, <2>2, <2>3 DEF Goal
<1> QED
  BY <1>4, <1>6, <1>7, <1>8, <1>10, <1>11, <1>12 DEF DecideFleet, Goal

Running(s) == s.exists /\ ~s.recreating

\* A fleet of no replicas is one that a Recreate stopped, so a write that starts a fleet
\* is never computed from a running one; and the write of a pass stays the move that the
\* pass decided on.
MoveInv ==
    /\ Running(sts) => sts.replicas # 0
    /\ pc # "idle" => (Running(seen.sts) => seen.sts.replicas # 0)
    /\ pc = "write" => Moves(seen.sts, want.sts, held.spec)

LEMMA ElsewhereMoveInv ==
    ASSUME MoveInv, UNCHANGED <<sts, pc, held, seen, want>>
    PROVE  MoveInv'
BY DEF MoveInv, Running

LEMMA EndPassMoveInv ==
    ASSUME NEW o, EndPass(o), Running(sts') => sts'.replicas # 0
    PROVE  MoveInv'
BY DEF MoveInv, EndPass, DropPass, Running

LEMMA DecideFleetMoveInv ==
    ASSUME TypeOK, MoveInv, DecideFleet
    PROVE  MoveInv'
<1>1. pc = "decide" /\ UNCHANGED sts /\ live = seen.sts
  BY DEF DecideFleet, Deciding, live
<1>2. CASE \E o : EndPass(o)
  BY <1>1, <1>2, EndPassMoveInv DEF MoveInv, Running
<1>3. ASSUME NEW s, NEW stamp, NEW o, Intend(s, stamp, o), Decided(s)
      PROVE  MoveInv'
  <2>1. Moves(seen.sts, s, held.spec)
    BY <1>1, <1>3 DEF Decided
  <2>2. pc' = "write" /\ seen' = seen /\ held' = held /\ want'.sts = s
    BY <1>3 DEF Intend
  <2> QED
    BY <1>1, <2>1, <2>2 DEF MoveInv, Running
<1> QED
  BY <1>2, <1>3, Decisions

LEMMA OperatorMoveInv ==
    ASSUME TypeOK, MoveInv, Operator
    PROVE  MoveInv'
<1>1. CASE BeginPass
  BY <1>1 DEF BeginPass, apiVars, MoveInv, Running
<1>2. CASE CreateFleet
  <2>1. sts'.replicas # 0
    BY <1>2, FieldTypes, SpecFields, ConstantsAssumption, SMT DEF CreateFleet, buildStatefulSet
  <2> QED
    BY <1>2, <2>1, EndPassMoveInv DEF CreateFleet
<1>3. CASE AwaitPause
  BY <1>3, EndPassMoveInv DEF AwaitPause, MoveInv, Running
<1>4. CASE updateFleet
  <2>1. CASE sts' = want.sts
    <3>1. held.spec.replicas # 0
      BY FieldTypes, SpecFields, ConstantsAssumption, SMT
    <3>2. Moves(seen.sts, want.sts, held.spec) /\ (Running(seen.sts) => seen.sts.replicas # 0)
      BY <1>4 DEF updateFleet, MoveInv
    <3>3. Running(want.sts) => want.sts.replicas # 0
      BY <3>1, <3>2 DEF Moves, Running, StopsTo, StartsTo, RollsTo, ClampsTo, ReleasesTo, ScalesTo
    <3> QED
      BY <1>4, <2>1, <3>3, EndPassMoveInv DEF updateFleet, Running
  <2>2. CASE sts' = sts
    BY <1>4, <2>2, EndPassMoveInv DEF updateFleet, MoveInv, Running
  <2> QED
    BY <1>4, <2>1, <2>2 DEF updateFleet
<1>5. CASE AbortPass
  BY <1>5 DEF AbortPass, DropPass, apiVars, MoveInv, Running
<1> QED
  BY <1>1, <1>2, <1>3, <1>4, <1>5, DecideFleetMoveInv DEF Operator

\* The HPA never scales to zero.
LEMMA KedaMoveInv ==
    ASSUME TypeOK, MoveInv, Keda
    PROVE  MoveInv'
<1>1. CASE KedaRemovesHpa \/ KedaAcknowledges \/ KedaResumes
  BY <1>1, ElsewhereMoveInv DEF KedaRemovesHpa, KedaAcknowledges, KedaResumes, passVars
<1>2. ASSUME NEW n \in 1 .. MaxReplicas, HpaScales(n)
      PROVE  MoveInv'
  <2>1. UNCHANGED <<pc, held, seen, want>> /\ sts'.replicas = n
    BY <1>2, FieldTypes DEF HpaScales, passVars, StsSet
  <2>2. n # 0
    BY ConstantsAssumption, SMT
  <2> QED
    BY <2>1, <2>2 DEF MoveInv, Running
<1> QED
  BY <1>1, <1>2 DEF Keda

LEMMA MoveInvInit == Init => MoveInv
BY SMT DEF Init, MoveInv, Running, NoSts

LEMMA MoveInvStep == TypeOK /\ MoveInv /\ [Next]_vars => MoveInv'
<1> SUFFICES ASSUME TypeOK, MoveInv, [Next]_vars PROVE MoveInv'
  OBVIOUS
<1>1. CASE UNCHANGED vars
  BY <1>1, ElsewhereMoveInv DEF vars
<1>2. CASE Informers \/ StatefulSetController \/ Kubelets \/ \E s \in Specs : EditSpec(s)
  <2>1. UNCHANGED <<sts, pc, held, seen, want>>
    BY <1>2 DEF Informers, SyncApp, SyncPod, SettleElapses, StatefulSetController, CtlFetch,
       CtlStatus, CtlCreate, CtlScaleDown, CtlUpdate, Kubelets, Rewarm, PodBecomesReady,
       PodGone, DisruptPod, EditSpec, apiVars, passVars
  <2> QED
    BY <2>1, ElsewhereMoveInv
<1> QED
  BY <1>1, <1>2, OperatorMoveInv, KedaMoveInv DEF Next

\* What a pass is about to write is one of reconcileFleet's six moves from the
\* StatefulSet it has read, and a fleet that is not being recreated has replicas.
THEOREM MoveInvHolds == Spec => []MoveInv
BY TypeInit, TypeStep, MoveInvInit, MoveInvStep, PTL DEF Spec

-----------------------------------------------------------------------------
(* What the steps of the others do to the pods *)

LEMMA PodsKeepRevision ==
    ASSUME TypeOK, NEW o \in Ordinals, Exists(o), NEW p,
           pods' = [pods EXCEPT ![o] = p], p.st = "absent" \/ p.rev = pods[o].rev
    PROVE  \A q \in Live' : q \in Live /\ pods'[q].rev = pods[q].rev
BY DEF Live, Exists, TypeOK

LEMMA MarkKeepsRevision ==
    ASSUME TypeOK, NEW o \in Ordinals, Exists(o), NEW st,
           pods' = [pods EXCEPT ![o].st = st]
    PROVE  \A q \in Live' : q \in Live /\ pods'[q].rev = pods[q].rev
<1>1. pods[o] \in PodSet
  BY DEF TypeOK
<1>2. [pods[o] EXCEPT !.st = st].rev = pods[o].rev
  BY <1>1 DEF PodSet
<1>3. pods' = [pods EXCEPT ![o] = [pods[o] EXCEPT !.st = st]]
  OBVIOUS
<1> QED
  BY <1>2, <1>3, PodsKeepRevision

\* Whatever takes a pod away or changes its state touches nothing else of the fleet, and
\* a pod that stays keeps its revision.
PodsOnly ==
    /\ UNCHANGED <<app, sts, stat, scaler, hpa, ctl, lister, podLister,
                   pc, held, seen, want, edits>>
    /\ \A q \in Live' : q \in Live /\ pods'[q].rev = pods[q].rev

LEMMA KubeletsPods ==
    ASSUME TypeOK, Kubelets
    PROVE  PodsOnly
<1>1. CASE Rewarm
  <2>1. pods' = pods
    BY <1>1 DEF Rewarm, apiVars
  <2> QED
    BY <1>1, <2>1 DEF Rewarm, apiVars, passVars, countVars, PodsOnly, Live, Exists
<1>2. ASSUME NEW o \in Ordinals, PodBecomesReady(o) \/ PodGone(o) \/ DisruptPod(o)
      PROVE  PodsOnly
  <2>1. /\ UNCHANGED <<app, sts, stat, scaler, hpa, ctl, lister, podLister,
                       pc, held, seen, want, edits>>
        /\ Exists(o)
    BY <1>2 DEF PodBecomesReady, PodGone, DisruptPod, passVars, countVars, Exists
  <2>2. \/ \E st \in {"ready", "terminating", "failed"} : pods' = [pods EXCEPT ![o].st = st]
        \/ pods' = [pods EXCEPT ![o] = NoPod]
    BY <1>2 DEF PodBecomesReady, PodGone, DisruptPod, Terminate
  <2>3. NoPod.st = "absent"
    BY DEF NoPod
  <2>4. \A q \in Live' : q \in Live /\ pods'[q].rev = pods[q].rev
    BY <2>1, <2>2, <2>3, MarkKeepsRevision, PodsKeepRevision
  <2> QED
    BY <2>1, <2>4 DEF PodsOnly
<1> QED
  BY <1>1, <1>2 DEF Kubelets

LEMMA EvictionPods ==
    ASSUME TypeOK, NEW o \in Ordinals, CtlScaleDown(o) \/ CtlUpdate(o)
    PROVE  PodsOnly
<1>1. Exists(o)
  BY DEF CtlScaleDown, CtlUpdate, condemned, Live, replicasHealthy, podReady, Exists
<1>2. /\ UNCHANGED <<app, sts, stat, scaler, hpa, ctl, lister, podLister,
                     pc, held, seen, want, edits>>
      /\ pods' = [pods EXCEPT ![o].st = "terminating"]
  BY DEF CtlScaleDown, CtlUpdate, Terminate, passVars, countVars
<1> QED
  BY <1>1, <1>2, MarkKeepsRevision DEF PodsOnly

\* The only step that adds a pod, and the revision that the pod gets.
LEMMA NewPod ==
    ASSUME TypeOK, NEW o \in Ordinals, CtlCreate(o)
    PROVE  /\ UNCHANGED <<app, sts, stat, scaler, hpa, ctl, lister, podLister, restoring,
                          pc, held, seen, want, edits>>
           /\ ctl.exists /\ o < ctl.replicas /\ ctl.replicas # 0 /\ ~Exists(o)
           /\ \A q \in Live' : q = o \/ (q \in Live /\ pods'[q] = pods[q])
           /\ ctl.partition <= o => pods'[o].rev = ctl.template
           /\ \/ pods'[o].rev = ctl.template
              \/ pods'[o].rev = stat.currentRevision /\ stat.currentRevision # NoTemplate
           /\ ctl.partition > o => pods'[o].rev = currentRevision
<1> DEFINE r == IF o < ctl.partition THEN currentRevision ELSE ctl.template
<1>1. /\ UNCHANGED <<app, sts, stat, scaler, hpa, ctl, lister, podLister, restoring,
                     pc, held, seen, want, edits>>
      /\ ctl.exists /\ o < ctl.replicas /\ ~Exists(o)
      /\ pods' = [pods EXCEPT ![o] = [rev |-> r, st |-> "starting"]]
  BY DEF CtlCreate, passVars, countVars
<1>2. /\ \A q \in Live' : q = o \/ (q \in Live /\ pods'[q] = pods[q])
      /\ pods'[o].rev = r
  BY <1>1 DEF Live, Exists, TypeOK
<1>3. r = ctl.template \/ (r = stat.currentRevision /\ stat.currentRevision # NoTemplate)
  BY DEF currentRevision
<1>4. o \in Int /\ ctl.replicas \in Int /\ ctl.partition \in Int /\ o >= 0
  BY ConstantsAssumption, SMT DEF Ordinals, TypeOK, CtlSet
<1>5. ctl.replicas # 0 /\ (ctl.partition <= o => r = ctl.template)
      /\ (ctl.partition > o => r = currentRevision)
  BY <1>1, <1>4, SMT
<1> HIDE DEF r
<1> QED
  BY <1>1, <1>2, <1>3, <1>5

-----------------------------------------------------------------------------
(* Safe writes: WriteInv is inductive *)

LEMMA NotSelfBreaking ==
    ASSUME NEW t \in Templates
    PROVE  ~fleetBreaking(t, t) /\ ~LossyDowngrade(t.image, t.image)
<1>1. t.image \in Image
  BY SpecFields DEF Templates, IsTemplate
<1>2. cmp(t.image, t.image) = 0
  BY <1>1, SMT DEF cmp, Image
<1>3. ~isBreakingUpgrade(t.image, t.image)
  BY <1>2 DEF isBreakingUpgrade, breakingReason
<1>4. cmp(t.image, minorVersion(0, 6)) \in Int /\ cmp(t.image, minorVersion(0, 3)) \in Int
  BY <1>1, SMT DEF cmp, minorVersion, Image
<1> QED
  BY <1>3, <1>4, SMT DEF fleetBreaking, crossesStreams, LossyDowngrade

\* A step that at most takes pods away.
LEMMA PodsLeaveWriteInv ==
    ASSUME WriteInv, UNCHANGED <<sts, stat, ctl, pc, seen, want>>, Live' \subseteq Live
    PROVE  WriteInv'
<1>1. SafeWrite => SafeWrite'
  BY DEF SafeWrite, SpecOf
<1> QED
  BY <1>1 DEF WriteInv, SpecOf

\* A step of anyone that is not about the StatefulSet or its pods.
LEMMA ElsewhereWriteInv ==
    ASSUME WriteInv, UNCHANGED <<sts, stat, ctl, pods, pc, seen, want>>
    PROVE  WriteInv'
<1>1. Live' = Live
  BY DEF Live, Exists
<1> QED
  BY <1>1, PodsLeaveWriteInv

\* A pass that ends leaves nothing to show but the StatefulSet itself.
LEMMA EndPassWriteInv ==
    ASSUME WriteInv, NEW o, EndPass(o), UNCHANGED <<sts, stat, ctl, pods>>
    PROVE  WriteInv'
BY DEF WriteInv, EndPass, DropPass, SpecOf

\* A write that a pass decides on is safe: the table was asked about a template that
\* rolls, and the list of pods was empty, under an observed status, for a start.
LEMMA IntendWriteInv ==
    ASSUME TypeOK, MoveInv, WriteInv, DecideFleet,
           NEW s, NEW stamp, NEW o, Intend(s, stamp, o), Decided(s)
    PROVE  WriteInv'
<1>1. /\ pc = "decide" /\ UNCHANGED <<sts, stat, ctl, pods>> /\ live = seen.sts
      /\ seen.sts.exists /\ Live' = Live
  BY DEF DecideFleet, Deciding, clusterVars, live, Live, Exists
<1>2. /\ pc' = "write" /\ seen' = seen /\ want'.sts = s
      /\ Moves(seen.sts, s, held.spec)
  BY <1>1 DEF Intend, Decided
<1>3. seen.sts.template \in Templates /\ held.spec.template \in Templates
  BY <1>1, FieldTypes DEF WriteInv, StsSet
<1>4. s.template \in {seen.sts.template, held.spec.template} /\ s.exists
  BY <1>2 DEF Moves, StopsTo, StartsTo, RollsTo, ClampsTo, ReleasesTo, ScalesTo
<1>5. ~LossyDowngrade(seen.sts.template.image, s.template.image)
  BY <1>2, <1>3, <1>4, NotSelfBreaking DEF Moves
<1>6. CASE seen.sts.replicas # 0
  <2>1. ~fleetBreaking(seen.sts.template, s.template)
    BY <1>2, <1>3, <1>6, NotSelfBreaking
       DEF Moves, StopsTo, StartsTo, RollsTo, ClampsTo, ReleasesTo, ScalesTo
  <2>2. SafeWrite'
    BY <1>2, <1>5, <1>6, <2>1 DEF SafeWrite
  <2> QED
    BY <1>1, <1>2, <1>3, <1>4, <2>2, ConstantsAssumption DEF WriteInv
<1>7. CASE seen.sts.replicas = 0
  <2>1. seen.sts.recreating
    BY <1>1, <1>7 DEF MoveInv, Running
  <2>2. Stopped
    BY <1>1, <1>7, <2>1 DEF Decided, StopsTo, RollsTo, ClampsTo, ReleasesTo, ScalesTo
  <2>3. Live = {} /\ (sts = seen.sts => ctl = SpecOf(sts))
    BY <1>1, <1>7, <2>2 DEF Stopped, WriteInv
  <2>4. SafeWrite'
    BY <1>1, <1>2, <1>5, <1>7, <2>3 DEF SafeWrite, SpecOf
  <2> QED
    BY <1>1, <1>2, <1>3, <1>4, <2>4, ConstantsAssumption DEF WriteInv
<1> QED
  BY <1>6, <1>7

LEMMA OperatorWriteInv ==
    ASSUME TypeOK, MoveInv, WriteInv, Operator
    PROVE  WriteInv'
<1>1. CASE BeginPass
  BY <1>1 DEF BeginPass, apiVars, WriteInv, SpecOf
<1>2. CASE CreateFleet
  <2>1. ~sts.exists /\ ~ctl.exists /\ ~stat.observed
    BY <1>2 DEF CreateFleet, WriteInv
  <2>2. sts'.exists /\ sts'.template # NoTemplate
    BY <1>2, FieldTypes DEF CreateFleet, buildStatefulSet
  <2> QED
    BY <1>2, <2>1, <2>2 DEF CreateFleet, EndPass, DropPass, clusterVars, WriteInv
<1>3. CASE AwaitPause
  BY <1>3, EndPassWriteInv DEF AwaitPause, clusterVars
<1>4. CASE updateFleet
  <2>1. CASE seen # [sts |-> sts, stat |-> stat]
    BY <1>4, <2>1, EndPassWriteInv DEF updateFleet, clusterVars
  <2>2. CASE seen = [sts |-> sts, stat |-> stat]
    <3>1. /\ sts' = want.sts /\ sts'.exists /\ sts'.template # NoTemplate
          /\ ctl' = ctl /\ pc' = "idle"
      BY <1>4, <2>2 DEF updateFleet, EndPass, DropPass, clusterVars, WriteInv
    <3>2. ~stat'.observed
      BY <1>4, <2>2, FieldTypes DEF updateFleet, StatSet
    <3> QED
      BY <3>1, <3>2 DEF WriteInv
  <2> QED
    BY <2>1, <2>2
<1>5. CASE AbortPass
  BY <1>5 DEF AbortPass, DropPass, apiVars, WriteInv, SpecOf
<1>6. CASE DecideFleet
  <2>1. UNCHANGED <<sts, stat, ctl, pods>>
    BY <1>6 DEF DecideFleet, Deciding, clusterVars
  <2> QED
    BY <1>6, <2>1, Decisions, EndPassWriteInv, IntendWriteInv
<1> QED
  BY <1>1, <1>2, <1>3, <1>4, <1>5, <1>6 DEF Operator

\* A new pod needs a replica count above its ordinal in the controller's spec.
LEMMA CtlCreateWriteInv ==
    ASSUME TypeOK, WriteInv, NEW o \in Ordinals, CtlCreate(o)
    PROVE  WriteInv'
<1>1. UNCHANGED <<sts, stat, ctl, pc, seen, want>> /\ ctl.replicas # 0
  BY NewPod
<1>2. SafeWrite => SafeWrite'
  BY <1>1, SMT DEF SafeWrite, SpecOf
<1> QED
  BY <1>1, <1>2 DEF WriteInv, SpecOf

LEMMA StatefulSetControllerWriteInv ==
    ASSUME TypeOK, WriteInv, StatefulSetController
    PROVE  WriteInv'
<1>1. CASE CtlFetch
  <2>1. ctl' = SpecOf(sts) /\ UNCHANGED <<sts, stat, pods, pc, seen, want>>
    BY <1>1 DEF CtlFetch, apiVars, passVars
  <2>2. SpecOf(sts)' = SpecOf(sts) /\ Live' = Live /\ ctl'.exists = sts.exists
    BY <2>1 DEF SpecOf, Live, Exists
  <2>3. SafeWrite => SafeWrite'
    BY <2>1, <2>2 DEF SafeWrite
  <2> QED
    BY <2>1, <2>2, <2>3 DEF WriteInv
<1>2. CASE CtlStatus
  <2>1. /\ UNCHANGED <<sts, ctl, pods, pc, seen, want>> /\ ctl.exists
        /\ stat'.observed => ctl = SpecOf(sts)
    BY <1>2 DEF CtlStatus, passVars
  <2>2. Live' = Live
    BY <2>1 DEF Live, Exists
  <2>3. SafeWrite => SafeWrite'
    BY <2>1, <2>2 DEF SafeWrite, SpecOf
  <2> QED
    BY <2>1, <2>3 DEF WriteInv, SpecOf
<1>3. ASSUME NEW o \in Ordinals, CtlScaleDown(o) \/ CtlUpdate(o)
      PROVE  WriteInv'
  <2>1. PodsOnly
    BY <1>3, EvictionPods
  <2> QED
    BY <2>1, PodsLeaveWriteInv DEF PodsOnly
<1> QED
  BY <1>1, <1>2, <1>3, CtlCreateWriteInv DEF StatefulSetController

\* The HPA never scales to zero, so it cannot undo its own change of a stopped fleet.
LEMMA KedaWriteInv ==
    ASSUME TypeOK, WriteInv, Keda
    PROVE  WriteInv'
<1>1. CASE KedaRemovesHpa \/ KedaAcknowledges \/ KedaResumes
  BY <1>1, ElsewhereWriteInv DEF KedaRemovesHpa, KedaAcknowledges, KedaResumes, passVars
<1>2. ASSUME NEW n \in 1 .. MaxReplicas, HpaScales(n)
      PROVE  WriteInv'
  <2>1. UNCHANGED <<ctl, pods, pc, seen, want>> /\ sts.exists
    BY <1>2 DEF HpaScales, passVars
  <2>2. /\ sts'.exists = sts.exists /\ sts'.template = sts.template
        /\ sts'.replicas = n
    BY <1>2, FieldTypes DEF HpaScales, StsSet
  <2>3. n # 0
    BY ConstantsAssumption, SMT
  <2>4. ~stat'.observed
    BY <1>2, FieldTypes DEF HpaScales, StatSet
  <2>5. SafeWrite => SafeWrite'
    BY <2>1, <2>2, <2>3 DEF SafeWrite
  <2> QED
    BY <2>1, <2>2, <2>3, <2>4, <2>5 DEF WriteInv
<1> QED
  BY <1>1, <1>2 DEF Keda

LEMMA WriteInvInit == Init => WriteInv
BY SMT DEF Init, WriteInv, NoSts, NoStat, SpecOf

LEMMA WriteInvStep == TypeOK /\ MoveInv /\ WriteInv /\ [Next]_vars => WriteInv'
<1> SUFFICES ASSUME TypeOK, MoveInv, WriteInv, [Next]_vars PROVE WriteInv'
  OBVIOUS
<1>1. CASE UNCHANGED vars
  BY <1>1, ElsewhereWriteInv DEF vars
<1>2. CASE Informers
  BY <1>2, ElsewhereWriteInv
     DEF Informers, SyncApp, SyncPod, SettleElapses, apiVars, passVars
<1>3. CASE \E s \in Specs : EditSpec(s)
  BY <1>3, ElsewhereWriteInv DEF EditSpec, passVars
<1>4. CASE Kubelets
  BY <1>4, KubeletsPods, PodsLeaveWriteInv DEF PodsOnly
<1> QED
  BY <1>1, <1>2, <1>3, <1>4, OperatorWriteInv, StatefulSetControllerWriteInv, KedaWriteInv
     DEF Next

\* The write a pass intends stays safe until it lands or conflicts, whoever moves in
\* between.
THEOREM WriteInvHolds == Spec => []WriteInv
BY TypeInit, TypeStep, MoveInvInit, MoveInvStep, WriteInvInit, WriteInvStep, PTL DEF Spec
=============================================================================
