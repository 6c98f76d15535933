-------------------------- MODULE FleetWriteProofs --------------------------
(***************************************************************************)
(* What every write of the operator guarantees, for any set of specs, any   *)
(* number of replicas, a pod cache that lags, and an HPA that scales        *)
(* whenever it is not paused.                                               *)
(***************************************************************************)
EXTENDS FleetRolloutProofs

\* Zenon proves a leaf unless it names another prover.
USE Zenon

-----------------------------------------------------------------------------
(* The rolling-safety table, for all releases *)

\* cmp is the lexicographic order, an integer for any two releases.
LEMMA CmpType ==
    ASSUME NEW v, NEW o, v.major \in Nat, v.minor \in Nat, o.major \in Nat, o.minor \in Nat
    PROVE  cmp(v, o) \in Int
BY SMT DEF cmp

\* Nothing lies between the two sides of a boundary.
LEMMA BoundariesAdjacent ==
    ASSUME NEW b \in breakingBoundaries, NEW v \in Image
    PROVE  /\ cmp(v, b.lower) \in Int /\ cmp(v, b.upper) \in Int
           /\ cmp(v, b.lower) <= 0 \/ cmp(v, b.upper) >= 0
           /\ ~(cmp(v, b.lower) <= 0 /\ cmp(v, b.upper) >= 0)
BY SMT DEF breakingBoundaries, minorVersion, cmp, Image

\* The order carries over to both sides of a boundary.
LEMMA BoundariesMonotone ==
    ASSUME NEW b \in breakingBoundaries, NEW v \in Image, NEW w \in Image, cmp(v, w) <= 0
    PROVE  /\ cmp(w, b.lower) <= 0 => cmp(v, b.lower) <= 0
           /\ cmp(v, b.upper) >= 0 => cmp(w, b.upper) >= 0
BY SMT DEF breakingBoundaries, minorVersion, cmp, Image

\* What breakingReason asks of a boundary, and that this already implies that the
\* two releases differ.
Crosses(from, to, b) ==
    \/ b.upward /\ crossesUp(from, to, b)
    \/ b.downward /\ crossesDown(from, to, b)

LEMMA BreakingIsCrossing ==
    ASSUME NEW v \in Image, NEW w \in Image, v.ok, w.ok
    PROVE  isBreakingUpgrade(v, w) <=> \E b \in breakingBoundaries : Crosses(v, w, b)
<1>1. ASSUME NEW b \in breakingBoundaries, Crosses(v, w, b)
      PROVE  cmp(v, w) # 0
  <2>1. cmp(v, w) \in Int
    BY CmpType DEF Image
  <2>2. SUFFICES ASSUME cmp(v, w) = 0 PROVE FALSE
    OBVIOUS
  <2>3. v.major = w.major /\ v.minor = w.minor
    BY <2>2, SMT DEF cmp, Image
  <2>4. cmp(v, b.lower) = cmp(w, b.lower) /\ cmp(v, b.upper) = cmp(w, b.upper)
    BY <2>3 DEF cmp
  <2> QED
    BY <1>1, <2>4, BoundariesAdjacent DEF Crosses, crossesUp, crossesDown
<1> QED
  BY <1>1 DEF isBreakingUpgrade, breakingReason, Crosses

\* rollout.go's comment on breakingBoundaries, "A jump that skips minors still
\* crosses every boundary in between", for all releases and in both directions.
THEOREM JumpTheorem ==
    ASSUME NEW from \in Image, NEW mid \in Image, NEW to \in Image
    PROVE  JumpIsChecked(from, mid, to)
<1>1. SUFFICES ASSUME from.ok, mid.ok, to.ok, Between(from, mid, to)
               PROVE  isBreakingUpgrade(from, to)
                        <=> isBreakingUpgrade(from, mid) \/ isBreakingUpgrade(mid, to)
  BY DEF JumpIsChecked
<1>2. ASSUME NEW b \in breakingBoundaries
      PROVE  Crosses(from, to, b) <=> Crosses(from, mid, b) \/ Crosses(mid, to, b)
  <2>1. cmp(from, mid) \in Int /\ cmp(mid, to) \in Int
    BY CmpType DEF Image
  <2>2. CASE cmp(from, mid) <= 0 /\ cmp(mid, to) <= 0
    BY <2>2, BoundariesAdjacent, BoundariesMonotone DEF Crosses, crossesUp, crossesDown
  <2>3. CASE cmp(from, mid) >= 0 /\ cmp(mid, to) >= 0
    <3>1. cmp(mid, from) <= 0 /\ cmp(to, mid) <= 0
      BY <2>3, SMT DEF cmp, Image
    <3> QED
      BY <3>1, BoundariesAdjacent, BoundariesMonotone DEF Crosses, crossesUp, crossesDown
  <2> QED
    BY <1>1, <2>2, <2>3 DEF Between
<1> QED
  BY <1>1, <1>2, BreakingIsCrossing

-----------------------------------------------------------------------------
(* What follows for every change of the template *)

\* Who writes the StatefulSet.
LEMMA Writers ==
    ASSUME [Next]_vars, sts' # sts
    PROVE  \/ CreateFleet
           \/ updateFleet /\ seen = [sts |-> sts, stat |-> stat] /\ sts' = want.sts
           \/ \E n \in 1 .. MaxReplicas : HpaScales(n)
<1>1. CASE Operator
  BY <1>1 DEF Operator, BeginPass, AwaitPause, DecideFleet, Deciding, AbortPass, apiVars,
     updateFleet
<1>2. CASE Keda
  BY <1>2 DEF Keda, KedaRemovesHpa, KedaAcknowledges, KedaResumes
<1>3. CASE Informers \/ StatefulSetController \/ Kubelets \/ \E s \in Specs : EditSpec(s)
  BY <1>3 DEF Informers, SyncApp, SyncPod, SettleElapses, StatefulSetController, CtlFetch,
     CtlStatus, CtlCreate, CtlScaleDown, CtlUpdate, Kubelets, Rewarm, PodBecomesReady,
     PodGone, DisruptPod, EditSpec, apiVars
<1> QED
  BY <1>1, <1>2, <1>3 DEF Next, vars

\* Only the operator's write moves the template or the partition of a fleet.
LEMMA RolloutMoves ==
    ASSUME TypeOK, WriteInv, [Next]_vars, sts.exists,
           sts'.template # sts.template \/ sts'.partition # sts.partition
    PROVE  pc = "write" /\ seen.sts = sts /\ sts' = want.sts
<1>1. ~CreateFleet
  BY DEF CreateFleet, WriteInv
<1>2. ASSUME NEW n \in 1 .. MaxReplicas, HpaScales(n)
      PROVE  sts'.template = sts.template /\ sts'.partition = sts.partition
  BY <1>2, FieldTypes DEF HpaScales, StsSet
<1> QED
  BY <1>1, <1>2, Writers, SMT DEF updateFleet

\* Whatever the specs, the lag of the caches and the interleaving: a template that may
\* not roll over the present one is only written when no pod is left.
THEOREM BreakingOnlyWhenEmptyHolds == Spec => BreakingOnlyWhenEmpty
<1>1. TypeOK /\ WriteInv /\ [Next]_vars
        => [sts.exists /\ sts'.template # sts.template
              => \/ ~fleetBreaking(sts.template, sts'.template)
                 \/ Live = {}]_vars
  BY RolloutMoves DEF WriteInv, SafeWrite
<1> QED
  BY <1>1, TypeCorrect, WriteInvHolds, PTL DEF Spec, BreakingOnlyWhenEmpty

\* Whatever the specs and their strategy: the template never moves from v0.3 or later
\* to an older runtime.
THEOREM NoLossyDowngradeHolds == Spec => NoLossyDowngrade
<1>1. ASSUME TypeOK, WriteInv, [Next]_vars, sts.exists
      PROVE  ~LossyDowngrade(sts.template.image, sts'.template.image)
  <2>1. CASE sts'.template # sts.template
    BY <1>1, <2>1, RolloutMoves DEF WriteInv, SafeWrite
  <2>2. CASE sts'.template = sts.template
    <3>1. sts.template \in Templates
      BY <1>1, FieldTypes DEF WriteInv, StsSet
    <3> QED
      BY <2>2, <3>1, NotSelfBreaking
  <2> QED
    BY <2>1, <2>2
<1>2. TypeOK /\ WriteInv /\ [Next]_vars
        => [sts.exists => ~LossyDowngrade(sts.template.image, sts'.template.image)]_vars
  BY <1>1
<1> QED
  BY <1>2, TypeCorrect, WriteInvHolds, PTL DEF Spec, NoLossyDowngrade

\* Whatever the HPA writes and whenever it writes it: a rollout of a running fleet never
\* writes over the replica count.
THEOREM KeepsScaleHolds == Spec => KeepsScale
<1>1. ASSUME TypeOK, WriteInv, MoveInv, [Next]_vars, sts.exists, ~sts.recreating,
             sts'.template # sts.template \/ sts'.partition # sts.partition
      PROVE  sts'.replicas = sts.replicas
  <2>1. pc = "write" /\ seen.sts = sts /\ sts' = want.sts
    BY <1>1, RolloutMoves
  <2>2. Moves(sts, sts', held.spec) /\ sts.replicas # 0
    BY <1>1, <2>1 DEF MoveInv, Running
  <2> QED
    BY <1>1, <2>2 DEF Moves, StopsTo, StartsTo, RollsTo, ClampsTo, ReleasesTo, ScalesTo
<1>2. TypeOK /\ WriteInv /\ MoveInv /\ [Next]_vars
        => [sts.exists /\ ~sts.recreating
              /\ (sts'.template # sts.template \/ sts'.partition # sts.partition)
              => sts'.replicas = sts.replicas]_vars
  BY <1>1
<1> QED
  BY <1>2, TypeCorrect, WriteInvHolds, MoveInvHolds, PTL DEF Spec, KeepsScale

\* Whatever the specs: the answer that the table gives for the change the spec asks for
\* is the one it gives for any two changes that lead there.
THEOREM JumpsCheckedHolds == Spec => []JumpsChecked
<1>1. ASSUME TypeOK, WriteInv, sts.exists, NEW mid \in Releases
      PROVE  JumpIsChecked(sts.template.image, mid, app.spec.template.image)
  <2>1. sts.template \in Templates /\ app.spec.template \in Templates
    BY <1>1, FieldTypes, SpecFields DEF WriteInv, StsSet, TypeOK, AppSet
  <2>2. \A t \in Templates : t.image \in Image
    BY SpecFields DEF Templates, IsTemplate
  <2>3. {TRUE} \subseteq BOOLEAN /\ 0 .. 1 \subseteq Nat /\ 0 .. 7 \subseteq Nat /\ {0} \subseteq Nat
    BY SMT
  <2>4. mid \in Image
    BY <2>3 DEF Releases, Image
  <2> QED
    BY <2>1, <2>2, <2>4, JumpTheorem
<1>2. TypeOK /\ WriteInv => JumpsChecked
  BY <1>1 DEF JumpsChecked
<1> QED
  BY <1>2, TypeCorrect, WriteInvHolds, PTL

-----------------------------------------------------------------------------
(* The StatefulSet follows the protocol *)

LEMMA StsEqual ==
    ASSUME NEW s \in StsSet, NEW t \in StsSet, s.exists = t.exists, s.template = t.template,
           s.partition = t.partition, s.replicas = t.replicas, s.recreating = t.recreating
    PROVE  s = t
BY SMT DEF StsSet

\* Each of reconcileFleet's six writes is a move of the protocol, a start one of an
\* empty fleet.
LEMMA MovesFollowProtocol ==
    ASSUME TypeOK, sts' \in StsSet, sts.exists, NEW w \in Specs, Moves(sts, sts', w),
           Running(sts) => sts.replicas # 0,
           sts.replicas = 0 => Live = {}, Live' = Live
    PROVE  Protocol!Next
<1>1. /\ sts \in StsSet /\ sts'.exists
      /\ sts.template \in Templates \cup {NoTemplate} /\ sts.exists \in BOOLEAN
      /\ sts.partition \in 0 .. MaxReplicas /\ sts.replicas \in 0 .. MaxReplicas
      /\ sts.recreating \in BOOLEAN /\ sts'.recreating \in BOOLEAN /\ sts'.exists \in BOOLEAN
      /\ sts'.partition \in 0 .. MaxReplicas /\ sts'.replicas \in 0 .. MaxReplicas
      /\ MaxReplicas \in Nat
      /\ w.template \in Templates /\ w.replicas \in 1 .. MaxReplicas
      /\ w.replicas \in 0 .. MaxReplicas /\ 0 \in 0 .. MaxReplicas
  BY SpecFields, ConstantsAssumption, SMT DEF TypeOK, StsSet, Moves
<1>2. CASE StopsTo(sts, sts')
  <2> DEFINE s == [sts EXCEPT !.replicas = 0, !.recreating = TRUE]
  <2>1. s \in StsSet
    BY <1>1, StsUpdateType
  <2>2. /\ s.exists = sts.exists /\ s.template = sts.template /\ s.partition = sts.partition
        /\ s.replicas = 0 /\ s.recreating = TRUE
    BY <1>1 DEF StsSet
  <2> HIDE DEF s
  <2>3. sts' = s
    BY <1>1, <1>2, <2>1, <2>2, StsEqual DEF StopsTo
  <2> QED
    BY <1>2, <2>3 DEF s, StopsTo, Protocol!Next, Protocol!Stop
<1>3. CASE StartsTo(sts, sts', w)
  <2> DEFINE s == [sts EXCEPT !.template = w.template, !.partition = 0, !.replicas = w.replicas,
                              !.recreating = FALSE]
  <2>1. s \in StsSet
    BY <1>1 DEF StsSet
  <2>2. /\ s.exists = sts.exists /\ s.template = w.template /\ s.partition = 0
        /\ s.replicas = w.replicas /\ s.recreating = FALSE
    BY <1>1 DEF StsSet
  <2> HIDE DEF s
  <2>3. sts' = s
    BY <1>1, <1>3, <2>1, <2>2, StsEqual DEF StartsTo
  <2>4. Protocol!Start(w.template, w.replicas)
    BY <1>3, <2>3 DEF s, Moves, StartsTo, Running, LossyMove, Protocol!Start
  <2> QED
    BY <1>1, <2>4 DEF Protocol!Next
<1>4. CASE RollsTo(sts, sts', w)
  <2> DEFINE s == [sts EXCEPT !.template = w.template, !.partition = sts.replicas]
  <2>1. s \in StsSet
    BY <1>1 DEF StsSet
  <2>2. /\ s.exists = sts.exists /\ s.template = w.template /\ s.partition = sts.replicas
        /\ s.replicas = sts.replicas /\ s.recreating = sts.recreating
    BY <1>1 DEF StsSet
  <2> HIDE DEF s
  <2>3. sts' = s
    BY <1>1, <1>4, <2>1, <2>2, StsEqual DEF RollsTo
  <2>4. Protocol!Roll(w.template)
    BY <1>4, <2>3 DEF s, Moves, RollsTo, LossyMove, Protocol!Roll
  <2> QED
    BY <1>1, <2>4 DEF Protocol!Next
<1>5. ASSUME NEW n, sts'.template = sts.template, sts'.partition = n,
             sts'.replicas = sts.replicas, sts'.recreating = sts.recreating
      PROVE  sts' = [sts EXCEPT !.partition = n]
  <2> DEFINE s == [sts EXCEPT !.partition = n]
  <2>1. /\ s.exists = sts.exists /\ s.template = sts.template /\ s.partition = n
        /\ s.replicas = sts.replicas /\ s.recreating = sts.recreating
    BY <1>1 DEF StsSet
  <2>2. s \in StsSet
    BY <1>1, <1>5 DEF StsSet
  <2> HIDE DEF s
  <2>3. sts' = s
    BY <1>1, <1>5, <2>1, <2>2, StsEqual
  <2> QED
    BY <2>3 DEF s
<1>6. CASE ClampsTo(sts, sts')
  BY <1>1, <1>5, <1>6 DEF ClampsTo, Protocol!Next, Protocol!Clamp
<1>7. CASE ReleasesTo(sts, sts')
  <2>1. sts.partition \in 1 .. sts.replicas
    BY <1>1, <1>7, SMT DEF ReleasesTo
  <2> QED
    BY <1>1, <1>5, <1>7, <2>1 DEF ReleasesTo, Protocol!Next, Protocol!Release
<1>8. CASE ScalesTo(sts, sts', w)
  <2> DEFINE s == [sts EXCEPT !.replicas = w.replicas]
  <2>1. /\ s.exists = sts.exists /\ s.template = sts.template /\ s.partition = sts.partition
        /\ s.replicas = w.replicas /\ s.recreating = sts.recreating
    BY <1>1 DEF StsSet
  <2>2. s \in StsSet
    BY <1>1 DEF StsSet
  <2> HIDE DEF s
  <2>3. sts' = s
    BY <1>1, <1>8, <2>1, <2>2, StsEqual DEF ScalesTo
  <2>4. Protocol!Scale(w.replicas)
    BY <2>3 DEF s, Protocol!Scale
  <2> QED
    BY <1>1, <2>4 DEF Protocol!Next
<1> QED
  BY <1>2, <1>3, <1>4, <1>6, <1>7, <1>8 DEF Moves

LEMMA ProtocolStep ==
    ASSUME TypeOK, TypeOK', MoveInv, WriteInv, [Next]_vars
    PROVE  [Protocol!Next]_<<sts, Live = {}>>
<1>1. CASE sts' = sts
  BY <1>1 DEF Protocol!Next
<1>2. CASE CreateFleet
  <2>1. ~sts.exists /\ Live' = Live
    BY <1>2 DEF CreateFleet, clusterVars, WriteInv, Live, Exists
  <2>2. held.spec.template \in Templates /\ held.spec.replicas \in 1 .. MaxReplicas
    BY FieldTypes, SpecFields
  <2>3. Protocol!Create(held.spec.template, held.spec.replicas)
    BY <1>2, <2>1 DEF CreateFleet, buildStatefulSet, Protocol!Create
  <2> QED
    BY <2>1, <2>2, <2>3 DEF Protocol!Next
<1>3. CASE updateFleet /\ seen = [sts |-> sts, stat |-> stat] /\ sts' = want.sts
  <2>1. /\ pc = "write" /\ seen.sts = sts /\ Live' = Live /\ sts' = want.sts
    BY <1>3 DEF updateFleet, clusterVars, Live, Exists
  <2>2. Moves(sts, sts', held.spec) /\ (Running(sts) => sts.replicas # 0)
    BY <2>1 DEF MoveInv
  <2>3. sts.exists /\ (sts.replicas = 0 => Live = {})
    BY <2>1 DEF WriteInv, SafeWrite
  <2>4. sts' \in StsSet /\ held.spec \in Specs
    BY <2>1, FieldTypes
  <2> QED
    BY <2>1, <2>2, <2>3, <2>4, MovesFollowProtocol
<1>4. ASSUME NEW n \in 1 .. MaxReplicas, HpaScales(n)
      PROVE  Protocol!Next
  <2>1. Live' = Live /\ Protocol!Scale(n)
    BY <1>4 DEF HpaScales, Live, Exists, Protocol!Scale
  <2> QED
    BY <2>1 DEF Protocol!Next
<1> QED
  BY <1>1, <1>2, <1>3, <1>4, Writers

\* The fleet implements the protocol, whatever the specs, the caches, the HPA and the
\* interleaving: who watches the StatefulSet sees one move of it at a time.
THEOREM FollowsProtocolHolds == Spec => FollowsProtocol
<1>1. Init => Protocol!Init
  <2> SUFFICES ASSUME Init PROVE Protocol!Init
    OBVIOUS
  <2>1. Live = {}
    BY DEF Init, Live, Exists, NoPod
  <2> QED
    BY <2>1 DEF Init, NoSts, Protocol!Init
<1>2. TypeOK /\ TypeOK' /\ MoveInv /\ WriteInv /\ [Next]_vars
        => [Protocol!Next]_<<sts, Live = {}>>
  BY ProtocolStep
<1> QED
  BY <1>1, <1>2, TypeCorrect, MoveInvHolds, WriteInvHolds, PTL
     DEF Spec, FollowsProtocol, Protocol!Spec

-----------------------------------------------------------------------------
(* Runtimes that must not mix.  The pod cache may lag, and an HPA scales    *)
(* whenever it is not paused.                                               *)

\* Every pod, and everything the StatefulSet controller would create one from.
RunsOnly(R) ==
    /\ \A o \in Live : pods[o].rev \in R
    /\ ctl.exists => ctl.template \in R
    /\ stat.currentRevision \in R \cup {NoTemplate}

\* Nothing of an earlier template is left.
Uniform == RunsOnly({sts.template})

\* At most one earlier template is left, and it may roll to the present one.
Rolled ==
    \E t \in Templates : /\ ~fleetBreaking(t, sts.template)
                         /\ RunsOnly({t, sts.template})

\* The present template was started on an empty fleet.  The controller may still know
\* the earlier one, but creates no pod from it.
Restarted ==
    /\ sts.partition = 0
    /\ \A o \in Live : pods[o].rev = sts.template
    /\ ctl.exists => \/ ctl.replicas = 0
                     \/ ctl.template = sts.template /\ ctl.partition = 0

\* Why NoMixedFleet holds: as long as the StatefulSet does not have the template of the
\* spec, nothing but its own is around; so the write that brings them together leaves
\* one earlier template behind at most.
MixInv ==
    /\ ~ctl.exists => Live = {}
    /\ pc # "idle" => held.spec = app.spec
    /\ sts.exists => /\ app.spec.template # sts.template => Uniform
                     /\ Rolled \/ Restarted

\* A step that adds no pod, and is about neither the StatefulSet nor a pass.
LEMMA PodsLeaveMixInv ==
    ASSUME MixInv, UNCHANGED <<sts, ctl>>, pc' = "idle" \/ UNCHANGED <<pc, held>>,
           app'.spec = app.spec, stat'.currentRevision = stat.currentRevision,
           \A o \in Live' : o \in Live /\ pods'[o].rev = pods[o].rev
    PROVE  MixInv'
<1>1. Uniform => Uniform'
  BY DEF Uniform, RunsOnly
<1>2. Rolled => Rolled'
  BY DEF Rolled, RunsOnly
<1>3. Restarted => Restarted'
  BY DEF Restarted
<1> QED
  BY <1>1, <1>2, <1>3 DEF MixInv

LEMMA ElsewhereMixInv ==
    ASSUME MixInv, UNCHANGED <<sts, ctl, stat, pods>>,
           pc' = "idle" \/ held'.spec = app.spec, app'.spec = app.spec
    PROVE  MixInv'
<1>1. Live' = Live
  BY DEF Live, Exists
<1>2. (Uniform => Uniform') /\ (Rolled => Rolled') /\ (Restarted => Restarted')
  BY <1>1 DEF Uniform, Rolled, Restarted, RunsOnly
<1> QED
  BY <1>1, <1>2 DEF MixInv

\* The last calls of a pass leave the spec alone.
LEMMA EndPassKeepsSpec ==
    ASSUME TypeOK, NEW o, EndPass(o)
    PROVE  app'.spec = app.spec /\ pc' = "idle"
BY DEF EndPass, DropPass, updateStatus, TypeOK, AppSet

\* The write lands: the template it brings, if it is new, meets a uniform fleet.
LEMMA LandsMixInv ==
    ASSUME TypeOK, MoveInv, WriteInv, MixInv, updateFleet, seen = [sts |-> sts, stat |-> stat]
    PROVE  MixInv'
<1>1. /\ pc = "write" /\ sts' = want.sts /\ UNCHANGED <<ctl, pods>>
      /\ EndPass(want.outcome) /\ stat' = [stat EXCEPT !.observed = FALSE]
  BY DEF updateFleet, clusterVars
<1>2. /\ app'.spec = app.spec /\ pc' = "idle" /\ Live' = Live
      /\ stat'.currentRevision = stat.currentRevision
  BY <1>1, EndPassKeepsSpec, FieldTypes DEF StatSet, Live, Exists
<1>3. /\ seen.sts = sts /\ held.spec = app.spec /\ Moves(sts, want.sts, app.spec)
      /\ sts.exists /\ sts'.exists /\ sts.template \in Templates
  BY <1>1, FieldTypes DEF MixInv, MoveInv, WriteInv, StsSet
<1>4. CASE want.sts.template = sts.template
  <2>1. (Uniform => Uniform') /\ (Rolled => Rolled')
    BY <1>1, <1>2, <1>4 DEF Uniform, Rolled, RunsOnly
  <2>2. sts.partition = 0 => want.sts.partition = 0
    <3>1. ~(0 > sts.replicas) /\ ~(0 > 0)
      BY FieldTypes, ConstantsAssumption, SMT DEF StsSet
    <3> QED
      BY <1>3, <1>4, <3>1
         DEF Moves, StopsTo, StartsTo, RollsTo, ClampsTo, ReleasesTo, ScalesTo
  <2>3. Restarted => Restarted'
    BY <1>1, <1>2, <1>4, <2>2 DEF Restarted
  <2> QED
    BY <1>1, <1>2, <1>3, <1>4, <2>1, <2>3 DEF MixInv
<1>5. CASE want.sts.template # sts.template
  <2>1. want.sts.template = app.spec.template
    BY <1>3, <1>5 DEF Moves, StopsTo, StartsTo, RollsTo, ClampsTo, ReleasesTo, ScalesTo
  <2>2. Uniform /\ SafeWrite
    BY <1>1, <1>3, <1>5, <2>1 DEF MixInv, WriteInv
  <2>3. CASE ~fleetBreaking(sts.template, want.sts.template)
    <3>1. Rolled'
      BY <1>1, <1>2, <1>3, <2>2, <2>3, SMT DEF Rolled, Uniform, RunsOnly
    <3> QED
      BY <1>1, <1>2, <2>1, <3>1 DEF MixInv
  <2>4. CASE fleetBreaking(sts.template, want.sts.template)
    <3>1. sts.replicas = 0 /\ Live = {} /\ ctl.replicas = 0
      BY <1>3, <2>2, <2>4, SMT DEF SafeWrite, SpecOf
    <3>2. want.sts.partition = 0
      BY <1>3, <1>5, <2>4, <3>1
         DEF Moves, StopsTo, StartsTo, RollsTo, ClampsTo, ReleasesTo, ScalesTo
    <3>3. Restarted'
      BY <1>1, <1>2, <3>1, <3>2 DEF Restarted
    <3> QED
      BY <1>1, <1>2, <2>1, <3>3 DEF MixInv
  <2> QED
    BY <2>3, <2>4
<1> QED
  BY <1>4, <1>5

LEMMA OperatorMixInv ==
    ASSUME ~AppLags, TypeOK, MoveInv, WriteInv, MixInv, Operator
    PROVE  MixInv'
<1>1. CASE BeginPass
  BY <1>1, ElsewhereMixInv DEF BeginPass, apiVars, cachedApp
<1>2. CASE CreateFleet
  <2>1. /\ ~ctl.exists /\ Live = {} /\ held.spec = app.spec
    BY <1>2 DEF CreateFleet, WriteInv, MixInv
  <2>2. /\ UNCHANGED <<ctl, pods>> /\ Live' = Live
        /\ sts' = buildStatefulSet(held.spec)
        /\ app'.spec = app.spec /\ pc' = "idle"
    BY <1>2, EndPassKeepsSpec DEF CreateFleet, clusterVars, Live, Exists
  <2>3. sts'.partition = 0 /\ sts'.template = app.spec.template
    BY <2>1, <2>2 DEF buildStatefulSet
  <2>4. Restarted'
    BY <2>1, <2>2, <2>3 DEF Restarted
  <2> QED
    BY <2>1, <2>2, <2>3, <2>4 DEF MixInv
<1>3. CASE AwaitPause
  BY <1>3, EndPassKeepsSpec, ElsewhereMixInv DEF AwaitPause, clusterVars
<1>4. CASE DecideFleet
  <2>1. UNCHANGED <<sts, ctl, stat, pods>> /\ pc = "decide"
    BY <1>4 DEF DecideFleet, Deciding, clusterVars
  <2>2. pc' = "idle" \/ UNCHANGED held
    BY <1>4, Decisions, EndPassKeepsSpec DEF Intend
  <2>3. app'.spec = app.spec
    BY <1>4, Decisions, EndPassKeepsSpec DEF Intend
  <2> QED
    BY <2>1, <2>2, <2>3, ElsewhereMixInv DEF MixInv
<1>5. CASE updateFleet
  <2>1. CASE seen # [sts |-> sts, stat |-> stat]
    BY <1>5, <2>1, EndPassKeepsSpec, ElsewhereMixInv DEF updateFleet, clusterVars
  <2> QED
    BY <1>5, <2>1, LandsMixInv
<1>6. CASE AbortPass
  BY <1>6, ElsewhereMixInv DEF AbortPass, DropPass, apiVars
<1> QED
  BY <1>1, <1>2, <1>3, <1>4, <1>5, <1>6 DEF Operator

\* A new pod gets a revision that the controller has, of the ones its partition allows.
LEMMA CtlCreateMixInv ==
    ASSUME TypeOK, MixInv, NEW o \in Ordinals, CtlCreate(o)
    PROVE  MixInv'
<1>1. /\ UNCHANGED <<app, sts, stat, ctl, pc, held>> /\ ctl.exists /\ ctl.replicas # 0
      /\ \A q \in Live' : q = o \/ (q \in Live /\ pods'[q] = pods[q])
      /\ \/ pods'[o].rev = ctl.template
         \/ pods'[o].rev = stat.currentRevision /\ stat.currentRevision # NoTemplate
  BY NewPod
<1>2. ctl.partition = 0 => pods'[o].rev = ctl.template
  BY NewPod, ConstantsAssumption, SMT DEF Ordinals
<1>3. \A R : RunsOnly(R) => pods'[o].rev \in R
  BY <1>1 DEF RunsOnly
<1>4. Uniform => Uniform'
  BY <1>1, <1>3 DEF Uniform, RunsOnly
<1>5. Rolled => Rolled'
  BY <1>1, <1>3 DEF Rolled, RunsOnly
<1>6. Restarted => Restarted'
  BY <1>1, <1>2 DEF Restarted
<1> QED
  BY <1>1, <1>4, <1>5, <1>6 DEF MixInv

LEMMA StatefulSetControllerMixInv ==
    ASSUME TypeOK, WriteInv, MixInv, StatefulSetController
    PROVE  MixInv'
<1>1. CASE CtlFetch
  <2>1. /\ UNCHANGED <<app, sts, stat, pods, pc, held, seen, want>> /\ Live' = Live
        /\ ctl' = SpecOf(sts)
    BY <1>1 DEF CtlFetch, apiVars, passVars, Live, Exists
  <2>2. /\ ctl'.exists = sts.exists /\ ctl'.template = sts.template
        /\ ctl'.partition = sts.partition
    BY <2>1 DEF SpecOf
  <2>3. (Uniform => Uniform') /\ (Rolled => Rolled') /\ (Restarted => Restarted')
    BY <2>1, <2>2 DEF Uniform, Rolled, Restarted, RunsOnly
  <2>4. ~sts.exists => Live = {}
    BY DEF WriteInv, MixInv
  <2> QED
    BY <2>1, <2>2, <2>3, <2>4 DEF MixInv
<1>2. CASE CtlStatus
  <2>1. /\ UNCHANGED <<app, sts, ctl, pods, pc, held, seen, want>> /\ Live' = Live
        /\ ctl.exists
    BY <1>2 DEF CtlStatus, passVars, Live, Exists
  <2>2. stat'.currentRevision \in {ctl.template, stat.currentRevision}
    BY <1>2 DEF CtlStatus, currentRevision
  <2>3. Uniform => Uniform'
    BY <2>1, <2>2 DEF Uniform, RunsOnly
  <2>4. Rolled => Rolled'
    BY <2>1, <2>2 DEF Rolled, RunsOnly
  <2>5. Restarted => Restarted'
    BY <2>1 DEF Restarted
  <2> QED
    BY <2>1, <2>3, <2>4, <2>5 DEF MixInv
<1>3. ASSUME NEW o \in Ordinals, CtlScaleDown(o) \/ CtlUpdate(o)
      PROVE  MixInv'
  BY <1>3, EvictionPods, PodsLeaveMixInv DEF PodsOnly
<1> QED
  BY <1>1, <1>2, <1>3, CtlCreateMixInv DEF StatefulSetController

\* The HPA moves neither the template nor the partition.
LEMMA KedaMixInv ==
    ASSUME TypeOK, MixInv, Keda
    PROVE  MixInv'
<1>1. CASE KedaRemovesHpa \/ KedaAcknowledges \/ KedaResumes
  BY <1>1, ElsewhereMixInv DEF KedaRemovesHpa, KedaAcknowledges, KedaResumes, passVars, MixInv
<1>2. ASSUME NEW n \in 1 .. MaxReplicas, HpaScales(n)
      PROVE  MixInv'
  <2>1. UNCHANGED <<app, ctl, pods, pc, held, seen, want>> /\ Live' = Live /\ sts.exists
    BY <1>2 DEF HpaScales, passVars, Live, Exists
  <2>2. /\ sts'.template = sts.template /\ sts'.partition = sts.partition
        /\ stat'.currentRevision = stat.currentRevision
    BY <1>2, FieldTypes DEF HpaScales, StsSet, StatSet
  <2>3. (Uniform => Uniform') /\ (Rolled => Rolled') /\ (Restarted => Restarted')
    BY <2>1, <2>2 DEF Uniform, Rolled, Restarted, RunsOnly
  <2> QED
    BY <2>1, <2>2, <2>3 DEF MixInv
<1> QED
  BY <1>1, <1>2 DEF Keda

\* The user edits a uniform fleet, and between two passes.
LEMMA EditSpecMixInv ==
    ASSUME EditAtRest, TypeOK, WriteInv, MixInv, NEW s \in Specs, EditSpec(s)
    PROVE  MixInv'
<1>1. UNCHANGED <<sts, stat, ctl, pods, pc, held, seen, want>> /\ Live' = Live
  BY DEF EditSpec, passVars, Live, Exists
<1>2. /\ pc = "idle" /\ stat.observed /\ stat.currentRevision = sts.template
      /\ \A o \in Live : pods[o].rev = sts.template
  BY DEF EditSpec, AtRest
<1>3. ctl.template = sts.template
  BY <1>2, SMT DEF WriteInv, SpecOf
<1>4. Uniform'
  BY <1>1, <1>2, <1>3 DEF Uniform, RunsOnly
<1>5. (Rolled => Rolled') /\ (Restarted => Restarted')
  BY <1>1 DEF Rolled, Restarted, RunsOnly
<1> QED
  BY <1>1, <1>2, <1>4, <1>5 DEF MixInv

LEMMA MixInvInit == Init => MixInv
<1> SUFFICES ASSUME Init PROVE MixInv
  OBVIOUS
<1>1. Live = {}
  BY DEF Init, Live, Exists, NoPod
<1> QED
  BY <1>1 DEF Init, MixInv, NoSts

LEMMA MixInvStep ==
    EditAtRest /\ ~AppLags
        => (TypeOK /\ MoveInv /\ WriteInv /\ MixInv /\ [Next]_vars => MixInv')
<1> SUFFICES ASSUME EditAtRest, ~AppLags, TypeOK, MoveInv, WriteInv, MixInv, [Next]_vars
             PROVE  MixInv'
  OBVIOUS
<1>1. CASE UNCHANGED vars
  BY <1>1, ElsewhereMixInv DEF vars, MixInv
<1>2. CASE Informers
  BY <1>2, ElsewhereMixInv
     DEF Informers, SyncApp, SyncPod, SettleElapses, apiVars, passVars, MixInv
<1>3. CASE Kubelets
  BY <1>3, KubeletsPods, PodsLeaveMixInv DEF PodsOnly
<1> QED
  BY <1>1, <1>2, <1>3, OperatorMixInv, StatefulSetControllerMixInv, KedaMixInv,
     EditSpecMixInv DEF Next

LEMMA MixInvSuffices == TypeOK /\ WriteInv /\ MixInv => NoMixedFleet
<1> SUFFICES ASSUME TypeOK, WriteInv, MixInv, NEW o \in Live, NEW p \in Live
             PROVE  ~CannotMix(pods[o].rev, pods[p].rev)
  BY DEF NoMixedFleet
<1>1. sts.exists /\ sts.template \in Templates
  BY FieldTypes DEF MixInv, WriteInv, StsSet
<1>2. ~fleetBreaking(sts.template, sts.template)
  BY <1>1, NotSelfBreaking
<1>3. CASE Rolled
  <2>1. PICK t \in Templates : ~fleetBreaking(t, sts.template) /\ RunsOnly({t, sts.template})
    BY <1>3 DEF Rolled
  <2>2. ~fleetBreaking(t, t)
    BY NotSelfBreaking
  <2>3. pods[o].rev \in {t, sts.template} /\ pods[p].rev \in {t, sts.template}
    BY <2>1 DEF RunsOnly
  <2> QED
    BY <1>2, <2>1, <2>2, <2>3 DEF CannotMix
<1>4. CASE Restarted
  BY <1>2, <1>4 DEF Restarted, CannotMix
<1> QED
  BY <1>1, <1>3, <1>4 DEF MixInv

\* If the user edits the spec only when the fleet is at rest, and the operator reads
\* the WorkerApp as it is: no two pods ever run runtimes that must not serve together.
\* The run stale_revision shows what happens without the first condition.
THEOREM NoMixedFleetHolds ==
    ASSUME EditAtRest, ~AppLags
    PROVE  Spec => []NoMixedFleet
<1>1. TypeOK /\ MoveInv /\ WriteInv /\ MixInv /\ [Next]_vars => MixInv'
  BY MixInvStep
<1> QED
  BY <1>1, TypeCorrect, MoveInvHolds, WriteInvHolds, MixInvInit, MixInvSuffices, PTL DEF Spec
=============================================================================
