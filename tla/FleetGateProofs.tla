--------------------------- MODULE FleetGateProofs --------------------------
(***************************************************************************)
(* What the gates of a rollout guarantee of a fleet that no HPA scales: for *)
(* any specs, number of replicas, edits, conflicts and aborted passes, and  *)
(* however the StatefulSet controller lags.                                 *)
(***************************************************************************)
EXTENDS FleetRolloutProofs

\* Zenon proves a leaf unless it names another prover.
USE Zenon

-----------------------------------------------------------------------------
(* The steps of a fleet that no HPA scales *)

\* No spec brings an HPA.
Unscaled == ~KedaInstalled \/ \A s \in Specs : ~s.autoscaling

\* Only the spec, a cache, the settle interval or the end of a pass.
Aside ==
    /\ UNCHANGED <<sts, stat, ctl, pods, restoring, hpa>>
    /\ pc' = "idle" \/ UNCHANGED <<pc, held, seen, want>>

\* The write of a fleet that was missing, the decision for a write, and its landing.
Creates ==
    /\ pc = "decide" /\ ~seen.sts.exists /\ pc' = "idle"
    /\ sts' = buildStatefulSet(held.spec)
    /\ UNCHANGED <<stat, ctl, pods, restoring, hpa>>

Intends ==
    /\ pc = "decide" /\ pc' = "write"
    /\ Decided(want'.sts) /\ want'.outcome.phase # "Ready"
    /\ UNCHANGED <<sts, stat, ctl, pods, restoring, hpa, held, seen>>

Lands ==
    /\ pc = "write" /\ pc' = "idle"
    /\ seen = [sts |-> sts, stat |-> stat]
    /\ sts' = want.sts /\ stat' = [stat EXCEPT !.observed = FALSE]
    /\ UNCHANGED <<ctl, pods, restoring, hpa>>

LEMMA OperatorSteps ==
    ASSUME TypeOK, Operator
    PROVE  BeginPass \/ Aside \/ Creates \/ Intends \/ Lands
<1>1. \A o : EndPass(o) => pc' = "idle"
  BY DEF EndPass, DropPass
<1>2. CASE CreateFleet
  BY <1>1, <1>2 DEF CreateFleet, Creates, clusterVars
<1>3. CASE AwaitPause
  BY <1>1, <1>3 DEF AwaitPause, Aside, clusterVars
<1>4. CASE DecideFleet
  <2>1. pc = "decide" /\ UNCHANGED <<sts, stat, ctl, pods, restoring, hpa>>
    BY <1>4 DEF DecideFleet, Deciding, clusterVars
  <2>2. CASE \E o : EndPass(o)
    BY <1>1, <2>1, <2>2 DEF Aside
  <2>3. ASSUME NEW s, NEW stamp, NEW o, Intend(s, stamp, o), o.phase # "Ready", Decided(s)
        PROVE  Intends
    <3>1. pc' = "write" /\ want'.sts = s /\ want'.outcome = o /\ UNCHANGED <<held, seen>>
      BY <2>3 DEF Intend
    <3>2. Decided(want'.sts) /\ want'.outcome.phase # "Ready"
      BY <2>3, <3>1
    <3> QED
      BY <2>1, <3>1, <3>2 DEF Intends
  <2> QED
    BY <1>4, <2>2, <2>3, Decisions
<1>5. CASE updateFleet
  BY <1>1, <1>5 DEF updateFleet, Lands, Aside, clusterVars
<1>6. CASE AbortPass
  BY <1>6 DEF AbortPass, DropPass, Aside, apiVars
<1> QED
  BY <1>2, <1>3, <1>4, <1>5, <1>6 DEF Operator

LEMMA Steps ==
    ASSUME TypeOK, scaler = "none", ~hpa, [Next]_vars
    PROVE  \/ BeginPass \/ Aside \/ Creates \/ Intends \/ Lands
           \/ StatefulSetController \/ Kubelets
<1>1. CASE UNCHANGED vars
  BY <1>1 DEF vars, Aside
<1>2. CASE Informers
  BY <1>2 DEF Informers, SyncApp, SyncPod, SettleElapses, apiVars, passVars, Aside
<1>3. ASSUME NEW s \in Specs, EditSpec(s)
      PROVE  Aside
  BY <1>3 DEF EditSpec, passVars, Aside
<1>4. ~Keda
  BY DEF Keda, KedaRemovesHpa, KedaAcknowledges, KedaResumes, HpaScales
<1> QED
  BY <1>1, <1>2, <1>3, <1>4, OperatorSteps DEF Next

-----------------------------------------------------------------------------
(* A pass over a fleet that nobody else writes *)

\* The StatefulSet stays as the pass has read it, and so does the controller's view of
\* it once it was observed.
PassInv ==
    /\ scaler = "none" /\ ~hpa
    /\ ~sts.exists => sts = NoSts
    /\ ~ctl.exists => Live = {} /\ ctl = SpecOf(NoSts)
    /\ pc # "idle" => seen.sts = sts
    /\ stat.observed => stat.updateRevision = sts.template
    /\ pc # "idle" /\ seen.stat.observed
         => ctl = SpecOf(sts) /\ seen.stat.updateRevision = sts.template

\* Without an HPA to pause there is no ScaledObject.
LEMMA NoScaler ==
    ASSUME Unscaled, TypeOK, scaler = "none", ~hpa, [Next]_vars
    PROVE  scaler' = "none" /\ ~hpa'
<1>1. ~(autoscalingEnabled /\ KedaInstalled)
  BY FieldTypes DEF Unscaled, autoscalingEnabled
<1>2. \A o : EndPass(o) => scaler' = "none"
  BY <1>1 DEF EndPass, ensureScaledObject
<1>3. CASE Operator
  <2>1. CASE DecideFleet
    BY <2>1, <1>2, Decisions DEF Intend, DecideFleet, Deciding, clusterVars
  <2> QED
    BY <1>2, <1>3, <2>1, SMT
    DEF Operator, BeginPass, CreateFleet, AwaitPause, updateFleet, AbortPass,
       apiVars, clusterVars
<1>4. CASE UNCHANGED vars
  BY <1>4 DEF vars
<1>5. CASE Informers \/ StatefulSetController \/ \E s \in Specs : EditSpec(s)
  BY <1>5, SMT DEF Informers, SyncApp, SyncPod, SettleElapses, StatefulSetController, CtlFetch,
     CtlStatus, CtlCreate, CtlScaleDown, CtlUpdate, EditSpec, apiVars
<1>6. CASE Kubelets
  BY <1>6, KubeletsPods, SMT DEF PodsOnly
<1>7. ~Keda
  BY DEF Keda, KedaRemovesHpa, KedaAcknowledges, KedaResumes, HpaScales
<1> QED
  BY <1>3, <1>4, <1>5, <1>6, <1>7 DEF Next

LEMMA PassInvInit == Init => PassInv
<1> SUFFICES ASSUME Init PROVE PassInv
  OBVIOUS
<1>1. Live = {}
  BY DEF Init, Live, Exists, NoPod
<1> QED
  BY <1>1 DEF Init, PassInv, NoStat

LEMMA PassInvStep ==
    Unscaled => (TypeOK /\ MoveInv /\ WriteInv /\ PassInv /\ [Next]_vars => PassInv')
<1> SUFFICES ASSUME Unscaled, TypeOK, MoveInv, WriteInv, PassInv, [Next]_vars
             PROVE  PassInv'
  OBVIOUS
<1>1. scaler' = "none" /\ ~hpa'
  BY NoScaler DEF PassInv
<1>2. pods' = pods => Live' = Live
  BY DEF Live, Exists
<1>3. CASE BeginPass
  BY <1>1, <1>2, <1>3 DEF BeginPass, apiVars, PassInv, WriteInv
<1>4. CASE Aside
  BY <1>1, <1>2, <1>4 DEF Aside, PassInv
<1>5. CASE Creates
  <2>1. ~stat.observed /\ sts'.exists
    BY <1>5 DEF Creates, WriteInv, PassInv, buildStatefulSet
  <2> QED
    BY <1>1, <1>2, <1>5, <2>1 DEF Creates, PassInv
<1>6. CASE Intends
  BY <1>1, <1>2, <1>6 DEF Intends, PassInv
<1>7. CASE Lands
  <2>1. ~stat'.observed /\ sts'.exists
    BY <1>7, FieldTypes DEF Lands, MoveInv, Moves, StatSet
  <2> QED
    BY <1>1, <1>2, <1>7, <2>1 DEF Lands, PassInv
<1>8. CASE CtlFetch
  <2>1. /\ UNCHANGED <<sts, stat, pods, pc, seen>> /\ ctl' = SpecOf(sts) /\ ctl # SpecOf(sts)
    BY <1>8 DEF CtlFetch, apiVars, passVars
  <2>2. ~stat.observed /\ (pc # "idle" => ~seen.stat.observed)
    BY <2>1 DEF WriteInv, PassInv
  <2>3. ~ctl'.exists => Live = {} /\ sts = NoSts
    BY <2>1 DEF SpecOf, WriteInv, PassInv
  <2> QED
    BY <1>1, <1>2, <2>1, <2>2, <2>3 DEF PassInv
<1>9. CASE CtlStatus
  <2>1. /\ UNCHANGED <<sts, ctl, pods, pc, seen>>
        /\ stat'.updateRevision = ctl.template /\ stat'.observed = (ctl = SpecOf(sts))
    BY <1>9 DEF CtlStatus, passVars
  <2>2. ctl = SpecOf(sts) => ctl.template = sts.template
    BY SMT DEF SpecOf
  <2> QED
    BY <1>1, <1>2, <2>1, <2>2 DEF PassInv
<1>10. ASSUME NEW o \in Ordinals, CtlCreate(o)
       PROVE  PassInv'
  BY <1>1, <1>10, NewPod DEF PassInv
<1>11. CASE PodsOnly
  BY <1>1, <1>11 DEF PodsOnly, PassInv
<1> QED
  BY <1>3, <1>4, <1>5, <1>6, <1>7, <1>8, <1>9, <1>10, <1>11, Steps, KubeletsPods, EvictionPods
     DEF PassInv, StatefulSetController

-----------------------------------------------------------------------------
(* The frontier of a rollout *)

Released(s) == s.exists /\ s.partition < s.replicas

\* Every pod above the last ordinal that s released runs the template of s.
RunsAbove(s) == \A o \in Live : s.partition < o => pods[o].rev = s.template

\* A controller that works from c creates no other pod above that ordinal.
Follows(c, s) ==
    \A o \in Ordinals : s.partition < o /\ o < c.replicas
        => c.template = s.template /\ c.partition <= o

\* Why ReleasedRunNewRevision holds: of the StatefulSet and of the one a pass is about
\* to write.
GateInv ==
    /\ Released(sts) => RunsAbove(sts) /\ Follows(ctl, sts)
    /\ pc = "write" /\ Released(want.sts)
         => RunsAbove(want.sts) /\ Follows(ctl, want.sts) /\ Follows(sts, want.sts)

\* The revision that the pod cache shows is the pod's, if it is the one that the gate asks for.
CacheTrue ==
    \A o \in Live : cachedPods[o].rev = sts.template => pods[o].rev = sts.template

\* The integers that the proofs compare.
LEMMA Numbers ==
    ASSUME TypeOK
    PROVE  /\ sts.partition \in Nat /\ sts.replicas \in Nat
           /\ want.sts.partition \in Nat /\ want.sts.replicas \in Nat
           /\ ctl.partition \in Nat /\ ctl.replicas \in Nat
           /\ Ordinals \subseteq Nat
<1>1. 0 .. MaxReplicas \subseteq Nat /\ Ordinals \subseteq Nat
  BY ConstantsAssumption, SMT DEF Ordinals
<1>2. sts \in StsSet /\ want.sts \in StsSet /\ ctl \in CtlSet
  BY DEF TypeOK, WantSet
<1> QED
  BY <1>1, <1>2 DEF StsSet, CtlSet

LEMMA FollowsSpec ==
    ASSUME NEW f, NEW s
    PROVE  Follows(SpecOf(f), s) = Follows(f, s)
BY DEF Follows, SpecOf

LEMMA FollowsItself ==
    ASSUME TypeOK
    PROVE  Follows(sts, sts)
BY Numbers, SMT DEF Follows

\* What a pass has seen when it decides on a write that releases pods: an empty fleet
\* to start, or one in which every pod released so far runs the new revision.
LEMMA ReleasingWrite ==
    ASSUME TypeOK, MoveInv, WriteInv, PassInv, CacheTrue, Intends, Released(want'.sts)
    PROVE  \/ /\ Live = {} /\ sts.replicas = 0 /\ ctl = SpecOf(sts)
           \/ /\ ctl = SpecOf(sts) /\ Live = Below(sts.replicas)
              /\ \A o \in Live : /\ podReady(pods[o])
                                 /\ sts.partition <= o => pods[o].rev = sts.template
              /\ ~restoring
              /\ ReleasesTo(sts, want'.sts)
           \/ ScalesTo(sts, want'.sts, held.spec) /\ Released(sts)
<1> DEFINE s == want'.sts
<1>1. /\ live = sts /\ Decided(s) /\ pc = "decide" /\ Released(s)
      /\ seen.stat.observed => ctl = SpecOf(sts) /\ seen.stat.updateRevision = sts.template
  BY DEF Intends, live, PassInv
<1> HIDE DEF s
<1>2. /\ s.partition < s.replicas /\ s.partition \in Nat /\ s.replicas \in Nat
      /\ sts.partition \in Nat /\ sts.replicas \in Nat
  <2>1. 0 .. MaxReplicas \subseteq Nat
    BY ConstantsAssumption, SMT
  <2> QED
    BY <1>1, <2>1, Numbers DEF Decided, StsSet, Released
<1>3. ~StopsTo(sts, s) /\ ~RollsTo(sts, s, held.spec) /\ ~ClampsTo(sts, s)
  BY <1>2, SMT DEF StopsTo, RollsTo, ClampsTo
<1>4. CASE StartsTo(sts, s, held.spec) /\ Stopped
  BY <1>1, <1>4 DEF StartsTo, Stopped
<1>5. CASE ReleasesTo(sts, s) /\ gatesPass
  <2>1. /\ ctl = SpecOf(sts) /\ Live = Below(sts.replicas) /\ ~restoring
        /\ \A o \in Live : podReady(pods[o])
        /\ releasedUpdated /\ seen.stat.updateRevision = sts.template
    BY <1>1, <1>5 DEF gatesPass, observable
  <2>2. ASSUME NEW o \in Live, sts.partition <= o
        PROVE  pods[o].rev = sts.template
    <3>1. o \in Ordinals /\ o >= sts.partition /\ o < sts.replicas
      BY <1>2, <2>1, <2>2, Numbers DEF Below
    <3>2. cachedPods[o].rev = sts.template
      BY <1>1, <2>1, <3>1 DEF releasedUpdated
    <3> QED
      BY <3>2 DEF CacheTrue
  <2> QED
    BY <1>5, <2>1, <2>2 DEF s
<1>6. CASE ScalesTo(sts, s, held.spec)
  <2>1. Running(sts) /\ sts.partition = 0
    BY <1>1, <1>6 DEF ScalesTo, Running, Decided, Moves
  <2>2. Released(sts)
    BY <1>2, <2>1, SMT DEF MoveInv, Running, Released
  <2> QED
    BY <1>6, <2>2 DEF s
<1> QED
  BY <1>1, <1>3, <1>4, <1>5, <1>6 DEF Decided

LEMMA IntendsGateInv ==
    ASSUME TypeOK, MoveInv, WriteInv, PassInv, CacheTrue, GateInv, Intends
    PROVE  GateInv'
<1> DEFINE s == want'.sts
<1>1. /\ UNCHANGED <<sts, stat, ctl, pods>> /\ Live' = Live
  BY DEF Intends, Live, Exists
<1>2. GateInv' <=> /\ Released(sts) => RunsAbove(sts) /\ Follows(ctl, sts)
                   /\ Released(s) => RunsAbove(s) /\ Follows(ctl, s) /\ Follows(sts, s)
  BY <1>1 DEF Intends, GateInv, Released, RunsAbove, Follows
<1> HIDE DEF s
<1> SUFFICES ASSUME Released(s)
             PROVE  RunsAbove(s) /\ Follows(ctl, s) /\ Follows(sts, s)
  BY <1>2 DEF GateInv
<1>3. CASE Live = {} /\ sts.replicas = 0 /\ ctl = SpecOf(sts)
  <2>1. ctl.replicas = 0
    BY <1>3 DEF SpecOf
  <2> QED
    BY <1>3, <2>1, Numbers, SMT DEF RunsAbove, Follows
<1>4. CASE /\ ctl = SpecOf(sts)
           /\ \A o \in Live : sts.partition <= o => pods[o].rev = sts.template
           /\ ReleasesTo(sts, s)
  <2>1. \A o \in Ordinals : s.partition < o => sts.partition <= o
    BY <1>4, Numbers, SMT DEF ReleasesTo
  <2>2. s.template = sts.template
    BY <1>4 DEF ReleasesTo
  <2>3. RunsAbove(s) /\ Follows(sts, s)
    BY <1>4, <2>1, <2>2 DEF RunsAbove, Follows, Live
  <2> QED
    BY <1>4, <2>3, FollowsSpec
<1>5. CASE ScalesTo(sts, s, held.spec) /\ Released(sts)
  <2>1. s.template = sts.template /\ s.partition = sts.partition
    BY <1>5 DEF ScalesTo
  <2>2. RunsAbove(sts) /\ Follows(ctl, sts) /\ Follows(sts, sts)
    BY <1>5, FollowsItself DEF GateInv
  <2> QED
    BY <2>1, <2>2 DEF RunsAbove, Follows
<1> QED
  BY <1>3, <1>4, <1>5, ReleasingWrite DEF s

LEMMA GateInvInit == Init => GateInv
BY SMT DEF Init, GateInv, Released, NoSts

LEMMA GateInvStep ==
    TypeOK /\ MoveInv /\ WriteInv /\ PassInv /\ CacheTrue /\ GateInv /\ [Next]_vars => GateInv'
<1> SUFFICES ASSUME TypeOK, MoveInv, WriteInv, PassInv, CacheTrue, GateInv, [Next]_vars
             PROVE  GateInv'
  OBVIOUS
<1>1. pods' = pods => Live' = Live
  BY DEF Live, Exists
<1>2. CASE BeginPass \/ Aside
  BY <1>1, <1>2 DEF BeginPass, apiVars, Aside, GateInv, Released, RunsAbove, Follows
<1>3. CASE Creates
  <2>1. ~ctl.exists /\ Live = {} /\ ctl.replicas = 0
    BY <1>3, SMT DEF Creates, PassInv, WriteInv, SpecOf, NoSts
  <2>2. Live' = {} /\ ctl'.replicas = 0 /\ pc' = "idle"
    BY <1>1, <1>3, <2>1 DEF Creates
  <2>3. RunsAbove(sts)' /\ Follows(ctl, sts)'
    BY <2>2, Numbers, SMT DEF RunsAbove, Follows
  <2> QED
    BY <2>2, <2>3 DEF GateInv
<1>4. CASE Lands
  BY <1>1, <1>4 DEF Lands, GateInv, Released, RunsAbove, Follows
<1>5. CASE CtlFetch
  <2>1. UNCHANGED <<sts, pods, pc, want>> /\ ctl' = SpecOf(sts) /\ Live' = Live
    BY <1>5 DEF CtlFetch, apiVars, passVars, Live, Exists
  <2>2. \A s : Follows(sts, s) => Follows(ctl', s)
    BY <2>1, FollowsSpec
  <2> QED
    BY <2>1, <2>2, FollowsItself DEF GateInv, Released, RunsAbove, Follows
<1>6. CASE CtlStatus
  BY <1>1, <1>6 DEF CtlStatus, passVars, GateInv, Released, RunsAbove, Follows
<1>7. ASSUME NEW o \in Ordinals, CtlCreate(o)
      PROVE  GateInv'
  <2>1. /\ UNCHANGED <<sts, ctl, pc, want>> /\ o < ctl.replicas
        /\ \A q \in Live' : q = o \/ (q \in Live /\ pods'[q] = pods[q])
        /\ ctl.partition <= o => pods'[o].rev = ctl.template
    BY <1>7, NewPod
  <2>2. ASSUME NEW s, RunsAbove(s), Follows(ctl, s)
        PROVE  \A q \in Live' : s.partition < q => pods'[q].rev = s.template
    BY <2>1, <2>2, SMT DEF RunsAbove, Follows
  <2> QED
    BY <2>1, <2>2 DEF GateInv, Released, RunsAbove, Follows
<1>8. CASE PodsOnly
  BY <1>8 DEF PodsOnly, GateInv, Released, RunsAbove, Follows
<1> QED
  BY <1>2, <1>3, <1>4, <1>5, <1>6, <1>7, <1>8, IntendsGateInv, Steps, KubeletsPods,
     EvictionPods DEF PassInv, StatefulSetController

LEMMA GateInvSuffices == TypeOK /\ GateInv => ReleasedRunNewRevision
<1> SUFFICES ASSUME TypeOK, GateInv, NEW o \in Live, sts.exists,
                    sts.partition < o, o < sts.replicas
             PROVE  pods[o].rev = sts.template
  BY DEF ReleasedRunNewRevision
<1>1. Released(sts)
  BY Numbers, SMT DEF Released, Live
<1> QED
  BY <1>1 DEF GateInv, RunsAbove

-----------------------------------------------------------------------------
(* The pod cache, for one edit of the spec *)

FirstTemplate == FirstSpec.template

\* Who has seen the spec that follows the first one.
SpecInv ==
    /\ edits = 0 => app.spec = FirstSpec
    /\ lister.spec \in {FirstSpec, app.spec}
    /\ pc # "idle" => held.spec = FirstSpec \/ (held.spec = app.spec /\ cachedApp.spec = app.spec)
    /\ sts.exists /\ sts.template # FirstTemplate
         => /\ sts.template = app.spec.template /\ cachedApp.spec = app.spec
            /\ pc # "idle" => held.spec = app.spec

\* The StatefulSet has the second template.
Second == sts.exists /\ sts.template # FirstTemplate
Revs == {FirstTemplate, sts.template}

\* The pod o, if it were created now, would get the StatefulSet's template.
Moved(o) ==
    /\ ctl.template = sts.template
    /\ ctl.partition <= o \/ currentRevision = sts.template

\* A pod that runs the StatefulSet's template, or that the cache shows to run it, is
\* replaced by none that does not.
Kept(o) ==
    /\ podLister[o].rev = sts.template => Moved(o)
    /\ Exists(o) /\ pods[o].rev = sts.template => Moved(o)
    /\ Exists(o) /\ podLister[o].rev = sts.template => pods[o].rev = sts.template

\* What the cache shows of a pod of the second template is old, but still true.
LagInv ==
    /\ \A o \in Ordinals : IF Exists(o) THEN pods[o].rev \in Revs ELSE pods[o] = NoPod
    /\ \A o \in Ordinals : podLister[o].rev \in Revs \cup {NoTemplate}
    /\ ctl.exists => ctl.template \in Revs
    /\ stat.currentRevision \in Revs \cup {NoTemplate}
    /\ Second => /\ stat.currentRevision = sts.template => ctl.template = sts.template
                 /\ ctl.template = sts.template => sts.partition <= ctl.partition
                 /\ \A o \in Ordinals : Kept(o)

\* The last calls of a pass leave the spec alone, and so do its writes.
LEMMA SpecStays ==
    ASSUME TypeOK, Creates \/ Intends \/ Lands \/ Aside \/ BeginPass, Operator
    PROVE  UNCHANGED <<lister, edits>> /\ app'.spec = app.spec
<1>1. \A o : EndPass(o) => app'.spec = app.spec
  BY DEF EndPass, updateStatus, TypeOK, AppSet
<1>2. CASE DecideFleet
  BY <1>1, <1>2, Decisions DEF Intend, DecideFleet, Deciding, clusterVars
<1> QED
  BY <1>1, <1>2 DEF Operator, BeginPass, CreateFleet, AwaitPause, updateFleet, AbortPass,
     apiVars, clusterVars, countVars

\* The template that a pass writes, and the partition if the template stays.
LEMMA WrittenTemplate ==
    ASSUME TypeOK, MoveInv, PassInv, Lands
    PROVE  /\ want.sts.template \in {sts.template, held.spec.template} /\ want.sts.exists
           /\ sts.exists
           /\ want.sts.template = sts.template => want.sts.partition <= sts.partition
<1>1. Moves(sts, want.sts, held.spec)
  BY DEF Lands, MoveInv, PassInv
<1> QED
  BY <1>1, Numbers, SMT DEF Moves, StopsTo, StartsTo, RollsTo, ClampsTo, ReleasesTo, ScalesTo

LEMMA SpecInvInit == Init => SpecInv
<1>1. NoHeld.spec = FirstSpec /\ ~NoSts.exists
  BY DEF NoHeld, NoSts
<1> QED
  BY <1>1 DEF Init, SpecInv

LEMMA SpecInvStep ==
    MaxEdits <= 1
        => (TypeOK /\ MoveInv /\ PassInv /\ SpecInv /\ [Next]_vars => SpecInv')
<1> SUFFICES ASSUME MaxEdits <= 1, TypeOK, MoveInv, PassInv, SpecInv, [Next]_vars
             PROVE  SpecInv'
  OBVIOUS
<1>1. CASE Operator
  <2>1. UNCHANGED <<lister, edits>> /\ app'.spec = app.spec
    BY <1>1, SpecStays, OperatorSteps
  <2>2. cachedApp'.spec = cachedApp.spec
    BY <2>1 DEF cachedApp
  <2>3. CASE BeginPass
    BY <2>1, <2>2, <2>3 DEF BeginPass, apiVars, SpecInv, cachedApp
  <2>4. CASE Aside \/ Intends
    BY <2>1, <2>2, <2>4 DEF Aside, Intends, SpecInv
  <2>5. CASE Creates
    <3>1. sts'.template = held.spec.template /\ pc' = "idle" /\ pc # "idle"
      BY <2>5 DEF Creates, buildStatefulSet
    <3> QED
      BY <2>1, <2>2, <3>1 DEF SpecInv, FirstTemplate
  <2>6. CASE Lands
    <3>1. /\ sts'.template \in {sts.template, held.spec.template} /\ sts.exists
          /\ pc' = "idle" /\ pc # "idle"
      BY <2>6, WrittenTemplate DEF Lands
    <3> QED
      BY <2>1, <2>2, <3>1 DEF SpecInv, FirstTemplate
  <2> QED
    BY <1>1, <2>3, <2>4, <2>5, <2>6, OperatorSteps
<1>2. ASSUME NEW s \in Specs, EditSpec(s)
      PROVE  SpecInv'
  <2>1. edits = 0 /\ edits' = 1 /\ UNCHANGED <<sts, lister, pc, held>>
    BY <1>2, ConstantsAssumption, SMT DEF EditSpec, TypeOK, passVars
  <2>2. app.spec = FirstSpec
    BY <2>1 DEF SpecInv
  <2> QED
    BY <2>1, <2>2, SMT DEF SpecInv, FirstTemplate
<1>3. CASE Informers
  BY <1>3 DEF Informers, SyncApp, SyncPod, SettleElapses, apiVars, passVars, countVars,
     SpecInv, cachedApp
<1>4. CASE StatefulSetController
  BY <1>4, SMT
  DEF StatefulSetController, CtlFetch, CtlStatus, CtlCreate, CtlScaleDown, CtlUpdate,
     apiVars, passVars, countVars, SpecInv, cachedApp
<1>5. CASE Kubelets
  BY <1>5, KubeletsPods DEF PodsOnly, SpecInv, cachedApp
<1>6. CASE UNCHANGED vars
  BY <1>6 DEF vars, SpecInv, cachedApp
<1>7. ~Keda
  BY DEF PassInv, Keda, KedaRemovesHpa, KedaAcknowledges, KedaResumes, HpaScales
<1> QED
  BY <1>1, <1>2, <1>3, <1>4, <1>5, <1>6, <1>7 DEF Next

LEMMA LagInvInit == Init => LagInv
<1> SUFFICES ASSUME Init PROVE LagInv
  OBVIOUS
<1>1. NoPod.st = "absent" /\ NoPod.rev = NoTemplate /\ ~NoSts.exists
      /\ NoStat.currentRevision = NoTemplate /\ ~SpecOf(NoSts).exists
  BY DEF NoPod, NoSts, NoStat, SpecOf
<1>2. \A o \in Ordinals : pods[o] = NoPod /\ podLister[o] = NoPod
  BY DEF Init
<1> QED
  BY <1>1, <1>2 DEF Init, LagInv, Second, Exists

\* Pods leave or change their state.
LEMMA PodsLagInv ==
    ASSUME LagInv, UNCHANGED <<sts, ctl, podLister>>,
           stat'.currentRevision = stat.currentRevision,
           \A o \in Ordinals : \/ pods'[o] \in {NoPod, pods[o]}
                               \/ Exists(o) /\ Exists(o)' /\ pods'[o].rev = pods[o].rev
    PROVE  LagInv'
<1>1. NoPod.st = "absent"
  BY DEF NoPod
<1>2. \A o \in Ordinals : Exists(o)' => Exists(o) /\ pods'[o].rev = pods[o].rev
  BY <1>1 DEF Exists
<1>3. \A o \in Ordinals : ~Exists(o)' => pods'[o] = NoPod
  BY <1>1 DEF LagInv, Exists
<1>4. Revs' = Revs /\ Second' = Second /\ \A o \in Ordinals : Moved(o)' = Moved(o)
  BY DEF Revs, Second, Moved, currentRevision
<1>5. \A o \in Ordinals : Kept(o) => Kept(o)'
  BY <1>2, <1>4 DEF Kept
<1> QED
  BY <1>2, <1>3, <1>4, <1>5 DEF LagInv

\* The first write of the second template finds nothing of it.
LEMMA SecondLagInv ==
    ASSUME TypeOK, WriteInv, PassInv, LagInv, ~Second,
           UNCHANGED <<ctl, pods, podLister>>, stat'.currentRevision = stat.currentRevision,
           sts'.exists, sts'.template # NoTemplate, ~sts.exists => Live = {}
    PROVE  LagInv'
<1>1. NoSts.template = NoTemplate /\ SpecOf(NoSts).template = NoTemplate
  BY DEF NoSts, SpecOf
<1>2. Revs \subseteq {FirstTemplate, NoTemplate} /\ (sts.exists => Revs = {FirstTemplate})
  BY <1>1 DEF Revs, Second, PassInv
<1>3. ctl.template \in {FirstTemplate, NoTemplate}
      /\ (ctl.exists => ctl.template = FirstTemplate)
  BY <1>1, <1>2 DEF LagInv, PassInv, WriteInv
<1>4. \A o \in Ordinals : /\ podLister[o].rev \in {FirstTemplate, NoTemplate}
                          /\ Exists(o) => pods[o].rev = FirstTemplate
  BY <1>2 DEF LagInv, Live
<1>5. stat.currentRevision \in {FirstTemplate, NoTemplate}
  BY <1>2 DEF LagInv
<1>6. \A o \in Ordinals : (Exists(o)' <=> Exists(o)) /\ (~Exists(o) => pods[o] = NoPod)
  BY DEF Exists, LagInv
<1>7. Second' => \A o \in Ordinals : Kept(o)'
  BY <1>4, <1>6 DEF Second, Kept
<1> QED
  BY <1>3, <1>4, <1>5, <1>6, <1>7 DEF LagInv, Second, Revs

LEMMA LandsLagInv ==
    ASSUME TypeOK, MoveInv, WriteInv, PassInv, SpecInv, LagInv, Lands, UNCHANGED podLister
    PROVE  LagInv'
<1>1. /\ sts' = want.sts /\ UNCHANGED <<ctl, pods, podLister>> /\ pc # "idle"
      /\ stat'.currentRevision = stat.currentRevision
  BY FieldTypes DEF Lands, StatSet
<1>2. /\ sts'.exists /\ sts.exists /\ sts'.template # NoTemplate
      /\ sts'.template \in {sts.template, held.spec.template}
      /\ sts'.template = sts.template => sts'.partition <= sts.partition
  BY <1>1, WrittenTemplate DEF Lands, WriteInv
<1>3. CASE ~Second
  BY <1>1, <1>2, <1>3, SecondLagInv
<1>4. CASE Second
  <2>1. sts'.template = sts.template
    BY <1>1, <1>2, <1>4 DEF Second, SpecInv
  <2>2. Revs' = Revs /\ Second' /\ \A o \in Ordinals : Kept(o)' = Kept(o)
    BY <1>1, <1>2, <1>4, <2>1 DEF Revs, Second, Kept, Moved, currentRevision, Exists
  <2>3. ctl.template = sts.template => sts'.partition <= ctl.partition
    <3>1. sts'.partition \in Nat
      BY <1>1, Numbers
    <3> QED
      BY <1>2, <1>4, <2>1, <3>1, Numbers, SMT DEF LagInv
  <2> QED
    BY <1>1, <1>4, <2>1, <2>2, <2>3 DEF LagInv, Exists
<1> QED
  BY <1>3, <1>4

LEMMA CtlFetchLagInv ==
    ASSUME TypeOK, WriteInv, PassInv, LagInv, CtlFetch
    PROVE  LagInv'
<1>1. /\ UNCHANGED <<sts, stat, pods, podLister>> /\ ctl' = SpecOf(sts)
      /\ ctl'.template = sts.template /\ ctl'.partition = sts.partition
      /\ ctl'.exists = sts.exists
  BY DEF CtlFetch, apiVars, SpecOf
<1>2. Revs' = Revs /\ Second' = Second
  BY <1>1 DEF Revs, Second
<1>3. ASSUME Second, NEW o \in Ordinals, Moved(o)
      PROVE  Moved(o)'
  <2>1. ctl.partition <= o => sts.partition <= o
    BY <1>3, Numbers, SMT DEF Moved, LagInv
  <2>2. currentRevision = sts.template => currentRevision' = sts.template
    BY <1>1 DEF currentRevision
  <2> QED
    BY <1>1, <1>3, <2>1, <2>2 DEF Moved
<1>4. Second => \A o \in Ordinals : Kept(o)'
  BY <1>1, <1>3 DEF LagInv, Kept, Exists
<1> QED
  BY <1>1, <1>2, <1>4, Numbers, SMT DEF LagInv, Exists, Revs

LEMMA CtlStatusLagInv ==
    ASSUME TypeOK, LagInv, CtlStatus
    PROVE  LagInv'
<1>1. /\ UNCHANGED <<sts, ctl, pods, podLister>> /\ ctl.exists
      /\ stat'.currentRevision \in {ctl.template, currentRevision}
  BY DEF CtlStatus
<1>2. Revs' = Revs /\ Second' = Second /\ ctl.template \in Revs
  BY <1>1 DEF Revs, Second, LagInv
<1>3. \A o \in Ordinals : Moved(o) => Moved(o)'
  BY <1>1 DEF Moved, currentRevision
<1>4. Second => \A o \in Ordinals : Kept(o)'
  BY <1>1, <1>3 DEF LagInv, Kept, Exists
<1>5. Second => (stat'.currentRevision = sts.template => ctl.template = sts.template)
  BY <1>1 DEF LagInv, currentRevision
<1> QED
  BY <1>1, <1>2, <1>4, <1>5 DEF LagInv, Exists, currentRevision

LEMMA CtlCreateLagInv ==
    ASSUME TypeOK, LagInv, NEW o \in Ordinals, CtlCreate(o)
    PROVE  LagInv'
<1>1. /\ UNCHANGED <<sts, ctl, stat, podLister>> /\ ctl.exists
      /\ \A q \in Ordinals \ {o} : pods'[q] = pods[q]
      /\ Exists(o)'
  BY DEF CtlCreate, TypeOK, Exists
<1>2. /\ ctl.partition <= o => pods'[o].rev = ctl.template
      /\ ctl.partition > o => pods'[o].rev = currentRevision
      /\ ctl.partition <= o \/ ctl.partition > o
  BY NewPod, Numbers, SMT
<1>3. /\ Revs' = Revs /\ Second' = Second /\ ctl.template \in Revs
      /\ \A q \in Ordinals : Moved(q)' = Moved(q)
  BY <1>1 DEF Revs, Second, LagInv, Moved, currentRevision
<1>4. pods'[o].rev \in Revs
  BY <1>2, <1>3 DEF LagInv, currentRevision
<1>5. ASSUME Second, pods'[o].rev = sts.template
      PROVE  Moved(o)
  BY <1>2, <1>5 DEF Moved, LagInv, currentRevision
<1>6. ASSUME Second, podLister[o].rev = sts.template
      PROVE  pods'[o].rev = sts.template
  <2>1. Moved(o)
    BY <1>6 DEF LagInv, Kept
  <2> QED
    BY <1>2, <2>1 DEF Moved
<1>7. Second => \A q \in Ordinals : Kept(q)'
  BY <1>1, <1>3, <1>5, <1>6, SMT DEF LagInv, Kept, Exists
<1> QED
  BY <1>1, <1>3, <1>4, <1>7 DEF LagInv, Exists

LEMMA SyncPodLagInv ==
    ASSUME TypeOK, WriteInv, LagInv, NEW o \in Ordinals, SyncPod(o)
    PROVE  LagInv'
<1>1. /\ UNCHANGED <<sts, ctl, stat, pods>>
      /\ podLister'[o] = pods[o] /\ \A q \in Ordinals \ {o} : podLister'[q] = podLister[q]
  BY DEF SyncPod, apiVars, TypeOK
<1>2. ~Exists(o) => pods[o].rev = NoTemplate
  BY SMT DEF LagInv, NoPod
<1>3. pods[o].rev \in Revs \cup {NoTemplate}
  BY <1>2 DEF LagInv
<1>4. Revs' = Revs /\ Second' = Second /\ \A q \in Ordinals : Moved(q)' = Moved(q)
  BY <1>1 DEF Revs, Second, Moved, currentRevision
<1>5. Second => \A q \in Ordinals : Kept(q)'
  BY <1>1, <1>2, <1>4, SMT DEF LagInv, Kept, Exists, Second, WriteInv
<1> QED
  BY <1>1, <1>3, <1>4, <1>5 DEF LagInv, Exists

\* What becomes of a pod that is evicted, marked or gone.
LEMMA PodsChange ==
    ASSUME TypeOK, Kubelets \/ \E o \in Ordinals : CtlScaleDown(o) \/ CtlUpdate(o)
    PROVE  \A q \in Ordinals : \/ pods'[q] \in {NoPod, pods[q]}
                               \/ Exists(q) /\ Exists(q)' /\ pods'[q].rev = pods[q].rev
<1>1. CASE Rewarm
  BY <1>1 DEF Rewarm, apiVars
<1>2. ASSUME NEW o \in Ordinals, PodGone(o)
      PROVE  \A q \in Ordinals : pods'[q] \in {NoPod, pods[q]}
  BY <1>2 DEF PodGone, TypeOK
<1>3. ASSUME NEW o \in Ordinals,
             CtlScaleDown(o) \/ CtlUpdate(o) \/ PodBecomesReady(o) \/ DisruptPod(o)
      PROVE  /\ \A q \in Ordinals \ {o} : pods'[q] = pods[q]
             /\ Exists(o) /\ Exists(o)' /\ pods'[o].rev = pods[o].rev
  <2>1. Exists(o)
    BY <1>3 DEF CtlScaleDown, CtlUpdate, PodBecomesReady, DisruptPod, condemned, Live,
       replicasHealthy, podReady, Exists
  <2>2. \E st \in {"ready", "terminating", "failed"} : pods' = [pods EXCEPT ![o].st = st]
    BY <1>3 DEF CtlScaleDown, CtlUpdate, PodBecomesReady, DisruptPod, Terminate
  <2>3. pods[o] \in PodSet
    BY DEF TypeOK
  <2> QED
    BY <2>1, <2>2, <2>3, SMT DEF Exists, TypeOK, PodSet
<1> QED
  BY <1>1, <1>2, <1>3 DEF Kubelets

LEMMA LagInvStep ==
    TypeOK /\ MoveInv /\ WriteInv /\ PassInv /\ SpecInv /\ LagInv /\ [Next]_vars => LagInv'
<1> SUFFICES ASSUME TypeOK, MoveInv, WriteInv, PassInv, SpecInv, LagInv, [Next]_vars
             PROVE  LagInv'
  OBVIOUS
<1>1. CASE \E o \in Ordinals : SyncPod(o)
  BY <1>1, SyncPodLagInv
<1> SUFFICES ASSUME ~\E o \in Ordinals : SyncPod(o)
             PROVE  LagInv'
  BY <1>1
<1>2. UNCHANGED podLister
  <2>1. CASE Operator \/ Informers \/ StatefulSetController \/ Keda \/ UNCHANGED vars
    BY <2>1 DEF Operator, BeginPass, CreateFleet, AwaitPause, DecideFleet, Deciding, updateFleet,
       AbortPass, Informers, SyncApp, SettleElapses, StatefulSetController, CtlFetch, CtlStatus,
       CtlCreate, CtlScaleDown, CtlUpdate, Keda, KedaRemovesHpa, KedaAcknowledges, KedaResumes,
       HpaScales, clusterVars, vars
  <2>2. CASE Kubelets \/ \E s \in Specs : EditSpec(s)
    BY <2>2, KubeletsPods DEF PodsOnly, EditSpec
  <2> QED
    BY <2>1, <2>2 DEF Next
<1>3. CASE BeginPass \/ Aside \/ Intends
  BY <1>2, <1>3, PodsLagInv DEF BeginPass, Aside, Intends, apiVars
<1>4. CASE Creates
  <2>1. ~sts.exists /\ sts'.exists /\ sts'.template # NoTemplate /\ Live = {}
    BY <1>4, FieldTypes DEF Creates, PassInv, WriteInv, buildStatefulSet
  <2> QED
    BY <1>2, <1>4, <2>1, SecondLagInv DEF Creates, Second
<1>5. CASE Kubelets \/ \E o \in Ordinals : CtlScaleDown(o) \/ CtlUpdate(o)
  <2>1. PodsOnly
    BY <1>5, KubeletsPods, EvictionPods
  <2> QED
    BY <1>5, <2>1, PodsChange, PodsLagInv DEF PodsOnly
<1> QED
  BY <1>2, <1>3, <1>4, <1>5, LandsLagInv, CtlFetchLagInv, CtlStatusLagInv, CtlCreateLagInv, Steps
     DEF PassInv, StatefulSetController

\* The pod cache is the API server's, or it may lag and the user edits the spec once.
CacheServes == ~PodsLag \/ MaxEdits <= 1

CacheInv == PodsLag => SpecInv /\ LagInv

LEMMA CacheInvSuffices == TypeOK /\ WriteInv /\ PassInv /\ CacheInv => CacheTrue
<1> SUFFICES ASSUME TypeOK, WriteInv, PassInv, CacheInv, NEW o \in Live,
                    cachedPods[o].rev = sts.template
             PROVE  pods[o].rev = sts.template
  BY DEF CacheTrue
<1>1. CASE ~PodsLag
  BY <1>1 DEF cachedPods
<1>2. CASE PodsLag
  <2>1. sts.exists /\ o \in Ordinals /\ Exists(o)
    BY DEF PassInv, WriteInv, Live
  <2>2. CASE Second
    BY <1>2, <2>1, <2>2 DEF CacheInv, LagInv, Kept, cachedPods
  <2>3. CASE ~Second
    BY <1>2, <2>1, <2>3 DEF CacheInv, LagInv, Second, Revs
  <2> QED
    BY <2>2, <2>3
<1> QED
  BY <1>1, <1>2, ConstantsAssumption

LEMMA CacheInvStep ==
    CacheServes => (TypeOK /\ MoveInv /\ WriteInv /\ PassInv /\ CacheInv /\ [Next]_vars
                        => CacheInv')
BY SpecInvStep, LagInvStep DEF CacheServes, CacheInv

LEMMA CacheInvInit == Init => CacheInv
BY SpecInvInit, LagInvInit DEF CacheInv

\* What the invariants so far say together, of a fleet that no HPA scales.
FrontierInv == PassInv /\ CacheInv /\ CacheTrue /\ GateInv

LEMMA FrontierInvHolds ==
    ASSUME Unscaled, CacheServes
    PROVE  Spec => [](TypeOK /\ MoveInv /\ WriteInv /\ FrontierInv)
<1>1. TypeOK /\ MoveInv /\ WriteInv /\ PassInv /\ [Next]_vars => PassInv'
  BY PassInvStep
<1>2. TypeOK /\ MoveInv /\ WriteInv /\ PassInv /\ CacheInv /\ [Next]_vars => CacheInv'
  BY CacheInvStep
<1> QED
  BY <1>1, <1>2, TypeCorrect, MoveInvHolds, WriteInvHolds, PassInvInit, CacheInvInit,
     CacheInvSuffices, GateInvInit, GateInvStep, PTL DEF Spec, FrontierInv

\* If no HPA scales the fleet, and the operator sees the pods as they are or the spec is
\* edited once: every pod above the one being moved runs the template that is rolled out.
\* For any specs, fleet sizes, disruptions, conflicts, aborted passes and stale WorkerApps.
THEOREM ReleasedRunNewRevisionHolds ==
    ASSUME Unscaled, CacheServes
    PROVE  Spec => []ReleasedRunNewRevision
BY FrontierInvHolds, GateInvSuffices, PTL DEF FrontierInv

-----------------------------------------------------------------------------
(* A fleet of one size *)

\* No edit changes the number of replicas.
Size == FirstSpec.replicas
OneSize == \A s \in Specs : s.replicas = Size

SizeInv ==
    /\ sts.replicas \in {0, Size} /\ ctl.replicas \in {0, Size}
    /\ Live \subseteq Below(Size)

LEMMA SizeInvInit == Init => SizeInv
<1> SUFFICES ASSUME Init PROVE SizeInv
  OBVIOUS
<1>1. Live = {}
  BY DEF Init, Live, Exists, NoPod
<1> QED
  BY <1>1 DEF Init, SizeInv, NoSts, SpecOf

LEMMA SizeInvStep ==
    OneSize => (TypeOK /\ MoveInv /\ PassInv /\ SizeInv /\ [Next]_vars => SizeInv')
<1> SUFFICES ASSUME OneSize, TypeOK, MoveInv, PassInv, SizeInv, [Next]_vars
             PROVE  SizeInv'
  OBVIOUS
<1>1. pods' = pods => Live' = Live
  BY DEF Live, Exists
<1>2. held.spec.replicas = Size
  BY FieldTypes DEF OneSize
<1>3. CASE BeginPass \/ Aside \/ Intends \/ CtlStatus
  BY <1>1, <1>3 DEF BeginPass, apiVars, Aside, Intends, CtlStatus, SizeInv
<1>4. CASE Creates
  BY <1>1, <1>2, <1>4 DEF Creates, buildStatefulSet, SizeInv
<1>5. CASE Lands
  <2>1. Moves(sts, want.sts, held.spec)
    BY <1>5 DEF Lands, MoveInv
  <2>2. want.sts.replicas \in {0, sts.replicas, Size}
    BY <1>2, <2>1 DEF Moves, StopsTo, StartsTo, RollsTo, ClampsTo, ReleasesTo, ScalesTo
  <2> QED
    BY <1>1, <1>5, <2>2 DEF Lands, SizeInv
<1>6. CASE CtlFetch
  BY <1>1, <1>6 DEF CtlFetch, apiVars, SpecOf, SizeInv
<1>7. ASSUME NEW o \in Ordinals, CtlCreate(o)
      PROVE  SizeInv'
  <2>1. UNCHANGED <<sts, ctl>> /\ o < ctl.replicas /\ ctl.replicas # 0
        /\ \A q \in Live' : q = o \/ q \in Live
    BY <1>7, NewPod
  <2> QED
    BY <2>1 DEF SizeInv, Below
<1>8. CASE PodsOnly
  BY <1>8 DEF PodsOnly, SizeInv
<1> QED
  BY <1>3, <1>4, <1>5, <1>6, <1>7, <1>8, Steps, KubeletsPods, EvictionPods
     DEF PassInv, StatefulSetController

-----------------------------------------------------------------------------
(* Warm fleets *)

\* The controller has nothing to do.
Quiet ==
    /\ Live = Below(ctl.replicas)
    /\ \A o \in Live : /\ pods[o].st # "terminating"
                       /\ ctl.partition <= o => pods[o].rev = ctl.template

\* The pods that a controller that works from s would replace.
Behind(s) == { o \in Live : s.partition <= o /\ o < s.replicas /\ pods[o].rev # s.template }

\* Why EvictsOnlyWarm holds: a write that releases a pod meets a controller that has
\* nothing to do until it reads the write, so nothing starts to be restored in between.
WarmInv ==
    /\ \A o \in Live : ctl.partition < o /\ o < ctl.replicas => pods[o].rev = ctl.template
    /\ restoring => \A o \in Behind(ctl) : pods[o].st = "terminating"
    /\ Released(sts) /\ ctl # SpecOf(sts) => Quiet /\ (restoring => Behind(sts) = {})
    /\ pc = "write" /\ Released(want.sts)
         => ctl = SpecOf(sts) /\ Quiet /\ (restoring => Behind(want.sts) = {})

LEMMA WarmInvInit == Init => WarmInv
<1> SUFFICES ASSUME Init PROVE WarmInv
  OBVIOUS
<1>1. Live = {}
  BY DEF Init, Live, Exists, NoPod
<1> QED
  BY <1>1 DEF Init, WarmInv, NoSts, Released, Behind

\* Nobody replaces a pod of a quiet fleet.
LEMMA QuietStays ==
    ASSUME TypeOK, Quiet, NEW o \in Ordinals
    PROVE  ~CtlCreate(o) /\ ~CtlScaleDown(o) /\ ~CtlUpdate(o) /\ ~PodGone(o)
<1>1. ~CtlCreate(o)
  BY DEF CtlCreate, Quiet, Live, Below
<1>2. ~CtlScaleDown(o)
  BY Numbers, SMT DEF CtlScaleDown, condemned, Quiet, Below
<1>3. ~CtlUpdate(o)
  BY Numbers DEF CtlUpdate, Quiet, Below
<1>4. ~PodGone(o)
  BY DEF PodGone, Quiet, Live, Exists
<1> QED
  BY <1>1, <1>2, <1>3, <1>4

LEMMA IntendsWarmInv ==
    ASSUME OneSize, TypeOK, MoveInv, WriteInv, FrontierInv, SizeInv, WarmInv, Intends
    PROVE  WarmInv'
<1> DEFINE s == want'.sts
<1>1. UNCHANGED <<sts, stat, ctl, pods, restoring>> /\ Live' = Live /\ pc' = "write"
  BY DEF Intends, Live, Exists
<1>2. (Released(s) => ctl = SpecOf(sts) /\ Quiet /\ (restoring => Behind(s) = {})) => WarmInv'
  BY <1>1 DEF WarmInv, Released, Behind, Quiet
<1> HIDE DEF s
<1> SUFFICES ASSUME Released(s)
             PROVE  ctl = SpecOf(sts) /\ Quiet /\ (restoring => Behind(s) = {})
  BY <1>2
<1>3. ctl = SpecOf(sts) => /\ ctl.replicas = sts.replicas /\ ctl.partition = sts.partition
                           /\ ctl.template = sts.template
  BY SMT DEF SpecOf
<1>4. CASE Live = {} /\ sts.replicas = 0 /\ ctl = SpecOf(sts)
  <2>1. Below(0) = {}
    BY Numbers, SMT DEF Below
  <2> QED
    BY <1>3, <1>4, <2>1 DEF Quiet, Behind
<1>5. CASE /\ ctl = SpecOf(sts) /\ Live = Below(sts.replicas)
           /\ \A o \in Live : /\ podReady(pods[o])
                              /\ sts.partition <= o => pods[o].rev = sts.template
           /\ ~restoring
  BY <1>3, <1>5 DEF Quiet, podReady
<1>6. ~ScalesTo(sts, s, held.spec)
  <2>1. held.spec.replicas = Size /\ sts.exists
    BY FieldTypes DEF OneSize, Intends, Decided, Moves, FrontierInv, PassInv, live
  <2> QED
    BY <2>1 DEF ScalesTo, SizeInv, MoveInv, Running
<1> QED
  BY <1>4, <1>5, <1>6, ReleasingWrite DEF s, FrontierInv

LEMMA CtlFetchWarmInv ==
    ASSUME TypeOK, FrontierInv, WarmInv, CtlFetch
    PROVE  WarmInv'
<1>1. /\ UNCHANGED <<sts, pods, restoring, pc, want>> /\ Live' = Live
      /\ ctl # SpecOf(sts) /\ ctl' = SpecOf(sts)
      /\ ctl'.replicas = sts.replicas /\ ctl'.partition = sts.partition
      /\ ctl'.template = sts.template
  BY DEF CtlFetch, apiVars, passVars, SpecOf, Live, Exists
<1>2. ASSUME NEW o \in Live, sts.partition <= o, o < sts.replicas
      PROVE  Released(sts)
  BY <1>2, Numbers, SMT DEF FrontierInv, PassInv, NoSts, Released, Live
<1>3. ASSUME NEW o \in Live, sts.partition < o, o < sts.replicas
      PROVE  pods[o].rev = sts.template
  BY <1>2, <1>3, Numbers, SMT DEF FrontierInv, GateInv, RunsAbove, Live
<1>4. Behind(ctl)' = Behind(sts) /\ (restoring => Behind(sts) = {})
  BY <1>1, <1>2 DEF Behind, WarmInv
<1> QED
  BY <1>1, <1>3, <1>4 DEF WarmInv, Released

LEMMA CtlCreateWarmInv ==
    ASSUME TypeOK, WarmInv, NEW o \in Ordinals, CtlCreate(o)
    PROVE  WarmInv'
<1>1. /\ UNCHANGED <<sts, ctl, restoring, pc, want>>
      /\ \A q \in Live' : q = o \/ (q \in Live /\ pods'[q] = pods[q])
      /\ ctl.partition <= o => pods'[o].rev = ctl.template
  BY NewPod
<1>2. ~Quiet
  BY QuietStays
<1>3. ctl.partition < o => pods'[o].rev = ctl.template
  BY <1>1, Numbers, SMT
<1>4. \A q \in Behind(ctl)' : q \in Behind(ctl) /\ pods'[q] = pods[q]
  BY <1>1 DEF Behind
<1> QED
  BY <1>1, <1>2, <1>3, <1>4 DEF WarmInv, Released

\* The pods that an update or a scale-down leaves behind: the one that it evicts.
LEMMA EvictionWarmInv ==
    ASSUME TypeOK, SizeInv, WarmInv, NEW o \in Ordinals, CtlScaleDown(o) \/ CtlUpdate(o)
    PROVE  WarmInv'
<1>1. /\ UNCHANGED <<sts, ctl, pc, want>>
      /\ \A q \in Live' : q \in Live /\ pods'[q].rev = pods[q].rev
  BY EvictionPods DEF PodsOnly
<1>2. ~Quiet
  BY QuietStays
<1>3. Behind(ctl)' \subseteq Behind(ctl)
  BY <1>1 DEF Behind
<1>4. pods'[o].st = "terminating"
  <2>1. pods[o] \in PodSet /\ pods' = [pods EXCEPT ![o].st = "terminating"]
    BY DEF TypeOK, CtlScaleDown, CtlUpdate, Terminate
  <2> QED
    BY <2>1 DEF TypeOK, PodSet
<1>5. Behind(ctl) \subseteq {o}
  <2>1. CASE CtlScaleDown(o)
    <3>1. o \in Live /\ o >= ctl.replicas
      BY <2>1 DEF CtlScaleDown, condemned
    <3>2. ctl.replicas = 0
      BY <3>1, Numbers, SMT DEF SizeInv, Below
    <3> QED
      BY <3>2, Numbers, SMT DEF Behind, Live
  <2>2. CASE CtlUpdate(o)
    <3>1. ASSUME NEW q \in Behind(ctl), q # o
          PROVE  FALSE
      <4>1. /\ q \in Ordinals /\ q \in Live /\ ctl.partition <= q /\ q < ctl.replicas
            /\ pods[q].rev # ctl.template
        BY <3>1 DEF Behind, Live
      <4>2. q = ctl.partition
        BY <4>1, Numbers, SMT DEF WarmInv
      <4>3. o > q /\ o < ctl.replicas /\ o \in Live /\ pods[o].rev # ctl.template
        BY <2>2, <3>1, <4>2, Numbers, SMT
           DEF CtlUpdate, Below, replicasHealthy, podReady, Live, Exists
      <4> QED
        BY <4>2, <4>3, Numbers DEF WarmInv
    <3> QED
      BY <3>1
  <2> QED
    BY <2>1, <2>2
<1> QED
  BY <1>1, <1>2, <1>3, <1>4, <1>5 DEF WarmInv, Released

LEMMA KubeletsWarmInv ==
    ASSUME MaxDisruptions = 0, TypeOK, WarmInv, Kubelets
    PROVE  WarmInv'
<1>1. /\ UNCHANGED <<sts, ctl, pc, want>>
      /\ \A q \in Live' : q \in Live /\ pods'[q].rev = pods[q].rev
  BY KubeletsPods DEF PodsOnly
<1>2. \A s : \A q \in Live' : s.partition <= q /\ q < s.replicas /\ pods'[q].rev # s.template
                => q \in Behind(s)
  BY <1>1 DEF Behind
<1>3. CASE Rewarm
  BY <1>1, <1>3 DEF Rewarm, apiVars, WarmInv, Released, Quiet, Behind, Live, Exists
<1>4. ASSUME NEW o \in Ordinals, PodBecomesReady(o)
      PROVE  WarmInv'
  <2>1. /\ \A q \in Ordinals \ {o} : pods'[q] = pods[q]
        /\ o \in Live /\ pods[o].st # "terminating" /\ pods'[o].st = "ready"
        /\ UNCHANGED restoring
    BY <1>4 DEF PodBecomesReady, TypeOK, PodSet, Live, Exists
  <2>2. Live' = Live
    BY <2>1 DEF Live, Exists
  <2>3. Quiet => Quiet'
    BY <1>1, <2>1, <2>2 DEF Quiet, Live
  <2>4. Behind(ctl)' = Behind(ctl) /\ Behind(sts)' = Behind(sts)
        /\ Behind(want.sts)' = Behind(want.sts)
    BY <1>1, <2>2 DEF Behind
  <2>5. restoring => \A q \in Behind(ctl) : pods'[q].st = "terminating"
    BY <2>1 DEF WarmInv, Behind, Live
  <2> QED
    BY <1>1, <2>1, <2>2, <2>3, <2>4, <2>5 DEF WarmInv, Released
<1>5. ASSUME NEW o \in Ordinals, PodGone(o)
      PROVE  WarmInv'
  <2>1. ~Quiet /\ UNCHANGED restoring
    BY <1>5, QuietStays DEF PodGone
  <2>2. \A q \in Live' : pods'[q] = pods[q]
    BY <1>5 DEF PodGone, TypeOK, Live, Exists, NoPod
  <2>3. Behind(ctl)' \subseteq Behind(ctl) /\ Behind(ctl)' \subseteq Live'
    BY <1>1 DEF Behind
  <2>4. restoring => \A q \in Behind(ctl)' : pods'[q].st = "terminating"
    BY <2>2, <2>3 DEF WarmInv
  <2> QED
    BY <1>1, <2>1, <2>2, <2>4 DEF WarmInv, Released
<1>6. \A o \in Ordinals : ~DisruptPod(o)
  BY SMT DEF DisruptPod, TypeOK
<1> QED
  BY <1>3, <1>4, <1>5, <1>6 DEF Kubelets

LEMMA WarmInvStep ==
    OneSize /\ MaxDisruptions = 0
        => (TypeOK /\ MoveInv /\ WriteInv /\ FrontierInv /\ SizeInv /\ WarmInv /\ [Next]_vars
                => WarmInv')
<1> SUFFICES ASSUME OneSize, MaxDisruptions = 0, TypeOK, MoveInv, WriteInv, FrontierInv,
                    SizeInv, WarmInv, [Next]_vars
             PROVE  WarmInv'
  OBVIOUS
<1>1. pods' = pods => Live' = Live
  BY DEF Live, Exists
<1>2. CASE BeginPass \/ Aside \/ CtlStatus
  BY <1>1, <1>2, SMT
     DEF BeginPass, apiVars, Aside, CtlStatus, passVars, WarmInv, Released, Quiet, Behind
<1>3. CASE Creates
  <2>1. Live = {} /\ ctl.replicas = 0
    BY <1>3, SMT DEF Creates, FrontierInv, PassInv, WriteInv, SpecOf, NoSts
  <2>2. Live' = {} /\ ctl'.replicas = 0 /\ pc' = "idle"
    BY <1>1, <1>3, <2>1 DEF Creates
  <2>3. Below(0) = {}
    BY Numbers, SMT DEF Below
  <2> QED
    BY <2>2, <2>3 DEF WarmInv, Quiet, Behind
<1>4. CASE Lands
  BY <1>1, <1>4 DEF Lands, WarmInv, Released, Quiet, Behind
<1> QED
  BY <1>2, <1>3, <1>4, IntendsWarmInv, CtlFetchWarmInv, CtlCreateWarmInv, EvictionWarmInv,
     KubeletsWarmInv, Steps DEF FrontierInv, PassInv, StatefulSetController

\* What the controller evicts, it finds ready and behind.
LEMMA WarmInvSuffices ==
    TypeOK /\ WarmInv => ((\E o \in Ordinals : CtlUpdate(o)) => ~restoring)
<1> SUFFICES ASSUME TypeOK, WarmInv, NEW o \in Ordinals, CtlUpdate(o)
             PROVE  ~restoring
  OBVIOUS
<1>1. o < ctl.replicas /\ ctl.partition <= o /\ pods[o].rev # ctl.template
      /\ pods[o].st = "ready"
  BY Numbers DEF CtlUpdate, Below, replicasHealthy, podReady
<1>2. o \in Behind(ctl)
  BY <1>1 DEF Behind, Live, Exists
<1> QED
  BY <1>1, <1>2 DEF WarmInv

\* If no HPA scales the fleet, its size stays and nothing disrupts it: whatever fails or
\* lags, no pod is replaced while cells of another one are being restored.
THEOREM EvictsOnlyWarmHolds ==
    ASSUME Unscaled, CacheServes, OneSize, MaxDisruptions = 0
    PROVE  Spec => EvictsOnlyWarm
<1>1. TypeOK /\ MoveInv /\ PassInv /\ SizeInv /\ [Next]_vars => SizeInv'
  BY SizeInvStep
<1>2. TypeOK /\ MoveInv /\ WriteInv /\ FrontierInv /\ SizeInv /\ WarmInv /\ [Next]_vars
        => WarmInv'
  BY WarmInvStep
<1>3. TypeOK /\ WarmInv /\ [Next]_vars
        => [(\E o \in Ordinals : CtlUpdate(o)) => ~restoring]_vars
  BY WarmInvSuffices
<1>4. Spec => [](TypeOK /\ MoveInv /\ WriteInv /\ FrontierInv /\ PassInv)
  BY FrontierInvHolds, PTL DEF FrontierInv
<1> QED
  BY <1>1, <1>2, <1>3, <1>4, SizeInvInit, WarmInvInit, PTL DEF Spec, EvictsOnlyWarm
=============================================================================
