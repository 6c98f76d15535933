-------------------------- MODULE FleetReadyProofs --------------------------
(***************************************************************************)
(* What the phase Ready says of the pods of a fleet of one size.            *)
(***************************************************************************)
EXTENDS FleetGateProofs, FiniteSetTheorems

\* Zenon proves a leaf unless it names another prover.
USE Zenon

AllNew == \A o \in Live : pods[o].rev = sts.template

\* Why ReadyIsTrue holds: a status that counts the whole fleet as updated stays true of
\* the revisions, if not of the readiness, until the StatefulSet is written again.
ReadyInv ==
    /\ stat.observed /\ sts.partition = 0 /\ stat.updated = Size => AllNew
    /\ pc = "decide" /\ seen.stat.observed /\ sts.partition = 0 /\ seen.stat.updated = Size
         => AllNew
    /\ pc = "write" => want.outcome.phase # "Ready"

LEMMA ReadyInvInit == Init => ReadyInv
BY SMT DEF Init, ReadyInv, NoStat

\* As many updated pods as the fleet has replicas are all of its pods.
LEMMA AllUpdated ==
    ASSUME OneSize, SizeInv, count(updatedPods) = Size
    PROVE  \A o \in Live : pods[o].rev = ctl.template
<1>1. Size \in 1 .. MaxReplicas /\ MaxReplicas \in Nat
  BY ConstantsAssumption DEF Size
<1>2. Below(Size) = 0 .. Size - 1
  BY <1>1, SMT DEF Below, Ordinals
<1>3. IsFiniteSet(Below(Size)) /\ Cardinality(Below(Size)) = Size
  <2>1. 0 \in Int /\ Size - 1 \in Int /\ ~(0 > Size - 1) /\ Size - 1 - 0 + 1 = Size
    BY <1>1, SMT
  <2>2. IsFiniteSet(0 .. Size - 1) /\ Cardinality(0 .. Size - 1) = Size - 1 - 0 + 1
    BY <2>1, FS_Interval
  <2> QED
    BY <1>2, <2>1, <2>2
<1>4. updatedPods \subseteq Below(Size)
  BY DEF updatedPods, SizeInv
<1>5. updatedPods = Below(Size)
  <2>1. updatedPods \in SUBSET Below(Size)
    BY <1>4
  <2>2. Cardinality(Below(Size)) = Cardinality(updatedPods) => Below(Size) = updatedPods
    BY <1>3, <2>1, FS_Subset
  <2>3. Cardinality(updatedPods) = Size
    BY DEF count
  <2> QED
    BY <1>3, <2>2, <2>3
<1> QED
  BY <1>5 DEF SizeInv, updatedPods

LEMMA ReadyInvStep ==
    OneSize => (TypeOK /\ WriteInv /\ PassInv /\ SizeInv /\ ReadyInv /\ [Next]_vars => ReadyInv')
<1> SUFFICES ASSUME OneSize, TypeOK, WriteInv, PassInv, SizeInv, ReadyInv, [Next]_vars
             PROVE  ReadyInv'
  OBVIOUS
<1>1. pods' = pods => Live' = Live
  BY DEF Live, Exists
<1>2. ctl = SpecOf(sts) => ctl.template = sts.template /\ ctl.partition = sts.partition
  BY SMT DEF SpecOf
<1>3. CASE BeginPass \/ Aside \/ Intends \/ CtlFetch
  BY <1>1, <1>3, SMT
     DEF BeginPass, CtlFetch, apiVars, passVars, Aside, Intends, ReadyInv, AllNew
<1>4. CASE Creates
  <2>1. ~stat.observed
    BY <1>4 DEF Creates, PassInv, WriteInv
  <2> QED
    BY <1>4, <2>1 DEF Creates, ReadyInv
<1>5. CASE Lands
  <2>1. ~stat'.observed
    BY <1>5, FieldTypes DEF Lands, StatSet
  <2> QED
    BY <1>5, <2>1 DEF Lands, ReadyInv
<1>6. CASE CtlStatus
  <2>1. /\ UNCHANGED <<sts, pods, pc, seen, want>> /\ Live' = Live
        /\ stat'.observed = (ctl = SpecOf(sts)) /\ stat'.updated = count(updatedPods)
    BY <1>6 DEF CtlStatus, passVars, Live, Exists
  <2> QED
    BY <1>2, <2>1, AllUpdated DEF ReadyInv, AllNew
<1>7. ASSUME NEW o \in Ordinals, CtlCreate(o)
      PROVE  ReadyInv'
  <2>1. /\ UNCHANGED <<sts, stat, ctl, pc, seen, want>>
        /\ \A q \in Live' : q = o \/ (q \in Live /\ pods'[q] = pods[q])
        /\ ctl.partition <= o => pods'[o].rev = ctl.template
    BY <1>7, NewPod
  <2>2. ctl = SpecOf(sts) /\ sts.partition = 0 => pods'[o].rev = sts.template
    BY <1>2, <2>1, Numbers, SMT
  <2>3. ctl = SpecOf(sts) /\ sts.partition = 0 /\ AllNew => AllNew'
    BY <2>1, <2>2 DEF AllNew
  <2> QED
    BY <2>1, <2>3 DEF ReadyInv, WriteInv, PassInv
<1>8. CASE PodsOnly
  BY <1>8 DEF PodsOnly, ReadyInv, AllNew
<1> QED
  BY <1>3, <1>4, <1>5, <1>6, <1>7, <1>8, Steps, KubeletsPods, EvictionPods
     DEF PassInv, StatefulSetController

\* What a pass has checked that reports a fleet as ready.
LEMMA ReportReadyChecks ==
    ASSUME TypeOK, PassInv, SizeInv, ReadyInv, Deciding, ReportReady, held = app
    PROVE  /\ sts.template = app.spec.template /\ sts.partition = 0 /\ ~sts.recreating
           /\ Live = Below(sts.replicas) /\ AllNew
<1>1. live = sts /\ pc = "decide"
  BY DEF Deciding, live, PassInv
<1>2. /\ sts.partition = 0 /\ ~sts.recreating /\ sts.template = app.spec.template
      /\ seen.stat.updated = sts.replicas /\ seen.stat.observed
      /\ sts.replicas >= 1 /\ Live = Below(sts.replicas)
  BY <1>1 DEF ReportReady, inSteady, refuseChange, inRecreate, templateChanged, converged,
     observable
<1>3. sts.replicas = Size
  BY <1>2, Numbers, SMT DEF SizeInv
<1> QED
  BY <1>1, <1>2, <1>3 DEF ReadyInv

\* The phase changes at the end of a pass only, and to the one of its outcome.
LEMMA EndPassPhase ==
    ASSUME TypeOK, NEW o, EndPass(o)
    PROVE  app' = app \/ (held = app /\ app'.phase = o.phase)
BY DEF EndPass, updateStatus, TypeOK, AppSet

LEMMA ReadyInvSuffices ==
    TypeOK /\ PassInv /\ SizeInv /\ ReadyInv /\ [Next]_vars
        => [app.phase # "Ready" /\ app'.phase = "Ready"
              => /\ sts.template = app.spec.template /\ sts.partition = 0 /\ ~sts.recreating
                 /\ Live = Below(sts.replicas)
                 /\ \A o \in Live : pods[o].rev = sts.template]_vars
<1> SUFFICES ASSUME TypeOK, PassInv, SizeInv, ReadyInv, Next,
                    app.phase # "Ready", app'.phase = "Ready"
             PROVE  /\ sts.template = app.spec.template /\ sts.partition = 0 /\ ~sts.recreating
                    /\ Live = Below(sts.replicas)
                    /\ \A o \in Live : pods[o].rev = sts.template
  OBVIOUS
<1>1. \A ph, n : Outcome(ph, n).phase = ph
  BY DEF Outcome
<1>2. ASSUME NEW o, EndPass(o), held = app => o.phase # "Ready"
      PROVE  FALSE
  BY <1>2, EndPassPhase
<1>3. CASE Operator
  <2>1. ~BeginPass /\ ~AbortPass
    BY DEF BeginPass, AbortPass, apiVars
  <2>2. ~CreateFleet /\ ~AwaitPause
    BY <1>1, <1>2, SMT DEF CreateFleet, AwaitPause
  <2>3. ~updateFleet
    <3>1. pc = "write" => want.outcome.phase # "Ready"
      BY DEF ReadyInv
    <3>2. held = app => conflictOutcome.phase # "Ready"
      <4>1. held = app => (IF held.phase = "" THEN "Pending" ELSE held.phase) # "Ready"
        OBVIOUS
      <4> QED
        BY <1>1, <4>1 DEF conflictOutcome
    <3> QED
      BY <1>2, <3>1, <3>2 DEF updateFleet
  <2>4. Deciding /\ ReportReady /\ held = app
    <3>1. DecideFleet
      BY <1>3, <2>1, <2>2, <2>3 DEF Operator
    <3>2. Deciding
      BY <3>1 DEF DecideFleet
    <3>3. PICK o : EndPass(o) /\ (o.phase = "Ready" => ReportReady)
      BY <3>1, Decisions DEF Intend
    <3> QED
      BY <1>2, <3>2, <3>3
  <2> QED
    BY <2>4, ReportReadyChecks DEF AllNew
<1>4. CASE Informers \/ StatefulSetController \/ Keda
  BY <1>4 DEF Informers, SyncApp, SyncPod, SettleElapses, StatefulSetController, CtlFetch,
     CtlStatus, CtlCreate, CtlScaleDown, CtlUpdate, Keda, KedaRemovesHpa, KedaAcknowledges,
     KedaResumes, HpaScales, apiVars
<1>5. CASE Kubelets
  BY <1>5, KubeletsPods DEF PodsOnly
<1>6. ASSUME NEW s \in Specs, EditSpec(s)
      PROVE  FALSE
  BY <1>6 DEF EditSpec, TypeOK, AppSet
<1> QED
  BY <1>3, <1>4, <1>5, <1>6 DEF Next

\* If no HPA scales the fleet and its size stays: a fleet that is announced as Ready runs
\* the template of the spec whose status says so, on every replica.  For any specs, edits
\* and disruptions, and however the caches and the StatefulSet controller lag.
THEOREM ReadyIsTrueHolds ==
    ASSUME Unscaled, OneSize
    PROVE  Spec => ReadyIsTrue
<1>1. TypeOK /\ MoveInv /\ WriteInv /\ PassInv /\ [Next]_vars => PassInv'
  BY PassInvStep
<1>2. TypeOK /\ MoveInv /\ PassInv /\ SizeInv /\ [Next]_vars => SizeInv'
  BY SizeInvStep
<1>3. TypeOK /\ WriteInv /\ PassInv /\ SizeInv /\ ReadyInv /\ [Next]_vars => ReadyInv'
  BY ReadyInvStep
<1> QED
  BY <1>1, <1>2, <1>3, TypeCorrect, MoveInvHolds, WriteInvHolds, PassInvInit, SizeInvInit,
     ReadyInvInit, ReadyInvSuffices, PTL DEF Spec, ReadyIsTrue
=============================================================================
