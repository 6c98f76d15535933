---------------------------- MODULE FleetRollout ----------------------------
(***************************************************************************)
(* The operator, the rest of the cluster and the user around one WorkerApp, *)
(* and what their joint behaviour must satisfy.                             *)
(***************************************************************************)
EXTENDS FleetOperator, FleetCluster

Init ==
    /\ app = NoHeld
    /\ lister = NoHeld
    /\ sts = NoSts
    /\ settling = FALSE
    /\ stat = NoStat
    /\ ctl = SpecOf(NoSts)
    /\ pods = [o \in Ordinals |-> NoPod]
    /\ podLister = [o \in Ordinals |-> NoPod]
    /\ restoring = FALSE
    /\ scaler = "none"
    /\ acked = FALSE
    /\ hpa = FALSE
    /\ pc = "idle"
    /\ held = NoHeld
    /\ seen = NoSeen
    /\ want = NoWant
    /\ edits = 0 /\ disruptions = 0 /\ scalings = 0 /\ aborts = 0

Next ==
    \/ Operator \/ Informers
    \/ StatefulSetController \/ Kubelets \/ Keda
    \/ \E s \in Specs : EditSpec(s)

Spec == Init /\ [][Next]_vars

\* Every pass requeues itself, so passes keep coming and keep going; the other
\* controllers, the kubelets and KEDA act on what they see.  A pass that could
\* release an ordinal or report Ready again and again does so in the end: its
\* /state requests do not fail for ever.  Nothing obliges the user, the HPA, a
\* disruption or an aborted pass to happen.
Fairness ==
    /\ WF_vars(BeginPass)
    /\ WF_vars(CreateFleet \/ AwaitPause \/ DecideFleet)
    /\ SF_vars(Deciding /\ ReleaseNext)
    /\ SF_vars(Deciding /\ ReportReady)
    /\ WF_vars(updateFleet)
    /\ WF_vars(SyncApp) /\ WF_vars(SettleElapses)
    /\ WF_vars(CtlFetch) /\ WF_vars(CtlStatus)
    /\ WF_vars(Rewarm)
    /\ WF_vars(KedaRemovesHpa) /\ WF_vars(KedaAcknowledges) /\ WF_vars(KedaResumes)
    /\ \A o \in Ordinals :
          /\ WF_vars(SyncPod(o))
          /\ WF_vars(CtlCreate(o)) /\ WF_vars(CtlScaleDown(o)) /\ WF_vars(CtlUpdate(o))
          /\ WF_vars(PodBecomesReady(o)) /\ WF_vars(PodGone(o))

FairSpec == Spec /\ Fairness

-----------------------------------------------------------------------------
(* Runtimes that must not mix *)

\* No two pods of the fleet ever run runtimes between which rollout.go's table
\* refuses a rolling update in both directions.  Neither the rolling path (which
\* must refuse the change, also for a pod an unfinished rollout left behind) nor
\* Recreate (which must stop the last old pod before it starts a new one) may
\* bring it about.
NoMixedFleet ==
    \A o, p \in Live : ~CannotMix(pods[o].rev, pods[p].rev)

\* A template that the table does not let roll over the StatefulSet's present one
\* is written only when the fleet has no pod left, not even a terminating one:
\* the stop of recreateStep is complete when its start is written, whatever
\* happened between the read of the StatefulSet, the list of its pods and the write.
BreakingOnlyWhenEmpty ==
    [][sts.exists /\ sts'.template # sts.template
         => \/ ~fleetBreaking(sts.template, sts'.template)
            \/ Live = {}]_vars

\* The template never moves from a runtime with v0.3's replicated log to one that
\* cannot read it, Recreate or not (runtimeChangeRefusal).
NoLossyDowngrade ==
    [][sts.exists => ~LossyDowngrade(sts.template.image, sts'.template.image)]_vars

\* The write a pass intends: no lossy downgrade, and either a template that may roll
\* or the start of a stopped fleet that, unless the write conflicts, is still empty and
\* that nobody is about to fill.
SafeWrite ==
    /\ ~LossyDowngrade(seen.sts.template.image, want.sts.template.image)
    /\ IF seen.sts.replicas # 0
       THEN ~fleetBreaking(seen.sts.template, want.sts.template)
       ELSE sts = seen.sts => Live = {} /\ ctl = SpecOf(sts)

\* Why the two hold: a status that says observed means that the StatefulSet
\* controller works from the spec as it stands, so a stopped fleet found empty under
\* such a status stays empty until the operator's own write, however old the list of
\* pods is by then.
WriteInv ==
    /\ ctl.exists => sts.exists
    /\ stat.observed => sts.exists /\ ctl = SpecOf(sts)
    /\ sts.exists => sts.template # NoTemplate
    /\ pc # "idle" => /\ sts.exists => seen.sts.exists
                      /\ seen.sts.exists => sts.exists /\ seen.sts.template # NoTemplate
    /\ pc = "decide" /\ seen.stat.observed /\ seen.sts.replicas = 0 /\ sts = seen.sts
         => ctl = SpecOf(sts)
    /\ pc = "write" => /\ seen.sts.exists
                       /\ want.sts.exists /\ want.sts.template # NoTemplate
                       /\ SafeWrite

\* breakingBoundaries: "A jump that skips minors still crosses every boundary in
\* between", and crosses no other: whether the change from the fleet's runtime to the
\* spec's is breaking is the same wherever it is split in two.
Releases == [ok : {TRUE}, major : 0..1, minor : 0..7, patch : {0}]
JumpsChecked ==
    sts.exists => \A mid \in Releases :
        JumpIsChecked(sts.template.image, mid, app.spec.template.image)

-----------------------------------------------------------------------------
(* The protocol of the StatefulSet *)

LossyMove(s, t) == LossyDowngrade(s.image, t.image)

Protocol == INSTANCE RolloutProtocol
    WITH fleet <- sts, empty <- (Live = {}), Breaking <- fleetBreaking, Lossy <- LossyMove

\* Whoever writes the StatefulSet, and whatever was written since the operator read it:
\* every change of it is one move of the protocol.  A rollout starts frozen and releases
\* one ordinal at a time, a template that must not roll is started on a stopped and
\* empty fleet, and no write mixes two moves.
FollowsProtocol == Protocol!Spec

-----------------------------------------------------------------------------
(* Gated rollouts *)

\* Gate 1 of rolloutStep: while a rollout is in progress, a pod whose ordinal was
\* released before the last one released runs the template being rolled out, so
\* that at most one pod of the fleet is in the middle of its move.
ReleasedRunNewRevision ==
    \A o \in Live :
        sts.exists /\ sts.partition < o /\ o < sts.replicas => pods[o].rev = sts.template

\* Gate 2 of rolloutStep and its settle interval: when nothing else disturbs the
\* fleet, the StatefulSet controller never replaces a pod while cells of another
\* pod are still being restored.
EvictsOnlyWarm ==
    [][(\E o \in Ordinals : CtlUpdate(o)) => ~restoring]_vars

\* A fleet that is announced as Ready is one: every replica is there, is ready and
\* runs the template of the very spec whose status is written.  steadyFleet infers
\* it from a StatefulSet status read earlier in the pass and from a list of pods
\* that does not look at their revision.
ReadyIsTrue ==
    [][app.phase # "Ready" /\ app'.phase = "Ready"
         => /\ sts.template = app.spec.template /\ sts.partition = 0 /\ ~sts.recreating
            /\ Live = Below(sts.replicas)
            /\ \A o \in Live : pods[o].rev = sts.template]_vars

Serving ==
    /\ sts.exists /\ sts.template = app.spec.template
    /\ sts.partition = 0 /\ ~sts.recreating
    /\ ~app.spec.autoscaling => sts.replicas = app.spec.replicas
    /\ Live = Below(sts.replicas)
    /\ \A o \in Live : podReady(pods[o]) /\ pods[o].rev = sts.template

Announced ==
    /\ app.phase = "Ready"
    /\ scaler = IF app.spec.autoscaling /\ KedaInstalled THEN "active" ELSE "none"

\* Once the user stops editing, the fleet comes to rest on the last spec, and its
\* status and scaler say so (again and again: a sweep that fails takes them back).
\* No rollout waits for ever on a gate, for KEDA's pause, for its own settle
\* interval or in a loop of conflicts.  A rollout held back by a template that never
\* becomes ready ends too, if the user moves on to another template with Recreate:
\* recreateStep needs no gate.
RolloutCompletes ==
    ([](app.spec.template \notin BadTemplates) \/ <>[](app.spec.strategy = "Recreate"))
        => <>[]Serving /\ []<>Announced

-----------------------------------------------------------------------------
(* The scaler *)

\* While the fleet keeps running, a rollout never writes over a replica count:
\* whatever the HPA decided between the operator's read and its write survives.
KeepsScale ==
    [][sts.exists /\ ~sts.recreating
         /\ (sts'.template # sts.template \/ sts'.partition # sts.partition)
         => sts'.replicas = sts.replicas]_vars

-----------------------------------------------------------------------------
(* What the documentation says and the code does not guarantee *)

\* README.md: "During any rollout the ScaledObject is paused".
PausedDuringRollout ==
    sts.partition > 0 \/ sts.recreating => scaler # "active"

\* rolloutStep: "Recreate is the explicit recovery path for a fleet too unhealthy
\* to satisfy the rolling safety contract".
RecreateUnblocks ==
    (app.spec.strategy = "Recreate" /\ sts.partition > 0)
        ~> (sts.recreating \/ sts.partition = 0 \/ app.spec.strategy # "Recreate")
=============================================================================
