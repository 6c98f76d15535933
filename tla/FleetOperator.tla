--------------------------- MODULE FleetOperator ----------------------------
(***************************************************************************)
(* The operator's reconcile pass over the StatefulSet of one WorkerApp      *)
(* (internal/controller/rollout.go and workerapp_controller.go), and the    *)
(* informer caches it reads.                                                *)
(*                                                                         *)
(* A reconcile pass is three steps, with everyone else free to move between *)
(* them: it reads the StatefulSet; it checks the scaler, lists the pods and *)
(* sweeps their /state; it writes the StatefulSet.  Its last calls, on the  *)
(* ScaledObject and on the WorkerApp's status, belong to the step in which  *)
(* its fleet outcome is known: nobody can tell them from later ones, but    *)
(* each of them may fail to happen.  A write carries the resourceVersion of *)
(* the object it was computed from; the model compares the object as it was *)
(* read with what it is now.                                                *)
(***************************************************************************)
EXTENDS FleetState

autoscalingEnabled == held.spec.autoscaling
desiredReplicas == held.spec.replicas
templateChanged(s) == s.template # held.spec.template

\* Mutation: forgets to pause for a fleet that is not steady.
ensureScaledObject_NeverPauses(o) ==
    /\ scaler' = IF autoscalingEnabled /\ KedaInstalled THEN "active" ELSE "none"
    /\ acked' = (acked /\ scaler # "none" /\ scaler' # "none")

\* ensureScaledObject: paused unless the outcome is Ready; deleted when
\* autoscaling is off.
ensureScaledObject(o) ==
    /\ scaler' = IF autoscalingEnabled /\ KedaInstalled
                 THEN IF o.phase = "Ready" THEN "active" ELSE "paused"
                 ELSE "none"
    /\ acked' = (acked /\ scaler # "none" /\ scaler' # "none")

\* updateStatus: a conflict leaves the status for the next pass to write.
updateStatus(o) ==
    app' = IF held = app
           THEN [app EXCEPT !.phase = o.phase, !.partition = o.partition]
           ELSE app

DropPass ==
    /\ pc' = "idle"
    /\ held' = NoHeld
    /\ seen' = NoSeen
    /\ want' = NoWant

\* The calls after reconcileFleet.  Either may fail: Reconcile writes the status
\* even when the ScaledObject could not be written.
EndPass(o) ==
    /\ DropPass
    /\ \/ ensureScaledObject(o) /\ updateStatus(o) /\ UNCHANGED aborts
       \/ /\ aborts < MaxAborts
          /\ aborts' = aborts + 1
          /\ ensureScaledObject(o) \/ UNCHANGED <<scaler, acked>>
          /\ updateStatus(o) \/ UNCHANGED app

\* The pass is about to write the StatefulSet s, for outcome o if it lands.
Intend(s, stamp, o) ==
    /\ pc' = "write"
    /\ want' = [sts |-> s, stamp |-> stamp, outcome |-> o]
    /\ UNCHANGED <<app, scaler, acked, held, seen, aborts>>

-----------------------------------------------------------------------------
\* Reconcile takes the WorkerApp from the informer cache and reads the
\* StatefulSet uncached.
BeginPass ==
    /\ pc = "idle"
    /\ held' = cachedApp
    /\ seen' = [sts |-> sts, stat |-> stat]
    /\ pc' = "decide"
    /\ UNCHANGED <<apiVars, ctl, restoring, lister, podLister, want, countVars>>

\* A missing StatefulSet is created, without gates.
CreateFleet ==
    /\ pc = "decide"
    /\ ~seen.sts.exists
    /\ sts' = buildStatefulSet(held.spec)
    /\ EndPass(Outcome("Pending", 0))
    /\ UNCHANGED <<settling, stat, clusterVars, edits, disruptions, scalings>>

mustPause(s) ==
    \/ templateChanged(s)
    \/ s.partition > 0
    \/ s.recreating
    \/ ~autoscalingEnabled /\ s.replicas # desiredReplicas

\* pauseScaling returns TRUE: KEDA acknowledged and no HPA is left.  When it
\* returns FALSE it has paused or deleted the ScaledObject, the same write as
\* ensureScaledObject's at the end of the pass.
pauseScaling ==
    /\ \/ ~autoscalingEnabled /\ scaler = "none"
       \/ autoscalingEnabled /\ ~KedaInstalled
       \/ autoscalingEnabled /\ scaler = "paused" /\ acked
    /\ ~hpa

AwaitPause ==
    /\ pc = "decide"
    /\ seen.sts.exists
    /\ mustPause(seen.sts)
    /\ ~pauseScaling
    /\ EndPass(Outcome("RollingOut", 0))
    /\ UNCHANGED <<sts, settling, stat, clusterVars, edits, disruptions, scalings>>

-----------------------------------------------------------------------------
(* The decision of reconcileFleet, on the StatefulSet it read and the pods  *)
(* it lists.  Nothing is written yet.                                       *)

live == seen.sts

refused == runtimeChangeRefused(live.template.image, held.spec.template.image,
                                held.spec.strategy)

\* The template and every listed pod against the desired template.
liveFleetBreaking ==
    \/ fleetBreaking(live.template, held.spec.template)
    \/ \E o \in Live : fleetBreaking(pods[o].rev, held.spec.template)

\* observeFleet returns states: exactly the expected ordinals, all ready.
observable(n) == n >= 1 /\ Live = Below(n) /\ \A o \in Live : podReady(pods[o])

\* Mutation: never asks the table.
refuseChange_IgnoresTable == refused

refuseChange ==
    \/ refused
    \/ /\ ~refused /\ ~live.recreating
       /\ templateChanged(live)
       /\ liveFleetBreaking
       /\ held.spec.strategy # "Recreate"

Refuse ==
    /\ refuseChange
    /\ EndPass(Outcome("Degraded", 0))

\* Mutation: only continues a Recreate, never starts one.
inRecreate_NeverStarts == ~refused /\ live.recreating

inRecreate ==
    /\ ~refused
    /\ \/ live.recreating
       \/ templateChanged(live) /\ held.spec.strategy = "Recreate"

\* recreateStep, phase A: the old template to zero replicas.
StopFleet ==
    /\ inRecreate
    /\ live.replicas # 0
    /\ Intend([live EXCEPT !.replicas = 0, !.recreating = TRUE], FALSE,
              Outcome("Recreating", 0))

\* Mutation: takes the observed scale-down for the end of the last pod.
Stopped_WhenObserved == seen.stat.observed

Stopped == seen.stat.observed /\ Live = {} /\ seen.stat.replicas = 0

AwaitStop ==
    /\ inRecreate
    /\ live.replicas = 0
    /\ ~Stopped
    /\ EndPass(Outcome("Recreating", 0))

\* recreateStep, phase B: the desired template on the stopped fleet.
StartFleet ==
    /\ inRecreate
    /\ live.replicas = 0
    /\ Stopped
    /\ Intend([live EXCEPT !.template = held.spec.template, !.recreating = FALSE,
                           !.replicas = desiredReplicas, !.partition = 0], FALSE,
              Outcome("Recreating", 0))

\* Mutation: freezes one ordinal too many.
StartRollout_PastEnd ==
    /\ ~refuseChange /\ ~inRecreate
    /\ templateChanged(live)
    /\ Intend([live EXCEPT !.template = held.spec.template,
                           !.partition = live.replicas + 1], TRUE,
              Outcome("RollingOut", live.replicas + 1))

\* Start a gated rolling update, frozen at partition = live replicas.
StartRollout ==
    /\ ~refuseChange /\ ~inRecreate
    /\ templateChanged(live)
    /\ Intend([live EXCEPT !.template = held.spec.template,
                           !.partition = live.replicas], TRUE,
              Outcome("RollingOut", live.replicas))

-----------------------------------------------------------------------------
(* rolloutStep *)

inRollout ==
    /\ ~refuseChange /\ ~inRecreate /\ ~templateChanged(live)
    /\ live.partition > 0

ClampPartition ==
    /\ inRollout
    /\ live.partition > live.replicas
    /\ Intend([live EXCEPT !.partition = live.replicas], FALSE,
              Outcome("RollingOut", live.replicas))

\* Mutation: looks at readiness only.
releasedUpdated_AnyRevision ==
    \A o \in Ordinals : o >= live.partition /\ o < live.replicas => podReady(cachedPods[o])

\* Gate 1: every released ordinal runs the new revision and is ready, as far
\* as the pod informer knows.
releasedUpdated ==
    \A o \in Ordinals : o >= live.partition /\ o < live.replicas =>
        /\ cachedPods[o].rev = seen.stat.updateRevision
        /\ podReady(cachedPods[o])

\* Mutation: no longer waits for the cells that are being restored.
gatesPass_WhileRestoring ==
    /\ seen.stat.observed
    /\ ~settling
    /\ seen.stat.updateRevision # NoTemplate
    /\ releasedUpdated
    /\ observable(live.replicas)

gatesPass ==
    /\ seen.stat.observed
    /\ ~settling
    /\ seen.stat.updateRevision # NoTemplate
    /\ releasedUpdated
    /\ observable(live.replicas)
    /\ ~restoring

\* The sweep may also fail for a reason of its own (a pod that does not answer).
AwaitGates ==
    /\ inRollout
    /\ live.partition <= live.replicas
    /\ EndPass(Outcome("RollingOut", live.partition))

ReleaseNext ==
    /\ inRollout
    /\ live.partition <= live.replicas
    /\ gatesPass
    /\ Intend([live EXCEPT !.partition = live.partition - 1], TRUE,
              Outcome("RollingOut", live.partition - 1))

-----------------------------------------------------------------------------
(* steadyFleet *)

inSteady ==
    /\ ~refuseChange /\ ~inRecreate /\ ~templateChanged(live)
    /\ live.partition = 0

mustScale == ~autoscalingEnabled /\ live.replicas # desiredReplicas

ScaleFleet ==
    /\ inSteady /\ mustScale
    /\ Intend([live EXCEPT !.replicas = desiredReplicas], FALSE, Outcome("Pending", 0))

\* Mutation: counts ready replicas, whatever they run.
converged_AnyRevision == seen.stat.ready = live.replicas /\ seen.stat.observed

converged ==
    /\ seen.stat.ready = live.replicas
    /\ seen.stat.updated = live.replicas
    /\ seen.stat.observed

\* Also when a pod's deployment has not converged, which is not modelled here.
AwaitConvergence ==
    /\ inSteady /\ ~mustScale
    /\ EndPass(Outcome("Pending", 0))

ReportReady ==
    /\ inSteady /\ ~mustScale
    /\ converged
    /\ observable(live.replicas)
    /\ ~restoring
    /\ EndPass(Outcome("Ready", 0))

\* reconcileFleet has an existing StatefulSet and, where it needs one, the pause.
Deciding ==
    /\ pc = "decide"
    /\ live.exists
    /\ mustPause(live) => pauseScaling
    /\ UNCHANGED <<sts, settling, stat, clusterVars, edits, disruptions, scalings>>

DecideFleet ==
    /\ Deciding
    /\ \/ Refuse
       \/ StopFleet \/ AwaitStop \/ StartFleet
       \/ StartRollout
       \/ ClampPartition \/ AwaitGates \/ ReleaseNext
       \/ ScaleFleet \/ AwaitConvergence \/ ReportReady

-----------------------------------------------------------------------------
conflictOutcome ==
    Outcome(IF held.phase = "" THEN "Pending" ELSE held.phase, 0)

\* Mutation: the write carries no resourceVersion.
updateFleet_Unconditional ==
    /\ pc = "write"
    /\ sts' = want.sts
    /\ settling' = (want.stamp \/ settling)
    /\ stat' = [stat EXCEPT !.observed = FALSE]
    /\ EndPass(want.outcome)
    /\ UNCHANGED <<clusterVars, edits, disruptions, scalings>>

\* updateFleet: the write lands unless the StatefulSet changed since it was
\* read, its status included.
updateFleet ==
    /\ pc = "write"
    /\ \/ /\ seen = [sts |-> sts, stat |-> stat]
          /\ sts' = want.sts
          /\ settling' = (want.stamp \/ settling)
          /\ stat' = [stat EXCEPT !.observed = FALSE]
          /\ EndPass(want.outcome)
       \/ /\ seen # [sts |-> sts, stat |-> stat]
          /\ EndPass(conflictOutcome)
          /\ UNCHANGED <<sts, settling, stat>>
    /\ UNCHANGED <<clusterVars, edits, disruptions, scalings>>

\* Any call may fail, or the process die: the pass ends, nothing is undone.
AbortPass ==
    /\ pc # "idle"
    /\ aborts < MaxAborts
    /\ aborts' = aborts + 1
    /\ DropPass
    /\ UNCHANGED <<apiVars, ctl, restoring, lister, podLister,
                   edits, disruptions, scalings>>

SyncApp ==
    /\ AppLags
    /\ lister # app
    /\ lister' = app
    /\ UNCHANGED <<apiVars, ctl, restoring, podLister, passVars, countVars>>

SyncPod(o) ==
    /\ PodsLag
    /\ podLister[o] # pods[o]
    /\ podLister' = [podLister EXCEPT ![o] = pods[o]]
    /\ UNCHANGED <<apiVars, ctl, restoring, lister, passVars, countVars>>

\* The 10 seconds of the settle-until annotation pass.
SettleElapses ==
    /\ settling
    /\ settling' = FALSE
    /\ UNCHANGED <<app, sts, stat, pods, scaler, acked, hpa, ctl, restoring, lister,
                   podLister, passVars, countVars>>

Operator ==
    \/ BeginPass \/ CreateFleet \/ AwaitPause \/ DecideFleet \/ updateFleet \/ AbortPass

Informers == SyncApp \/ (\E o \in Ordinals : SyncPod(o)) \/ SettleElapses
=============================================================================
