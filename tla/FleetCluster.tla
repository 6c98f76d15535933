---------------------------- MODULE FleetCluster ----------------------------
(***************************************************************************)
(* What moves the fleet besides the operator: the StatefulSet controller,   *)
(* the kubelets and celld, KEDA and its HPA, and the user.  None of it is   *)
(* in this repository; it is modelled as far as the operator's decisions    *)
(* rest on it.                                                              *)
(***************************************************************************)
EXTENDS FleetState

(***************************************************************************)
(* The StatefulSet controller (external): OrderedReady pod management and a *)
(* partitioned RollingUpdate.  It works from its own cached copy of the     *)
(* spec, one pod at a time, and writes the status when it finds it changed. *)
(***************************************************************************)
CtlFetch ==
    /\ ctl # SpecOf(sts)
    /\ ctl' = SpecOf(sts)
    /\ UNCHANGED <<apiVars, restoring, lister, podLister, passVars, countVars>>

\* An unset current revision starts out as the update revision.
currentRevision ==
    IF stat.currentRevision = NoTemplate THEN ctl.template ELSE stat.currentRevision

count(S) == Cardinality(S)
updatedPods == { o \in Live : pods[o].rev = ctl.template /\ pods[o].st # "terminating" }
readyPods == { o \in Live : podReady(pods[o]) }

\* The update is complete, and the current revision moves, only when every
\* pod there is runs the update revision and is ready.
CtlStatus ==
    /\ ctl.exists
    /\ LET complete == updatedPods = Live /\ readyPods = Live
           new == [observed |-> (ctl = SpecOf(sts)),
                   updateRevision |-> ctl.template,
                   currentRevision |-> IF complete THEN ctl.template ELSE currentRevision,
                   replicas |-> count(Live),
                   ready |-> count(readyPods),
                   updated |-> count(updatedPods)]
       IN  /\ stat # new
           /\ stat' = new
    /\ UNCHANGED <<app, sts, settling, pods, scaler, acked, hpa, ctl, restoring,
                   lister, podLister, passVars, countVars>>

\* A pod leaving hands its cells to its peers, which have to restore them.
Terminate(o) ==
    /\ pods' = [pods EXCEPT ![o].st = "terminating"]
    /\ restoring' = (restoring \/ readyPods \ {o} # {})

CtlCreate(o) ==
    /\ ctl.exists
    /\ o < ctl.replicas
    /\ ~Exists(o)
    /\ \A p \in Below(o) : podReady(pods[p])
    /\ pods' = [pods EXCEPT ![o] =
                   [rev |-> IF o < ctl.partition THEN currentRevision ELSE ctl.template,
                    st |-> "starting"]]
    /\ UNCHANGED <<app, sts, settling, stat, scaler, acked, hpa, ctl, restoring,
                   lister, podLister, passVars, countVars>>

replicasHealthy == \A p \in Below(ctl.replicas) : podReady(pods[p])
condemned == { o \in Live : o >= ctl.replicas }

\* Scale-down: the highest condemned pod, once everything else is ready.
CtlScaleDown(o) ==
    /\ ctl.exists
    /\ replicasHealthy
    /\ o \in condemned
    /\ \A p \in condemned : p <= o
    /\ pods[o].st # "terminating"
    /\ podReady(pods[o]) \/ \A p \in condemned \ {o} : podReady(pods[p])
    /\ Terminate(o)
    /\ UNCHANGED <<app, sts, settling, stat, scaler, acked, hpa, ctl,
                   lister, podLister, passVars, countVars>>

\* Rolling update: the highest released pod of another revision.
CtlUpdate(o) ==
    /\ ctl.exists
    /\ replicasHealthy
    /\ condemned = {}
    /\ o >= ctl.partition
    /\ o \in Below(ctl.replicas)
    /\ pods[o].rev # ctl.template
    /\ \A p \in Below(ctl.replicas) : p > o => pods[p].rev = ctl.template
    /\ Terminate(o)
    /\ UNCHANGED <<app, sts, settling, stat, scaler, acked, hpa, ctl,
                   lister, podLister, passVars, countVars>>

-----------------------------------------------------------------------------
(* Kubelets and celld (external) *)

PodBecomesReady(o) ==
    /\ \/ pods[o].st = "starting" /\ pods[o].rev \notin BadTemplates
       \/ pods[o].st = "failed" /\ FailuresHeal
    /\ pods' = [pods EXCEPT ![o].st = "ready"]
    /\ UNCHANGED <<app, sts, settling, stat, scaler, acked, hpa, ctl, restoring,
                   lister, podLister, passVars, countVars>>

PodGone(o) ==
    /\ pods[o].st = "terminating"
    /\ pods' = [pods EXCEPT ![o] = NoPod]
    /\ UNCHANGED <<app, sts, settling, stat, scaler, acked, hpa, ctl, restoring,
                   lister, podLister, passVars, countVars>>

Rewarm ==
    /\ restoring
    /\ restoring' = FALSE
    /\ UNCHANGED <<apiVars, ctl, lister, podLister, passVars, countVars>>

\* A node drain evicts a pod, or a pod loses its readiness.
DisruptPod(o) ==
    /\ disruptions < MaxDisruptions
    /\ disruptions' = disruptions + 1
    /\ \/ /\ pods[o].st \in {"starting", "ready", "failed"}
          /\ Terminate(o)
       \/ /\ pods[o].st = "ready"
          /\ pods' = [pods EXCEPT ![o].st = "failed"]
          /\ restoring' = (restoring \/ readyPods \ {o} # {})
    /\ UNCHANGED <<app, sts, settling, stat, scaler, acked, hpa, ctl,
                   lister, podLister, passVars, edits, scalings, aborts>>

-----------------------------------------------------------------------------
(* KEDA and its HPA (external) *)

KedaRemovesHpa ==
    /\ scaler # "active"
    /\ hpa
    /\ hpa' = FALSE
    /\ UNCHANGED <<app, sts, settling, stat, pods, scaler, acked, ctl, restoring,
                   lister, podLister, passVars, countVars>>

KedaAcknowledges ==
    /\ scaler = "paused"
    /\ ~hpa /\ ~acked
    /\ acked' = TRUE
    /\ UNCHANGED <<app, sts, settling, stat, pods, scaler, hpa, ctl, restoring,
                   lister, podLister, passVars, countVars>>

KedaResumes ==
    /\ scaler = "active"
    /\ ~hpa \/ acked
    /\ hpa' = TRUE
    /\ acked' = FALSE
    /\ UNCHANGED <<app, sts, settling, stat, pods, scaler, ctl, restoring,
                   lister, podLister, passVars, countVars>>

HpaScales(n) ==
    /\ hpa /\ sts.exists
    /\ scalings < MaxScalings
    /\ scalings' = scalings + 1
    /\ n # sts.replicas
    /\ sts' = [sts EXCEPT !.replicas = n]
    /\ stat' = [stat EXCEPT !.observed = FALSE]
    /\ UNCHANGED <<app, settling, pods, scaler, acked, hpa, ctl, restoring,
                   lister, podLister, passVars, edits, disruptions, aborts>>

-----------------------------------------------------------------------------
(* The user *)

\* Nothing is left to do for the spec as it stands, by anyone.
AtRest ==
    /\ pc = "idle"
    /\ cachedApp = app
    /\ sts.exists /\ sts.partition = 0 /\ ~sts.recreating
    /\ stat.observed
    /\ stat.currentRevision = sts.template
    /\ Live = Below(sts.replicas)
    /\ \A o \in Live : pods[o].rev = sts.template /\ podReady(pods[o])

EditSpec(s) ==
    /\ edits < MaxEdits
    /\ edits' = edits + 1
    /\ EditAtRest => AtRest
    /\ s # app.spec
    /\ app' = [app EXCEPT !.spec = s]
    /\ UNCHANGED <<sts, settling, stat, pods, scaler, acked, hpa, ctl, restoring,
                   lister, podLister, passVars, disruptions, scalings, aborts>>


StatefulSetController ==
    \/ CtlFetch \/ CtlStatus
    \/ \E o \in Ordinals : CtlCreate(o) \/ CtlScaleDown(o) \/ CtlUpdate(o)

Kubelets ==
    \/ Rewarm
    \/ \E o \in Ordinals : PodBecomesReady(o) \/ PodGone(o) \/ DisruptPod(o)

Keda ==
    \/ KedaRemovesHpa \/ KedaAcknowledges \/ KedaResumes
    \/ \E n \in 1 .. MaxReplicas : HpaScales(n)
=============================================================================
