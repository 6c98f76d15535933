----------------------------- MODULE StatePoller -----------------------------
(***************************************************************************)
(* internal/controller/fleetstate.go: the sweep over a fleet's /state       *)
(* endpoints, which the rollout gate and the metrics poller both use, and    *)
(* the way of a poller's sweep to KEDA - a published snapshot, a scrape      *)
(* that collects it sample by sample, and the query of the ScaledObject,     *)
(* which asks for a complete and fresh sample (fleet_resources.go).          *)
(*                                                                         *)
(* Sweeps share no state with each other, so a behaviour has those of the    *)
(* gate or those of the poller.  Restores of cells begin and end at any time; of  *)
(* them the model keeps those that were going on when the gate's sweep       *)
(* began (a cell that moves to another pod is a new restore there).  Time    *)
(* is a counter.                                                            *)
(***************************************************************************)
EXTENDS Integers, FiniteSets

CONSTANTS MaxReplicas,       \* pods are 0 .. MaxReplicas-1
          Window,            \* how long a sample is good for, 60 s in the query
          MaxTime,           \* bound on the clock
          MaxEvents,         \* bound on disturbances and failing calls
          None

ASSUME ReplicaAssumption == MaxReplicas \in Nat \ {0}
ASSUME BoundAssumption == Window \in Nat /\ MaxTime \in Nat /\ MaxEvents \in Nat

Pods == 0..(MaxReplicas - 1)

VARIABLES
    sweeper,     \* whose sweeps a behaviour has, "gate" or "poller"
    live,        \* in the API server: the WorkerApp, its StatefulSet and the pods' status
    cached,      \* the informers' copies of the three
    old,         \* the pods with restores that began before the gate's sweep and go on
    now,
    sweep,       \* the sweep in progress
    snapshot,    \* fleetMetrics.samples: a function from series to samples
    scrape,      \* the scrape in progress: what it took, and what it has sent
    prom,        \* the samples of the last scrape
    ctx,         \* the poller: running, cancelled or returned
    events

fleetVars == <<sweeper, live, cached, old>>
metricVars == <<snapshot, scrape, prom>>
vars == <<fleetVars, now, sweep, metricVars, ctx, events>>

NoSamples == <<>>

\* The series of the fleet, beside those of its pods.
FleetSeries == -1
NoSweep == [active |-> FALSE, list |-> {}, replicas |-> 0, complete |-> FALSE, sampledAt |-> 0,
            states |-> <<>>, failed |-> {}]
AllReady == [p \in Pods |-> "ready"]

Init ==
    /\ sweeper \in {"gate", "poller"}
    /\ live = [app |-> TRUE, sts |-> [replicas |-> MaxReplicas, observed |-> TRUE], pods |-> AllReady]
    /\ cached = live
    /\ old = {}
    /\ now = 0
    /\ sweep = NoSweep
    /\ snapshot = NoSamples /\ scrape = None /\ prom = NoSamples
    /\ ctx = "running"
    /\ events = 0

Happens == events < MaxEvents /\ events' = events + 1
Disturbed == Happens /\ UNCHANGED <<sweeper, cached, now, sweep, metricVars, ctx>>

-----------------------------------------------------------------------------
(* The fleet and its informers                                             *)

Listed(view) == {p \in Pods : view.pods[p] # "absent"}

\* A pod that stops drops its restores.
PodStops(p) ==
    /\ live.pods[p] = "ready"
    /\ \E status \in {"unready", "absent"} : live' = [live EXCEPT !.pods[p] = status]
    /\ old' = old \ {p}
    /\ Disturbed

PodReady(p) ==
    /\ live.app /\ p < live.sts.replicas /\ live.pods[p] # "ready"
    /\ live' = [live EXCEPT !.pods[p] = "ready"]
    /\ UNCHANGED <<sweeper, cached, old, now, sweep, metricVars, ctx, events>>

Scale ==
    /\ live.app
    /\ \E n \in 1..MaxReplicas \ {live.sts.replicas} :
          live' = [live EXCEPT !.sts = [replicas |-> n, observed |-> FALSE]]
    /\ Disturbed /\ UNCHANGED old

\* The StatefulSet controller acts on the new size.
ScaleObserved ==
    /\ ~live.sts.observed
    /\ live' = [live EXCEPT
                  !.sts.observed = TRUE,
                  !.pods = [p \in Pods |-> IF p < live.sts.replicas THEN @[p] ELSE "absent"]]
    /\ old' = {p \in old : live'.pods[p] = "ready"}
    /\ UNCHANGED <<sweeper, cached, now, sweep, metricVars, ctx, events>>

DeleteApp ==
    /\ live.app
    /\ live' = [live EXCEPT !.app = FALSE]
    /\ Disturbed /\ UNCHANGED old

RestoreEnds(p) ==
    /\ p \in old
    /\ old' = old \ {p}
    /\ UNCHANGED <<sweeper, live, cached, now, sweep, metricVars, ctx, events>>

\* Each informer catches up on its own.
Sync(kind) ==
    /\ cached[kind] # live[kind]
    /\ cached' = [cached EXCEPT ![kind] = live[kind]]
    /\ UNCHANGED <<sweeper, live, old, now, sweep, metricVars, ctx, events>>

Tick ==
    /\ now < MaxTime /\ now' = now + 1
    /\ UNCHANGED <<fleetVars, sweep, metricVars, ctx, events>>

-----------------------------------------------------------------------------
(* Sweeps                                                                  *)

BeginSweep(view, complete) ==
    sweep' = [active |-> TRUE, list |-> Listed(view), replicas |-> view.sts.replicas,
              complete |-> complete, sampledAt |-> now, states |-> <<>>, failed |-> {}]

\* observeFleet: an uncached list, of exactly the ready pods the StatefulSet asks for.
observeFleet ==
    /\ sweeper = "gate" /\ ~sweep.active /\ live.app
    /\ Listed(live) = 0..(live.sts.replicas - 1)
    /\ \A p \in Listed(live) : live.pods[p] = "ready"
    /\ BeginSweep(live, TRUE)
    /\ old' \in SUBSET Listed(live)
    /\ UNCHANGED <<sweeper, live, cached, now, metricVars, ctx, events>>

\* A mutant: new samples update the series that are there, as gauges would.
publish_Updates(samples) ==
    snapshot' = [s \in DOMAIN snapshot \cup DOMAIN samples |->
                    IF s \in DOMAIN samples THEN samples[s] ELSE snapshot[s]]

\* A snapshot replaces the one before.
publish(samples) == snapshot' = samples

\* What the poller knows of completeness before it asks a pod.
censusComplete(view) ==
    /\ view.sts.replicas > 0
    /\ Cardinality(Listed(view)) = view.sts.replicas
    /\ view.sts.observed
    /\ \A p \in Listed(view) : view.pods[p] = "ready"

\* StatePoller.sweep up to FleetSweep; a failed List ends it and publishes nothing.
pollerSweep ==
    /\ sweeper = "poller" /\ ~sweep.active /\ ctx = "running" /\ cached.app
    /\ BeginSweep(cached, censusComplete(cached))
    /\ UNCHANGED <<fleetVars, now, metricVars, ctx, events>>

\* Without a WorkerApp a sweep publishes no sample.
emptySweep ==
    /\ sweeper = "poller" /\ ~sweep.active /\ ctx = "running" /\ ~cached.app
    /\ snapshot # NoSamples
    /\ publish(NoSamples)
    /\ UNCHANGED <<fleetVars, now, sweep, scrape, prom, ctx, events>>

unasked == sweep.list \ (DOMAIN sweep.states \cup sweep.failed)

\* What a purpose takes of an answer: the gate whether the pod restores cells
\* at this moment, be it since before the sweep or not, the poller its figures.
answers(p) == IF sweeper = "poller" THEN {now} ELSE {b \in BOOLEAN : p \in old => b}

Fetch(p) ==
    /\ sweep.active /\ p \in unasked
    /\ live.pods[p] # "absent"
    /\ ctx = "running"
    /\ \E answer \in answers(p) :
          sweep' = [sweep EXCEPT !.states = [q \in DOMAIN @ \cup {p} |->
                       IF q = p THEN answer ELSE @[q]]]
    /\ UNCHANGED <<fleetVars, now, metricVars, ctx, events>>

\* A mutant: a pod that does not answer is left out as if it were not listed.
fetchFailed_Skips(p) == sweep' = [sweep EXCEPT !.list = @ \ {p}]

\* An unavailable pod, or one whose answer is late or malformed, fails the sweep.
fetchFailed(p) == sweep' = [sweep EXCEPT !.failed = @ \cup {p}]

FetchFails(p) ==
    /\ sweep.active /\ p \in unasked
    /\ \/ Happens
       \/ /\ live.pods[p] # "ready" \/ ctx # "running"
          /\ UNCHANGED events
    /\ fetchFailed(p)
    /\ UNCHANGED <<fleetVars, now, metricVars, ctx>>

\* FleetSweep has returned without an error.
swept == sweep.active /\ unasked = {} /\ sweep.failed = {}
restoring == {p \in DOMAIN sweep.states : sweep.states[p]}

\* The samples of a sweep; the size is kept to state ScalesOnCensus.
fleetSamples ==
    [s \in DOMAIN sweep.states \cup {FleetSeries} |->
        IF s # FleetSeries THEN sweep.states[s]
        ELSE [complete |-> sweep.complete /\ swept, sampledAt |-> sweep.sampledAt,
              replicas |-> sweep.replicas]]

EndSweep ==
    /\ sweep.active /\ unasked = {}
    /\ sweep' = NoSweep
    /\ IF sweeper = "poller" THEN publish(fleetSamples) ELSE UNCHANGED snapshot
    /\ old' = {}
    /\ UNCHANGED <<sweeper, live, cached, now, scrape, prom, ctx, events>>

\* The manager loses its lease or shuts down; Start returns between two sweeps.
Cancel ==
    /\ sweeper = "poller" /\ ctx = "running" /\ ctx' = "cancelled"
    /\ Happens
    /\ UNCHANGED <<fleetVars, now, sweep, metricVars>>

Return ==
    /\ ctx = "cancelled" /\ ~sweep.active
    /\ ctx' = "returned"
    /\ publish(NoSamples)
    /\ UNCHANGED <<fleetVars, now, sweep, scrape, prom, events>>

-----------------------------------------------------------------------------
(* Scrapes and the scaling query                                           *)

\* A scrape that finds what the last one found changes nothing.
Collect ==
    /\ scrape = None /\ snapshot # prom
    /\ scrape' = [samples |-> snapshot, sent |-> <<>>]
    /\ UNCHANGED <<fleetVars, now, sweep, snapshot, prom, ctx, events>>

\* A mutant: a scrape goes through the samples of the moment.
collecting_Shared == snapshot

\* A scrape goes through the slice it took under the lock.
collecting == scrape.samples

Send ==
    /\ scrape # None
    /\ \E s \in DOMAIN collecting \ DOMAIN scrape.sent :
          /\ \A t \in DOMAIN collecting \ DOMAIN scrape.sent : s <= t
          /\ scrape' = [scrape EXCEPT !.sent = [t \in DOMAIN @ \cup {s} |->
                           IF t = s THEN collecting[s] ELSE @[t]]]
    /\ UNCHANGED <<fleetVars, now, sweep, snapshot, prom, ctx, events>>

Scraped ==
    /\ scrape # None /\ DOMAIN collecting \subseteq DOMAIN scrape.sent
    /\ prom' = scrape.sent
    /\ scrape' = None
    /\ UNCHANGED <<fleetVars, now, sweep, snapshot, ctx, events>>

\* The guard buildScaledObject puts around every query.
fresh == now - prom[FleetSeries].sampledAt < Window
queryAnswers == FleetSeries \in DOMAIN prom /\ prom[FleetSeries].complete /\ fresh

-----------------------------------------------------------------------------
Fleet ==
    \/ \E p \in Pods : PodStops(p) \/ PodReady(p) \/ RestoreEnds(p)
    \/ Scale \/ ScaleObserved \/ DeleteApp \/ Tick
Informers == \E kind \in {"app", "sts", "pods"} : Sync(kind)
Asking == \E p \in Pods : Fetch(p) \/ FetchFails(p)
Sweeping == Asking \/ EndSweep
Polling == pollerSweep \/ emptySweep \/ Return
Scraping == Collect \/ Send \/ Scraped

Next == Fleet \/ Informers \/ Sweeping \/ Polling \/ observeFleet \/ Cancel \/ Scraping

Spec == Init /\ [][Next]_vars

\* Informers, sweeps (every request has a timeout), the ticker and Prometheus go on.
FairSpec == /\ Spec
            /\ WF_vars(Informers) /\ WF_vars(Sweeping) /\ WF_vars(Polling)
            /\ WF_vars(Scraping)

-----------------------------------------------------------------------------
verdict ==
    IF ~sweep.active \/ sweeper = "poller" THEN "none"
    ELSE IF unasked # {} THEN "pending"
    ELSE IF sweep.failed # {} THEN "failed"
    ELSE IF restoring # {} THEN "restoring" ELSE "warm"

Gate == INSTANCE AtomicSweep

\* The gate's sweep implements AtomicSweep: although the pods are asked at
\* different moments, and pods come and go meanwhile, it finds the fleet warm
\* only when every restore that was going on when it began is over, on
\* whichever pod (FleetSweep, observeFleet).
SweepIsAtomic == Gate!Spec

\* Whenever the scaling query yields a value it rests on the answers of as
\* many pods as the StatefulSet had, none of them as old as the window: not on
\* a partial census, a mix of two sweeps, or a slow sweep's early answers
\* (StatePoller.sweep, Collect, buildScaledObject).
ScalesOnCensus ==
    queryAnswers =>
        LET pods == DOMAIN prom \ {FleetSeries} IN
        /\ Cardinality(pods) = prom[FleetSeries].replicas
        /\ \A p \in pods : now - prom[p] < Window

\* The series of a deleted fleet, and of a manager that lost its lease, go away
\* for good (publish replaces the snapshot; Start publishes nil on its way out).
SeriesVanish == <>[](live.app /\ ctx = "running") \/ <>[](prom = NoSamples)
=============================================================================
