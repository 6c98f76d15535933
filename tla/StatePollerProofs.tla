-------------------------- MODULE StatePollerProofs --------------------------
(***************************************************************************)
(* Proofs about StatePoller, for any number of pods, any window and any      *)
(* bounds: the scaling query rests on a fresh census, and the gate's sweep   *)
(* implements AtomicSweep.                                                  *)
(***************************************************************************)
EXTENDS StatePoller, TLAPS

\* A sweep has answers only of pods it listed; the poller's are not older than
\* the time of the sample, and a sweep that can still be complete listed as many
\* pods as the StatefulSet has.
SweepOK ==
    sweep.active =>
        /\ sweep = [active |-> TRUE, list |-> sweep.list, replicas |-> sweep.replicas, complete |-> sweep.complete,
                    sampledAt |-> sweep.sampledAt, states |-> sweep.states, failed |-> sweep.failed]
        /\ sweep.list \subseteq Pods /\ sweep.sampledAt \in Nat
        /\ sweep.states = [p \in DOMAIN sweep.states |-> sweep.states[p]]
        /\ DOMAIN sweep.states \subseteq sweep.list
        /\ sweep.sampledAt <= now
        /\ sweeper = "poller" =>
              /\ sweep.complete => Cardinality(sweep.list) = sweep.replicas
              /\ \A p \in DOMAIN sweep.states :
                    sweep.states[p] \in Nat /\ sweep.sampledAt <= sweep.states[p]

\* Samples of one sweep.
Census(f) ==
    FleetSeries \in DOMAIN f =>
        /\ f[FleetSeries].sampledAt \in Nat
        /\ \A p \in DOMAIN f \ {FleetSeries} :
              f[p] \in Nat /\ f[FleetSeries].sampledAt <= f[p]
        /\ f[FleetSeries].complete =>
              Cardinality(DOMAIN f \ {FleetSeries}) = f[FleetSeries].replicas

MetricsOK ==
    /\ Census(snapshot) /\ Census(prom)
    /\ scrape # None =>
          /\ scrape = [samples |-> scrape.samples, sent |-> scrape.sent]
          /\ Census(scrape.samples)
          /\ DOMAIN scrape.sent \subseteq DOMAIN scrape.samples
          /\ \A s \in DOMAIN scrape.sent : scrape.sent[s] = scrape.samples[s]

CensusInv == now \in Nat /\ SweepOK /\ MetricsOK

\* The samples of a sweep that has ended are samples of one sweep.
LEMMA SamplesAreCensus ==
    ASSUME CensusInv, sweep.active, unasked = {}, sweeper = "poller"
    PROVE  Census(fleetSamples)
<1> DEFINE f == fleetSamples
<1>1. DOMAIN f = DOMAIN sweep.states \cup {FleetSeries}
  BY DEF fleetSamples
<1>2. /\ f[FleetSeries].complete = (sweep.complete /\ swept)
      /\ f[FleetSeries].sampledAt = sweep.sampledAt
      /\ f[FleetSeries].replicas = sweep.replicas
  BY DEF fleetSamples
<1>3. FleetSeries \notin Pods
  BY ReplicaAssumption DEF FleetSeries, Pods
<1>4. DOMAIN f \ {FleetSeries} = DOMAIN sweep.states
  BY <1>1, <1>3 DEF CensusInv, SweepOK
<1>5. \A p \in DOMAIN sweep.states : f[p] = sweep.states[p]
  BY <1>3 DEF fleetSamples, CensusInv, SweepOK
<1>6. ASSUME swept PROVE DOMAIN sweep.states = sweep.list
  BY <1>6 DEF swept, unasked, CensusInv, SweepOK
<1> QED
  BY <1>1, <1>2, <1>4, <1>5, <1>6, Zenon DEF Census, CensusInv, SweepOK

LEMMA CensusInit == Init => CensusInv
<1> SUFFICES ASSUME Init PROVE CensusInv
  OBVIOUS
<1>1. DOMAIN NoSamples = {}
  BY DEF NoSamples
<1> QED
  BY <1>1 DEF Init, NoSweep, CensusInv, SweepOK, MetricsOK, Census

\* One answer more.
LEMMA FetchKeepsSweep ==
    ASSUME CensusInv, NEW p \in Pods, Fetch(p)
    PROVE  SweepOK'
<1>1. PICK answer \in answers(p) :
         sweep' = [sweep EXCEPT !.states = [q \in DOMAIN @ \cup {p} |->
                       IF q = p THEN answer ELSE @[q]]]
  BY DEF Fetch
<1>2. sweep.active /\ p \in sweep.list /\ now' = now /\ sweeper' = sweeper
  BY DEF Fetch, unasked, fleetVars
<1>3. sweep' = [active |-> TRUE, list |-> sweep.list, replicas |-> sweep.replicas, complete |-> sweep.complete,
                sampledAt |-> sweep.sampledAt, failed |-> sweep.failed,
                states |-> [q \in DOMAIN sweep.states \cup {p} |->
                              IF q = p THEN answer ELSE sweep.states[q]]]
  BY <1>1, <1>2, Zenon DEF CensusInv, SweepOK
<1>4. sweeper = "poller" => answer = now
  BY <1>1 DEF answers
<1> QED
  BY <1>2, <1>3, <1>4 DEF CensusInv, SweepOK

LEMMA CensusStep == CensusInv /\ [Next]_vars => CensusInv'
<1> SUFFICES ASSUME CensusInv, [Next]_vars PROVE CensusInv'
  OBVIOUS
<1> USE DEF CensusInv
<1>1. CASE UNCHANGED vars
  BY <1>1 DEF vars, fleetVars, metricVars, SweepOK, MetricsOK, Census
<1>2. CASE Fleet \/ Informers
  <2>1. now' \in Nat /\ now <= now'
    BY <1>2 DEF Fleet, Informers, PodStops, PodReady, RestoreEnds, Scale, ScaleObserved, DeleteApp,
                Tick, Sync, Disturbed
  <2>2. UNCHANGED <<sweeper, sweep, metricVars>>
    BY <1>2 DEF Fleet, Informers, PodStops, PodReady, RestoreEnds, Scale, ScaleObserved, DeleteApp,
                Tick, Sync, Disturbed, fleetVars
  <2> QED
    BY <2>1, <2>2 DEF metricVars, SweepOK, MetricsOK, Census
<1>3. ASSUME NEW p \in Pods, Fetch(p) PROVE CensusInv'
  <2>1. UNCHANGED <<now, metricVars>>
    BY <1>3 DEF Fetch
  <2> QED
    BY <1>3, <2>1, FetchKeepsSweep DEF metricVars, MetricsOK, Census
<1>4. ASSUME NEW p \in Pods, FetchFails(p) PROVE CensusInv'
  <2>1. /\ UNCHANGED <<sweeper, now, metricVars>>
        /\ sweep.active /\ sweep' = [sweep EXCEPT !.failed = @ \cup {p}]
    BY <1>4 DEF FetchFails, fetchFailed, fleetVars
  <2> QED
    BY <2>1, Zenon DEF metricVars, SweepOK, MetricsOK, Census
<1>5. CASE EndSweep
  <2>1. sweep' = NoSweep /\ UNCHANGED <<now, scrape, prom>>
    BY <1>5 DEF EndSweep
  <2>2. Census(snapshot')
    BY <1>5, SamplesAreCensus DEF EndSweep, publish, MetricsOK
  <2> QED
    BY <2>1, <2>2 DEF NoSweep, SweepOK, MetricsOK, Census
<1>6. CASE pollerSweep
  <2>1. UNCHANGED <<sweeper, now, metricVars>>
    BY <1>6 DEF pollerSweep, fleetVars
  <2>2. sweep' = [active |-> TRUE, list |-> Listed(cached), replicas |-> cached.sts.replicas,
                  complete |-> censusComplete(cached), sampledAt |-> now,
                  states |-> <<>>, failed |-> {}]
    BY <1>6 DEF pollerSweep, BeginSweep
  <2> QED
    BY <2>1, <2>2 DEF censusComplete, Listed, metricVars, SweepOK, MetricsOK, Census
<1>7. CASE observeFleet
  <2>1. UNCHANGED <<sweeper, now, metricVars>> /\ sweeper = "gate"
    BY <1>7 DEF observeFleet
  <2>2. sweep' = [active |-> TRUE, list |-> Listed(live), replicas |-> live.sts.replicas,
                  complete |-> TRUE, sampledAt |-> now, states |-> <<>>, failed |-> {}]
    BY <1>7 DEF observeFleet, BeginSweep
  <2> QED
    BY <2>1, <2>2 DEF Listed, metricVars, SweepOK, MetricsOK, Census
<1>8. CASE emptySweep \/ Return
  <2>1. snapshot' = NoSamples /\ UNCHANGED <<sweeper, now, sweep, scrape, prom>>
    BY <1>8 DEF emptySweep, Return, publish, fleetVars
  <2> QED
    BY <2>1 DEF NoSamples, SweepOK, MetricsOK, Census
<1>9. CASE Cancel
  BY <1>9 DEF Cancel, fleetVars, metricVars, SweepOK, MetricsOK, Census
<1>12. CASE Collect
  <2>1. UNCHANGED <<sweeper, now, sweep, snapshot, prom>>
    BY <1>12 DEF Collect, fleetVars
  <2>2. scrape' = [samples |-> snapshot, sent |-> <<>>]
    BY <1>12 DEF Collect
  <2>3. DOMAIN scrape'.sent = {} /\ scrape'.samples = snapshot
    BY <2>2
  <2>4. Census(scrape'.samples)
    BY <2>3 DEF MetricsOK
  <2> QED
    BY <2>1, <2>2, <2>3, <2>4 DEF SweepOK, MetricsOK, Census
<1>10. CASE Send
  <2>1. scrape # None /\ UNCHANGED <<sweeper, now, sweep, snapshot, prom>>
    BY <1>10 DEF Send, fleetVars
  <2>2. PICK s \in DOMAIN scrape.samples :
           scrape' = [scrape EXCEPT !.sent = [t \in DOMAIN @ \cup {s} |->
                         IF t = s THEN scrape.samples[s] ELSE @[t]]]
    BY <1>10 DEF Send, collecting
  <2>3. scrape' = [samples |-> scrape.samples,
                   sent |-> [t \in DOMAIN scrape.sent \cup {s} |->
                               IF t = s THEN scrape.samples[s] ELSE scrape.sent[t]]]
    BY <2>1, <2>2 DEF MetricsOK
  <2> QED
    BY <2>1, <2>3 DEF SweepOK, MetricsOK, Census
<1>11. CASE Scraped
  <2>1. scrape' = None /\ UNCHANGED <<sweeper, now, sweep, snapshot>>
    BY <1>11 DEF Scraped, fleetVars
  <2>2. DOMAIN prom' = DOMAIN scrape.samples /\ \A s \in DOMAIN prom' : prom'[s] = scrape.samples[s]
    BY <1>11 DEF Scraped, collecting, MetricsOK
  <2>3. Census(prom')
    BY <1>11, <2>2 DEF Scraped, MetricsOK, Census
  <2> QED
    BY <2>1, <2>3 DEF SweepOK, MetricsOK, Census
<1> QED
  BY <1>1, <1>2, <1>3, <1>4, <1>5, <1>6, <1>7, <1>8, <1>9, <1>10, <1>11, <1>12
     DEF Next, Sweeping, Asking, Polling, Scraping

\* The scaling query rests on as many answers as the StatefulSet had replicas, all
\* younger than the window, whatever the number of pods, the speed of sweeps and
\* scrapes and the order in which they interleave.
THEOREM ScalesOnCensusHolds == Spec => []ScalesOnCensus
<1>1. CensusInv => ScalesOnCensus
  BY BoundAssumption DEF CensusInv, MetricsOK, Census, ScalesOnCensus, queryAnswers, fresh
<1> QED
  BY <1>1, CensusInit, CensusStep, PTL DEF Spec

-----------------------------------------------------------------------------
(* The gate's sweep *)

Views == [app : BOOLEAN, sts : [replicas : 1..MaxReplicas, observed : BOOLEAN],
          pods : [Pods -> {"absent", "unready", "ready"}]]

\* A pod that answered "no restore" has none left from before the sweep, and all
\* restores from before it are on pods that it asks.
GateOK ==
    /\ sweeper \in {"gate", "poller"}
    /\ live \in Views
    /\ ~sweep.active \/ sweeper = "poller" => old = {}
    /\ sweep.active /\ sweeper = "gate" =>
          /\ old \subseteq sweep.list
          /\ \A p \in DOMAIN sweep.states : sweep.states[p] \in BOOLEAN /\ (p \in old => sweep.states[p])

GateInv == CensusInv /\ GateOK

LEMMA GateInit == Init => GateInv
<1> SUFFICES ASSUME Init PROVE GateOK
  BY CensusInit DEF GateInv
<1> QED
  BY ReplicaAssumption DEF Init, NoSweep, GateOK, Views, AllReady

\* Steps of the fleet and the informers only ever end restores.
LEMMA FleetKeepsGate ==
    ASSUME GateInv, Fleet \/ Informers
    PROVE  GateOK' /\ old' \in SUBSET old /\ UNCHANGED <<sweeper, sweep>>
<1> USE DEF GateInv
<1>1. UNCHANGED <<sweeper, sweep>>
  BY DEF Fleet, Informers, PodStops, PodReady, RestoreEnds, Scale, ScaleObserved, DeleteApp,
         Tick, Sync, Disturbed, fleetVars
<1>2. old' \subseteq old
  BY DEF Fleet, Informers, PodStops, PodReady, RestoreEnds, Scale, ScaleObserved, DeleteApp,
         Tick, Sync, Disturbed, fleetVars
<1>3. live' \in Views
  <2>1. ASSUME NEW p \in Pods, NEW status \in {"unready", "absent", "ready"},
               live' = [live EXCEPT !.pods[p] = status]
        PROVE  live' \in Views
    BY <2>1 DEF GateOK, Views
  <2>2. ASSUME NEW p \in Pods, PodStops(p) \/ PodReady(p) \/ RestoreEnds(p) PROVE live' \in Views
    <3>1. CASE PodStops(p)
      <4>1. PICK status \in {"unready", "absent"} : live' = [live EXCEPT !.pods[p] = status]
        BY <3>1 DEF PodStops
      <4> QED
        BY <4>1, <2>1, Zenon
    <3>2. CASE PodReady(p)
      <4>1. live' = [live EXCEPT !.pods[p] = "ready"]
        BY <3>2 DEF PodReady
      <4> QED
        BY <4>1, <2>1, Zenon
    <3>3. CASE RestoreEnds(p)
      BY <3>3 DEF RestoreEnds, GateOK
    <3> QED
      BY <2>2, <3>1, <3>2, <3>3
  <2>3. CASE Scale
    <3>1. PICK n \in 1..MaxReplicas \ {live.sts.replicas} :
             live' = [live EXCEPT !.sts = [replicas |-> n, observed |-> FALSE]]
      BY <2>3, Zenon DEF Scale
    <3> QED
      BY <3>1, Zenon DEF GateOK, Views
  <2>4. CASE ScaleObserved
    <3> DEFINE left == [p \in Pods |-> IF p < live.sts.replicas THEN live.pods[p] ELSE "absent"]
    <3>1. live' = [live EXCEPT !.sts.observed = TRUE, !.pods = left]
      BY <2>4 DEF ScaleObserved
    <3>2. left \in [Pods -> {"absent", "unready", "ready"}]
      BY DEF GateOK, Views
    <3> HIDE DEF left
    <3> QED
      BY <3>1, <3>2, Zenon DEF GateOK, Views
  <2>5. CASE DeleteApp \/ Tick \/ Informers
    BY <2>5, Zenon DEF DeleteApp, Tick, Informers, Sync, fleetVars, GateOK, Views
  <2> QED
    BY <2>3, <2>4, <2>5, <2>2 DEF Fleet
<1> QED
  BY <1>1, <1>2, <1>3 DEF GateOK

\* An answer, or the lack of one, is about the restores of that moment.
LEMMA AskingKeepsGate ==
    ASSUME GateInv, NEW p \in Pods, Fetch(p) \/ FetchFails(p)
    PROVE  GateOK' /\ UNCHANGED <<sweeper, old>> /\ sweep.active /\ sweep'.active /\ p \in unasked
<1> USE DEF GateInv
<1>1. UNCHANGED <<sweeper, old, live>> /\ sweep.active /\ p \in unasked
  BY DEF Fetch, FetchFails, fleetVars
<1>2. CASE Fetch(p)
  <2>1. PICK answer \in answers(p) :
           sweep' = [sweep EXCEPT !.states = [q \in DOMAIN @ \cup {p} |->
                         IF q = p THEN answer ELSE @[q]]]
    BY <1>2 DEF Fetch
  <2>2. /\ sweep'.active /\ sweep'.list = sweep.list
        /\ DOMAIN sweep'.states = DOMAIN sweep.states \cup {p}
        /\ sweep'.states[p] = answer
        /\ \A q \in DOMAIN sweep.states : q # p => sweep'.states[q] = sweep.states[q]
    BY <1>1, <2>1 DEF CensusInv, SweepOK
  <2>3. sweeper = "gate" => answer \in BOOLEAN /\ (p \in old => answer)
    BY <2>1 DEF answers
  <2> QED
    BY <1>1, <2>2, <2>3 DEF GateOK
<1>3. CASE FetchFails(p)
  <2>1. sweep' = [sweep EXCEPT !.failed = @ \cup {p}]
    BY <1>3 DEF FetchFails, fetchFailed
  <2>2. sweep'.active /\ sweep'.list = sweep.list /\ sweep'.states = sweep.states
    BY <1>1, <2>1 DEF CensusInv, SweepOK
  <2> QED
    BY <1>1, <2>2 DEF GateOK
<1> QED
  BY <1>2, <1>3, <1>1

LEMMA GateStep == GateInv /\ [Next]_vars => GateInv'
<1> SUFFICES ASSUME GateInv, [Next]_vars PROVE GateOK'
  BY CensusStep DEF GateInv
<1> USE DEF GateInv
<1>1. CASE Fleet \/ Informers
  BY <1>1, FleetKeepsGate
<1>2. CASE Asking
  BY <1>2, AskingKeepsGate DEF Asking
<1>3. CASE EndSweep
  BY <1>3 DEF EndSweep, NoSweep, GateOK
<1>4. CASE pollerSweep
  BY <1>4 DEF pollerSweep, fleetVars, GateOK
<1>5. CASE observeFleet
  <2>1. sweep' = [active |-> TRUE, list |-> Listed(live), replicas |-> live.sts.replicas,
                  complete |-> TRUE, sampledAt |-> now, states |-> <<>>, failed |-> {}]
    BY <1>5 DEF observeFleet, BeginSweep
  <2>2. sweep'.list = Listed(live) /\ DOMAIN sweep'.states = {} /\ sweep'.active
    BY <2>1
  <2> QED
    BY <1>5, <2>2 DEF observeFleet, GateOK
<1>6. CASE emptySweep \/ Return \/ Cancel \/ Scraping \/ UNCHANGED vars
  BY <1>6 DEF emptySweep, Return, Cancel, Scraping, Collect, Send, Scraped, vars, fleetVars, GateOK
<1> QED
  BY <1>1, <1>2, <1>3, <1>4, <1>5, <1>6 DEF Next, Sweeping, Polling

\* With all pods asked, no failure and no pod restoring, nothing old is left.
LEMMA WarmIsTrue == GateInv /\ verdict = "warm" => old = {}
<1> SUFFICES ASSUME GateInv, verdict = "warm" PROVE old = {}
  OBVIOUS
<1>1. sweep.active /\ sweeper = "gate" /\ unasked = {} /\ sweep.failed = {} /\ restoring = {}
  BY DEF verdict, GateInv, GateOK
<1>2. sweep.list \subseteq DOMAIN sweep.states
  BY <1>1 DEF unasked
<1> QED
  BY <1>1, <1>2 DEF restoring, GateInv, GateOK

\* FleetSweep asks the pods one by one and concurrently with everything else, and
\* still gives the gate what AtomicSweep promises, for any number of pods.
THEOREM SweepIsAtomicHolds == Spec => SweepIsAtomic
<1>1. Init => Gate!Init
  BY DEF Init, NoSweep, Gate!Init, verdict
<1>2. GateInv /\ GateInv' /\ [Next]_vars => [Gate!Next]_<<old, verdict>>
  <2> SUFFICES ASSUME GateInv, GateInv', [Next]_vars, ~(old' = old /\ verdict' = verdict)
               PROVE  Gate!Next
    OBVIOUS
  <2>1. CASE Fleet \/ Informers
    <3>1. old' \in SUBSET old /\ UNCHANGED <<sweeper, sweep>>
      BY <2>1, FleetKeepsGate
    <3>2. verdict' = verdict
      BY <3>1 DEF verdict, unasked, restoring
    <3> QED
      BY <3>1, <3>2 DEF Gate!Next, Gate!Finish
  <2>2. ASSUME NEW p \in Pods, Fetch(p) \/ FetchFails(p) PROVE Gate!Next
    <3>1. UNCHANGED <<sweeper, old>> /\ sweep.active /\ sweep'.active /\ p \in unasked
      BY <2>2, AskingKeepsGate
    <3>2. sweeper = "gate" /\ verdict = "pending"
      BY <3>1 DEF verdict, GateInv, GateOK
    <3>3. verdict' \in {"failed", "restoring", "warm"}
      BY <3>1, <3>2 DEF verdict
    <3>4. verdict' = "warm" => old = {}
      <4>1. (GateInv /\ verdict = "warm" => old = {})'
        BY WarmIsTrue, PTL
      <4> QED
        BY <4>1, <3>1
    <3> QED
      BY <3>1, <3>2, <3>3, <3>4 DEF Gate!Next, Gate!Judge, Gate!Verdicts
  <2>3. CASE EndSweep
    <3>1. sweep.active /\ unasked = {} /\ old' = {} /\ verdict' = "none"
      BY <2>3 DEF EndSweep, NoSweep, verdict
    <3>2. sweeper = "gate"
      BY <2>3, <3>1 DEF GateInv, GateOK, verdict
    <3>3. verdict \notin {"none", "pending"}
      BY <3>1, <3>2 DEF verdict
    <3> QED
      BY <3>1, <3>3 DEF Gate!Next, Gate!Forget
  <2>4. CASE observeFleet
    <3>1. ~sweep.active /\ sweeper' = "gate" /\ sweeper = "gate"
      BY <2>4 DEF observeFleet
    <3>2. sweep' = [active |-> TRUE, list |-> Listed(live), replicas |-> live.sts.replicas,
                    complete |-> TRUE, sampledAt |-> now, states |-> <<>>, failed |-> {}]
      BY <2>4 DEF observeFleet, BeginSweep
    <3>3. sweep'.active /\ sweep'.list = Listed(live) /\ DOMAIN sweep'.states = {} /\ sweep'.failed = {}
      BY <3>2
    <3>4. Listed(live) # {} /\ Listed(live) \subseteq Pods
      BY <2>4 DEF observeFleet, Listed, GateInv, GateOK, Views
    <3>5. verdict = "none" /\ verdict' = "pending"
      BY <3>1, <3>3, <3>4 DEF verdict, unasked
    <3>6. old' \in SUBSET Pods
      BY <2>4, <3>4 DEF observeFleet
    <3> QED
      BY <3>5, <3>6 DEF Gate!Next, Gate!Begin
  <2>5. CASE pollerSweep
    BY <2>5 DEF pollerSweep, fleetVars, verdict
  <2>6. CASE emptySweep \/ Return \/ Cancel \/ Scraping \/ UNCHANGED vars
    BY <2>6 DEF emptySweep, Return, Cancel, Scraping, Collect, Send, Scraped, vars, fleetVars,
                verdict, unasked, restoring
  <2> QED
    BY <2>1, <2>2, <2>3, <2>4, <2>5, <2>6 DEF Next, Sweeping, Asking, Polling
<1> QED
  BY <1>1, <1>2, GateInit, GateStep, PTL DEF Spec, SweepIsAtomic, Gate!Spec
=============================================================================
