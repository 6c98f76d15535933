---------------------------- MODULE DeployTracker ----------------------------
(***************************************************************************)
(* internal/controller/deploytracker.go: which application version a fleet  *)
(* should serve, from spec.appVersion or, with "auto", from the bucket's    *)
(* deploy/current.json through a cache shared by all fleets.  The fleets    *)
(* have s3 buckets, a tracking Secret and the deployment policy Restart,    *)
(* under which the pod template carries the version.  How a new template    *)
(* rolls out is FleetRollout's subject: here a pass writes it or does not.  *)
(*                                                                         *)
(* Versions are numbered in the order of their publication; 0 is "".        *)
(***************************************************************************)
EXTENDS Integers, FiniteSets, Sequences

CONSTANTS Fleets, Buckets,
          FirstBucket,       \* the bucket all fleets start with
          NoEntry,           \* no cache entry, no pass in progress
          CacheCap,          \* 1024 in the code
          Pins,              \* versions a user may pin
          MaxPublications, MaxEdits, MaxRestarts

ASSUME FleetsAssumption == IsFiniteSet(Fleets)
ASSUME CapAssumption == CacheCap \in Nat \ {0}

VARIABLES
    origin,      \* the bucket each version was published in
    spec,        \* per fleet: appVersion, bucket, and what else identifies its source
                 \* (UID of the WorkerApp, UID and resourceVersion of the Secret)
    deleted,     \* WorkerApps that are deleted
    template,    \* per fleet: the version in its StatefulSet, NoSts without one
    cache,       \* DeployTracker.cache
    pc, fleet, held, version,    \* the pass in progress
    edits, restarts

passVars == <<pc, fleet, held, version>>
vars == <<origin, spec, deleted, template, cache, passVars, edits, restarts>>

NoSts == -1
AppVersionAuto == -1

\* deploy/current.json of bucket b.
pointer(b) ==
    LET published == { v \in DOMAIN origin : origin[v] = b }
    IN  IF published = {} THEN 0 ELSE CHOOSE v \in published : \A w \in published : w <= v

identity(s) == <<s.bucket, s.epoch>>
entries == { f \in Fleets : cache[f] # NoEntry }

Init ==
    /\ origin = <<>>
    /\ spec = [f \in Fleets |-> [version |-> AppVersionAuto, bucket |-> FirstBucket, epoch |-> 0]]
    /\ deleted = {}
    /\ template = [f \in Fleets |-> NoSts]
    /\ cache = [f \in Fleets |-> NoEntry]
    /\ pc = "idle" /\ fleet = NoEntry /\ held = NoEntry /\ version = 0
    /\ edits = 0 /\ restarts = 0

-----------------------------------------------------------------------------
(* A pass: resolveAppVersion, then the write of reconcileFleet *)

\* resolveAppVersion for what pointerVersion returned: a pinned version is only
\* compared with it, a failure without a version falls back to the live template.
resolve(s, current, failed) ==
    /\ pc' = IF s.version = AppVersionAuto /\ failed /\ current = 0 THEN "live" ELSE "write"
    /\ version' = IF s.version = AppVersionAuto THEN current ELSE s.version

\* Mutation: the cached version of another bucket is as good as any.
have_AnyIdentity(f, s) == cache[f] # NoEntry

have(f, s) == cache[f] # NoEntry /\ cache[f].identity = identity(s)

\* Mutation: an entry never expires.
hit_Forever(f, s) == have(f, s)

hit(f, s) == have(f, s) /\ cache[f].fresh

\* The WorkerApp and its tracking Secret are read, and the cache is looked up.
BeginPass(f) ==
    /\ pc = "idle" /\ f \notin deleted
    /\ fleet' = f /\ held' = spec[f]
    /\ \/ resolve(spec[f], 0, TRUE)                 \* the Secret could not be read
       \/ /\ hit(f, spec[f])
          /\ resolve(spec[f], cache[f].version, cache[f].failure)
       \/ /\ ~hit(f, spec[f])
          /\ pc' = "fetch" /\ version' = 0
    /\ UNCHANGED <<origin, spec, deleted, template, cache, edits, restarts>>

\* Mutation: a full cache only drops what has expired.
evict_ExpiredOnly(c) ==
    IF Cardinality({ f \in Fleets : c[f] # NoEntry }) < CacheCap THEN {c}
    ELSE {[f \in Fleets |-> IF c[f] # NoEntry /\ c[f].fresh THEN c[f] ELSE NoEntry]}

\* What a full cache may become: it drops what has expired, and when that frees no
\* room one more entry, whichever the map yields first.
evict(c) ==
    LET full(d) == Cardinality({ f \in Fleets : d[f] # NoEntry }) >= CacheCap
        unexpired == [f \in Fleets |-> IF c[f] # NoEntry /\ c[f].fresh THEN c[f] ELSE NoEntry]
    IN  IF ~full(c) THEN {c}
        ELSE IF ~full(unexpired) THEN {unexpired}
        ELSE { [unexpired EXCEPT ![f] = NoEntry] : f \in { g \in Fleets : unexpired[g] # NoEntry } }

\* currentBucketVersion answered or failed; the answer, or the last version known
\* from the same source, is cached together with the failure.
store(current, failed) ==
    /\ \E c \in evict(cache) :
          cache' = [c EXCEPT ![fleet] = [version |-> current, fresh |-> TRUE,
                                         identity |-> identity(held), failure |-> failed]]
    /\ resolve(held, current, failed)

PointerRead ==
    /\ pc = "fetch"
    /\ pointer(held.bucket) # 0
    /\ store(pointer(held.bucket), FALSE)
    /\ UNCHANGED <<origin, spec, deleted, template, fleet, held, edits, restarts>>

PointerUnreadable ==
    /\ pc = "fetch"
    /\ store(IF have(fleet, held) THEN cache[fleet].version ELSE 0, TRUE)
    /\ UNCHANGED <<origin, spec, deleted, template, fleet, held, edits, restarts>>

\* An error, a StatefulSet that does not exist and a template without a version
\* are all the same to liveTemplateVersion.
liveTemplateVersion ==
    /\ pc = "live"
    /\ pc' = "write"
    /\ version' \in {0, IF template[fleet] = NoSts THEN 0 ELSE template[fleet]}
    /\ UNCHANGED <<origin, spec, deleted, template, cache, fleet, held, edits, restarts>>

\* What a pass for a WorkerApp that is gone meanwhile creates is garbage-collected.
owned == fleet \notin deleted /\ spec[fleet].epoch = held.epoch

EndPass == pc' = "idle" /\ fleet' = NoEntry /\ held' = NoEntry /\ version' = 0

\* reconcileFleet creates the StatefulSet or starts to roll out the new template.
WriteFleet ==
    /\ pc = "write"
    /\ template' = IF owned THEN [template EXCEPT ![fleet] = version] ELSE template
    /\ EndPass
    /\ UNCHANGED <<origin, spec, deleted, cache, edits, restarts>>

\* A read of it fails, its write conflicts, or it waits or refuses.
SkipFleet ==
    /\ pc = "write"
    /\ EndPass
    /\ UNCHANGED <<origin, spec, deleted, template, cache, edits, restarts>>

\* A pass that finds the WorkerApp deleted.
Forget(f) ==
    /\ pc = "idle" /\ f \in deleted /\ cache[f] # NoEntry
    /\ cache' = [cache EXCEPT ![f] = NoEntry]
    /\ UNCHANGED <<origin, spec, deleted, template, passVars, edits, restarts>>

-----------------------------------------------------------------------------
(* Everything else *)

\* `celld deploy`.
Publish(b) ==
    /\ Len(origin) < MaxPublications
    /\ origin' = Append(origin, b)
    /\ UNCHANGED <<spec, deleted, template, cache, passVars, edits, restarts>>

\* The poll interval of an entry is over.
Expire(f) ==
    /\ cache[f] # NoEntry /\ cache[f].fresh
    /\ cache' = [cache EXCEPT ![f].fresh = FALSE]
    /\ UNCHANGED <<origin, spec, deleted, template, passVars, edits, restarts>>

\* The user pins or unpins the version, or moves the fleet to another bucket.
EditSpec(f) ==
    /\ edits < MaxEdits /\ f \notin deleted
    /\ \E v \in {AppVersionAuto} \union Pins, b \in Buckets :
          spec' = [spec EXCEPT ![f] = [@ EXCEPT !.version = v, !.bucket = b]]
    /\ edits' = edits + 1
    /\ UNCHANGED <<origin, deleted, template, cache, passVars, restarts>>

DeleteApp(f) ==
    /\ edits < MaxEdits /\ f \notin deleted
    /\ deleted' = deleted \union {f}
    /\ template' = [template EXCEPT ![f] = NoSts]
    /\ edits' = edits + 1
    /\ UNCHANGED <<origin, spec, cache, passVars, restarts>>

\* A WorkerApp of the same name, in any bucket.
CreateApp(f) ==
    /\ f \in deleted
    /\ deleted' = deleted \ {f}
    /\ \E b \in Buckets :
          spec' = [spec EXCEPT ![f] = [version |-> AppVersionAuto, bucket |-> b, epoch |-> @.epoch + 1]]
    /\ UNCHANGED <<origin, template, cache, passVars, edits, restarts>>

\* The operator restarts, or another replica takes the lease.
Restart ==
    /\ restarts < MaxRestarts
    /\ restarts' = restarts + 1
    /\ cache' = [f \in Fleets |-> NoEntry]
    /\ EndPass
    /\ UNCHANGED <<origin, spec, deleted, template, edits>>

Next ==
    \/ \E f \in Fleets : \/ BeginPass(f) \/ Forget(f) \/ Expire(f)
                         \/ EditSpec(f) \/ DeleteApp(f) \/ CreateApp(f)
    \/ PointerRead \/ PointerUnreadable \/ liveTemplateVersion
    \/ WriteFleet \/ SkipFleet
    \/ \E b \in Buckets : Publish(b)
    \/ Restart

Spec == Init /\ [][Next]_vars

\* The work queue hands out every fleet, its Secret can be read, a bucket that can be reached again and
\* again is read in the end, and the write of a new template is not lost for ever.
Fairness ==
    /\ \A f \in Fleets : /\ SF_vars(BeginPass(f) /\ pc' # "live")
                         /\ WF_vars(Expire(f))
                         /\ SF_vars(WriteFleet /\ fleet = f /\ template' # template)
                         /\ SF_vars(PointerRead /\ fleet = f)
    /\ WF_vars(PointerRead \/ PointerUnreadable) /\ WF_vars(liveTemplateVersion)
    /\ WF_vars(WriteFleet \/ SkipFleet)

FairSpec == Spec /\ Fairness

-----------------------------------------------------------------------------
(* Properties *)

\* A fleet in auto mode only ever moves to a version that was published in the
\* bucket its spec names: not to one cached for a bucket it left, for a deleted
\* WorkerApp of its name, or for another fleet.
OnlyOwnBucket ==
    [][\A f \in Fleets :
         template'[f] # template[f] /\ template'[f] > 0 /\ held.version = AppVersionAuto
           => origin[template'[f]] = held.bucket]_vars

\* pointerVersion keeps the cache within its capacity, whatever mix of fresh and
\* expired entries it finds and whether or not the fleet already has one.
CacheBounded == Cardinality(entries) <= CacheCap

\* Whatever was cached, failed or forgotten on the way, every fleet gets to what its
\* spec asks for, the pinned version or the last one in its bucket, again and again:
\* the entry of a fleet expires, is replaced and never keeps it from the bucket.
\* (It need not stay there: see NeverToNowhere.)
FollowsBucket ==
    \A f \in Fleets :
        <>[](f \notin deleted /\ spec[f].version = AppVersionAuto => pointer(spec[f].bucket) # 0)
          => []<>(f \notin deleted =>
                    template[f] = IF spec[f].version = AppVersionAuto
                                  THEN pointer(spec[f].bucket) ELSE spec[f].version)

\* resolveAppVersion: "fall back to whatever the live fleet already serves so an
\* unreachable bucket cannot trigger a rollout to nowhere".
NeverToNowhere ==
    [][\A f \in Fleets : template[f] > 0 => template'[f] # 0]_vars
=============================================================================
