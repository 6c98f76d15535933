------------------------ MODULE DeployTrackerProofs ------------------------
(***************************************************************************)
(* Proofs about DeployTracker, for any finite set of fleets, any buckets,    *)
(* capacity and bounds.                                                     *)
(***************************************************************************)
EXTENDS DeployTracker, FiniteSetTheorems, WellFoundedInduction, TLAPS

\* v is no version, or one that was published in bucket b.
Known(v, b) == v = 0 \/ (v \in DOMAIN origin /\ origin[v] = b)

SpecFields == {"version", "bucket", "epoch"}
EntryFields == {"version", "fresh", "identity", "failure"}

StateOK ==
    /\ origin \in Seq(Buckets)
    /\ spec = [f \in Fleets |-> spec[f]]
    /\ \A f \in Fleets : spec[f] = [x \in SpecFields |-> spec[f][x]] /\ spec[f].epoch \in Nat
    /\ template = [f \in Fleets |-> template[f]]

CacheOK ==
    /\ cache = [f \in Fleets |-> cache[f]]
    /\ \A f \in Fleets : cache[f] # NoEntry =>
          /\ cache[f] = [x \in EntryFields |-> cache[f][x]]
          /\ Known(cache[f].version, cache[f].identity[1])

\* The version a pass is about to write is its bucket's, or the one the fleet has;
\* the pass of a WorkerApp that was deleted or replaced is known by its epoch.
PassOK ==
    /\ pc # "idle" => fleet \in Fleets /\ held.epoch \in Nat /\ held.epoch <= spec[fleet].epoch
    /\ pc = "write" /\ held.version = AppVersionAuto =>
          Known(version, held.bucket) \/ (owned => version = template[fleet])

TrackInv == StateOK /\ CacheOK /\ PassOK

-----------------------------------------------------------------------------
(* Operators                                                               *)

\* A nonempty set of numbers up to n has a largest element.
LEMMA Largest ==
    ASSUME NEW n \in Nat, NEW S \in SUBSET (1..n), S # {}
    PROVE  \E v \in S : \A w \in S : w <= v
<1> DEFINE Above(x) == {y \in S : y > x}
           T == {Above(v) : v \in S}
<1>1. IsFiniteSet(1..n)
  BY FS_Interval
<1>2. FiniteSubsetsOf(1..n) = SUBSET (1..n)
  BY <1>1, FS_FiniteSubsetsOfFinite
<1>3. IsWellFoundedOn(StrictSubsetOrdering(1..n), SUBSET (1..n))
  BY <1>2, FS_StrictSubsetOrderingWellFounded, Zenon
<1>4. T \subseteq SUBSET (1..n) /\ T # {}
  BY Zenon
<1>5. \E x \in T : \A y \in T : ~(<<y, x>> \in StrictSubsetOrdering(1..n))
  <2> HIDE DEF T
  <2> QED
    BY <1>3, <1>4, WFMin, Zenon
<1>6. PICK v \in S : \A w \in S : ~(<<Above(w), Above(v)>> \in StrictSubsetOrdering(1..n))
  BY <1>5, Zenon
<1>7. \A w \in S : w <= v
  <2> SUFFICES ASSUME NEW w \in S, w > v PROVE FALSE
    OBVIOUS
  <2>0. v \in Int /\ w \in Int /\ \A u \in S : u \in Int
    OBVIOUS
  <2>1. /\ \A u \in Above(w) : u \in Above(v)
        /\ w \in Above(v) /\ w \notin Above(w)
    BY <2>0
  <2>2. Above(w) \in SUBSET (1..n) /\ Above(v) \in SUBSET (1..n)
    BY Zenon
  <2> HIDE DEF Above
  <2>3. <<Above(w), Above(v)>> \in StrictSubsetOrdering(1..n)
    BY <2>1, <2>2 DEF StrictSubsetOrdering
  <2> QED
    BY <1>6, <2>3
<1> QED
  BY <1>7

\* The pointer of a bucket names a version that was published there.
LEMMA PointerKnown ==
    ASSUME origin \in Seq(Buckets), NEW b
    PROVE  Known(pointer(b), b)
<1> DEFINE published == {v \in DOMAIN origin : origin[v] = b}
<1>1. CASE published = {}
  BY <1>1 DEF pointer, Known
<1>2. CASE published # {}
  <2>1. DOMAIN origin = 1..Len(origin) /\ Len(origin) \in Nat
    OBVIOUS
  <2>2. published \in SUBSET (1..Len(origin))
    BY <2>1
  <2>3. \E v \in published : \A w \in published : w <= v
    <3> HIDE DEF published
    <3> QED
      BY <1>2, <2>1, <2>2, Largest, Zenon
  <2>4. pointer(b) = CHOOSE v \in published : \A w \in published : w <= v
    BY <1>2 DEF pointer
  <2>5. pointer(b) \in published
    <3> HIDE DEF published
    <3> QED
      BY <2>3, <2>4
  <2> QED
    BY <2>5 DEF Known
<1> QED
  BY <1>1, <1>2

\* Eviction keeps entries as they are or drops them.
LEMMA EvictDrops ==
    ASSUME NEW c, c = [f \in Fleets |-> c[f]], NEW d \in evict(c)
    PROVE  d = [f \in Fleets |-> d[f]] /\ \A f \in Fleets : d[f] = c[f] \/ d[f] = NoEntry
BY Zenon DEF evict

-----------------------------------------------------------------------------
(* The invariant                                                           *)

LEMMA TrackInit == Init => TrackInv
BY DEF Init, TrackInv, StateOK, CacheOK, PassOK, SpecFields, AppVersionAuto

\* What becomes of the version when pointerVersion has returned.
LEMMA ResolveKeeps ==
    ASSUME NEW s, NEW current, NEW failed, Known(current, s.bucket), resolve(s, current, failed),
           held' = s, UNCHANGED origin
    PROVE  pc' \in {"live", "write"} /\ (held'.version = AppVersionAuto => Known(version, held.bucket)')
BY DEF resolve, Known

\* An entry for the source a pass reads holds a version of its bucket.
LEMMA HaveKnown ==
    ASSUME TrackInv, NEW f \in Fleets, NEW s, have(f, s)
    PROVE  Known(cache[f].version, s.bucket)
BY DEF TrackInv, CacheOK, have, identity

LEMMA StoreKeeps ==
    ASSUME TrackInv, pc = "fetch", NEW current, NEW failed, Known(current, held.bucket),
           store(current, failed), UNCHANGED <<origin, spec, deleted, template, fleet, held>>
    PROVE  TrackInv'
<1> USE DEF TrackInv
<1>1. fleet \in Fleets
  BY DEF PassOK
<1>2. PICK c \in evict(cache) :
         cache' = [c EXCEPT ![fleet] = [version |-> current, fresh |-> TRUE,
                                        identity |-> identity(held), failure |-> failed]]
  BY Zenon DEF store
<1>3. c = [f \in Fleets |-> c[f]] /\ \A f \in Fleets : c[f] = cache[f] \/ c[f] = NoEntry
  BY <1>2, EvictDrops DEF CacheOK
<1>4. CacheOK'
  <2>1. cache' = [f \in Fleets |-> cache'[f]]
    BY <1>2, <1>3, Zenon
  <2>2. ASSUME NEW f \in Fleets, f # fleet PROVE cache'[f] = cache[f] \/ cache'[f] = NoEntry
    BY <1>2, <1>3, <2>2
  <2>3. cache'[fleet] = [version |-> current, fresh |-> TRUE,
                         identity |-> identity(held), failure |-> failed]
    BY <1>1, <1>2, <1>3
  <2>4. cache'[fleet].version = current /\ cache'[fleet].identity[1] = held.bucket
    BY <2>3 DEF identity
  <2>5. cache'[fleet] = [x \in EntryFields |-> cache'[fleet][x]]
    BY <2>3 DEF EntryFields
  <2> QED
    BY <2>1, <2>2, <2>4, <2>5 DEF CacheOK, Known
<1>5. PassOK'
  <2>1. resolve(held, current, failed)
    BY DEF store
  <2>2. pc' \in {"live", "write"} /\ (held'.version = AppVersionAuto => Known(version, held.bucket)')
    BY <2>1, ResolveKeeps
  <2> QED
    BY <2>2 DEF PassOK
<1>6. StateOK'
  BY DEF StateOK
<1> QED
  BY <1>4, <1>5, <1>6

-----------------------------------------------------------------------------
(* Steps                                                                   *)

LEMMA BeginKeeps ==
    ASSUME TrackInv, NEW f \in Fleets, BeginPass(f)
    PROVE  TrackInv'
<1> USE DEF TrackInv
<1>1. StateOK' /\ CacheOK'
  BY DEF BeginPass, StateOK, CacheOK, Known
<1>2. fleet' \in Fleets /\ held'.epoch \in Nat /\ held'.epoch <= spec'[fleet'].epoch
  BY DEF BeginPass, StateOK
<1>3. pc' = "write" /\ held'.version = AppVersionAuto => Known(version, held.bucket)'
  <2> USE DEF BeginPass
  <2>1. CASE resolve(spec[f], 0, TRUE)
    <3>1. Known(0, spec[f].bucket)
      BY DEF Known
    <3> QED
      BY <2>1, <3>1, ResolveKeeps, Zenon
  <2>2. CASE hit(f, spec[f]) /\ resolve(spec[f], cache[f].version, cache[f].failure)
    <3>1. Known(cache[f].version, spec[f].bucket)
      BY <2>2, HaveKnown DEF hit
    <3> QED
      BY <2>2, <3>1, ResolveKeeps
  <2>3. CASE pc' = "fetch"
    BY <2>3
  <2> QED
    BY <2>1, <2>2, <2>3, Zenon
<1> QED
  BY <1>1, <1>2, <1>3 DEF PassOK

\* The rest of a pass.
LEMMA PassKeeps ==
    ASSUME TrackInv, PointerRead \/ PointerUnreadable \/ liveTemplateVersion \/ WriteFleet \/ SkipFleet
    PROVE  TrackInv'
<1> USE DEF TrackInv
<1>1. CASE PointerRead
  <2>1. Known(pointer(held.bucket), held.bucket)
    BY PointerKnown DEF StateOK
  <2> QED
    BY <1>1, <2>1, StoreKeeps, Zenon DEF PointerRead
<1>2. CASE PointerUnreadable
  <2> DEFINE v == IF have(fleet, held) THEN cache[fleet].version ELSE 0
  <2>1. fleet \in Fleets
    BY <1>2 DEF PointerUnreadable, PassOK
  <2>2. Known(v, held.bucket)
    BY <2>1, HaveKnown DEF Known
  <2> QED
    BY <1>2, <2>2, StoreKeeps, Zenon DEF PointerUnreadable
<1>3. CASE liveTemplateVersion
  <2>1. StateOK' /\ CacheOK'
    BY <1>3 DEF liveTemplateVersion, StateOK, CacheOK, Known
  <2> QED
    BY <1>3, <2>1 DEF liveTemplateVersion, PassOK, Known
<1>4. CASE WriteFleet
  <2>1. StateOK' /\ CacheOK'
    BY <1>4 DEF WriteFleet, StateOK, CacheOK, Known
  <2> QED
    BY <1>4, <2>1 DEF WriteFleet, EndPass, PassOK
<1>5. CASE SkipFleet
  <2>1. StateOK' /\ CacheOK'
    BY <1>5 DEF SkipFleet, StateOK, CacheOK, Known
  <2> QED
    BY <1>5, <2>1 DEF SkipFleet, EndPass, PassOK
<1> QED
  BY <1>1, <1>2, <1>3, <1>4, <1>5

LEMMA CacheStepKeeps ==
    ASSUME TrackInv, NEW f \in Fleets, Forget(f) \/ Expire(f)
    PROVE  TrackInv'
<1> USE DEF TrackInv
<1>1. StateOK' /\ PassOK'
  BY DEF Forget, Expire, StateOK, PassOK, passVars, Known, owned
<1>2. CASE Forget(f)
  BY <1>1, <1>2 DEF Forget, CacheOK, Known
<1>3. CASE Expire(f)
  <2>1. cache' = [cache EXCEPT ![f] = [cache[f] EXCEPT !.fresh = FALSE]]
    BY <1>3 DEF Expire, CacheOK
  <2>2. cache[f] # NoEntry /\ UNCHANGED origin
    BY <1>3 DEF Expire
  <2>3. \A g \in Fleets : g # f => cache'[g] = cache[g]
    BY <2>1 DEF CacheOK
  <2>4. /\ cache'[f] = [x \in EntryFields |-> cache'[f][x]]
        /\ cache'[f].version = cache[f].version /\ cache'[f].identity = cache[f].identity
    BY <2>1, <2>2, Zenon DEF CacheOK, EntryFields
  <2>5. cache' = [g \in Fleets |-> cache'[g]]
    BY <2>1, Zenon DEF CacheOK
  <2> QED
    BY <1>1, <2>2, <2>3, <2>4, <2>5 DEF CacheOK, Known
<1> QED
  BY <1>2, <1>3

\* Users and `celld deploy`.
LEMMA UserKeeps ==
    ASSUME TrackInv, NEW f \in Fleets, EditSpec(f) \/ DeleteApp(f) \/ CreateApp(f)
    PROVE  TrackInv'
<1> USE DEF TrackInv
<1>1. CacheOK'
  <2>1. UNCHANGED <<cache, origin>>
    BY Zenon DEF EditSpec, DeleteApp, CreateApp
  <2> QED
    BY <2>1 DEF CacheOK, Known
<1>2. CASE EditSpec(f)
  <2>0. PICK s : spec' = [spec EXCEPT ![f] = s] /\ s = [x \in SpecFields |-> s[x]]
                 /\ s.epoch = spec[f].epoch
    <3>1. PICK v \in {AppVersionAuto} \cup Pins :
             \E b \in Buckets : spec' = [spec EXCEPT ![f] = [@ EXCEPT !.version = v, !.bucket = b]]
      BY <1>2, Zenon DEF EditSpec
    <3>2. PICK b \in Buckets : spec' = [spec EXCEPT ![f] = [@ EXCEPT !.version = v, !.bucket = b]]
      BY <3>1, Zenon
    <3> DEFINE s == [spec[f] EXCEPT !.version = v, !.bucket = b]
    <3>3. s = [x \in SpecFields |-> s[x]] /\ s.epoch = spec[f].epoch
      BY Zenon DEF StateOK, SpecFields
    <3>4. spec' = [spec EXCEPT ![f] = s]
      BY <3>2
    <3> HIDE DEF s
    <3> QED
      BY <3>3, <3>4, Zenon
  <2>1. \A g \in Fleets : spec'[g].epoch = spec[g].epoch
    BY <2>0 DEF StateOK
  <2>2. StateOK'
    <3>1. UNCHANGED <<origin, template>>
      BY <1>2, Zenon DEF EditSpec
    <3>2. spec' = [g \in Fleets |-> spec'[g]]
      BY <2>0 DEF StateOK
    <3>3. \A g \in Fleets : spec'[g] = [x \in SpecFields |-> spec'[g][x]]
      BY <2>0 DEF StateOK
    <3> QED
      BY <2>1, <3>1, <3>2, <3>3 DEF StateOK
  <2>3. PassOK'
    BY <1>2, <2>1, Zenon DEF EditSpec, PassOK, passVars, owned, Known
  <2> QED
    BY <1>1, <2>2, <2>3
<1>3. CASE DeleteApp(f)
  <2>1. StateOK'
    BY <1>3, Zenon DEF DeleteApp, StateOK
  <2>2. PassOK'
    BY <1>3 DEF DeleteApp, StateOK, PassOK, passVars, owned, Known
  <2> QED
    BY <1>1, <2>1, <2>2
<1>4. CASE CreateApp(f)
  <2>0. PICK b \in Buckets :
           spec' = [spec EXCEPT ![f] = [version |-> AppVersionAuto, bucket |-> b, epoch |-> @.epoch + 1]]
    BY <1>4, Zenon DEF CreateApp
  <2>2. /\ spec'[f] = [version |-> AppVersionAuto, bucket |-> b, epoch |-> spec[f].epoch + 1]
        /\ \A g \in Fleets : g # f => spec'[g] = spec[g]
    BY <2>0 DEF StateOK
  <2>1. StateOK'
    <3>1. UNCHANGED <<origin, template>>
      BY <1>4 DEF CreateApp
    <3>2. spec' = [g \in Fleets |-> spec'[g]]
      BY <2>0 DEF StateOK
    <3>3. spec'[f] = [x \in SpecFields |-> spec'[f][x]] /\ spec'[f].epoch \in Nat
      BY <2>2 DEF StateOK, SpecFields
    <3> QED
      BY <2>2, <3>1, <3>2, <3>3, Zenon DEF StateOK
  <2>3. PassOK'
    BY <1>4, <2>2 DEF CreateApp, StateOK, PassOK, passVars, owned, Known
  <2> QED
    BY <1>1, <2>1, <2>3
<1> QED
  BY <1>2, <1>3, <1>4

LEMMA PublishKeeps ==
    ASSUME TrackInv, NEW b \in Buckets, Publish(b)
    PROVE  TrackInv'
<1> USE DEF TrackInv
<1>1. origin' = Append(origin, b) /\ origin \in Seq(Buckets)
  BY DEF Publish, StateOK
<1>2. origin' \in Seq(Buckets)
  BY <1>1
<1>3. \A v, c : Known(v, c) => Known(v, c)'
  BY <1>1 DEF Known
<1>4. StateOK'
  BY <1>2 DEF Publish, StateOK
<1>5. CacheOK'
  BY <1>3 DEF Publish, CacheOK
<1>6. PassOK'
  BY <1>3 DEF Publish, PassOK, passVars, owned
<1> QED
  BY <1>4, <1>5, <1>6

LEMMA RestartKeeps ==
    ASSUME TrackInv, Restart
    PROVE  TrackInv'
BY DEF TrackInv, Restart, EndPass, StateOK, CacheOK, PassOK

LEMMA TrackStep == TrackInv /\ [Next]_vars => TrackInv'
<1> SUFFICES ASSUME TrackInv, [Next]_vars PROVE TrackInv'
  OBVIOUS
<1>1. CASE UNCHANGED vars
  BY <1>1 DEF vars, passVars, TrackInv, StateOK, CacheOK, PassOK, Known, owned
<1>2. CASE Next
  BY <1>2, BeginKeeps, PassKeeps, CacheStepKeeps, UserKeeps, PublishKeeps, RestartKeeps DEF Next
<1> QED
  BY <1>1, <1>2

\* Only WriteFleet brings a fleet a version, and it is the one of the pass.
LEMMA TemplateChanges ==
    ASSUME TrackInv, [Next]_vars, NEW f \in Fleets,
           template'[f] # template[f], template'[f] # NoSts
    PROVE  pc = "write" /\ f = fleet /\ owned /\ template'[f] = version
<1>1. CASE WriteFleet
  BY <1>1 DEF WriteFleet, TrackInv, StateOK
<1>2. ASSUME NEW g \in Fleets, DeleteApp(g) PROVE FALSE
  BY <1>2 DEF DeleteApp, TrackInv, StateOK
<1>3. CASE UNCHANGED template
  BY <1>3
<1> QED
  BY <1>1, <1>2, <1>3, Zenon DEF Next, vars, passVars, BeginPass, Forget, Expire, EditSpec, CreateApp,
     PointerRead, PointerUnreadable, liveTemplateVersion, SkipFleet, Publish, Restart

\* A fleet in auto mode only ever moves to a version of the bucket its spec named when
\* the pass began, whatever the cache held (pointerVersion, resolveAppVersion).
THEOREM OnlyOwnBucketHolds == Spec => OnlyOwnBucket
<1>1. TrackInv /\ [Next]_vars =>
        [\A f \in Fleets :
           template'[f] # template[f] /\ template'[f] > 0 /\ held.version = AppVersionAuto
             => origin[template'[f]] = held.bucket]_vars
  <2> SUFFICES ASSUME TrackInv, [Next]_vars, NEW f \in Fleets,
                      template'[f] # template[f], template'[f] > 0, held.version = AppVersionAuto
               PROVE  origin[template'[f]] = held.bucket
    OBVIOUS
  <2>1. template'[f] # NoSts
    BY DEF NoSts
  <2>2. pc = "write" /\ f = fleet /\ owned /\ template'[f] = version
    BY <2>1, TemplateChanges
  <2> QED
    BY <2>2 DEF TrackInv, PassOK, Known
<1> QED
  BY <1>1, TrackInit, TrackStep, PTL DEF Spec, OnlyOwnBucket

-----------------------------------------------------------------------------
(* The capacity of the cache                                               *)

Filled(c) == {f \in Fleets : c[f] # NoEntry}

LEMMA FilledFinite ==
    ASSUME NEW c
    PROVE  IsFiniteSet(Filled(c)) /\ Cardinality(Filled(c)) \in Nat
BY FleetsAssumption, FS_Subset, FS_CardinalityType DEF Filled

\* After eviction there is room for one more entry.
LEMMA EvictFrees ==
    ASSUME NEW c, c = [f \in Fleets |-> c[f]], Cardinality(Filled(c)) <= CacheCap, NEW d \in evict(c)
    PROVE  Cardinality(Filled(d)) < CacheCap
<1> DEFINE unexpired == [f \in Fleets |-> IF c[f] # NoEntry /\ c[f].fresh THEN c[f] ELSE NoEntry]
<1>1. CASE d \in {c, unexpired} /\ ~(Cardinality(Filled(d)) >= CacheCap)
  BY <1>1, CapAssumption, FilledFinite
<1>2. ASSUME NEW g \in Fleets, unexpired[g] # NoEntry, d = [unexpired EXCEPT ![g] = NoEntry]
      PROVE  Cardinality(Filled(d)) < CacheCap
  <2>1. Filled(unexpired) \subseteq Filled(c) /\ g \in Filled(unexpired)
    BY <1>2 DEF Filled
  <2>2. Filled(d) = Filled(unexpired) \ {g}
    BY <1>2 DEF Filled
  <2> HIDE DEF unexpired
  <2>3. Cardinality(Filled(unexpired)) <= Cardinality(Filled(c))
    BY <2>1, FilledFinite, FS_Subset
  <2>4. Cardinality(Filled(d)) = Cardinality(Filled(unexpired)) - 1
    BY <2>1, <2>2, FilledFinite, FS_RemoveElement, Zenon
  <2> QED
    BY <2>3, <2>4, FilledFinite, CapAssumption
<1>3. \/ d \in {c, unexpired} /\ ~(Cardinality(Filled(d)) >= CacheCap)
      \/ \E g \in Fleets : unexpired[g] # NoEntry /\ d = [unexpired EXCEPT ![g] = NoEntry]
  BY Zenon DEF evict, Filled
<1> QED
  BY <1>1, <1>2, <1>3

\* An entry replaces one of its fleet or takes the room that eviction left.
LEMMA StoreBounded ==
    ASSUME CacheOK, CacheBounded, NEW current, NEW failed, store(current, failed)
    PROVE  CacheBounded'
<1>1. PICK c \in evict(cache) :
         cache' = [c EXCEPT ![fleet] = [version |-> current, fresh |-> TRUE,
                                        identity |-> identity(held), failure |-> failed]]
  BY Zenon DEF store
<1>2. c = [f \in Fleets |-> c[f]]
  BY <1>1, EvictDrops DEF CacheOK
<1>3. Cardinality(Filled(c)) < CacheCap
  <2>1. Cardinality(Filled(cache)) <= CacheCap
    BY DEF CacheBounded, entries, Filled
  <2> QED
    BY <1>1, <2>1, EvictFrees DEF CacheOK
<1>4. Filled(cache') \subseteq Filled(c) \cup {fleet}
  BY <1>1, <1>2 DEF Filled
<1>5. /\ IsFiniteSet(Filled(c) \cup {fleet})
      /\ Cardinality(Filled(c) \cup {fleet}) <= Cardinality(Filled(c)) + 1
  <2>1. IsFiniteSet(Filled(c)) /\ Cardinality(Filled(c)) \in Nat
    BY FilledFinite
  <2>2. /\ IsFiniteSet(Filled(c) \cup {fleet})
        /\ Cardinality(Filled(c) \cup {fleet}) =
              IF fleet \in Filled(c) THEN Cardinality(Filled(c)) ELSE Cardinality(Filled(c)) + 1
    BY <2>1, FS_AddElement
  <2> QED
    BY <2>1, <2>2
<1>6. Cardinality(Filled(cache')) <= Cardinality(Filled(c) \cup {fleet})
  BY <1>4, <1>5, FS_Subset
<1>7. Cardinality(Filled(c) \cup {fleet}) \in Nat
  BY <1>5, FS_CardinalityType
<1>8. Cardinality(Filled(cache')) <= CacheCap
  BY <1>3, <1>5, <1>6, <1>7, FilledFinite, CapAssumption
<1> QED
  BY <1>8 DEF CacheBounded, entries, Filled

\* Every other step only drops entries.
LEMMA OthersDrop ==
    ASSUME CacheOK, [Next]_vars, ~PointerRead, ~PointerUnreadable
    PROVE  \A f \in Fleets : cache'[f] # NoEntry => cache[f] # NoEntry
<1>1. CASE UNCHANGED cache
  BY <1>1
<1>2. ASSUME NEW g \in Fleets, Forget(g) \/ Expire(g) PROVE \A f \in Fleets : cache'[f] # NoEntry => cache[f] # NoEntry
  <2>1. CASE Forget(g)
    BY <2>1 DEF Forget, CacheOK
  <2>2. CASE Expire(g)
    <3>1. cache[g] # NoEntry /\ cache' = [cache EXCEPT ![g] = [cache[g] EXCEPT !.fresh = FALSE]]
      BY <2>2 DEF Expire, CacheOK
    <3> QED
      BY <3>1 DEF CacheOK
  <2> QED
    BY <1>2, <2>1, <2>2
<1>3. CASE Restart
  BY <1>3 DEF Restart
<1> QED
  BY <1>1, <1>2, <1>3, Zenon DEF Next, vars, BeginPass, EditSpec, DeleteApp, CreateApp,
     liveTemplateVersion, WriteFleet, SkipFleet, Publish

\* The cache of pointers never outgrows its capacity (pointerVersion).
THEOREM CacheBoundedHolds == Spec => []CacheBounded
<1>1. Init => CacheBounded
  <2> SUFFICES ASSUME Init PROVE CacheBounded
    OBVIOUS
  <2>1. entries = {}
    BY DEF Init, entries
  <2> QED
    BY <2>1, FS_EmptySet, CapAssumption DEF CacheBounded
<1>2. TrackInv /\ CacheBounded /\ [Next]_vars => CacheBounded'
  <2> SUFFICES ASSUME TrackInv, CacheBounded, [Next]_vars PROVE CacheBounded'
    OBVIOUS
  <2>1. CASE PointerRead
    BY <2>1, StoreBounded, Zenon DEF PointerRead, TrackInv
  <2>2. CASE PointerUnreadable
    BY <2>2, StoreBounded, Zenon DEF PointerUnreadable, TrackInv
  <2>3. CASE ~PointerRead /\ ~PointerUnreadable
    <3>1. Filled(cache') \subseteq Filled(cache)
      BY <2>3, OthersDrop DEF Filled, TrackInv
    <3>2. Cardinality(Filled(cache')) <= Cardinality(Filled(cache))
      BY <3>1, FilledFinite, FS_Subset
    <3>3. Cardinality(Filled(cache')) <= CacheCap
      BY <3>2, FilledFinite, CapAssumption DEF CacheBounded, entries, Filled
    <3> QED
      BY <3>3 DEF CacheBounded, entries, Filled
  <2> QED
    BY <2>1, <2>2, <2>3
<1> QED
  BY <1>1, <1>2, TrackInit, TrackStep, PTL DEF Spec
=============================================================================
