------------------------- MODULE ChildObjectsProofs -------------------------
(***************************************************************************)
(* Proofs about ChildObjects, for any specs, foundation, annotation keys,    *)
(* ingress modes and CRDs, any kinds that others interfere with or whose     *)
(* informer lags, and any bounds.                                           *)
(***************************************************************************)
EXTENDS ChildObjects, TLAPS

Fields == {"owner", "content", "ann", "managed", "retry", "requested", "recheck", "accepted"}
IsObject(o) == o = [f \in Fields |-> o[f]] /\ o.ann = [a \in Keys |-> o.ann[a]]

PassFields == {"uid", "spec", "status", "appCurrent", "next", "todo", "seen", "seenCurrent",
               "dropped", "ingress", "scaling"}

\* The functions and records are what they look like.
StoreOK ==
    /\ live = [k \in Kinds |-> live[k]] /\ cache = [k \in Kinds |-> cache[k]]
    /\ current = [k \in Kinds |-> current[k]]
    /\ \A k \in Kinds : live[k] # NoObject => IsObject(live[k])

PassOK ==
    /\ pass = [f \in PassFields |-> pass[f]]
    /\ pass.todo \subseteq Routes
    /\ pass.seenCurrent => pc = "obsolete"

Fresh == \A k \in Kinds : current[k] => cache[k] = live[k]
Seen == pass.seenCurrent => pass.seen \in Routes /\ Owned(pass.seen, pass.uid)

CopyInv == StoreOK /\ PassOK /\ Fresh /\ Seen

-----------------------------------------------------------------------------
(* What a pass does to an object                                           *)

\* o is what became of object k of this WorkerApp after an update.
Updated(k, o) ==
    /\ live[k] # NoObject /\ live[k].owner = pass.uid
    /\ IsObject(o) /\ o.owner = pass.uid
    /\ \A a \in Keys \ Claimed(k, live[k]) : o.ann[a] = live[k].ann[a]

Effect(k) ==
    \/ live'[k] = live[k]
    \/ live[k] = NoObject /\ IsObject(live'[k]) /\ live'[k].owner = pass.uid
    \/ Updated(k, live'[k])
    \/ live[k] # NoObject /\ live[k].owner = pass.uid /\ live'[k] = NoObject

LEMMA RoutesAreKinds == Routes \subseteq Kinds
BY DEF Kinds

LEMMA DesiredOwner ==
    ASSUME NEW k
    PROVE  IsObject(desired(k)) /\ desired(k).owner = pass.uid
<1> DEFINE o == Object(pass.uid, content(k))
<1>1. IsObject(o) /\ o.owner = pass.uid
  BY Zenon DEF Fields, IsObject, Object, NoKeys
<1>2. IsObject(annotate(k, o)) /\ annotate(k, o).owner = pass.uid
  BY Zenon DEF Fields, IsObject, Object, NoKeys, annotate, reconcileAnnotations
<1> HIDE DEF o
<1>3. IsObject(configureHTTPRouteRetries(annotate(k, o)))
      /\ configureHTTPRouteRetries(annotate(k, o)).owner = pass.uid
  <2> DEFINE r == annotate(k, o)
  <2>1. IsObject(r) /\ r.owner = pass.uid
    BY <1>2
  <2> HIDE DEF r
  <2>2. IsObject(configureHTTPRouteRetries(r)) /\ configureHTTPRouteRetries(r).owner = pass.uid
    BY <2>1, Zenon DEF Fields, IsObject, configureHTTPRouteRetries
  <2> QED
    BY <2>2 DEF r
<1> QED
  BY <1>2, <1>3 DEF desired, o

LEMMA StoredObject ==
    ASSUME NEW k, NEW o, IsObject(o)
    PROVE  IsObject(Stored(k, o)) /\ Stored(k, o).owner = o.owner /\ Stored(k, o).ann = o.ann
BY Zenon DEF Fields, IsObject, Stored

\* A mutation leaves alone who controls the object, and the annotations of others.
LEMMA MutateKeeps ==
    ASSUME NEW k, NEW o, IsObject(o)
    PROVE  /\ IsObject(mutate(k, o)) /\ mutate(k, o).owner = o.owner
           /\ \A a \in Keys \ Claimed(k, o) : mutate(k, o).ann[a] = o.ann[a]
<1> DEFINE m == [o EXCEPT !.content = desired(k).content, !.retry = desired(k).retry]
<1>1. IsObject(m) /\ m.owner = o.owner /\ m.ann = o.ann /\ m.managed = o.managed
  BY Zenon DEF Fields, IsObject
<1> HIDE DEF m
<1>2. /\ IsObject(annotate(k, m)) /\ annotate(k, m).owner = m.owner
      /\ \A a \in Keys \ Claimed(k, m) : annotate(k, m).ann[a] = m.ann[a]
  <2>1. CASE k \notin Annotated
    BY <1>1, <2>1 DEF annotate
  <2>2. CASE k \in Annotated
    BY <1>1, <2>2, Zenon DEF annotate, reconcileAnnotations, Fields, IsObject, Claimed
  <2> QED
    BY <2>1, <2>2
<1>3. mutate(k, o) = annotate(k, m)
  BY DEF mutate, m
<1> QED
  BY <1>1, <1>2, <1>3 DEF Claimed

LEMMA WriteKeeps ==
    ASSUME StoreOK, Fresh, NEW k, NEW o, o # NoObject => IsObject(o), Write(k, o)
    PROVE  StoreOK' /\ Fresh' /\ live' = [live EXCEPT ![k] = o]
BY Zenon DEF Write, StoreOK, Fresh

\* ensureObject creates, or updates what this WorkerApp controls, and nothing else.
LEMMA EnsureEffect ==
    ASSUME CopyInv, NEW k, NEW err, ensureObject(k, err)
    PROVE  StoreOK' /\ Fresh' /\ \A j \in Kinds : Effect(j) /\ (j # k => live'[j] = live[j])
<1> USE DEF CopyInv
<1>1. CASE UNCHANGED objVars
  BY <1>1 DEF objVars, StoreOK, Fresh, Effect
<1>2. CASE live[k] = NoObject /\ Write(k, Stored(k, desired(k)))
  <2>1. IsObject(Stored(k, desired(k))) /\ Stored(k, desired(k)).owner = pass.uid
    BY DesiredOwner, StoredObject
  <2>2. StoreOK' /\ Fresh' /\ live' = [live EXCEPT ![k] = Stored(k, desired(k))]
    BY <1>2, <2>1, WriteKeeps
  <2> QED
    BY <1>2, <2>1, <2>2 DEF Effect, StoreOK
<1>3. CASE /\ k \in Kinds /\ cache[k] # NoObject /\ requireOwnership(cache[k]) /\ current[k]
           /\ Write(k, Stored(k, mutate(k, cache[k])))
  <2> DEFINE c == live[k]
             o == Stored(k, mutate(k, c))
  <2>1. cache[k] = c /\ c # NoObject /\ c.owner = pass.uid /\ IsObject(c)
    BY <1>3 DEF Fresh, StoreOK, requireOwnership
  <2>2. /\ IsObject(mutate(k, c)) /\ mutate(k, c).owner = c.owner
        /\ \A a \in Keys \ Claimed(k, c) : mutate(k, c).ann[a] = c.ann[a]
    BY <2>1, MutateKeeps
  <2>3. IsObject(o) /\ o.owner = mutate(k, c).owner /\ o.ann = mutate(k, c).ann
    BY <2>2, StoredObject
  <2>4. StoreOK' /\ Fresh' /\ live' = [live EXCEPT ![k] = o]
    BY <1>3, <2>1, <2>3, WriteKeeps
  <2>5. Updated(k, o)
    BY <2>1, <2>2, <2>3 DEF Updated
  <2>6. live'[k] = o /\ \A j \in Kinds : j # k => live'[j] = live[j]
    BY <1>3, <2>4 DEF StoreOK
  <2> HIDE DEF o, c
  <2> QED
    BY <2>4, <2>5, <2>6 DEF Effect
<1>4. CASE k \notin Kinds
  <2>1. UNCHANGED objVars
    BY <1>4 DEF ensureObject, update, objVars, Write, StoreOK
  <2> QED
    BY <2>1, <1>1
<1> QED
  BY <1>1, <1>2, <1>3, <1>4 DEF ensureObject, update

\* A deletion of what this WorkerApp controls.
LEMMA DeleteEffect ==
    ASSUME StoreOK, Fresh, NEW k \in Kinds, Owned(k, pass.uid), Write(k, NoObject)
    PROVE  StoreOK' /\ Fresh' /\ \A j \in Kinds : Effect(j) /\ (j # k => live'[j] = live[j])
<1>1. StoreOK' /\ Fresh' /\ live' = [live EXCEPT ![k] = NoObject]
  BY WriteKeeps
<1> QED
  BY <1>1 DEF Effect, StoreOK, Owned

LEMMA UnchangedEffect ==
    ASSUME StoreOK, Fresh, UNCHANGED objVars
    PROVE  StoreOK' /\ Fresh' /\ \A j \in Kinds : Effect(j)
BY DEF objVars, StoreOK, Fresh, Effect

LEMMA FleetEffect ==
    ASSUME CopyInv, reconcileFleet
    PROVE  StoreOK' /\ Fresh' /\ \A j \in Kinds : Effect(j) /\ (j # "fleet" => live'[j] = live[j])
<1> USE DEF CopyInv
<1>1. CASE UNCHANGED objVars
  BY <1>1, UnchangedEffect DEF objVars
<1>2. CASE live["fleet"] = NoObject /\ Write("fleet", Stored("fleet", desired("fleet")))
  <2> DEFINE o == Stored("fleet", desired("fleet"))
  <2>1. IsObject(o) /\ o.owner = pass.uid
    BY DesiredOwner, StoredObject
  <2> HIDE DEF o
  <2>2. StoreOK' /\ Fresh' /\ live' = [live EXCEPT !["fleet"] = o]
    BY <1>2, <2>1, WriteKeeps DEF o
  <2> QED
    BY <1>2, <2>1, <2>2 DEF Effect, StoreOK
<1> QED
  BY <1>1, <1>2 DEF reconcileFleet

LEMMA ObsoleteEffect ==
    ASSUME CopyInv, deleteObsoleteRoute
    PROVE  StoreOK' /\ Fresh' /\ \A j \in Kinds : Effect(j) /\ (j # pass.seen => live'[j] = live[j])
<1> USE DEF CopyInv
<1>1. CASE UNCHANGED objVars
  BY <1>1, UnchangedEffect DEF objVars
<1>2. CASE deletable /\ Write(pass.seen, NoObject)
  BY <1>2, DeleteEffect, RoutesAreKinds DEF deletable, Seen
<1> QED
  BY <1>1, <1>2 DEF deleteObsoleteRoute

LEMMA ScalerEffect ==
    ASSUME CopyInv, ensureScaledObject
    PROVE  StoreOK' /\ Fresh' /\ \A j \in Kinds : Effect(j) /\ (j # "scaler" => live'[j] = live[j])
<1> USE DEF CopyInv
<1>1. CASE UNCHANGED objVars
  BY <1>1, UnchangedEffect DEF objVars
<1>2. CASE \E err \in {"ok", "error", "nomatch"} : ensureObject("scaler", err)
  BY <1>2, EnsureEffect
<1>3. CASE /\ cache["scaler"] # NoObject /\ requireOwnership(cache["scaler"]) /\ current["scaler"]
           /\ Write("scaler", NoObject)
  <2>1. "scaler" \in Kinds
    BY DEF Kinds
  <2>2. Owned("scaler", pass.uid)
    BY <1>3, <2>1 DEF Fresh, requireOwnership, Owned
  <2> QED
    BY <1>3, <2>1, <2>2, DeleteEffect
<1> QED
  BY <1>1, <1>2, <1>3 DEF ensureScaledObject

\* Every step of a pass, on every object.
LEMMA PassEffect ==
    ASSUME CopyInv, Pass
    PROVE  StoreOK' /\ Fresh' /\ \A j \in Kinds : Effect(j)
<1>1. CASE BeginPass \/ readObsoleteRoute \/ obsoleteRouteError \/ checkHTTPRoute \/ updateStatus
  BY <1>1, UnchangedEffect, Zenon DEF BeginPass, readObsoleteRoute, obsoleteRouteError, checkHTTPRoute,
                               updateStatus, CopyInv
<1>2. CASE ensureFoundation
  BY <1>2, EnsureEffect DEF ensureFoundation
<1>3. CASE ensureRoute
  BY <1>3, EnsureEffect, UnchangedEffect DEF ensureRoute, CopyInv
<1>4. CASE ensureAuthorizationPolicy
  BY <1>4, EnsureEffect DEF ensureAuthorizationPolicy
<1> QED
  BY <1>1, <1>2, <1>3, <1>4, FleetEffect, ObsoleteEffect, ScalerEffect DEF Pass

-----------------------------------------------------------------------------
(* Copies that pass for current                                            *)

LEMMA CopyInit == Init => CopyInv
<1> SUFFICES ASSUME Init PROVE CopyInv
  OBVIOUS
<1>1. PassOK /\ ~pass.seenCurrent
  BY Zenon DEF Init, Idle, PassOK, PassFields
<1>2. StoreOK /\ Fresh
  BY DEF Init, StoreOK, Fresh
<1> QED
  BY <1>1, <1>2 DEF CopyInv, Seen

LEMMA IdleOK ==
    ASSUME pass' = Idle
    PROVE  PassOK' /\ Seen'
BY Zenon DEF Idle, PassOK, PassFields, Seen

LEMMA PassKeepsCopies ==
    ASSUME CopyInv, Pass
    PROVE  PassOK' /\ Seen'
<1> USE DEF CopyInv
<1>1. CASE BeginPass
  BY <1>1, Zenon DEF BeginPass, Idle, PassOK, PassFields, Seen
<1>2. CASE ensureFoundation
  BY <1>2, IdleOK DEF ensureFoundation, EndPass, PassOK, PassFields, Seen
<1>3. CASE reconcileFleet
  BY <1>3, IdleOK DEF reconcileFleet, EndPass, PassOK, PassFields, Seen
<1>4. CASE readObsoleteRoute
  <2>1. PICK k \in pass.todo :
           \/ /\ pass' = [pass EXCEPT !.todo = @ \ {k}]
              /\ pc' = IF pass.todo = {k} THEN "route" ELSE pc
           \/ /\ observed(k) # NoObject /\ requireOwnership(observed(k))
              /\ pass' = [pass EXCEPT !.seen = k, !.seenCurrent = TRUE] /\ UNCHANGED pc
    BY <1>4, Zenon DEF readObsoleteRoute
  <2>2. ~pass.seenCurrent /\ k \in Routes /\ pc = "obsolete" /\ UNCHANGED live
    BY <1>4, NoneAssumption DEF readObsoleteRoute, Seen, PassOK, objVars
  <2>3. CASE pass' = [pass EXCEPT !.todo = @ \ {k}]
    BY <2>2, <2>3 DEF PassOK, PassFields, Seen
  <2>4. CASE /\ observed(k) # NoObject /\ requireOwnership(observed(k))
             /\ pass' = [pass EXCEPT !.seen = k, !.seenCurrent = TRUE] /\ UNCHANGED pc
    <3>1. PassOK' /\ pass'.seen = k /\ pass'.uid = pass.uid
      BY <2>2, <2>4, Zenon DEF PassOK, PassFields
    <3> QED
      BY <2>2, <2>4, <3>1 DEF Seen, Owned, observed, requireOwnership
  <2> QED
    BY <2>1, <2>3, <2>4
<1>5. CASE deleteObsoleteRoute
  <2>1. CASE RouteDone("False")
    BY <2>1, Zenon DEF RouteDone, PassOK, PassFields, Seen
  <2>2. CASE pass' = [pass EXCEPT !.todo = @ \ {pass.seen}, !.seen = None, !.seenCurrent = FALSE]
    BY <2>2, Zenon DEF PassOK, PassFields, Seen
  <2> QED
    BY <1>5, <2>1, <2>2 DEF deleteObsoleteRoute
<1>6. CASE obsoleteRouteError
  BY <1>6, Zenon DEF obsoleteRouteError, RouteDone, PassOK, PassFields, Seen
<1>7. CASE ensureRoute
  BY <1>7, Zenon DEF ensureRoute, RouteDone, PassOK, PassFields, Seen
<1>8. CASE checkHTTPRoute
  BY <1>8, Zenon DEF checkHTTPRoute, RouteDone, PassOK, PassFields, Seen
<1>9. CASE ensureAuthorizationPolicy \/ ensureScaledObject
  BY <1>9 DEF ensureAuthorizationPolicy, ensureScaledObject, PassOK, PassFields, Seen
<1>10. CASE updateStatus
  BY <1>10, IdleOK DEF updateStatus, EndPass
<1> QED
  BY <1>1, <1>2, <1>3, <1>4, <1>5, <1>6, <1>7, <1>8, <1>9, <1>10 DEF Pass

\* Somebody else's write makes the copies of that object old, the pass's included.
LEMMA ForeignWriteKeeps ==
    ASSUME CopyInv, NEW k, NEW o, o # NoObject => IsObject(o), ForeignWrite(k, o), UNCHANGED pc
    PROVE  CopyInv'
<1> USE DEF CopyInv
<1>1. StoreOK' /\ Fresh' /\ live' = [live EXCEPT ![k] = o]
  BY WriteKeeps DEF ForeignWrite
<1>2. PassOK' /\ pass'.uid = pass.uid /\ pass'.seen = pass.seen
  BY Zenon DEF ForeignWrite, PassOK, PassFields
<1>3. pass'.seenCurrent => pass.seenCurrent /\ ~(pass.seen = k /\ o # live[k])
  BY DEF ForeignWrite, PassOK, PassFields
<1>4. Seen'
  BY <1>1, <1>2, <1>3, RoutesAreKinds DEF Seen, Owned, StoreOK
<1> QED
  BY <1>1, <1>2, <1>4

LEMMA TamperKeeps ==
    ASSUME CopyInv, NEW k \in Kinds, Tamper(k)
    PROVE  CopyInv'
<1>1. UNCHANGED pc
  BY DEF Tamper
<1>2. CASE ForeignWrite(k, Object(Foreign, 0))
  BY <1>1, <1>2, ForeignWriteKeeps DEF Object, NoKeys, Fields, IsObject
<1>3. CASE /\ live[k] # NoObject
           /\ ForeignWrite(k, [live[k] EXCEPT !.content = -1, !.accepted = FALSE])
  <2>1. IsObject([live[k] EXCEPT !.content = -1, !.accepted = FALSE])
    BY <1>3, Zenon DEF CopyInv, StoreOK, Fields, IsObject
  <2> QED
    BY <1>1, <1>3, <2>1, ForeignWriteKeeps
<1>4. ASSUME live[k] # NoObject, NEW a \in Keys,
             ForeignWrite(k, [live[k] EXCEPT !.ann[a] = "theirs"])
      PROVE  CopyInv'
  <2>1. IsObject([live[k] EXCEPT !.ann[a] = "theirs"])
    BY <1>4, Zenon DEF CopyInv, StoreOK, Fields, IsObject
  <2> QED
    BY <1>1, <1>4, <2>1, ForeignWriteKeeps
<1> QED
  BY <1>2, <1>3, <1>4, Zenon DEF Tamper

LEMMA WriteAppKeeps ==
    ASSUME CopyInv, NEW a, WriteApp(a), UNCHANGED objVars, UNCHANGED pc
    PROVE  CopyInv'
<1>1. PassOK' /\ pass'.uid = pass.uid /\ pass'.seen = pass.seen
      /\ pass'.seenCurrent = pass.seenCurrent
  BY Zenon DEF WriteApp, CopyInv, PassOK, PassFields
<1> QED
  BY <1>1 DEF CopyInv, StoreOK, Fresh, Seen, Owned, objVars

LEMMA CopyStep ==
    ASSUME CopyInv, [Next]_vars
    PROVE  CopyInv'
<1>1. CASE Pass
  BY <1>1, PassEffect, PassKeepsCopies DEF CopyInv
<1>2. ASSUME NEW k \in Lagging, Sync(k) PROVE CopyInv'
  BY <1>2, Zenon DEF Sync, CopyInv, StoreOK, Fresh, PassOK, Seen, Owned
<1>3. ASSUME NEW s \in Specs, EditSpec(s) \/ CreateApp(s) PROVE CopyInv'
  BY <1>3, WriteAppKeeps DEF EditSpec, CreateApp
<1>4. CASE DeleteApp
  BY <1>4, WriteAppKeeps DEF DeleteApp
<1>5. ASSUME NEW m \in Modes, Restart(m) PROVE CopyInv'
  BY <1>5, IdleOK DEF Restart, EndPass, CopyInv, StoreOK, Fresh, objVars
<1>6. CASE UpgradeCRDs \/ UNCHANGED vars
  BY <1>6 DEF UpgradeCRDs, vars, objVars, CopyInv, StoreOK, Fresh, PassOK, Seen, Owned
<1>7. CASE GatewayAccepts
  <2> DEFINE o == [live["httproute"] EXCEPT !.accepted = TRUE]
  <2>1. IsObject(o)
    BY <1>7, RoutesAreKinds, Zenon DEF GatewayAccepts, CopyInv, StoreOK, Routes, Fields, IsObject
  <2> HIDE DEF o
  <2>2. ForeignWrite("httproute", o) /\ UNCHANGED pc
    BY <1>7 DEF GatewayAccepts, o
  <2> QED
    BY <2>1, <2>2, ForeignWriteKeeps
<1>8. ASSUME NEW k \in Tampered, Tamper(k) PROVE CopyInv'
  BY <1>8, TamperKeeps, KindAssumption
<1>9. ASSUME NEW k, Leave(k) \/ CollectGarbage(k) PROVE CopyInv'
  BY <1>9, ForeignWriteKeeps DEF Leave, CollectGarbage
<1> QED
  BY <1>1, <1>2, <1>3, <1>4, <1>5, <1>6, <1>7, <1>8, <1>9 DEF Next

\* The resourceVersions and preconditions the operator writes and deletes with
\* tell the truth, whichever informers lag (CopiesInv).
THEOREM CopiesInvHolds == Spec => []CopiesInv
<1>1. CopyInv => CopiesInv
  BY DEF CopyInv, Fresh, Seen, CopiesInv
<1> QED
  BY <1>1, CopyInit, CopyStep, PTL DEF Spec

\* A pass never changes or deletes what its WorkerApp does not control, and keeps
\* the annotations of others, for any objects, keys and interferences
\* (ForeignUntouched).
THEOREM ForeignUntouchedHolds == Spec => ForeignUntouched
<1>1. ASSUME CopyInv, Pass, NEW k \in Kinds, live[k] # NoObject, live'[k] # live[k]
      PROVE  /\ live[k].owner = pass.uid
             /\ live'[k] # NoObject =>
                   \A a \in Keys \ Claimed(k, live[k]) : live'[k].ann[a] = live[k].ann[a]
  BY <1>1, PassEffect DEF Effect, Updated
<1>2. CopyInv /\ [Next]_vars =>
         [Pass => \A k \in Kinds : live[k] # NoObject /\ live'[k] # live[k] =>
             /\ live[k].owner = pass.uid
             /\ live'[k] # NoObject =>
                   \A a \in Keys \ Claimed(k, live[k]) : live'[k].ann[a] = live[k].ann[a]]_vars
  BY <1>1
<1> QED
  BY <1>2, CopyInit, CopyStep, PTL DEF Spec, ForeignUntouched

-----------------------------------------------------------------------------
(* One route                                                               *)

\* The route of the mode stays, with hostnames.
Kept == IF pass.spec.hosts THEN {mode} ELSE {}

AppOK ==
    /\ uid \in Nat \ {0}
    /\ app # None => app = [f \in {"uid", "spec", "status"} |-> app[f]] /\ app.uid = uid
    /\ pass.appCurrent => app # None
    /\ pc # "idle" => pass.uid \in 1..uid
    /\ pc = "foundation" => pass.next \in DOMAIN Foundation

\* No two routes of one WorkerApp, past or present, and once removeObsoleteRoutes
\* is through with a route it is not the WorkerApp's, nor becomes so again.
RouteInv ==
    /\ \A j, k \in Routes :
          live[j] # NoObject /\ live[k] # NoObject /\ live[j].owner = live[k].owner /\ live[j].owner # Foreign => j = k
    /\ pc = "obsolete" => \A k \in Routes \ (Kept \cup pass.todo) : ~Owned(k, pass.uid)
    /\ pc = "route" => \A k \in Routes \ Kept : ~Owned(k, pass.uid)

\* No action of a pass but BeginPass and its end changes whose pass it is.
LEMMA PassFixed ==
    ASSUME CopyInv, Pass, ~BeginPass
    PROVE  \/ pc' = "idle" /\ pass' = Idle
           \/ /\ pc # "idle" /\ pc' # "idle"
              /\ UNCHANGED <<pass.uid, pass.spec, pass.appCurrent, mode>>
<1> USE DEF CopyInv, PassOK, PassFields
<1>1. CASE ensureFoundation
  BY <1>1 DEF ensureFoundation, EndPass, opUnchanged
<1>2. CASE reconcileFleet
  BY <1>2 DEF reconcileFleet, EndPass, opUnchanged
<1>3. CASE readObsoleteRoute
  BY <1>3, Zenon DEF readObsoleteRoute, opUnchanged
<1>4. CASE deleteObsoleteRoute
  BY <1>4, Zenon DEF deleteObsoleteRoute, RouteDone, opUnchanged
<1>5. CASE obsoleteRouteError
  BY <1>5 DEF obsoleteRouteError, RouteDone, opUnchanged
<1>6. CASE ensureRoute
  BY <1>6, Zenon DEF ensureRoute, RouteDone, opUnchanged
<1>7. CASE checkHTTPRoute
  BY <1>7, Zenon DEF checkHTTPRoute, RouteDone, opUnchanged
<1>8. CASE ensureAuthorizationPolicy \/ ensureScaledObject
  BY <1>8 DEF ensureAuthorizationPolicy, ensureScaledObject, opUnchanged
<1>9. CASE updateStatus
  BY <1>9 DEF updateStatus, EndPass
<1> QED
  BY <1>1, <1>2, <1>3, <1>4, <1>5, <1>6, <1>7, <1>8, <1>9 DEF Pass

LEMMA AppInit == Init => AppOK
BY DEF Init, AppOK, Idle

LEMMA AppStep ==
    ASSUME CopyInv, AppOK, [Next]_vars
    PROVE  AppOK'
<1> USE DEF AppOK
<1>1. CASE BeginPass
  BY <1>1, KindAssumption DEF BeginPass, Idle, appVars
<1>2. CASE Pass /\ ~BeginPass
  <2>1. /\ pc' # "idle" => pass'.uid \in 1..uid
        /\ pass'.appCurrent => pass.appCurrent
    BY <1>2, PassFixed DEF Idle
  <2>2. pc' = "foundation" => pass'.next \in DOMAIN Foundation
    <3>1. CASE ensureFoundation
      BY <3>1, KindAssumption DEF ensureFoundation, EndPass, CopyInv, PassOK, PassFields
    <3> QED
      BY <1>2, <3>1, Zenon DEF Pass, reconcileFleet, readObsoleteRoute, deleteObsoleteRoute, RouteDone,
         obsoleteRouteError, ensureRoute, checkHTTPRoute, ensureAuthorizationPolicy,
         ensureScaledObject, updateStatus, EndPass
  <2>3. CASE UNCHANGED appVars
    BY <2>1, <2>2, <2>3 DEF appVars
  <2>4. CASE updateStatus /\ app' = [app EXCEPT !.status = conditions] /\ pass.appCurrent /\ uid' = uid
    BY <2>1, <2>2, <2>4 DEF updateStatus, EndPass, Idle
  <2> QED
    BY <1>2, <2>3, <2>4, Zenon DEF Pass, ensureFoundation, reconcileFleet, readObsoleteRoute,
       deleteObsoleteRoute, obsoleteRouteError, ensureRoute, checkHTTPRoute,
       ensureAuthorizationPolicy, ensureScaledObject, updateStatus
<1>3. ASSUME NEW k, NEW o, ForeignWrite(k, o), UNCHANGED <<appVars, mode, prunes, pc>> PROVE AppOK'
  BY <1>3 DEF ForeignWrite, appVars, CopyInv, PassOK, PassFields
<1>4. CASE GatewayAccepts \/ \E k \in Kinds : CollectGarbage(k)
  BY <1>3, <1>4 DEF GatewayAccepts, CollectGarbage
<1>5. CASE \E k \in Tampered : Tamper(k) \/ Leave(k)
  BY <1>3, <1>5, Zenon DEF Tamper, Leave
<1>6. ASSUME NEW a, WriteApp(a), UNCHANGED pc, uid' \in {uid, uid + 1},
             a # None => a = [f \in {"uid", "spec", "status"} |-> a[f]] /\ a.uid = uid'
      PROVE  AppOK'
  <2>1. ~pass'.appCurrent /\ pass'.uid = pass.uid /\ pass'.next = pass.next
    BY <1>6 DEF WriteApp, Idle, CopyInv, PassOK, PassFields
  <2> QED
    BY <1>6, <2>1 DEF WriteApp
<1>7. ASSUME NEW s \in Specs, EditSpec(s) PROVE AppOK'
  <2>1. [app EXCEPT !.spec = s] = [f \in {"uid", "spec", "status"} |-> [app EXCEPT !.spec = s][f]]
        /\ [app EXCEPT !.spec = s].uid = uid
    BY <1>7 DEF EditSpec
  <2> QED
    BY <1>6, <1>7, <2>1 DEF EditSpec
<1>8. ASSUME NEW s \in Specs, CreateApp(s) PROVE AppOK'
  <2> DEFINE a == [uid |-> uid + 1, spec |-> s, status |-> NoConditions]
  <2>1. a = [f \in {"uid", "spec", "status"} |-> a[f]] /\ a.uid = uid + 1
    OBVIOUS
  <2>2. WriteApp(a) /\ UNCHANGED pc /\ uid' = uid + 1
    BY <1>8 DEF CreateApp
  <2> HIDE DEF a
  <2> QED
    BY <1>6, <2>1, <2>2
<1>9. CASE DeleteApp
  BY <1>6, <1>9 DEF DeleteApp
<1>10. CASE UpgradeCRDs \/ (\E k \in Lagging : Sync(k)) \/ UNCHANGED vars
  BY <1>10 DEF UpgradeCRDs, Sync, vars, appVars
<1>11. CASE \E m \in Modes : Restart(m)
  BY <1>11 DEF Restart, EndPass, Idle, appVars
<1> QED
  BY <1>1, <1>2, <1>4, <1>5, <1>7, <1>8, <1>9, <1>10, <1>11 DEF Next

LEMMA RouteInit == Init => RouteInv
BY RoutesAreKinds DEF Init, RouteInv, Owned

\* Steps that leave the routes alone, and do not get to removeObsoleteRoutes.
LEMMA RoutesAlone ==
    ASSUME RouteInv, \A k \in Routes : live'[k] = live[k],
           pc' \in {"obsolete", "route"} =>
              pc' = pc /\ UNCHANGED <<pass.uid, pass.spec, pass.todo, mode>>
    PROVE  RouteInv'
BY DEF RouteInv, Owned, Kept

LEMMA ForeignKeepsRoutes ==
    ASSUME CopyInv, RouteInv, pc # "idle" => pass.uid # Foreign,
           NEW k, NEW o, ForeignWrite(k, o), UNCHANGED <<mode, pc>>,
           o # NoObject => o.owner = Foreign \/ (live[k] # NoObject /\ o.owner = live[k].owner)
    PROVE  RouteInv'
<1>1. UNCHANGED <<pass.uid, pass.spec, pass.todo>>
  BY DEF ForeignWrite, CopyInv, PassOK, PassFields
<1>2. live' = [live EXCEPT ![k] = o] /\ live = [j \in Kinds |-> live[j]]
  BY DEF ForeignWrite, Write, CopyInv, StoreOK
<1>3. \A j \in Routes : live'[j] = live[j] \/ (j = k /\ live'[j] = o)
  BY <1>2, RoutesAreKinds
<1>4. \A j \in Routes : live'[j] # NoObject /\ live'[j].owner # Foreign =>
         live[j] # NoObject /\ live[j].owner = live'[j].owner
  BY <1>3
<1>5. pc # "idle" => \A j \in Routes : Owned(j, pass.uid)' => Owned(j, pass.uid)
  BY <1>1, <1>4 DEF Owned
<1> QED
  BY <1>1, <1>4, <1>5 DEF RouteInv, Kept

\* The foundation and the fleet's other objects are no routes.
LEMMA PassKeepsRoutes ==
    ASSUME CopyInv, AppOK, RouteInv, Pass
    PROVE  RouteInv'
<1>1. CASE BeginPass
  BY <1>1, RoutesAlone DEF BeginPass, objVars
<1>2. CASE ensureFoundation
  <2>1. Foundation[pass.next] \notin Routes
    BY <1>2, KindAssumption DEF ensureFoundation, AppOK, Range
  <2>2. \A k \in Routes : live'[k] = live[k]
    BY <1>2, <2>1, EnsureEffect, RoutesAreKinds DEF ensureFoundation
  <2> QED
    BY <1>2, <2>2, RoutesAlone DEF ensureFoundation, EndPass
<1>3. CASE reconcileFleet
  <2>1. \A k \in Routes : live'[k] = live[k]
    BY <1>3, FleetEffect, RoutesAreKinds DEF Routes
  <2>2. CASE pc' = "idle"
    BY <2>1, <2>2, RoutesAlone
  <2>3. CASE pc' = "obsolete" /\ pass' = [pass EXCEPT !.todo = Routes \ Kept]
    <3>1. UNCHANGED <<pass.uid, pass.spec, mode>> /\ pass'.todo = Routes \ Kept
      BY <1>3, <2>3 DEF reconcileFleet, opUnchanged, CopyInv, PassOK, PassFields
    <3>2. Routes \ (Kept \cup pass.todo)' = {}
      BY <3>1 DEF Kept
    <3> QED
      BY <2>1, <2>3, <3>2 DEF RouteInv
  <2> QED
    BY <1>3, <2>2, <2>3 DEF reconcileFleet, EndPass, Kept
<1>4. CASE readObsoleteRoute
  <2>1. UNCHANGED <<live, pass.uid, pass.spec, mode>> /\ pc = "obsolete" /\ pass.todo \subseteq Routes
    BY <1>4, Zenon DEF readObsoleteRoute, objVars, opUnchanged, CopyInv, PassOK, PassFields
  <2>2. \/ pc' = pc /\ pass'.todo = pass.todo
        \/ \E k \in pass.todo : /\ ~Owned(k, pass.uid) /\ pass'.todo = pass.todo \ {k}
                                 /\ pc' = IF pass.todo = {k} THEN "route" ELSE pc
    BY <1>4, Zenon DEF readObsoleteRoute, observed, requireOwnership, Owned, CopyInv, PassOK, PassFields
  <2> QED
    BY <2>1, <2>2 DEF RouteInv, Owned, Kept
<1>5. CASE deleteObsoleteRoute
  <2>1. \A j \in Routes : live'[j] = live[j] \/ live'[j] = NoObject
    BY <1>5, RoutesAreKinds DEF deleteObsoleteRoute, Write, objVars, CopyInv, StoreOK
  <2>2. CASE pc' = "mesh"
    BY <2>1, <2>2 DEF RouteInv
  <2>3. CASE /\ pass' = [pass EXCEPT !.todo = @ \ {pass.seen}, !.seen = None, !.seenCurrent = FALSE]
             /\ pc' = IF pass.todo = {pass.seen} THEN "route" ELSE pc
             /\ live'[pass.seen] = NoObject
    <3>1. UNCHANGED <<pass.uid, pass.spec, mode>> /\ pass'.todo = pass.todo \ {pass.seen}
      BY <1>5, <2>3 DEF deleteObsoleteRoute, opUnchanged, CopyInv, PassOK, PassFields
    <3> QED
      BY <1>5, <2>1, <2>3, <3>1 DEF deleteObsoleteRoute, RouteInv, Owned, Kept
  <2>4. ASSUME deletable, Write(pass.seen, NoObject) PROVE live'[pass.seen] = NoObject
    BY <2>4, RoutesAreKinds DEF deletable, Write, CopyInv, Seen, StoreOK
  <2> QED
    BY <1>5, <2>2, <2>3, <2>4 DEF deleteObsoleteRoute, RouteDone, objVars
<1>6. CASE ensureRoute
  <2>1. pc' \in {"mesh", "check"} /\ pc = "route" /\ pass.uid # Foreign
    BY <1>6 DEF ensureRoute, RouteDone, AppOK, Foreign
  <2>2. CASE UNCHANGED live
    BY <2>1, <2>2, RoutesAlone
  <2>3. ASSUME pass.spec.hosts, NEW err, ensureObject(mode, err) PROVE RouteInv'
    <3>1. \A j \in Routes : Effect(j) /\ (j # mode => live'[j] = live[j])
      BY <2>3, EnsureEffect, RoutesAreKinds
    <3>2. \A j \in Routes : j # mode => ~Owned(j, pass.uid)
      BY <2>1, <2>3 DEF RouteInv, Kept
    <3>3. mode \in Routes => \/ live'[mode] = live[mode] \/ live'[mode] = NoObject
                             \/ live'[mode].owner = pass.uid
      BY <3>1 DEF Effect, Updated
    <3> QED
      BY <2>1, <3>1, <3>2, <3>3 DEF RouteInv, Owned
  <2> QED
    BY <1>6, <2>2, <2>3 DEF ensureRoute, objVars
<1>7. CASE obsoleteRouteError \/ checkHTTPRoute \/ updateStatus
  BY <1>7, RoutesAlone DEF obsoleteRouteError, checkHTTPRoute, RouteDone, updateStatus, EndPass, objVars
<1>8. CASE ensureAuthorizationPolicy
  <2>1. \A k \in Routes : live'[k] = live[k]
    BY <1>8, EnsureEffect, RoutesAreKinds DEF ensureAuthorizationPolicy, Routes
  <2> QED
    BY <1>8, <2>1, RoutesAlone DEF ensureAuthorizationPolicy
<1>9. CASE ensureScaledObject
  <2>1. \A k \in Routes : live'[k] = live[k]
    BY <1>9, ScalerEffect, RoutesAreKinds DEF Routes
  <2> QED
    BY <1>9, <2>1, RoutesAlone DEF ensureScaledObject
<1> QED
  BY <1>1, <1>2, <1>3, <1>4, <1>5, <1>6, <1>7, <1>8, <1>9 DEF Pass

LEMMA RouteStep ==
    ASSUME CopyInv, AppOK, RouteInv, [Next]_vars
    PROVE  RouteInv'
<1>0. pc # "idle" => pass.uid # Foreign
  BY DEF AppOK, Foreign
<1>1. CASE Pass
  BY <1>1, PassKeepsRoutes
<1>2. ASSUME NEW k \in Kinds, Tamper(k) \/ Leave(k) \/ CollectGarbage(k) PROVE RouteInv'
  <2>1. Object(Foreign, 0).owner = Foreign
    BY DEF Object
  <2>2. ASSUME live[k] # NoObject
        PROVE  /\ [live[k] EXCEPT !.content = -1, !.accepted = FALSE].owner = live[k].owner
               /\ \A a : [live[k] EXCEPT !.ann[a] = "theirs"].owner = live[k].owner
    BY <2>2 DEF CopyInv, StoreOK, IsObject, Fields
  <2>3. PICK o : /\ ForeignWrite(k, o) /\ UNCHANGED <<mode, pc>>
                 /\ o # NoObject => o.owner = Foreign \/ (live[k] # NoObject /\ o.owner = live[k].owner)
    BY <1>2, <2>1, <2>2, Zenon DEF Tamper, Leave, CollectGarbage
  <2> QED
    BY <1>0, <2>3, ForeignKeepsRoutes
<1>3. CASE GatewayAccepts
  <2>1. [live["httproute"] EXCEPT !.accepted = TRUE].owner = live["httproute"].owner
    BY <1>3, RoutesAreKinds DEF GatewayAccepts, CopyInv, StoreOK, IsObject, Fields, Routes
  <2> QED
    BY <1>0, <1>3, <2>1, ForeignKeepsRoutes, Zenon DEF GatewayAccepts
<1>4. ASSUME NEW a, WriteApp(a), UNCHANGED <<objVars, mode, pc>> PROVE RouteInv'
  <2>1. UNCHANGED <<pass.uid, pass.spec, pass.todo>>
    BY <1>4 DEF WriteApp, CopyInv, PassOK, PassFields
  <2> QED
    BY <1>4, <2>1, RoutesAlone DEF objVars
<1>5. CASE DeleteApp \/ \E s \in Specs : EditSpec(s) \/ CreateApp(s)
  BY <1>4, <1>5, Zenon DEF DeleteApp, EditSpec, CreateApp
<1>6. CASE UpgradeCRDs \/ (\E k \in Lagging : Sync(k)) \/ UNCHANGED vars
  BY <1>6, RoutesAlone DEF UpgradeCRDs, Sync, vars, objVars
<1>7. CASE \E m \in Modes : Restart(m)
  BY <1>7, RoutesAlone DEF Restart, EndPass, objVars
<1> QED
  BY <1>1, <1>2, <1>3, <1>5, <1>6, <1>7, KindAssumption DEF Next

\* A WorkerApp never has two routes, for any modes, restarts and interferences
\* (OneRoute).
THEOREM OneRouteHolds == Spec => []OneRoute
<1> DEFINE Inv == CopyInv /\ AppOK /\ RouteInv
<1>1. Init => Inv
  BY CopyInit, AppInit, RouteInit
<1>2. Inv /\ [Next]_vars => Inv'
  BY CopyStep, AppStep, RouteStep
<1>3. Inv => OneRoute
  BY DEF AppOK, RouteInv, OneRoute, Owned, Foreign
<1> QED
  BY <1>1, <1>2, <1>3, PTL DEF Spec

-----------------------------------------------------------------------------
(* The foundation before the fleet                                         *)

Guards == Range(Foundation) \ Tampered
Passed == {Foundation[i] : i \in 1..(pass.next - 1)}

\* Owners are WorkerApps that exist or existed; a copy of a guard that is the
\* WorkerApp's means that the object is; a pass has the guards it went through.
Owners ==
    /\ \A k \in Kinds : live[k] # NoObject => live[k].owner \in 0..uid
    /\ \A k \in Kinds : cache[k] # NoObject => cache[k].owner \in 0..uid

Guarded ==
    app # None =>
          /\ \A k \in Guards : cache[k] # NoObject /\ cache[k].owner = app.uid => Owned(k, app.uid)
          /\ pc = "foundation" /\ pass.uid = app.uid => \A k \in Guards \cap Passed : Owned(k, app.uid)
          /\ pc = "fleet" /\ pass.uid = app.uid => \A k \in Guards : Owned(k, app.uid)
          /\ Owned("fleet", app.uid) => \A k \in Guards : Owned(k, app.uid)

GuardInv == Owners /\ Guarded

GuardStep(k, id) == Owned(k, id) => live'[k] # NoObject /\ live'[k].owner = id

LEMMA GuardKinds ==
    /\ Guards \subseteq Kinds /\ Guards \cap Tampered = {}
    /\ \A k \in Guards : k \notin Routes /\ k \notin {"fleet", "mesh", "scaler"}
BY KindAssumption DEF Guards, Kinds

\* ensureObject deletes nothing, and after it the object is the WorkerApp's,
\* or a copy of it says so.
LEMMA EnsureOwns ==
    ASSUME CopyInv, NEW k \in Kinds, NEW err, ensureObject(k, err)
    PROVE  /\ \/ UNCHANGED live
              \/ live'[k].owner = pass.uid /\ (live[k] = NoObject \/ live[k].owner = pass.uid)
           /\ err = "ok" => \/ live'[k].owner = pass.uid
                            \/ cache[k] # NoObject /\ cache[k].owner = pass.uid /\ UNCHANGED live
<1> USE DEF CopyInv
<1>1. CASE err # "ok" /\ UNCHANGED objVars
  BY <1>1 DEF objVars
<1>2. CASE cache[k] # NoObject /\ requireOwnership(cache[k]) /\ UNCHANGED objVars
  BY <1>2 DEF objVars, requireOwnership
<1>3. CASE live[k] = NoObject /\ Write(k, Stored(k, desired(k)))
  <2>1. Stored(k, desired(k)).owner = pass.uid
    BY DesiredOwner, StoredObject
  <2>2. live'[k] = Stored(k, desired(k))
    BY <1>3 DEF Write, StoreOK
  <2> QED
    BY <1>3, <2>1, <2>2
<1>4. CASE /\ cache[k] # NoObject /\ requireOwnership(cache[k]) /\ current[k]
           /\ Write(k, Stored(k, mutate(k, cache[k])))
  <2>1. live[k].owner = pass.uid /\ IsObject(cache[k]) /\ cache[k].owner = pass.uid
    BY <1>4 DEF Fresh, StoreOK, requireOwnership
  <2>2. Stored(k, mutate(k, cache[k])).owner = pass.uid
    BY <2>1, MutateKeeps, StoredObject
  <2>3. live'[k] = Stored(k, mutate(k, cache[k]))
    BY <1>4 DEF Write, StoreOK
  <2> QED
    BY <2>1, <2>2, <2>3
<1> QED
  BY <1>1, <1>2, <1>3, <1>4 DEF ensureObject, update

\* A pass deletes no guard, gives none away, and owns what it creates.
LEMMA PassKeepsGuards ==
    ASSUME CopyInv, AppOK, Pass, NEW k \in Guards, NEW id
    PROVE  GuardStep(k, id)
<1>0. k \in Kinds /\ k \notin Routes /\ k \notin {"fleet", "mesh", "scaler"}
  BY GuardKinds
<1>1. ASSUME live'[k] = live[k] PROVE GuardStep(k, id)
  BY <1>1 DEF GuardStep, Owned
<1>2. CASE ensureFoundation
  <2>1. PICK err : ensureObject(Foundation[pass.next], err)
    BY <1>2 DEF ensureFoundation
  <2>2. Foundation[pass.next] \in Kinds /\ pass.uid # -1
    BY <1>2 DEF ensureFoundation, AppOK, Kinds, Range
  <2>3. CASE k = Foundation[pass.next]
    BY <1>1, <2>1, <2>2, <2>3, EnsureOwns DEF GuardStep, Owned, NoObject
  <2>4. CASE k # Foundation[pass.next]
    BY <1>0, <1>1, <2>1, <2>4, EnsureEffect
  <2> QED
    BY <2>3, <2>4
<1>3. CASE BeginPass \/ readObsoleteRoute \/ obsoleteRouteError \/ checkHTTPRoute \/ updateStatus
  BY <1>1, <1>3, Zenon DEF BeginPass, readObsoleteRoute, obsoleteRouteError, checkHTTPRoute, updateStatus, objVars
<1>4. CASE reconcileFleet
  BY <1>0, <1>1, <1>4, FleetEffect
<1>5. CASE deleteObsoleteRoute
  <2>1. live'[k] = live[k]
    BY <1>0, <1>5, ObsoleteEffect DEF deleteObsoleteRoute, deletable, CopyInv, Seen, objVars
  <2> QED
    BY <1>1, <2>1
<1>6. CASE ensureRoute
  <2>1. live'[k] = live[k]
    BY <1>0, <1>6, EnsureEffect DEF ensureRoute, objVars
  <2> QED
    BY <1>1, <2>1
<1>7. CASE ensureAuthorizationPolicy
  BY <1>0, <1>1, <1>7, EnsureEffect DEF ensureAuthorizationPolicy
<1>8. CASE ensureScaledObject
  BY <1>0, <1>1, <1>8, ScalerEffect
<1> QED
  BY <1>2, <1>3, <1>4, <1>5, <1>6, <1>7, <1>8 DEF Pass

\* A copy changes only to what the object is.
LEMMA CopiesFollow ==
    ASSUME CopyInv, [Next]_vars, NEW k \in Kinds
    PROVE  cache'[k] = cache[k] \/ cache'[k] = live'[k]
<1> USE DEF CopyInv
<1>1. ASSUME NEW j, NEW o, Write(j, o) PROVE cache'[k] = cache[k] \/ cache'[k] = live'[k]
  BY <1>1, Zenon DEF Write, StoreOK
<1>2. CASE UNCHANGED cache
  BY <1>2
<1>3. ASSUME NEW j, NEW err, ensureObject(j, err) PROVE cache'[k] = cache[k] \/ cache'[k] = live'[k]
  BY <1>1, <1>2, <1>3 DEF ensureObject, update, objVars
<1>4. CASE Pass
  <2>1. CASE ensureFoundation \/ ensureRoute \/ ensureAuthorizationPolicy
    BY <1>2, <1>3, <2>1 DEF ensureFoundation, ensureRoute, ensureAuthorizationPolicy, objVars
  <2>2. CASE reconcileFleet \/ deleteObsoleteRoute
    BY <1>1, <1>2, <2>2 DEF reconcileFleet, deleteObsoleteRoute, objVars
  <2>3. CASE ensureScaledObject
    BY <1>1, <1>2, <1>3, <2>3 DEF ensureScaledObject, objVars
  <2>4. CASE BeginPass \/ readObsoleteRoute \/ obsoleteRouteError \/ checkHTTPRoute \/ updateStatus
    BY <1>2, <2>4, Zenon DEF BeginPass, readObsoleteRoute, obsoleteRouteError, checkHTTPRoute, updateStatus,
                      objVars
  <2> QED
    BY <1>4, <2>1, <2>2, <2>3, <2>4 DEF Pass
<1>5. CASE \E j \in Lagging : Sync(j)
  BY <1>5, Zenon DEF Sync, StoreOK
<1>6. CASE GatewayAccepts \/ \E j : Tamper(j) \/ Leave(j) \/ CollectGarbage(j)
  BY <1>1, <1>6, Zenon DEF GatewayAccepts, Tamper, Leave, CollectGarbage, ForeignWrite
<1>7. CASE DeleteApp \/ UpgradeCRDs \/ (\E s \in Specs : EditSpec(s) \/ CreateApp(s))
           \/ (\E m \in Modes : Restart(m)) \/ UNCHANGED vars
  BY <1>2, <1>7, Zenon DEF DeleteApp, UpgradeCRDs, EditSpec, CreateApp, Restart, vars, objVars
<1> QED
  BY <1>4, <1>5, <1>6, <1>7 DEF Next

LEMMA GuardInit == Init => GuardInv
<1> SUFFICES ASSUME Init PROVE GuardInv
  OBVIOUS
<1>1. \A k \in Kinds : live[k] = NoObject /\ cache[k] = NoObject
  BY DEF Init
<1>2. pc = "idle" /\ "fleet" \in Kinds
  BY DEF Init, Kinds
<1> QED
  BY <1>1, <1>2, GuardKinds DEF GuardInv, Owners, Guarded, Owned

\* Interference with an object never makes it a WorkerApp's.
Disowned(j, o) ==
    o # NoObject => o.owner = Foreign \/ (live[j] # NoObject /\ o.owner = live[j].owner)
Interfered(j) == \E o : live' = [live EXCEPT ![j] = o] /\ Disowned(j, o)

LEMMA Interference ==
    ASSUME CopyInv, NEW j \in Kinds, Tamper(j) \/ Leave(j) \/ CollectGarbage(j)
    PROVE  /\ UNCHANGED <<app, uid, pc, pass.uid, pass.next>>
           /\ Interfered(j)
<1>1. Object(Foreign, 0).owner = Foreign
  BY DEF Object
<1>2. ASSUME live[j] # NoObject
      PROVE  /\ [live[j] EXCEPT !.content = -1, !.accepted = FALSE].owner = live[j].owner
             /\ \A a : [live[j] EXCEPT !.ann[a] = "theirs"].owner = live[j].owner
  BY <1>2 DEF CopyInv, StoreOK, IsObject, Fields
<1>3. PICK o : /\ ForeignWrite(j, o) /\ UNCHANGED <<appVars, pc>>
               /\ o # NoObject => o.owner = Foreign \/ (live[j] # NoObject /\ o.owner = live[j].owner)
  BY <1>1, <1>2, Zenon DEF Tamper, Leave, CollectGarbage
<1>4. UNCHANGED <<pass.uid, pass.next>>
  BY <1>3 DEF ForeignWrite, CopyInv, PassOK, PassFields
<1> QED
  BY <1>3, <1>4, Zenon DEF ForeignWrite, Write, appVars, Interfered, Disowned

LEMMA Acceptance ==
    ASSUME CopyInv, GatewayAccepts
    PROVE  /\ UNCHANGED <<app, uid, pc, pass.uid, pass.next>> /\ live["httproute"] # NoObject
           /\ \A k \in Kinds : k # "httproute" => live'[k] = live[k]
           /\ live'["httproute"].owner = live["httproute"].owner
<1>1. "httproute" \in Kinds
  BY DEF Kinds, Routes
<1>2. UNCHANGED <<pass.uid, pass.next>>
  BY DEF GatewayAccepts, ForeignWrite, CopyInv, PassOK, PassFields
<1>3. [live["httproute"] EXCEPT !.accepted = TRUE].owner = live["httproute"].owner
  BY <1>1 DEF GatewayAccepts, CopyInv, StoreOK, IsObject, Fields
<1> QED
  BY <1>1, <1>2, <1>3, Zenon DEF GatewayAccepts, ForeignWrite, Write, appVars, CopyInv, StoreOK

LEMMA OwnersStep ==
    ASSUME CopyInv, AppOK, Owners, [Next]_vars
    PROVE  Owners'
<1>1. uid' \in {uid, uid + 1} /\ uid \in Nat
  BY Zenon DEF Next, Pass, BeginPass, ensureFoundation, reconcileFleet, readObsoleteRoute,
     deleteObsoleteRoute, obsoleteRouteError, ensureRoute, checkHTTPRoute,
     ensureAuthorizationPolicy, ensureScaledObject, updateStatus, Sync, EditSpec, CreateApp,
     DeleteApp, Restart, UpgradeCRDs, GatewayAccepts, Tamper, Leave, CollectGarbage, vars, appVars, AppOK
<1> SUFFICES ASSUME NEW k \in Kinds PROVE live'[k] # NoObject => live'[k].owner \in 0..uid
  BY <1>1, CopiesFollow DEF Owners
<1>2. CASE UNCHANGED live
  BY <1>2 DEF Owners
<1>3. CASE BeginPass
  BY <1>2, <1>3 DEF BeginPass, objVars
<1>4. CASE Pass /\ ~BeginPass
  <2>1. pc # "idle"
    BY <1>4, Zenon DEF Pass, ensureFoundation, reconcileFleet, readObsoleteRoute, deleteObsoleteRoute,
       obsoleteRouteError, ensureRoute, checkHTTPRoute, ensureAuthorizationPolicy, ensureScaledObject,
       updateStatus
  <2>2. pass.uid \in 0..uid
    BY <1>1, <2>1 DEF AppOK
  <2> QED
    BY <1>4, <2>2, PassEffect DEF Owners, Effect, Updated
<1>5. CASE \E j \in Kinds : Tamper(j) \/ Leave(j) \/ CollectGarbage(j)
  <2>1. PICK j \in Kinds : Tamper(j) \/ Leave(j) \/ CollectGarbage(j)
    BY <1>5
  <2>2. Interfered(j)
    BY <2>1, Interference
  <2>3. PICK o : live' = [live EXCEPT ![j] = o] /\ Disowned(j, o)
    BY <2>2, Zenon DEF Interfered
  <2>4. live'[k] = live[k] \/ (k = j /\ live'[k] = o)
    BY <2>3 DEF CopyInv, StoreOK
  <2> QED
    BY <1>1, <2>3, <2>4 DEF Owners, Foreign, Disowned
<1>6. CASE GatewayAccepts
  BY <1>6, Acceptance DEF Owners, Kinds, Routes
<1>7. CASE (\E j \in Lagging : Sync(j)) \/ DeleteApp \/ UpgradeCRDs \/ UNCHANGED vars
           \/ (\E s \in Specs : EditSpec(s) \/ CreateApp(s)) \/ (\E m \in Modes : Restart(m))
  BY <1>2, <1>7, Zenon DEF Sync, DeleteApp, UpgradeCRDs, vars, EditSpec, CreateApp, Restart, objVars
<1> QED
  BY <1>3, <1>4, <1>5, <1>6, <1>7, KindAssumption DEF Next

\* While the WorkerApp exists nobody takes its guards away.
LEMMA AllKeepGuards ==
    ASSUME CopyInv, AppOK, [Next]_vars, app # None, NEW k \in Guards
    PROVE  GuardStep(k, app.uid)
<1>0. k \in Kinds /\ k \notin Routes /\ k \notin Tampered
  BY GuardKinds
<1>1. ASSUME live'[k] = live[k] PROVE GuardStep(k, app.uid)
  BY <1>1 DEF GuardStep, Owned
<1>2. CASE Pass
  BY <1>2, PassKeepsGuards
<1>3. CASE \E j \in Tampered : Tamper(j) \/ Leave(j)
  <2>1. PICK j \in Tampered : Tamper(j) \/ Leave(j)
    BY <1>3
  <2>2. Interfered(j)
    BY <2>1, Interference, KindAssumption
  <2>3. PICK o : live' = [live EXCEPT ![j] = o]
    BY <2>2, Zenon DEF Interfered
  <2> QED
    BY <1>0, <1>1, <2>3 DEF CopyInv, StoreOK
<1>4. ASSUME NEW j \in Kinds, CollectGarbage(j) PROVE GuardStep(k, app.uid)
  <2>1. live[j].owner # app.uid /\ live' = [live EXCEPT ![j] = NoObject]
    BY <1>4 DEF CollectGarbage, ForeignWrite, Write
  <2> QED
    BY <1>0, <1>1, <2>1 DEF CopyInv, StoreOK, GuardStep, Owned
<1>5. CASE GatewayAccepts
  BY <1>0, <1>1, <1>5, Acceptance DEF Routes
<1>6. CASE (\E j \in Lagging : Sync(j)) \/ DeleteApp \/ UpgradeCRDs \/ UNCHANGED vars
           \/ (\E s \in Specs : EditSpec(s) \/ CreateApp(s)) \/ (\E m \in Modes : Restart(m))
  BY <1>1, <1>6, Zenon DEF Sync, DeleteApp, UpgradeCRDs, vars, EditSpec, CreateApp, Restart, objVars
<1> QED
  BY <1>2, <1>3, <1>4, <1>5, <1>6 DEF Next

\* Only reconcileFleet makes a fleet the WorkerApp's.
LEMMA FleetFromPass ==
    ASSUME CopyInv, AppOK, [Next]_vars, app # None,
           live'["fleet"] # NoObject, live'["fleet"].owner = app.uid
    PROVE  Owned("fleet", app.uid) \/ (reconcileFleet /\ pass.uid = app.uid)
<1>0. "fleet" \in Kinds /\ "fleet" \notin Routes /\ app.uid # Foreign
  BY DEF Kinds, Routes, AppOK, Foreign
<1>1. CASE live'["fleet"] = live["fleet"]
  BY <1>1 DEF Owned
<1>2. CASE reconcileFleet
  <2>1. Effect("fleet")
    BY <1>0, <1>2, FleetEffect
  <2> QED
    BY <1>1, <1>2, <2>1 DEF Effect, Updated
<1>3. CASE ensureFoundation
  <2>1. Foundation[pass.next] # "fleet"
    BY <1>3, KindAssumption, Zenon DEF ensureFoundation, AppOK, Range
  <2> QED
    BY <1>0, <1>1, <1>3, <2>1, EnsureEffect DEF ensureFoundation
<1>4. CASE ensureAuthorizationPolicy
  BY <1>0, <1>1, <1>4, EnsureEffect DEF ensureAuthorizationPolicy
<1>5. CASE ensureRoute
  BY <1>0, <1>1, <1>5, EnsureEffect DEF ensureRoute, objVars
<1>6. CASE deleteObsoleteRoute
  BY <1>0, <1>1, <1>6, ObsoleteEffect DEF deleteObsoleteRoute, deletable, CopyInv, Seen, objVars
<1>7. CASE ensureScaledObject
  BY <1>0, <1>1, <1>7, ScalerEffect
<1>8. CASE BeginPass \/ readObsoleteRoute \/ obsoleteRouteError \/ checkHTTPRoute \/ updateStatus
  BY <1>1, <1>8, Zenon DEF BeginPass, readObsoleteRoute, obsoleteRouteError, checkHTTPRoute, updateStatus, objVars
<1>9. CASE \E j \in Kinds : Tamper(j) \/ Leave(j) \/ CollectGarbage(j)
  <2>1. PICK j \in Kinds : Tamper(j) \/ Leave(j) \/ CollectGarbage(j)
    BY <1>9
  <2>2. Interfered(j)
    BY <2>1, Interference
  <2>3. PICK o : live' = [live EXCEPT ![j] = o] /\ Disowned(j, o)
    BY <2>2, Zenon DEF Interfered
  <2>4. live'["fleet"] = live["fleet"] \/ ("fleet" = j /\ live'["fleet"] = o)
    BY <1>0, <2>3 DEF CopyInv, StoreOK
  <2> QED
    BY <1>0, <1>1, <2>3, <2>4 DEF Owned, Disowned
<1>10. CASE GatewayAccepts
  BY <1>0, <1>1, <1>10, Acceptance
<1>11. CASE (\E j \in Lagging : Sync(j)) \/ DeleteApp \/ UpgradeCRDs \/ UNCHANGED vars
           \/ (\E s \in Specs : EditSpec(s) \/ CreateApp(s)) \/ (\E m \in Modes : Restart(m))
  BY <1>1, <1>11, Zenon DEF Sync, DeleteApp, UpgradeCRDs, vars, EditSpec, CreateApp, Restart, objVars
<1> QED
  BY <1>2, <1>3, <1>4, <1>5, <1>6, <1>7, <1>8, <1>9, <1>10, <1>11, KindAssumption DEF Next, Pass

\* A pass that goes on to the next object of the foundation has the last one.
LEMMA FoundationGrows ==
    ASSUME CopyInv, AppOK, Guarded, app # None, ensureFoundation, pass.uid = app.uid, pc' # "idle",
           NEW k \in Guards, k = Foundation[pass.next]
    PROVE  live'[k] # NoObject /\ live'[k].owner = app.uid
<1>1. ensureObject(k, "ok")
  BY DEF ensureFoundation, EndPass
<1>2. k \in Kinds /\ pass.uid # -1
  BY GuardKinds DEF AppOK, ensureFoundation
<1>3. \/ live'[k].owner = pass.uid
      \/ cache[k] # NoObject /\ cache[k].owner = pass.uid /\ UNCHANGED live
  BY <1>1, <1>2, EnsureOwns
<1>4. CASE live'[k].owner = pass.uid
  BY <1>2, <1>4 DEF NoObject
<1>5. CASE cache[k] # NoObject /\ cache[k].owner = app.uid /\ UNCHANGED live
  BY <1>5 DEF Guarded, Owned
<1> QED
  BY <1>3, <1>4, <1>5

\* Where the pass is: at the start, one object on, or where it was.
LEMMA FoundationPc ==
    ASSUME CopyInv, AppOK, [Next]_vars, pc' \in {"foundation", "fleet"}
    PROVE  \/ pc' = "foundation" /\ pass'.next = 1
           \/ /\ ensureFoundation /\ pc' # "idle" /\ pass'.next = pass.next + 1
              /\ pc' = "fleet" => pass.next = Len(Foundation)
              /\ UNCHANGED <<app, pass.uid>>
           \/ UNCHANGED <<pc, pass.uid, pass.next>>
<1>1. CASE BeginPass
  BY <1>1 DEF BeginPass, Idle
<1>2. CASE ensureFoundation
  BY <1>2 DEF ensureFoundation, EndPass, CopyInv, PassOK, PassFields, appVars
<1>3. CASE reconcileFleet \/ readObsoleteRoute \/ deleteObsoleteRoute \/ obsoleteRouteError
           \/ ensureRoute \/ checkHTTPRoute \/ ensureAuthorizationPolicy \/ ensureScaledObject
           \/ updateStatus
  BY <1>3, Zenon DEF reconcileFleet, readObsoleteRoute, deleteObsoleteRoute, RouteDone, obsoleteRouteError,
     ensureRoute, checkHTTPRoute, ensureAuthorizationPolicy, ensureScaledObject, updateStatus, EndPass
<1>4. CASE \E j \in Kinds : Tamper(j) \/ Leave(j) \/ CollectGarbage(j)
  BY <1>4, Interference
<1>5. CASE GatewayAccepts
  BY <1>5, Acceptance
<1>6. ASSUME NEW a, WriteApp(a), UNCHANGED pc PROVE UNCHANGED <<pc, pass.uid, pass.next>>
  BY <1>6 DEF WriteApp, CopyInv, PassOK, PassFields
<1>7. CASE DeleteApp \/ \E s \in Specs : EditSpec(s) \/ CreateApp(s)
  BY <1>6, <1>7, Zenon DEF DeleteApp, EditSpec, CreateApp
<1>8. CASE (\E j \in Lagging : Sync(j)) \/ UpgradeCRDs \/ UNCHANGED vars
           \/ (\E m \in Modes : Restart(m))
  BY <1>8 DEF Sync, UpgradeCRDs, vars, Restart, EndPass
<1> QED
  BY <1>1, <1>2, <1>3, <1>4, <1>5, <1>7, <1>8, KindAssumption DEF Next, Pass

\* The WorkerApp stays the same, is new, or is gone.
LEMMA AppChange ==
    ASSUME CopyInv, AppOK, [Next]_vars, app' # None
    PROVE  \/ app # None /\ app'.uid = app.uid
           \/ app'.uid = uid + 1 /\ UNCHANGED <<objVars, pc, pass.uid>>
<1>1. CASE \E s \in Specs : CreateApp(s)
  BY <1>1 DEF CreateApp, WriteApp, CopyInv, PassOK, PassFields
<1>2. CASE \E s \in Specs : EditSpec(s)
  BY <1>2 DEF EditSpec, WriteApp, AppOK
<1>3. CASE DeleteApp
  BY <1>3 DEF DeleteApp, WriteApp
<1>4. CASE UNCHANGED app
  BY <1>4
<1>5. CASE updateStatus
  BY <1>5 DEF updateStatus, appVars, AppOK
<1> QED
  BY <1>1, <1>2, <1>3, <1>4, <1>5, Zenon DEF Next, Pass, BeginPass, ensureFoundation, reconcileFleet,
     readObsoleteRoute, deleteObsoleteRoute, obsoleteRouteError, ensureRoute, checkHTTPRoute,
     ensureAuthorizationPolicy, ensureScaledObject, Sync, Restart, UpgradeCRDs, GatewayAccepts,
     Tamper, Leave, CollectGarbage, vars, appVars

LEMMA GuardedStep ==
    ASSUME CopyInv, AppOK, Owners, Guarded, [Next]_vars
    PROVE  Guarded'
<1> SUFFICES ASSUME app' # None PROVE Guarded'
  BY DEF Guarded
<1>0. Guards \subseteq Kinds /\ "fleet" \in Kinds
  BY GuardKinds DEF Kinds
<1>1. CASE app'.uid = uid + 1 /\ UNCHANGED <<objVars, pc, pass.uid>>
  <2>1. \A k \in Kinds : ~Owned(k, app.uid)' /\ ~(cache[k] # NoObject /\ cache[k].owner = app'.uid)
    BY <1>1 DEF Owners, Owned, objVars, AppOK
  <2>2. pc # "idle" => pass'.uid # app'.uid
    BY <1>1 DEF AppOK
  <2> QED
    BY <1>0, <1>1, <2>1, <2>2 DEF Guarded, objVars
<1>2. CASE app # None /\ app'.uid = app.uid
  <2>1. \A k \in Guards : GuardStep(k, app.uid)
    BY <1>2, AllKeepGuards
  <2>2. \A k \in Guards : Owned(k, app.uid) => Owned(k, app.uid)'
    BY <1>2, <2>1 DEF GuardStep, Owned
  <2>3. ASSUME NEW k \in Guards, cache'[k] # NoObject, cache'[k].owner = app.uid
        PROVE  Owned(k, app.uid)'
    <3>1. CASE cache'[k] = live'[k]
      BY <1>2, <2>3, <3>1 DEF Owned
    <3>2. CASE cache'[k] = cache[k]
      BY <1>2, <2>2, <2>3, <3>2 DEF Guarded
    <3> QED
      BY <1>0, <3>1, <3>2, CopiesFollow
  <2>4. ASSUME Owned("fleet", app.uid)', NEW k \in Guards PROVE Owned(k, app.uid)'
    <3>1. Owned("fleet", app.uid) \/ (reconcileFleet /\ pass.uid = app.uid)
      BY <1>2, <2>4, FleetFromPass DEF Owned
    <3>2. Owned(k, app.uid)
      BY <1>2, <3>1 DEF Guarded, reconcileFleet
    <3> QED
      BY <2>2, <3>2
  <2>5. ASSUME pass'.uid = app.uid, pc' = "foundation", NEW k \in Guards \cap Passed'
        PROVE  Owned(k, app.uid)'
    <3>1. CASE pass'.next = 1
      BY <2>5, <3>1 DEF Passed
    <3>2. CASE ensureFoundation /\ pass'.next = pass.next + 1 /\ UNCHANGED pass.uid
      <4>1. k \in Passed \/ k = Foundation[pass.next]
        BY <2>5, <3>2, KindAssumption DEF Passed, AppOK, ensureFoundation
      <4>2. CASE k \in Passed
        BY <1>2, <2>2, <2>5, <3>2, <4>2 DEF Guarded, ensureFoundation
      <4>3. CASE k = Foundation[pass.next]
        BY <1>2, <2>5, <3>2, <4>3, FoundationGrows DEF Owned
      <4> QED
        BY <4>1, <4>2, <4>3
    <3>3. CASE UNCHANGED <<pc, pass.uid, pass.next>>
      BY <1>2, <2>2, <2>5, <3>3 DEF Guarded, Passed
    <3> QED
      BY <2>5, <3>1, <3>2, <3>3, FoundationPc
  <2>6. ASSUME pass'.uid = app.uid, pc' = "fleet", NEW k \in Guards
        PROVE  Owned(k, app.uid)'
    <3>1. CASE /\ ensureFoundation /\ pass.next = Len(Foundation) /\ UNCHANGED pass.uid
      <4>1. PICK i \in 1..Len(Foundation) : k = Foundation[i]
        BY KindAssumption DEF Guards, Range
      <4>2. CASE i = Len(Foundation)
        BY <1>2, <2>6, <3>1, <4>1, <4>2, FoundationGrows DEF Owned
      <4>3. CASE i # Len(Foundation)
        <5>1. k \in Passed
          BY <3>1, <4>1, <4>3, KindAssumption DEF Passed
        <5> QED
          BY <1>2, <2>2, <2>6, <3>1, <5>1 DEF Guarded, ensureFoundation
      <4> QED
        BY <4>2, <4>3
    <3>2. CASE UNCHANGED <<pc, pass.uid, pass.next>>
      BY <1>2, <2>2, <2>6, <3>2 DEF Guarded
    <3> QED
      BY <2>6, <3>1, <3>2, FoundationPc
  <2> QED
    BY <1>2, <2>3, <2>4, <2>5, <2>6 DEF Guarded
<1> QED
  BY <1>1, <1>2, AppChange

\* A fleet of a WorkerApp exists only together with the objects of its foundation
\* that nobody else touches, for any foundation, informer lag, failing calls and
\* WorkerApps created anew (GuardedFleet).
THEOREM GuardedFleetHolds == Spec => []GuardedFleet
<1> DEFINE Inv == CopyInv /\ AppOK /\ GuardInv
<1>1. Init => Inv
  BY CopyInit, AppInit, GuardInit
<1>2. Inv /\ [Next]_vars => Inv'
  BY CopyStep, AppStep, OwnersStep, GuardedStep DEF GuardInv
<1>3. Inv => GuardedFleet
  BY DEF GuardInv, Guarded, GuardedFleet, Guards
<1> QED
  BY <1>1, <1>2, <1>3, PTL DEF Spec
=============================================================================
