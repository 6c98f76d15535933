---------------------------- MODULE ChildObjects ----------------------------
(***************************************************************************)
(* internal/controller/workerapp_controller.go: one pass of Reconcile over  *)
(* the objects a WorkerApp owns - the foundation, the fleet, the route of   *)
(* the ingress mode, mesh policy and scaler, the status - next to users,    *)
(* other controllers, the garbage collector and a gateway that work on the  *)
(* same objects.  What happens inside the fleet is FleetRollout's subject.  *)
(*                                                                         *)
(* An object is who controls it and what it says.  All kinds share the name *)
(* of the fleet, so anybody may hold that name first.  Reads go through the *)
(* informer cache except where the code uses Reader; instead of             *)
(* resourceVersions the model keeps, per copy, whether it is still current. *)
(***************************************************************************)
EXTENDS Integers, Sequences, FiniteSets

CONSTANTS
    Specs, FirstSpec,    \* the specs a user applies, and the first one
    Foundation,          \* the kinds of ensureFoundation, in its order
    Keys,                \* annotation keys
    LegacyKeys,          \* those that an Ingress of an older operator may carry
    Modes, FirstMode,    \* values of --ingress-mode, and the first one
    Installed,           \* the kinds whose CRDs are installed
    HTTPRouteRetries,    \* --http-route-retries
    Tampered,            \* kinds that users and other controllers interfere with
    Lagging,             \* kinds whose informer cache may lag; the others are prompt
    None,
    MaxUids, MaxEvents   \* bounds: WorkerApps of this name, and events in all

Routes == {"ingress", "httproute", "virtualservice"}
Range(s) == { s[i] : i \in DOMAIN s }
Kinds == Range(Foundation) \cup {"fleet", "mesh", "scaler"} \cup Routes

\* Kinds with fields the API server defaults and the builders leave out (a port's
\* protocol, a route's matches): the stored object never equals the desired one.
Defaulted == {"service", "httproute"}
\* The kinds reconcileAnnotations is applied to.
Annotated == {"service", "ingress"}

ASSUME SpecAssumption ==
    /\ FirstSpec \in Specs
    /\ \A s \in Specs : s.valid \in BOOLEAN /\ s.hosts \in BOOLEAN
                        /\ s.scaled \in BOOLEAN /\ s.keys \subseteq Keys
ASSUME KindAssumption ==
    /\ Foundation \in Seq(STRING) /\ Foundation # <<>>
    /\ Tampered \subseteq Kinds
    /\ Range(Foundation) \cap (Routes \cup {"fleet", "mesh", "scaler"}) = {}
ASSUME NoneAssumption == None \notin Routes

VARIABLES
    live,        \* per kind: the object in the API server, NoObject without one
    cache,       \* per kind: the informer's copy
    current,     \* per kind: nobody wrote the object after that copy was made
    app,         \* the WorkerApp: uid, spec, status; None without one
    uid,         \* the last uid given to a WorkerApp of this name
    mode,        \* the operator's ingress mode
    prunes,      \* the Gateway API CRDs drop the retry field
    pc, pass,    \* the pass in progress
    events       \* edits, restarts, interferences and failing calls so far

objVars == <<live, cache, current>>
appVars == <<app, uid>>
vars == <<objVars, appVars, mode, prunes, pc, pass, events>>

\* Controllers other than a WorkerApp of this name.
Foreign == 0

NoObject == [owner |-> -1]

NoKeys == [k \in Keys |-> "none"]
Object(owner, content) ==
    [owner |-> owner, content |-> content, ann |-> NoKeys, managed |-> {},
     retry |-> FALSE, requested |-> FALSE, recheck |-> FALSE, accepted |-> FALSE]

NoConditions == [valid |-> "none", ingress |-> "none", scaling |-> "none"]
Idle ==
    [uid |-> 0, spec |-> FirstSpec, status |-> NoConditions, appCurrent |-> FALSE, next |-> 1,
     todo |-> {}, seen |-> None, seenCurrent |-> FALSE, dropped |-> FALSE,
     ingress |-> "none", scaling |-> "none"]

Init ==
    /\ live = [k \in Kinds |-> NoObject]
    /\ cache = live
    /\ current = [k \in Kinds |-> TRUE]
    /\ app = [uid |-> 1, spec |-> FirstSpec, status |-> NoConditions]
    /\ uid = 1
    /\ mode = FirstMode
    /\ prunes \in BOOLEAN
    /\ pc = "idle" /\ pass = Idle
    /\ events = 0

\* One of the bounded events.
Happens == events < MaxEvents /\ events' = events + 1

-----------------------------------------------------------------------------
(* The API server and the informers *)

\* The API server stores o, or removes the object when o is NoObject.  A write that
\* changes nothing leaves the resourceVersion alone.  A copy the pass has read for
\* a deletion is no longer current either.
Write(k, o) ==
    /\ live' = [live EXCEPT ![k] = o]
    /\ cache' = IF k \in Lagging THEN cache ELSE [cache EXCEPT ![k] = o]
    /\ current' = IF k \in Lagging /\ o # live[k] THEN [current EXCEPT ![k] = FALSE] ELSE current

\* The same by somebody other than the pass.
ForeignWrite(k, o) ==
    /\ Write(k, o)
    /\ pass' = IF pass.seen = k /\ o # live[k] THEN [pass EXCEPT !.seenCurrent = FALSE] ELSE pass

\* What the API server makes of an object it is sent: standard CRDs drop an
\* HTTPRoute's retry field, and a gateway's verdict is about the spec it saw.
Stored(k, o) ==
    LET retry == o.retry /\ ~prunes
    IN  [o EXCEPT !.retry = retry,
                  !.accepted = @ /\ o.content = live[k].content /\ retry = live[k].retry]

Sync(k) ==
    /\ ~current[k]
    /\ cache' = [cache EXCEPT ![k] = live[k]]
    /\ current' = [current EXCEPT ![k] = TRUE]
    /\ UNCHANGED <<live, appVars, mode, prunes, pc, pass, events>>

-----------------------------------------------------------------------------
(* The objects the builders want, and how they are brought in place *)

\* What of the spec the builder of kind k depends on.
content(k) == IF k \in Routes \cup {"service", "scaler"} THEN pass.spec.content ELSE 0

\* Keys this operator set before and wants no more are removed, other keys survive.
reconcileAnnotations(k, o, keys) ==
    LET before == o.managed \cup (IF k = "ingress" THEN LegacyKeys ELSE {})
    IN  [o EXCEPT !.ann = [a \in Keys |-> IF a \in keys THEN "ours"
                                          ELSE IF a \in before THEN "none" ELSE @[a]],
                  !.managed = keys]

annotate(k, o) == IF k \in Annotated THEN reconcileAnnotations(k, o, pass.spec.keys) ELSE o

\* The live route was asked to retry and does not: its API dropped the field.
retryDropped ==
    LET c == cache["httproute"]
    IN  HTTPRouteRetries /\ c # NoObject /\ c.requested /\ ~c.retry

\* A route that lost its retries is given a deadline, and once that has passed the
\* request is withdrawn, so that the next pass asks again.  Time is not modelled: a
\* deadline found in the live route has passed.
configureHTTPRouteRetries(route) ==
    LET due == retryDropped /\ cache["httproute"].recheck
    IN  [route EXCEPT !.retry = HTTPRouteRetries /\ ~retryDropped,
                      !.requested = HTTPRouteRetries /\ ~due,
                      !.recheck = retryDropped /\ ~due]

desired(k) ==
    LET object == annotate(k, Object(pass.uid, content(k)))
    IN  IF k = "httproute" THEN configureHTTPRouteRetries(object) ELSE object

\* The mutation copies only the fields the operator owns.  An HTTPRoute's
\* annotations are not among them.
mutate(k, o) ==
    annotate(k, [o EXCEPT !.content = desired(k).content, !.retry = desired(k).retry])

\* A call fails for a reason of its own.
CallFails == Happens

requireOwnership(o) == o.owner = pass.uid

\* Mutation: an update takes effect whatever happened since the object was read.
update_Blind(k, o, err) ==
    /\ live[k] # NoObject /\ err = "ok"
    /\ Write(k, Stored(k, o))

\* An update of the copy that was read: refused when the object has changed.
update(k, o, err) ==
    \/ current[k] /\ err = "ok" /\ Write(k, Stored(k, o))
    \/ ~current[k] /\ err = "error" /\ UNCHANGED objVars

\* ensureObject, and ensureUnstructured for kinds without linked types.
ensureObject(k, err) ==
    LET c == cache[k]
    IN  \/ k \notin Installed /\ err = "nomatch" /\ UNCHANGED <<objVars, events>>
        \/ k \in Installed /\ err = "error" /\ CallFails /\ UNCHANGED objVars
        \/ /\ k \in Installed /\ UNCHANGED events
           /\ \/ c = NoObject /\ live[k] = NoObject /\ err = "ok" /\ Write(k, Stored(k, desired(k)))
              \/ c = NoObject /\ live[k] # NoObject /\ err = "error" /\ UNCHANGED objVars
              \/ /\ c # NoObject /\ ~requireOwnership(c)
                 /\ err = "error" /\ UNCHANGED objVars
              \/ /\ c # NoObject /\ requireOwnership(c)
                 /\ k \notin Defaulted /\ mutate(k, c) = c
                 /\ err = "ok" /\ UNCHANGED objVars
              \/ /\ c # NoObject /\ requireOwnership(c)
                 /\ k \in Defaulted \/ mutate(k, c) # c
                 /\ update(k, mutate(k, c), err)

-----------------------------------------------------------------------------
(* A pass of Reconcile *)

opUnchanged == UNCHANGED <<mode, prunes>>

EndPass == pc' = "idle" /\ pass' = Idle

BeginPass ==
    /\ pc = "idle" /\ app # None
    /\ pass' = [Idle EXCEPT !.uid = app.uid, !.spec = app.spec, !.status = app.status,
                            !.appCurrent = TRUE]
    /\ pc' = IF app.spec.valid THEN "foundation" ELSE "status"
    /\ UNCHANGED <<objVars, appVars, events>> /\ opUnchanged

\* Mutation: an error does not end the pass.
ensureFoundation_GoesOn ==
    /\ pc = "foundation"
    /\ \E err \in {"ok", "error", "nomatch"} :
          /\ ensureObject(Foundation[pass.next], err)
          /\ pc' = IF pass.next = Len(Foundation) THEN "fleet" ELSE pc
          /\ pass' = [pass EXCEPT !.next = @ + 1]
    /\ UNCHANGED appVars /\ opUnchanged

\* One object of the foundation; the first error ends the pass.
ensureFoundation ==
    /\ pc = "foundation"
    /\ \E err \in {"ok", "error", "nomatch"} :
          /\ ensureObject(Foundation[pass.next], err)
          /\ \/ err # "ok" /\ EndPass
             \/ /\ err = "ok"
                /\ pc' = IF pass.next = Len(Foundation) THEN "fleet" ELSE pc
                /\ pass' = [pass EXCEPT !.next = @ + 1]
    /\ UNCHANGED appVars /\ opUnchanged

\* reconcileFleet, as far as it is about the object: an uncached read, a fleet that
\* does not exist is created, one of another controller refused.
reconcileFleet ==
    /\ pc = "fleet"
    /\ \/ /\ CallFails /\ UNCHANGED objVars /\ EndPass
       \/ /\ live["fleet"] # NoObject /\ ~requireOwnership(live["fleet"])
          /\ UNCHANGED <<objVars, events>> /\ EndPass
       \/ /\ \/ live["fleet"] = NoObject /\ Write("fleet", Stored("fleet", desired("fleet")))
             \/ live["fleet"] # NoObject /\ requireOwnership(live["fleet"]) /\ UNCHANGED objVars
          /\ pc' = "obsolete"
          /\ pass' = [pass EXCEPT !.todo = Routes \ (IF pass.spec.hosts THEN {mode} ELSE {})]
          /\ UNCHANGED events
    /\ UNCHANGED appVars /\ opUnchanged

\* The rest of the pass goes on whatever became of the route.
RouteDone(condition) ==
    /\ pc' = "mesh"
    /\ pass' = [pass EXCEPT !.ingress = condition, !.todo = {}, !.seen = None, !.seenCurrent = FALSE]

\* Mutation: an error does not keep the new route from being created.
obsoleteRouteError_GoesOn ==
    /\ pc = "obsolete" /\ CallFails
    /\ pc' = "route" /\ pass' = [pass EXCEPT !.todo = {}, !.seen = None, !.seenCurrent = FALSE]
    /\ UNCHANGED <<objVars, appVars>> /\ opUnchanged

\* A read or a deletion of removeObsoleteRoutes fails.
obsoleteRouteError ==
    /\ pc = "obsolete" /\ CallFails
    /\ RouteDone("False")
    /\ UNCHANGED <<objVars, appVars>> /\ opUnchanged

\* Mutation: the route is looked up in the informer cache.
observed_Cached(k) == cache[k]

\* Reader.Get reads past the informer cache.
observed(k) == live[k]

\* removeObsoleteRoutes, in any order: an uncached read ...
readObsoleteRoute ==
    /\ pc = "obsolete" /\ pass.seen = None
    /\ \E k \in pass.todo :
          LET own == observed(k) # NoObject /\ requireOwnership(observed(k))
          IN  \/ /\ ~own
                 /\ pass' = [pass EXCEPT !.todo = @ \ {k}]
                 /\ pc' = IF pass.todo = {k} THEN "route" ELSE pc
              \/ /\ own
                 /\ pass' = [pass EXCEPT !.seen = k, !.seenCurrent = TRUE]
                 /\ UNCHANGED pc
    /\ UNCHANGED <<objVars, appVars, events>> /\ opUnchanged

\* The preconditions of the deletion: the object is the one that was read.
deletable == pass.seenCurrent

\* ... and the deletion of what was read.  An object that is gone is as good as deleted.
deleteObsoleteRoute ==
    /\ pc = "obsolete" /\ pass.seen # None
    /\ \/ live[pass.seen] # NoObject /\ ~deletable /\ UNCHANGED objVars /\ RouteDone("False")
       \/ /\ \/ live[pass.seen] # NoObject /\ deletable /\ Write(pass.seen, NoObject)
             \/ live[pass.seen] = NoObject /\ UNCHANGED objVars
          /\ pass' = [pass EXCEPT !.todo = @ \ {pass.seen}, !.seen = None, !.seenCurrent = FALSE]
          /\ pc' = IF pass.todo = {pass.seen} THEN "route" ELSE pc
    /\ UNCHANGED <<appVars, events>> /\ opUnchanged

\* ensureIngress after that: the route of the mode, if there are hostnames.
ensureRoute ==
    /\ pc = "route"
    /\ \/ /\ ~pass.spec.hosts \/ mode \notin Routes
          /\ RouteDone("none") /\ UNCHANGED <<objVars, events>>
       \/ /\ pass.spec.hosts /\ mode \in Routes
          /\ \E err \in {"ok", "error", "nomatch"} :
                /\ ensureObject(mode, err)
                /\ \/ err # "ok" /\ RouteDone("False")
                   \/ err = "ok" /\ mode # "httproute" /\ RouteDone("Unknown")
                   \/ /\ err = "ok" /\ mode = "httproute"
                      /\ pc' = "check" /\ pass' = [pass EXCEPT !.dropped = retryDropped]
    /\ UNCHANGED appVars /\ opUnchanged

\* httpRouteRetryDropped looks in the cache, httpRouteReady past it.
httpRouteRetryDropped ==
    LET c == cache["httproute"] IN HTTPRouteRetries /\ ~pass.dropped /\ c # NoObject /\ ~c.retry

httpRouteReady ==
    IF live["httproute"] = NoObject THEN "Unknown"
    ELSE IF live["httproute"].accepted THEN "True" ELSE "False"

checkHTTPRoute ==
    /\ pc = "check"
    /\ \/ (pass.dropped \/ httpRouteRetryDropped) /\ RouteDone("False") /\ UNCHANGED events
       \/ /\ ~(pass.dropped \/ httpRouteRetryDropped)
          /\ \/ RouteDone(httpRouteReady) /\ UNCHANGED events
             \/ RouteDone("Unknown") /\ CallFails
    /\ UNCHANGED <<objVars, appVars>> /\ opUnchanged

ensureAuthorizationPolicy ==
    /\ pc = "mesh"
    /\ \E err \in {"ok", "error", "nomatch"} : ensureObject("mesh", err)
    /\ pc' = "scaler"
    /\ UNCHANGED <<pass, appVars>> /\ opUnchanged

\* With autoscaling off a ScaledObject of this WorkerApp is deleted.
ensureScaledObject ==
    /\ pc = "scaler" /\ pc' = "status"
    /\ \/ /\ pass.spec.scaled
          /\ \E err \in {"ok", "error", "nomatch"} :
                /\ ensureObject("scaler", err)
                /\ pass' = [pass EXCEPT !.scaling = IF err = "ok" THEN "True" ELSE "False"]
       \/ /\ ~pass.spec.scaled
          /\ LET c == cache["scaler"] IN
             \/ c = NoObject /\ UNCHANGED <<objVars, events, pass>>
             \/ /\ c # NoObject /\ requireOwnership(c)
                /\ \/ current["scaler"] /\ Write("scaler", NoObject)
                   \/ ~current["scaler"] /\ live["scaler"] = NoObject /\ UNCHANGED objVars
                /\ UNCHANGED <<events, pass>>
             \/ /\ c # NoObject
                /\ \/ CallFails
                   \/ ~requireOwnership(c) /\ UNCHANGED events
                   \/ ~current["scaler"] /\ live["scaler"] # NoObject /\ UNCHANGED events
                /\ pass' = [pass EXCEPT !.scaling = "False"]
                /\ UNCHANGED objVars
    /\ UNCHANGED appVars /\ opUnchanged

\* Mutation: a condition of an earlier spec stays.
conditions_KeepsOld ==
    [valid |-> IF pass.spec.valid THEN "True" ELSE "False",
     ingress |-> IF pass.ingress = "none" THEN pass.status.ingress ELSE pass.ingress,
     scaling |-> IF pass.scaling = "none" THEN pass.status.scaling ELSE pass.scaling]

\* The conditions of this pass; one it did not set is removed.
conditions ==
    [valid |-> IF pass.spec.valid THEN "True" ELSE "False",
     ingress |-> pass.ingress, scaling |-> pass.scaling]

\* updateStatus, and the status of an invalid spec: written when it differs from the
\* status that was read, and refused when the WorkerApp has changed since.
updateStatus ==
    /\ pc = "status" /\ EndPass
    /\ \/ conditions = pass.status /\ UNCHANGED <<appVars, events>>
       \/ /\ conditions # pass.status /\ pass.appCurrent
          /\ app' = [app EXCEPT !.status = conditions] /\ UNCHANGED <<uid, events>>
       \/ conditions # pass.status /\ ~pass.appCurrent /\ UNCHANGED <<appVars, events>>
       \/ conditions # pass.status /\ CallFails /\ UNCHANGED appVars
    /\ UNCHANGED objVars /\ opUnchanged

Pass ==
    \/ BeginPass \/ ensureFoundation \/ reconcileFleet
    \/ readObsoleteRoute \/ deleteObsoleteRoute \/ obsoleteRouteError
    \/ ensureRoute \/ checkHTTPRoute
    \/ ensureAuthorizationPolicy \/ ensureScaledObject \/ updateStatus

-----------------------------------------------------------------------------
(* Users, other controllers, the garbage collector, the gateway *)

\* The WorkerApp is written: a pass in progress holds an old copy.  The informer's lag
\* is left out: a pass that starts from an old copy is one that started before the write.
WriteApp(a) ==
    /\ app' = a
    /\ pass' = IF pass = Idle THEN pass ELSE [pass EXCEPT !.appCurrent = FALSE]

EditSpec(s) ==
    /\ Happens /\ app # None /\ s # app.spec
    /\ WriteApp([app EXCEPT !.spec = s])
    /\ UNCHANGED <<objVars, uid, mode, prunes, pc>>

DeleteApp ==
    /\ Happens /\ app # None
    /\ WriteApp(None)
    /\ UNCHANGED <<objVars, uid, mode, prunes, pc>>

\* A WorkerApp of the same name, while children of the old one may still exist.
CreateApp(s) ==
    /\ app = None /\ uid < MaxUids
    /\ uid' = uid + 1
    /\ WriteApp([uid |-> uid + 1, spec |-> s, status |-> NoConditions])
    /\ UNCHANGED <<objVars, mode, prunes, pc, events>>

\* The operator restarts with another --ingress-mode.
Restart(m) ==
    /\ Happens /\ m # mode
    /\ mode' = m /\ EndPass
    /\ UNCHANGED <<objVars, appVars, prunes>>

UpgradeCRDs ==
    /\ prunes /\ prunes' = FALSE
    /\ UNCHANGED <<objVars, appVars, mode, pc, pass, events>>

\* Somebody puts an object of their own in its place (Leave then deletes that), changes
\* what it says or annotates it.
Tamper(k) ==
    /\ Happens
    /\ \/ ForeignWrite(k, Object(Foreign, 0))
       \/ /\ live[k] # NoObject /\ live[k].owner # Foreign
          /\ ForeignWrite(k, [live[k] EXCEPT !.content = -1, !.accepted = FALSE])
       \/ /\ live[k] # NoObject /\ k \in Annotated
          /\ \E a \in Keys : /\ live[k].ann[a] = "none"
                             /\ ForeignWrite(k, [live[k] EXCEPT !.ann[a] = "theirs"])
    /\ UNCHANGED <<appVars, mode, prunes, pc>>

\* A foreign object that holds the name goes away.
Leave(k) ==
    /\ live[k] # NoObject /\ live[k].owner = Foreign
    /\ ForeignWrite(k, NoObject)
    /\ UNCHANGED <<appVars, mode, prunes, pc, events>>

CollectGarbage(k) ==
    /\ live[k] # NoObject /\ live[k].owner # Foreign
    /\ ~(app # None /\ app.uid = live[k].owner)
    /\ ForeignWrite(k, NoObject)
    /\ UNCHANGED <<appVars, mode, prunes, pc, events>>

GatewayAccepts ==
    /\ live["httproute"] # NoObject /\ ~live["httproute"].accepted
    /\ ForeignWrite("httproute", [live["httproute"] EXCEPT !.accepted = TRUE])
    /\ UNCHANGED <<appVars, mode, prunes, pc, events>>

Next ==
    \/ Pass
    \/ \E k \in Lagging : Sync(k)
    \/ \E s \in Specs : EditSpec(s) \/ CreateApp(s)
    \/ DeleteApp
    \/ \E m \in Modes : Restart(m)
    \/ UpgradeCRDs \/ GatewayAccepts
    \/ \E k \in Tampered : Tamper(k) \/ Leave(k)
    \/ \E k \in Kinds : CollectGarbage(k)

Spec == Init /\ [][Next]_vars

\* Passes are requeued and retried, informers catch up, garbage is collected, the
\* gateway answers, and a foreign holder of the name does not stay for good.
FairSpec ==
    /\ Spec
    /\ WF_vars(Pass) /\ WF_vars(GatewayAccepts)
    /\ \A k \in Lagging : WF_vars(Sync(k))
    /\ \A k \in Tampered : WF_vars(Leave(k))
    /\ \A k \in Kinds : WF_vars(CollectGarbage(k))

-----------------------------------------------------------------------------
(* Properties *)

Owned(k, id) == live[k] # NoObject /\ live[k].owner = id

\* A copy that passes for current is: what the informer holds, and the route that
\* removeObsoleteRoutes is about to delete, which is this WorkerApp's.
CopiesInv ==
    /\ \A k \in Kinds : current[k] => cache[k] = live[k]
    /\ pass.seenCurrent => pass.seen \in Routes /\ Owned(pass.seen, pass.uid)

\* Keys that a pass may set or remove on an object of kind k.
Claimed(k, o) ==
    pass.spec.keys \cup o.managed \cup (IF k = "ingress" THEN LegacyKeys ELSE {})

\* A pass changes and deletes only objects its WorkerApp controls at that moment
\* (requireOwnership, resourceVersions, the preconditions of Delete), and on these no
\* annotation of others is lost (reconcileAnnotations), whoever writes in between.
ForeignUntouched ==
    [][Pass => \A k \in Kinds :
          live[k] # NoObject /\ live'[k] # live[k] =>
             /\ live[k].owner = pass.uid
             /\ live'[k] # NoObject =>
                   \A a \in Keys \ Claimed(k, live[k]) : live'[k].ann[a] = live[k].ann[a]]_vars

\* Two routes of one WorkerApp never exist side by side: a changed mode removes the old
\* route before the new one is created, also when it fails half-way
\* (removeObsoleteRoutes, ensureIngress).
OneRoute ==
    app # None => \A j, k \in Routes : Owned(j, app.uid) /\ Owned(k, app.uid) => j = k

\* A fleet is created only behind its foundation - the NetworkPolicy in front of the
\* unauthenticated listener included: no fleet of a WorkerApp exists without the objects
\* of ensureFoundation, unless somebody took them away.
GuardedFleet ==
    app # None /\ Owned("fleet", app.uid) =>
        \A k \in Range(Foundation) \ Tampered : Owned(k, app.uid)

RouteWanted(k) == app.spec.hosts /\ mode = k /\ k \in Installed

\* Object k is there for the WorkerApp as its spec asks for it.
InPlace(k) ==
    /\ Owned(k, app.uid)
    /\ k \in Routes \cup {"service", "scaler"} => live[k].content = app.spec.content
    /\ k \in Annotated => \A a \in Keys :
          live[k].ann[a] = "ours" <=> a \in app.spec.keys

Converged ==
    IF app = None THEN \A k \in Kinds : live[k] = NoObject \/ live[k].owner = Foreign
    ELSE IF ~app.spec.valid
         THEN app.status = [valid |-> "False", ingress |-> "none", scaling |-> "none"]
    ELSE /\ \A k \in Range(Foundation) \cup {"fleet"} : InPlace(k)
         /\ \A k \in Routes : IF RouteWanted(k) THEN InPlace(k) ELSE ~Owned(k, app.uid)
         /\ IF app.spec.scaled THEN InPlace("scaler") ELSE ~Owned("scaler", app.uid)
         /\ app.status.valid = "True"
         /\ app.status.scaling = IF app.spec.scaled THEN "True" ELSE "none"
         /\ app.status.ingress =
               IF ~app.spec.hosts \/ mode \notin Routes THEN "none"
               ELSE IF mode \notin Installed THEN "False"
               ELSE IF mode # "httproute" THEN "Unknown"
               ELSE IF HTTPRouteRetries /\ ~live["httproute"].retry THEN "False" ELSE "True"

\* When users and other controllers stop interfering, every object and every condition
\* comes to be what the last spec, mode and CRDs ask for and stays so: stale caches, refused
\* updates, a pass that failed half-way, a WorkerApp created anew under the same name.
Settles == <>[]Converged

\* docs/production.md: "Support is retried automatically after a persisted five-minute
\* delay, so upgrading the CRDs does not require manually clearing the retry latch": where
\* the API keeps the field for good, the route comes to have its retries.
RetriesRecover ==
    <>[](app # None /\ app.spec.valid /\ RouteWanted("httproute") /\ ~prunes)
        => <>[](live["httproute"] # NoObject /\ live["httproute"].retry)
=============================================================================
