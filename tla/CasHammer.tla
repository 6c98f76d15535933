------------------------------ MODULE CasHammer ------------------------------
(***************************************************************************)
(* hack/cas-hammer/main.go: rounds in which writers race a conditional PUT   *)
(* on one key, first a create and then an update of a seeded object, and the *)
(* exit status that judges the store.  The store is external: it checks a    *)
(* precondition and writes in one step when it is atomic, in two (or without *)
(* a check) when it is not, and refuses a PUT (412, 409) only when another   *)
(* has changed the object.  The SDK sends a request again whose answer does  *)
(* not arrive.                                                              *)
(***************************************************************************)
EXTENDS Integers, FiniteSets

CONSTANTS Writers,        \* --writers
          Rounds,         \* --rounds, per phase
          Attempts        \* of the SDK, for one PutObject

\* No ETag and no exit status yet; ETags and exit statuses are numbers.
None == -1

VARIABLES
    atomic,      \* whether the store is
    lossy,       \* whether the network can lose the answer to a PUT
    object,      \* the ETag of the round's key, None when it is absent
    phase, round,
    pc,          \* of runPhase: seed, head, race, exited
    etag,        \* what the writers send: If-Match with it, If-None-Match when it is None
    put,         \* per writer: the state of its PutObject
    attempts,    \* per writer: the requests sent
    won,         \* the writers whose PUT returned no error
    hardErr,
    violations,
    accepted,    \* the PUTs of the round that the store carried out
    broken,      \* the store carried out two PUTs with the same precondition
    exit

store == <<atomic, lossy, object, accepted, broken>>
run == <<phase, round, pc, etag, violations, exit>>
race == <<put, attempts, won, hardErr>>
vars == <<store, run, race>>

NewRace ==
    /\ put' = [w \in Writers |-> "sent"]
    /\ attempts' = [w \in Writers |-> 1]
    /\ won' = {} /\ hardErr' = FALSE

Init ==
    /\ atomic \in BOOLEAN /\ lossy \in BOOLEAN /\ object = None /\ accepted = 0 /\ broken = FALSE
    /\ phase = "create" /\ round = 0 /\ pc = "seed" /\ etag = None
    /\ put = [w \in Writers |-> "sent"] /\ attempts = [w \in Writers |-> 1]
    /\ won = {} /\ hardErr = FALSE
    /\ violations = 0 /\ exit = None

Exit(status) == exit' = status /\ pc' = "exited"

-----------------------------------------------------------------------------
(* The store                                                               *)

holds == object = etag

\* The next ETag of the key; the bodies of the writers differ.
carryOut ==
    /\ accepted' = accepted + 1
    /\ object' = accepted + 1
    /\ broken' = (broken \/ accepted > 0)

Racing == pc = "race" /\ UNCHANGED <<run, atomic, lossy>>

\* A request arrives; an atomic store decides and writes at once.
Arrives(w) ==
    /\ Racing /\ put[w] = "sent"
    /\ \/ ~holds /\ put' = [put EXCEPT ![w] = "refused"] /\ UNCHANGED <<object, accepted, broken>>
       \/ holds /\ atomic /\ put' = [put EXCEPT ![w] = "done"] /\ carryOut
       \/ ~atomic /\ put' = [put EXCEPT ![w] = "checked"] /\ UNCHANGED <<object, accepted, broken>>
    /\ UNCHANGED <<attempts, won, hardErr>>

Writes(w) ==
    /\ Racing /\ put[w] = "checked"
    /\ put' = [put EXCEPT ![w] = "done"] /\ carryOut
    /\ UNCHANGED <<attempts, won, hardErr>>

\* The answer is lost, and the SDK sends the request again.
Retries(w) ==
    /\ Racing /\ lossy
    /\ put[w] \in {"done", "refused"} /\ attempts[w] < Attempts
    /\ put' = [put EXCEPT ![w] = "sent"]
    /\ attempts' = [attempts EXCEPT ![w] = @ + 1]
    /\ UNCHANGED <<object, accepted, broken, won, hardErr>>

-----------------------------------------------------------------------------
(* The writers and runPhase                                                *)

\* classify: a PUT without an error has won, a refused one has lost; the last
\* attempt's lost answer, or any other error, is a hard error.
classify(w) ==
    \/ put[w] = "done" /\ won' = won \cup {w} /\ UNCHANGED hardErr
    \/ put[w] = "refused" /\ UNCHANGED <<won, hardErr>>
    \/ lossy /\ attempts[w] = Attempts /\ hardErr' = TRUE /\ UNCHANGED won

Returns(w) ==
    /\ Racing /\ put[w] \in {"done", "refused"}
    /\ classify(w)
    /\ put' = [put EXCEPT ![w] = "returned"]
    /\ UNCHANGED <<object, accepted, broken, attempts>>

\* The create phase races on an absent key, the update phase on a seeded one.
Seed ==
    /\ pc = "seed"
    /\ IF phase = "create" THEN object' = None /\ pc' = "race" ELSE object' = 0 /\ pc' = "head"
    /\ etag' = None /\ accepted' = 0
    /\ NewRace
    /\ UNCHANGED <<atomic, lossy, broken, phase, round, violations, exit>>

Head ==
    /\ pc = "head"
    /\ etag' = object /\ pc' = "race"
    /\ UNCHANGED <<store, race, phase, round, violations, exit>>

\* Seeding or reading the ETag fails.
SeedFails ==
    /\ phase = "update" /\ pc \in {"seed", "head"}
    /\ Exit(2)
    /\ UNCHANGED <<store, race, phase, round, etag, violations>>

\* Exactly one writer must win a round.
violated == Cardinality(won) # 1

\* All writers have returned: the round is judged, its key deleted, the next begun.
EndRound ==
    /\ pc = "race" /\ \A w \in Writers : put[w] = "returned"
    /\ IF hardErr
         THEN Exit(2) /\ UNCHANGED <<phase, round, violations>>
         ELSE /\ violations' = violations + (IF violated THEN 1 ELSE 0)
              /\ \/ round + 1 < Rounds /\ round' = round + 1
                    /\ pc' = "seed" /\ UNCHANGED <<phase, exit>>
                 \/ round + 1 = Rounds /\ phase = "create" /\ phase' = "update" /\ round' = 0
                    /\ pc' = "seed" /\ UNCHANGED exit
                 \/ round + 1 = Rounds /\ phase = "update" /\ UNCHANGED <<phase, round>>
                    /\ Exit(IF violations' > 0 THEN 1 ELSE 0)
    /\ UNCHANGED <<store, race, etag>>

Next ==
    \/ Seed \/ Head \/ SeedFails \/ EndRound
    \/ \E w \in Writers : Arrives(w) \/ Writes(w) \/ Retries(w) \/ Returns(w)

Spec == Init /\ [][Next]_vars

-----------------------------------------------------------------------------
\* A round with two winners convicts the store, whatever the network loses:
\* each winner's PUT was carried out under the same precondition (classify).
WinnersConvict == \A u, v \in won : u # v => broken

\* When no answer is lost the exit status tells whether the store carried out
\* two PUTs with the same precondition in this run, in either phase (main).
ReliableVerdict == ~lossy => (exit = 1 => broken) /\ (exit = 0 => ~broken)
=============================================================================
