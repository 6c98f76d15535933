--------------------------- MODULE CasHammerProofs ---------------------------
(***************************************************************************)
(* Proofs about CasHammer, for any set of writers and any number of rounds   *)
(* and attempts.                                                           *)
(***************************************************************************)
EXTENDS CasHammer, FiniteSetTheorems, TLAPS

States == {"sent", "checked", "done", "refused", "returned"}

\* The writers of the round whose PUT the store is known to have carried out.
Done == won \cup {w \in Writers : put[w] = "done"}

Types ==
    /\ put \in [Writers -> States] /\ won \subseteq Writers
    /\ accepted \in Nat /\ violations \in Nat /\ broken \in BOOLEAN /\ hardErr \in BOOLEAN
    /\ etag \in {None, 0} /\ (pc = "head" => object = 0)

\* Different writers' PUTs were carried out one after the other.
ConvictInv ==
    /\ Types
    /\ Done # {} => accepted > 0
    /\ \A u, v \in Done : u # v => broken

LEMMA ConvictInit == Init => ConvictInv
<1> SUFFICES ASSUME Init PROVE ConvictInv
  OBVIOUS
<1>1. Types
  BY Zenon DEF Init, Types, States, None
<1>2. Done = {}
  BY DEF Init, Done
<1> QED
  BY <1>1, <1>2 DEF ConvictInv

LEMMA ConvictStep == ConvictInv /\ [Next]_vars => ConvictInv'
<1> SUFFICES ASSUME ConvictInv, [Next]_vars PROVE ConvictInv'
  OBVIOUS
<1> USE DEF ConvictInv, Types, States, None
<1>1. CASE Seed
  <2>1. Done' = {}
    BY <1>1 DEF Seed, NewRace, Done
  <2> QED
    BY <1>1, <2>1, Zenon DEF Seed, NewRace
<1>2. CASE Head \/ SeedFails \/ EndRound \/ UNCHANGED vars
  <2>1. UNCHANGED <<put, won, accepted, broken, hardErr>>
    BY <1>2 DEF Head, SeedFails, EndRound, vars, store, race
  <2>2. violations' \in Nat
    BY <1>2 DEF Head, SeedFails, EndRound, vars, run
  <2>3. etag' \in {None, 0} /\ (pc' = "head" => object' = 0)
    BY <1>2 DEF Head, SeedFails, EndRound, Exit, vars, run, store
  <2> QED
    BY <2>1, <2>2, <2>3 DEF Done
<1>3. ASSUME NEW w \in Writers, Arrives(w) \/ Writes(w) PROVE ConvictInv'
  <2>1. CASE carryOut /\ put' = [put EXCEPT ![w] = "done"]
    <3>1. Done' \subseteq Done \cup {w}
      BY <1>3, <2>1 DEF Arrives, Writes, Done
    <3>2. accepted' > 0 /\ broken' = (broken \/ accepted > 0)
      BY <2>1 DEF carryOut
    <3>3. \A u, v \in Done' : u # v => broken'
      BY <3>1, <3>2, Zenon
    <3>4. Types'
      BY <1>3, <2>1, <3>2 DEF Arrives, Writes, Racing, run, carryOut
    <3> QED
      BY <3>2, <3>3, <3>4
  <2>2. CASE /\ UNCHANGED <<object, accepted, broken>>
             /\ put' = [put EXCEPT ![w] = "refused"] \/ put' = [put EXCEPT ![w] = "checked"]
    <3>1. Done' \subseteq Done
      BY <1>3, <2>2 DEF Arrives, Writes, Done
    <3> QED
      BY <1>3, <2>2, <3>1 DEF Arrives, Writes, Racing, run
  <2> QED
    BY <1>3, <2>1, <2>2 DEF Arrives, Writes
<1>4. ASSUME NEW w \in Writers, Retries(w) \/ Returns(w) PROVE ConvictInv'
  <2>1. Done' \subseteq Done
    BY <1>4 DEF Retries, Returns, classify, Done
  <2> QED
    BY <1>4, <2>1, Zenon DEF Retries, Returns, classify, Racing, run
<1> QED
  BY <1>1, <1>2, <1>3, <1>4 DEF Next

\* Two winners of one round convict the store, even when answers get lost and
\* requests are sent again (raceCreate, raceUpdate, classify).
THEOREM WinnersConvictHolds == Spec => []WinnersConvict
<1>1. ConvictInv => WinnersConvict
  BY DEF ConvictInv, Done, WinnersConvict
<1> QED
  BY <1>1, ConvictInit, ConvictStep, PTL DEF Spec

-----------------------------------------------------------------------------
\* Without losses the winners of a round are those whose PUT was carried out, a
\* refusal means that one was, and so the rounds counted are the broken ones.
Several(S) == \E u, v \in S : u # v

Lossless ==
    /\ ~hardErr
    /\ accepted > 0 => Done # {}
    /\ accepted > 1 <=> Several(Done)
    /\ \A w \in Writers : put[w] = "refused" \/ (put[w] = "returned" /\ w \notin won) => accepted > 0
    /\ \A w \in won : put[w] = "returned"
    /\ pc = "head" => accepted = 0
    /\ pc = "race" => object = IF accepted = 0 THEN etag ELSE accepted
    /\ pc \in {"seed", "head"} => (broken <=> violations > 0)
    /\ pc = "race" => (broken <=> violations > 0 \/ accepted > 1)
    /\ (exit = 1 => broken) /\ (exit = 0 => ~broken)

VerdictInv == ConvictInv /\ (exit # None => pc = "exited") /\ (~lossy => Lossless)

LEMMA VerdictInit == Init => VerdictInv
<1> SUFFICES ASSUME Init PROVE VerdictInv
  OBVIOUS
<1>1. Done = {}
  BY DEF Init, Done
<1> QED
  BY <1>1, ConvictInit DEF Init, VerdictInv, Lossless, Several, None

\* A round without losses is counted exactly when the store broke its promise in it.
LEMMA ViolatedIsBroken ==
    ASSUME VerdictInv, ~lossy, IsFiniteSet(Writers), Writers # {},
           \A w \in Writers : put[w] = "returned"
    PROVE  violated <=> accepted > 1
<1> USE DEF VerdictInv, ConvictInv, Types, Lossless
<1>1. Done = won
  BY DEF Done
<1>2. won # {}
  BY <1>1
<1>3. ASSUME Several(won) PROVE Cardinality(won) # 1
  <2>1. IsFiniteSet(won)
    BY FS_Subset
  <2> QED
    BY <2>1, <1>3, FS_Singleton DEF Several
<1>4. ASSUME ~Several(won) PROVE Cardinality(won) = 1
  <2>1. PICK u \in won : won = {u}
    BY <1>2, <1>4 DEF Several
  <2> QED
    BY <2>1, FS_Singleton
<1> QED
  BY <1>1, <1>3, <1>4 DEF violated

LEMMA VerdictStep ==
    ASSUME IsFiniteSet(Writers), Writers # {}, VerdictInv, [Next]_vars
    PROVE  VerdictInv'
<1>1. ConvictInv'
  BY ConvictStep DEF VerdictInv
<1>2. lossy' = lossy
  BY DEF Next, Seed, Head, SeedFails, EndRound, Arrives, Writes, Retries, Returns, Racing, store, vars
<1> SUFFICES (exit' # None => pc' = "exited") /\ (~lossy => Lossless')
  BY <1>1, <1>2 DEF VerdictInv
<1> USE DEF VerdictInv, ConvictInv, Types, None
<1>3. CASE Seed
  <2>1. Done' = {}
    BY <1>3 DEF Seed, NewRace, Done
  <2> QED
    BY <1>3, <2>1 DEF Seed, NewRace, Lossless, Several
<1>4. CASE Head \/ SeedFails \/ UNCHANGED vars
  <2>1. Done' = Done
    BY <1>4 DEF Head, SeedFails, store, race, vars, Done
  <2> QED
    BY <1>4, <2>1 DEF Head, SeedFails, Exit, store, race, run, vars, Lossless, Several
<1>5. CASE EndRound
  <2>1. Done' = Done /\ UNCHANGED <<put, won, hardErr, accepted, broken>>
    BY <1>5 DEF EndRound, store, race, Done
  <2>2. exit' # None => pc' = "exited"
    BY <1>5 DEF EndRound, Exit
  <2>3. ASSUME ~lossy PROVE Lossless'
    <3>1. violated <=> accepted > 1
      BY <1>5, <2>3, ViolatedIsBroken DEF EndRound
    <3>2. violations' > 0 <=> broken
      BY <1>5, <2>3, <3>1 DEF EndRound, Lossless
    <3>3. pc' \in {"seed", "exited"}
      BY <1>5 DEF EndRound, Exit
    <3>4. (exit' = 1 => broken') /\ (exit' = 0 => ~broken')
      BY <1>5, <2>1, <2>3, <3>2 DEF EndRound, Exit, Lossless
    <3> QED
      BY <2>1, <2>3, <3>2, <3>3, <3>4 DEF Lossless, Several
  <2> QED
    BY <2>2, <2>3
<1>6. ASSUME NEW w \in Writers, Arrives(w) \/ Writes(w) \/ Retries(w) \/ Returns(w)
      PROVE  pc = "race" /\ exit = None /\ UNCHANGED run
  BY <1>6 DEF Arrives, Writes, Retries, Returns, Racing, run
<1>7. ASSUME NEW w \in Writers, Arrives(w) \/ Writes(w), ~lossy PROVE Lossless'
  <2>1. pc = "race" /\ UNCHANGED run /\ UNCHANGED <<won, hardErr>>
    BY <1>6, <1>7 DEF Arrives, Writes
  <2>2. put[w] \in {"sent", "checked"} /\ w \notin won
    BY <1>7 DEF Arrives, Writes, Lossless
  <2>3. CASE carryOut /\ put' = [put EXCEPT ![w] = "done"]
    <3>1. Done' = Done \cup {w} /\ w \notin Done
      BY <1>7, <2>1, <2>3 DEF Arrives, Writes, Done, Lossless
    <3>2. accepted' = accepted + 1 /\ object' = accepted + 1 /\ broken' = (broken \/ accepted > 0)
      BY <2>3 DEF carryOut
    <3>3. accepted' > 1 <=> Several(Done')
      BY <1>7, <3>1, <3>2 DEF Several, Lossless
    <3>4. /\ \A v \in Writers : put'[v] = "refused" \/ (put'[v] = "returned" /\ v \notin won')
                                 => accepted' > 0
          /\ \A v \in won' : put'[v] = "returned"
      BY <1>7, <2>1, <2>3, <2>2, <3>2 DEF Lossless
    <3>5. pc' = "race" /\ exit' = None /\ UNCHANGED <<violations, etag>>
      BY <1>6, <1>7, <2>1 DEF run
    <3>6. broken' <=> violations' > 0 \/ accepted' > 1
      <4>1. accepted' > 1 <=> accepted > 0
        BY <3>2
      <4>2. broken <=> violations > 0 \/ accepted > 1
        BY <1>7, <2>1 DEF Lossless
      <4>3. accepted > 1 => accepted > 0
        OBVIOUS
      <4> QED
        BY <3>2, <3>5, <4>1, <4>2, <4>3, Zenon
    <3>7. object' = IF accepted' = 0 THEN etag' ELSE accepted'
      BY <3>2
    <3>8. ~hardErr' /\ Done' # {}
      BY <1>7, <2>1, <3>1 DEF Lossless
    <3> QED
      BY <3>3, <3>4, <3>5, <3>6, <3>7, <3>8 DEF Lossless
  <2>4. CASE /\ UNCHANGED <<object, accepted, broken>>
             /\ \/ put' = [put EXCEPT ![w] = "refused"] /\ ~holds
                \/ put' = [put EXCEPT ![w] = "checked"]
    <3>1. Done' = Done
      BY <1>7, <2>1, <2>4 DEF Arrives, Writes, Done
    <3>2. put' = [put EXCEPT ![w] = "refused"] => accepted > 0
      BY <1>7, <2>1, <2>4 DEF Arrives, Writes, holds, Lossless, States
    <3>4. /\ \A v \in Writers : put'[v] = "refused" \/ (put'[v] = "returned" /\ v \notin won')
                                 => accepted' > 0
          /\ \A v \in won' : put'[v] = "returned"
      BY <1>7, <2>1, <2>4, <2>2, <3>2 DEF Lossless
    <3>5. pc' = "race" /\ exit' = None /\ UNCHANGED <<violations, etag>>
      BY <1>6, <1>7, <2>1 DEF run
    <3> QED
      BY <1>7, <2>1, <2>4, <3>1, <3>4, <3>5 DEF Several, Lossless
  <2> QED
    BY <1>7, <2>3, <2>4 DEF Arrives, Writes
<1>8. ASSUME NEW w \in Writers, Retries(w) \/ Returns(w), ~lossy PROVE Lossless'
  <2>1. Returns(w)
    BY <1>8 DEF Retries
  <2>2. /\ UNCHANGED <<run, object, accepted, broken, hardErr>>
        /\ put' = [put EXCEPT ![w] = "returned"]
        /\ \/ put[w] = "done" /\ won' = won \cup {w}
           \/ put[w] = "refused" /\ won' = won
    BY <1>8, <2>1 DEF Returns, classify, Racing
  <2>3. Done' = Done
    BY <2>2 DEF Done
  <2> QED
    BY <1>8, <2>2, <2>3 DEF Several, Lossless, run
<1> QED
  BY <1>3, <1>4, <1>5, <1>6, <1>7, <1>8 DEF Next, run

\* When the network loses no answer, exit status 1 is given only to a store that
\* carried out two PUTs under one precondition, and 0 only to one that did not,
\* for any writers and any number of rounds (main, runPhase).
THEOREM ReliableVerdictHolds ==
    ASSUME IsFiniteSet(Writers), Writers # {}
    PROVE  Spec => []ReliableVerdict
<1>1. VerdictInv /\ [Next]_vars => VerdictInv'
  BY VerdictStep
<1>2. VerdictInv => ReliableVerdict
  BY DEF VerdictInv, Lossless, ReliableVerdict
<1> QED
  BY <1>1, <1>2, VerdictInit, PTL DEF Spec
=============================================================================
