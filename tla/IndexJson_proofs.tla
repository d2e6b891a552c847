--------------------------- MODULE IndexJson_proofs ---------------------------
(***************************************************************************)
(* index.json for any number of writers and turns: types, that every lost  *)
(* turn was lost to another writer, that an update gives up only after as  *)
(* many others succeeded as it has turns, and that an entry is lost only   *)
(* in the gap between a writer's check and its rename.                     *)
(***************************************************************************)
EXTENDS IndexJson, FiniteSetTheorems, TLAPS

(* What the turns rely on: a writer past its first read found a file it can *)
(* merge onto, and one that raised found none or used up its turns.         *)
Raised ==
    \A w \in Writer :
        /\ pc[w] \in {"check", "replace"} => index # Alien
        /\ pc[w] = "raised" => index = Alien \/ attempts[w] = MaxAttempts

(* What may be overwritten at a rename is in the base or came after the check. *)
GapHolds ==
    \A w \in Writer : pc[w] = "replace" => ReadIndex \subseteq base[w] \cup gap[w]

IndexState ==
    /\ TypeOK
    /\ Raised
    /\ TurnsAreContended
    /\ GapHolds

(* The writers that recorded their entry are finitely many. *)
LEMMA RecordedFinite == IsFiniteSet(Recorded) /\ Cardinality(Recorded) \in Nat
<1>1. Recorded \subseteq Writer
  BY DEF Recorded
<1>2. IsFiniteSet(Recorded)
  BY <1>1, FS_Subset, IndexAssumption DEF IndexAssumption
<1>3. QED
  BY <1>2, FS_CardinalityType

LEMMA RecordedGrows ==
    ASSUME NEW w \in Writer, Replace(w), pc \in [Writer -> PCs]
    PROVE  Cardinality(Recorded)' = Cardinality(Recorded) + 1
<1>1. w \notin Recorded /\ Recorded' = Recorded \cup {w}
  BY DEF Replace, Recorded, Goto
<1>2. QED
  BY <1>1, RecordedFinite, FS_AddElement

LEMMA IndexInit == Init => IndexState
<1> SUFFICES ASSUME Init PROVE IndexState
  OBVIOUS
<1> USE IndexAssumption DEF IndexAssumption, Init
<1>1. index \in {Torn, Alien} \cup SUBSET Writer
  OBVIOUS
<1>2. base \in [Writer -> SUBSET Writer] /\ gap \in [Writer -> SUBSET Writer]
  OBVIOUS
<1>3. attempts \in [Writer -> 0 .. MaxAttempts] /\ \A w \in Writer : attempts[w] = 0
  OBVIOUS
<1>4. pc \in [Writer -> PCs] /\ \A w \in Writer : pc[w] = "start"
  BY DEF PCs
<1>5. TypeOK
  BY <1>1, <1>2, <1>3, <1>4 DEF TypeOK
<1>6. Raised /\ GapHolds
  BY <1>4 DEF Raised, GapHolds
<1>7. TurnsAreContended
  BY <1>3, <1>4, RecordedFinite DEF TurnsAreContended
<1>8. QED
  BY <1>1, <1>5, <1>6, <1>7 DEF IndexState

LEMMA TypeStep == ASSUME TypeOK, Raised, [Next]_vars PROVE TypeOK'
<1> USE IndexAssumption DEF IndexAssumption, TypeOK, PCs, Ended, Goto
<1>1. ASSUME NEW w \in Writer, Begin(w) PROVE TypeOK'
  BY <1>1 DEF Begin, ReadIndex
<1>2. ASSUME NEW w \in Writer, Undecodable(w) \/ CheckPasses(w) \/ Skip(w) PROVE TypeOK'
  BY <1>2 DEF Undecodable, CheckPasses, Skip
<1>3. ASSUME NEW w \in Writer, CheckFails(w) PROVE TypeOK'
  <2>1. ReadIndex \in SUBSET Writer
    BY <1>3 DEF CheckFails, ReadIndex, Raised
  <2>2. attempts[w] \in 0 .. MaxAttempts /\ attempts[w] < MaxAttempts
    BY <1>3 DEF CheckFails
  <2>3. /\ base' \in [Writer -> SUBSET Writer]
        /\ attempts' = [attempts EXCEPT ![w] = attempts[w] + 1]
        /\ UNCHANGED <<index, gap>>
    BY <1>3, <2>1 DEF CheckFails, Rebase
  <2>4. attempts[w] + 1 \in 0 .. MaxAttempts
    BY <2>2
  <2>5. attempts' \in [Writer -> 0 .. MaxAttempts]
    BY <2>3, <2>4
  <2>6. pc' = [pc EXCEPT ![w] = IF attempts[w] + 1 < MaxAttempts THEN "check" ELSE "raised"]
    BY <1>3 DEF CheckFails, TurnLeft
  <2>7. QED
    BY <2>3, <2>5, <2>6
<1>4. ASSUME NEW w \in Writer, Replace(w) PROVE TypeOK'
  <2>1. Merged(w) \in SUBSET Writer
    BY DEF Merged
  <2>2. QED
    BY <1>4, <2>1 DEF Replace
<1>5. CASE Finished \/ UNCHANGED vars
  BY <1>5 DEF Finished, vars
<1>6. QED
  BY <1>1, <1>2, <1>3, <1>4, <1>5, Zenon DEF Next, Step

(* Only a turn that finds the file moved adds to attempts, and only another *)
(* writer's rename moves it.                                                *)
LEMMA TurnsStep == ASSUME TypeOK, Raised, TurnsAreContended, [Next]_vars PROVE TurnsAreContended'
<1> USE DEF TurnsAreContended, TypeOK, Goto
<1> DEFINE n == Cardinality(Recorded)
<1>0. n \in Nat
  BY RecordedFinite
<1>1. ASSUME Recorded' = Recorded PROVE n' = n
  BY <1>1
<1>2. ASSUME NEW w \in Writer, Begin(w) \/ Undecodable(w) \/ CheckPasses(w) \/ Skip(w)
      PROVE  TurnsAreContended'
  <2>1. Recorded' = Recorded
    BY <1>2 DEF Begin, Undecodable, CheckPasses, Skip, Recorded
  <2>2. n' = n
    BY <1>1, <2>1
  <2> HIDE DEF n
  <2>3. QED
    BY <1>2, <2>2 DEF Begin, Undecodable, CheckPasses, Skip, Unmoved, ReadIndex, n
<1>3. ASSUME NEW w \in Writer, CheckFails(w) PROVE TurnsAreContended'
  <2>1. Recorded' = Recorded
    BY <1>3 DEF CheckFails, Recorded
  <2>2. n' = n
    BY <1>1, <2>1
  <2>3. attempts[w] < n
    BY <1>3 DEF CheckFails
  <2> HIDE DEF n
  <2>4. /\ attempts' = [attempts EXCEPT ![w] = attempts[w] + 1]
        /\ base' = [base EXCEPT ![w] = ReadIndex]
        /\ index' = index
        /\ \A u \in Writer : u # w => pc'[u] = pc[u]
    BY <1>3 DEF CheckFails, Rebase
  <2>5. \A u \in Writer : attempts'[u] <= n
    BY <1>0, <2>3, <2>4 DEF n
  <2>6. Unmoved(w)'
    BY <2>4 DEF Unmoved, ReadIndex
  <2>7. ASSUME NEW u \in Writer, u # w, pc'[u] = "check", ~Unmoved(u)' PROVE attempts'[u] < n
    BY <2>4, <2>7 DEF Unmoved, ReadIndex, n
  <2>8. QED
    BY <2>2, <2>5, <2>6, <2>7 DEF n
<1>4. ASSUME NEW w \in Writer, Replace(w) PROVE TurnsAreContended'
  <2>1. n' = n + 1
    BY <1>4, RecordedGrows
  <2>2. \A u \in Writer : attempts'[u] < n + 1
    <3>1. attempts' = attempts /\ \A u \in Writer : attempts[u] \in Nat /\ attempts[u] <= n
      BY <1>4 DEF Replace
    <3> HIDE DEF n
    <3>2. QED
      BY <1>0, <3>1
  <2> HIDE DEF n
  <2>3. QED
    <3>1. \A u \in Writer : attempts'[u] < n'
      BY <2>1, <2>2
    <3>2. \A u \in Writer : attempts'[u] \in Nat
      BY <1>4 DEF Replace
    <3>3. n' \in Nat
      BY <1>0, <2>1
    <3>4. QED
      BY <3>1, <3>2, <3>3 DEF n
<1>5. CASE Finished \/ UNCHANGED vars
  BY <1>5 DEF Finished, vars, Recorded, Unmoved, ReadIndex
<1>6. QED
  BY <1>2, <1>3, <1>4, <1>5, Zenon DEF Next, Step

LEMMA RaisedStep ==
    ASSUME TypeOK, Raised, [Next]_vars
    PROVE  Raised'
<1> USE IndexAssumption DEF IndexAssumption, Raised, TypeOK, Goto
<1>1. ASSUME NEW w \in Writer, Begin(w) \/ Undecodable(w) \/ CheckPasses(w) \/ Skip(w) PROVE Raised'
  BY <1>1 DEF Begin, Undecodable, CheckPasses, Skip
<1>2. ASSUME NEW w \in Writer, CheckFails(w) PROVE Raised'
  <2>1. attempts[w] \in 0 .. MaxAttempts /\ attempts[w] < MaxAttempts
    BY <1>2 DEF CheckFails
  <2>2. attempts[w] + 1 < MaxAttempts \/ attempts[w] + 1 = MaxAttempts
    BY <2>1
  <2>3. /\ attempts' = [attempts EXCEPT ![w] = attempts[w] + 1]
        /\ pc' = [pc EXCEPT ![w] = IF attempts[w] + 1 < MaxAttempts THEN "check" ELSE "raised"]
        /\ index' = index /\ pc[w] = "check"
    BY <1>2 DEF CheckFails, TurnLeft
  <2>4. QED
    BY <2>2, <2>3
<1>3. ASSUME NEW w \in Writer, Replace(w) PROVE Raised'
  <2>1. Merged(w) \in SUBSET Writer
    BY DEF Merged
  <2>2. index' # Alien
    BY <1>3, <2>1 DEF Replace
  <2>3. QED
    BY <1>3, <2>2 DEF Replace
<1>4. CASE Finished \/ UNCHANGED vars
  BY <1>4 DEF Finished, vars
<1>5. QED
  BY <1>1, <1>2, <1>3, <1>4, Zenon DEF Next, Step

(* A check starts the gap with base equal to the file; a rename puts what it *)
(* publishes into the gap of every writer past its check.                    *)
LEMMA GapStep == ASSUME TypeOK, Raised, GapHolds, [Next]_vars PROVE GapHolds'
<1> USE IndexAssumption DEF IndexAssumption, GapHolds, TypeOK, Goto
<1>1. ASSUME NEW w \in Writer, Begin(w) \/ Undecodable(w) \/ Skip(w) PROVE GapHolds'
  BY <1>1 DEF Begin, Undecodable, Skip, ReadIndex
<1>2. ASSUME NEW w \in Writer, CheckPasses(w) PROVE GapHolds'
  BY <1>2 DEF CheckPasses, Unmoved, ReadIndex
<1>3. ASSUME NEW w \in Writer, CheckFails(w) PROVE GapHolds'
  BY <1>3 DEF CheckFails, Rebase, ReadIndex
<1>4. ASSUME NEW w \in Writer, Replace(w) PROVE GapHolds'
  <2>1. Merged(w) \in SUBSET Writer /\ index' = Merged(w)
    BY <1>4 DEF Merged, Replace
  <2>2. ReadIndex' = Merged(w)
    BY <2>1 DEF ReadIndex
  <2>3. \A u \in Writer : pc'[u] = "replace" => pc[u] = "replace"
    BY <1>4 DEF Replace
  <2>4. QED
    BY <1>4, <2>2, <2>3 DEF Replace
<1>5. CASE Finished \/ UNCHANGED vars
  BY <1>5 DEF Finished, vars, ReadIndex
<1>6. QED
  BY <1>1, <1>2, <1>3, <1>4, <1>5, Zenon DEF Next, Step

LEMMA IndexStateAlways == Spec => []IndexState
<1>1. IndexState /\ [Next]_vars => IndexState'
  BY TypeStep, TurnsStep, RaisedStep, GapStep DEF IndexState
<1>2. QED
  BY <1>1, IndexInit, PTL DEF Spec

-----------------------------------------------------------------------------
(* Every variable keeps its type, and no update starts a turn too many. *)
THEOREM TypeCorrect == Spec => []TypeOK
<1>1. IndexState => TypeOK
  BY DEF IndexState
<1>2. QED
  BY <1>1, IndexStateAlways, PTL

(* Every turn that found the file moved took another writer's rename. *)
THEOREM TurnsAreContendedAlways == Spec => []TurnsAreContended
<1>1. IndexState => TurnsAreContended
  BY DEF IndexState
<1>2. QED
  BY <1>1, IndexStateAlways, PTL

(* An update fails only over a file it cannot decode or after as many other *)
(* updates succeeded as it has turns: in particular never while there are at  *)
(* least as many turns as writers.                                            *)
THEOREM ConvergesAlways == Spec => []Converges
<1>1. IndexState => Converges
  <2> SUFFICES ASSUME IndexState, NEW w \in Writer, pc[w] = "raised", index # Alien
               PROVE  Cardinality(Recorded) >= MaxAttempts
    BY DEF Converges
  <2>1. attempts[w] = MaxAttempts /\ attempts[w] <= Cardinality(Recorded)
    BY DEF IndexState, Raised, TurnsAreContended
  <2>2. Cardinality(Recorded) \in Nat /\ MaxAttempts \in Nat
    BY RecordedFinite, IndexAssumption DEF IndexAssumption
  <2>3. QED
    BY <2>1, <2>2
<1>2. QED
  BY <1>1, IndexStateAlways, PTL

(* An entry is overwritten only in the gap between a check and its rename. *)
THEOREM LostInGapOnlyAlways == Spec => LostInGapOnly
<1>1. ASSUME IndexState, [Next]_vars
      PROVE  \A w \in Writer : pc[w] = "replace" /\ pc'[w] = "recorded" =>
                 \A e \in ReadIndex \ index' : e \in gap[w]
  <2> SUFFICES ASSUME NEW w \in Writer, pc[w] = "replace", pc'[w] = "recorded",
                      NEW e \in ReadIndex \ index'
               PROVE  e \in gap[w]
    OBVIOUS
  <2>1. ReadIndex \subseteq base[w] \cup gap[w]
    BY <1>1 DEF IndexState, GapHolds
  <2>2. Replace(w)
    BY <1>1 DEF IndexState, TypeOK, Next, Step, Begin, Undecodable, CheckPasses, CheckFails,
       Replace, Skip, Finished, Goto, vars
  <2>3. index' = base[w] \cup {w}
    BY <2>2 DEF Replace, Merged
  <2>4. QED
    BY <2>1, <2>3
<1>2. QED
  BY <1>1, IndexStateAlways, PTL DEF Spec, LostInGapOnly
=============================================================================
