--------------------------- MODULE CloseGuard_proofs ---------------------------
(***************************************************************************)
(* The close guard for any number of threads and handles: types, the       *)
(* inductive invariant of the guard, and from it that no handle is freed   *)
(* under a call, nor twice but where Ctrl-C tore its free from the flag,   *)
(* that no close sleeps past its waking, and that every handle lives the   *)
(* life HandleLife describes.                                              *)
(***************************************************************************)
EXTENDS CloseGuard, FiniteSetTheorems, TLAPS

(* The thread counts in the guard of h. *)
In(t, h) ==
    \/ pc[t] \in {"enter second", "calling", "leave second", "leave first"} /\ first[t] = h
    \/ pc[t] \in {"calling", "leave second"} /\ second[t] = h

(* TypeOK but for the sign of the counters, which takes GuardCounts: this *)
(* much is inductive by itself.                                           *)
Shape ==
    /\ referenced \subseteq created /\ created \subseteq Handle
    /\ active \in [Handle -> Int]
    /\ closed \in [Handle -> BOOLEAN]
    /\ rawClosed \in [Handle -> BOOLEAN]
    /\ freed \in [Handle -> Nat]
    /\ pc \in [Thread -> PCs]
    /\ first \in [Thread -> Handle \cup {NoHandle}]
    /\ second \in [Thread -> Handle \cup {NoHandle}]
    /\ calls \in [Thread -> 0 .. MaxCalls]
    /\ struck \in [Handle -> SUBSET Cuts]
    /\ \A t \in Thread :
           /\ pc[t] # "idle" => first[t] \in created
           /\ pc[t] # "idle" => second[t] \in created \cup {NoHandle}
           /\ first[t] # NoHandle => second[t] # first[t]
           /\ pc[t] \in {"enter second", "leave second"} => second[t] # NoHandle

GuardState == Shape /\ GuardInv

-----------------------------------------------------------------------------
(* Inside and Refers, one handle at a time. *)
LEMMA InsideIn ==
    ASSUME NEW t \in Thread, NEW h \in Handle
    PROVE  h \in Inside(t) <=> In(t, h)
BY GuardAssumption, Zenon DEF GuardAssumption, Inside, In

LEMMA RefersTo ==
    ASSUME NEW t \in Thread, NEW h \in Handle
    PROVE  h \in Refers(t) <=> pc[t] # "idle" /\ (first[t] = h \/ second[t] = h)
BY GuardAssumption, Zenon DEF GuardAssumption, Refers

(* A counter is the number of threads inside, or more where a cut says so. *)
Agrees(count, cuts, inside) == IF "count" \in cuts THEN count > inside ELSE count = inside

LEMMA CountsIn ==
    GuardCounts <=> \A h \in Handle :
                        Agrees(active[h], struck[h], Cardinality({u \in Thread : In(u, h)}))
<1>1. \A h \in Handle : {t \in Thread : h \in Inside(t)} = {u \in Thread : In(u, h)}
  BY InsideIn
<1>2. QED
  BY <1>1, Zenon DEF GuardCounts, Agrees

LEMMA CountsInNext ==
    GuardCounts' <=> \A h \in Handle :
                         Agrees(active'[h], struck'[h], Cardinality({u \in Thread : In(u, h)}'))
<1>1. GuardCounts' <=> (\A h \in Handle :
                            Agrees(active[h], struck[h], Cardinality({u \in Thread : In(u, h)})))'
  BY CountsIn, PTL
<1>2. QED
  BY <1>1 DEF Agrees

LEMMA InsideFinite ==
    ASSUME NEW h \in Handle
    PROVE  /\ IsFiniteSet({u \in Thread : In(u, h)})
           /\ Cardinality({u \in Thread : In(u, h)}) \in Nat
<1>1. IsFiniteSet({u \in Thread : In(u, h)})
  BY FS_Subset, GuardAssumption DEF GuardAssumption
<1>2. QED
  BY <1>1, FS_CardinalityType

LEMMA CountsNatural ==
    ASSUME GuardCounts, active \in [Handle -> Int], NEW h \in Handle
    PROVE  active[h] \in Nat
<1>1. Agrees(active[h], struck[h], Cardinality({u \in Thread : In(u, h)}))
  BY CountsIn
<1>2. Cardinality({u \in Thread : In(u, h)}) \in Nat
  BY InsideFinite
<1>3. QED
  BY <1>1, <1>2 DEF Agrees

LEMMA InsideCounts ==
    ASSUME GuardCounts, active \in [Handle -> Int],
           NEW h \in Handle, NEW t \in Thread, In(t, h)
    PROVE  active[h] \in Nat \ {0}
<1> DEFINE S == {u \in Thread : In(u, h)}
<1>1. Agrees(active[h], struck[h], Cardinality(S))
  BY CountsIn
<1>2. IsFiniteSet(S) /\ Cardinality(S) \in Nat /\ t \in S
  BY InsideFinite
<1>3. Cardinality(S) # 0
  BY <1>2, FS_EmptySet
<1> HIDE DEF S
<1>4. QED
  BY <1>1, <1>2, <1>3 DEF Agrees

(* Where nothing was cut, a counter that is not zero counts somebody. *)
LEMMA CountedInside ==
    ASSUME GuardCounts, NEW h \in Handle, "count" \notin struck[h], active[h] # 0
    PROVE  \E t \in Thread : In(t, h)
<1>1. active[h] = Cardinality({u \in Thread : In(u, h)})
  BY CountsIn DEF Agrees
<1>2. {u \in Thread : In(u, h)} # {}
  BY <1>1, FS_EmptySet
<1>3. QED
  BY <1>2

(* What one cut changes of the history. *)
LEMMA StruckOne ==
    ASSUME struck \in [Handle -> SUBSET Cuts], NEW g \in Handle, NEW cut,
           struck' = [struck EXCEPT ![g] = @ \cup {cut}]
    PROVE  /\ cut \in Cuts => struck' \in [Handle -> SUBSET Cuts]
           /\ \A k \in Handle : \A c : c \in struck'[k] <=> c \in struck[k] \/ (k = g /\ c = cut)
           /\ \A k \in Handle : struck[k] \subseteq struck'[k]
<1>1. \A k \in Handle : struck'[k] = IF k = g THEN struck[g] \cup {cut} ELSE struck[k]
  OBVIOUS
<1>2. \A k \in Handle : struck[k] \subseteq struck'[k]
  BY <1>1
<1>3. cut \in Cuts => struck' \in [Handle -> SUBSET Cuts]
  OBVIOUS
<1>4. QED
  BY <1>1, <1>2, <1>3, Zenon

(* A count and the number inside move together, or part for good. *)
LEMMA AgreeStill ==
    ASSUME NEW n \in Int, NEW c \in Nat, NEW s, NEW r, Agrees(n, s, c),
           "count" \in r <=> "count" \in s
    PROVE  Agrees(n, r, c) /\ Agrees(n + 1, r, c + 1) /\ Agrees(n - 1, r, c - 1)
BY DEF Agrees

LEMMA AgreeNoMore ==
    ASSUME NEW n \in Int, NEW c \in Nat, NEW s, NEW r, Agrees(n, s, c), "count" \in r
    PROVE  Agrees(n + 1, r, c) /\ Agrees(n, r, c - 1)
BY DEF Agrees

(* The ways a step treats the counters: nobody enters or leaves, one thread *)
(* enters one guard, one thread leaves one guard, and Ctrl-C makes one      *)
(* count too many of an entry or of an exit.                                *)
LEMMA CountsKept ==
    ASSUME GuardCounts, active' = active,
           \A h \in Handle : "count" \in struck'[h] <=> "count" \in struck[h],
           \A t \in Thread, h \in Handle : In(t, h)' <=> In(t, h)
    PROVE  GuardCounts'
<1>1. \A h \in Handle : {u \in Thread : In(u, h)}' = {u \in Thread : In(u, h)}
  OBVIOUS
<1>2. \A h \in Handle : Agrees(active'[h], struck'[h], Cardinality({u \in Thread : In(u, h)}'))
  BY <1>1, CountsIn DEF Agrees
<1>3. QED
  BY <1>2, CountsInNext

LEMMA CountsEnter ==
    ASSUME GuardCounts, active \in [Handle -> Int],
           NEW t \in Thread, NEW g \in Handle, ~In(t, g),
           active' = [active EXCEPT ![g] = @ + 1],
           \A h \in Handle : "count" \in struck'[h] <=> "count" \in struck[h],
           \A u \in Thread, h \in Handle : In(u, h)' <=> In(u, h) \/ (u = t /\ h = g)
    PROVE  GuardCounts'
<1> DEFINE S(h) == {u \in Thread : In(u, h)}
<1>1. \A h \in Handle : h # g => S(h)' = S(h)
  OBVIOUS
<1>2. S(g)' = S(g) \cup {t}
  OBVIOUS
<1>3. Cardinality(S(g) \cup {t}) = Cardinality(S(g)) + 1 /\ Cardinality(S(g)) \in Nat
  <2>1. IsFiniteSet(S(g)) /\ t \notin S(g) /\ Cardinality(S(g)) \in Nat
    BY InsideFinite
  <2>2. QED
    BY <2>1, FS_AddElement
<1>4. \A h \in Handle : Agrees(active[h], struck[h], Cardinality(S(h)))
  BY CountsIn
<1>5. (\A h \in Handle : Agrees(active'[h], struck'[h], Cardinality(S(h)'))) => GuardCounts'
  BY CountsInNext
<1>6. /\ \A h \in Handle : Cardinality(S(h)) \in Nat /\ active[h] \in Int
      /\ active'[g] = active[g] + 1 /\ \A h \in Handle : h # g => active'[h] = active[h]
  BY InsideFinite
<1> HIDE DEF S
<1>7. Agrees(active'[g], struck'[g], Cardinality(S(g)'))
  BY <1>2, <1>3, <1>4, <1>6, AgreeStill
<1>8. \A h \in Handle : h # g => Agrees(active'[h], struck'[h], Cardinality(S(h)'))
  BY <1>1, <1>4, <1>6, AgreeStill
<1>9. QED
  BY <1>5, <1>7, <1>8, Zenon

LEMMA CountsLeave ==
    ASSUME GuardCounts, active \in [Handle -> Int],
           NEW t \in Thread, NEW g \in Handle, In(t, g),
           active' = [active EXCEPT ![g] = @ - 1],
           \A h \in Handle : "count" \in struck'[h] <=> "count" \in struck[h],
           \A u \in Thread, h \in Handle : In(u, h)' <=> In(u, h) /\ ~(u = t /\ h = g)
    PROVE  GuardCounts'
<1> DEFINE S(h) == {u \in Thread : In(u, h)}
<1>1. \A h \in Handle : h # g => S(h)' = S(h)
  OBVIOUS
<1>2. S(g)' = S(g) \ {t}
  OBVIOUS
<1>3. Cardinality(S(g) \ {t}) = Cardinality(S(g)) - 1 /\ Cardinality(S(g)) \in Nat
  <2>1. IsFiniteSet(S(g)) /\ t \in S(g) /\ Cardinality(S(g)) \in Nat
    BY InsideFinite
  <2>2. QED
    BY <2>1, FS_RemoveElement
<1>4. \A h \in Handle : Agrees(active[h], struck[h], Cardinality(S(h)))
  BY CountsIn
<1>5. (\A h \in Handle : Agrees(active'[h], struck'[h], Cardinality(S(h)'))) => GuardCounts'
  BY CountsInNext
<1>6. /\ \A h \in Handle : Cardinality(S(h)) \in Nat /\ active[h] \in Int
      /\ active'[g] = active[g] - 1 /\ \A h \in Handle : h # g => active'[h] = active[h]
  BY InsideFinite
<1> HIDE DEF S
<1>7. Agrees(active'[g], struck'[g], Cardinality(S(g)'))
  BY <1>2, <1>3, <1>4, <1>6, AgreeStill
<1>8. \A h \in Handle : h # g => Agrees(active'[h], struck'[h], Cardinality(S(h)'))
  BY <1>1, <1>4, <1>6, AgreeStill
<1>9. QED
  BY <1>5, <1>7, <1>8, Zenon

LEMMA CountsCutEntry ==
    ASSUME GuardCounts, active \in [Handle -> Int], struck \in [Handle -> SUBSET Cuts],
           NEW g \in Handle,
           active' = [active EXCEPT ![g] = @ + 1],
           struck' = [struck EXCEPT ![g] = @ \cup {"count"}],
           \A u \in Thread, h \in Handle : In(u, h)' <=> In(u, h)
    PROVE  GuardCounts'
<1> DEFINE S(h) == {u \in Thread : In(u, h)}
<1>1. \A h \in Handle : S(h)' = S(h)
  OBVIOUS
<1>2. Cardinality(S(g)) \in Nat
  BY InsideFinite
<1>3. \A h \in Handle : Agrees(active[h], struck[h], Cardinality(S(h)))
  BY CountsIn
<1>4. (\A h \in Handle : Agrees(active'[h], struck'[h], Cardinality(S(h)'))) => GuardCounts'
  BY CountsInNext
<1>5. /\ \A h \in Handle : Cardinality(S(h)) \in Nat /\ active[h] \in Int
      /\ active'[g] = active[g] + 1 /\ \A h \in Handle : h # g => active'[h] = active[h]
  BY InsideFinite
<1>6. "count" \in struck'[g] /\ \A h \in Handle : h # g => struck'[h] = struck[h]
  OBVIOUS
<1> HIDE DEF S
<1>7. Agrees(active'[g], struck'[g], Cardinality(S(g)'))
  BY <1>1, <1>3, <1>5, <1>6, AgreeNoMore
<1>8. \A h \in Handle : h # g => Agrees(active'[h], struck'[h], Cardinality(S(h)'))
  BY <1>1, <1>3, <1>5, <1>6, AgreeStill
<1>9. QED
  BY <1>4, <1>7, <1>8, Zenon

LEMMA CountsCutExit ==
    ASSUME GuardCounts, active \in [Handle -> Int],
           NEW t \in Thread, NEW g \in Handle, In(t, g), active' = active,
           "count" \in struck'[g], \A h \in Handle : h # g => struck'[h] = struck[h],
           \A u \in Thread, h \in Handle : In(u, h)' <=> In(u, h) /\ ~(u = t /\ h = g)
    PROVE  GuardCounts'
<1> DEFINE S(h) == {u \in Thread : In(u, h)}
<1>1. \A h \in Handle : h # g => S(h)' = S(h)
  OBVIOUS
<1>2. S(g)' = S(g) \ {t}
  OBVIOUS
<1>3. Cardinality(S(g) \ {t}) = Cardinality(S(g)) - 1 /\ Cardinality(S(g)) \in Nat
  <2>1. IsFiniteSet(S(g)) /\ t \in S(g) /\ Cardinality(S(g)) \in Nat
    BY InsideFinite
  <2>2. QED
    BY <2>1, FS_RemoveElement
<1>4. \A h \in Handle : Agrees(active[h], struck[h], Cardinality(S(h)))
  BY CountsIn
<1>5. (\A h \in Handle : Agrees(active'[h], struck'[h], Cardinality(S(h)'))) => GuardCounts'
  BY CountsInNext
<1>6. /\ \A h \in Handle : Cardinality(S(h)) \in Nat /\ active[h] \in Int
      /\ active'[g] = active[g] /\ \A h \in Handle : h # g => active'[h] = active[h]
  BY InsideFinite
<1> HIDE DEF S
<1>7. Agrees(active'[g], struck'[g], Cardinality(S(g)'))
  BY <1>2, <1>3, <1>4, <1>6, AgreeNoMore
<1>8. \A h \in Handle : h # g => Agrees(active'[h], struck'[h], Cardinality(S(h)'))
  BY <1>1, <1>4, <1>6, AgreeStill
<1>9. QED
  BY <1>5, <1>7, <1>8, Zenon

(* A call cut on its way in or out: it goes on to the way out, in no guard  *)
(* it was not in; one cut on its way out is out of the guard it was at.     *)
LEMMA CutsCall ==
    ASSUME Shape, NEW t \in Thread, CutCall(t)
    PROVE  /\ At(t) \in Handle /\ Beyond(t) \in {"idle", "leave first"}
           /\ pc' = [pc EXCEPT ![t] = Beyond(t)]
           /\ UNCHANGED <<created, referenced, closed, rawClosed, freed, first, second, calls>>
           /\ active' \in [Handle -> Int]
           /\ pc[t] \in {"enter first", "enter second", "leave first", "leave second"}
<1>1. At(t) \in Handle
  BY GuardAssumption DEF CutCall, CutBefore, CutEntered, CutLeaving, CutLeft, At, AtFirst,
     Shape, GuardAssumption
<1>2. Beyond(t) \in {"idle", "leave first"}
  BY DEF Beyond
<1>3. /\ pc' = [pc EXCEPT ![t] = Beyond(t)]
      /\ UNCHANGED <<created, referenced, closed, rawClosed, freed, first, second, calls>>
  BY DEF CutCall, CutBefore, CutEntered, CutLeaving, CutLeft, Cut, Goto, rawVars, argVars
<1>4. active' \in [Handle -> Int]
  <2>1. active \in [Handle -> Int]
    BY DEF Shape
  <2>2. \/ active' = active
        \/ active' = [active EXCEPT ![At(t)] = @ + 1]
        \/ active' = [active EXCEPT ![At(t)] = @ - 1]
    BY DEF CutCall, CutBefore, CutEntered, CutLeaving, CutLeft
  <2>3. QED
    BY <1>1, <2>1, <2>2
<1>5. pc[t] \in {"enter first", "enter second", "leave first", "leave second"}
  BY DEF CutCall, CutBefore, CutEntered, CutLeaving, CutLeft
<1>6. QED
  BY <1>1, <1>2, <1>3, <1>4, <1>5

LEMMA CutStrikes ==
    ASSUME Shape, NEW t \in Thread, CutCall(t)
    PROVE  /\ struck' \in [Handle -> SUBSET Cuts]
           /\ \A k \in Handle : "flag" \in struck'[k] <=> "flag" \in struck[k]
           /\ \A k \in Handle : struck[k] \subseteq struck'[k]
<1>1. \/ struck' = struck
      \/ struck' = [struck EXCEPT ![At(t)] = @ \cup {"count"}]
      \/ struck' = [struck EXCEPT ![At(t)] = @ \cup {"notify"}]
  BY DEF CutCall, CutBefore, CutEntered, CutLeaving, CutLeft, Strike
<1>2. At(t) \in Handle /\ struck \in [Handle -> SUBSET Cuts] /\ {"count", "notify"} \subseteq Cuts
  BY CutsCall DEF Shape, Cuts
<1>3. CASE struck' = struck
  BY <1>2, <1>3
<1>4. ASSUME NEW cut \in {"count", "notify"}, struck' = [struck EXCEPT ![At(t)] = @ \cup {cut}]
      PROVE  /\ struck' \in [Handle -> SUBSET Cuts]
             /\ \A k \in Handle : "flag" \in struck'[k] <=> "flag" \in struck[k]
             /\ \A k \in Handle : struck[k] \subseteq struck'[k]
  BY <1>2, <1>4, StruckOne
<1>5. QED
  BY <1>1, <1>3, <1>4

(* Ctrl-C in a close. *)
LEMMA CloseStrikes ==
    ASSUME Shape, NEW t \in Thread, CutClose(t) \/ CutFreed(t)
    PROVE  /\ struck' \in [Handle -> SUBSET Cuts]
           /\ \A k \in Handle : "count" \in struck'[k] <=> "count" \in struck[k]
           /\ \A k \in Handle : struck[k] \subseteq struck'[k]
<1>1. \/ struck' = struck
      \/ first[t] \in Handle /\ struck' = [struck EXCEPT ![first[t]] = @ \cup {"flag"}]
  BY GuardAssumption DEF CutClose, CutFreed, Strike, Shape, GuardAssumption
<1>2. struck \in [Handle -> SUBSET Cuts] /\ "flag" \in Cuts
  BY DEF Shape, Cuts
<1>3. QED
  BY <1>1, <1>2, StruckOne

-----------------------------------------------------------------------------
(* Counters going up and down. *)
LEMMA CountUp ==
    ASSUME NEW S, NEW f \in [S -> Int], NEW x \in S
    PROVE  [f EXCEPT ![x] = @ + 1] \in [S -> Int]
OBVIOUS

LEMMA CountDown ==
    ASSUME NEW S, NEW f \in [S -> Int], NEW x \in S
    PROVE  [f EXCEPT ![x] = @ - 1] \in [S -> Int]
OBVIOUS

LEMMA CountUpNat ==
    ASSUME NEW S, NEW f \in [S -> Nat], NEW x \in S
    PROVE  [f EXCEPT ![x] = @ + 1] \in [S -> Nat]
OBVIOUS

LEMMA CountDownTo ==
    ASSUME NEW S, NEW m \in Nat, NEW f \in [S -> 0 .. m], NEW x \in S, f[x] > 0
    PROVE  [f EXCEPT ![x] = @ - 1] \in [S -> 0 .. m]
OBVIOUS

LEMMA CountedOnce ==
    ASSUME NEW S, NEW f \in [S -> Nat], NEW x \in S, NEW g, g = [f EXCEPT ![x] = @ + 1]
    PROVE  g[x] = f[x] + 1 /\ \A y \in S : y # x => g[y] = f[y]
OBVIOUS

LEMMA SpendTyped ==
    ASSUME Shape, NEW t \in Thread, Spend(t)
    PROVE  calls' \in [Thread -> 0 .. MaxCalls]
<1>1. calls \in [Thread -> 0 .. MaxCalls] /\ MaxCalls \in Nat
  BY GuardAssumption DEF Shape, GuardAssumption
<1>2. calls[t] > 0 /\ calls' = [calls EXCEPT ![t] = @ - 1]
  BY DEF Spend
<1>3. QED
  BY <1>1, <1>2, CountDownTo

(* Shape is inductive. *)
LEMMA ShapeInit == Init => Shape
<1> SUFFICES ASSUME Init PROVE Shape
  OBVIOUS
<1> USE GuardAssumption DEF Init, GuardAssumption
<1>1. referenced \subseteq created /\ created \subseteq Handle
  OBVIOUS
<1>2. active \in [Handle -> Int] /\ freed \in [Handle -> Nat]
  OBVIOUS
<1>3. closed \in [Handle -> BOOLEAN] /\ rawClosed \in [Handle -> BOOLEAN]
  OBVIOUS
<1>4. pc \in [Thread -> PCs] /\ \A t \in Thread : pc[t] = "idle"
  BY DEF PCs
<1>5. first \in [Thread -> Handle \cup {NoHandle}] /\ second \in [Thread -> Handle \cup {NoHandle}]
  OBVIOUS
<1>6. /\ calls \in [Thread -> 0 .. MaxCalls] /\ \A t \in Thread : first[t] = NoHandle
      /\ struck \in [Handle -> SUBSET Cuts]
  OBVIOUS
<1>7. QED
  BY <1>1, <1>2, <1>3, <1>4, <1>5, <1>6 DEF Shape

LEMMA ShapeStep == Shape /\ [Next]_vars => Shape'
<1> SUFFICES ASSUME Shape, [Next]_vars PROVE Shape'
  OBVIOUS
<1> USE GuardAssumption DEF GuardAssumption, Shape, PCs, Closing, Goto, Spend, Return,
        guardVars, rawVars, argVars
<1>1. ASSUME NEW t \in Thread, NEW h \in Handle, NEW g \in Handle \cup {NoHandle}, Begin(t, h, g)
      PROVE  Shape'
  <2>1. calls' \in [Thread -> 0 .. MaxCalls]
    BY <1>1, SpendTyped DEF Begin
  <2>2. /\ pc' = [pc EXCEPT ![t] = "enter first"]
        /\ first' = [first EXCEPT ![t] = h]
        /\ second' = [second EXCEPT ![t] = g]
    BY <1>1 DEF Begin
  <2>3. UNCHANGED <<created, referenced, active, closed, rawClosed, freed, struck>>
    BY <1>1 DEF Begin
  <2>4. h \in created /\ g \in created \cup {NoHandle} /\ g # h
    BY <1>1 DEF Begin
  <2>5. \A u \in Thread :
           /\ pc'[u] # "idle" => first'[u] \in created
           /\ pc'[u] # "idle" => second'[u] \in created \cup {NoHandle}
           /\ first'[u] # NoHandle => second'[u] # first'[u]
           /\ pc'[u] \in {"enter second", "leave second"} => second'[u] # NoHandle
    BY <2>2, <2>4
  <2>6. QED
    BY <2>1, <2>2, <2>3, <2>4, <2>5
<1>2. ASSUME NEW t \in Thread, EnterFirst(t) PROVE Shape'
  <2>1. active' \in [Handle -> Int]
    <3>1. first[t] \in Handle /\ active' = [active EXCEPT ![first[t]] = @ + 1]
      BY <1>2 DEF EnterFirst
    <3>2. active \in [Handle -> Int]
      OBVIOUS
    <3>3. QED
      BY ONLY <3>1, <3>2, CountUp
  <2>2. QED
    BY <1>2, <2>1 DEF EnterFirst
<1>3. ASSUME NEW t \in Thread, RefuseFirst(t) PROVE Shape'
  BY <1>3 DEF RefuseFirst
<1>4. ASSUME NEW t \in Thread, EnterSecond(t) PROVE Shape'
  <2>1. active' \in [Handle -> Int]
    <3>1. second[t] \in Handle /\ active' = [active EXCEPT ![second[t]] = @ + 1]
      BY <1>4 DEF EnterSecond
    <3>2. active \in [Handle -> Int]
      OBVIOUS
    <3>3. QED
      BY ONLY <3>1, <3>2, CountUp
  <2>2. QED
    BY <1>4, <2>1 DEF EnterSecond
<1>5. ASSUME NEW t \in Thread, RefuseSecond(t) PROVE Shape'
  BY <1>5 DEF RefuseSecond, UnwindsTo
<1>6. ASSUME NEW t \in Thread, CallReturns(t) PROVE Shape'
  BY <1>6 DEF CallReturns
<1>7. ASSUME NEW t \in Thread, NEW h \in Handle, CallCreates(t, h) PROVE Shape'
  BY <1>7 DEF CallCreates
<1>8. ASSUME NEW t \in Thread, LeaveSecond(t) PROVE Shape'
  <2>1. active' \in [Handle -> Int]
    <3>1. second[t] \in Handle /\ active' = [active EXCEPT ![second[t]] = @ - 1]
      BY <1>8 DEF LeaveSecond
    <3>2. active \in [Handle -> Int]
      OBVIOUS
    <3>3. QED
      BY ONLY <3>1, <3>2, CountDown
  <2>2. pc' \in [Thread -> PCs]
    BY <1>8 DEF LeaveSecond, NotifyAll
  <2>3. QED
    BY <1>8, <2>1, <2>2 DEF LeaveSecond, NotifyAll
<1>9. ASSUME NEW t \in Thread, LeaveFirst(t) PROVE Shape'
  <2>1. active' \in [Handle -> Int]
    <3>1. first[t] \in Handle /\ active' = [active EXCEPT ![first[t]] = @ - 1]
      BY <1>9 DEF LeaveFirst
    <3>2. active \in [Handle -> Int]
      OBVIOUS
    <3>3. QED
      BY ONLY <3>1, <3>2, CountDown
  <2>2. pc' \in [Thread -> PCs]
    BY <1>9 DEF LeaveFirst, NotifyAll
  <2>3. QED
    BY <1>9, <2>1, <2>2 DEF LeaveFirst, NotifyAll
<1>10. ASSUME NEW t \in Thread, NEW h \in Handle, CloseAgain(t, h) PROVE Shape'
  <2>1. calls' \in [Thread -> 0 .. MaxCalls]
    BY <1>10, SpendTyped DEF CloseAgain
  <2>2. QED
    BY <1>10, <2>1 DEF CloseAgain
<1>11. ASSUME NEW t \in Thread, NEW h \in Handle, Close(t, h) PROVE Shape'
  <2>1. calls' \in [Thread -> 0 .. MaxCalls]
    BY <1>11, SpendTyped DEF Close
  <2>2. pc' \in [Thread -> PCs]
    BY <1>11 DEF Close, WaitsFor
  <2>3. QED
    BY <1>11, <2>1, <2>2 DEF Close, WaitsFor
<1>12. ASSUME NEW t \in Thread, LookAgain(t) PROVE Shape'
  BY <1>12 DEF LookAgain
<1>13. ASSUME NEW t \in Thread, RawFree(t) PROVE Shape'
  <2>1. freed' \in [Handle -> Nat]
    <3>1. first[t] \in Handle /\ freed' = [freed EXCEPT ![first[t]] = @ + 1]
      BY <1>13 DEF RawFree
    <3>2. freed \in [Handle -> Nat]
      OBVIOUS
    <3>3. QED
      BY ONLY <3>1, <3>2, CountUpNat
  <2>2. QED
    BY <1>13, <2>1 DEF RawFree
<1>14. ASSUME NEW t \in Thread, RawFreeAgain(t) PROVE Shape'
  BY <1>14 DEF RawFreeAgain
<1>15. ASSUME NEW t \in Thread, RawFreed(t) PROVE Shape'
  BY <1>15 DEF RawFreed
<1>16. ASSUME NEW t \in Thread, CutCall(t) PROVE Shape'
  <2>1. struck' \in [Handle -> SUBSET Cuts] /\ active' \in [Handle -> Int]
    BY <1>16, CutStrikes, CutsCall
  <2>2. /\ UNCHANGED <<created, referenced, closed, rawClosed, freed, first, second, calls>>
        /\ pc[t] # "idle" /\ pc' = [pc EXCEPT ![t] = Beyond(t)]
        /\ Beyond(t) \in {"idle", "leave first"}
    BY <1>16, CutsCall
  <2>3. QED
    BY <2>1, <2>2
<1>17. ASSUME NEW h \in Handle, Forget(h) PROVE Shape'
  BY <1>17 DEF Forget
<1>18. ASSUME NEW h \in Handle, Finalize(h) PROVE Shape'
  <2>1. freed' \in [Handle -> Nat]
    <3>1. h \in Handle /\ freed' = [freed EXCEPT ![h] = @ + 1]
      BY <1>18 DEF Finalize
    <3>2. freed \in [Handle -> Nat]
      OBVIOUS
    <3>3. QED
      BY ONLY <3>1, <3>2, CountUpNat
  <2>2. QED
    BY <1>18, <2>1 DEF Finalize
<1>19. ASSUME NEW t \in Thread, CutClose(t) \/ CutFreed(t) PROVE Shape'
  <2>1. struck' \in [Handle -> SUBSET Cuts]
    BY <1>19, CloseStrikes
  <2>2. pc' = [pc EXCEPT ![t] = "idle"]
    BY <1>19 DEF CutClose, CutFreed
  <2>3. UNCHANGED <<created, referenced, active, closed, rawClosed, freed, first, second, calls>>
    BY <1>19 DEF CutClose, CutFreed, Cut
  <2>4. QED
    BY <2>1, <2>2, <2>3
<1>20. ASSUME NEW h \in Handle, CutFinalizer(h) PROVE Shape'
  <2>1. struck' \in [Handle -> SUBSET Cuts]
    BY <1>20 DEF CutFinalizer, Strike, Cuts
  <2>2. QED
    BY <1>20, <2>1 DEF CutFinalizer
<1>21. CASE Finished \/ UNCHANGED vars
  BY <1>21 DEF Finished, vars
<1>22. QED
  BY <1>1, <1>2, <1>3, <1>4, <1>5, <1>6, <1>7, <1>8, <1>9, <1>10, <1>11, <1>12, <1>13,
     <1>14, <1>15, <1>16, <1>17, <1>18, <1>19, <1>20, <1>21, Zenon
     DEF Next, Step, CallIn, RawClosing

-----------------------------------------------------------------------------
(* GuardCounts: Begin, the closes and the frees enter and leave nothing. *)
LEMMA CountsStep ==
    ASSUME Shape, GuardCounts, [Next]_vars
    PROVE  GuardCounts'
<1> USE GuardAssumption DEF GuardAssumption, Goto, Spend, Return, guardVars, rawVars, argVars
<1> DEFINE Same == /\ active' = active
                   /\ \A k \in Handle : "count" \in struck'[k] <=> "count" \in struck[k]
                   /\ \A u \in Thread, k \in Handle : In(u, k)' <=> In(u, k)
<1>1. Same => GuardCounts'
  BY CountsKept
<1>2. ASSUME NEW t \in Thread, NEW h \in Handle, NEW g \in Handle \cup {NoHandle},
             Begin(t, h, g) \/ CloseAgain(t, h) \/ Close(t, h)
      PROVE  GuardCounts'
  <2>1. CASE Begin(t, h, g)
    BY <2>1, <1>1 DEF Begin, Shape, In
  <2>2. CASE CloseAgain(t, h)
    BY <2>2, <1>1 DEF CloseAgain, Shape, In
  <2>3. CASE Close(t, h)
    BY <2>3, <1>1 DEF Close, Shape, In, WaitsFor
  <2>4. QED
    BY <1>2, <2>1, <2>2, <2>3
<1>3. ASSUME NEW t \in Thread, EnterFirst(t) PROVE GuardCounts'
  <2>1. first[t] \in Handle /\ ~In(t, first[t]) /\ active \in [Handle -> Int]
    BY <1>3 DEF EnterFirst, Shape, In
  <2>2. \A u \in Thread, k \in Handle : In(u, k)' <=> In(u, k) \/ (u = t /\ k = first[t])
    BY <1>3 DEF EnterFirst, Shape, In
  <2>3. active' = [active EXCEPT ![first[t]] = @ + 1] /\ struck' = struck
    BY <1>3 DEF EnterFirst
  <2>4. QED
    BY <2>1, <2>2, <2>3, CountsEnter
<1>4. ASSUME NEW t \in Thread, EnterSecond(t) PROVE GuardCounts'
  <2>1. second[t] \in Handle /\ ~In(t, second[t]) /\ active \in [Handle -> Int]
    BY <1>4 DEF EnterSecond, Shape, In
  <2>2. \A u \in Thread, k \in Handle : In(u, k)' <=> In(u, k) \/ (u = t /\ k = second[t])
    BY <1>4 DEF EnterSecond, Shape, In
  <2>3. active' = [active EXCEPT ![second[t]] = @ + 1] /\ struck' = struck
    BY <1>4 DEF EnterSecond
  <2>4. QED
    BY <2>1, <2>2, <2>3, CountsEnter
<1>5. ASSUME NEW t \in Thread, LeaveSecond(t) PROVE GuardCounts'
  <2>1. second[t] \in Handle /\ In(t, second[t]) /\ active \in [Handle -> Int]
    BY <1>5 DEF LeaveSecond, Shape, In
  <2>2. \A u \in Thread, k \in Handle : In(u, k)' <=> In(u, k) /\ ~(u = t /\ k = second[t])
    BY <1>5 DEF LeaveSecond, NotifyAll, Shape, In
  <2>3. active' = [active EXCEPT ![second[t]] = @ - 1] /\ struck' = struck
    BY <1>5 DEF LeaveSecond
  <2>4. QED
    BY <2>1, <2>2, <2>3, CountsLeave
<1>6. ASSUME NEW t \in Thread, LeaveFirst(t) PROVE GuardCounts'
  <2>1. first[t] \in Handle /\ In(t, first[t]) /\ active \in [Handle -> Int]
    BY <1>6 DEF LeaveFirst, Shape, In
  <2>2. \A u \in Thread, k \in Handle : In(u, k)' <=> In(u, k) /\ ~(u = t /\ k = first[t])
    BY <1>6 DEF LeaveFirst, NotifyAll, Shape, In
  <2>3. active' = [active EXCEPT ![first[t]] = @ - 1] /\ struck' = struck
    BY <1>6 DEF LeaveFirst
  <2>4. QED
    BY <2>1, <2>2, <2>3, CountsLeave
<1>7. ASSUME NEW t \in Thread, RefuseFirst(t) \/ RefuseSecond(t) PROVE GuardCounts'
  BY <1>7, <1>1 DEF RefuseFirst, RefuseSecond, UnwindsTo, Shape, In
<1>8. ASSUME NEW t \in Thread, CallReturns(t) PROVE GuardCounts'
  BY <1>8, <1>1 DEF CallReturns, Shape, In
<1>9. ASSUME NEW t \in Thread, NEW h \in Handle, CallCreates(t, h) PROVE GuardCounts'
  BY <1>9, <1>1 DEF CallCreates, Shape, In
<1>10. ASSUME NEW t \in Thread,
              LookAgain(t) \/ RawFree(t) \/ RawFreeAgain(t) \/ RawFreed(t)
       PROVE  GuardCounts'
  <2>1. CASE LookAgain(t)
    BY <2>1, <1>1 DEF LookAgain, Shape, In
  <2>2. CASE RawFree(t) \/ RawFreeAgain(t)
    BY <2>2, <1>1 DEF RawFree, RawFreeAgain, Shape, In
  <2>3. CASE RawFreed(t)
    BY <2>3, <1>1 DEF RawFreed, Shape, In
  <2>4. QED
    BY <1>10, <2>1, <2>2, <2>3
<1>11. ASSUME NEW t \in Thread, CutBefore(t) PROVE GuardCounts'
  BY <1>11, <1>1 DEF CutBefore, Cut, Beyond, AtFirst, Shape, In
<1>12. ASSUME NEW t \in Thread, CutEntered(t) PROVE GuardCounts'
  <2>1. At(t) \in Handle /\ active \in [Handle -> Int] /\ struck \in [Handle -> SUBSET Cuts]
    BY <1>12, CutsCall DEF CutCall, Shape
  <2>2. \A u \in Thread, k \in Handle : In(u, k)' <=> In(u, k)
    BY <1>12 DEF CutEntered, Cut, Beyond, AtFirst, Shape, In
  <2>3. /\ active' = [active EXCEPT ![At(t)] = @ + 1]
        /\ struck' = [struck EXCEPT ![At(t)] = @ \cup {"count"}]
    BY <1>12 DEF CutEntered, Strike
  <2>4. QED
    BY <2>1, <2>2, <2>3, CountsCutEntry
<1>13. ASSUME NEW t \in Thread, CutLeaving(t) PROVE GuardCounts'
  <2>1. CASE pc[t] = "leave first"
    <3>1. At(t) = first[t] /\ pc' = [pc EXCEPT ![t] = "idle"] /\ first' = first /\ second' = second
      BY <1>13, <2>1 DEF CutLeaving, Cut, At, Beyond, AtFirst
    <3>2. first[t] \in Handle /\ In(t, first[t]) /\ active \in [Handle -> Int]
      BY <2>1 DEF Shape, In
    <3>3. \A u \in Thread, k \in Handle : In(u, k)' <=> In(u, k) /\ ~(u = t /\ k = first[t])
      BY <2>1, <3>1 DEF Shape, In
    <3>4. active' = active /\ struck' = [struck EXCEPT ![first[t]] = @ \cup {"count"}]
      BY <1>13, <3>1 DEF CutLeaving, Strike
    <3>5. /\ "count" \in struck'[first[t]]
          /\ \A k \in Handle : k # first[t] => struck'[k] = struck[k]
      BY <3>2, <3>4 DEF Shape
    <3>6. QED
      BY <3>2, <3>3, <3>4, <3>5, CountsCutExit
  <2>2. CASE pc[t] = "leave second"
    <3>1. At(t) = second[t] /\ pc' = [pc EXCEPT ![t] = "leave first"] /\ first' = first /\ second' = second
      BY <1>13, <2>2 DEF CutLeaving, Cut, At, Beyond, AtFirst
    <3>2. second[t] \in Handle /\ In(t, second[t]) /\ active \in [Handle -> Int]
      BY <2>2 DEF Shape, In
    <3>3. \A u \in Thread, k \in Handle : In(u, k)' <=> In(u, k) /\ ~(u = t /\ k = second[t])
      BY <2>2, <3>1 DEF Shape, In
    <3>4. active' = active /\ struck' = [struck EXCEPT ![second[t]] = @ \cup {"count"}]
      BY <1>13, <3>1 DEF CutLeaving, Strike
    <3>5. /\ "count" \in struck'[second[t]]
          /\ \A k \in Handle : k # second[t] => struck'[k] = struck[k]
      BY <3>2, <3>4 DEF Shape
    <3>6. QED
      BY <3>2, <3>3, <3>4, <3>5, CountsCutExit
  <2>3. QED
    BY <1>13, <2>1, <2>2 DEF CutLeaving
<1>14. ASSUME NEW t \in Thread, CutLeft(t) PROVE GuardCounts'
  <2>1. CASE pc[t] = "leave first"
    <3>1. At(t) = first[t] /\ pc' = [pc EXCEPT ![t] = "idle"] /\ first' = first /\ second' = second
      BY <1>14, <2>1 DEF CutLeft, Cut, At, Beyond, AtFirst
    <3>2. first[t] \in Handle /\ In(t, first[t]) /\ active \in [Handle -> Int]
      BY <2>1 DEF Shape, In
    <3>3. \A u \in Thread, k \in Handle : In(u, k)' <=> In(u, k) /\ ~(u = t /\ k = first[t])
      BY <2>1, <3>1 DEF Shape, In
    <3>4. /\ active' = [active EXCEPT ![first[t]] = @ - 1]
          /\ struck' = [struck EXCEPT ![first[t]] = @ \cup {"notify"}]
          /\ struck \in [Handle -> SUBSET Cuts]
      BY <1>14, <3>1 DEF CutLeft, Strike, Shape
    <3>5. \A k \in Handle : "count" \in struck'[k] <=> "count" \in struck[k]
      BY <3>2, <3>4, StruckOne
    <3>6. QED
      BY <3>2, <3>3, <3>4, <3>5, CountsLeave
  <2>2. CASE pc[t] = "leave second"
    <3>1. At(t) = second[t] /\ pc' = [pc EXCEPT ![t] = "leave first"] /\ first' = first /\ second' = second
      BY <1>14, <2>2 DEF CutLeft, Cut, At, Beyond, AtFirst
    <3>2. second[t] \in Handle /\ In(t, second[t]) /\ active \in [Handle -> Int]
      BY <2>2 DEF Shape, In
    <3>3. \A u \in Thread, k \in Handle : In(u, k)' <=> In(u, k) /\ ~(u = t /\ k = second[t])
      BY <2>2, <3>1 DEF Shape, In
    <3>4. /\ active' = [active EXCEPT ![second[t]] = @ - 1]
          /\ struck' = [struck EXCEPT ![second[t]] = @ \cup {"notify"}]
          /\ struck \in [Handle -> SUBSET Cuts]
      BY <1>14, <3>1 DEF CutLeft, Strike, Shape
    <3>5. \A k \in Handle : "count" \in struck'[k] <=> "count" \in struck[k]
      BY <3>2, <3>4, StruckOne
    <3>6. QED
      BY <3>2, <3>3, <3>4, <3>5, CountsLeave
  <2>3. QED
    BY <1>14, <2>1, <2>2 DEF CutLeft
<1>15. ASSUME NEW t \in Thread, CutClose(t) \/ CutFreed(t) PROVE GuardCounts'
  <2>1. \A k \in Handle : "count" \in struck'[k] <=> "count" \in struck[k]
    BY <1>15, CloseStrikes
  <2>2. QED
    BY <1>15, <2>1, <1>1 DEF CutClose, CutFreed, Cut, Shape, In
<1>16. ASSUME NEW h \in Handle, Forget(h) \/ Finalize(h) PROVE GuardCounts'
  BY <1>16, <1>1 DEF Forget, Finalize, In
<1>17. ASSUME NEW h \in Handle, CutFinalizer(h) PROVE GuardCounts'
  BY <1>17, <1>1 DEF CutFinalizer, Strike, Shape, In
<1>18. CASE Finished \/ UNCHANGED vars
  BY <1>18, <1>1 DEF Finished, vars, In
<1>19. QED
  BY <1>2, <1>3, <1>4, <1>5, <1>6, <1>7, <1>8, <1>9, <1>10, <1>11, <1>12, <1>13, <1>14,
     <1>15, <1>16, <1>17, <1>18, Zenon DEF Next, Step, CallIn, RawClosing, CutCall

(* OneCloser: the closed flag keeps a second closer out, and new calls out of
   what is being freed. *)

(* Nobody starts closing, no guard reopens, and what a closer frees is unused. *)
LEMMA CloserKept ==
    ASSUME Shape, OneCloser,
           \A k \in Handle : closed[k] => closed'[k],
           \A u \in Thread : pc'[u] \in Closing => pc[u] \in Closing /\ first'[u] = first[u],
           \A u \in Thread : pc'[u] \in {"free", "freed"} => active'[first'[u]] = 0
    PROVE  OneCloser'
<1>1. \A u \in Thread : pc[u] \in Closing => first[u] \in Handle
  BY DEF Shape, Closing
<1>2. ASSUME NEW t \in Thread, pc'[t] \in Closing
      PROVE  /\ closed'[first'[t]]
             /\ pc'[t] \in {"free", "freed"} => active'[first'[t]] = 0
  BY <1>1, <1>2 DEF OneCloser
<1>3. ASSUME NEW t \in Thread, pc'[t] \in Closing, NEW u \in Thread \ {t}, pc'[u] \in Closing
      PROVE  first'[u] # first'[t]
  <2>1. pc[t] \in Closing /\ pc[u] \in Closing /\ first'[t] = first[t] /\ first'[u] = first[u]
    BY <1>3
  <2>2. first[u] # first[t]
    BY <2>1, <1>3 DEF OneCloser
  <2>3. QED
    BY <2>1, <2>2
<1>4. QED
  BY <1>2, <1>3 DEF OneCloser

(* A closer's object is in its guard by no thread's count. *)
LEMMA CloserAlone ==
    ASSUME Shape, OneCloser, NEW u \in Thread, pc[u] \in {"free", "freed"}
    PROVE  closed[first[u]] /\ active[first[u]] = 0 /\ first[u] \in Handle
BY DEF Shape, OneCloser, Closing

(* Steps that move one thread out of or along a close, or no closer at all. *)
LEMMA CloserMoves ==
    ASSUME Shape, OneCloser, NEW t \in Thread, NEW label,
           pc' = [pc EXCEPT ![t] = label],
           label \notin Closing \/ (pc[t] \in Closing /\ first'[t] = first[t]),
           label \in {"free", "freed"} => active[first[t]] = 0,
           \A u \in Thread \ {t} : first'[u] = first[u],
           closed' = closed,
           active' = active
    PROVE  OneCloser'
<1>1. \A u \in Thread : pc'[u] = IF u = t THEN label ELSE pc[u]
  BY DEF Shape
<1>2. \A u \in Thread : pc'[u] \in Closing => pc[u] \in Closing /\ first'[u] = first[u]
  BY <1>1, Zenon
<1>3. \A u \in Thread : pc'[u] \in {"free", "freed"} => active'[first'[u]] = 0
  <2>1. {"free", "freed"} \subseteq Closing
    BY DEF Closing
  <2>2. \A u \in Thread : pc[u] \in {"free", "freed"} => active[first[u]] = 0
    BY CloserAlone
  <2>3. QED
    BY <1>1, <1>2, <2>1, <2>2, Zenon
<1>4. QED
  BY <1>2, <1>3, CloserKept

(* Steps that change the count of a guard some thread may enter or is in. *)
LEMMA CloserCounts ==
    ASSUME Shape, OneCloser, NEW h \in Handle,
           ~closed[h] \/ active[h] # 0,
           \A k \in Handle \ {h} : active'[k] = active[k],
           \A u \in Thread : pc'[u] \in Closing => pc[u] \in Closing,
           \A u \in Thread : pc'[u] \in {"free", "freed"} => pc'[u] = pc[u],
           first' = first, closed' = closed
    PROVE  OneCloser'
<1>1. \A u \in Thread : pc'[u] \in {"free", "freed"} => active'[first'[u]] = 0
  <2> SUFFICES ASSUME NEW u \in Thread, pc'[u] \in {"free", "freed"}
               PROVE  active'[first[u]] = 0
    OBVIOUS
  <2>1. closed[first[u]] /\ active[first[u]] = 0 /\ first[u] \in Handle
    BY CloserAlone
  <2>2. first[u] # h
    BY <2>1
  <2>3. QED
    BY <2>1, <2>2
<1>2. QED
  BY <1>1, CloserKept

LEMMA CloserStep ==
    ASSUME Shape, GuardCounts, OneCloser, [Next]_vars
    PROVE  OneCloser'
<1> USE DEF Goto, Spend, Return, guardVars, rawVars, argVars, Closing
<1>1. ASSUME NEW t \in Thread, NEW h \in Handle, NEW g \in Handle \cup {NoHandle}, Begin(t, h, g)
      PROVE  OneCloser'
  <2>1. \A u \in Thread \ {t} : first'[u] = first[u]
    BY <1>1 DEF Begin, Shape
  <2>2. QED
    BY <1>1, <2>1, CloserMoves DEF Begin
<1>2. ASSUME NEW t \in Thread, EnterFirst(t)
      PROVE  OneCloser'
  <2>1. first[t] \in Handle /\ ~closed[first[t]]
    BY <1>2 DEF EnterFirst, Admits, Shape
  <2>2. \A k \in Handle \ {first[t]} : active'[k] = active[k]
    BY <1>2 DEF EnterFirst, Shape
  <2>3. \A u \in Thread : pc'[u] \in Closing => pc'[u] = pc[u]
    BY <1>2 DEF EnterFirst, Shape
  <2>4. QED
    BY <1>2, <2>1, <2>2, <2>3, CloserCounts DEF EnterFirst
<1>3. ASSUME NEW t \in Thread, EnterSecond(t)
      PROVE  OneCloser'
  <2>1. second[t] \in Handle /\ ~closed[second[t]]
    BY <1>3 DEF EnterSecond, Admits, Shape
  <2>2. \A k \in Handle \ {second[t]} : active'[k] = active[k]
    BY <1>3 DEF EnterSecond, Shape
  <2>3. \A u \in Thread : pc'[u] \in Closing => pc'[u] = pc[u]
    BY <1>3 DEF EnterSecond, Shape
  <2>4. QED
    BY <1>3, <2>1, <2>2, <2>3, CloserCounts DEF EnterSecond
<1>4. ASSUME NEW t \in Thread, RefuseFirst(t) \/ RefuseSecond(t) \/ RawFreeAgain(t)
      PROVE  OneCloser'
  BY <1>4, CloserMoves DEF RefuseFirst, RefuseSecond, UnwindsTo, RawFreeAgain
<1>5. ASSUME NEW t \in Thread, CallReturns(t)
      PROVE  OneCloser'
  <2>1. (IF second[t] = NoHandle THEN "leave first" ELSE "leave second") \notin Closing
    OBVIOUS
  <2>2. QED
    BY <1>5, <2>1, CloserMoves DEF CallReturns
<1>6. ASSUME NEW t \in Thread, NEW h \in Handle, CallCreates(t, h)
      PROVE  OneCloser'
  BY <1>6, CloserMoves DEF CallCreates
<1>7. ASSUME NEW t \in Thread, LeaveSecond(t)
      PROVE  OneCloser'
  <2>1. second[t] \in Handle /\ active[second[t]] # 0
    <3>1. second[t] \in Handle /\ In(t, second[t])
      BY <1>7 DEF LeaveSecond, In, Shape
    <3>2. active[second[t]] \in Nat \ {0}
      BY <3>1, InsideCounts DEF Shape
    <3>3. QED
      BY <3>1, <3>2
  <2>2. \A k \in Handle \ {second[t]} : active'[k] = active[k]
    BY <1>7 DEF LeaveSecond, Shape
  <2>3. \A u \in Thread : /\ pc'[u] \in Closing => pc[u] \in Closing
                          /\ pc'[u] \in {"free", "freed"} => pc'[u] = pc[u]
    BY <1>7 DEF LeaveSecond, NotifyAll
  <2>4. QED
    BY <1>7, <2>1, <2>2, <2>3, CloserCounts DEF LeaveSecond
<1>8. ASSUME NEW t \in Thread, LeaveFirst(t)
      PROVE  OneCloser'
  <2>1. first[t] \in Handle /\ active[first[t]] # 0
    <3>1. first[t] \in Handle /\ In(t, first[t])
      BY <1>8 DEF LeaveFirst, In, Shape
    <3>2. active[first[t]] \in Nat \ {0}
      BY <3>1, InsideCounts DEF Shape
    <3>3. QED
      BY <3>1, <3>2
  <2>2. \A k \in Handle \ {first[t]} : active'[k] = active[k]
    BY <1>8 DEF LeaveFirst, Shape
  <2>3. \A u \in Thread : /\ pc'[u] \in Closing => pc[u] \in Closing
                          /\ pc'[u] \in {"free", "freed"} => pc'[u] = pc[u]
    BY <1>8 DEF LeaveFirst, NotifyAll
  <2>4. QED
    BY <1>8, <2>1, <2>2, <2>3, CloserCounts DEF LeaveFirst
<1>9. ASSUME NEW t \in Thread, NEW h \in Handle, Close(t, h)
      PROVE  OneCloser'
  <2>1. /\ closed' = [closed EXCEPT ![h] = TRUE] /\ ~closed[h]
        /\ first' = [first EXCEPT ![t] = h]
        /\ pc' = [pc EXCEPT ![t] = WaitsFor(h)] /\ pc[t] = "idle"
        /\ active' = active
    BY <1>9 DEF Close
  <2>2. \A u \in Thread \ {t} : pc'[u] = pc[u] /\ first'[u] = first[u]
    BY <2>1 DEF Shape
  <2>3. pc'[t] = WaitsFor(h) /\ first'[t] = h
    BY <2>1 DEF Shape
  <2>4. closed'[h] /\ \A k \in Handle : closed[k] => closed'[k]
    BY <2>1 DEF Shape
  <2>5. WaitsFor(h) \in {"free", "freed"} => active[h] = 0
    BY DEF WaitsFor
  <2>6. \A u \in Thread : pc[u] \in Closing => first[u] \in Handle /\ closed[first[u]]
    BY DEF Shape, OneCloser
  <2> HIDE DEF Closing
  <2>7. ASSUME NEW u \in Thread \ {t}, pc'[u] \in Closing PROVE first'[u] # h
    BY <2>7, <2>1, <2>2, <2>6
  <2>8. ASSUME NEW u \in Thread, pc'[u] \in Closing
        PROVE  closed'[first'[u]] /\ (pc'[u] \in {"free", "freed"} => active'[first'[u]] = 0)
    <3>1. CASE u = t
      BY <3>1, <2>1, <2>3, <2>4, <2>5
    <3>2. CASE u # t
      BY <3>2, <2>8, <2>1, <2>2, <2>4, <2>6 DEF OneCloser
    <3>3. QED
      BY <3>1, <3>2
  <2>9. ASSUME NEW u \in Thread, pc'[u] \in Closing, NEW w \in Thread \ {u}, pc'[w] \in Closing
        PROVE  first'[w] # first'[u]
    BY <2>9, <2>2, <2>3, <2>7 DEF OneCloser
  <2>10. QED
    BY <2>8, <2>9 DEF OneCloser
<1>10. ASSUME NEW t \in Thread, LookAgain(t)
      PROVE  OneCloser'
  <2>1. (IF active[first[t]] = 0 THEN "free" ELSE "waiting") \in {"free", "freed"} => active[first[t]] = 0
    OBVIOUS
  <2>2. QED
    BY <1>10, <2>1, CloserMoves DEF LookAgain
<1>11. ASSUME NEW t \in Thread, RawFree(t)
      PROVE  OneCloser'
  <2>1. active[first[t]] = 0
    BY <1>11, CloserAlone DEF RawFree
  <2>2. QED
    BY <1>11, <2>1, CloserMoves DEF RawFree
<1>12. ASSUME NEW t \in Thread, RawFreed(t)
      PROVE  OneCloser'
  BY <1>12, CloserMoves DEF RawFreed
<1>13. ASSUME NEW t \in Thread, NEW h \in Handle, CloseAgain(t, h)
      PROVE  OneCloser'
  BY <1>13, Zenon DEF CloseAgain, OneCloser
<1>14. ASSUME NEW h \in Handle, Forget(h) \/ Finalize(h)
      PROVE  OneCloser'
  BY <1>14, Zenon DEF Forget, Finalize, OneCloser
<1>15. ASSUME NEW t \in Thread, CutCall(t)
      PROVE  OneCloser'
  <2>1. /\ At(t) \in Handle /\ pc' = [pc EXCEPT ![t] = Beyond(t)]
        /\ first' = first /\ closed' = closed /\ Beyond(t) \notin Closing
    BY <1>15, CutsCall
  <2>2. CASE active' = active
    BY <2>1, <2>2, CloserMoves
  <2>3. CASE active' # active
    <3>1. ~closed[At(t)] \/ active[At(t)] # 0
      <4>1. CutEntered(t) \/ CutLeft(t)
        BY <1>15, <2>3, Zenon DEF CutCall, CutBefore, CutLeaving
      <4>2. CutEntered(t) => ~closed[At(t)]
        BY Zenon DEF CutEntered, Admits
      <4>3. CutLeft(t) => active[At(t)] # 0
        <5>1. CutLeft(t) => active[At(t)] = 1
          BY DEF CutLeft
        <5>2. QED
          BY <5>1
      <4>4. QED
        BY <4>1, <4>2, <4>3
    <3>2. \A k \in Handle \ {At(t)} : active'[k] = active[k]
      BY <1>15, <2>3 DEF CutCall, CutBefore, CutEntered, CutLeaving, CutLeft, Shape
    <3>3. \A u \in Thread : /\ pc'[u] \in Closing => pc[u] \in Closing
                            /\ pc'[u] \in {"free", "freed"} => pc'[u] = pc[u]
      BY <2>1 DEF Shape
    <3>4. QED
      BY <2>1, <3>1, <3>2, <3>3, CloserCounts
  <2>4. QED
    BY <2>2, <2>3
<1>16. ASSUME NEW t \in Thread, CutClose(t) \/ CutFreed(t)
      PROVE  OneCloser'
  BY <1>16, CloserMoves DEF CutClose, CutFreed, Cut
<1>17. ASSUME NEW h \in Handle, CutFinalizer(h)
      PROVE  OneCloser'
  BY <1>17, Zenon DEF CutFinalizer, OneCloser
<1>18. CASE Finished \/ UNCHANGED vars
  BY <1>18, Zenon DEF Finished, vars, OneCloser
<1>19. QED
  BY <1>1, <1>2, <1>3, <1>4, <1>5, <1>6, <1>7, <1>8, <1>9, <1>10, <1>11, <1>12, <1>13,
     <1>14, <1>15, <1>16, <1>17, <1>18, Zenon DEF Next, Step, CallIn, RawClosing


(* FreedExactly, with the moment between free and flag named. *)
Freeing(h) == \E t \in Thread : pc[t] = "freed" /\ first[t] = h

ExactlyIn ==
    \A h \in Handle :
        IF "flag" \in struck[h]
        THEN /\ freed[h] = IF rawClosed[h] THEN 2 ELSE 1
             /\ closed[h]
             /\ \A t \in Thread : pc[t] \in Closing => first[t] # h
        ELSE /\ freed[h] = IF rawClosed[h] \/ Freeing(h) THEN 1 ELSE 0
             /\ ~(rawClosed[h] /\ Freeing(h))

(* FreedExactly: the one closer and the finalizer exclude each other, because a
   closer's frame refers to the object. *)
LEMMA ExactlyStep ==
    ASSUME Shape, OneCloser, ExactlyIn, [Next]_vars
    PROVE  ExactlyIn'
<1> USE GuardAssumption DEF GuardAssumption, Goto, Spend, Return, guardVars, rawVars, argVars, Shape, ExactlyIn, Closing
<1>1. ASSUME NEW t \in Thread, NEW h \in Handle, NEW g \in Handle \cup {NoHandle}, Begin(t, h, g)
      PROVE  ExactlyIn'
  BY <1>1 DEF Begin, Freeing
<1>2. ASSUME NEW t \in Thread, EnterFirst(t)
      PROVE  ExactlyIn'
  BY <1>2 DEF EnterFirst, Admits, Freeing
<1>3. ASSUME NEW t \in Thread, RefuseFirst(t)
      PROVE  ExactlyIn'
  BY <1>3 DEF RefuseFirst, Freeing
<1>4. ASSUME NEW t \in Thread, EnterSecond(t)
      PROVE  ExactlyIn'
  BY <1>4 DEF EnterSecond, Admits, Freeing
<1>5. ASSUME NEW t \in Thread, RefuseSecond(t)
      PROVE  ExactlyIn'
  BY <1>5 DEF RefuseSecond, UnwindsTo, Freeing
<1>6. ASSUME NEW t \in Thread, CallReturns(t)
      PROVE  ExactlyIn'
  BY <1>6 DEF CallReturns, Freeing
<1>7. ASSUME NEW t \in Thread, NEW h \in Handle, CallCreates(t, h)
      PROVE  ExactlyIn'
  BY <1>7 DEF CallCreates, Freeing
<1>8. ASSUME NEW t \in Thread, LeaveSecond(t)
      PROVE  ExactlyIn'
  BY <1>8 DEF LeaveSecond, NotifyAll, Freeing
<1>9. ASSUME NEW t \in Thread, LeaveFirst(t)
      PROVE  ExactlyIn'
  BY <1>9 DEF LeaveFirst, NotifyAll, Freeing
<1>10. ASSUME NEW t \in Thread, NEW h \in Handle, CloseAgain(t, h)
      PROVE  ExactlyIn'
  BY <1>10 DEF CloseAgain, Freeing
<1>11. ASSUME NEW t \in Thread, NEW h \in Handle, Close(t, h)
      PROVE  ExactlyIn'
  BY <1>11 DEF Close, WaitsFor, Freeing
<1>12. ASSUME NEW t \in Thread, LookAgain(t)
      PROVE  ExactlyIn'
  BY <1>12 DEF LookAgain, Freeing
<1>13. ASSUME NEW t \in Thread, RawFree(t)
      PROVE  ExactlyIn'
  <2>1. /\ first[t] \in Handle /\ pc[t] = "free" /\ ~rawClosed[first[t]]
        /\ \A u \in Thread : pc[u] = "freed" => first[u] # first[t]
        /\ "flag" \notin struck[first[t]]
    BY <1>13 DEF RawFree, OneCloser
  <2>2. /\ freed[first[t]] = 0
        /\ freed' = [freed EXCEPT ![first[t]] = @ + 1]
        /\ pc' = [pc EXCEPT ![t] = "freed"]
        /\ UNCHANGED <<first, rawClosed, closed, struck>>
    BY <1>13, <2>1 DEF RawFree, Freeing
  <2>3. freed'[first[t]] = 1 /\ \A k \in Handle : k # first[t] => freed'[k] = freed[k]
    <3>1. freed \in [Handle -> Nat] /\ first[t] \in Handle
      BY <2>1
    <3>2. QED
      BY ONLY <3>1, <2>2, CountedOnce
  <2>4. ASSUME NEW k \in Handle
        PROVE  Freeing(k)' <=> (Freeing(k) \/ k = first[t])
    BY <2>1, <2>2 DEF Freeing
  <2>5. ASSUME NEW k \in Handle
        PROVE  IF "flag" \in struck[k]
               THEN /\ freed'[k] = IF rawClosed[k] THEN 2 ELSE 1
                    /\ closed[k]
                    /\ \A u \in Thread : pc'[u] \in Closing => first[u] # k
               ELSE /\ freed'[k] = IF rawClosed[k] \/ Freeing(k)' THEN 1 ELSE 0
                    /\ ~(rawClosed[k] /\ Freeing(k)')
    <3>1. CASE k = first[t]
      BY <2>1, <2>3, <2>4, <3>1
    <3>2. CASE k # first[t]
      <4>1. \A u \in Thread : pc'[u] \in Closing /\ first[u] = k => pc[u] \in Closing
        BY <2>1, <2>2, <3>2
      <4>2. Freeing(k)' <=> Freeing(k)
        BY <2>4, <3>2
      <4>3. QED
        BY <2>3, <3>2, <4>1, <4>2
    <3>3. QED
      BY <3>1, <3>2
  <2>6. QED
    BY <2>2, <2>5, ZenonT(30)
<1>14. ASSUME NEW t \in Thread, RawFreeAgain(t)
      PROVE  ExactlyIn'
  BY <1>14 DEF RawFreeAgain, Freeing
<1>15. ASSUME NEW t \in Thread, RawFreed(t)
      PROVE  ExactlyIn'
  <2>1. /\ first[t] \in Handle /\ pc[t] = "freed"
        /\ \A u \in Thread \ {t} : pc[u] \in Closing => first[u] # first[t]
    BY <1>15 DEF RawFreed, OneCloser
  <2>2. /\ rawClosed' = [rawClosed EXCEPT ![first[t]] = TRUE]
        /\ pc' = [pc EXCEPT ![t] = "idle"]
        /\ UNCHANGED <<closed, freed, first, struck>>
    BY <1>15 DEF RawFreed
  <2>3. "flag" \notin struck[first[t]] /\ freed[first[t]] = 1
    <3>1. Freeing(first[t])
      BY <2>1 DEF Freeing
    <3>2. QED
      BY <2>1, <3>1
  <2>4. \A u \in Thread : /\ pc'[u] \in Closing => pc[u] \in Closing
                          /\ pc'[u] = "freed" <=> pc[u] = "freed" /\ u # t
    BY <2>2
  <2>5. ASSUME NEW k \in Handle
        PROVE  IF "flag" \in struck[k]
               THEN /\ freed[k] = IF rawClosed'[k] THEN 2 ELSE 1
                    /\ closed[k]
                    /\ \A u \in Thread : pc'[u] \in Closing => first[u] # k
               ELSE /\ freed[k] = IF rawClosed'[k] \/ Freeing(k)' THEN 1 ELSE 0
                    /\ ~(rawClosed'[k] /\ Freeing(k)')
    <3>1. CASE k = first[t]
      <4>1. ~Freeing(k)'
        BY <2>1, <2>2, <2>4, <3>1 DEF Freeing
      <4>2. rawClosed'[k]
        BY <2>1, <2>2, <3>1
      <4>3. QED
        BY <2>3, <3>1, <4>1, <4>2
    <3>2. CASE k # first[t]
      <4>1. Freeing(k)' <=> Freeing(k)
        <5>1. \A u \in Thread : pc'[u] = "freed" /\ first'[u] = k <=> pc[u] = "freed" /\ first[u] = k
          BY <2>2, <2>4, <3>2
        <5>2. QED
          BY <5>1, Zenon DEF Freeing
      <4>2. rawClosed'[k] <=> rawClosed[k]
        BY <2>2, <3>2
      <4>3. QED
        BY <2>4, <4>1, <4>2
    <3>3. QED
      BY <3>1, <3>2
  <2>6. QED
    BY <2>2, <2>5
<1>16. ASSUME NEW t \in Thread, CutCall(t)
      PROVE  ExactlyIn'
  <2>1. \A k \in Handle : "flag" \in struck'[k] <=> "flag" \in struck[k]
    BY <1>16, CutStrikes
  <2>2. /\ UNCHANGED <<closed, rawClosed, freed, first>>
        /\ pc' = [pc EXCEPT ![t] = Beyond(t)] /\ Beyond(t) \in {"idle", "leave first"}
    BY <1>16, CutsCall
  <2>3. pc[t] \notin Closing
    BY <1>16 DEF CutCall, CutBefore, CutEntered, CutLeaving, CutLeft
  <2>4. \A k \in Handle : Freeing(k)' <=> Freeing(k)
    BY <2>2, <2>3 DEF Freeing
  <2>5. QED
    BY <2>1, <2>2, <2>4
<1>17. ASSUME NEW h \in Handle, Forget(h)
      PROVE  ExactlyIn'
  BY <1>17 DEF Forget, Freeing
<1>18. ASSUME NEW h \in Handle, Finalize(h)
      PROVE  ExactlyIn'
  <2>1. ~rawClosed[h] /\ \A u \in Thread : pc[u] = "freed" => first[u] # h
    BY <1>18, RefersTo DEF Finalize, Finalizable, Unreachable
  <2>2. /\ freed[h] = IF "flag" \in struck[h] THEN 1 ELSE 0
        /\ freed' = [freed EXCEPT ![h] = @ + 1]
        /\ rawClosed' = [rawClosed EXCEPT ![h] = TRUE]
        /\ UNCHANGED <<pc, first, closed, struck>>
    BY <1>18, <2>1 DEF Finalize, Freeing
  <2>3. freed'[h] = freed[h] + 1 /\ \A k \in Handle : k # h => freed'[k] = freed[k]
    <3>1. freed \in [Handle -> Nat] /\ h \in Handle
      BY <2>1
    <3>2. QED
      BY ONLY <3>1, <2>2, CountedOnce
  <2>4. ASSUME NEW k \in Handle
        PROVE  /\ Freeing(k)' <=> Freeing(k)
               /\ rawClosed'[k] <=> (rawClosed[k] \/ k = h)
    BY <2>2 DEF Freeing
  <2>5. ASSUME NEW k \in Handle
        PROVE  IF "flag" \in struck[k]
               THEN /\ freed'[k] = IF rawClosed'[k] THEN 2 ELSE 1
                    /\ closed[k]
                    /\ \A u \in Thread : pc[u] \in Closing => first[u] # k
               ELSE /\ freed'[k] = IF rawClosed'[k] \/ Freeing(k)' THEN 1 ELSE 0
                    /\ ~(rawClosed'[k] /\ Freeing(k)')
    <3>1. CASE k = h
      <4>1. ~rawClosed[h] /\ ~Freeing(h)
        BY <2>1 DEF Freeing
      <4>2. rawClosed'[h] /\ freed'[h] = IF "flag" \in struck[h] THEN 2 ELSE 1
        <5>1. rawClosed'[h]
          BY <2>4
        <5>2. freed'[h] = freed[h] + 1
          BY <2>3
        <5>3. freed[h] = IF "flag" \in struck[h] THEN 1 ELSE 0
          BY <2>2
        <5>4. QED
          BY ONLY <5>1, <5>2, <5>3
      <4>3. "flag" \in struck[h] => /\ closed[h]
                                    /\ \A u \in Thread : pc[u] \in Closing => first[u] # h
        OBVIOUS
      <4>4. ~Freeing(h)'
        BY <2>4, <4>1
      <4>5. QED
        BY <3>1, <4>2, <4>3, <4>4
    <3>2. CASE k # h
      BY <2>3, <2>4, <3>2
    <3>3. QED
      BY <3>1, <3>2
  <2>6. QED
    BY <2>2, <2>5
<1>19. ASSUME NEW t \in Thread, CutClose(t)
      PROVE  ExactlyIn'
  BY <1>19 DEF CutClose, Cut, Freeing
<1>20. ASSUME NEW t \in Thread, CutFreed(t)
      PROVE  ExactlyIn'
  <2>1. /\ first[t] \in Handle /\ pc[t] = "freed" /\ closed[first[t]]
        /\ \A u \in Thread \ {t} : pc[u] \in Closing => first[u] # first[t]
    BY <1>20 DEF CutFreed, OneCloser
  <2>2. "flag" \notin struck[first[t]]
    BY <2>1
  <2>3. freed[first[t]] = 1 /\ ~rawClosed[first[t]]
    <3>1. Freeing(first[t])
      BY <2>1 DEF Freeing
    <3>2. QED
      BY <2>1, <2>2, <3>1
  <2>4. /\ struck' = [struck EXCEPT ![first[t]] = @ \cup {"flag"}]
        /\ pc' = [pc EXCEPT ![t] = "idle"]
        /\ UNCHANGED <<closed, rawClosed, freed, first>>
    BY <1>20 DEF CutFreed, Cut, Strike
  <2>5. ASSUME NEW k \in Handle, k # first[t]
        PROVE  Freeing(k)' <=> Freeing(k)
    <3>1. \A u \in Thread : pc'[u] = "freed" /\ first'[u] = k <=> pc[u] = "freed" /\ first[u] = k
      BY <2>1, <2>4, <2>5
    <3>2. QED
      BY <3>1, Zenon DEF Freeing
  <2>6. \A k \in Handle : "flag" \in struck'[k] <=> "flag" \in struck[k] \/ k = first[t]
    BY <2>1, <2>4, StruckOne
  <2>7. \A u \in Thread : pc'[u] \in Closing => pc[u] \in Closing /\ u # t
    BY <2>4
  <2>8. ASSUME NEW k \in Handle
        PROVE  IF "flag" \in struck'[k]
               THEN /\ freed[k] = IF rawClosed[k] THEN 2 ELSE 1
                    /\ closed[k]
                    /\ \A u \in Thread : pc'[u] \in Closing => first[u] # k
               ELSE /\ freed[k] = IF rawClosed[k] \/ Freeing(k)' THEN 1 ELSE 0
                    /\ ~(rawClosed[k] /\ Freeing(k)')
    <3>1. CASE k = first[t]
      <4>1. \A u \in Thread : pc'[u] \in Closing => first[u] # k
        BY <2>1, <2>7, <3>1
      <4>2. QED
        BY <2>1, <2>3, <2>6, <3>1, <4>1
    <3>2. CASE k # first[t]
      <4>1. Freeing(k)' <=> Freeing(k)
        BY <2>5, <3>2
      <4>2. "flag" \in struck'[k] <=> "flag" \in struck[k]
        BY <2>6, <3>2
      <4>3. QED
        BY <2>7, <4>1, <4>2
    <3>3. QED
      BY <3>1, <3>2
  <2>9. QED
    BY <2>4, <2>8
<1>21. ASSUME NEW h \in Handle, CutFinalizer(h)
      PROVE  ExactlyIn'
  BY <1>21 DEF CutFinalizer, Strike, Freeing
<1>22. CASE Finished \/ UNCHANGED vars
  <2>1. UNCHANGED <<closed, rawClosed, freed, pc, first, struck>>
    BY <1>22 DEF Finished, vars
  <2>2. \A h \in Handle : Freeing(h)' <=> Freeing(h)
    BY <2>1 DEF Freeing
  <2>3. QED
    BY <2>1, <2>2
<1>23. QED
  BY <1>1, <1>2, <1>3, <1>4, <1>5, <1>6, <1>7, <1>8, <1>9, <1>10, <1>11, <1>12, <1>13,
     <1>14, <1>15, <1>16, <1>17, <1>18, <1>19, <1>20, <1>21, <1>22, Zenon
     DEF Next, Step, CallIn, RawClosing


(* FreedUnused, with Refers spelled out. *)
UnusedIn ==
    \A h \in Handle : freed[h] > 0 =>
        /\ h \in created
        /\ \A t \in Thread : ~In(t, h)
        /\ \/ closed[h]
           \/ h \notin referenced /\ \A t \in Thread : pc[t] # "idle" => first[t] # h /\ second[t] # h

LEMMA UnusedRefers == FreedUnused <=> UnusedIn
BY InsideIn, RefersTo DEF FreedUnused, UnusedIn

(* FreedUnused: the object that is freed is one nobody is in or can get into. *)
LEMMA UnusedStep ==
    ASSUME Shape, GuardCounts, OneCloser, ExactlyIn, UnusedIn, [Next]_vars
    PROVE  UnusedIn'
<1> USE GuardAssumption DEF GuardAssumption, In, Goto, Spend, Return, guardVars, rawVars, argVars, Shape, UnusedIn
<1>1. ASSUME NEW t \in Thread, NEW h \in Handle, NEW g \in Handle \cup {NoHandle}, Begin(t, h, g)
      PROVE  UnusedIn'
  BY <1>1, ZenonT(30) DEF Begin
<1>2. ASSUME NEW t \in Thread, EnterFirst(t)
      PROVE  UnusedIn'
  BY <1>2 DEF EnterFirst, Admits
<1>3. ASSUME NEW t \in Thread, RefuseFirst(t)
      PROVE  UnusedIn'
  BY <1>3 DEF RefuseFirst
<1>4. ASSUME NEW t \in Thread, EnterSecond(t)
      PROVE  UnusedIn'
  BY <1>4 DEF EnterSecond, Admits
<1>5. ASSUME NEW t \in Thread, RefuseSecond(t)
      PROVE  UnusedIn'
  BY <1>5 DEF RefuseSecond, UnwindsTo
<1>6. ASSUME NEW t \in Thread, CallReturns(t)
      PROVE  UnusedIn'
  BY <1>6 DEF CallReturns
<1>7. ASSUME NEW t \in Thread, NEW h \in Handle, CallCreates(t, h)
      PROVE  UnusedIn'
  BY <1>7 DEF CallCreates
<1>8. ASSUME NEW t \in Thread, LeaveSecond(t)
      PROVE  UnusedIn'
  BY <1>8 DEF LeaveSecond, NotifyAll
<1>9. ASSUME NEW t \in Thread, LeaveFirst(t)
      PROVE  UnusedIn'
  BY <1>9 DEF LeaveFirst, NotifyAll
<1>10. ASSUME NEW t \in Thread, NEW h \in Handle, CloseAgain(t, h)
      PROVE  UnusedIn'
  BY <1>10 DEF CloseAgain
<1>11. ASSUME NEW t \in Thread, NEW h \in Handle, Close(t, h)
      PROVE  UnusedIn'
  BY <1>11 DEF Close, WaitsFor
<1>12. ASSUME NEW t \in Thread, LookAgain(t)
      PROVE  UnusedIn'
  BY <1>12 DEF LookAgain
<1>13. ASSUME NEW t \in Thread, RawFree(t)
      PROVE  UnusedIn'
  <2>1. /\ first[t] \in Handle /\ first[t] \in created
        /\ closed[first[t]] /\ \A u \in Thread : ~In(u, first[t])
    <3>1. first[t] \in Handle /\ first[t] \in created /\ active[first[t]] = 0 /\ closed[first[t]]
      BY <1>13 DEF RawFree, OneCloser, Closing
    <3>2. \A u \in Thread : ~In(u, first[t])
      BY <3>1, InsideCounts DEF Shape
    <3>3. QED
      BY <3>1, <3>2
  <2>2. /\ freed' = [freed EXCEPT ![first[t]] = @ + 1]
        /\ pc' = [pc EXCEPT ![t] = "freed"]
        /\ UNCHANGED <<created, referenced, active, closed, first, second>>
    BY <1>13 DEF RawFree
  <2>3. \A k \in Handle : k # first[t] => freed'[k] = freed[k]
    BY <2>1, <2>2
  <2>4. \A u \in Thread : /\ pc'[u] # "idle" <=> pc[u] # "idle"
                          /\ \A k \in Handle : In(u, k)' <=> In(u, k)
    <3>1. pc[t] = "free"
      BY <1>13 DEF RawFree
    <3>2. pc'[t] = "freed" /\ \A u \in Thread : u # t => pc'[u] = pc[u]
      BY <2>2
    <3>3. QED
      BY <2>2, <3>1, <3>2
  <2>5. ASSUME NEW k \in Handle, k # first[t], freed'[k] > 0
        PROVE  /\ k \in created /\ \A u \in Thread : ~In(u, k)
               /\ closed[k] \/ (k \notin referenced /\ \A u \in Thread :
                                    pc[u] # "idle" => first[u] # k /\ second[u] # k)
    <3>1. freed[k] > 0
      BY <2>3, <2>5
    <3>2. QED
      BY <3>1 DEF UnusedIn
  <2>6. ASSUME NEW k \in Handle, freed'[k] > 0
        PROVE  /\ k \in created' /\ \A u \in Thread : ~In(u, k)'
               /\ closed'[k] \/ (k \notin referenced' /\ \A u \in Thread :
                                    pc'[u] # "idle" => first'[u] # k /\ second'[u] # k)
    <3>1. CASE k = first[t]
      BY <2>1, <2>2, <2>4, <3>1, ZenonT(30)
    <3>2. CASE k # first[t]
      <4>1. /\ k \in created /\ \A u \in Thread : ~In(u, k)
            /\ closed[k] \/ (k \notin referenced /\ \A u \in Thread :
                                 pc[u] # "idle" => first[u] # k /\ second[u] # k)
        BY <2>5, <2>6, <3>2
      <4>2. \A u \in Thread : ~In(u, k)'
        BY <2>4, <4>1, ZenonT(30)
      <4>3. \A u \in Thread : pc'[u] # "idle" => pc[u] # "idle"
        BY <2>4
      <4>4. QED
        BY ONLY <2>2, <4>1, <4>2, <4>3
    <3>3. QED
      BY <3>1, <3>2
  <2>7. QED
    BY <2>6
<1>14. ASSUME NEW t \in Thread, RawFreeAgain(t)
      PROVE  UnusedIn'
  BY <1>14 DEF RawFreeAgain
<1>15. ASSUME NEW t \in Thread, RawFreed(t)
      PROVE  UnusedIn'
  BY <1>15 DEF RawFreed
<1>16. ASSUME NEW t \in Thread, CutCall(t)
      PROVE  UnusedIn'
  <2>1. /\ UNCHANGED <<created, referenced, closed, freed, first, second>>
        /\ pc' = [pc EXCEPT ![t] = Beyond(t)] /\ Beyond(t) \in {"idle", "leave first"}
    BY <1>16, CutsCall
  <2>2. pc[t] # "idle" /\ \A k \in Handle : In(t, k)' => In(t, k)
    BY <1>16, <2>1 DEF CutCall, CutBefore, CutEntered, CutLeaving, CutLeft, Beyond, AtFirst
  <2>3. \A u \in Thread : pc'[u] # "idle" => pc[u] # "idle"
    BY <2>1, <2>2
  <2>4. \A u \in Thread, k \in Handle : In(u, k)' => In(u, k)
    BY <2>1, <2>2
  <2>5. QED
    BY <2>1, <2>3, <2>4
<1>17. ASSUME NEW h \in Handle, Forget(h)
      PROVE  UnusedIn'
  BY <1>17 DEF Forget
<1>18. ASSUME NEW h \in Handle, Finalize(h)
      PROVE  UnusedIn'
  <2>1. \A u \in Thread : pc[u] # "idle" => first[u] # h /\ second[u] # h
    BY <1>18, RefersTo DEF Finalize, Finalizable, Unreachable
  <2>2. \A u \in Thread : ~In(u, h)
    BY <2>1
  <2>3. QED
    BY <1>18, <2>1, <2>2 DEF Finalize, Finalizable, Unreachable
<1>19. ASSUME NEW t \in Thread, CutClose(t) \/ CutFreed(t)
      PROVE  UnusedIn'
  <2>1. CASE CutClose(t)
    BY <2>1 DEF CutClose, Cut
  <2>2. CASE CutFreed(t)
    BY <2>2 DEF CutFreed, Cut
  <2>3. QED
    BY <1>19, <2>1, <2>2
<1>20. ASSUME NEW h \in Handle, CutFinalizer(h)
      PROVE  UnusedIn'
  BY <1>20 DEF CutFinalizer
<1>21. CASE Finished \/ UNCHANGED vars
  BY <1>21 DEF Finished, vars
<1>22. QED
  BY <1>1, <1>2, <1>3, <1>4, <1>5, <1>6, <1>7, <1>8, <1>9, <1>10, <1>11, <1>12, <1>13,
     <1>14, <1>15, <1>16, <1>17, <1>18, <1>19, <1>20, <1>21, Zenon
     DEF Next, Step, CallIn, RawClosing

-----------------------------------------------------------------------------
LEMMA GuardInit == Init => GuardState
<1> SUFFICES ASSUME Init PROVE GuardState
  OBVIOUS
<1> USE GuardAssumption DEF GuardAssumption
<1>1. Shape
  BY ShapeInit
<1>2. \A t \in Thread, h \in Handle : ~In(t, h)
  BY DEF Init, In
<1>3. \A h \in Handle : Agrees(active[h], struck[h], Cardinality({u \in Thread : In(u, h)}))
  <2>1. \A h \in Handle : {u \in Thread : In(u, h)} = {}
    BY <1>2
  <2>2. QED
    BY <2>1, FS_EmptySet DEF Init, Agrees
<1>4. OneCloser /\ ExactlyIn /\ UnusedIn
  BY DEF Init, OneCloser, ExactlyIn, Freeing, UnusedIn, Closing
<1>5. FreedExactly
  BY <1>4 DEF ExactlyIn, FreedExactly, Freeing
<1>6. QED
  BY <1>1, <1>3, <1>4, <1>5, CountsIn, UnusedRefers DEF GuardState, GuardInv

LEMMA ExactlyNamed == FreedExactly <=> ExactlyIn
BY DEF FreedExactly, ExactlyIn, Freeing

LEMMA GuardStep == GuardState /\ [Next]_vars => GuardState'
<1> SUFFICES ASSUME GuardState, [Next]_vars PROVE GuardState'
  OBVIOUS
<1>1. Shape /\ GuardCounts /\ OneCloser /\ ExactlyIn /\ UnusedIn
  BY ExactlyNamed, UnusedRefers DEF GuardState, GuardInv
<1>2. Shape' /\ GuardCounts' /\ OneCloser' /\ ExactlyIn' /\ UnusedIn'
  BY <1>1, ShapeStep, CountsStep, CloserStep, ExactlyStep, UnusedStep
<1>3. (FreedExactly <=> ExactlyIn)'
  BY ExactlyNamed, PTL
<1>4. (FreedUnused <=> UnusedIn)'
  BY UnusedRefers, PTL
<1>5. QED
  BY <1>2, <1>3, <1>4 DEF GuardState, GuardInv

LEMMA GuardStateAlways == Spec => []GuardState
<1>1. QED
  BY GuardInit, GuardStep, PTL DEF Spec

(* Every variable keeps its type, for any threads and handles: the counters *)
(* of the guards never go below zero.                                       *)
THEOREM TypeCorrect == Spec => []TypeOK
<1>1. GuardState => TypeOK
  <2> SUFFICES ASSUME GuardState PROVE TypeOK
    OBVIOUS
  <2>1. Shape /\ GuardCounts
    BY DEF GuardState, GuardInv
  <2>2. \A h \in Handle : active[h] \in Nat
    BY <2>1, CountsNatural DEF Shape
  <2>3. active \in [Handle -> Nat]
    BY <2>1, <2>2 DEF Shape
  <2>4. QED
    BY <2>1, <2>3 DEF Shape, TypeOK
<1>2. QED
  BY <1>1, GuardStateAlways, PTL

(* The guard counts the threads inside, and more only where Ctrl-C cut a    *)
(* decrement off; one thread closes an object, and it frees it once, when   *)
(* nobody is inside and nobody can get in; what Ctrl-C keeps from being     *)
(* noted as freed only the finalizer frees again.                           *)
THEOREM GuardInvariant == Spec => []GuardInv
<1>1. GuardState => GuardInv
  BY DEF GuardState
<1>2. QED
  BY <1>1, GuardStateAlways, PTL

(* No handle is freed under a call that is inside it, as its object or as   *)
(* the other argument, however many threads call and close.                 *)
THEOREM NoUseAfterFreeAlways == Spec => []NoUseAfterFree
<1>1. GuardState => NoUseAfterFree
  <2> SUFFICES ASSUME GuardState,
                      NEW t \in Thread, pc[t] = "calling",
                      NEW h \in {first[t], second[t]} \ {NoHandle}
               PROVE  freed[h] = 0
    BY DEF NoUseAfterFree
  <2>1. h \in Handle /\ In(t, h)
    BY DEF GuardState, Shape, In
  <2>2. h \in Inside(t)
    BY <2>1, InsideIn
  <2>3. freed[h] \in Nat
    BY <2>1 DEF GuardState, Shape
  <2>4. freed[h] > 0 => h \notin Inside(t)
    BY <2>1, Zenon DEF GuardState, GuardInv, FreedUnused
  <2>5. QED
    BY <2>2, <2>3, <2>4
<1>2. QED
  BY <1>1, GuardStateAlways, PTL

(* A handle is freed at most once, its closers and its finalizer together;  *)
(* twice only where Ctrl-C fell between its free and the flag, and then by  *)
(* nobody a third time.                                                     *)
THEOREM FreedOnceAlways == Spec => []FreedOnce
<1>1. GuardState => FreedOnce
  BY DEF GuardState, GuardInv, FreedExactly, FreedOnce
<1>2. QED
  BY <1>1, GuardStateAlways, PTL

-----------------------------------------------------------------------------
(* No wake-up is lost: entering only adds to what a closer waits for, and   *)
(* whoever takes the counter to zero wakes all who wait for it, unless      *)
(* Ctrl-C cuts the notify off.                                              *)
Woken ==
    \A t \in Thread : pc[t] = "waiting" => active[first[t]] # 0 \/ "notify" \in struck[first[t]]

LEMMA WakeStep ==
    ASSUME GuardState, Woken, [Next]_vars
    PROVE  Woken'
<1> USE GuardAssumption DEF GuardAssumption, Goto, Spend, Return, guardVars, rawVars, argVars
<1>0. Shape /\ GuardCounts /\ \A h \in Handle : active[h] \in Nat
  <2>1. Shape /\ GuardCounts
    BY DEF GuardState, GuardInv
  <2>2. QED
    BY <2>1, CountsNatural DEF Shape
<1> DEFINE Sleeps(u) == pc[u] = "waiting"
           Grows == \A k \in Handle : struck[k] \subseteq struck'[k]
           Quiet(h) == "notify" \in struck[h]
<1>a. \A u \in Thread : Sleeps(u) =>
          first[u] \in Handle /\ (active[first[u]] \in Nat \ {0} \/ Quiet(first[u]))
  <2>1. \A u \in Thread : Sleeps(u) => first[u] \in Handle
    BY <1>0 DEF Shape
  <2> QED
    BY <1>0, <2>1 DEF Woken
<1>b. ASSUME active' = active, Grows,
             \A u \in Thread : Sleeps(u)' => Sleeps(u) /\ first'[u] = first[u]
      PROVE  Woken'
  <2> SUFFICES ASSUME NEW u \in Thread, Sleeps(u)'
               PROVE  active'[first'[u]] # 0 \/ Quiet(first[u])'
    BY <1>b DEF Woken
  <2> QED
    BY <1>a, <1>b
<1>c. ASSUME NEW g \in Handle, active' = [active EXCEPT ![g] = @ + 1], Grows,
             \A u \in Thread : Sleeps(u)' => Sleeps(u) /\ first'[u] = first[u]
      PROVE  Woken'
  <2> SUFFICES ASSUME NEW u \in Thread, Sleeps(u)'
               PROVE  active'[first'[u]] # 0 \/ Quiet(first[u])'
    BY <1>c DEF Woken
  <2>1. /\ first'[u] = first[u] /\ first[u] \in Handle
        /\ active[first[u]] \in Nat \ {0} \/ Quiet(first[u])
    BY <1>a, <1>c
  <2>2. active'[first[u]] \in {active[first[u]], active[first[u]] + 1}
    BY <1>0, <1>c, <2>1 DEF Shape
  <2> QED
    BY <1>c, <2>1, <2>2
<1>d. ASSUME NEW g \in Handle, active' = [active EXCEPT ![g] = @ - 1], Grows,
             \A u \in Thread : Sleeps(u)' =>
                 /\ Sleeps(u) /\ first'[u] = first[u]
                 /\ active[g] = 1 => first[u] # g \/ Quiet(g)'
      PROVE  Woken'
  <2> SUFFICES ASSUME NEW u \in Thread, Sleeps(u)'
               PROVE  active'[first'[u]] # 0 \/ Quiet(first[u])'
    BY <1>d DEF Woken
  <2>1. /\ first'[u] = first[u] /\ first[u] \in Handle
        /\ active[first[u]] \in Nat \ {0} \/ Quiet(first[u])
        /\ active[g] = 1 => first[u] # g \/ Quiet(g)'
    BY <1>a, <1>d
  <2>2. active'[first[u]] = IF first[u] = g THEN active[g] - 1 ELSE active[first[u]]
    BY <1>0, <1>d, <2>1 DEF Shape
  <2> QED
    BY <1>d, <2>1, <2>2
<1> HIDE DEF Sleeps
<1>1. ASSUME NEW t \in Thread, NEW h \in Handle, NEW g \in Handle \cup {NoHandle},
             Begin(t, h, g) \/ CloseAgain(t, h)
      PROVE  Woken'
  BY <1>0, <1>1, <1>b DEF Begin, CloseAgain, Shape, Sleeps
<1>2. ASSUME NEW t \in Thread, NEW h \in Handle, Close(t, h) PROVE Woken'
  <2> SUFFICES ASSUME NEW u \in Thread, pc'[u] = "waiting"
               PROVE  active'[first'[u]] # 0 \/ Quiet(first[u])'
    BY <1>2 DEF Woken, Close, Shape
  <2>1. CASE u = t
    BY <1>0, <1>2, <2>1 DEF Close, WaitsFor, Shape
  <2>2. CASE u # t
    BY <1>0, <1>2, <2>2 DEF Close, Shape, Woken
  <2> QED
    BY <2>1, <2>2
<1>3. ASSUME NEW t \in Thread, EnterFirst(t) PROVE Woken'
  BY <1>0, <1>3, <1>c DEF EnterFirst, Shape, Sleeps
<1>4. ASSUME NEW t \in Thread, EnterSecond(t) PROVE Woken'
  BY <1>0, <1>4, <1>c DEF EnterSecond, Shape, Sleeps
<1>5. ASSUME NEW t \in Thread, LeaveSecond(t) PROVE Woken'
  BY <1>0, <1>5, <1>d DEF LeaveSecond, NotifyAll, Shape, Sleeps
<1>6. ASSUME NEW t \in Thread, LeaveFirst(t) PROVE Woken'
  BY <1>0, <1>6, <1>d DEF LeaveFirst, NotifyAll, Shape, Sleeps
<1>7. ASSUME NEW t \in Thread, RefuseFirst(t) \/ RefuseSecond(t) \/ CallReturns(t)
      PROVE  Woken'
  BY <1>0, <1>7, <1>b DEF RefuseFirst, RefuseSecond, UnwindsTo, CallReturns, Shape, Sleeps
<1>8. ASSUME NEW t \in Thread, NEW h \in Handle, CallCreates(t, h) PROVE Woken'
  BY <1>0, <1>8, <1>b DEF CallCreates, Shape, Sleeps
<1>9. ASSUME NEW t \in Thread, LookAgain(t) PROVE Woken'
  <2> SUFFICES ASSUME NEW u \in Thread, pc'[u] = "waiting"
               PROVE  active'[first'[u]] # 0 \/ Quiet(first[u])'
    BY <1>9 DEF Woken, LookAgain
  <2>1. CASE u = t
    BY <1>0, <1>9, <2>1 DEF LookAgain, Shape
  <2>2. CASE u # t
    BY <1>0, <1>9, <2>2 DEF LookAgain, Shape, Woken
  <2> QED
    BY <2>1, <2>2
<1>10. ASSUME NEW t \in Thread, RawFree(t) \/ RawFreeAgain(t) \/ RawFreed(t) PROVE Woken'
  BY <1>0, <1>10, <1>b DEF RawFree, RawFreeAgain, RawFreed, Shape, Sleeps
<1>11. ASSUME NEW t \in Thread, CutBefore(t) PROVE Woken'
  BY <1>0, <1>11, <1>b DEF CutBefore, Cut, Beyond, Shape, Sleeps
<1>12. ASSUME NEW t \in Thread, CutEntered(t) \/ CutLeaving(t) PROVE Woken'
  <2>1. At(t) \in Handle /\ pc' = [pc EXCEPT ![t] = Beyond(t)] /\ first' = first
    BY <1>0, <1>12, CutsCall DEF CutCall
  <2>2. Beyond(t) # "waiting"
    BY DEF Beyond
  <2>3. Grows
    BY <1>0, <1>12, CutStrikes DEF CutCall
  <2>4. \A u \in Thread : Sleeps(u)' => Sleeps(u) /\ first'[u] = first[u]
    BY <1>0, <2>1, <2>2 DEF Sleeps, Shape
  <2>5. CASE CutEntered(t)
    BY <2>1, <2>3, <2>4, <2>5, <1>c DEF CutEntered
  <2>6. CASE CutLeaving(t)
    BY <2>1, <2>3, <2>4, <2>6, <1>b DEF CutLeaving
  <2>7. QED
    BY <1>12, <2>5, <2>6
<1>13. ASSUME NEW t \in Thread, CutLeft(t) PROVE Woken'
  <2> SUFFICES ASSUME NEW a \in Handle, a = At(t) PROVE Woken'
    BY <1>0, <1>13, CutsCall DEF CutCall
  <2>1. pc' = [pc EXCEPT ![t] = Beyond(t)] /\ first' = first
    BY <1>0, <1>13, CutsCall DEF CutCall
  <2>2. Beyond(t) # "waiting"
    BY DEF Beyond
  <2>3. Grows
    BY <1>0, <1>13, CutStrikes DEF CutCall
  <2>4. struck' = [struck EXCEPT ![a] = @ \cup {"notify"}] /\ struck \in [Handle -> SUBSET Cuts]
    BY <1>0, <1>13 DEF CutLeft, Strike, Shape
  <2>5. Quiet(a)'
    BY <2>4
  <2>6. \A u \in Thread : Sleeps(u)' => Sleeps(u) /\ first'[u] = first[u]
    BY <1>0, <2>1, <2>2 DEF Sleeps, Shape
  <2>7. active' = [active EXCEPT ![a] = @ - 1]
    BY <1>13 DEF CutLeft
  <2>8. QED
    BY <2>3, <2>5, <2>6, <2>7, <1>d
<1>14. ASSUME NEW t \in Thread, CutClose(t) \/ CutFreed(t) PROVE Woken'
  <2>1. Grows
    BY <1>0, <1>14, CloseStrikes
  <2>2. QED
    BY <1>0, <1>14, <2>1, <1>b DEF CutClose, CutFreed, Cut, Shape, Sleeps
<1>15. ASSUME NEW h \in Handle, Forget(h) \/ Finalize(h) PROVE Woken'
  BY <1>15, <1>b DEF Forget, Finalize, Sleeps
<1>16. ASSUME NEW h \in Handle, CutFinalizer(h) PROVE Woken'
  BY <1>0, <1>16, <1>b DEF CutFinalizer, Strike, Shape, Sleeps
<1>17. CASE Finished \/ UNCHANGED vars
  BY <1>17, <1>b DEF Finished, vars, Sleeps
<1>18. QED
  BY <1>1, <1>2, <1>3, <1>4, <1>5, <1>6, <1>7, <1>8, <1>9, <1>10, <1>11, <1>12, <1>13,
     <1>14, <1>15, <1>16, <1>17, Zenon DEF Next, Step, CallIn, RawClosing, CutCall

(* A close that waits has somebody inside its object to wake it, however   *)
(* many calls and closes go on and whichever waits Ctrl-C ends, but on an  *)
(* object on which Ctrl-C cut a call's way in or out.                      *)
THEOREM NoLostWakeUpAlways == Spec => []NoLostWakeUp
<1>1. Init => Woken
  BY DEF Init, Woken
<1>2. GuardState /\ Woken => NoLostWakeUp
  <2> SUFFICES ASSUME GuardState, Woken, NEW t \in Thread, pc[t] = "waiting",
                      ~CallCut(first[t])
               PROVE  \E u \in Thread : first[t] \in Inside(u)
    BY DEF NoLostWakeUp
  <2>1. first[t] \in Handle
    BY GuardAssumption DEF GuardState, Shape, GuardAssumption
  <2>2. "count" \notin struck[first[t]] /\ "notify" \notin struck[first[t]]
    BY DEF CallCut
  <2>3. active[first[t]] # 0
    BY <2>2 DEF Woken
  <2>4. GuardCounts
    BY DEF GuardState, GuardInv
  <2>5. \E u \in Thread : In(u, first[t])
    BY <2>1, <2>2, <2>3, <2>4, CountedInside
  <2>6. QED
    BY <2>1, <2>5, InsideIn
<1>3. QED
  BY <1>1, <1>2, WakeStep, GuardStateAlways, PTL DEF Spec

-----------------------------------------------------------------------------
(* The guard implements the abstract life of a handle: who is inside, what   *)
(* is shut, how often it was freed, which frees were torn from their flag.   *)
Users == [h \in Handle |-> {u \in Thread : In(u, h)}]

LEMMA InsideUsers ==
    [h \in Handle |-> {t \in Thread : h \in Inside(t)}] = Users
<1>1. \A h \in Handle : {t \in Thread : h \in Inside(t)} = {u \in Thread : In(u, h)}
  BY InsideIn
<1>2. QED
  BY <1>1 DEF Users

LEMMA InsideUsersNext ==
    [h \in Handle |-> {t \in Thread : h \in Inside(t)}]' = Users'
<1>1. ([h \in Handle |-> {t \in Thread : h \in Inside(t)}] = Users)'
  BY InsideUsers, PTL
<1>2. QED
  BY <1>1

(* The ways a step goes: nothing of it shows, a thread enters or leaves an  *)
(* object, an object is shut, one is freed.                                 *)
Torn == {h \in Handle : "flag" \in struck[h]}

TornSame == \A k \in Handle : "flag" \in struck'[k] <=> "flag" \in struck[k]

LEMMA TornKept == TornSame => Torn' = Torn
BY DEF TornSame, Torn

LEMMA LifeKept ==
    ASSUME closed' = closed, freed' = freed, TornSame,
           \A u \in Thread, k \in Handle : In(u, k)' <=> In(u, k)
    PROVE  UNCHANGED Life!vars
<1>1. Users' = Users
  BY DEF Users
<1>2. QED
  BY <1>1, InsideUsers, InsideUsersNext, TornKept DEF Life!vars, Torn

LEMMA LifeEnter ==
    ASSUME closed' = closed, freed' = freed, TornSame, NEW t \in Thread, NEW g \in Handle,
           ~closed[g], freed[g] = 0, ~In(t, g),
           \A u \in Thread, k \in Handle : In(u, k)' <=> In(u, k) \/ (u = t /\ k = g)
    PROVE  Life!Next
<1>1. Users[g] = {u \in Thread : In(u, g)} /\ t \notin Users[g]
  BY DEF Users
<1>2. \A k \in Handle : {u \in Thread : In(u, k)}' =
                            IF k = g THEN Users[g] \cup {t} ELSE {u \in Thread : In(u, k)}
  BY <1>1
<1>3. Users' = [Users EXCEPT ![g] = @ \cup {t}]
  BY <1>2 DEF Users
<1>4. Life!Enter(t, g)
  BY <1>1, <1>3, InsideUsers, InsideUsersNext, TornKept DEF Life!Enter, Torn
<1>5. QED
  BY <1>4, Zenon DEF Life!Next

LEMMA LifeLeave ==
    ASSUME closed' = closed, freed' = freed, TornSame, NEW t \in Thread, NEW g \in Handle, In(t, g),
           \A u \in Thread, k \in Handle : In(u, k)' <=> In(u, k) /\ ~(u = t /\ k = g)
    PROVE  Life!Next
<1>1. Users[g] = {u \in Thread : In(u, g)} /\ t \in Users[g]
  BY DEF Users
<1>2. \A k \in Handle : {u \in Thread : In(u, k)}' =
                            IF k = g THEN Users[g] \ {t} ELSE {u \in Thread : In(u, k)}
  BY <1>1
<1>3. Users' = [Users EXCEPT ![g] = @ \ {t}]
  BY <1>2 DEF Users
<1>4. Life!Leave(t, g)
  BY <1>1, <1>3, InsideUsers, InsideUsersNext, TornKept DEF Life!Leave, Torn
<1>5. QED
  BY <1>4, Zenon DEF Life!Next

LEMMA LifeShut ==
    ASSUME freed' = freed, TornSame, NEW g \in Handle, ~closed[g],
           closed' = [closed EXCEPT ![g] = TRUE],
           \A u \in Thread, k \in Handle : In(u, k)' <=> In(u, k)
    PROVE  Life!Next
<1>1. Users' = Users
  BY DEF Users
<1>2. Life!Shut(g)
  BY <1>1, InsideUsers, InsideUsersNext, TornKept, Zenon DEF Life!Shut, Torn
<1>3. QED
  BY <1>2, Zenon DEF Life!Next

LEMMA LifeFree ==
    ASSUME closed' = closed, TornSame, NEW g \in Handle, freed[g] = 0,
           freed' = [freed EXCEPT ![g] = @ + 1],
           \A u \in Thread : ~In(u, g),
           \A u \in Thread, k \in Handle : In(u, k)' <=> In(u, k)
    PROVE  Life!Next
<1>1. Users' = Users /\ Users[g] = {}
  BY DEF Users
<1>2. freed' = [freed EXCEPT ![g] = 1]
  OBVIOUS
<1>3. Life!Free(g)
  BY <1>1, <1>2, InsideUsers, InsideUsersNext, TornKept, Zenon DEF Life!Free, Torn
<1>4. QED
  BY <1>3, Zenon DEF Life!Next

LEMMA LifeTear ==
    ASSUME closed' = closed, freed' = freed, NEW g \in Handle, closed[g], freed[g] = 1,
           \A k \in Handle : "flag" \in struck'[k] <=> ("flag" \in struck[k] \/ k = g),
           \A u \in Thread, k \in Handle : In(u, k)' <=> In(u, k)
    PROVE  Life!Next
<1>1. Users' = Users
  BY DEF Users
<1>2. Torn' = Torn \cup {g}
  BY DEF Torn
<1>3. Life!Tear(g)
  BY <1>1, <1>2, InsideUsers, InsideUsersNext, Zenon DEF Life!Tear, Torn
<1>4. QED
  BY <1>3, Zenon DEF Life!Next

LEMMA LifeFreeAgain ==
    ASSUME closed' = closed, TornSame, NEW g \in Handle, freed[g] = 1, "flag" \in struck[g],
           freed' = [freed EXCEPT ![g] = @ + 1],
           \A u \in Thread : ~In(u, g),
           \A u \in Thread, k \in Handle : In(u, k)' <=> In(u, k)
    PROVE  Life!Next
<1>1. Users' = Users /\ Users[g] = {} /\ g \in Torn
  BY DEF Users, Torn
<1>2. freed' = [freed EXCEPT ![g] = 2]
  OBVIOUS
<1>3. Life!FreeAgain(g)
  BY <1>1, <1>2, InsideUsers, InsideUsersNext, TornKept, Zenon DEF Life!FreeAgain, Torn
<1>4. QED
  BY <1>3, Zenon DEF Life!Next

(* What a thread is about to enter is not freed, and what is about to be    *)
(* freed nobody is in and nobody freed before.                              *)
LEMMA Entered ==
    ASSUME GuardState, NEW t \in Thread, NEW g \in Handle,
           pc[t] # "idle", first[t] = g \/ second[t] = g, ~closed[g]
    PROVE  freed[g] = 0
<1>1. freed[g] \in Nat
  BY DEF GuardState, Shape
<1>2. g \in Refers(t)
  BY RefersTo
<1>3. ~(freed[g] > 0)
  BY <1>2, Zenon DEF GuardState, GuardInv, FreedUnused
<1>4. QED
  BY <1>1, <1>3

LEMMA FreedFirst ==
    ASSUME GuardState, NEW t \in Thread, RawFree(t)
    PROVE  /\ first[t] \in Handle /\ freed[first[t]] = 0
           /\ \A u \in Thread : ~In(u, first[t])
<1>0. Shape /\ GuardCounts /\ OneCloser /\ FreedExactly /\ pc[t] = "free" /\ ~rawClosed[first[t]]
  BY DEF GuardState, GuardInv, RawFree
<1>1. first[t] \in Handle /\ active[first[t]] = 0
  BY <1>0, CloserAlone
<1>2. \A u \in Thread : ~(pc[u] = "freed" /\ first[u] = first[t])
  BY <1>0 DEF OneCloser, Closing
<1>3. freed[first[t]] = 0
  BY <1>0, <1>1, <1>2 DEF FreedExactly, Closing
<1>4. \A u \in Thread : ~In(u, first[t])
  BY <1>0, <1>1, InsideCounts DEF Shape
<1>5. QED
  BY <1>1, <1>3, <1>4

LEMMA FinalizedFirst ==
    ASSUME GuardState, NEW h \in Handle, Finalize(h)
    PROVE  /\ freed[h] = IF "flag" \in struck[h] THEN 1 ELSE 0
           /\ \A u \in Thread : ~In(u, h)
<1>1. \A u \in Thread : ~(pc[u] # "idle" /\ (first[u] = h \/ second[u] = h))
  BY RefersTo DEF Finalize, Finalizable, Unreachable
<1>2. \A u \in Thread : ~In(u, h) /\ ~(pc[u] = "freed" /\ first[u] = h)
  BY <1>1 DEF In
<1>3. QED
  BY <1>2 DEF GuardState, GuardInv, FreedExactly, Finalize, Finalizable

(* Ctrl-C between a free and its flag: the object is shut and freed once. *)
LEMMA TornFirst ==
    ASSUME GuardState, NEW t \in Thread, CutFreed(t)
    PROVE  first[t] \in Handle /\ closed[first[t]] /\ freed[first[t]] = 1
<1>1. Shape /\ OneCloser /\ FreedExactly /\ pc[t] = "freed"
  BY DEF GuardState, GuardInv, CutFreed
<1>2. first[t] \in Handle /\ closed[first[t]]
  BY <1>1, CloserAlone
<1>3. "flag" \notin struck[first[t]]
  BY <1>1, <1>2 DEF FreedExactly, Closing
<1>4. QED
  BY <1>1, <1>2, <1>3 DEF FreedExactly

LEMMA LifeStep ==
    ASSUME GuardState, [Next]_vars
    PROVE  Life!Next \/ UNCHANGED Life!vars
<1> USE GuardAssumption DEF GuardAssumption, Goto, Spend, Return, guardVars, rawVars, argVars
<1>0. Shape /\ (struck' = struck => TornSame)
  BY DEF GuardState, TornSame
<1> DEFINE Same == \A u \in Thread, k \in Handle : In(u, k)' <=> In(u, k)
           Goal == Life!Next \/ UNCHANGED Life!vars
<1>a. closed' = closed /\ freed' = freed /\ TornSame /\ Same => Goal
  BY LifeKept
<1> HIDE DEF Goal
<1>1. ASSUME NEW t \in Thread, NEW h \in Handle, NEW g \in Handle \cup {NoHandle},
             Begin(t, h, g) \/ CloseAgain(t, h)
      PROVE  Goal
  <2>1. CASE Begin(t, h, g)
    BY <1>0, <2>1, <1>a DEF Begin, Shape, In
  <2>2. CASE CloseAgain(t, h)
    BY <1>0, <2>2, <1>a DEF CloseAgain, Shape, In
  <2> QED
    BY <1>1, <2>1, <2>2
<1>2. ASSUME NEW t \in Thread, NEW h \in Handle, Close(t, h) PROVE Goal
  <2>1. ~closed[h] /\ closed' = [closed EXCEPT ![h] = TRUE] /\ freed' = freed /\ TornSame
    BY <1>0, <1>2 DEF Close
  <2>2. Same
    BY <1>0, <1>2 DEF Close, WaitsFor, Shape, In
  <2> QED
    BY <2>1, <2>2, LifeShut DEF Goal
<1>3. ASSUME NEW t \in Thread, EnterFirst(t) PROVE Goal
  <2>1. /\ first[t] \in Handle /\ ~In(t, first[t]) /\ pc[t] # "idle"
        /\ ~closed[first[t]] /\ closed' = closed /\ freed' = freed /\ TornSame
    BY <1>0, <1>3 DEF EnterFirst, Admits, Shape, In
  <2>2. \A u \in Thread, k \in Handle : In(u, k)' <=> In(u, k) \/ (u = t /\ k = first[t])
    BY <1>0, <1>3 DEF EnterFirst, Shape, In
  <2>3. freed[first[t]] = 0
    BY <2>1, Entered
  <2> QED
    BY <2>1, <2>2, <2>3, LifeEnter DEF Goal
<1>4. ASSUME NEW t \in Thread, EnterSecond(t) PROVE Goal
  <2>1. /\ second[t] \in Handle /\ ~In(t, second[t]) /\ pc[t] # "idle"
        /\ ~closed[second[t]] /\ closed' = closed /\ freed' = freed /\ TornSame
    BY <1>0, <1>4 DEF EnterSecond, Admits, Shape, In
  <2>2. \A u \in Thread, k \in Handle : In(u, k)' <=> In(u, k) \/ (u = t /\ k = second[t])
    BY <1>0, <1>4 DEF EnterSecond, Shape, In
  <2>3. freed[second[t]] = 0
    BY <2>1, Entered
  <2> QED
    BY <2>1, <2>2, <2>3, LifeEnter DEF Goal
<1>5. ASSUME NEW t \in Thread, LeaveSecond(t) PROVE Goal
  <2>1. second[t] \in Handle /\ In(t, second[t]) /\ closed' = closed /\ freed' = freed /\ TornSame
    BY <1>0, <1>5 DEF LeaveSecond, Shape, In
  <2>2. \A u \in Thread, k \in Handle : In(u, k)' <=> In(u, k) /\ ~(u = t /\ k = second[t])
    BY <1>0, <1>5 DEF LeaveSecond, NotifyAll, Shape, In
  <2> QED
    BY <2>1, <2>2, LifeLeave DEF Goal
<1>6. ASSUME NEW t \in Thread, LeaveFirst(t) PROVE Goal
  <2>1. first[t] \in Handle /\ In(t, first[t]) /\ closed' = closed /\ freed' = freed /\ TornSame
    BY <1>0, <1>6 DEF LeaveFirst, Shape, In
  <2>2. \A u \in Thread, k \in Handle : In(u, k)' <=> In(u, k) /\ ~(u = t /\ k = first[t])
    BY <1>0, <1>6 DEF LeaveFirst, NotifyAll, Shape, In
  <2> QED
    BY <2>1, <2>2, LifeLeave DEF Goal
<1>7. ASSUME NEW t \in Thread, RawFree(t) PROVE Goal
  <2>1. /\ first[t] \in Handle /\ freed[first[t]] = 0
        /\ \A u \in Thread : ~In(u, first[t])
    BY <1>7, FreedFirst
  <2>2. closed' = closed /\ freed' = [freed EXCEPT ![first[t]] = @ + 1] /\ TornSame
    BY <1>0, <1>7 DEF RawFree
  <2>3. Same
    BY <1>0, <1>7 DEF RawFree, Shape, In
  <2> QED
    BY <2>1, <2>2, <2>3, LifeFree DEF Goal
<1>8. ASSUME NEW h \in Handle, Finalize(h) PROVE Goal
  <2>1. /\ freed[h] = IF "flag" \in struck[h] THEN 1 ELSE 0
        /\ \A u \in Thread : ~In(u, h)
    BY <1>8, FinalizedFirst
  <2>2. closed' = closed /\ freed' = [freed EXCEPT ![h] = @ + 1] /\ TornSame
    BY <1>0, <1>8 DEF Finalize
  <2>3. Same
    BY <1>8 DEF Finalize, In
  <2>4. Life!Next
    BY <2>1, <2>2, <2>3, LifeFree, LifeFreeAgain
  <2> QED
    BY <2>4 DEF Goal
<1>9. ASSUME NEW t \in Thread, RefuseFirst(t) \/ RefuseSecond(t) \/ CallReturns(t) PROVE Goal
  BY <1>0, <1>9, <1>a DEF RefuseFirst, RefuseSecond, UnwindsTo, CallReturns, Shape, In
<1>10. ASSUME NEW t \in Thread, NEW h \in Handle, CallCreates(t, h) PROVE Goal
  BY <1>0, <1>10, <1>a DEF CallCreates, Shape, In
<1>11. ASSUME NEW t \in Thread, LookAgain(t) \/ RawFreeAgain(t) \/ RawFreed(t) PROVE Goal
  <2>1. CASE LookAgain(t)
    BY <1>0, <2>1, <1>a DEF LookAgain, Shape, In
  <2>2. CASE RawFreeAgain(t)
    BY <1>0, <2>2, <1>a DEF RawFreeAgain, Shape, In
  <2>3. CASE RawFreed(t)
    BY <1>0, <2>3, <1>a DEF RawFreed, Shape, In
  <2> QED
    BY <1>11, <2>1, <2>2, <2>3
<1>12. ASSUME NEW t \in Thread, CutBefore(t) \/ CutEntered(t) PROVE Goal
  <2>1. closed' = closed /\ freed' = freed /\ TornSame
    BY <1>0, <1>12, CutsCall, CutStrikes DEF CutCall, TornSame
  <2>2. Same
    BY <1>0, <1>12 DEF CutBefore, CutEntered, Cut, Beyond, AtFirst, Shape, In
  <2> QED
    BY <2>1, <2>2, <1>a
<1>13. ASSUME NEW t \in Thread, CutLeaving(t) \/ CutLeft(t) PROVE Goal
  <2>1. At(t) \in Handle /\ In(t, At(t)) /\ closed' = closed /\ freed' = freed /\ TornSame
    <3>1. At(t) \in Handle /\ closed' = closed /\ freed' = freed
      BY <1>0, <1>13, CutsCall DEF CutCall
    <3>2. TornSame
      BY <1>0, <1>13, <3>1, CutStrikes DEF CutCall, TornSame
    <3>3. In(t, At(t))
      BY <1>0, <1>13, <3>1 DEF CutLeaving, CutLeft, At, AtFirst, In, Shape
    <3>4. QED
      BY <3>1, <3>2, <3>3
  <2>2. \A u \in Thread, k \in Handle : In(u, k)' <=> In(u, k) /\ ~(u = t /\ k = At(t))
    <3>1. CASE CutLeaving(t)
      BY <1>0, <3>1, ZenonT(30) DEF CutLeaving, Cut, At, Beyond, AtFirst, Shape, In
    <3>2. CASE CutLeft(t)
      BY <1>0, <3>2, ZenonT(30) DEF CutLeft, Cut, At, Beyond, AtFirst, Shape, In
    <3>3. QED
      BY <1>13, <3>1, <3>2
  <2>3. Life!Next
    BY <2>1, <2>2, LifeLeave
  <2> QED
    BY <2>3 DEF Goal
<1>14. ASSUME NEW t \in Thread, CutClose(t) PROVE Goal
  BY <1>0, <1>14, <1>a DEF CutClose, Cut, Shape, In
<1>15. ASSUME NEW t \in Thread, CutFreed(t) PROVE Goal
  <2>1. first[t] \in Handle /\ closed[first[t]] /\ freed[first[t]] = 1
    BY <1>15, TornFirst
  <2>2. closed' = closed /\ freed' = freed /\ Same
    BY <1>0, <1>15 DEF CutFreed, Cut, Shape, In
  <2>3. \A k \in Handle : "flag" \in struck'[k] <=> ("flag" \in struck[k] \/ k = first[t])
    BY <1>0, <1>15, <2>1 DEF CutFreed, Strike, Shape
  <2>4. Life!Next
    BY <2>1, <2>2, <2>3, LifeTear
  <2> QED
    BY <2>4 DEF Goal
<1>16. ASSUME NEW h \in Handle, Forget(h) PROVE Goal
  BY <1>0, <1>16, <1>a DEF Forget, In
<1>17. ASSUME NEW h \in Handle, CutFinalizer(h) PROVE Goal
  <2>1. TornSame
    BY <1>0, <1>17 DEF CutFinalizer, Strike, TornSame, Shape
  <2> QED
    BY <1>17, <2>1, <1>a DEF CutFinalizer, In
<1>18. ASSUME Finished \/ UNCHANGED vars PROVE Goal
  BY <1>0, <1>18, <1>a DEF Finished, vars, In
<1>19. Goal
  BY <1>1, <1>2, <1>3, <1>4, <1>5, <1>6, <1>7, <1>8, <1>9, <1>10, <1>11, <1>12, <1>13,
     <1>14, <1>15, <1>16, <1>17, <1>18, Zenon DEF Next, Step, CallIn, RawClosing, CutCall
<1>20. QED
  BY <1>19 DEF Goal

(* Every step of the guard, with its counter, two entries, unwinding,        *)
(* finalizer and Ctrl-C, is a step of the abstract handle's life or a        *)
(* stutter: entered while open and not freed, shut for good, freed once, and *)
(* once more only where Ctrl-C tore the free from its flag.                  *)
THEOREM Implements == Spec => ImplementsHandleLife
<1>1. Init => Life!Init
  <2> SUFFICES ASSUME Init PROVE Life!Init
    OBVIOUS
  <2>1. Users = [h \in Handle |-> {}]
    BY DEF Init, Users, In
  <2>2. Torn = {}
    BY DEF Init, Torn
  <2> QED
    BY <2>1, <2>2, InsideUsers DEF Init, Life!Init, Torn
<1>2. GuardState /\ [Next]_vars => [Life!Next]_(Life!vars)
  BY LifeStep
<1>3. QED
  BY <1>1, <1>2, GuardStateAlways, PTL DEF Spec, ImplementsHandleLife, Life!Spec

=============================================================================
