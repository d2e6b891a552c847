------------------------- MODULE FetchBases_proofs --------------------------
(***************************************************************************)
(* Proofs about FetchBases, for every list of bases and every answer: the  *)
(* inductive invariant of a fetch and the safety properties that follow,   *)
(* the retry schedule and what may be waited under it, and that every      *)
(* answer brings the fetch nearer to its end.                              *)
(***************************************************************************)
EXTENDS FetchBases, WellFoundedInduction, TLAPS

(* The history of the call agrees with the request it is at: while it runs,   *)
(* what was sent to this base is its retries, redirects and token exchange,   *)
(* and every base before this one has failed.                                 *)
FetchInv ==
    /\ outcome = "running" =>
           /\ requests = attempt + hops + (IF tried THEN 2 ELSE 0)
           /\ Len(failures) = base - 1
           /\ base <= Len(bases) \/ base = 1
    /\ RequestsBounded
    /\ CredentialsStay
    /\ LastBaseDecides

-----------------------------------------------------------------------------
(* The retry schedule: recursive functions are what their equations say. *)

(* Induction on the numbers, with the set of those that satisfy the claim. *)
LEMMA Induction ==
  ASSUME NEW T, 0 \in T, \A n \in Nat : n \in T => n + 1 \in T
  PROVE  Nat \subseteq T
<1> DEFINE Bad == Nat \ T
<1>1. SUFFICES ASSUME Bad # {} PROVE FALSE
  OBVIOUS
<1>2. \E n \in Bad : \A k \in Bad : <<k, n>> \notin OpToRel(<, Nat)
  BY <1>1, NatLessThanWellFounded, WFMin
<1>3. PICK n \in Bad : \A k \in Bad : ~(k < n)
  BY <1>2 DEF OpToRel
<1>4. n - 1 \in Nat /\ n - 1 \notin Bad
  BY <1>3
<1>5. QED
  BY <1>3, <1>4

(* The power of the multiplier is what its equation says. *)
LEMMA PowerDef ==
  Power = [k \in 0 .. Attempts |-> IF k = 0 THEN 1 ELSE Multiplier * Power[k - 1]]
<1> DEFINE T == {n \in Nat :
                   \E g : g = [k \in 0 .. n |-> IF k = 0 THEN 1 ELSE Multiplier * g[k - 1]]}
<1>1. 0 \in T
  <2>1. [k \in 0 .. 0 |-> 1]
          = [k \in 0 .. 0 |-> IF k = 0 THEN 1 ELSE Multiplier * [j \in 0 .. 0 |-> 1][k - 1]]
    OBVIOUS
  <2>2. QED
    BY <2>1
<1>2. ASSUME NEW n \in Nat, n \in T PROVE n + 1 \in T
  <2>1. PICK g : g = [k \in 0 .. n |-> IF k = 0 THEN 1 ELSE Multiplier * g[k - 1]]
    BY <1>2
  <2>2. PICK h : h = [k \in 0 .. (n + 1) |-> IF k = 0 THEN 1 ELSE Multiplier * g[k - 1]]
    OBVIOUS
  <2>3. \A k \in 0 .. (n + 1) : k # 0 => h[k - 1] = g[k - 1]
    BY <2>1, <2>2
  <2>4. h = [k \in 0 .. (n + 1) |-> IF k = 0 THEN 1 ELSE Multiplier * h[k - 1]]
    BY <2>2, <2>3
  <2>5. QED
    BY <2>4
<1>3. Attempts \in T
  <2> HIDE DEF T
  <2> QED
    BY <1>1, <1>2, Induction, FetchAssumption
<1>4. QED
  BY <1>3, Zenon DEF Power

(* Every planned wait is a number. *)
LEMMA WaitType == \A k \in 0 .. Attempts : Wait(k) \in Nat
<1> DEFINE T == {n \in Nat : n <= Attempts => Power[n] \in Nat}
<1>1. 0 \in T
  BY PowerDef, FetchAssumption
<1>2. ASSUME NEW n \in Nat, n \in T PROVE n + 1 \in T
  <2>1. SUFFICES ASSUME n + 1 <= Attempts PROVE Power[n + 1] \in Nat
    OBVIOUS
  <2>2. Power[n + 1] = Multiplier * Power[n]
    BY <2>1, PowerDef, FetchAssumption
  <2>3. Power[n] \in Nat /\ Multiplier \in Nat
    BY <1>2, <2>1, FetchAssumption
  <2>4. QED
    BY <2>2, <2>3
<1>3. Nat \subseteq T
  <2> HIDE DEF T
  <2> QED
    BY <1>1, <1>2, Induction
<1>4. ASSUME NEW k \in 0 .. Attempts PROVE FirstWait * Power[k] \in Nat
  <2>1. Power[k] \in Nat /\ FirstWait \in Nat
    BY <1>3, <1>4, FetchAssumption
  <2>2. QED
    BY <2>1
<1>5. QED
  BY <1>4 DEF Wait

(* What the schedule has left at each attempt is what its equation says. *)
LEMMA RemainingDef ==
  Remaining = [k \in 0 .. Attempts |->
                 IF k + 1 >= Attempts THEN 0 ELSE Wait(k) + Remaining[k + 1]]
<1> DEFINE T == {n \in Nat : n <= Attempts =>
                   \E g : g = [k \in (Attempts - n) .. Attempts |->
                                IF k + 1 >= Attempts THEN 0 ELSE Wait(k) + g[k + 1]]}
<1> USE FetchAssumption
<1>1. 0 \in T
  <2>1. [k \in (Attempts - 0) .. Attempts |-> 0]
          = [k \in (Attempts - 0) .. Attempts |->
               IF k + 1 >= Attempts THEN 0
               ELSE Wait(k) + [j \in (Attempts - 0) .. Attempts |-> 0][k + 1]]
    OBVIOUS
  <2>2. QED
    BY <2>1
<1>2. ASSUME NEW n \in Nat, n \in T PROVE n + 1 \in T
  <2>1. SUFFICES ASSUME n + 1 <= Attempts
                 PROVE  \E g : g = [k \in (Attempts - (n + 1)) .. Attempts |->
                                IF k + 1 >= Attempts THEN 0 ELSE Wait(k) + g[k + 1]]
    OBVIOUS
  <2>2. PICK g : g = [k \in (Attempts - n) .. Attempts |->
                        IF k + 1 >= Attempts THEN 0 ELSE Wait(k) + g[k + 1]]
    BY <1>2, <2>1
  <2>3. PICK h : h = [k \in (Attempts - (n + 1)) .. Attempts |->
                        IF k + 1 >= Attempts THEN 0 ELSE Wait(k) + g[k + 1]]
    OBVIOUS
  <2>4. \A k \in (Attempts - (n + 1)) .. Attempts :
            ~(k + 1 >= Attempts) => h[k + 1] = g[k + 1]
    BY <2>1, <2>2, <2>3
  <2>5. h = [k \in (Attempts - (n + 1)) .. Attempts |->
               IF k + 1 >= Attempts THEN 0 ELSE Wait(k) + h[k + 1]]
    BY <2>3, <2>4
  <2>6. QED
    BY <2>5
<1>3. Attempts \in T
  <2> HIDE DEF T
  <2> QED
    BY <1>1, <1>2, Induction
<1>4. \E g : g = [k \in 0 .. Attempts |->
                    IF k + 1 >= Attempts THEN 0 ELSE Wait(k) + g[k + 1]]
  <2>1. Attempts - Attempts = 0
    OBVIOUS
  <2>2. QED
    BY <1>3, <2>1
<1>5. QED
  BY <1>4, Zenon DEF Remaining

(* What is left is a number, and before the last attempt it covers the wait *)
(* that is planned next.                                                    *)
LEMMA RemainingType ==
  /\ \A k \in 0 .. Attempts : Remaining[k] \in Nat
  /\ \A k \in 0 .. Attempts : k + 1 < Attempts => Wait(k) <= Remaining[k]
<1> DEFINE T == {n \in Nat : n <= Attempts => Remaining[Attempts - n] \in Nat}
<1> USE FetchAssumption
<1>1. 0 \in T
  BY RemainingDef
<1>2. ASSUME NEW n \in Nat, n \in T PROVE n + 1 \in T
  <2>1. SUFFICES ASSUME n + 1 <= Attempts PROVE Remaining[Attempts - (n + 1)] \in Nat
    OBVIOUS
  <2>2. Remaining[Attempts - n] \in Nat /\ Wait(Attempts - (n + 1)) \in Nat
    BY <1>2, <2>1, WaitType
  <2>3. (Attempts - (n + 1)) + 1 = Attempts - n
    OBVIOUS
  <2>4. Attempts - (n + 1) \in 0 .. Attempts
    BY <2>1
  <2>5. Remaining[Attempts - (n + 1)] \in {0, Wait(Attempts - (n + 1)) + Remaining[Attempts - n]}
    BY <2>3, <2>4, RemainingDef
  <2>6. QED
    BY <2>2, <2>5
<1>3. Nat \subseteq T
  <2> HIDE DEF T
  <2> QED
    BY <1>1, <1>2, Induction
<1>4. ASSUME NEW k \in 0 .. Attempts PROVE Remaining[k] \in Nat
  <2>1. Attempts - k \in Nat /\ Attempts - k <= Attempts /\ Attempts - (Attempts - k) = k
    OBVIOUS
  <2>2. QED
    BY <1>3, <2>1
<1>5. ASSUME NEW k \in 0 .. Attempts, k + 1 < Attempts PROVE Wait(k) <= Remaining[k]
  <2>1. Remaining[k] = Wait(k) + Remaining[k + 1]
    BY <1>5, RemainingDef
  <2>2. Wait(k) \in Nat /\ Remaining[k + 1] \in Nat
    BY <1>4, <1>5, WaitType
  <2>3. QED
    BY <2>1, <2>2
<1>6. QED
  BY <1>4, <1>5

(* What may have been waited before each attempt is what its equation says. *)
LEMMA AllowedDef ==
  Allowed = [k \in 0 .. Attempts |-> IF k = 0 THEN 0 ELSE Allowed[k - 1] + Remaining[k - 1]]
<1> DEFINE T == {n \in Nat :
                   \E g : g = [k \in 0 .. n |->
                                IF k = 0 THEN 0 ELSE g[k - 1] + Remaining[k - 1]]}
<1>1. 0 \in T
  <2>1. [k \in 0 .. 0 |-> 0]
          = [k \in 0 .. 0 |->
               IF k = 0 THEN 0 ELSE [j \in 0 .. 0 |-> 0][k - 1] + Remaining[k - 1]]
    OBVIOUS
  <2>2. QED
    BY <2>1
<1>2. ASSUME NEW n \in Nat, n \in T PROVE n + 1 \in T
  <2>1. PICK g : g = [k \in 0 .. n |-> IF k = 0 THEN 0 ELSE g[k - 1] + Remaining[k - 1]]
    BY <1>2
  <2>2. PICK h : h = [k \in 0 .. (n + 1) |->
                        IF k = 0 THEN 0 ELSE g[k - 1] + Remaining[k - 1]]
    OBVIOUS
  <2>3. \A k \in 0 .. (n + 1) : k # 0 => h[k - 1] = g[k - 1]
    BY <2>1, <2>2
  <2>4. h = [k \in 0 .. (n + 1) |-> IF k = 0 THEN 0 ELSE h[k - 1] + Remaining[k - 1]]
    BY <2>2, <2>3
  <2>5. QED
    BY <2>4
<1>3. Attempts \in T
  <2> HIDE DEF T
  <2> QED
    BY <1>1, <1>2, Induction, FetchAssumption
<1>4. QED
  BY <1>3, Zenon DEF Allowed

(* A retry may wait what is left on top of what was allowed before it. *)
LEMMA AllowedStep ==
  /\ Allowed[0] = 0
  /\ \A k \in 0 .. Attempts - 1 : Allowed[k + 1] = Allowed[k] + Remaining[k]
BY AllowedDef, FetchAssumption

(* It is a number. *)
LEMMA AllowedType == \A k \in 0 .. Attempts : Allowed[k] \in Nat
<1> DEFINE T == {n \in Nat : n <= Attempts => Allowed[n] \in Nat}
<1> USE FetchAssumption
<1>1. 0 \in T
  BY AllowedStep
<1>2. ASSUME NEW n \in Nat, n \in T PROVE n + 1 \in T
  BY <1>2, AllowedStep, RemainingType
<1>3. Nat \subseteq T
  <2> HIDE DEF T
  <2> QED
    BY <1>1, <1>2, Induction
<1>4. QED
  BY <1>3

-----------------------------------------------------------------------------
(* The ways a step goes, under the types. *)

LEMMA BasesType == ASSUME TypeOK PROVE bases \in Seq(Schemes) /\ Len(bases) \in Nat
  BY FetchAssumption DEF TypeOK

LEMMA EndType ==
  ASSUME TypeOK, NEW n \in Nat, NEW result \in Outcomes, End(result), requests' = requests + n
  PROVE  TypeOK'
  BY DEF TypeOK, End, call, request

LEMMA FailType ==
  ASSUME TypeOK, NEW failure \in Failures, Fail(failure)
  PROVE  TypeOK'
<1>1. /\ failures' \in Seq(Failures)
      /\ bases' \in BaseLists /\ mode' \in {"tag", "digest"} /\ token' \in BOOLEAN
  BY DEF TypeOK, Fail, call
<1>2. LastWord(failure) \in Outcomes
  BY DEF LastWord, Outcomes, Failures
<1>3. CASE IsLast
  BY <1>1, <1>2, <1>3 DEF TypeOK, Fail, Send, call, request
<1>4. CASE ~IsLast
  <2>1. /\ base' = base + 1 /\ attempt' = 0 /\ hops' = 0 /\ tried' = FALSE
        /\ auth' = FirstAuth(token) /\ issued' = 0 /\ requests' = 0 /\ outcome' = outcome
    BY <1>4 DEF Fail
  <2>2. auth' \in {"none", "token", "anonymous"}
    BY <2>1 DEF FirstAuth
  <2>3. 0 \in 0 .. Attempts - 1 /\ 0 \in 0 .. MaxRedirects
    BY FetchAssumption
  <2>4. /\ base' \in Nat \ {0}
        /\ outcome' \in Outcomes
        /\ tried' \in BOOLEAN
        /\ requests' \in Nat
    <3>1. base \in Nat \ {0} /\ outcome \in Outcomes
      BY DEF TypeOK
    <3>2. tried' \in BOOLEAN
      BY <2>1, Zenon
    <3>3. QED
      BY <2>1, <3>1, <3>2
  <2>5. attempt' \in 0 .. Attempts - 1 /\ hops' \in 0 .. MaxRedirects /\ issued' \in 0 .. MaxRedirects
    BY <2>1, <2>3
  <2>6. QED
    BY <1>1, <2>2, <2>4, <2>5 DEF TypeOK
<1>5. QED
  BY <1>3, <1>4

LEMMA RetryType ==
  ASSUME TypeOK, AttemptLeft, NEW wait, Retry(wait)
  PROVE  TypeOK'
  BY FetchAssumption DEF TypeOK, AttemptLeft, Retry, Send, call

LEMMA EndInv ==
  ASSUME TypeOK, FetchInv, outcome = "running",
         NEW result \in {"served", "unauthorized", "forbidden", "corrupt", "escaped"},
         NEW n \in 0 .. 2, n <= 1 \/ ~tried,
         End(result), requests' = requests + n
  PROVE  FetchInv'
<1>1. RequestsBounded'
  BY FetchAssumption DEF TypeOK, FetchInv, RequestsBounded
<1>2. CredentialsStay'
  BY DEF FetchInv, CredentialsStay, End, call, request
<1>3. QED
  BY <1>1, <1>2 DEF FetchInv, LastBaseDecides, End, call, request

LEMMA FailInv ==
  ASSUME TypeOK, FetchInv, outcome = "running", base \in DOMAIN bases,
         NEW failure \in Failures, Fail(failure)
  PROVE  FetchInv'
<1>1. /\ Len(failures') = base
      /\ failures'[base] = failure
      /\ bases' = bases /\ mode' = mode /\ token' = token
  BY DEF TypeOK, FetchInv, Fail, call
<1>2. CASE IsLast
  <2>1. /\ outcome' = LastWord(failure)
        /\ requests' = requests + 1
        /\ base' = base /\ attempt' = attempt /\ hops' = hops /\ tried' = tried
        /\ auth' = auth /\ issued' = issued
    BY <1>2 DEF Fail, Send, request
  <2>2. RequestsBounded'
    BY <2>1, FetchAssumption DEF TypeOK, FetchInv, RequestsBounded
  <2>3. CredentialsStay'
    BY <1>1, <2>1 DEF FetchInv, CredentialsStay
  <2>4. LastBaseDecides'
    BY <1>1, <1>2, <2>1 DEF TypeOK, IsLast, LastWord, Failures, LastBaseDecides
  <2>5. outcome' # "running"
    BY <2>1 DEF LastWord
  <2>6. QED
    BY <2>2, <2>3, <2>4, <2>5 DEF FetchInv
<1>3. CASE ~IsLast
  <2>1. /\ base' = base + 1 /\ attempt' = 0 /\ hops' = 0 /\ tried' = FALSE
        /\ auth' = FirstAuth(token) /\ issued' = 0 /\ requests' = 0
        /\ outcome' = "running"
    BY <1>3 DEF Fail
  <2>2. base + 1 <= Len(bases)
    BY <1>3, BasesType DEF IsLast, TypeOK
  <2>3. RequestsBounded'
    BY <2>1, FetchAssumption DEF RequestsBounded
  <2>4. CredentialsStay'
    BY <1>1, <2>1 DEF CredentialsStay, FirstAuth
  <2>5. LastBaseDecides'
    BY <2>1 DEF LastBaseDecides
  <2>6. base' - 1 = base
    BY <2>1 DEF TypeOK
  <2>7. QED
    BY <1>1, <2>1, <2>2, <2>3, <2>4, <2>5, <2>6 DEF FetchInv
<1>4. QED
  BY <1>2, <1>3

LEMMA RetryInv ==
  ASSUME TypeOK, FetchInv, outcome = "running", AttemptLeft, NEW wait, Retry(wait)
  PROVE  FetchInv'
<1>1. /\ attempt' = attempt + 1 /\ requests' = requests + 1
      /\ bases' = bases /\ mode' = mode /\ token' = token
      /\ base' = base /\ hops' = hops /\ tried' = tried /\ auth' = auth
      /\ issued' = issued /\ outcome' = outcome /\ failures' = failures
  BY DEF Retry, Send, call
<1>2. RequestsBounded'
  BY <1>1, FetchAssumption DEF TypeOK, FetchInv, RequestsBounded, AttemptLeft
<1>3. CredentialsStay'
  BY <1>1 DEF FetchInv, CredentialsStay
<1>4. requests' = attempt' + hops' + (IF tried' THEN 2 ELSE 0)
  BY <1>1 DEF TypeOK, FetchInv
<1>5. LastBaseDecides'
  BY <1>1 DEF LastBaseDecides
<1>6. QED
  BY <1>1, <1>2, <1>3, <1>4, <1>5 DEF FetchInv

-----------------------------------------------------------------------------
(* Every answer is one of those ways, a redirect or the realm's grant. *)

Ends ==
    \E result \in {"served", "unauthorized", "forbidden", "corrupt", "escaped"}, n \in 0 .. 2 :
        /\ n <= 1 \/ ~tried
        /\ End(result)
        /\ requests' = requests + n

Fails == base \in DOMAIN bases /\ \E failure \in Failures : Fail(failure)

(* Every retry waits at most what the schedule has left. *)
Retries == AttemptLeft /\ \E wait \in 0 .. Remaining[attempt] : Retry(wait)

(* The planned wait is no more than what is left. *)
LEMMA PlannedWait ==
  ASSUME TypeOK, AttemptLeft
  PROVE  Wait(attempt) \in 0 .. Remaining[attempt]
<1>1. attempt \in 0 .. Attempts /\ attempt + 1 < Attempts
  BY FetchAssumption DEF TypeOK, AttemptLeft
<1>2. Wait(attempt) \in Nat /\ Remaining[attempt] \in Nat /\ Wait(attempt) <= Remaining[attempt]
  BY <1>1, WaitType, RemainingType
<1>3. QED
  BY <1>2

LEMMA StepCases ==
  ASSUME TypeOK, Next
  PROVE  \/ outcome = "running" /\ (Ends \/ Fails \/ Retries)
         \/ Redirects /\ hops < MaxRedirects
         \/ RealmGrants \/ ForeignScheme \/ NoBases
         \/ UNCHANGED vars
<1> USE DEF Asked, Failures
<1>1. CASE Finished
  BY <1>1 DEF Finished
<1>2. CASE Serves \/ Oversize \/ Escapes \/ Unauthorized \/ Forbids \/ FileServes \/ FileTooLarge \/ FileFails
  BY <1>2 DEF Serves, Oversize, Escapes, Unauthorized, Forbids, FileServes, FileTooLarge,
              FileFails, Send, Ends
<1>3. CASE RealmRefuses \/ RealmEscapes
  BY <1>3 DEF RealmRefuses, RealmEscapes, MayAskRealm, Send, Ends
<1>4. CASE Refuses \/ RedirectsNowhere \/ OtherStatus \/ FileMissing
  BY <1>4 DEF Refuses, RedirectsNowhere, OtherStatus, FileMissing, Fails
<1>5. CASE TimesOut \/ Busy
  BY <1>5, PlannedWait DEF TimesOut, Busy, RetryOrFail, Fails, Retries
<1>6. CASE NotFound
  BY <1>6, PlannedWait DEF NotFound, RetryOrFail, Fails, Retries
<1>7. ASSUME NEW r \in RetryAfters, BusyFor(r) PROVE outcome = "running" /\ (Fails \/ Retries)
  <2>1. CASE AttemptLeft /\ Fits(r)
    <3>1. r \in 0 .. Remaining[attempt]
      <4>1. r \in Nat /\ attempt \in 0 .. Attempts
        BY FetchAssumption DEF TypeOK
      <4>2. Remaining[attempt] \in Nat
        BY <4>1, RemainingType
      <4>3. QED
        BY <2>1, <4>1, <4>2 DEF Fits
    <3>2. QED
      BY <1>7, <2>1, <3>1 DEF BusyFor, Retries
  <2>2. CASE ~(AttemptLeft /\ Fits(r))
    BY <1>7, <2>2 DEF BusyFor, Fails
  <2>3. QED
    BY <2>1, <2>2
<1>8. CASE Redirects
  BY <1>8 DEF Redirects, Fails
<1>9. CASE RealmGrants \/ ForeignScheme \/ NoBases
  BY <1>9
<1>10. QED
  BY <1>1, <1>2, <1>3, <1>4, <1>5, <1>6, <1>7, <1>8, <1>9 DEF Next, HttpAnswers, FileAnswers

LEMMA TypeStep ==
  ASSUME TypeOK, Next
  PROVE  TypeOK'
<1>1. CASE Ends
  BY <1>1, EndType DEF Ends, Outcomes
<1>2. CASE Fails
  BY <1>2, FailType DEF Fails
<1>3. CASE Retries
  BY <1>3, RetryType DEF Retries
<1>4. CASE Redirects /\ hops < MaxRedirects
  BY <1>4, FetchAssumption DEF TypeOK, Redirects, DropAuth, Send, call
<1>5. CASE RealmGrants
  BY <1>5 DEF TypeOK, RealmGrants, Send, call
<1>6. CASE ForeignScheme \/ NoBases
  BY <1>6 DEF TypeOK, ForeignScheme, NoBases, End, Outcomes, Failures, call, request
<1>7. CASE UNCHANGED vars
  BY <1>7 DEF TypeOK, vars, call, request
<1>8. QED
  BY <1>1, <1>2, <1>3, <1>4, <1>5, <1>6, <1>7, StepCases

LEMMA InvStep ==
  ASSUME TypeOK, FetchInv, Next
  PROVE  FetchInv'
<1>1. CASE outcome = "running" /\ Ends
  BY <1>1, EndInv DEF Ends
<1>2. CASE outcome = "running" /\ Fails
  BY <1>2, FailInv DEF Fails
<1>3. CASE outcome = "running" /\ Retries
  BY <1>3, RetryInv DEF Retries
<1>4. CASE Redirects /\ hops < MaxRedirects
  <2>1. /\ hops' = hops + 1 /\ auth' = "none" /\ requests' = requests + 1
        /\ bases' = bases /\ mode' = mode /\ token' = token
        /\ base' = base /\ attempt' = attempt /\ tried' = tried
        /\ issued' = issued /\ outcome' = outcome /\ failures' = failures
        /\ outcome = "running"
    BY <1>4 DEF Redirects, DropAuth, Send, call, Asked
  <2>2. RequestsBounded'
    BY <1>4, <2>1, FetchAssumption DEF TypeOK, FetchInv, RequestsBounded
  <2>3. CredentialsStay' /\ LastBaseDecides'
    BY <2>1 DEF CredentialsStay, LastBaseDecides
  <2>4. requests' = attempt' + hops' + (IF tried' THEN 2 ELSE 0)
    BY <2>1 DEF TypeOK, FetchInv
  <2>5. QED
    BY <2>1, <2>2, <2>3, <2>4 DEF FetchInv
<1>5. CASE RealmGrants
  <2>1. /\ tried' = TRUE /\ ~tried /\ ~token /\ auth' = "anonymous" /\ issued' = hops
        /\ requests' = requests + 2
        /\ bases' = bases /\ mode' = mode /\ token' = token
        /\ base' = base /\ attempt' = attempt /\ hops' = hops
        /\ outcome' = outcome /\ failures' = failures
        /\ outcome = "running"
    BY <1>5 DEF RealmGrants, MayAskRealm, Send, call, Asked
  <2>2. RequestsBounded'
    BY <2>1, FetchAssumption DEF TypeOK, FetchInv, RequestsBounded
  <2>3. CredentialsStay' /\ LastBaseDecides'
    BY <2>1 DEF CredentialsStay, LastBaseDecides
  <2>4. requests' = attempt' + hops' + 2
    BY <2>1 DEF TypeOK, FetchInv
  <2>5. QED
    BY <2>1, <2>2, <2>3, <2>4 DEF FetchInv
<1>6. CASE ForeignScheme \/ NoBases
  <2>1. /\ outcome = "running" /\ outcome' = "unreachable" /\ UNCHANGED requests
        /\ UNCHANGED <<bases, mode, token, base, attempt, hops, tried, auth, issued, failures>>
        /\ bases = <<>> \/ bases[base] = "foreign"
    BY <1>6 DEF ForeignScheme, NoBases, End, call, request, Asked
  <2>2. RequestsBounded' /\ CredentialsStay'
    BY <2>1 DEF FetchInv, RequestsBounded, CredentialsStay
  <2>3. LastBaseDecides'
    BY <2>1 DEF TypeOK, FetchInv, LastBaseDecides
  <2>4. QED
    BY <2>1, <2>2, <2>3 DEF FetchInv
<1>7. CASE UNCHANGED vars
  BY <1>7 DEF FetchInv, RequestsBounded, CredentialsStay, LastBaseDecides, vars, call, request
<1>8. QED
  BY <1>1, <1>2, <1>3, <1>4, <1>5, <1>6, <1>7, StepCases

-----------------------------------------------------------------------------
(* The types of a fetch, for any bases, schedule and answers. *)
THEOREM TypeCorrect == Spec => []TypeOK
<1>1. Init => TypeOK
  <2> SUFFICES ASSUME Init PROVE TypeOK
    OBVIOUS
  <2>1. auth \in {"none", "token", "anonymous"}
    BY DEF Init, FirstAuth
  <2>2. 0 \in 0 .. Attempts - 1 /\ 0 \in 0 .. MaxRedirects
    BY FetchAssumption
  <2>3. failures \in Seq(Failures) /\ requests \in Nat /\ outcome \in Outcomes /\ base \in Nat \ {0}
    BY DEF Init, Outcomes
  <2>4. QED
    BY <2>1, <2>2, <2>3 DEF Init, TypeOK
<1>2. TypeOK /\ [Next]_vars => TypeOK'
  BY TypeStep DEF TypeOK, vars, call, request
<1>3. QED
  BY <1>1, <1>2, PTL DEF Spec

(* The inductive invariant: what was sent is accounted for by the retries,    *)
(* redirects and token exchange of the request, and every base before this    *)
(* one has failed.                                                            *)
THEOREM FetchInvariant == Spec => []FetchInv
<1>1. Init => FetchInv
  BY FetchAssumption DEF Init, FetchInv, FirstAuth, RequestsBounded, CredentialsStay, LastBaseDecides
<1>2. TypeOK /\ FetchInv /\ [Next]_vars => FetchInv'
  BY InvStep DEF FetchInv, RequestsBounded, CredentialsStay, LastBaseDecides, vars, call, request
<1>3. QED
  BY <1>1, <1>2, TypeCorrect, PTL DEF Spec

(* However a host mixes retryable answers, redirects and challenges, it gets  *)
(* at most Attempts + MaxRedirects + 2 requests of one fetch.                 *)
THEOREM RequestsBoundedAlways == Spec => []RequestsBounded
<1>1. FetchInv => RequestsBounded
  BY DEF FetchInv
<1>2. QED
  BY <1>1, FetchInvariant, PTL

(* No credential is sent past the hop it was set for, through any sequence of *)
(* redirects, retries and challenges.                                         *)
THEOREM CredentialsStayAlways == Spec => []CredentialsStay
<1>1. FetchInv => CredentialsStay
  BY DEF FetchInv
<1>2. QED
  BY <1>1, FetchInvariant, PTL

(* Only a tag is ever reported as unpublished, and only when the last base    *)
(* said so after every other one had failed.                                  *)
THEOREM LastBaseDecidesAlways == Spec => []LastBaseDecides
<1>1. FetchInv => LastBaseDecides
  BY DEF FetchInv
<1>2. QED
  BY <1>1, FetchInvariant, PTL

(* No step waits past what was allowed before the attempt it leads to. *)
LEMMA WaitsStep ==
  ASSUME TypeOK, WaitsAllowed, Next
  PROVE  WaitsAllowed'
<1> USE DEF WaitsAllowed
<1>1. CASE UNCHANGED <<slept, attempt>>
  BY <1>1
<1>2. CASE Ends \/ (Redirects /\ hops < MaxRedirects) \/ RealmGrants \/ ForeignScheme
             \/ NoBases \/ UNCHANGED vars
  BY <1>1, <1>2
     DEF Ends, End, Redirects, RealmGrants, ForeignScheme, NoBases, vars, request
<1>3. CASE Fails
  <2>1. UNCHANGED <<slept, attempt>> \/ (attempt' = 0 /\ slept' = 0)
    BY <1>3 DEF Fails, Fail, request
  <2>2. QED
    BY <1>1, <2>1, AllowedStep
<1>4. CASE Retries
  <2>1. PICK wait \in 0 .. Remaining[attempt] : Retry(wait)
    BY <1>4 DEF Retries
  <2>2. /\ attempt \in 0 .. Attempts - 1 /\ Remaining[attempt] \in Nat
        /\ Allowed[attempt] \in Nat
    BY FetchAssumption, RemainingType, AllowedType DEF TypeOK
  <2>3. Allowed[attempt + 1] = Allowed[attempt] + Remaining[attempt]
    BY <2>2, AllowedStep
  <2>4. slept + wait \in 0 .. Allowed[attempt + 1]
    BY <2>1, <2>2, <2>3
  <2>5. attempt' = attempt + 1 /\ slept' = slept + wait
    BY <2>1 DEF Retry
  <2>6. QED
    BY <2>4, <2>5
<1>5. QED
  BY <1>2, <1>3, <1>4, StepCases

(* fetch-v1.md section 7: however a host mixes Retry-After values with        *)
(* answers that are retried on schedule, before each attempt at most what the *)
(* schedule then had left was waited, for any schedule.                       *)
THEOREM WaitsAllowedAlways == Spec => []WaitsAllowed
<1>1. Init => WaitsAllowed
  BY AllowedStep DEF Init, WaitsAllowed
<1>2. TypeOK /\ WaitsAllowed /\ [Next]_vars => WaitsAllowed'
  BY WaitsStep DEF WaitsAllowed, vars, request
<1>3. QED
  BY <1>1, <1>2, TypeCorrect, PTL DEF Spec

(* What an answer of a running fetch does: it ends the call, or brings the    *)
(* next of its bases into play, or is another of the requests that            *)
(* RequestsBounded allows this base.                                          *)
Moves ==
    \/ outcome' # "running"
    \/ base' = base + 1 /\ base' <= Len(bases)
    \/ base' = base /\ requests' > requests

(* _http_get_once and fetch_from_bases have no loop that stands still: no     *)
(* answer, in whatever order, leaves a fetch where it was, so with            *)
(* RequestsBounded a fetch over any bases is over after finitely many.        *)
THEOREM EveryAnswerMoves == Spec => [][Moves]_vars
<1>1. ASSUME TypeOK, Next PROVE Moves \/ UNCHANGED vars
  <2>0. requests \in Nat
    BY <1>1 DEF TypeOK
  <2>1. CASE outcome = "running" /\ Ends
    BY <2>1 DEF Ends, End, Moves
  <2>2. CASE outcome = "running" /\ Fails
    <3>1. PICK failure \in Failures : Fail(failure)
      BY <2>2 DEF Fails
    <3>2. CASE IsLast
      BY <3>1, <3>2 DEF Fail, LastWord, Moves
    <3>3. CASE ~IsLast
      <4>1. base \in 1 .. Len(bases) /\ base # Len(bases)
        BY <2>2, <3>3, BasesType DEF Fails, IsLast
      <4>2. base' = base + 1
        BY <3>1, <3>3 DEF Fail
      <4>3. QED
        BY <4>1, <4>2, BasesType DEF Moves
    <3>4. QED
      BY <3>2, <3>3
  <2>3. CASE outcome = "running" /\ Retries
    BY <2>0, <2>3 DEF Retries, Retry, Send, Moves
  <2>4. CASE Redirects /\ hops < MaxRedirects
    BY <2>0, <2>4 DEF Redirects, Send, Moves
  <2>5. CASE RealmGrants
    BY <2>0, <2>5 DEF RealmGrants, Send, Moves
  <2>6. CASE ForeignScheme \/ NoBases
    BY <2>6 DEF ForeignScheme, NoBases, End, Moves
  <2>7. QED
    BY <1>1, <2>1, <2>2, <2>3, <2>4, <2>5, <2>6, StepCases
<1>2. TypeOK /\ [Next]_vars => [Moves]_vars
  BY <1>1
<1>3. QED
  BY <1>2, TypeCorrect, PTL DEF Spec
=============================================================================
