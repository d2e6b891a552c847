----------------------------- MODULE FetchBases -----------------------------
(***************************************************************************)
(* One fetch_from_bases call of _ocifetch/_http.py: a path is asked of an  *)
(* ordered list of bases, each answering whatever a host may answer, under *)
(* the one retry table, the redirect limit, the download token and the     *)
(* anonymous token flow.  An action is one answer and what it leads to.    *)
(***************************************************************************)
EXTENDS Integers, Sequences

CONSTANTS
    BaseLists,      \* the lists of bases a caller may configure, by scheme
    Attempts,       \* RETRY_ATTEMPTS
    FirstWait,      \* RETRY_FIRST_WAIT_S
    Multiplier,     \* RETRY_MULTIPLIER
    RetryAfters,    \* the Retry-After values hosts answer, in seconds
    MaxRedirects    \* MAX_REDIRECTS

Schemes == {"http", "file", "foreign"}

ASSUME FetchAssumption ==
    /\ \A list \in BaseLists : list \in Seq(Schemes)
    /\ Attempts \in Nat \ {0}
    /\ FirstWait \in Nat /\ Multiplier \in Nat
    /\ RetryAfters \subseteq Nat
    /\ MaxRedirects \in Nat

VARIABLES
    bases, mode, token,  \* the call: its bases, tag or digest, a download token
    base,                \* the base that is asked
    attempt, hops,       \* the request: retries and redirects so far
    tried,               \* the request: tried_anon_flow
    auth,                \* what its Authorization header holds
    outcome,             \* how the call ended
    failures,            \* history: how each base before this one failed
    requests, slept,     \* history: requests sent to and waits spent on this base
    issued               \* history: the hop the Authorization header was set for

call == <<bases, mode, token>>
request == <<attempt, hops, tried, auth, issued>>
vars == <<call, request, base, outcome, failures, requests, slept>>

Failures == {"notfound", "unreachable"}
Outcomes == {"running", "served", "unauthorized", "forbidden", "corrupt", "escaped"} \cup Failures

(* A request starts with the download token, when there is one. *)
FirstAuth(t) == IF t THEN "token" ELSE "none"

Init ==
    /\ bases \in BaseLists
    /\ mode \in {"tag", "digest"}
    /\ token \in BOOLEAN
    /\ base = 1
    /\ attempt = 0 /\ hops = 0 /\ tried = FALSE
    /\ auth = FirstAuth(token) /\ issued = 0
    /\ outcome = "running"
    /\ failures = <<>>
    /\ requests = 0 /\ slept = 0

-----------------------------------------------------------------------------
(* The retry table. *)

(* RETRY_MULTIPLIER ** k *)
Power[k \in 0 .. Attempts] == IF k = 0 THEN 1 ELSE Multiplier * Power[k - 1]

Wait(k) == FirstWait * Power[k]

Remaining[k \in 0 .. Attempts] ==
    IF k + 1 >= Attempts THEN 0 ELSE Wait(k) + Remaining[k + 1]

AttemptLeft == attempt + 1 < Attempts

(* Mutant: measured against the whole schedule. *)
FitsWhole(r) == r <= Remaining[0]
Fits(r) == r <= Remaining[attempt]

-----------------------------------------------------------------------------
(* How a request ends. *)

Asked(scheme) == /\ outcome = "running"
                 /\ base \in DOMAIN bases
                 /\ bases[base] = scheme

Send(n) == requests' = requests + n

End(result) ==
    /\ outcome' = result
    /\ UNCHANGED <<call, request, base, failures, slept>>

(* What the last base's failure becomes: only a tag may be unpublished. *)
(* Mutant: a digest too.                                                *)
LastWordOfAny(failure) == failure
LastWord(failure) ==
    IF mode = "tag" /\ failure = "notfound" THEN "notfound" ELSE "unreachable"

IsLast == base = Len(bases)

(* This base failed: the next one is asked afresh, or the call has failed. *)
Fail(failure) ==
    /\ failures' = Append(failures, failure)
    /\ UNCHANGED call
    /\ IF IsLast
       THEN /\ outcome' = LastWord(failure)
            /\ Send(1)
            /\ UNCHANGED <<base, request, slept>>
       ELSE /\ base' = base + 1
            /\ attempt' = 0 /\ hops' = 0 /\ tried' = FALSE
            /\ auth' = FirstAuth(token) /\ issued' = 0
            /\ requests' = 0 /\ slept' = 0
            /\ UNCHANGED outcome

(* The same host again, after a wait; the header stays as it is. *)
Retry(wait) ==
    /\ attempt' = attempt + 1
    /\ slept' = slept + wait
    /\ Send(1)
    /\ UNCHANGED <<call, base, hops, tried, auth, issued, outcome, failures>>

RetryOrFail == IF AttemptLeft THEN Retry(Wait(attempt)) ELSE Fail("unreachable")

-----------------------------------------------------------------------------
(* What an http base may answer. *)

Serves == Asked("http") /\ End("served") /\ Send(1)

(* A body over the caller's cap, of an error answer too: no other base is asked. *)
Oversize == Asked("http") /\ End("corrupt") /\ Send(1)

(* Nothing listens: waiting cannot change that. *)
Refuses == Asked("http") /\ Fail("unreachable")

TimesOut == Asked("http") /\ RetryOrFail

(* The body of an error answer stalls inside the handler of that answer, whose *)
(* sibling handlers do not see it; or the status line is none.                 *)
Escapes == Asked("http") /\ End("escaped") /\ Send(1)

(* No hop keeps the header.  Mutant: it is kept. *)
KeepAuth == auth
DropAuth == "none"

Redirects ==
    /\ Asked("http")
    /\ IF hops < MaxRedirects
       THEN /\ hops' = hops + 1
            /\ auth' = DropAuth
            /\ Send(1)
            /\ UNCHANGED <<call, base, attempt, tried, issued, outcome, failures, slept>>
       ELSE Fail("unreachable")

RedirectsNowhere == Asked("http") /\ Fail("unreachable")

(* A 401 with a Bearer challenge starts the anonymous flow, once, and not when *)
(* a download token is configured.  Mutant: each time.                         *)
MayAskRealmAgain == ~token
MayAskRealm == ~tried /\ ~token

RealmGrants ==
    /\ Asked("http")
    /\ MayAskRealm
    /\ tried' = TRUE
    /\ auth' = "anonymous" /\ issued' = hops
    /\ Send(2)
    /\ UNCHANGED <<call, base, attempt, hops, outcome, failures, slept>>

RealmRefuses == Asked("http") /\ MayAskRealm /\ End("unauthorized") /\ Send(2)

(* Its answer is JSON but no object. *)
RealmEscapes == Asked("http") /\ MayAskRealm /\ End("escaped") /\ Send(2)

(* No challenge, or the flow was used, or a token was. *)
Unauthorized == Asked("http") /\ End("unauthorized") /\ Send(1)

Forbids == Asked("http") /\ End("forbidden") /\ Send(1)

(* A listed digest is retried on the last base; anything else is the next base's. *)
NotFound ==
    /\ Asked("http")
    /\ IF mode = "digest" /\ IsLast THEN RetryOrFail ELSE Fail("notfound")

(* One of the retry statuses, without a Retry-After or with one that is not honoured. *)
Busy == Asked("http") /\ RetryOrFail

(* 429 or 503 with a Retry-After: honoured whole, or the base is given up. *)
BusyFor(r) ==
    /\ Asked("http")
    /\ IF AttemptLeft /\ Fits(r) THEN Retry(r) ELSE Fail("unreachable")

OtherStatus == Asked("http") /\ Fail("unreachable")

-----------------------------------------------------------------------------
(* The other schemes. *)

FileServes == Asked("file") /\ End("served") /\ Send(1)
FileTooLarge == Asked("file") /\ End("corrupt") /\ Send(1)
FileMissing == Asked("file") /\ Fail("notfound")

(* A directory, or no permission: no FileNotFoundError. *)
FileFails == Asked("file") /\ End("escaped") /\ Send(1)

(* A scheme of neither kind ends the call, as no base at all does. *)
ForeignScheme == Asked("foreign") /\ End("unreachable") /\ UNCHANGED requests

NoBases ==
    /\ outcome = "running"
    /\ bases = <<>>
    /\ End("unreachable")
    /\ UNCHANGED requests

-----------------------------------------------------------------------------
HttpAnswers ==
    \/ Serves \/ Oversize \/ Refuses \/ TimesOut \/ Escapes
    \/ Redirects \/ RedirectsNowhere
    \/ RealmGrants \/ RealmRefuses \/ RealmEscapes \/ Unauthorized \/ Forbids
    \/ NotFound \/ Busy \/ OtherStatus
    \/ \E r \in RetryAfters : BusyFor(r)

FileAnswers == FileServes \/ FileTooLarge \/ FileMissing \/ FileFails

Finished == outcome # "running" /\ UNCHANGED vars

Next == HttpAnswers \/ FileAnswers \/ ForeignScheme \/ NoBases \/ Finished

Spec == Init /\ [][Next]_vars

-----------------------------------------------------------------------------
(***************************************************************************)
(* Properties.                                                             *)
(***************************************************************************)

(* Every variable has its type (slept is in WaitsAllowed); no base is asked an *)
(* attempt too many.                                                           *)
TypeOK ==
    /\ bases \in BaseLists
    /\ mode \in {"tag", "digest"}
    /\ token \in BOOLEAN
    /\ base \in Nat \ {0}
    /\ attempt \in 0 .. Attempts - 1
    /\ hops \in 0 .. MaxRedirects
    /\ tried \in BOOLEAN
    /\ auth \in {"none", "token", "anonymous"}
    /\ issued \in 0 .. MaxRedirects
    /\ outcome \in Outcomes
    /\ failures \in Seq(Failures)
    /\ requests \in Nat

(* fetch-v1.md sections 2 and 7: whatever a base answers, in whatever order,  *)
(* retries, redirects and the token flow together, it is asked a bounded      *)
(* number of times (the exchange with the realm counts as one).               *)
RequestsBounded == requests <= Attempts + MaxRedirects + 2

(* fetch-v1.md section 2: CHTYPES_DOWNLOAD_TOKEN is "never forwarded across a *)
(* redirect", nor is an anonymous token, through the retries after a hop too; *)
(* and the two are never mixed.                                               *)
CredentialsStay ==
    /\ auth # "none" => issued = hops
    /\ auth = "token" => token
    /\ auth = "anonymous" => ~token /\ tried

(* fetch-v1.md section 7: "a Retry-After past the remaining budget is refused *)
(* rather than shortened": before each retry at most what the schedule then   *)
(* had left was waited, so one base costs at most the sum of that.            *)
Allowed[k \in 0 .. Attempts] == IF k = 0 THEN 0 ELSE Allowed[k - 1] + Remaining[k - 1]
WaitsAllowed == slept \in 0 .. Allowed[attempt]

(* _translate_transport_error: "a bare NotFoundHttpError can only come from a *)
(* TAG lookup"; and the outcome of a call that fails follows the last base,   *)
(* after every one was asked in order.                                        *)
LastBaseDecides ==
    /\ outcome = "notfound" => /\ mode = "tag"
                               /\ Len(failures) = Len(bases)
                               /\ failures[Len(bases)] = "notfound"
    /\ outcome = "unreachable" =>
           \/ Len(failures) = Len(bases) /\
                  (bases # <<>> => mode = "digest" \/ failures[Len(bases)] = "unreachable")
           \/ bases[base] = "foreign"
=============================================================================
