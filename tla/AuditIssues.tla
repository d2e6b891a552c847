------------------------------ MODULE AuditIssues ------------------------------
(***************************************************************************)
(* The daily dependency audit: scanners report advisories on the branches  *)
(* and a run keeps one labeled issue of each (scripts/audit-issues.py,     *)
(* .github/workflows/dependency-audit.yml).  A run leaves nothing to the   *)
(* next one but the issues: it scans, lists them once, plans, and makes    *)
(* its changes call by call.  Any call may fail and end it half way, people*)
(* close, reopen, edit and relabel issues meanwhile, and what the scanners *)
(* report changes.  The workflow's concurrency group runs one at a time.   *)
(*                                                                         *)
(* What an issue's body says (ecosystems, packages, fixed versions,        *)
(* branches) is the set of scans that report its advisory; a title names   *)
(* the advisory or nothing.  Dry runs, the comments' texts and issues that *)
(* never named an advisory are left out, and planned actions are taken in  *)
(* any order: they are of different issues.                                *)
(***************************************************************************)
EXTENDS Naturals, FiniteSets, Sequences

CONSTANTS
    Advisory,
    Scan,        \* one scanner on one branch
    MaxEvents    \* bound: failures, people's changes and new reports

ASSUME AuditAssumption == MaxEvents \in Nat

VARIABLES
    reports,   \* what each scan would report now
    issues,    \* the issues of advisories, in the order of their numbers
    pc,        \* where the run is
    left,      \* scans whose output it has yet to read
    found,     \* which advisory which scan reported
    errors,    \* scans that failed
    todo,      \* planned actions it has not begun
    doing,     \* the action it is at, with the calls left of it
    events,    \* bound: events left
    absent,    \* history: reports that were absent at some moment of the run
    clean,     \* history: nothing failed, changed or was edited during the run
    relabeled  \* history: how often somebody put a label or a title back

run == <<pc, left, found, errors, todo, doing>>
vars == <<reports, issues, run, events, absent, clean, relabeled>>

NoAction == [id |-> "none", number |-> 0, calls |-> <<>>]

Absent(r) == {x \in Advisory \X Scan : x[1] \notin r[x[2]]}

(* Any reports, and at most one issue, filed by hand.                        *)
Init ==
    /\ reports \in [Scan -> SUBSET Advisory]
    /\ issues \in {<<>>} \cup
          {<<[id |-> a, open |-> o, labeled |-> TRUE, titled |-> TRUE, body |-> {}]>> :
              a \in Advisory, o \in BOOLEAN}
    /\ pc = "idle" /\ left = {} /\ found = {} /\ errors = {}
    /\ todo = {} /\ doing = NoAction
    /\ events = MaxEvents /\ absent = {} /\ clean = FALSE /\ relabeled = 0

-----------------------------------------------------------------------------
(* plan. *)

Reporting(a) == {s \in Scan : <<a, s>> \in found}

(* gh lists what has the label, plan looks at what has an advisory's title. *)
OpenOnly(a) ==   \* mutant: closed issues are not listed
    {n \in DOMAIN issues :
        issues[n].labeled /\ issues[n].titled /\ issues[n].id = a /\ issues[n].open}
IssuesOf(a) ==
    {n \in DOMAIN issues : issues[n].labeled /\ issues[n].titled /\ issues[n].id = a}

OwnNewest(a) ==   \* mutant: the newest, closed or not
    CHOOSE n \in IssuesOf(a) : \A m \in IssuesOf(a) : m <= n
(* gh lists the newest first; an open issue is preferred to a closed one.   *)
Own(a) ==
    LET opens == {n \in IssuesOf(a) : issues[n].open}
        these == IF opens # {} THEN opens ELSE IssuesOf(a)
    IN CHOOSE n \in these : \A m \in these : m <= n

Creates(a) == Reporting(a) # {} /\ IssuesOf(a) = {}
Reopens(a) == Reporting(a) # {} /\ IssuesOf(a) # {} /\ ~issues[Own(a)].open
UpdatesEmpty(a) ==   \* mutant: a body that says something is left as it is
    /\ Reporting(a) # {} /\ IssuesOf(a) # {} /\ issues[Own(a)].open
    /\ issues[Own(a)].body = {}
Updates(a) ==
    /\ Reporting(a) # {} /\ IssuesOf(a) # {} /\ issues[Own(a)].open
    /\ issues[Own(a)].body # Reporting(a)
ClosesAnyway(a) ==   \* mutant: a scan that failed reports nothing
    Reporting(a) = {} /\ IssuesOf(a) # {} /\ issues[Own(a)].open
Closes(a) ==
    /\ errors = {}
    /\ Reporting(a) = {} /\ IssuesOf(a) # {} /\ issues[Own(a)].open

OnOwn(A, calls) == {[id |-> a, number |-> Own(a), calls |-> calls] : a \in A}
Create(a) == [id |-> a, number |-> 0, calls |-> <<"create">>]

Plan ==
    {Create(a) : a \in {b \in Advisory : Creates(b)}}
    \cup OnOwn({a \in Advisory : Reopens(a)}, <<"edit", "reopen", "comment">>)
    \cup OnOwn({a \in Advisory : Updates(a)}, <<"edit", "comment">>)
    \cup OnOwn({a \in Advisory : Closes(a)}, <<"comment", "close">>)

-----------------------------------------------------------------------------
(* A run. *)

Event == events > 0 /\ events' = events - 1 /\ clean' = FALSE

Begin ==
    /\ pc = "idle" /\ pc' = "scan"
    /\ left' = Scan
    /\ absent' = Absent(reports) /\ clean' = TRUE
    /\ UNCHANGED <<reports, issues, found, errors, todo, doing, events, relabeled>>

ReadScan(s) ==
    /\ pc = "scan" /\ s \in left /\ left' = left \ {s}
    /\ found' = found \cup {<<a, s>> : a \in reports[s]}
    /\ UNCHANGED <<reports, issues, pc, errors, todo, doing, events, absent, clean, relabeled>>

(* Output that is missing, malformed or of a scanner that failed.           *)
ScanFails(s) ==
    /\ pc = "scan" /\ s \in left /\ left' = left \ {s}
    /\ errors' = errors \cup {s}
    /\ Event
    /\ UNCHANGED <<reports, issues, pc, found, todo, doing, absent, relabeled>>

ListAndPlan ==
    /\ pc = "scan" /\ left = {}
    /\ pc' = "apply" /\ todo' = Plan
    /\ UNCHANGED <<reports, issues, left, found, errors, doing, events, absent, clean, relabeled>>

Take(x) ==
    /\ pc = "apply" /\ doing.calls = <<>>
    /\ x \in todo /\ todo' = todo \ {x} /\ doing' = x
    /\ UNCHANGED <<reports, issues, pc, left, found, errors, events, absent, clean, relabeled>>

Calls(call) ==
    /\ pc = "apply" /\ doing.calls # <<>> /\ Head(doing.calls) = call
    /\ doing' = [doing EXCEPT !.calls = Tail(doing.calls)]
    /\ UNCHANGED <<reports, pc, left, found, errors, todo, events, absent, clean, relabeled>>

CreateIssue ==
    /\ Calls("create")
    /\ issues' = Append(issues, [id |-> doing.id, open |-> TRUE, labeled |-> TRUE,
                                 titled |-> TRUE, body |-> Reporting(doing.id)])
(* The title is written again as well, the label is not.                    *)
Edit ==
    /\ Calls("edit")
    /\ issues' = [issues EXCEPT ![doing.number].body = Reporting(doing.id),
                                ![doing.number].titled = TRUE]
Reopen ==
    /\ Calls("reopen")
    /\ issues' = [issues EXCEPT ![doing.number].open = TRUE]
Comment ==
    /\ Calls("comment")
    /\ UNCHANGED issues
Close ==
    /\ Calls("close")
    /\ issues' = [issues EXCEPT ![doing.number].open = FALSE]

Ends ==
    /\ pc' = "idle" /\ left' = {} /\ found' = {} /\ errors' = {}
    /\ todo' = {} /\ doing' = NoAction /\ absent' = {} /\ clean' = FALSE
    /\ UNCHANGED <<reports, issues, relabeled>>

Finish ==
    /\ pc = "apply" /\ todo = {} /\ doing.calls = <<>>
    /\ Ends /\ UNCHANGED events

(* A call to GitHub fails, or the job is cancelled or out of time: what was  *)
(* done stands.                                                              *)
Die ==
    /\ pc # "idle" /\ Event
    /\ Ends

Run ==
    \/ Begin \/ ListAndPlan \/ Finish
    \/ \E s \in Scan : ReadScan(s)
    \/ \E x \in todo : Take(x)
    \/ CreateIssue \/ Edit \/ Reopen \/ Comment \/ Close

-----------------------------------------------------------------------------
(* The branches and the scanners' databases, and people. *)

ReportsChange ==
    /\ Event
    /\ \E s \in Scan, r \in SUBSET Advisory :
          r # reports[s] /\ reports' = [reports EXCEPT ![s] = r]
    /\ absent' = IF pc = "idle" THEN absent ELSE absent \cup Absent(reports')
    /\ UNCHANGED <<issues, run, relabeled>>

PersonEdits ==
    /\ Event
    /\ \E n \in DOMAIN issues :
          \/ issues' = [issues EXCEPT ![n].open = ~issues[n].open]
          \/ issues' = [issues EXCEPT ![n].body = {}]
    /\ UNCHANGED <<reports, run, absent, relabeled>>

(* The label, or the title that names the advisory, goes or comes back.      *)
PersonRelabels ==
    /\ Event
    /\ \E n \in DOMAIN issues :
          /\ \/ issues' = [issues EXCEPT ![n].labeled = ~issues[n].labeled]
             \/ issues' = [issues EXCEPT ![n].titled = ~issues[n].titled]
          /\ relabeled' = IF issues'[n].labeled /\ issues'[n].titled
                          THEN relabeled + 1 ELSE relabeled
    /\ UNCHANGED <<reports, run, absent>>

Next ==
    \/ Run \/ (\E s \in Scan : ScanFails(s)) \/ Die
    \/ ReportsChange \/ PersonEdits \/ PersonRelabels

(* The schedule starts a run every day and a run goes on; what fails does   *)
(* not fail for ever.                                                       *)
Spec == Init /\ [][Next]_vars /\ WF_vars(Run)

-----------------------------------------------------------------------------
Issue == [id : Advisory, open : BOOLEAN, labeled : BOOLEAN, titled : BOOLEAN,
          body : SUBSET Scan]
CallsLeft ==
    {<<>>, <<"create">>, <<"edit", "reopen", "comment">>, <<"reopen", "comment">>, <<"comment">>,
     <<"edit", "comment">>, <<"comment", "close">>, <<"close">>}
Action == [id : Advisory, number : Nat, calls : CallsLeft]

(* The types; a run that is not applying has no action of its own.          *)
TypeOK ==
    /\ reports \in [Scan -> SUBSET Advisory]
    /\ issues \in Seq(Issue)
    /\ pc \in {"idle", "scan", "apply"}
    /\ left \subseteq Scan /\ errors \subseteq Scan
    /\ found \subseteq Advisory \X Scan /\ absent \subseteq Advisory \X Scan
    /\ todo \subseteq Action /\ doing \in Action \cup {NoAction}
    /\ pc # "apply" => todo = {} /\ doing = NoAction
    /\ events \in 0..MaxEvents /\ clean \in BOOLEAN /\ relabeled \in Nat

(* "One issue per advisory": whatever run died where, an advisory has a     *)
(* second listed issue only as often as somebody put a label or a title     *)
(* back (plan looks the advisory up among open and closed issues; an edit   *)
(* that is under way may write the title again).                            *)
OneIssueEach ==
    \A a \in Advisory : Cardinality(IssuesOf(a)) <= 1 + relabeled

(* A run closes an issue only if every scan of every branch was without its *)
(* advisory at some moment of that run: "an unknown is not a fix" (plan's   *)
(* can_close, and one list of errors for all branches).                     *)
ClosedOnlyWhenGone ==
    [][\A n \in DOMAIN issues :
          issues[n].open /\ ~issues'[n].open /\ doing' # doing =>
              \A s \in Scan : <<issues[n].id, s>> \in absent]_vars

(* The issues say what is reported now: an advisory that is reported has an *)
(* open issue that says so, one that is not has none open.                  *)
Says(a) ==
    LET now == {s \in Scan : a \in reports[s]}
    IN IF now # {}
       THEN \E n \in IssuesOf(a) : issues[n].open /\ issues[n].body = now
       ELSE \A n \in IssuesOf(a) : ~issues[n].open

InSync == \A a \in Advisory : Says(a)

(* One run that nothing disturbs is enough: whatever runs that died and     *)
(* people left behind, the issues say what is reported once its last call   *)
(* is made (plan, apply).  An advisory that is gone may have a second open  *)
(* issue, where somebody put a label or title back: a run closes one.       *)
CleanRunSyncs ==
    clean /\ pc = "apply" /\ todo = {} /\ doing.calls = <<>> =>
        \A a \in Advisory :
            \/ Says(a)
            \/ (\A s \in Scan : a \notin reports[s]) /\ (\E m, n \in IssuesOf(a) : m # n)

(* Whatever runs that died and people left, once that ends the audit brings *)
(* the issues into line with the reports and leaves them so (sync).         *)
EventuallyInSync == <>[]InSync
=============================================================================
