------------------------------ MODULE PolicyMerge ------------------------------
(***************************************************************************)
(* One pull request against main and the runs of policy-merge that judge   *)
(* it (.github/workflows/policy-merge.yml, scripts/policy-merge-check.py). *)
(* A run reads its facts from GitHub one call after the other, decides,    *)
(* reads them all again, decides again and hands the commit on to a job    *)
(* that enqueues it; meanwhile people push, hold and talk, checks end or   *)
(* start again, and main moves.                                            *)
(*                                                                         *)
(* A job's log is immutable and read for one commit, so what it says is a  *)
(* function of the commit.  A commit pushed a second time has all its      *)
(* checks run again.  GitHub's own parts (events, concurrency groups, the  *)
(* merge queue) are external.                                              *)
(***************************************************************************)
EXTENDS Naturals, FiniteSets

CONSTANTS
    Commit,      \* commits the branch may point at
    Workflow,    \* the workflows that report main's required checks
    SurfaceOf,   \* the one that runs the api-surface job (ci)
    Binding,     \* bindings with a source tree of their own
    Diff,        \* per commit, what the pull request changes at it
    Count,       \* tests main's last green ci push run may have run
    MaxRuns,     \* bound: runs of policy-merge
    MaxEvents,   \* bound: what people, GitHub and main do
    NoCommit,
    Missing      \* no readable count on main

Run == 1 .. MaxRuns

(* A file is of main's judge (every unconditional glob), a manifest, a test *)
(* or fixture, a binding's source, or none of these.                        *)
Kind == {"judge", "manifest", "test"} \cup Binding

ASSUME PolicyAssumption ==
    /\ SurfaceOf \in Workflow /\ NoCommit \notin Commit /\ Missing \notin Nat
    /\ Diff \in [Commit ->
          [changed: Nat,           \* changed_files
           listed: Nat,            \* files the API lists, which has a limit
           touches: SUBSET Kind,
           shown: SUBSET Kind,     \* the same, of the listed ones
           same: SUBSET Binding,   \* api-surface prints changed=false
           bump: BOOLEAN,          \* a proven dependabot bump
           ran: Nat]]              \* tests its suites run
    /\ \A c \in Commit : Diff[c].listed = Diff[c].changed => Diff[c].shown = Diff[c].touches
    /\ Count \subseteq Nat /\ MaxRuns \in Nat /\ MaxEvents \in Nat

VARIABLES
    head,      \* the commit the pull request's branch points at
    state,     \* open, draft, closed, or against another base than main
    conflict,  \* GitHub reports a merge conflict (mergeable is False)
    changes,   \* a reviewer's latest review requests changes
    comments,  \* a review comment exists
    checks,    \* per commit and workflow, its latest check runs
    byHand,    \* workflow runs of a commit that a person dispatched and that run
    ending,    \* workflow runs that ended and whose event is to come
    surface,   \* commits whose api-surface job ended with success
    baseline,  \* the tests main's last green ci push run ran
    queue,     \* the commit in the merge queue
    pc, by, sha, facts, phase,       \* the runs
    started,   \* runs created
    events,    \* bound: events left
    seen,      \* history: conditions that held at some moment of this reading
    steady,    \* history: every condition held all through it
    moved      \* history: the branch moved during it

pullRequest == <<head, state, conflict, changes, comments, queue>>
ci == <<checks, byHand, ending, surface>>
run == <<pc, by, sha, facts, phase>>
history == <<seen, steady, moved>>
vars == <<pullRequest, ci, baseline, run, started, events, history>>

Reading == {"pr", "files", "checks", "reviews", "comments", "decide"}
Running == {"select", "handed"} \cup Reading
Ended == {"refused", "cancelled", "skipped", "red", "declined", "dry", "done"}
PCs == {"none", "waiting"} \cup Running \cup Ended

(* What runs policy-merge: the completion of a workflow's pull_request run or *)
(* of another run of it, or a person.                                         *)
Completions == {"workflow", "other"}
Kinds == Completions \cup {"dispatch", "dry"}

States == {"open", "draft", "closed", "other base"}

(* What a run has read: the pull request object, whose files were listed,   *)
(* whether every required check run was green, whether api-surface's was,   *)
(* and the reviews.  The comments and main's count are read last.           *)
Facts == [head: Commit \cup {NoCommit}, state: States, conflict: BOOLEAN,
          files: Commit \cup {NoCommit}, green: BOOLEAN, surface: BOOLEAN,
          changes: BOOLEAN, comments: BOOLEAN]
NoFacts == [head |-> NoCommit, state |-> "closed", conflict |-> FALSE,
            files |-> NoCommit, green |-> FALSE, surface |-> FALSE,
            changes |-> FALSE, comments |-> FALSE]

(* The head's workflows are running, or ended and were judged before.       *)
Init ==
    /\ head \in Commit /\ state = "open" /\ conflict = FALSE
    /\ changes = FALSE /\ comments = FALSE /\ queue = NoCommit
    /\ \E over \in {{}, Workflow} :
          /\ checks = [c \in Commit |-> [w \in Workflow |->
                IF c = head /\ w \in over THEN "green" ELSE "running"]]
          /\ surface = IF SurfaceOf \in over THEN {head} ELSE {}
    /\ byHand = {} /\ ending = {} /\ baseline \in Count
    /\ pc = [r \in Run |-> "none"] /\ by = [r \in Run |-> "workflow"]
    /\ sha = [r \in Run |-> NoCommit] /\ facts = [r \in Run |-> NoFacts]
    /\ phase = [r \in Run |-> "gate"]
    /\ started = 0 /\ events = MaxEvents
    /\ seen = [r \in Run |-> {}] /\ steady = [r \in Run |-> FALSE]
    /\ moved = [r \in Run |-> FALSE]

-----------------------------------------------------------------------------
(* The conditions, of a commit, as they stand at GitHub now. *)

Conditions == {"pull-request", "stale", "protected", "checks", "test-counts",
               "mergeable", "changes", "comments"}

(* What of kinds K, at commit c, is left to a human. *)
Protects(K, c, surfaceRan) ==
    \/ "judge" \in K
    \/ "manifest" \in K /\ ~(K = {"manifest"} /\ Diff[c].bump)
    \/ \E b \in Binding \cap K : ~surfaceRan \/ b \notin Diff[c].same

(* A missing count is a drop. *)
Drops(K, c, suitesRan) ==
    "test" \in K /\ ~(baseline # Missing /\ suitesRan /\ Diff[c].ran >= baseline)

(* Every check run of a required name, a dispatched run's as well. *)
Green(c) == \A w \in Workflow : checks[c][w] = "green" /\ <<c, w>> \notin byHand

Holds(k, c) ==
    CASE k = "pull-request" -> state = "open"
      [] k = "stale"        -> head = c
      [] k = "protected"    -> /\ Diff[c].changed = Diff[c].listed
                               /\ ~Protects(Diff[c].touches, c, c \in surface)
      [] k = "checks"       -> Green(c)
      [] k = "test-counts"  -> ~Drops(Diff[c].touches, c, TRUE)
      [] k = "mergeable"    -> ~conflict
      [] k = "changes"      -> ~changes
      [] k = "comments"     -> ~comments

Holding(c) == {k \in Conditions : c \in Commit /\ Holds(k, c)}
Ready(c) == Holding(c) = Conditions

-----------------------------------------------------------------------------
(* decide, of the facts a run has read for its commit. *)

AnyHead(f, c) == TRUE   \* mutant: a head that moved is not stale
SameHead(f, c) == f.head = c

(* The pull request's count is the list's: a list cut short, or another     *)
(* commit's, is not relied on.                                              *)
FilesComplete(f) == Diff[f.head].changed = Diff[f.files].listed

Fails(f, c) ==
    \/ f.state # "open"
    \/ ~SameHead(f, c)
    \/ ~FilesComplete(f)
    \/ Protects(Diff[f.files].shown, f.head, f.surface)
    \/ ~f.green
    \/ Drops(Diff[f.files].shown, c, f.green)
    \/ f.conflict
    \/ f.comments \/ f.changes

-----------------------------------------------------------------------------
(* A run of policy-merge. *)

ByCompletion(r) == by[r] \in Completions
SameGroup(r, s) == ByCompletion(r) = ByCompletion(s) /\ (ByCompletion(r) => sha[r] = sha[s])

(* A completion runs it for its commit, whichever workflow completed and    *)
(* whatever started that; a dispatch names the pull request.  A newer run   *)
(* of the group takes the place of the one that waits, be it to judge or    *)
(* not: the group is the run's, the condition its job's.                    *)
OnlyFirst == {SurfaceOf}   \* mutant: triggered by ci alone
Triggers == Workflow

Create(kind, c) ==
    LET r == started + 1
    IN /\ r \in Run
       /\ started' = r
       /\ by' = [by EXCEPT ![r] = kind]
       /\ sha' = [sha EXCEPT ![r] = c]
       /\ pc' = [s \in Run |->
             IF s = r THEN "waiting"
             ELSE IF pc[s] = "waiting" /\ (kind \in Completions) = ByCompletion(s)
                     /\ (ByCompletion(s) => sha[s] = c) THEN "cancelled"
             ELSE pc[s]]
       /\ UNCHANGED <<facts, phase>>

Goes(r, from, to) ==
    /\ pc[r] = from
    /\ pc' = [pc EXCEPT ![r] = to]
    /\ UNCHANGED <<pullRequest, ci, baseline, by, started, events>>

(* The job's `if:`, evaluated when the run's turn has come. *)
Judges(r) == by[r] # "other"

Start(r) ==
    /\ \A s \in Run : pc[s] \in Running => ~SameGroup(r, s)
    /\ Goes(r, "waiting", IF Judges(r) THEN "select" ELSE "skipped")
    /\ UNCHANGED <<sha, facts, phase>>

(* The pull request against main that carries the commit, which need not be *)
(* its head; a commit pushed over may be carried by none.  A dispatch names *)
(* it and takes the head.                                                   *)
Carried == state \in {"open", "draft"}

Select(r) ==
    /\ ByCompletion(r) => Carried
    /\ sha' = IF ByCompletion(r) THEN sha ELSE [sha EXCEPT ![r] = head]
    /\ Goes(r, "select", "pr")
    /\ UNCHANGED <<facts, phase>>

SelectNone(r) ==
    /\ ByCompletion(r) /\ (~Carried \/ head # sha[r])
    /\ Goes(r, "select", "refused")
    /\ UNCHANGED <<sha, facts, phase>>

Learns(r, from, to, f) ==
    /\ Goes(r, from, to)
    /\ facts' = [facts EXCEPT ![r] = f]
    /\ UNCHANGED <<sha, phase>>

ReadPr(r) == Learns(r, "pr", "files",
    [facts[r] EXCEPT !.head = head, !.state = state, !.conflict = conflict])
ReadFiles(r) == Learns(r, "files", "checks", [facts[r] EXCEPT !.files = head])

SurfaceRequired(c) == Green(c) /\ c \in surface   \* mutant: api-surface blocks
(* Only what main's protection requires, read by name: api-surface and what *)
(* else a workflow runs may be red.                                         *)
RequiredGreen(c) == Green(c)
ReadChecks(r) == Learns(r, "checks", "reviews",
    [facts[r] EXCEPT !.green = RequiredGreen(sha[r]), !.surface = sha[r] \in surface])
ReadReviews(r) == Learns(r, "reviews", "comments", [facts[r] EXCEPT !.changes = changes])
ReadComments(r) == Learns(r, "comments", "decide", [facts[r] EXCEPT !.comments = comments])

Refuse(r) ==
    /\ Goes(r, "decide", "refused")
    /\ Fails(facts[r], sha[r])
    /\ facts' = [facts EXCEPT ![r] = NoFacts]
    /\ UNCHANGED <<sha, phase>>

(* The gate passes: every condition again, read fresh. *)
PassGate(r) ==
    /\ Goes(r, "decide", "pr")
    /\ phase[r] = "gate" /\ ~Fails(facts[r], sha[r])
    /\ phase' = [phase EXCEPT ![r] = "judge"]
    /\ facts' = [facts EXCEPT ![r] = NoFacts]
    /\ UNCHANGED sha

HandsOn(r) == by[r] # "dry"
PassJudge(r) ==
    /\ Goes(r, "decide", IF HandsOn(r) THEN "handed" ELSE "dry")
    /\ phase[r] = "judge" /\ ~Fails(facts[r], sha[r])
    /\ facts' = [facts EXCEPT ![r] = NoFacts]
    /\ UNCHANGED <<sha, phase>>

(* The enqueue job, for the commit handed on; GitHub takes it while it is   *)
(* the head and may be merged.  One that is in the queue may be refused.    *)
Takes(c) == state = "open" /\ head = c /\ Green(c) /\ ~conflict

Enqueue(r) ==
    /\ pc[r] = "handed" /\ Takes(sha[r])
    /\ pc' = [pc EXCEPT ![r] = "done"]
    /\ queue' = sha[r]
    /\ UNCHANGED <<head, state, conflict, changes, comments, ci, baseline, by, sha,
                   facts, phase, started, events>>

EnqueueDeclined(r) ==
    /\ Goes(r, "handed", "declined")
    /\ ~Takes(sha[r]) \/ queue = sha[r]
    /\ UNCHANGED <<sha, facts, phase>>

(* An API failure, or anything else unexpected. *)
Fail(r) ==
    /\ pc[r] \in Running /\ events > 0 /\ events' = events - 1
    /\ pc' = [pc EXCEPT ![r] = "red"]
    /\ facts' = [facts EXCEPT ![r] = NoFacts]
    /\ UNCHANGED <<pullRequest, ci, baseline, by, sha, phase, started>>

-----------------------------------------------------------------------------
(* GitHub, people and main. *)

Event == events > 0 /\ events' = events - 1

(* The jobs of a workflow end, the event that it completed comes later.  As *)
(* a rule they are green and api-surface among them.  A push cancels those  *)
(* of the commit before it.                                                 *)
Room == started + Cardinality(ending) + Cardinality(byHand) < MaxRuns

JobsEnd(c, w) ==
    /\ checks[c][w] = "running" /\ head = c
    /\ Room
    /\ ending' = ending \cup {<<c, w, "workflow">>}
    /\ \/ /\ checks' = [checks EXCEPT ![c][w] = "green"]
          /\ surface' = IF w = SurfaceOf THEN surface \cup {c} ELSE surface
          /\ UNCHANGED events
       \/ /\ Event
          /\ \/ checks' = [checks EXCEPT ![c][w] = "red"]
             \/ w = SurfaceOf /\ checks' = [checks EXCEPT ![c][w] = "green"]
          /\ UNCHANGED surface
    /\ UNCHANGED <<pullRequest, byHand, baseline, run, started>>

(* A person dispatches a workflow on the branch: check runs of the same names *)
(* on its head, and an api-surface job that names no verdict and may be the   *)
(* one that is read.  One that fails stands like one that does not end.       *)
RunByHand(c, w) ==
    /\ Event
    /\ head = c /\ <<c, w>> \notin byHand
    /\ Room
    /\ byHand' = byHand \cup {<<c, w>>}
    /\ UNCHANGED <<pullRequest, checks, ending, surface, baseline, run, started>>

ByHandEnds(c, w) ==
    /\ <<c, w>> \in byHand
    /\ byHand' = byHand \ {<<c, w>>}
    /\ ending' = ending \cup {<<c, w, "other">>}
    /\ surface' \in {surface, IF w = SurfaceOf THEN surface \ {c} ELSE surface}
    /\ UNCHANGED <<pullRequest, checks, baseline, run, started, events>>

Completed(c, w, kind) ==
    /\ <<c, w, kind>> \in ending
    /\ ending' = ending \ {<<c, w, kind>>}
    /\ IF w \in Triggers THEN Create(kind, c) ELSE UNCHANGED <<run, started>>
    /\ UNCHANGED <<pullRequest, checks, byHand, surface, baseline, events>>

Dispatch ==
    /\ Event
    /\ Room
    /\ \E kind \in {"dispatch", "dry"} : Create(kind, NoCommit)
    /\ UNCHANGED <<pullRequest, ci, baseline>>

Rerun(c, w) ==
    /\ Event
    /\ checks[c][w] # "running"
    /\ checks' = [checks EXCEPT ![c][w] = "running"]
    /\ surface' = IF w = SurfaceOf THEN surface \ {c} ELSE surface
    /\ UNCHANGED <<pullRequest, byHand, ending, baseline, run, started>>

(* A pushed branch is not known to conflict and leaves the merge queue.     *)
Push(c) ==
    /\ Event
    /\ head # c
    /\ head' = c /\ conflict' = FALSE /\ queue' = NoCommit
    /\ checks' = [checks EXCEPT ![c] = [w \in Workflow |-> "running"]]
    /\ surface' = surface \ {c}
    /\ UNCHANGED <<state, changes, comments, byHand, ending, baseline, run, started>>

Hold ==
    /\ Event
    /\ state' \in States \ {state} /\ queue' = NoCommit
    /\ UNCHANGED <<head, conflict, changes, comments, ci, baseline, run, started>>

Review ==
    /\ Event
    /\ \/ changes' = ~changes /\ UNCHANGED comments
       \/ comments' = ~comments /\ UNCHANGED changes
    /\ UNCHANGED <<head, state, conflict, queue, ci, baseline, run, started>>

MainMoves ==
    /\ Event
    /\ \/ conflict' = ~conflict /\ UNCHANGED baseline
       \/ baseline' \in (Count \cup {Missing}) \ {baseline} /\ UNCHANGED conflict
    /\ UNCHANGED <<head, state, changes, comments, queue, ci, run, started>>

QueueEnds ==
    /\ Event
    /\ queue # NoCommit /\ queue' = NoCommit
    /\ state' \in {state, "closed"}
    /\ UNCHANGED <<head, conflict, changes, comments, ci, baseline, run, started>>

-----------------------------------------------------------------------------
(* The histories follow every step: a reading begins with its first call. *)

Begins(r) == pc'[r] = "pr" /\ (pc[r] # "pr" \/ phase'[r] # phase[r])

Follow ==
    /\ seen' = [r \in Run |->
          IF Begins(r) THEN Holding(sha[r])'
          ELSE IF pc'[r] \in Reading THEN seen[r] \cup Holding(sha[r])'
          ELSE IF pc'[r] = "handed" THEN seen[r] ELSE {}]
    /\ steady' = [r \in Run |->
          pc'[r] \in Reading /\ (Begins(r) \/ steady[r]) /\ Ready(sha[r])']
    /\ moved' = [r \in Run |->
          IF pc'[r] = "handed" THEN moved[r]
          ELSE pc'[r] \in Reading /\ ~Begins(r) /\ (moved[r] \/ head' # head)]

-----------------------------------------------------------------------------
RunNext(r) ==
    \/ Start(r) \/ Select(r) \/ SelectNone(r)
    \/ ReadPr(r) \/ ReadFiles(r) \/ ReadChecks(r) \/ ReadReviews(r) \/ ReadComments(r)
    \/ Refuse(r) \/ PassGate(r) \/ PassJudge(r) \/ Enqueue(r) \/ EnqueueDeclined(r)

GitHubNext ==
    \/ \E c \in Commit, w \in Workflow :
          \/ JobsEnd(c, w) \/ Rerun(c, w) \/ RunByHand(c, w) \/ ByHandEnds(c, w)
          \/ \E kind \in Completions : Completed(c, w, kind)
    \/ \E c \in Commit : Push(c)
    \/ Dispatch \/ Hold \/ Review \/ MainMoves \/ QueueEnds

Next ==
    /\ \/ \E r \in Run : RunNext(r) \/ Fail(r)
       \/ GitHubNext
    /\ Follow

(* Runs go on once they may start, and GitHub delivers the events of runs   *)
(* that ended.                                                              *)
Spec ==
    /\ Init /\ [][Next]_vars
    /\ \A r \in Run : WF_vars(RunNext(r) /\ Follow)
    /\ \A c \in Commit, w \in Workflow, kind \in Completions :
          WF_vars(Completed(c, w, kind) /\ Follow)

-----------------------------------------------------------------------------
(* Types; and one run of a group at a time.                                 *)
TypeOK ==
    /\ head \in Commit /\ state \in States /\ conflict \in BOOLEAN
    /\ changes \in BOOLEAN /\ comments \in BOOLEAN /\ queue \in Commit \cup {NoCommit}
    /\ checks \in [Commit -> [Workflow -> {"running", "green", "red"}]]
    /\ byHand \subseteq Commit \X Workflow
    /\ ending \subseteq Commit \X Workflow \X Completions /\ surface \subseteq Commit
    /\ baseline \in Count \cup {Missing}
    /\ pc \in [Run -> PCs] /\ by \in [Run -> Kinds]
    /\ sha \in [Run -> Commit \cup {NoCommit}] /\ facts \in [Run -> Facts]
    /\ phase \in [Run -> {"gate", "judge"}]
    /\ started \in 0 .. MaxRuns /\ events \in 0 .. MaxEvents
    /\ seen \in [Run -> SUBSET Conditions]
    /\ steady \in [Run -> BOOLEAN] /\ moved \in [Run -> BOOLEAN]
    /\ \A r, s \in Run :
          pc[r] \in Running /\ pc[s] \in Running /\ SameGroup(r, s) => r = s

(* A commit is handed on after a second reading only and by no dry run, and *)
(* had every condition at some moment of that reading, whatever was pushed, *)
(* said or re-run between the calls (gather, cmd_enqueue).  The class and   *)
(* the counts are exempt if the branch moved during the reading: the files  *)
(* may be another commit's.                                                 *)
NothingStale ==
    \A r \in Run : pc[r] = "handed" =>
        /\ phase[r] = "judge" /\ by[r] # "dry"
        /\ Conditions \ seen[r] \subseteq IF moved[r] THEN {"protected", "test-counts"} ELSE {}

(* A run never refuses a commit all of whose conditions held from its first *)
(* call to its decision (decide): a quiet refusal is never a wrong one.     *)
RefusedRightly ==
    [][\A r \in Run : pc[r] = "decide" /\ pc'[r] = "refused" => ~steady[r]]_vars

(* The last judgment of the commit that a workflow asked for gave its place *)
(* to a run that judges nothing, and none is to come.                       *)
Displaced(c) ==
    /\ \A w \in Workflow : <<c, w, "workflow">> \notin ending
    /\ \E r \in Run :
          /\ pc[r] = "cancelled" /\ sha[r] = c /\ by[r] = "workflow"
          /\ \A s \in Run : s > r /\ sha[s] = c => by[s] # "workflow"

(* Whichever of the required workflows ends last, a pull request that is    *)
(* ready and stays so is enqueued, unless a run meets an API failure (the   *)
(* triggers and the concurrency group of policy-merge.yml).  The exception  *)
(* is the commit on which somebody dispatched a workflow, whose end took    *)
(* the waiting judgment's place.                                            *)
LastRunEnqueues ==
    \A c \in Commit :
        (Ready(c) /\ \E w \in Workflow : <<c, w, "workflow">> \in ending)
            ~> \/ queue = c \/ ~Ready(c)
               \/ Displaced(c)
               \/ \E r \in Run : pc[r] = "red"

=============================================================================
