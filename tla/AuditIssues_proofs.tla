--------------------------- MODULE AuditIssues_proofs ---------------------------
(***************************************************************************)
(* Proofs about AuditIssues, for any advisories, scans and number of       *)
(* events.  A planned creation counts as an issue that is there already,   *)
(* and one whose title a run is about to write counts as an issue of its   *)
(* advisory (NoSecond); a planned closing rests on reports that were       *)
(* absent while the run went on (Grounded); and while nothing disturbs a   *)
(* run, its calls still to make are what the issues lack (OnTrack).        *)
(***************************************************************************)
EXTENDS AuditIssues, FiniteSetTheorems, WellFoundedInduction, TLAPS

(* Every action but a creation is of an issue of its advisory.              *)
Aimed(x) ==
    \/ x.calls = <<>>
    \/ x = Create(x.id)
    \/ /\ x.calls # <<"create">>
       /\ x.number \in DOMAIN issues /\ issues[x.number].id = x.id

PlansAimed == \A x \in todo \cup {doing} : Aimed(x)

(* What is not reported now was absent; so was what a scan, read by this    *)
(* run, did not report, and what the run is about to close.                 *)
Closing(x) == x.calls \in {<<"comment", "close">>, <<"close">>}

Grounded ==
    /\ pc # "idle" =>
          \A a \in Advisory, s \in Scan : a \notin reports[s] => <<a, s>> \in absent
    /\ pc = "scan" =>
          \A a \in Advisory, s \in Scan :
              s \notin left \cup errors /\ <<a, s>> \notin found => <<a, s>> \in absent
    /\ \A x \in todo \cup {doing} :
          Closing(x) => \A s \in Scan : <<x.id, s>> \in absent

Pending(a) == Create(a) \in todo \/ doing = Create(a)

(* The issues of an advisory, and those a run will call by its title again. *)
Edits(x) == x.calls \in {<<"edit", "reopen", "comment">>, <<"edit", "comment">>}
Mine(a) ==
    IssuesOf(a) \cup {x.number : x \in {y \in todo \cup {doing} : y.id = a /\ Edits(y)}}

NoSecond ==
    \A a \in Advisory :
        /\ doing = Create(a) => Create(a) \notin todo
        /\ Pending(a) => Cardinality(Mine(a)) <= relabeled
        /\ Cardinality(Mine(a)) <= 1 + relabeled

AuditInv == TypeOK /\ PlansAimed /\ Grounded /\ NoSecond

-----------------------------------------------------------------------------
(* The numbers that are taken are the first ones, so an advisory's issues   *)
(* are finitely many.                                                       *)
LEMMA FewIssues ==
    ASSUME TypeOK, NEW a
    PROVE  /\ DOMAIN issues = 1..Len(issues) /\ Len(issues) \in Nat
           /\ IsFiniteSet(IssuesOf(a)) /\ Cardinality(IssuesOf(a)) \in Nat
  <1>1. DOMAIN issues = 1..Len(issues) /\ Len(issues) \in Nat
    BY DEF TypeOK
  <1>2. IsFiniteSet(1..Len(issues))
    BY <1>1, FS_Interval
  <1>3. IssuesOf(a) \subseteq 1..Len(issues)
    BY <1>1 DEF IssuesOf
  <1> QED
    BY <1>1, <1>2, <1>3, FS_Subset, FS_CardinalityType

(* A set of numbers up to n that is not empty has a greatest.               *)
LEMMA Greatest ==
    ASSUME NEW n \in Nat, NEW S \in SUBSET (0..n), S # {}
    PROVE  \E x \in S : \A y \in S : y <= x
  <1> DEFINE down == {n - x : x \in S}
  <1>0. \A x \in S : x \in Nat /\ n - x \in Nat
    OBVIOUS
  <1>1. down \subseteq Nat /\ down # {}
    <2>1. down \subseteq Nat
      BY <1>0
    <2>2. PICK x \in S : TRUE
      OBVIOUS
    <2>3. n - x \in down
      BY <2>2
    <2> QED
      BY <2>1, <2>3
  <1>2. \E d \in down : \A e \in down : <<e, d>> \notin OpToRel(<, Nat)
    BY <1>1, NatLessThanWellFounded, WFMin
  <1>3. PICK d \in down : \A e \in down : ~(e < d)
    BY <1>1, <1>2 DEF OpToRel
  <1>4. PICK x \in S : d = n - x
    OBVIOUS
  <1>5. ASSUME NEW y \in S PROVE y <= x
    <2>1. n - y \in down
      BY <1>5
    <2>2. ~(n - y < n - x)
      BY <1>3, <1>4, <2>1
    <2> HIDE DEF down
    <2> QED
      BY <1>0, <1>4, <1>5, <2>2
  <1> QED
    BY <1>4, <1>5

(* The issue a plan takes for an advisory's own is one of its issues.       *)
LEMMA OwnIsOne ==
    ASSUME TypeOK, NEW a, IssuesOf(a) # {}
    PROVE  Own(a) \in IssuesOf(a)
  <1> DEFINE opens == {n \in IssuesOf(a) : issues[n].open}
             these == IF opens # {} THEN opens ELSE IssuesOf(a)
  <1>1. these # {} /\ these \subseteq IssuesOf(a)
    OBVIOUS
  <1>2. Len(issues) \in Nat /\ these \in SUBSET (0..Len(issues))
    BY <1>1, FewIssues DEF IssuesOf
  <1>3. \E n \in these : \A m \in these : m <= n
    BY <1>1, <1>2, Greatest
  <1>4. Own(a) = CHOOSE n \in these : \A m \in these : m <= n
    BY DEF Own
  <1> HIDE DEF these
  <1> QED
    BY <1>1, <1>3, <1>4

(* What a call of an action was and what is left of it.                     *)
LEMMA CallsOn ==
    ASSUME TypeOK, NEW call, Calls(call)
    PROVE  /\ doing \in Action /\ doing.calls # <<>>
           /\ doing' = [id |-> doing.id, number |-> doing.number, calls |-> Tail(doing.calls)]
           /\ doing' \in Action /\ doing'.calls # <<"create">>
           /\ call = "create" => doing.calls = <<"create">> /\ doing'.calls = <<>>
           /\ call # "create" => doing.calls # <<"create">>
           /\ call = "close" => doing.calls = <<"close">>
           /\ Closing(doing') => Closing(doing)
           /\ ~Edits(doing') /\ (call = "edit" => Edits(doing))
  <1>1. doing \in Action /\ doing.calls # <<>>
    BY DEF Calls, TypeOK, NoAction
  <1>2. /\ doing' = [id |-> doing.id, number |-> doing.number, calls |-> Tail(doing.calls)]
        /\ Head(doing.calls) = call
    BY <1>1 DEF Calls, Action
  <1>3. doing.calls \in CallsLeft \ {<<>>}
    BY <1>1 DEF Action
  <1>4. ASSUME NEW c \in CallsLeft \ {<<>>}
        PROVE  /\ Tail(c) \in CallsLeft /\ Tail(c) # <<"create">>
               /\ Head(c) = "create" => c = <<"create">> /\ Tail(c) = <<>>
               /\ Head(c) # "create" => c # <<"create">>
               /\ Head(c) = "close" => c = <<"close">>
               /\ Tail(c) \in {<<"comment", "close">>, <<"close">>}
                    => c \in {<<"comment", "close">>, <<"close">>}
               /\ Tail(c) \notin {<<"edit", "reopen", "comment">>, <<"edit", "comment">>}
               /\ Head(c) = "edit" => c \in {<<"edit", "reopen", "comment">>, <<"edit", "comment">>}
    <2>1. CASE c = <<"create">>
      BY <2>1 DEF CallsLeft
    <2>2. CASE c = <<"edit", "reopen", "comment">>
      BY <2>2 DEF CallsLeft
    <2>3. CASE c = <<"reopen", "comment">>
      BY <2>3 DEF CallsLeft
    <2>4. CASE c = <<"comment">>
      BY <2>4 DEF CallsLeft
    <2>5. CASE c = <<"edit", "comment">>
      BY <2>5 DEF CallsLeft
    <2>6. CASE c = <<"comment", "close">>
      BY <2>6 DEF CallsLeft
    <2>7. CASE c = <<"close">>
      BY <2>7 DEF CallsLeft
    <2> QED
      BY <1>4, <2>1, <2>2, <2>3, <2>4, <2>5, <2>6, <2>7 DEF CallsLeft
  <1> QED
    BY <1>1, <1>2, <1>3, <1>4 DEF Action, Closing, Edits

(* One field of one issue changes, but not the advisory it names.           *)
LEMMA FieldSet ==
    ASSUME TypeOK, NEW n \in DOMAIN issues, NEW r \in Issue,
           r.id = issues[n].id, issues' = [issues EXCEPT ![n] = r]
    PROVE  /\ issues' \in Seq(Issue) /\ DOMAIN issues' = DOMAIN issues
           /\ \A m \in DOMAIN issues : issues'[m].id = issues[m].id
           /\ \A m \in DOMAIN issues : m # n => issues'[m] = issues[m]
           /\ issues'[n] = r
           /\ r.labeled = issues[n].labeled /\ r.titled = issues[n].titled =>
                 \A a : IssuesOf(a)' = IssuesOf(a)
  <1>1. /\ issues' \in Seq(Issue) /\ DOMAIN issues' = DOMAIN issues
        /\ \A m \in DOMAIN issues : m # n => issues'[m] = issues[m]
        /\ issues'[n] = r
    BY DEF TypeOK
  <1>2. \A m \in DOMAIN issues : issues'[m].id = issues[m].id
    BY <1>1
  <1>3. ASSUME r.labeled = issues[n].labeled, r.titled = issues[n].titled, NEW a
        PROVE  IssuesOf(a)' = IssuesOf(a)
    BY <1>1, <1>2, <1>3 DEF IssuesOf
  <1> QED
    BY <1>1, <1>2, <1>3

(* The action a run is at is of an issue there is, of its advisory.         *)
LEMMA OwnCall ==
    ASSUME TypeOK, PlansAimed, NEW call, Calls(call), call # "create"
    PROVE  doing.number \in DOMAIN issues /\ issues[doing.number].id = doing.id
  <1>1. doing.calls # <<"create">> /\ doing.calls # <<>>
    BY CallsOn
  <1>2. doing # Create(doing.id)
    BY <1>1 DEF Create
  <1> QED
    BY <1>1, <1>2 DEF PlansAimed, Aimed

(* No step takes an issue away or makes it one of another advisory, and     *)
(* only two change which issues an advisory has.                            *)
KeepsIssues ==
    /\ issues' \in Seq(Issue)
    /\ DOMAIN issues \subseteq DOMAIN issues'
    /\ \A m \in DOMAIN issues : issues'[m].id = issues[m].id

LEMMA FieldKeeps ==
    ASSUME TypeOK, NEW n \in DOMAIN issues, NEW r \in Issue, r.id = issues[n].id,
           r.labeled = issues[n].labeled, r.titled = issues[n].titled,
           issues' = [issues EXCEPT ![n] = r]
    PROVE  KeepsIssues /\ \A a : IssuesOf(a)' = IssuesOf(a)
  BY FieldSet DEF KeepsIssues

LEMMA IssueTyped ==
    ASSUME TypeOK, NEW n \in DOMAIN issues
    PROVE  issues[n] \in Issue /\ issues[n].id \in Advisory
  <1>1. issues[n] \in Issue
    BY DEF TypeOK
  <1> QED
    BY <1>1 DEF Issue

LEMMA SameIssues ==
    ASSUME TypeOK, UNCHANGED issues
    PROVE  KeepsIssues /\ \A a : IssuesOf(a)' = IssuesOf(a)
  <1>1. KeepsIssues
    BY DEF KeepsIssues, TypeOK
  <1> QED
    BY <1>1 DEF IssuesOf

(* An edit may bring its own issue back among its advisory's.               *)
LEMMA EditKeeps ==
    ASSUME TypeOK, PlansAimed, Edit
    PROVE  /\ KeepsIssues
           /\ \A a : a # doing.id => IssuesOf(a)' = IssuesOf(a)
           /\ \A a : a = doing.id => IssuesOf(a)' \subseteq IssuesOf(a) \cup {doing.number}
           /\ \A a : doing.number \in IssuesOf(a) => IssuesOf(a)' = IssuesOf(a)
  <1> DEFINE n == doing.number
             r == [issues[n] EXCEPT !.body = Reporting(doing.id), !.titled = TRUE]
  <1>1. n \in DOMAIN issues /\ issues[n].id = doing.id
    BY OwnCall DEF Edit
  <1>2. /\ r \in Issue /\ r.id = issues[n].id /\ r.labeled = issues[n].labeled
        /\ r.titled = TRUE
    BY <1>1, IssueTyped DEF Issue, Reporting
  <1>3. issues' = [issues EXCEPT ![n] = r]
    BY <1>1, IssueTyped DEF Edit, Issue
  <1> HIDE DEF r
  <1>4. /\ issues' \in Seq(Issue) /\ DOMAIN issues' = DOMAIN issues
        /\ \A m \in DOMAIN issues : issues'[m].id = issues[m].id
        /\ \A m \in DOMAIN issues : m # n => issues'[m] = issues[m]
        /\ issues'[n] = r
    BY <1>1, <1>2, <1>3, FieldSet
  <1>5. KeepsIssues
    BY <1>4 DEF KeepsIssues
  <1>6. ASSUME NEW a, a # doing.id PROVE IssuesOf(a)' = IssuesOf(a)
    BY <1>1, <1>2, <1>4, <1>6 DEF IssuesOf
  <1>7. ASSUME NEW a PROVE IssuesOf(a)' \subseteq IssuesOf(a) \cup {n}
    BY <1>1, <1>2, <1>4, <1>7 DEF IssuesOf
  <1>8. ASSUME NEW a, n \in IssuesOf(a) PROVE IssuesOf(a)' = IssuesOf(a)
    BY <1>1, <1>2, <1>4, <1>8 DEF IssuesOf
  <1> QED
    BY <1>5, <1>6, <1>7, <1>8

LEMMA ReopenKeeps ==
    ASSUME TypeOK, PlansAimed, Reopen
    PROVE  KeepsIssues /\ \A a : IssuesOf(a)' = IssuesOf(a)
  <1> DEFINE n == doing.number
             r == [issues[n] EXCEPT !.open = TRUE]
  <1>1. n \in DOMAIN issues
    BY OwnCall DEF Reopen
  <1>2. /\ r \in Issue /\ r.id = issues[n].id /\ r.labeled = issues[n].labeled
        /\ r.titled = issues[n].titled
    BY <1>1, IssueTyped DEF Issue
  <1>3. issues' = [issues EXCEPT ![n] = r]
    BY <1>1 DEF Reopen
  <1> HIDE DEF r
  <1> QED
    BY <1>1, <1>2, <1>3, FieldKeeps

LEMMA CloseKeeps ==
    ASSUME TypeOK, PlansAimed, Close
    PROVE  KeepsIssues /\ \A a : IssuesOf(a)' = IssuesOf(a)
  <1> DEFINE n == doing.number
             r == [issues[n] EXCEPT !.open = FALSE]
  <1>1. n \in DOMAIN issues
    BY OwnCall DEF Close
  <1>2. /\ r \in Issue /\ r.id = issues[n].id /\ r.labeled = issues[n].labeled
        /\ r.titled = issues[n].titled
    BY <1>1, IssueTyped DEF Issue
  <1>3. issues' = [issues EXCEPT ![n] = r]
    BY <1>1 DEF Close
  <1> HIDE DEF r
  <1> QED
    BY <1>1, <1>2, <1>3, FieldKeeps

LEMMA PersonEditsKeeps ==
    ASSUME TypeOK, PersonEdits
    PROVE  KeepsIssues /\ \A a : IssuesOf(a)' = IssuesOf(a)
  <1>1. PICK n \in DOMAIN issues :
          \/ issues' = [issues EXCEPT ![n].open = ~issues[n].open]
          \/ issues' = [issues EXCEPT ![n].body = {}]
    BY DEF PersonEdits
  <1>2. issues[n] \in Issue
    BY <1>1, IssueTyped
  <1>3. CASE issues' = [issues EXCEPT ![n].open = ~issues[n].open]
    <2> DEFINE r == [issues[n] EXCEPT !.open = ~issues[n].open]
    <2>1. /\ r \in Issue /\ r.id = issues[n].id /\ r.labeled = issues[n].labeled
          /\ r.titled = issues[n].titled
      BY <1>2 DEF Issue
    <2>2. issues' = [issues EXCEPT ![n] = r]
      BY <1>1, <1>3
    <2> HIDE DEF r
    <2> QED
      BY <1>1, <2>1, <2>2, FieldKeeps
  <1>4. CASE issues' = [issues EXCEPT ![n].body = {}]
    <2> DEFINE r == [issues[n] EXCEPT !.body = {}]
    <2>1. /\ r \in Issue /\ r.id = issues[n].id /\ r.labeled = issues[n].labeled
          /\ r.titled = issues[n].titled
      BY <1>2 DEF Issue
    <2>2. issues' = [issues EXCEPT ![n] = r]
      BY <1>1, <1>4
    <2> HIDE DEF r
    <2> QED
      BY <1>1, <2>1, <2>2, FieldKeeps
  <1> QED
    BY <1>1, <1>3, <1>4

(* An issue whose label or title changes hands is one issue more or less.   *)
LEMMA RelabelKeeps ==
    ASSUME TypeOK, PersonRelabels
    PROVE  /\ KeepsIssues
           /\ \E n \in DOMAIN issues : \A a :
                 \/ IssuesOf(a)' \subseteq IssuesOf(a) /\ relabeled' \in {relabeled, relabeled + 1}
                 \/ IssuesOf(a)' = IssuesOf(a) \cup {n} /\ relabeled' = relabeled + 1
  <1>1. PICK n \in DOMAIN issues :
          /\ \/ issues' = [issues EXCEPT ![n].labeled = ~issues[n].labeled]
             \/ issues' = [issues EXCEPT ![n].titled = ~issues[n].titled]
          /\ relabeled' = IF issues'[n].labeled /\ issues'[n].titled
                          THEN relabeled + 1 ELSE relabeled
    BY DEF PersonRelabels
  <1>2. issues[n] \in Issue
    BY <1>1, IssueTyped
  <1> DEFINE l == [issues[n] EXCEPT !.labeled = ~issues[n].labeled]
             t == [issues[n] EXCEPT !.titled = ~issues[n].titled]
  <1>3. l \in Issue /\ t \in Issue /\ l.id = issues[n].id /\ t.id = issues[n].id
    BY <1>2 DEF Issue
  <1>4. PICK r \in Issue : r.id = issues[n].id /\ issues' = [issues EXCEPT ![n] = r]
    <2>1. CASE issues' = [issues EXCEPT ![n].labeled = ~issues[n].labeled]
      <3>1. issues' = [issues EXCEPT ![n] = l]
        BY <2>1
      <3> HIDE DEF l
      <3> QED
        BY <1>3, <3>1
    <2>2. CASE issues' = [issues EXCEPT ![n].titled = ~issues[n].titled]
      <3>1. issues' = [issues EXCEPT ![n] = t]
        BY <2>2
      <3> HIDE DEF t
      <3> QED
        BY <1>3, <3>1
    <2> QED
      BY <1>1, <2>1, <2>2
  <1> HIDE DEF l, t
  <1>5. /\ issues' \in Seq(Issue) /\ DOMAIN issues' = DOMAIN issues
        /\ \A m \in DOMAIN issues : issues'[m].id = issues[m].id
        /\ \A m \in DOMAIN issues : m # n => issues'[m] = issues[m]
        /\ issues'[n] = r
    BY <1>1, <1>4, FieldSet
  <1>6. ASSUME NEW a, ~(issues'[n].labeled /\ issues'[n].titled)
        PROVE  IssuesOf(a)' \subseteq IssuesOf(a)
    BY <1>5, <1>6 DEF IssuesOf
  <1>7. ASSUME NEW a
        PROVE  IssuesOf(a)' \subseteq IssuesOf(a) \/ IssuesOf(a)' = IssuesOf(a) \cup {n}
    <2>1. \A m : m # n => (m \in IssuesOf(a)' <=> m \in IssuesOf(a))
      BY <1>5 DEF IssuesOf
    <2> QED
      BY <2>1
  <1>8. KeepsIssues
    BY <1>5 DEF KeepsIssues
  <1>9. ~(issues'[n].labeled /\ issues'[n].titled) => relabeled' = relabeled
    BY <1>1
  <1>10. issues'[n].labeled /\ issues'[n].titled => relabeled' = relabeled + 1
    BY <1>1
  <1> QED
    BY <1>1, <1>6, <1>7, <1>8, <1>9, <1>10

(* A created issue is one more of its advisory.                             *)
LEMMA CreateKeeps ==
    ASSUME TypeOK, CreateIssue
    PROVE  /\ KeepsIssues
           /\ \A a : a = doing.id => IssuesOf(a)' = IssuesOf(a) \cup {Len(issues) + 1}
           /\ \A a : a # doing.id => IssuesOf(a)' = IssuesOf(a)
  <1> DEFINE new == [id |-> doing.id, open |-> TRUE, labeled |-> TRUE, titled |-> TRUE,
                     body |-> Reporting(doing.id)]
  <1>1. doing.id \in Advisory
    BY CallsOn DEF CreateIssue, Action
  <1>2. new \in Issue /\ new.id = doing.id /\ new.labeled /\ new.titled
    BY <1>1 DEF Issue, Reporting
  <1>3. issues' = Append(issues, new)
    BY DEF CreateIssue
  <1> HIDE DEF new
  <1>4. issues \in Seq(Issue) /\ Len(issues) \in Nat /\ DOMAIN issues = 1..Len(issues)
    BY DEF TypeOK
  <1>5. /\ issues' \in Seq(Issue) /\ DOMAIN issues' = DOMAIN issues \cup {Len(issues) + 1}
        /\ \A m \in DOMAIN issues : issues'[m] = issues[m]
        /\ issues'[Len(issues) + 1] = new
        /\ Len(issues) + 1 \notin DOMAIN issues
    BY <1>2, <1>3, <1>4
  <1>6. KeepsIssues
    BY <1>5 DEF KeepsIssues
  <1>7. ASSUME NEW a, a = doing.id PROVE IssuesOf(a)' = IssuesOf(a) \cup {Len(issues) + 1}
    BY <1>2, <1>5, <1>7 DEF IssuesOf
  <1>8. ASSUME NEW a, a # doing.id PROVE IssuesOf(a)' = IssuesOf(a)
    BY <1>2, <1>5, <1>8 DEF IssuesOf
  <1> QED
    BY <1>6, <1>7, <1>8

LEMMA IssuesStep ==
    ASSUME TypeOK, PlansAimed, Next
    PROVE  /\ KeepsIssues
           /\ CreateIssue \/ Edit \/ PersonRelabels \/ \A a : IssuesOf(a)' = IssuesOf(a)
  <1>1. CASE UNCHANGED issues
    BY <1>1, SameIssues
  <1>2. CASE CreateIssue
    BY <1>2, CreateKeeps
  <1>3. CASE Edit
    BY <1>3, EditKeeps
  <1>4. CASE Reopen
    BY <1>4, ReopenKeeps
  <1>5. CASE Close
    BY <1>5, CloseKeeps
  <1>6. CASE PersonEdits
    BY <1>6, PersonEditsKeeps
  <1>7. CASE PersonRelabels
    BY <1>7, RelabelKeeps
  <1> QED
    BY <1>1, <1>2, <1>3, <1>4, <1>5, <1>6, <1>7, ZenonT(30)
       DEF Next, Run, Begin, ReadScan, ScanFails, ListAndPlan, Take, Comment, Ends, Finish, Die,
           ReportsChange

-----------------------------------------------------------------------------
(* What a plan holds: actions of known advisories, aimed at an issue; a     *)
(* creation where there is no issue, a closing where nothing is reported.   *)
LEMMA Planned ==
    ASSUME TypeOK, NEW x \in Plan
    PROVE  /\ x \in Action /\ Aimed(x)
           /\ x.calls = <<"create">> => x = Create(x.id) /\ Creates(x.id)
           /\ Closing(x) => Closes(x.id)
           /\ Edits(x) => x.number \in IssuesOf(x.id)
  <1>1. ASSUME NEW a \in Advisory, Creates(a), x = Create(a)
        PROVE  /\ x \in Action /\ Aimed(x) /\ x = Create(x.id) /\ Creates(x.id) /\ ~Closing(x)
               /\ ~Edits(x)
    <2>1. /\ x.id = a /\ x.number = 0 /\ x.calls = <<"create">>
          /\ x = [id |-> a, number |-> 0, calls |-> <<"create">>]
      BY <1>1 DEF Create
    <2>2. x \in Action
      BY <2>1 DEF Action, CallsLeft
    <2>3. x = Create(x.id)
      BY <1>1, <2>1
    <2>4. ~Closing(x) /\ ~Edits(x)
      BY <2>1 DEF Closing, Edits
    <2> QED
      BY <1>1, <2>1, <2>2, <2>3, <2>4 DEF Aimed
  <1>2. ASSUME NEW a \in Advisory, IssuesOf(a) # {}, NEW calls \in CallsLeft \ {<<"create">>},
               x = [id |-> a, number |-> Own(a), calls |-> calls]
        PROVE  /\ x \in Action /\ Aimed(x) /\ x.calls = calls /\ x.id = a
               /\ x.number \in IssuesOf(a)
    <2>0. Own(a) \in IssuesOf(a)
      BY <1>2, OwnIsOne
    <2>1. Own(a) \in DOMAIN issues /\ issues[Own(a)].id = a /\ Own(a) \in Nat
      BY <2>0, FewIssues DEF IssuesOf
    <2>2. x.id = a /\ x.number = Own(a) /\ x.calls = calls
      BY <1>2
    <2>3. x \in Action
      BY <1>2, <2>1 DEF Action
    <2> QED
      BY <1>2, <2>0, <2>1, <2>2, <2>3 DEF Aimed
  <1>3. CASE \E a \in Advisory : Creates(a) /\ x = Create(a)
    BY <1>1, <1>3
  <1>4. CASE \E a \in Advisory :
               Reopens(a) /\ x = [id |-> a, number |-> Own(a), calls |-> <<"edit", "reopen", "comment">>]
    <2>1. /\ <<"edit", "reopen", "comment">> \in CallsLeft \ {<<"create">>}
          /\ <<"edit", "reopen", "comment">> \notin {<<"comment", "close">>, <<"close">>}
      BY DEF CallsLeft
    <2> QED
      BY <1>2, <1>4, <2>1 DEF Reopens, Closing
  <1>5. CASE \E a \in Advisory :
               Updates(a) /\ x = [id |-> a, number |-> Own(a), calls |-> <<"edit", "comment">>]
    <2>1. /\ <<"edit", "comment">> \in CallsLeft \ {<<"create">>}
          /\ <<"edit", "comment">> \notin {<<"comment", "close">>, <<"close">>}
      BY DEF CallsLeft
    <2> QED
      BY <1>2, <1>5, <2>1 DEF Updates, Closing
  <1>6. CASE \E a \in Advisory :
               Closes(a) /\ x = [id |-> a, number |-> Own(a), calls |-> <<"comment", "close">>]
    <2>1. <<"comment", "close">> \in CallsLeft \ {<<"create">>}
      BY DEF CallsLeft
    <2>2. PICK a \in Advisory :
            Closes(a) /\ x = [id |-> a, number |-> Own(a), calls |-> <<"comment", "close">>]
      BY <1>6
    <2>3. IssuesOf(a) # {}
      BY <2>2 DEF Closes
    <2>4. x \in Action /\ Aimed(x) /\ x.calls = <<"comment", "close">> /\ x.id = a
      BY <1>2, <2>1, <2>2, <2>3
    <2>5. x.calls # <<"create">>
      BY <2>1, <2>4
    <2> QED
      BY <2>2, <2>4, <2>5 DEF Edits
  <1> QED
    BY <1>3, <1>4, <1>5, <1>6 DEF Plan, OnOwn

(* Where what the run has before it after a step comes from.                *)
LEMMA PlanStep ==
    ASSUME Next, NEW x \in todo' \cup {doing'}
    PROVE  \/ x \in todo \cup {doing}
           \/ ListAndPlan /\ x \in Plan
           \/ x = NoAction
           \/ (\E call : Calls(call)) /\ x = doing'
  <1>1. CASE UNCHANGED <<todo, doing>>
    BY <1>1
  <1>2. CASE ListAndPlan
    BY <1>2 DEF ListAndPlan
  <1>3. ASSUME NEW y \in todo, Take(y) PROVE x \in todo \cup {doing}
    BY <1>3 DEF Take
  <1>4. ASSUME NEW call, Calls(call)
        PROVE  x \in todo \/ ((\E c : Calls(c)) /\ x = doing')
    <2>1. todo' = todo
      BY <1>4 DEF Calls
    <2> QED
      BY <1>4, <2>1
  <1>5. CASE Ends
    BY <1>5 DEF Ends
  <1> QED
    BY <1>1, <1>2, <1>3, <1>4, <1>5, ZenonT(30)
       DEF Next, Run, Begin, ReadScan, ScanFails, CreateIssue, Edit, Reopen, Close, Comment,
           Finish, Die, ReportsChange, PersonEdits, PersonRelabels, run

LEMMA AimedStep ==
    ASSUME TypeOK, PlansAimed, Next
    PROVE  PlansAimed'
  <1> SUFFICES ASSUME NEW x \in todo' \cup {doing'}
               PROVE  Aimed(x)'
    BY DEF PlansAimed
  <1>1. KeepsIssues
    BY IssuesStep
  <1>2. ASSUME Aimed(x) PROVE Aimed(x)'
    BY <1>1, <1>2 DEF Aimed, KeepsIssues, Create
  <1>3. CASE x \in todo \cup {doing}
    BY <1>2, <1>3 DEF PlansAimed
  <1>4. CASE x \in Plan
    BY <1>2, <1>4, Planned
  <1>5. CASE x = NoAction
    BY <1>5 DEF NoAction, Aimed
  <1>6. ASSUME NEW call, Calls(call), x = doing' PROVE Aimed(x)'
    <2>1. x.id = doing.id /\ x.number = doing.number /\ x.calls # <<"create">>
      BY <1>6, CallsOn
    <2>2. CASE call = "create"
      <3>1. x.calls = <<>>
        BY <1>6, <2>2, CallsOn
      <3> QED
        BY <3>1 DEF Aimed
    <2>3. CASE call # "create"
      BY <1>1, <1>6, <2>1, <2>3, OwnCall DEF Aimed, KeepsIssues
    <2> QED
      BY <2>2, <2>3
  <1> QED
    BY <1>3, <1>4, <1>5, <1>6, PlanStep

-----------------------------------------------------------------------------
(* The types are kept. *)

LEMMA PlanTypeStep ==
    ASSUME TypeOK, Next
    PROVE  todo' \subseteq Action /\ doing' \in Action \cup {NoAction}
  <1>1. ASSUME NEW x \in todo' \cup {doing'} PROVE x \in Action \cup {NoAction}
    <2>1. CASE x \in todo \cup {doing} \/ x = NoAction
      BY <2>1 DEF TypeOK
    <2>2. CASE x \in Plan
      BY <2>2, Planned
    <2>3. CASE (\E call : Calls(call)) /\ x = doing'
      BY <2>3, CallsOn
    <2> QED
      BY <1>1, <2>1, <2>2, <2>3, PlanStep
  <1>2. todo' \subseteq Action
    <2>1. CASE UNCHANGED todo
      BY <2>1 DEF TypeOK
    <2>2. CASE ListAndPlan
      BY <2>2, Planned DEF ListAndPlan
    <2>3. ASSUME NEW y \in todo, Take(y) PROVE todo' \subseteq Action
      BY <2>3 DEF Take, TypeOK
    <2>4. CASE Ends
      BY <2>4 DEF Ends
    <2> QED
      BY <2>1, <2>2, <2>3, <2>4, ZenonT(30)
         DEF Next, Run, Begin, ReadScan, ScanFails, CreateIssue, Edit, Reopen, Close, Comment,
             Calls, Finish, Die, ReportsChange, PersonEdits, PersonRelabels, run
  <1> QED
    BY <1>1, <1>2

Book == /\ reports \in [Scan -> SUBSET Advisory]
        /\ pc \in {"idle", "scan", "apply"}
        /\ left \subseteq Scan /\ errors \subseteq Scan
        /\ found \subseteq Advisory \X Scan /\ absent \subseteq Advisory \X Scan
        /\ pc # "apply" => todo = {} /\ doing = NoAction
        /\ events \in 0..MaxEvents /\ relabeled \in Nat

LEMMA CleanType ==
    ASSUME clean \in BOOLEAN, Next
    PROVE  clean' \in BOOLEAN
  <1>1. Event \/ Ends \/ Begin => clean' \in BOOLEAN
    BY Zenon DEF Event, Ends, Begin
  <1>2. UNCHANGED clean => clean' \in BOOLEAN
    OBVIOUS
  <1> QED
    BY <1>1, <1>2, ZenonT(30)
       DEF Next, Run, ReadScan, ScanFails, ListAndPlan, Take, CreateIssue, Edit, Reopen, Close,
           Comment, Calls, Finish, Die, ReportsChange, PersonEdits, PersonRelabels

LEMMA BookStep ==
    ASSUME TypeOK, Next
    PROVE  Book'
  <1> USE AuditAssumption DEF TypeOK, Book, Event
  <1>1. CASE Begin
    BY <1>1 DEF Begin, Absent
  <1>2. ASSUME NEW s \in Scan, ReadScan(s) PROVE Book'
    BY <1>2 DEF ReadScan
  <1>3. ASSUME NEW s \in Scan, ScanFails(s) PROVE Book'
    BY <1>3 DEF ScanFails
  <1>4. CASE ListAndPlan
    BY <1>4 DEF ListAndPlan
  <1>5. ASSUME NEW x \in todo, Take(x) PROVE Book'
    BY <1>5 DEF Take
  <1>6. ASSUME NEW call, Calls(call) PROVE Book'
    BY <1>6 DEF Calls
  <1>7. CASE Finish
    BY <1>7 DEF Finish, Ends
  <1>8. CASE Die
    BY <1>8 DEF Die, Ends
  <1>9. CASE ReportsChange
    <2>1. reports' \in [Scan -> SUBSET Advisory] /\ events' \in 0..MaxEvents
      BY <1>9 DEF ReportsChange
    <2>2. absent' \subseteq Advisory \X Scan
      BY <1>9 DEF ReportsChange, Absent
    <2> QED
      BY <1>9, <2>1, <2>2 DEF ReportsChange, run
  <1>10. CASE PersonEdits
    BY <1>10 DEF PersonEdits, run
  <1>11. CASE PersonRelabels
    <2>1. relabeled' \in Nat /\ events' \in 0..MaxEvents
      BY <1>11 DEF PersonRelabels
    <2> QED
      BY <1>11, <2>1 DEF PersonRelabels, run
  <1> HIDE DEF TypeOK, Book
  <1> QED
    BY <1>1, <1>2, <1>3, <1>4, <1>5, <1>6, <1>7, <1>8, <1>9, <1>10, <1>11, ZenonT(30)
       DEF Next, Run, CreateIssue, Edit, Reopen, Close, Comment

LEMMA TypeStep ==
    ASSUME TypeOK, PlansAimed, [Next]_vars
    PROVE  TypeOK'
  <1>1. CASE Next
    BY <1>1, BookStep, CleanType, PlanTypeStep, IssuesStep DEF TypeOK, Book, KeepsIssues
  <1>2. CASE UNCHANGED vars
    BY <1>2 DEF vars, run, TypeOK
  <1> QED
    BY <1>1, <1>2

-----------------------------------------------------------------------------
(* What was absent. *)

LEMMA GroundedStep ==
    ASSUME TypeOK, PlansAimed, Grounded, Next
    PROVE  Grounded'
  <1>1. pc' # "idle" =>
          \A a \in Advisory, s \in Scan : a \notin reports'[s] => <<a, s>> \in absent'
    <2>1. CASE Begin
      BY <2>1 DEF Begin, Absent
    <2>2. CASE ReportsChange
      <3>1. CASE pc = "idle"
        BY <2>2, <3>1 DEF ReportsChange, run
      <3>2. CASE pc # "idle"
        BY <2>2, <3>2 DEF ReportsChange, Absent
      <3> QED
        BY <3>1, <3>2
    <2>3. CASE UNCHANGED <<reports, absent>> /\ (pc' # "idle" => pc # "idle")
      BY <2>3 DEF Grounded
    <2>4. CASE Ends
      BY <2>4 DEF Ends
    <2>5. ASSUME NEW s \in Scan, ReadScan(s) \/ ScanFails(s) PROVE pc = "scan" /\ UNCHANGED <<reports, absent>>
      BY <2>5 DEF ReadScan, ScanFails
    <2>6. ASSUME NEW x \in todo, Take(x) PROVE pc = "apply" /\ UNCHANGED <<reports, absent>>
      BY <2>6 DEF Take
    <2>7. ASSUME NEW call, Calls(call) PROVE pc = "apply" /\ UNCHANGED <<reports, absent>>
      BY <2>7 DEF Calls
    <2>8. ListAndPlan => pc = "scan" /\ UNCHANGED <<reports, absent>>
      BY DEF ListAndPlan
    <2>9. PersonEdits \/ PersonRelabels => UNCHANGED <<pc, reports, absent>>
      BY DEF PersonEdits, PersonRelabels, run
    <2>10. pc \in {"scan", "apply"} => pc # "idle"
      OBVIOUS
    <2> HIDE DEF Grounded
    <2>11. \/ Begin \/ ReportsChange \/ Ends
           \/ UNCHANGED <<reports, absent>> /\ (pc' # "idle" => pc # "idle")
      BY <2>5, <2>6, <2>7, <2>8, <2>9, <2>10, ZenonT(30)
         DEF Next, Run, CreateIssue, Edit, Reopen, Close, Comment, Finish, Die
    <2> QED
      BY <2>1, <2>2, <2>3, <2>4, <2>11
  <1>2. pc' = "scan" =>
          \A a \in Advisory, s \in Scan :
              s \notin left' \cup errors' /\ <<a, s>> \notin found' => <<a, s>> \in absent'
    <2>1. CASE Begin
      BY <2>1 DEF Begin
    <2>2. ASSUME NEW s \in Scan, ReadScan(s)
          PROVE  pc' = "scan" =>
                   \A a \in Advisory, t \in Scan :
                     t \notin left' \cup errors' /\ <<a, t>> \notin found' => <<a, t>> \in absent'
      BY <2>2 DEF ReadScan, Grounded
    <2>3. ASSUME NEW s \in Scan, ScanFails(s)
          PROVE  pc' = "scan" =>
                   \A a \in Advisory, t \in Scan :
                     t \notin left' \cup errors' /\ <<a, t>> \notin found' => <<a, t>> \in absent'
      BY <2>3 DEF ScanFails, Grounded
    <2>4. CASE UNCHANGED <<pc, left, errors, found>> /\ absent \subseteq absent'
      BY <2>4 DEF Grounded
    <2>5. ListAndPlan \/ Ends => pc' # "scan"
      BY DEF ListAndPlan, Ends
    <2>6. ASSUME NEW x \in todo, Take(x) PROVE UNCHANGED <<pc, left, errors, found, absent>>
      BY <2>6 DEF Take
    <2>7. ASSUME NEW call, Calls(call) PROVE UNCHANGED <<pc, left, errors, found, absent>>
      BY <2>7 DEF Calls
    <2>8. PersonEdits \/ PersonRelabels => UNCHANGED <<pc, left, errors, found, absent>>
      BY DEF PersonEdits, PersonRelabels, run
    <2>9. ReportsChange => UNCHANGED <<pc, left, errors, found>> /\ absent \subseteq absent'
      BY DEF ReportsChange, run
    <2>10. UNCHANGED absent => absent \subseteq absent'
      OBVIOUS
    <2>11. \/ Begin \/ (\E s \in Scan : ReadScan(s)) \/ (\E s \in Scan : ScanFails(s))
           \/ UNCHANGED <<pc, left, errors, found>> /\ absent \subseteq absent'
           \/ pc' # "scan"
      BY <2>5, <2>6, <2>7, <2>8, <2>9, <2>10, ZenonT(30)
         DEF Next, Run, CreateIssue, Edit, Reopen, Close, Comment, Finish, Die
    <2> QED
      BY <2>1, <2>2, <2>3, <2>4, <2>11
  <1>3. ASSUME NEW x \in todo' \cup {doing'}, Closing(x), NEW s \in Scan
        PROVE  <<x.id, s>> \in absent'
    <2>1. ~Closing(NoAction)
      BY DEF Closing, NoAction
    <2>2. ASSUME <<x.id, s>> \in absent PROVE <<x.id, s>> \in absent'
      <3>1. CASE Ends
        BY <1>3, <2>1, <3>1 DEF Ends
      <3>2. CASE Begin
        <4>1. todo = {} /\ doing = NoAction /\ UNCHANGED <<todo, doing>>
          BY <3>2 DEF Begin, TypeOK
        <4> QED
          BY <1>3, <2>1, <4>1
      <3>3. absent \subseteq absent' \/ Ends \/ Begin
        <4>1. ReportsChange => absent \subseteq absent'
          BY DEF ReportsChange
        <4>2. UNCHANGED absent => absent \subseteq absent'
          OBVIOUS
        <4> QED
          BY <4>1, <4>2, ZenonT(30)
             DEF Next, Run, ReadScan, ScanFails, ListAndPlan, Take, CreateIssue, Edit, Reopen,
                 Close, Comment, Calls, Finish, Die, PersonEdits, PersonRelabels
      <3> QED
        BY <2>2, <3>1, <3>2, <3>3
    <2>3. CASE x \in todo \cup {doing}
      BY <1>3, <2>2, <2>3 DEF Grounded
    <2>4. CASE ListAndPlan /\ x \in Plan
      <3>1. Closes(x.id) /\ x.id \in Advisory /\ pc = "scan" /\ left = {}
        BY <1>3, <2>4, Planned DEF ListAndPlan, Action
      <3>2. errors = {} /\ <<x.id, s>> \notin found
        BY <3>1 DEF Closes, Reporting
      <3> QED
        BY <2>2, <3>1, <3>2 DEF Grounded
    <2>5. CASE (\E call : Calls(call)) /\ x = doing'
      <3>1. Closing(doing) /\ x.id = doing.id
        BY <1>3, <2>5, CallsOn
      <3> QED
        BY <2>2, <3>1 DEF Grounded
    <2> QED
      BY <1>3, <2>1, <2>3, <2>4, <2>5, PlanStep
  <1> QED
    BY <1>1, <1>2, <1>3 DEF Grounded, Closing

-----------------------------------------------------------------------------
(* One issue each. *)

(* What counts as an advisory's is finite, and one more changes the count   *)
(* by one at most.                                                          *)
LEMMA FewMine ==
    ASSUME TypeOK, PlansAimed, NEW a
    PROVE  /\ IsFiniteSet(Mine(a)) /\ Cardinality(Mine(a)) \in Nat
           /\ \A S \in SUBSET Mine(a) :
                 Cardinality(S) <= Cardinality(Mine(a)) /\ Cardinality(S) \in Nat
           /\ \A n : \A S \in SUBSET (Mine(a) \cup {n}) :
                 Cardinality(S) <= Cardinality(Mine(a)) + 1 /\ Cardinality(S) \in Nat
  <1>1. DOMAIN issues = 1..Len(issues) /\ Len(issues) \in Nat
    BY FewIssues
  <1>2. IsFiniteSet(1..Len(issues))
    BY <1>1, FS_Interval
  <1>3. ASSUME NEW x \in todo \cup {doing}, Edits(x) PROVE x.number \in DOMAIN issues
    <2>1. x.calls # <<>> /\ x.calls # <<"create">>
      BY <1>3 DEF Edits
    <2>2. x # Create(x.id)
      BY <2>1 DEF Create
    <2> QED
      BY <2>1, <2>2 DEF PlansAimed, Aimed
  <1>4. Mine(a) \subseteq 1..Len(issues)
    BY <1>1, <1>3 DEF Mine, IssuesOf
  <1>5. PICK M : M = Mine(a)
    OBVIOUS
  <1>6. IsFiniteSet(M) /\ Cardinality(M) \in Nat
    BY <1>2, <1>4, <1>5, FS_Subset, FS_CardinalityType
  <1>7. ASSUME NEW S \in SUBSET M
        PROVE  Cardinality(S) <= Cardinality(M) /\ Cardinality(S) \in Nat
    BY <1>6, FS_Subset, FS_CardinalityType
  <1>8. ASSUME NEW n, NEW S \in SUBSET (M \cup {n})
        PROVE  Cardinality(S) <= Cardinality(M) + 1 /\ Cardinality(S) \in Nat
    <2>1. /\ IsFiniteSet(M \cup {n})
          /\ Cardinality(M \cup {n}) = IF n \in M THEN Cardinality(M) ELSE Cardinality(M) + 1
      BY <1>6, FS_AddElement
    <2>2. /\ Cardinality(S) <= Cardinality(M \cup {n}) /\ Cardinality(S) \in Nat
      BY <2>1, FS_Subset, FS_CardinalityType
    <2> QED
      BY <1>6, <2>1, <2>2
  <1> QED
    BY <1>5, <1>6, <1>7, <1>8

(* A step that makes no plan makes no edit pending.                         *)
LEMMA EditsStep ==
    ASSUME TypeOK, Next, ~ListAndPlan, NEW x \in todo' \cup {doing'}, Edits(x)
    PROVE  x \in todo \cup {doing}
  <1>1. x # NoAction
    <2>1. NoAction.calls = <<>>
      BY DEF NoAction
    <2>2. x.calls # <<>>
      BY DEF Edits
    <2> QED
      BY <2>1, <2>2
  <1>2. ASSUME NEW call, Calls(call) PROVE x # doing'
    BY <1>2, CallsOn
  <1> QED
    BY <1>1, <1>2, PlanStep

LEMMA RelabeledStep ==
    ASSUME Next, ~PersonRelabels
    PROVE  relabeled' = relabeled
  <1>1. CASE Ends
    BY <1>1 DEF Ends
  <1>2. ASSUME NEW call, Calls(call) PROVE relabeled' = relabeled
    BY <1>2 DEF Calls
  <1>3. CASE UNCHANGED relabeled
    BY <1>3
  <1> QED
    BY <1>1, <1>2, <1>3, ZenonT(30)
       DEF Next, Run, Begin, ReadScan, ScanFails, ListAndPlan, Take, CreateIssue, Edit, Reopen,
           Close, Comment, Finish, Die, ReportsChange, PersonEdits

(* How what counts as an advisory's changes.                                *)
LEMMA MineStep ==
    ASSUME TypeOK, PlansAimed, Next, ~ListAndPlan, NEW a
    PROVE  \/ Mine(a)' \subseteq Mine(a) /\ relabeled' \in {relabeled, relabeled + 1}
           \/ \E n : Mine(a)' \subseteq Mine(a) \cup {n} /\ relabeled' = relabeled + 1
           \/ CreateIssue /\ a = doing.id /\ relabeled' = relabeled
              /\ Mine(a)' \subseteq Mine(a) \cup {Len(issues) + 1}
  <1>1. ASSUME NEW n, IssuesOf(a)' \subseteq IssuesOf(a) \cup {n}
        PROVE  Mine(a)' \subseteq Mine(a) \cup {n}
    BY <1>1, EditsStep DEF Mine, Edits
  <1>2. ASSUME IssuesOf(a)' \subseteq IssuesOf(a)
        PROVE  Mine(a)' \subseteq Mine(a)
    BY <1>2, EditsStep DEF Mine, Edits
  <1>3. CASE CreateIssue
    <2>1. relabeled' = relabeled
      BY <1>3 DEF CreateIssue, Calls
    <2> QED
      BY <1>1, <1>2, <1>3, <2>1, CreateKeeps
  <1>4. CASE Edit
    <2>1. relabeled' = relabeled
      BY <1>4 DEF Edit, Calls
    <2>2. CASE a # doing.id
      BY <1>2, <1>4, <2>1, <2>2, EditKeeps
    <2>3. CASE a = doing.id
      <3>1. doing.number \in Mine(a)
        BY <1>4, <2>3, CallsOn DEF Edit, Mine
      <3> QED
        BY <1>1, <1>4, <2>1, <2>3, <3>1, EditKeeps
    <2> QED
      BY <2>2, <2>3
  <1>5. CASE PersonRelabels
    BY <1>1, <1>2, <1>5, RelabelKeeps
  <1>6. CASE ~CreateIssue /\ ~Edit /\ ~PersonRelabels
    <2>1. relabeled' = relabeled
      BY <1>6, RelabeledStep
    <2>2. IssuesOf(a)' = IssuesOf(a)
      BY <1>6, IssuesStep
    <2> QED
      BY <1>2, <2>1, <2>2
  <1> QED
    BY <1>3, <1>4, <1>5, <1>6

Once(a) == doing = Create(a) => Create(a) \notin todo

(* A step that makes no plan makes no creation pending.                     *)
LEMMA PendingStep ==
    ASSUME TypeOK, Next, ~ListAndPlan, NEW a \in Advisory, Once(a)
    PROVE  /\ Pending(a)' => Pending(a)
           /\ Once(a)'
  <1>1. CASE UNCHANGED <<todo, doing>>
    BY <1>1 DEF Pending, Once, Create
  <1>2. ASSUME NEW x \in todo, Take(x)
        PROVE  (Pending(a)' => Pending(a)) /\ Once(a)'
    BY <1>2 DEF Take, Pending, Once, Create
  <1>3. ASSUME NEW call, Calls(call)
        PROVE  (Pending(a)' => Pending(a)) /\ Once(a)'
    <2>1. todo' = todo
      BY <1>3 DEF Calls
    <2>2. doing'.calls # <<"create">>
      BY <1>3, CallsOn
    <2>3. doing' # Create(a)
      BY <2>2 DEF Create
    <2> QED
      BY <2>1, <2>3 DEF Pending, Once, Create
  <1>4. CASE Ends
    <2>1. todo' = {} /\ doing'.calls = <<>>
      BY <1>4 DEF Ends, NoAction
    <2>2. doing' # Create(a)
      BY <2>1 DEF Create
    <2> QED
      BY <2>1, <2>2 DEF Pending, Once, Create
  <1> QED
    BY <1>1, <1>2, <1>3, <1>4, ZenonT(30)
       DEF Next, Run, Begin, ReadScan, ScanFails, CreateIssue, Edit, Reopen, Close, Comment,
           Finish, Die, ReportsChange, PersonEdits, PersonRelabels, run

LEMMA NoSecondStep ==
    ASSUME TypeOK, PlansAimed, NoSecond, Next
    PROVE  NoSecond'
  <1> SUFFICES ASSUME NEW a \in Advisory
               PROVE  /\ Once(a)'
                      /\ Pending(a)' => Cardinality(Mine(a)') <= relabeled'
                      /\ Cardinality(Mine(a)') <= 1 + relabeled'
    BY DEF NoSecond, Once
  <1>1. /\ Once(a)
        /\ Pending(a) => Cardinality(Mine(a)) <= relabeled
        /\ Cardinality(Mine(a)) <= 1 + relabeled
    BY DEF NoSecond, Once
  <1>2. Cardinality(Mine(a)) \in Nat /\ relabeled \in Nat
    BY FewMine DEF TypeOK
  <1>3. CASE ListAndPlan
    <2>1. UNCHANGED <<issues, relabeled, doing>> /\ todo' = Plan /\ doing = NoAction
      BY <1>3 DEF ListAndPlan, TypeOK
    <2>2. IssuesOf(a)' = IssuesOf(a)
      BY <2>1, SameIssues
    <2>3. doing' # Create(a) /\ ~Edits(doing')
      BY <2>1 DEF NoAction, Create, Edits
    <2>4. ASSUME Create(a) \in Plan PROVE IssuesOf(a) = {}
      <3>1. Create(a).calls = <<"create">> /\ Create(a).id = a
        BY DEF Create
      <3>2. Creates(a)
        BY <2>4, <3>1, Planned
      <3> QED
        BY <3>2 DEF Creates
    <2>5. ASSUME NEW x \in Plan, x.id = a, Edits(x) PROVE x.number \in IssuesOf(a)
      BY <2>5, Planned
    <2>6. Mine(a)' = IssuesOf(a)
      BY <2>1, <2>2, <2>3, <2>5 DEF Mine, Edits
    <2>7. IssuesOf(a) \in SUBSET Mine(a)
      BY DEF Mine
    <2>8. Cardinality(Mine(a)') <= Cardinality(Mine(a)) /\ Cardinality(Mine(a)') \in Nat
      BY <2>6, <2>7, FewMine
    <2>9. Pending(a)' => Cardinality(Mine(a)') = 0
      BY <2>1, <2>3, <2>4, <2>6, FS_EmptySet DEF Pending, Create
    <2>10. Once(a)'
      BY <2>3 DEF Once, Create
    <2> QED
      BY <1>1, <1>2, <2>1, <2>8, <2>9, <2>10
  <1>4. CASE ~ListAndPlan
    <2>1. (Pending(a)' => Pending(a)) /\ Once(a)'
      BY <1>1, <1>4, PendingStep
    <2>2. CASE Mine(a)' \subseteq Mine(a) /\ relabeled' \in {relabeled, relabeled + 1}
      <3>1. Cardinality(Mine(a)') <= Cardinality(Mine(a)) /\ Cardinality(Mine(a)') \in Nat
        BY <2>2, FewMine
      <3> QED
        BY <1>1, <1>2, <2>1, <2>2, <3>1
    <2>3. CASE \E n : Mine(a)' \subseteq Mine(a) \cup {n} /\ relabeled' = relabeled + 1
      <3>1. Cardinality(Mine(a)') <= Cardinality(Mine(a)) + 1 /\ Cardinality(Mine(a)') \in Nat
        BY <2>3, FewMine
      <3> QED
        BY <1>1, <1>2, <2>1, <2>3, <3>1
    <2>4. CASE CreateIssue /\ a = doing.id /\ relabeled' = relabeled
               /\ Mine(a)' \subseteq Mine(a) \cup {Len(issues) + 1}
      <3>1. doing.calls = <<"create">> /\ doing.calls # <<>> /\ doing'.calls # <<"create">>
            /\ todo' = todo
        BY <2>4, CallsOn DEF CreateIssue, Calls
      <3>2. doing = Create(a)
        BY <2>4, <3>1 DEF PlansAimed, Aimed
      <3>3. Pending(a) /\ Create(a) \notin todo
        BY <1>1, <3>2 DEF Pending, Once
      <3>4. doing' # Create(a)
        BY <3>1 DEF Create
      <3>5. ~Pending(a)'
        BY <3>1, <3>3, <3>4 DEF Pending, Create
      <3>6. Cardinality(Mine(a)') <= Cardinality(Mine(a)) + 1 /\ Cardinality(Mine(a)') \in Nat
        BY <2>4, FewMine
      <3> QED
        BY <1>1, <1>2, <2>1, <2>4, <3>3, <3>5, <3>6
    <2> QED
      BY <1>4, <2>2, <2>3, <2>4, MineStep
  <1> QED
    BY <1>3, <1>4

-----------------------------------------------------------------------------
LEMMA AuditInit ==
    ASSUME Init
    PROVE  AuditInv
  <1>0. clean \in BOOLEAN
    BY Zenon DEF Init
  <1>1. ASSUME NEW a \in Advisory, NEW o \in BOOLEAN,
               issues = <<[id |-> a, open |-> o, labeled |-> TRUE, titled |-> TRUE, body |-> {}]>>
        PROVE  issues \in Seq(Issue) /\ DOMAIN issues = {1}
    <2>1. [id |-> a, open |-> o, labeled |-> TRUE, titled |-> TRUE, body |-> {}] \in Issue
      BY DEF Issue
    <2> QED
      BY <1>1, <2>1
  <1>2. issues \in Seq(Issue) /\ DOMAIN issues \subseteq {1}
    <2>1. CASE issues = <<>>
      BY <2>1
    <2> QED
      BY <1>1, <2>1 DEF Init
  <1>3. TypeOK
    BY <1>0, <1>2, AuditAssumption DEF Init, TypeOK
  <1>4. todo = {} /\ doing = NoAction /\ doing.calls = <<>> /\ pc = "idle" /\ relabeled = 0
    BY DEF Init, NoAction
  <1>5. PlansAimed
    BY <1>4 DEF PlansAimed, Aimed
  <1>6. Grounded
    BY <1>4 DEF Grounded, Closing
  <1>7. ASSUME NEW a PROVE doing # Create(a) /\ ~Pending(a)
    BY <1>4 DEF Create, Pending
  <1>8. ASSUME NEW a PROVE Cardinality(IssuesOf(a)) <= 1
    <2>1. IssuesOf(a) \subseteq {1}
      BY <1>2 DEF IssuesOf
    <2>2. IsFiniteSet({1}) /\ Cardinality({1}) = 1
      BY FS_Singleton
    <2> QED
      BY <2>1, <2>2, FS_Subset
  <1>m. ASSUME NEW a PROVE Mine(a) = IssuesOf(a)
    BY <1>4 DEF Mine, Edits
  <1>9. NoSecond
    BY <1>4, <1>7, <1>8, <1>m DEF NoSecond
  <1> QED
    BY <1>3, <1>5, <1>6, <1>9 DEF AuditInv

LEMMA AuditStep ==
    ASSUME AuditInv, [Next]_vars
    PROVE  AuditInv'
  <1> USE DEF AuditInv
  <1>1. CASE Next
    BY <1>1, TypeStep, AimedStep, GroundedStep, NoSecondStep
  <1>2. CASE UNCHANGED vars
    <2>1. UNCHANGED <<reports, issues, pc, left, found, errors, todo, doing, absent, relabeled>>
      BY <1>2 DEF vars, run
    <2>2. TypeOK'
      BY <1>2, TypeStep
    <2>3. PlansAimed'
      BY <2>1 DEF PlansAimed, Aimed, Create
    <2>4. Grounded'
      BY <2>1 DEF Grounded, Closing
    <2>5. NoSecond'
      BY <2>1 DEF NoSecond, Pending, Create, Mine, Edits, IssuesOf
    <2> QED
      BY <2>2, <2>3, <2>4, <2>5
  <1> QED
    BY <1>1, <1>2

(* Types of the issues, the run and its plan.                               *)
THEOREM TypeCorrect == Spec => []TypeOK
  <1>1. AuditInv => TypeOK
    BY DEF AuditInv
  <1> QED
    BY AuditInit, AuditStep, <1>1, PTL DEF Spec

(* An advisory has a second listed issue only as often as somebody put a    *)
(* label or a title back, wherever runs of the audit died.                  *)
THEOREM OneIssueAlways == Spec => []OneIssueEach
  <1>1. AuditInv => OneIssueEach
    <2> SUFFICES ASSUME AuditInv, NEW a \in Advisory
                 PROVE  Cardinality(IssuesOf(a)) <= 1 + relabeled
      BY DEF OneIssueEach
    <2>1. IssuesOf(a) \in SUBSET Mine(a)
      BY DEF Mine
    <2>2. /\ Cardinality(IssuesOf(a)) <= Cardinality(Mine(a))
          /\ Cardinality(IssuesOf(a)) \in Nat /\ Cardinality(Mine(a)) \in Nat
      BY <2>1, FewMine DEF AuditInv
    <2>3. Cardinality(Mine(a)) <= 1 + relabeled /\ relabeled \in Nat
      BY DEF AuditInv, NoSecond, TypeOK
    <2> QED
      BY <2>2, <2>3
  <1> QED
    BY AuditInit, AuditStep, <1>1, PTL DEF Spec

(* A step of a run that closes an issue is its call to close it.            *)
LEMMA ClosesGrounded ==
    ASSUME AuditInv, Next, NEW n \in DOMAIN issues,
           issues[n].open, ~issues'[n].open, doing' # doing
    PROVE  \A s \in Scan : <<issues[n].id, s>> \in absent
  <1> USE DEF AuditInv
  <1>1. issues' # issues
    OBVIOUS
  <1>2. CASE CreateIssue
    <2>1. issues'[n] = issues[n]
      BY <1>2 DEF CreateIssue, TypeOK
    <2> QED
      BY <2>1
  <1>3. CASE Edit
    <2>1. doing.number \in DOMAIN issues
      BY <1>3, OwnCall DEF Edit
    <2>2. issues'[n].open = issues[n].open
      BY <1>3, <2>1, IssueTyped DEF Edit, Issue
    <2> QED
      BY <2>2
  <1>4. CASE Reopen
    <2>1. issues[n] \in Issue
      BY IssueTyped
    <2>2. issues'[n].open = issues[n].open \/ issues'[n].open = TRUE
      BY <1>4, <2>1 DEF Reopen, Issue
    <2> QED
      BY <2>2
  <1>5. CASE Close
    <2>1. doing.calls = <<"close">> /\ doing.number \in DOMAIN issues
          /\ issues[doing.number].id = doing.id
      BY <1>5, CallsOn, OwnCall DEF Close
    <2>2. n = doing.number
      BY <1>5 DEF Close
    <2> QED
      BY <2>1, <2>2 DEF Grounded, Closing
  <1>6. PersonEdits \/ PersonRelabels => doing' = doing
    BY DEF PersonEdits, PersonRelabels, run
  <1> QED
    BY <1>1, <1>2, <1>3, <1>4, <1>5, <1>6, ZenonT(30)
       DEF Next, Run, Begin, ReadScan, ScanFails, ListAndPlan, Take, Comment, Ends, Finish, Die,
           ReportsChange

(* A run closes an issue only if every scan was without its advisory at     *)
(* some moment of that run.                                                 *)
THEOREM ClosedWhenGone == Spec => ClosedOnlyWhenGone
  <1> DEFINE Right == \A n \in DOMAIN issues :
                          issues[n].open /\ ~issues'[n].open /\ doing' # doing =>
                              \A s \in Scan : <<issues[n].id, s>> \in absent
  <1>1. AuditInv /\ [Next]_vars => [Right]_vars
    BY ClosesGrounded
  <1> QED
    BY AuditInit, AuditStep, <1>1, PTL DEF Spec, ClosedOnlyWhenGone

-----------------------------------------------------------------------------
(* A run that nothing disturbs: an advisory's issue is in line with what    *)
(* was found (Settled), or what is left of its action will bring it there.  *)
One(a) == \A m, n \in IssuesOf(a) : m = n

Settled(a) ==
    IF Reporting(a) # {}
    THEN \E n \in IssuesOf(a) : issues[n].open /\ issues[n].body = Reporting(a)
    ELSE One(a) => \A n \in IssuesOf(a) : ~issues[n].open

Brings(x) ==
    LET n == x.number  a == x.id
    IN IF Closing(x)
       THEN Reporting(a) = {} /\ n \in IssuesOf(a)
       ELSE /\ Reporting(a) # {}
            /\ x.calls # <<"create">> =>
                  /\ n \in IssuesOf(a)
                  /\ x.calls \in {<<"edit", "comment">>, <<"comment">>} => issues[n].open
                  /\ x.calls \in {<<"reopen", "comment">>, <<"comment">>}
                        => issues[n].body = Reporting(a)

Begun(x) == x.calls # <<>>

-----------------------------------------------------------------------------
(* What a call takes off the action it belongs to.                          *)
LEMMA CallsWay ==
    ASSUME TypeOK, NEW call, Calls(call)
    PROVE  /\ call = "create" => doing.calls = <<"create">> /\ doing'.calls = <<>>
           /\ call = "edit" =>
                 \/ doing.calls = <<"edit", "reopen", "comment">> /\ doing'.calls = <<"reopen", "comment">>
                 \/ doing.calls = <<"edit", "comment">> /\ doing'.calls = <<"comment">>
           /\ call = "reopen" =>
                 doing.calls = <<"reopen", "comment">> /\ doing'.calls = <<"comment">>
           /\ call = "comment" =>
                 \/ doing.calls = <<"comment">> /\ doing'.calls = <<>>
                 \/ doing.calls = <<"comment", "close">> /\ doing'.calls = <<"close">>
           /\ call = "close" => doing.calls = <<"close">> /\ doing'.calls = <<>>
  <1>0. /\ doing \in Action /\ doing.calls # <<>>
        /\ doing' = [id |-> doing.id, number |-> doing.number, calls |-> Tail(doing.calls)]
    BY CallsOn
  <1>1. doing.calls \in CallsLeft \ {<<>>} /\ doing'.calls = Tail(doing.calls)
    BY <1>0 DEF Action
  <1>2. Head(doing.calls) = call
    BY DEF Calls
  <1>3. CASE doing.calls = <<"create">>
    BY <1>1, <1>2, <1>3
  <1>4. CASE doing.calls = <<"edit", "reopen", "comment">>
    BY <1>1, <1>2, <1>4
  <1>5. CASE doing.calls = <<"reopen", "comment">>
    BY <1>1, <1>2, <1>5
  <1>6. CASE doing.calls = <<"comment">>
    BY <1>1, <1>2, <1>6
  <1>7. CASE doing.calls = <<"edit", "comment">>
    BY <1>1, <1>2, <1>7
  <1>8. CASE doing.calls = <<"comment", "close">>
    BY <1>1, <1>2, <1>8
  <1>9. CASE doing.calls = <<"close">>
    BY <1>1, <1>2, <1>9
  <1> QED
    BY <1>1, <1>3, <1>4, <1>5, <1>6, <1>7, <1>8, <1>9 DEF CallsLeft

(* The four ways an advisory gets an action, of which it gets at most one.  *)
Way(a, x) ==
    \/ Creates(a) /\ x = Create(a)
    \/ Reopens(a) /\ x = [id |-> a, number |-> Own(a), calls |-> <<"edit", "reopen", "comment">>]
    \/ Updates(a) /\ x = [id |-> a, number |-> Own(a), calls |-> <<"edit", "comment">>]
    \/ Closes(a) /\ x = [id |-> a, number |-> Own(a), calls |-> <<"comment", "close">>]

LEMMA PlanWays ==
    ASSUME NEW x
    PROVE  x \in Plan <=> \E a \in Advisory : Way(a, x)
  BY Zenon DEF Plan, OnOwn, Way

LEMMA OneWay ==
    ASSUME NEW a, NEW x, NEW y, Way(a, x), Way(a, y)
    PROVE  x.id = a /\ x = y
  <1>1. x.id = a
    BY DEF Way, Create
  <1>2. x = y
    BY DEF Way, Creates, Reopens, Updates, Closes
  <1> QED
    BY <1>1, <1>2

(* A planned action brings its issue into line, and an advisory without one *)
(* has an issue that is.                                                    *)
LEMMA WayBrings ==
    ASSUME TypeOK, NEW a \in Advisory, NEW x, Way(a, x)
    PROVE  Begun(x) /\ Brings(x)
  <1>1. x.id = a
    BY OneWay
  <1>2. CASE Creates(a) /\ x = Create(a)
    <2>1. x.calls = <<"create">>
      BY <1>2 DEF Create
    <2> QED
      BY <1>1, <1>2, <2>1 DEF Creates, Brings, Begun, Closing
  <1>3. CASE Reopens(a) /\ x = [id |-> a, number |-> Own(a), calls |-> <<"edit", "reopen", "comment">>]
    <2>1. x.calls = <<"edit", "reopen", "comment">> /\ x.number = Own(a)
      BY <1>3
    <2>2. Own(a) \in IssuesOf(a)
      BY <1>3, OwnIsOne DEF Reopens
    <2> QED
      BY <1>1, <1>3, <2>1, <2>2 DEF Reopens, Brings, Begun, Closing
  <1>4. CASE Updates(a) /\ x = [id |-> a, number |-> Own(a), calls |-> <<"edit", "comment">>]
    <2>1. x.calls = <<"edit", "comment">> /\ x.number = Own(a)
      BY <1>4
    <2>2. Own(a) \in IssuesOf(a)
      BY <1>4, OwnIsOne DEF Updates
    <2> QED
      BY <1>1, <1>4, <2>1, <2>2 DEF Updates, Brings, Begun, Closing
  <1>5. CASE Closes(a) /\ x = [id |-> a, number |-> Own(a), calls |-> <<"comment", "close">>]
    <2>1. x.calls = <<"comment", "close">> /\ x.number = Own(a)
      BY <1>5
    <2>2. Own(a) \in IssuesOf(a)
      BY <1>5, OwnIsOne DEF Closes
    <2> QED
      BY <1>1, <1>5, <2>1, <2>2 DEF Closes, Brings, Begun, Closing
  <1> QED
    BY <1>2, <1>3, <1>4, <1>5 DEF Way

LEMMA NoWaySettled ==
    ASSUME TypeOK, errors = {}, NEW a \in Advisory, \A x : ~Way(a, x)
    PROVE  Settled(a)
  <1>1. ~Creates(a) /\ ~Reopens(a) /\ ~Updates(a) /\ ~Closes(a)
    BY DEF Way
  <1>2. IssuesOf(a) # {} => Own(a) \in IssuesOf(a)
    BY OwnIsOne
  <1>3. CASE Reporting(a) # {}
    BY <1>1, <1>2, <1>3 DEF Creates, Reopens, Updates, Settled
  <1>4. CASE Reporting(a) = {}
    BY <1>1, <1>2, <1>4 DEF Closes, Settled, One
  <1> QED
    BY <1>3, <1>4

(* What happens to other issues is of no matter to an advisory.             *)
LEMMA Elsewhere ==
    ASSUME NEW a, found' = found, IssuesOf(a)' = IssuesOf(a),
           \A n \in IssuesOf(a) : issues'[n] = issues[n]
    PROVE  /\ Settled(a) => Settled(a)'
           /\ \A x : x.id = a /\ Brings(x) => Brings(x)'
  <1>1. Reporting(a)' = Reporting(a)
    BY DEF Reporting
  <1>2. Settled(a) => Settled(a)'
    BY <1>1 DEF Settled, One
  <1>3. ASSUME NEW x, x.id = a, Brings(x) PROVE Brings(x)'
    BY <1>1, <1>3 DEF Brings, Closing
  <1> QED
    BY <1>2, <1>3

(* A call changes no other advisory's issues ...                            *)
LEMMA CallElsewhere ==
    ASSUME TypeOK, PlansAimed, CreateIssue \/ Edit \/ Reopen \/ Comment \/ Close,
           NEW a, a # doing.id
    PROVE  IssuesOf(a)' = IssuesOf(a) /\ \A n \in IssuesOf(a) : issues'[n] = issues[n]
  <1>1. CASE CreateIssue
    <2>1. IssuesOf(a)' = IssuesOf(a)
      BY <1>1, CreateKeeps
    <2>2. \A n \in DOMAIN issues : issues'[n] = issues[n]
      BY <1>1 DEF CreateIssue, TypeOK
    <2> QED
      BY <2>1, <2>2 DEF IssuesOf
  <1>2. CASE Comment
    BY <1>2 DEF Comment, IssuesOf
  <1>3. ASSUME NEW call, Calls(call), call # "create", NEW r,
               issues' = [issues EXCEPT ![doing.number] = r]
        PROVE  \A n \in IssuesOf(a) : issues'[n] = issues[n]
    <2>1. doing.number \in DOMAIN issues /\ issues[doing.number].id = doing.id
      BY <1>3, OwnCall
    <2>2. doing.number \notin IssuesOf(a)
      BY <2>1 DEF IssuesOf
    <2> QED
      BY <1>3, <2>2 DEF IssuesOf, TypeOK
  <1>4. CASE Edit
    <2>1. issues' = [issues EXCEPT ![doing.number] =
                        [issues[doing.number] EXCEPT !.body = Reporting(doing.id), !.titled = TRUE]]
      BY <1>4, OwnCall, IssueTyped DEF Edit, Issue
    <2> QED
      BY <1>3, <1>4, <2>1, EditKeeps DEF Edit
  <1>5. CASE Reopen
    <2>1. issues' = [issues EXCEPT ![doing.number] = [issues[doing.number] EXCEPT !.open = TRUE]]
      BY <1>5, OwnCall DEF Reopen
    <2> QED
      BY <1>3, <1>5, <2>1, ReopenKeeps DEF Reopen
  <1>6. CASE Close
    <2>1. issues' = [issues EXCEPT ![doing.number] = [issues[doing.number] EXCEPT !.open = FALSE]]
      BY <1>6, OwnCall DEF Close
    <2> QED
      BY <1>3, <1>6, <2>1, CloseKeeps DEF Close
  <1> QED
    BY <1>1, <1>2, <1>4, <1>5, <1>6

(* ... and brings its own one step nearer, the last one into line.          *)
Nearer(a) == IF Begun(doing') THEN Brings(doing)' ELSE Settled(a)'

LEMMA CreateNearer ==
    ASSUME TypeOK, Brings(doing), CreateIssue, NEW a, a = doing.id
    PROVE  Nearer(a)
  <1>1. doing.calls = <<"create">> /\ doing'.calls = <<>>
    BY CallsWay DEF CreateIssue
  <1>2. Reporting(a) # {} /\ found' = found
    BY <1>1 DEF Brings, Closing, CreateIssue, Calls
  <1>3. Len(issues) + 1 \in IssuesOf(a)'
    BY CreateKeeps
  <1>4. issues'[Len(issues) + 1] = [id |-> a, open |-> TRUE, labeled |-> TRUE,
                                    titled |-> TRUE, body |-> Reporting(a)]
    BY DEF CreateIssue, TypeOK
  <1>5. issues'[Len(issues) + 1].open /\ issues'[Len(issues) + 1].body = Reporting(a)
    BY <1>4
  <1> QED
    BY <1>1, <1>2, <1>3, <1>5 DEF Nearer, Begun, Settled, Reporting

LEMMA EditNearer ==
    ASSUME TypeOK, PlansAimed, Brings(doing), Edit, NEW a, a = doing.id
    PROVE  Nearer(a)
  <1> DEFINE n == doing.number
  <1>1. \/ doing.calls = <<"edit", "reopen", "comment">> /\ doing'.calls = <<"reopen", "comment">>
        \/ doing.calls = <<"edit", "comment">> /\ doing'.calls = <<"comment">>
    BY CallsWay DEF Edit
  <1>2. doing'.id = a /\ doing'.number = n /\ found' = found
    BY CallsOn DEF Edit, Calls
  <1>3. /\ Reporting(a) # {} /\ n \in IssuesOf(a)
        /\ doing.calls = <<"edit", "comment">> => issues[n].open
    BY <1>1 DEF Brings, Closing
  <1>4. IssuesOf(a)' = IssuesOf(a)
    BY <1>3, EditKeeps
  <1>5. issues[n] \in Issue /\ n \in DOMAIN issues
    BY <1>3, IssueTyped DEF IssuesOf
  <1>6. issues'[n].body = Reporting(a) /\ issues'[n].open = issues[n].open
    BY <1>5 DEF Edit, Issue
  <1>7. Reporting(a)' = Reporting(a)
    BY <1>2 DEF Reporting
  <1>8. CASE doing.calls = <<"edit", "reopen", "comment">> /\ doing'.calls = <<"reopen", "comment">>
    BY <1>2, <1>3, <1>4, <1>6, <1>7, <1>8 DEF Nearer, Begun, Brings, Closing, Reporting, IssuesOf
  <1>9. CASE doing.calls = <<"edit", "comment">> /\ doing'.calls = <<"comment">>
    BY <1>2, <1>3, <1>4, <1>6, <1>7, <1>9 DEF Nearer, Begun, Brings, Closing, Reporting, IssuesOf
  <1> QED
    BY <1>1, <1>8, <1>9

LEMMA ReopenNearer ==
    ASSUME TypeOK, PlansAimed, Brings(doing), Reopen, NEW a, a = doing.id
    PROVE  Nearer(a)
  <1> DEFINE n == doing.number
  <1>1. doing.calls = <<"reopen", "comment">> /\ doing'.calls = <<"comment">>
    BY CallsWay DEF Reopen
  <1>2. doing'.id = a /\ doing'.number = n /\ found' = found
    BY CallsOn DEF Reopen, Calls
  <1>3. /\ Reporting(a) # {} /\ n \in IssuesOf(a)
        /\ issues[n].body = Reporting(a)
    BY <1>1 DEF Brings, Closing
  <1>4. IssuesOf(a)' = IssuesOf(a)
    BY ReopenKeeps
  <1>5. issues[n] \in Issue /\ n \in DOMAIN issues
    BY <1>3, IssueTyped DEF IssuesOf
  <1>6. issues'[n].body = issues[n].body /\ issues'[n].open
    BY <1>5 DEF Reopen, Issue
  <1>7. Reporting(a)' = Reporting(a)
    BY <1>2 DEF Reporting
  <1> QED
    BY <1>1, <1>2, <1>3, <1>4, <1>6, <1>7 DEF Nearer, Begun, Brings, Closing, Reporting, IssuesOf

LEMMA CommentNearer ==
    ASSUME TypeOK, PlansAimed, Brings(doing), Comment, NEW a, a = doing.id
    PROVE  Nearer(a)
  <1> DEFINE n == doing.number
  <1>1. \/ doing.calls = <<"comment">> /\ doing'.calls = <<>>
        \/ doing.calls = <<"comment", "close">> /\ doing'.calls = <<"close">>
    BY CallsWay DEF Comment
  <1>2. doing'.id = a /\ doing'.number = n /\ UNCHANGED <<found, issues>>
    BY CallsOn DEF Comment, Calls
  <1>3. IssuesOf(a)' = IssuesOf(a) /\ Reporting(a)' = Reporting(a)
    BY <1>2 DEF Reporting, IssuesOf
  <1>4. CASE doing.calls = <<"comment">> /\ doing'.calls = <<>>
    <2>1. /\ Reporting(a) # {} /\ n \in IssuesOf(a)
          /\ issues[n].body = Reporting(a) /\ issues[n].open
      BY <1>4 DEF Brings, Closing
    <2> QED
      BY <1>2, <1>3, <1>4, <2>1 DEF Nearer, Begun, Settled
  <1>5. CASE doing.calls = <<"comment", "close">> /\ doing'.calls = <<"close">>
    <2>1. Reporting(a) = {} /\ n \in IssuesOf(a)
      BY <1>5 DEF Brings, Closing
    <2> QED
      BY <1>2, <1>3, <1>5, <2>1 DEF Nearer, Begun, Brings, Closing, Reporting, IssuesOf
  <1> QED
    BY <1>1, <1>4, <1>5

LEMMA CloseNearer ==
    ASSUME TypeOK, PlansAimed, Brings(doing), Close, NEW a, a = doing.id
    PROVE  Nearer(a)
  <1> DEFINE n == doing.number
  <1>1. doing.calls = <<"close">> /\ doing'.calls = <<>> /\ found' = found
    BY CallsWay DEF Close, Calls
  <1>2. Reporting(a) = {} /\ n \in IssuesOf(a)
    BY <1>1 DEF Brings, Closing
  <1>3. IssuesOf(a)' = IssuesOf(a) /\ Reporting(a)' = Reporting(a)
    BY <1>1, CloseKeeps DEF Reporting
  <1>4. issues[n] \in Issue /\ n \in DOMAIN issues
    BY <1>2, IssueTyped DEF IssuesOf
  <1>5. ~issues'[n].open
    BY <1>4 DEF Close, Issue
  <1> QED
    BY <1>1, <1>2, <1>3, <1>5 DEF Nearer, Begun, Settled, One

(* The steps a clean run takes, which is one that has begun.                *)
LEMMA CleanWays ==
    ASSUME Next, clean', ~Begin
    PROVE  /\ clean
           /\ \/ \E s \in Scan : ReadScan(s)
              \/ ListAndPlan
              \/ \E x \in todo : Take(x)
              \/ CreateIssue \/ Edit \/ Reopen \/ Comment \/ Close
  <1>1. ~Event /\ ~Ends
    BY Zenon DEF Event, Ends
  <1>2. \/ \E s \in Scan : ReadScan(s)
        \/ ListAndPlan
        \/ \E x \in todo : Take(x)
        \/ CreateIssue \/ Edit \/ Reopen \/ Comment \/ Close
    BY <1>1, ZenonT(30)
       DEF Next, Run, ScanFails, Finish, Die, ReportsChange, PersonEdits, PersonRelabels
  <1>3. clean' = clean
    BY <1>2, ZenonT(30)
       DEF ReadScan, ListAndPlan, Take, CreateIssue, Edit, Reopen, Comment, Close, Calls
  <1> QED
    BY <1>2, <1>3

(* Between runs nothing is found.                                           *)
Idle == pc = "idle" => found = {} /\ errors = {}

LEMMA IdleStep ==
    ASSUME Idle, Next
    PROVE  Idle'
  <1>1. CASE Ends
    BY <1>1 DEF Ends, Idle
  <1>2. CASE Begin
    BY <1>2 DEF Begin, Idle
  <1>3. CASE ListAndPlan
    BY <1>3 DEF ListAndPlan, Idle
  <1>4. ASSUME NEW s \in Scan, ReadScan(s) \/ ScanFails(s) PROVE Idle'
    BY <1>4 DEF ReadScan, ScanFails, Idle
  <1>5. CASE UNCHANGED <<pc, found, errors>>
    BY <1>5 DEF Idle
  <1> QED
    BY <1>1, <1>2, <1>3, <1>4, <1>5, ZenonT(30)
       DEF Next, Run, Take, CreateIssue, Edit, Reopen, Comment, Close, Calls, Finish, Die,
           ReportsChange, PersonEdits, PersonRelabels, run

(* What a clean run has found is what is reported.                          *)
FoundTrue ==
    /\ errors = {} /\ (pc = "apply" => left = {})
    /\ \A a \in Advisory, s \in Scan :
          <<a, s>> \in found <=> s \notin left /\ a \in reports[s]

LEMMA FoundStep ==
    ASSUME TypeOK, Idle, clean => FoundTrue, Next, clean'
    PROVE  FoundTrue'
  <1>1. CASE Begin
    BY <1>1 DEF Begin, Idle, FoundTrue
  <1>2. ASSUME ~Begin PROVE FoundTrue'
    <2>1. FoundTrue
      BY <1>2, CleanWays
    <2>2. ASSUME NEW s \in Scan, ReadScan(s) PROVE FoundTrue'
      <3>1. /\ pc' = "scan" /\ errors' = {} /\ reports' = reports /\ left' = left \ {s}
            /\ s \in left /\ found' = found \cup {<<a, s>> : a \in reports[s]}
        BY <2>1, <2>2 DEF ReadScan, FoundTrue
      <3>2. ASSUME NEW a \in Advisory, NEW u \in Scan
            PROVE  <<a, u>> \in found' <=> u \notin left' /\ a \in reports'[u]
        <4>1. <<a, u>> \in found <=> u \notin left /\ a \in reports[u]
          BY <2>1 DEF FoundTrue
        <4> QED
          BY <3>1, <4>1
      <3> QED
        BY <3>1, <3>2 DEF FoundTrue
    <2>3. CASE ListAndPlan
      BY <2>1, <2>3 DEF ListAndPlan, FoundTrue
    <2>4. ASSUME NEW x \in todo, Take(x) PROVE FoundTrue'
      BY <2>1, <2>4 DEF Take, FoundTrue
    <2>5. ASSUME NEW call, Calls(call) PROVE FoundTrue'
      BY <2>1, <2>5 DEF Calls, FoundTrue
    <2> QED
      BY <1>2, <2>2, <2>3, <2>4, <2>5, CleanWays, ZenonT(30)
         DEF CreateIssue, Edit, Reopen, Comment, Close
  <1> QED
    BY <1>1, <1>2

(* What a clean run has left to do brings every advisory into line.         *)
OnTrack ==
    /\ \A x, y \in todo : x.id = y.id => x = y
    /\ Begun(doing) => \A x \in todo : x.id # doing.id
    /\ \A x \in todo : Begun(x)
    /\ \A x \in todo \cup {doing} : Begun(x) => Brings(x)
    /\ \A a \in Advisory :
          (\A x \in todo \cup {doing} : Begun(x) => x.id # a) => Settled(a)

LEMMA PlanOnTrack ==
    ASSUME TypeOK, errors = {}, ListAndPlan
    PROVE  OnTrack'
  <1>1. /\ todo' = Plan /\ doing' = NoAction /\ UNCHANGED <<issues, found>>
        /\ pc = "scan"
    BY DEF ListAndPlan, TypeOK
  <1>2. ~Begun(doing')
    BY <1>1 DEF NoAction, Begun
  <1>3. ASSUME NEW x \in Plan
        PROVE  \E a \in Advisory : Way(a, x) /\ x.id = a
    BY PlanWays, OneWay
  <1>4. \A x, y \in Plan : x.id = y.id => x = y
    BY <1>3, OneWay
  <1>5. \A x \in Plan : Begun(x) /\ Brings(x)
    BY <1>3, WayBrings
  <1>6. ASSUME NEW a \in Advisory PROVE IssuesOf(a)' = IssuesOf(a)
    BY <1>1 DEF IssuesOf
  <1>7. \A a \in Advisory : Settled(a) => Settled(a)'
    BY <1>1, <1>6, Elsewhere
  <1>8. \A x \in Plan : Brings(x)'
    <2>1. ASSUME NEW x \in Plan, NEW a \in Advisory, x.id = a PROVE Brings(x)'
      BY <1>1, <1>5, <1>6, <2>1, Elsewhere
    <2> QED
      BY <1>3, <2>1
  <1>9. ASSUME NEW a \in Advisory, \A x \in Plan : Begun(x) => x.id # a
        PROVE  Settled(a)'
    <2>1. \A x : ~Way(a, x)
      BY <1>5, <1>9, PlanWays, OneWay
    <2> QED
      BY <1>7, <2>1, NoWaySettled
  <1> QED
    BY <1>1, <1>2, <1>4, <1>5, <1>8, <1>9 DEF OnTrack, Begun

LEMMA TakeOnTrack ==
    ASSUME OnTrack, NEW x \in todo, Take(x)
    PROVE  OnTrack'
  <1>1. /\ todo' = todo \ {x} /\ doing' = x /\ UNCHANGED <<issues, found>>
        /\ ~Begun(doing)
    BY DEF Take, Begun
  <1>2. /\ \A y, z \in todo : y.id = z.id => y = z
        /\ \A y \in todo : Begun(y) /\ Brings(y)
    BY DEF OnTrack
  <1>3. \A a : IssuesOf(a)' = IssuesOf(a)
    BY <1>1 DEF IssuesOf
  <1>4. \A y \in todo : Brings(y)'
    <2>1. ASSUME NEW y \in todo, NEW a, y.id = a PROVE Brings(y)'
      BY <1>1, <1>2, <1>3, <2>1, Elsewhere
    <2> QED
      BY <2>1
  <1>5. ASSUME NEW a \in Advisory, \A y \in todo : y.id # a PROVE Settled(a)'
    <2>1. Settled(a)
      BY <1>1, <1>5 DEF OnTrack
    <2> QED
      BY <1>1, <1>3, <2>1, Elsewhere
  <1>6. \A y \in todo' : Begun(y) /\ y.id # x.id /\ Brings(y)'
    BY <1>1, <1>2, <1>4
  <1>7. Begun(x) /\ Brings(x)'
    BY <1>2, <1>4
  <1>8. ASSUME NEW a \in Advisory, \A y \in todo' \cup {x} : Begun(y) => y.id # a
        PROVE  Settled(a)'
    BY <1>1, <1>2, <1>5, <1>8
  <1>9. Brings(doing)'
    BY <1>1, <1>7 DEF Brings, Closing, IssuesOf, Reporting
  <1> QED
    BY <1>1, <1>2, <1>6, <1>7, <1>8, <1>9 DEF OnTrack, Begun

LEMMA CallNearer ==
    ASSUME TypeOK, PlansAimed, Brings(doing), NEW a, a = doing.id,
           CreateIssue \/ Edit \/ Reopen \/ Comment \/ Close
    PROVE  Nearer(a)
  BY CreateNearer, EditNearer, ReopenNearer, CommentNearer, CloseNearer

LEMMA CallOnTrack ==
    ASSUME TypeOK, PlansAimed, OnTrack, CreateIssue \/ Edit \/ Reopen \/ Comment \/ Close
    PROVE  OnTrack'
  <1>0. PICK call : Calls(call)
    BY DEF CreateIssue, Edit, Reopen, Comment, Close
  <1>1. /\ todo' = todo /\ found' = found /\ doing.calls # <<>> /\ doing'.id = doing.id
        /\ doing \in Action
    BY <1>0, CallsOn DEF Calls
  <1>2. Begun(doing) /\ Brings(doing)
    BY <1>1 DEF Begun, OnTrack
  <1>3. PICK d : d = doing.id
    OBVIOUS
  <1>4. /\ \A x, y \in todo : x.id = y.id => x = y
        /\ \A x \in todo : x.id # d /\ Begun(x) /\ Brings(x)
    BY <1>2, <1>3 DEF OnTrack
  <1>5. ASSUME NEW a, a # d
        PROVE  /\ Settled(a) => Settled(a)'
               /\ \A x : x.id = a /\ Brings(x) => Brings(x)'
    <2>1. IssuesOf(a)' = IssuesOf(a) /\ \A n \in IssuesOf(a) : issues'[n] = issues[n]
      BY <1>3, <1>5, CallElsewhere
    <2> QED
      BY <1>1, <2>1, Elsewhere
  <1>6. \A x \in todo : Brings(x)'
    <2>1. ASSUME NEW x \in todo, NEW a, x.id = a PROVE Brings(x)'
      BY <1>4, <1>5, <2>1
    <2> QED
      BY <2>1
  <1>7. Nearer(d)
    BY <1>2, <1>3, CallNearer
  <1>8. Begun(doing') => Brings(doing)'
    BY <1>7 DEF Nearer
  <1>9. ASSUME NEW a \in Advisory,
               \A x \in todo : Begun(x) => x.id # a, Begun(doing') => doing'.id # a
        PROVE  Settled(a)'
    <2>1. CASE a = d
      BY <1>1, <1>3, <1>7, <1>9, <2>1 DEF Nearer
    <2>2. CASE a # d
      <3>1. \A x \in todo \cup {doing} : Begun(x) => x.id # a
        BY <1>3, <1>9, <2>2
      <3>2. Settled(a)
        BY <3>1 DEF OnTrack
      <3> QED
        BY <1>5, <2>2, <3>2
    <2> QED
      BY <2>1, <2>2
  <1>10. \A x \in todo' : Begun(x) /\ x.id # doing'.id
    BY <1>1, <1>3, <1>4
  <1>11. Begun(doing)' <=> Begun(doing')
    BY DEF Begun
  <1>12. \A x \in todo' \cup {doing'} : Begun(x)' => Brings(x)'
    <2>1. ASSUME NEW x, x = doing', Begun(x) PROVE Brings(x)'
      <3>1. Brings(doing)'
        BY <1>8, <2>1
      <3> QED
        BY <2>1, <3>1 DEF Brings, Closing, IssuesOf, Reporting
    <2>2. \A x : Begun(x)' <=> Begun(x)
      BY DEF Begun
    <2> QED
      BY <1>1, <1>6, <2>1, <2>2
  <1>13. \A a \in Advisory :
            (\A x \in todo' \cup {doing'} : Begun(x)' => x.id # a) => Settled(a)'
    BY <1>1, <1>9 DEF Begun
  <1> QED
    BY <1>1, <1>4, <1>10, <1>11, <1>12, <1>13 DEF OnTrack, Begun

LEMMA OnTrackStep ==
    ASSUME TypeOK, PlansAimed, Next, clean => FoundTrue, clean /\ pc = "apply" => OnTrack,
           clean', pc' = "apply"
    PROVE  OnTrack'
  <1>1. ~Begin
    BY DEF Begin
  <1>2. clean /\ FoundTrue
    BY <1>1, CleanWays
  <1>3. CASE ListAndPlan
    BY <1>2, <1>3, PlanOnTrack DEF FoundTrue
  <1>4. ASSUME NEW x \in todo, Take(x) PROVE OnTrack'
    <2>1. OnTrack
      BY <1>2, <1>4 DEF Take
    <2> QED
      BY <1>4, <2>1, TakeOnTrack
  <1>5. CASE CreateIssue \/ Edit \/ Reopen \/ Comment \/ Close
    <2>1. OnTrack
      BY <1>2, <1>5 DEF CreateIssue, Edit, Reopen, Comment, Close, Calls
    <2> QED
      BY <1>5, <2>1, CallOnTrack
  <1>6. ASSUME NEW s \in Scan, ReadScan(s) PROVE pc' # "apply"
    BY <1>6 DEF ReadScan
  <1> QED
    BY <1>1, <1>3, <1>4, <1>5, <1>6, CleanWays

CleanInv ==
    /\ AuditInv
    /\ Idle
    /\ clean => FoundTrue
    /\ clean /\ pc = "apply" => OnTrack

LEMMA CleanStep ==
    ASSUME CleanInv, [Next]_vars
    PROVE  CleanInv'
  <1> USE DEF CleanInv
  <1>1. AuditInv'
    BY AuditStep
  <1>2. CASE Next
    BY <1>1, <1>2, IdleStep, FoundStep, OnTrackStep DEF AuditInv
  <1>3. CASE UNCHANGED vars
    <2>1. UNCHANGED <<reports, issues, pc, left, found, errors, todo, doing, clean>>
      BY <1>3 DEF vars, run
    <2>2. Idle' /\ (clean' => FoundTrue')
      BY <2>1 DEF Idle, FoundTrue
    <2>3. \A a : IssuesOf(a)' = IssuesOf(a)
      BY <2>1 DEF IssuesOf
    <2>4. ASSUME OnTrack PROVE OnTrack'
      <3>1. \A a : Settled(a) => Settled(a)'
        BY <2>1, <2>3, Elsewhere
      <3>2. ASSUME NEW x, Brings(x) PROVE Brings(x)'
        <4>1. ASSUME NEW a, x.id = a PROVE Brings(x)'
          BY <2>1, <2>3, <3>2, <4>1, Elsewhere
        <4> QED
          BY <4>1
      <3>3. \A x : Begun(x)' <=> Begun(x)
        BY DEF Begun
      <3> QED
        BY <2>1, <2>4, <3>1, <3>2, <3>3 DEF OnTrack, Begun
    <2> QED
      BY <1>1, <2>1, <2>2, <2>4
  <1> QED
    BY <1>2, <1>3

(* One run that nothing disturbs brings the issues of every advisory into   *)
(* line, whatever dead runs and people left: half-edited bodies, closed     *)
(* issues, wrong ones.                                                      *)
THEOREM CleanRunAlways == Spec => []CleanRunSyncs
  <1>1. Init => CleanInv
    <2> SUFFICES ASSUME Init PROVE CleanInv
      OBVIOUS
    <2>1. Idle /\ pc = "idle"
      BY DEF Init, Idle
    <2>2. ~clean
      BY Zenon DEF Init
    <2> QED
      BY <2>1, <2>2, AuditInit DEF CleanInv
  <1>2. CleanInv => CleanRunSyncs
    <2> SUFFICES ASSUME CleanInv, clean, pc = "apply", todo = {}, doing.calls = <<>>,
                        NEW a \in Advisory
                 PROVE  \/ Says(a)
                        \/ (\A s \in Scan : a \notin reports[s]) /\ (\E m, n \in IssuesOf(a) : m # n)
      BY DEF CleanRunSyncs
    <2>1. FoundTrue /\ OnTrack
      BY DEF CleanInv
    <2>2. Settled(a)
      BY <2>1 DEF OnTrack, Begun
    <2>3. Reporting(a) = {s \in Scan : a \in reports[s]}
      BY <2>1 DEF FoundTrue, Reporting
    <2> QED
      BY <2>2, <2>3 DEF Settled, Says, One
  <1> QED
    BY <1>1, <1>2, CleanStep, PTL DEF Spec

=============================================================================
