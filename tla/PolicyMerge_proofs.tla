--------------------------- MODULE PolicyMerge_proofs ---------------------------
(***************************************************************************)
(* What the runs of policy-merge may hand on and may refuse, for any       *)
(* number of runs, commits and events.                                     *)
(***************************************************************************)
EXTENDS PolicyMerge, TLAPS

AfterComments == {"decide"}
AfterReviews == AfterComments \cup {"comments"}
AfterChecks == AfterReviews \cup {"reviews"}
AfterFiles == AfterChecks \cup {"checks"}
AfterPr == AfterFiles \cup {"files"}

-----------------------------------------------------------------------------
(* The inductive invariants, of each run. *)

(* Runs are created in order; a run of a commit has it from the start.      *)
Created(r) ==
    /\ r > started => pc[r] = "none"
    /\ ByCompletion(r) /\ pc[r] # "none" => sha[r] \in Commit
    /\ pc[r] \in Reading \cup {"handed"} => sha[r] \in Commit

HandedRight(r) == pc[r] = "handed" => phase[r] = "judge" /\ by[r] # "dry"

(* What a run has read was so at a moment of this reading; while the branch *)
(* has not moved, the files it has read are the head's.                     *)
ReadRight(r) ==
    /\ pc[r] \in Reading => Holding(sha[r]) \subseteq seen[r]
    /\ pc[r] \in AfterPr =>
          /\ facts[r].head \in Commit
          /\ facts[r].state = "open" => "pull-request" \in seen[r]
          /\ facts[r].head = sha[r] => "stale" \in seen[r]
          /\ facts[r].conflict = FALSE => "mergeable" \in seen[r]
          /\ moved[r] = FALSE => facts[r].head = head
    /\ pc[r] \in AfterFiles =>
          /\ facts[r].files \in Commit
          /\ moved[r] = FALSE => facts[r].files = facts[r].head
    /\ pc[r] \in AfterChecks =>
          /\ facts[r].green = TRUE => "checks" \in seen[r]
          /\ moved[r] = FALSE /\ facts[r].head = sha[r] /\ FilesComplete(facts[r])
             /\ ~Protects(Diff[facts[r].files].shown, facts[r].head, facts[r].surface)
             => "protected" \in seen[r]
    /\ pc[r] \in AfterReviews => (facts[r].changes = FALSE => "changes" \in seen[r])
    /\ pc[r] \in AfterComments => (facts[r].comments = FALSE => "comments" \in seen[r])

HandedSeen(r) ==
    pc[r] = "handed" =>
        Conditions \ seen[r] \subseteq IF moved[r] THEN {"protected", "test-counts"} ELSE {}

(* While every condition holds, everything a run reads says so.             *)
ReadReady(r) ==
    steady[r] = TRUE =>
        /\ pc[r] \in Reading /\ sha[r] \in Commit /\ Ready(sha[r])
        /\ pc[r] \in AfterPr =>
              facts[r].state = "open" /\ facts[r].head = sha[r] /\ facts[r].conflict = FALSE
        /\ pc[r] \in AfterFiles => facts[r].files = sha[r]
        /\ pc[r] \in AfterChecks =>
              /\ facts[r].green = TRUE
              /\ ~Protects(Diff[sha[r]].touches, sha[r], facts[r].surface)
        /\ pc[r] \in AfterReviews => facts[r].changes = FALSE
        /\ pc[r] \in AfterComments => facts[r].comments = FALSE

OneRunning ==
    \A r, s \in Run :
        pc[r] \in Running /\ pc[s] \in Running /\ SameGroup(r, s) => r = s

Types ==
    /\ head \in Commit /\ state \in States /\ conflict \in BOOLEAN
    /\ changes \in BOOLEAN /\ comments \in BOOLEAN /\ queue \in Commit \cup {NoCommit}
    /\ checks \in [Commit -> [Workflow -> {"running", "green", "red"}]]
    /\ byHand \subseteq Commit \X Workflow
    /\ ending \subseteq Commit \X Workflow \X Completions /\ surface \subseteq Commit
    /\ baseline \in Count \cup {Missing}
    /\ pc \in [Run -> PCs] /\ by \in [Run -> Kinds]
    /\ sha \in [Run -> Commit \cup {NoCommit}] /\ facts \in [Run -> Facts]
    /\ phase \in [Run -> {"gate", "judge"}]
    /\ started \in 0 .. MaxRuns /\ events \in 0 .. MaxEvents
    /\ seen \in [Run -> SUBSET Conditions]
    /\ steady \in [Run -> BOOLEAN] /\ moved \in [Run -> BOOLEAN]

Inv ==
    /\ Types /\ OneRunning
    /\ \A r \in Run : Created(r) /\ HandedRight(r)
    /\ \A r \in Run : ReadRight(r) /\ HandedSeen(r) /\ ReadReady(r)

-----------------------------------------------------------------------------
(* The conditions by name, now and after a step. *)

LEMMA HoldingNow ==
    ASSUME NEW c \in Commit
    PROVE  /\ Holding(c) \subseteq Conditions
           /\ "pull-request" \in Holding(c) <=> state = "open"
           /\ "stale" \in Holding(c) <=> head = c
           /\ "protected" \in Holding(c) <=>
                 Diff[c].changed = Diff[c].listed /\ ~Protects(Diff[c].touches, c, c \in surface)
           /\ "checks" \in Holding(c) <=> Green(c)
           /\ "test-counts" \in Holding(c) <=> ~Drops(Diff[c].touches, c, TRUE)
           /\ "mergeable" \in Holding(c) <=> ~conflict
           /\ "changes" \in Holding(c) <=> ~changes
           /\ "comments" \in Holding(c) <=> ~comments
  BY Zenon DEF Holding, Holds, Conditions

LEMMA ReadyNow ==
    ASSUME NEW c, Ready(c)
    PROVE  /\ c \in Commit /\ state = "open" /\ head = c /\ Green(c)
           /\ Diff[c].changed = Diff[c].listed /\ ~Protects(Diff[c].touches, c, c \in surface)
           /\ ~Drops(Diff[c].touches, c, TRUE)
           /\ ~conflict /\ ~changes /\ ~comments
<1>1. "stale" \in Holding(c)
  BY DEF Ready, Conditions
<1>2. c \in Commit
  BY <1>1 DEF Holding
<1>. QED
  BY <1>2, HoldingNow DEF Ready, Conditions

-----------------------------------------------------------------------------
(* The histories of one run over a step. *)

LEMMA Followed ==
    ASSUME Types, Follow, NEW r \in Run
    PROVE  /\ Begins(r) => seen'[r] = Holding(sha[r])' /\ moved'[r] = FALSE
           /\ pc'[r] \in Reading /\ ~Begins(r) =>
                 /\ seen'[r] = seen[r] \cup Holding(sha[r])'
                 /\ moved'[r] = FALSE => moved[r] = FALSE /\ head' = head
           /\ pc'[r] = "handed" => seen'[r] = seen[r] /\ moved'[r] = moved[r]
           /\ steady'[r] = TRUE =>
                 pc'[r] \in Reading /\ Ready(sha[r])' /\ (Begins(r) \/ steady[r] = TRUE)
<1>. DEFINE Steady == pc'[r] \in Reading /\ (Begins(r) \/ steady[r]) /\ Ready(sha[r])'
            Moved == IF pc'[r] = "handed" THEN moved[r]
                     ELSE pc'[r] \in Reading /\ ~Begins(r) /\ (moved[r] \/ head' # head)
<1>1. /\ seen'[r] = IF Begins(r) THEN Holding(sha[r])'
                    ELSE IF pc'[r] \in Reading THEN seen[r] \cup Holding(sha[r])'
                    ELSE IF pc'[r] = "handed" THEN seen[r] ELSE {}
      /\ steady'[r] = Steady
      /\ moved'[r] = Moved
  BY Zenon DEF Follow
<1>2. steady[r] \in BOOLEAN /\ moved[r] \in BOOLEAN
  BY DEF Types
<1>3. Begins(r) => pc'[r] = "pr"
  BY DEF Begins
<1>4. "handed" \notin Reading /\ "pr" \in Reading /\ "pr" # "handed"
  BY DEF Reading
<1>5. steady'[r] = TRUE =>
         pc'[r] \in Reading /\ Ready(sha[r])' /\ (Begins(r) \/ steady[r] = TRUE)
  <2>1. steady'[r] = Steady
    BY <1>1
  <2>2. Steady => pc'[r] \in Reading /\ Ready(sha[r])' /\ (Begins(r) \/ steady[r] = TRUE)
    BY <1>2, Zenon
  <2>. QED
    BY <2>1, <2>2, Zenon
<1>6. Begins(r) => moved'[r] = FALSE
  BY <1>1, <1>3, <1>4, Zenon
<1>7. pc'[r] \in Reading /\ ~Begins(r) /\ moved'[r] = FALSE => moved[r] = FALSE /\ head' = head
  <2>1. SUFFICES ASSUME pc'[r] \in Reading, ~Begins(r), moved'[r] = FALSE
                 PROVE  moved[r] = FALSE /\ head' = head
    OBVIOUS
  <2>2. pc'[r] # "handed"
    BY <2>1, <1>4
  <2>3. (moved[r] \/ head' # head) = FALSE
    BY <2>1, <2>2, <1>1, Zenon
  <2>. QED
    BY <2>3, <1>2, Zenon
<1>8. pc'[r] = "handed" => moved'[r] = moved[r]
  BY <1>1, Zenon
<1>9. Begins(r) => seen'[r] = Holding(sha[r])'
  BY <1>1, Zenon
<1>10. pc'[r] \in Reading /\ ~Begins(r) => seen'[r] = seen[r] \cup Holding(sha[r])'
  BY <1>1, Zenon
<1>11. pc'[r] = "handed" => seen'[r] = seen[r]
  <2>1. pc'[r] = "handed" => ~Begins(r) /\ pc'[r] \notin Reading
    BY <1>3, <1>4, Zenon
  <2>. QED
    BY <1>1, <2>1, Zenon
<1>. HIDE DEF Steady, Moved
<1>. QED
  BY <1>5, <1>6, <1>7, <1>8, <1>9, <1>10, <1>11, Zenon

LEMMA FollowTypes ==
    ASSUME Types, Follow
    PROVE  seen' \in [Run -> SUBSET Conditions] /\ steady' \in [Run -> BOOLEAN]
           /\ moved' \in [Run -> BOOLEAN]
<1>1. \A r \in Run : Holding(sha[r])' \subseteq Conditions
  BY Zenon DEF Holding
<1>2. seen' \in [Run -> SUBSET Conditions]
  BY <1>1 DEF Follow, Types
<1>3. \A r \in Run : moved[r] \in BOOLEAN
  BY DEF Types
<1>4. moved' \in [Run -> BOOLEAN]
  BY <1>3, Zenon DEF Follow
<1>5. steady' \in [Run -> BOOLEAN]
  BY Zenon DEF Follow
<1>. QED
  BY <1>2, <1>4, <1>5

-----------------------------------------------------------------------------
(* Types. *)

GitHubTypes ==
    /\ head \in Commit /\ state \in States /\ conflict \in BOOLEAN
    /\ changes \in BOOLEAN /\ comments \in BOOLEAN /\ queue \in Commit \cup {NoCommit}
    /\ checks \in [Commit -> [Workflow -> {"running", "green", "red"}]]
    /\ byHand \subseteq Commit \X Workflow
    /\ ending \subseteq Commit \X Workflow \X Completions /\ surface \subseteq Commit
    /\ baseline \in Count \cup {Missing}

RunTypes ==
    /\ pc \in [Run -> PCs] /\ by \in [Run -> Kinds]
    /\ sha \in [Run -> Commit \cup {NoCommit}] /\ facts \in [Run -> Facts]
    /\ phase \in [Run -> {"gate", "judge"}]

CountTypes == started \in 0 .. MaxRuns /\ events \in 0 .. MaxEvents

LEMMA Bounds == MaxRuns \in Nat /\ MaxEvents \in Nat
  BY PolicyAssumption, Zenon DEF PolicyAssumption

LEMMA NoFactsType == NoFacts \in Facts
  BY DEF NoFacts, Facts, States

LEMMA CreateTypes ==
    ASSUME RunTypes, CountTypes, NEW kind \in Kinds,
           NEW c \in Commit \cup {NoCommit}, Create(kind, c)
    PROVE  RunTypes' /\ started' \in 0 .. MaxRuns
<1>1. started + 1 \in Run /\ started' = started + 1
  BY DEF Create
<1>2. pc' \in [Run -> PCs]
  BY DEF Create, RunTypes, PCs, Ended, Completions
<1>3. by' \in [Run -> Kinds] /\ sha' \in [Run -> Commit \cup {NoCommit}]
  BY DEF Create, RunTypes
<1>4. facts' \in [Run -> Facts] /\ phase' \in [Run -> {"gate", "judge"}]
  BY DEF Create, RunTypes
<1>5. started' \in 0 .. MaxRuns
  BY <1>1, Bounds DEF CountTypes, Run
<1>. QED
  BY <1>2, <1>3, <1>4, <1>5 DEF RunTypes

LEMMA GoesTypes ==
    ASSUME GitHubTypes, RunTypes, CountTypes, NEW r \in Run, NEW from, NEW to \in PCs,
           Goes(r, from, to), sha' \in [Run -> Commit \cup {NoCommit}],
           facts' \in [Run -> Facts], phase' \in [Run -> {"gate", "judge"}]
    PROVE  GitHubTypes' /\ RunTypes' /\ CountTypes'
<1>1. pc' \in [Run -> PCs] /\ by' = by
  BY DEF Goes, RunTypes
<1>2. GitHubTypes'
  BY DEF Goes, GitHubTypes, pullRequest, ci
<1>. QED
  BY <1>1, <1>2 DEF Goes, RunTypes, CountTypes

LEMMA LearnsTypes ==
    ASSUME GitHubTypes, RunTypes, CountTypes, NEW r \in Run, NEW from, NEW to \in PCs,
           NEW f \in Facts, Learns(r, from, to, f)
    PROVE  GitHubTypes' /\ RunTypes' /\ CountTypes'
<1>1. facts' \in [Run -> Facts] /\ sha' = sha /\ phase' = phase
  BY DEF Learns, RunTypes
<1>2. sha' \in [Run -> Commit \cup {NoCommit}] /\ phase' \in [Run -> {"gate", "judge"}]
  BY <1>1 DEF RunTypes
<1>. QED
  BY <1>1, <1>2, GoesTypes DEF Learns

LEMMA FactsLearned ==
    ASSUME NEW f \in Facts, GitHubTypes, NEW b \in BOOLEAN, NEW d \in BOOLEAN
    PROVE  /\ [f EXCEPT !.head = head, !.state = state, !.conflict = conflict] \in Facts
           /\ [f EXCEPT !.files = head] \in Facts
           /\ [f EXCEPT !.green = b, !.surface = d] \in Facts
           /\ [f EXCEPT !.changes = changes] \in Facts
           /\ [f EXCEPT !.comments = comments] \in Facts
  BY DEF Facts, GitHubTypes

LEMMA RunStepTypes ==
    ASSUME GitHubTypes, RunTypes, CountTypes, NEW r \in Run, RunNext(r) \/ Fail(r)
    PROVE  GitHubTypes' /\ RunTypes' /\ CountTypes'
<1>0. facts[r] \in Facts /\ NoFacts \in Facts /\ [facts EXCEPT ![r] = NoFacts] \in [Run -> Facts]
  BY NoFactsType DEF RunTypes
<1>a. /\ sha \in [Run -> Commit \cup {NoCommit}] /\ facts \in [Run -> Facts]
      /\ phase \in [Run -> {"gate", "judge"}]
  BY DEF RunTypes
<1>b. {"select", "skipped", "refused", "pr", "files", "checks", "reviews", "comments", "decide",
       "handed", "dry", "declined", "done", "red"} \subseteq PCs
  BY DEF PCs, Running, Reading, Ended
<1>1. CASE Start(r)
  <2>1. (IF Judges(r) THEN "select" ELSE "skipped") \in PCs
    BY <1>b
  <2>. QED
    BY <1>1, <2>1, <1>a, GoesTypes DEF Start
<1>2. CASE Select(r)
  <2>1. sha' \in [Run -> Commit \cup {NoCommit}]
    BY <1>2, <1>a DEF Select, GitHubTypes
  <2>. QED
    BY <1>2, <2>1, <1>a, <1>b, GoesTypes DEF Select
<1>3. CASE SelectNone(r)
  BY <1>3, <1>a, <1>b, GoesTypes DEF SelectNone
<1>4. CASE ReadPr(r)
  BY <1>4, <1>0, <1>b, FactsLearned, LearnsTypes DEF ReadPr
<1>5. CASE ReadFiles(r)
  BY <1>5, <1>0, <1>b, FactsLearned, LearnsTypes DEF ReadFiles
<1>6. CASE ReadChecks(r)
  <2>1. RequiredGreen(sha[r]) \in BOOLEAN /\ (sha[r] \in surface) \in BOOLEAN
    BY DEF RequiredGreen, Green
  <2>2. [facts[r] EXCEPT !.green = RequiredGreen(sha[r]), !.surface = sha[r] \in surface] \in Facts
    BY <1>0, <2>1, FactsLearned
  <2>. QED
    BY <1>6, <2>2, <1>b, LearnsTypes DEF ReadChecks
<1>7. CASE ReadReviews(r)
  BY <1>7, <1>0, <1>b, FactsLearned, LearnsTypes DEF ReadReviews
<1>8. CASE ReadComments(r)
  BY <1>8, <1>0, <1>b, FactsLearned, LearnsTypes DEF ReadComments
<1>9. CASE Refuse(r)
  BY <1>9, <1>0, <1>a, <1>b, GoesTypes DEF Refuse
<1>10. CASE PassGate(r)
  <2>1. phase' \in [Run -> {"gate", "judge"}]
    BY <1>10, <1>a DEF PassGate
  <2>. QED
    BY <1>10, <2>1, <1>0, <1>a, <1>b, GoesTypes DEF PassGate
<1>11. CASE PassJudge(r)
  <2>1. (IF HandsOn(r) THEN "handed" ELSE "dry") \in PCs
    BY <1>b
  <2>. QED
    BY <1>11, <2>1, <1>0, <1>a, GoesTypes DEF PassJudge
<1>12. CASE Enqueue(r)
  <2>1. sha[r] \in Commit
    BY <1>12 DEF Enqueue, Takes, GitHubTypes
  <2>2. pc' \in [Run -> PCs]
    BY <1>12, <1>b DEF Enqueue, RunTypes
  <2>. QED
    BY <1>12, <2>1, <2>2 DEF Enqueue, GitHubTypes, RunTypes, CountTypes, ci
<1>13. CASE EnqueueDeclined(r)
  BY <1>13, <1>a, <1>b, GoesTypes DEF EnqueueDeclined
<1>14. CASE Fail(r)
  <2>1. pc' \in [Run -> PCs] /\ facts' \in [Run -> Facts]
    BY <1>14, <1>0, <1>b DEF Fail, RunTypes
  <2>2. events' \in 0 .. MaxEvents
    BY <1>14, Bounds DEF Fail, CountTypes
  <2>. QED
    BY <1>14, <2>1, <2>2 DEF Fail, GitHubTypes, RunTypes, CountTypes, ci, pullRequest
<1>. QED
  BY <1>1, <1>2, <1>3, <1>4, <1>5, <1>6, <1>7, <1>8, <1>9, <1>10, <1>11, <1>12, <1>13,
     <1>14, Zenon DEF RunNext

LEMMA GitHubStepTypes ==
    ASSUME GitHubTypes, RunTypes, CountTypes, GitHubNext
    PROVE  GitHubTypes' /\ RunTypes' /\ CountTypes'
<1>0. ASSUME Event
      PROVE  events' \in 0 .. MaxEvents
  BY <1>0, Bounds DEF Event, CountTypes
<1>a. ASSUME UNCHANGED <<run, started>>
      PROVE  RunTypes' /\ started' \in 0 .. MaxRuns
  BY <1>a DEF run, RunTypes, CountTypes
<1>1. ASSUME NEW c \in Commit, NEW w \in Workflow, JobsEnd(c, w)
      PROVE  GitHubTypes' /\ RunTypes' /\ CountTypes'
  <2>1. checks' \in [Commit -> [Workflow -> {"running", "green", "red"}]]
    BY <1>1 DEF JobsEnd, GitHubTypes
  <2>2. ending' \subseteq Commit \X Workflow \X Completions /\ surface' \subseteq Commit
    BY <1>1 DEF JobsEnd, GitHubTypes, Completions
  <2>3. events' \in 0 .. MaxEvents
    BY <1>1, <1>0 DEF JobsEnd, CountTypes
  <2>4. RunTypes' /\ started' \in 0 .. MaxRuns
    BY <1>1, <1>a DEF JobsEnd
  <2>5. UNCHANGED <<head, state, conflict, changes, comments, queue, byHand, baseline>>
    BY <1>1 DEF JobsEnd, pullRequest
  <2>. QED
    BY <2>1, <2>2, <2>3, <2>4, <2>5 DEF GitHubTypes, CountTypes
<1>2. ASSUME NEW c \in Commit, NEW w \in Workflow, NEW kind \in Completions,
             Completed(c, w, kind)
      PROVE  GitHubTypes' /\ RunTypes' /\ CountTypes'
  <2>1. RunTypes' /\ started' \in 0 .. MaxRuns
    <3>1. CASE w \in Triggers
      BY <1>2, <3>1, CreateTypes DEF Completed, Kinds
    <3>2. CASE w \notin Triggers
      BY <1>2, <3>2, <1>a DEF Completed
    <3>. QED
      BY <3>1, <3>2
  <2>2. ending' \subseteq Commit \X Workflow \X Completions
    BY <1>2 DEF Completed, GitHubTypes
  <2>. QED
    BY <1>2, <2>1, <2>2 DEF Completed, GitHubTypes, CountTypes, pullRequest
<1>3. ASSUME NEW c \in Commit, NEW w \in Workflow, Rerun(c, w)
      PROVE  GitHubTypes' /\ RunTypes' /\ CountTypes'
  <2>1. checks' \in [Commit -> [Workflow -> {"running", "green", "red"}]] /\ surface' \subseteq Commit
    BY <1>3 DEF Rerun, GitHubTypes
  <2>2. events' \in 0 .. MaxEvents /\ RunTypes' /\ started' \in 0 .. MaxRuns
    BY <1>3, <1>0, <1>a DEF Rerun
  <2>. QED
    BY <1>3, <2>1, <2>2 DEF Rerun, GitHubTypes, CountTypes, pullRequest
<1>4. ASSUME NEW c \in Commit, Push(c)
      PROVE  GitHubTypes' /\ RunTypes' /\ CountTypes'
  <2>1. checks' \in [Commit -> [Workflow -> {"running", "green", "red"}]] /\ surface' \subseteq Commit
    BY <1>4 DEF Push, GitHubTypes
  <2>2. events' \in 0 .. MaxEvents /\ RunTypes' /\ started' \in 0 .. MaxRuns
    BY <1>4, <1>0, <1>a DEF Push
  <2>. QED
    BY <1>4, <2>1, <2>2 DEF Push, GitHubTypes, CountTypes
<1>5. CASE Dispatch
  <2>1. events' \in 0 .. MaxEvents
    BY <1>5, <1>0 DEF Dispatch
  <2>2. PICK kind \in {"dispatch", "dry"} : Create(kind, NoCommit)
    BY <1>5 DEF Dispatch
  <2>3. RunTypes' /\ started' \in 0 .. MaxRuns
    BY <2>2, CreateTypes DEF Kinds
  <2>. QED
    BY <1>5, <2>1, <2>3 DEF Dispatch, GitHubTypes, CountTypes, pullRequest, ci
<1>6. CASE Hold
  <2>1. events' \in 0 .. MaxEvents /\ RunTypes' /\ started' \in 0 .. MaxRuns
    BY <1>6, <1>0, <1>a DEF Hold
  <2>. QED
    BY <1>6, <2>1 DEF Hold, GitHubTypes, CountTypes, ci
<1>7. CASE Review
  <2>1. events' \in 0 .. MaxEvents /\ RunTypes' /\ started' \in 0 .. MaxRuns
    BY <1>7, <1>0, <1>a DEF Review
  <2>2. changes' \in BOOLEAN /\ comments' \in BOOLEAN
    BY <1>7, Zenon DEF Review, GitHubTypes
  <2>. QED
    BY <1>7, <2>1, <2>2 DEF Review, GitHubTypes, CountTypes, ci
<1>8. CASE MainMoves
  <2>1. events' \in 0 .. MaxEvents /\ RunTypes' /\ started' \in 0 .. MaxRuns
    BY <1>8, <1>0, <1>a DEF MainMoves
  <2>2. conflict' \in BOOLEAN
    BY <1>8, Zenon DEF MainMoves, GitHubTypes
  <2>3. baseline' \in Count \cup {Missing}
    BY <1>8 DEF MainMoves, GitHubTypes
  <2>. QED
    BY <1>8, <2>1, <2>2, <2>3 DEF MainMoves, GitHubTypes, CountTypes, ci
<1>9. CASE QueueEnds
  <2>1. events' \in 0 .. MaxEvents /\ RunTypes' /\ started' \in 0 .. MaxRuns
    BY <1>9, <1>0, <1>a DEF QueueEnds
  <2>. QED
    BY <1>9, <2>1 DEF QueueEnds, GitHubTypes, CountTypes, ci, States
<1>10. ASSUME NEW c \in Commit, NEW w \in Workflow, RunByHand(c, w)
       PROVE  GitHubTypes' /\ RunTypes' /\ CountTypes'
  <2>1. byHand' \subseteq Commit \X Workflow
    BY <1>10 DEF RunByHand, GitHubTypes
  <2>2. events' \in 0 .. MaxEvents /\ RunTypes' /\ started' \in 0 .. MaxRuns
    BY <1>10, <1>0, <1>a DEF RunByHand
  <2>. QED
    BY <1>10, <2>1, <2>2 DEF RunByHand, GitHubTypes, CountTypes, pullRequest
<1>11. ASSUME NEW c \in Commit, NEW w \in Workflow, ByHandEnds(c, w)
       PROVE  GitHubTypes' /\ RunTypes' /\ CountTypes'
  <2>1. ending' \subseteq Commit \X Workflow \X Completions
    BY <1>11 DEF ByHandEnds, GitHubTypes, Completions
  <2>2. byHand' \subseteq Commit \X Workflow /\ surface' \subseteq Commit
    BY <1>11 DEF ByHandEnds, GitHubTypes
  <2>3. RunTypes' /\ started' \in 0 .. MaxRuns
    BY <1>11, <1>a DEF ByHandEnds
  <2>. QED
    BY <1>11, <2>1, <2>2, <2>3 DEF ByHandEnds, GitHubTypes, CountTypes, pullRequest
<1>. QED
  BY <1>1, <1>2, <1>3, <1>4, <1>5, <1>6, <1>7, <1>8, <1>9, <1>10, <1>11, Zenon DEF GitHubNext

LEMMA TypesKept == Types /\ Next => Types'
<1>. SUFFICES ASSUME Types, Next PROVE Types'
  OBVIOUS
<1>1. GitHubTypes /\ RunTypes /\ CountTypes
  BY DEF Types, GitHubTypes, RunTypes, CountTypes
<1>2. GitHubTypes' /\ RunTypes' /\ CountTypes'
  BY <1>1, RunStepTypes, GitHubStepTypes, Zenon DEF Next
<1>3. Follow
  BY DEF Next
<1>. QED
  BY <1>2, <1>3, FollowTypes DEF Types, GitHubTypes, RunTypes, CountTypes

-----------------------------------------------------------------------------
(* What a step does to one run. *)

Kept(r) ==
    /\ pc'[r] = pc[r] /\ sha'[r] = sha[r] /\ by'[r] = by[r]
    /\ facts'[r] = facts[r] /\ phase'[r] = phase[r]

(* A step of its own: it takes its commit when it begins its first reading. *)
Own(r) ==
    /\ pc[r] \notin {"none", "handed"} \/ pc'[r] \notin Reading \cup {"handed"}
    /\ pc[r] # "none" /\ pc'[r] # "none" /\ by'[r] = by[r] /\ started' = started
    /\ pc'[r] \in Running => pc[r] \in Running \/ Start(r)
    /\ \/ sha'[r] = sha[r]
          /\ (pc'[r] \in Reading \cup {"handed"} => pc[r] \in Reading \/ ByCompletion(r))
       \/ ~ByCompletion(r) /\ sha'[r] \in Commit
    /\ pc'[r] = "handed" => phase'[r] = "judge" /\ by[r] # "dry"

(* It is made, or gives way while it waits.                                 *)
Made(r) == r = started + 1 /\ started' = r /\ pc'[r] = "waiting"
           /\ (by'[r] \in Completions => sha'[r] \in Commit)
GivesWay(r) == pc[r] = "waiting" /\ pc'[r] = "cancelled" /\ sha'[r] = sha[r] /\ by'[r] = by[r]

LEMMA OthersKept ==
    ASSUME Types, NEW r \in Run, NEW s \in Run, s # r, RunNext(r) \/ Fail(r)
    PROVE  Kept(s) /\ started' = started
<1>. USE DEF Types, Kept
<1>1. CASE Start(r) \/ Select(r) \/ SelectNone(r)
  BY <1>1 DEF Start, Select, SelectNone, Goes
<1>2. CASE ReadPr(r) \/ ReadFiles(r) \/ ReadChecks(r) \/ ReadReviews(r) \/ ReadComments(r)
  <2>1. PICK from, to, f : Learns(r, from, to, f)
    BY <1>2, Zenon DEF ReadPr, ReadFiles, ReadChecks, ReadReviews, ReadComments
  <2>. QED
    BY <2>1 DEF Learns, Goes
<1>3. CASE Refuse(r) \/ PassGate(r) \/ PassJudge(r)
  BY <1>3 DEF Refuse, PassGate, PassJudge, Goes
<1>4. CASE Enqueue(r) \/ EnqueueDeclined(r) \/ Fail(r)
  BY <1>4 DEF Enqueue, EnqueueDeclined, Fail, Goes
<1>. QED
  BY <1>1, <1>2, <1>3, <1>4, Zenon DEF RunNext

LEMMA OwnSteps ==
    ASSUME Types, NEW r \in Run, RunNext(r) \/ Fail(r), HandedRight(r)
    PROVE  Own(r)
<1>. USE DEF Own, Running, Reading
<1>t. /\ pc \in [Run -> PCs] /\ sha \in [Run -> Commit \cup {NoCommit}]
      /\ phase \in [Run -> {"gate", "judge"}] /\ head \in Commit
  BY DEF Types
<1>1. CASE Start(r)
  BY <1>1, <1>t DEF Start, Goes
<1>2. CASE Select(r)
  BY <1>2, <1>t DEF Select, Goes
<1>3. CASE SelectNone(r)
  BY <1>3, <1>t DEF SelectNone, Goes
<1>4. CASE ReadPr(r) \/ ReadFiles(r) \/ ReadChecks(r) \/ ReadReviews(r) \/ ReadComments(r)
  <2>1. PICK from \in {"pr", "files", "checks", "reviews", "comments"},
             to \in {"files", "checks", "reviews", "comments", "decide"} : \E f : Learns(r, from, to, f)
    BY <1>4 DEF ReadPr, ReadFiles, ReadChecks, ReadReviews, ReadComments
  <2>2. PICK f : Learns(r, from, to, f)
    BY <2>1
  <2>. QED
    BY <2>2, <1>t DEF Learns, Goes
<1>5. CASE Refuse(r)
  BY <1>5, <1>t DEF Refuse, Goes
<1>6. CASE PassGate(r)
  BY <1>6, <1>t DEF PassGate, Goes
<1>7. CASE PassJudge(r)
  BY <1>7, <1>t DEF PassJudge, Goes, HandsOn
<1>8. CASE Enqueue(r)
  BY <1>8, <1>t DEF Enqueue
<1>9. CASE EnqueueDeclined(r)
  BY <1>9, <1>t DEF EnqueueDeclined, Goes
<1>10. CASE Fail(r)
  BY <1>10, <1>t DEF Fail
<1>. QED
  BY <1>1, <1>2, <1>3, <1>4, <1>5, <1>6, <1>7, <1>8, <1>9, <1>10, Zenon DEF RunNext

LEMMA Creates ==
    ASSUME Types, NEW kind, NEW c, kind \in Completions => c \in Commit, Create(kind, c),
           NEW r \in Run
    PROVE  (Kept(r) /\ r # started' /\ started' = started + 1) \/ Made(r)
           \/ (GivesWay(r) /\ started' = started + 1)
<1>1. CASE r = started + 1
  BY <1>1 DEF Create, Made, Types
<1>2. CASE r # started + 1
  BY <1>2 DEF Create, Kept, GivesWay, Types
<1>. QED
  BY <1>1, <1>2

LEMMA Ways ==
    ASSUME Types, \A s \in Run : HandedRight(s), Next, NEW r \in Run
    PROVE  \/ Kept(r) /\ (started' = started \/ (started' = started + 1 /\ r # started'))
           \/ (RunNext(r) \/ Fail(r)) /\ Own(r)
           \/ Made(r)
           \/ GivesWay(r) /\ (started' = started + 1)
<1>1. ASSUME NEW s \in Run, RunNext(s) \/ Fail(s)
      PROVE  (Kept(r) /\ started' = started) \/ ((RunNext(r) \/ Fail(r)) /\ Own(r))
  <2>1. CASE s = r
    BY <1>1, <2>1, OwnSteps
  <2>2. CASE s # r
    BY <1>1, <2>2, OthersKept
  <2>. QED
    BY <2>1, <2>2
<1>2. CASE UNCHANGED <<run, started>>
  BY <1>2 DEF run, Kept
<1>3. ASSUME NEW c \in Commit, NEW w \in Workflow, NEW kind \in Completions,
             Completed(c, w, kind)
      PROVE  Create(kind, c) \/ UNCHANGED <<run, started>>
  BY <1>3 DEF Completed
<1>4. ASSUME Dispatch
      PROVE  \E kind \in {"dispatch", "dry"} : Create(kind, NoCommit)
  BY <1>4 DEF Dispatch
<1>5. CASE GitHubNext
  <2>1. ASSUME NEW c \in Commit, NEW w \in Workflow,
               JobsEnd(c, w) \/ Rerun(c, w) \/ RunByHand(c, w) \/ ByHandEnds(c, w)
        PROVE  UNCHANGED <<run, started>>
    BY <2>1 DEF JobsEnd, Rerun, RunByHand, ByHandEnds
  <2>2. ASSUME (\E c \in Commit : Push(c)) \/ Hold \/ Review \/ MainMoves \/ QueueEnds
        PROVE  UNCHANGED <<run, started>>
    BY <2>2 DEF Push, Hold, Review, MainMoves, QueueEnds
  <2>3. \/ UNCHANGED <<run, started>>
        \/ \E c \in Commit, kind \in Completions : Create(kind, c)
        \/ \E kind \in {"dispatch", "dry"} : Create(kind, NoCommit)
    BY <1>5, <1>3, <1>4, <2>1, <2>2, Zenon DEF GitHubNext
  <2>4. CASE \E c \in Commit, kind \in Completions : Create(kind, c)
    BY <2>4, Creates
  <2>5. CASE \E kind \in {"dispatch", "dry"} : Create(kind, NoCommit)
    <3>1. PICK kind \in {"dispatch", "dry"} : Create(kind, NoCommit)
      BY <2>5
    <3>2. kind \notin Completions
      BY DEF Completions
    <3>. QED
      BY <3>1, <3>2, Creates
  <2>. QED
    BY <1>2, <2>3, <2>4, <2>5
<1>. QED
  BY <1>1, <1>5, Zenon DEF Next

LEMMA CreatedKept ==
    ASSUME Types, \A s \in Run : HandedRight(s), Next, NEW r \in Run, Created(r)
    PROVE  Created(r)' /\ HandedRight(r)'
<1>t. started \in Nat /\ r \in Nat
  BY DEF Types, Run
<1>h. HandedRight(r)
  OBVIOUS
<1>n. "waiting" \notin Reading \cup {"handed"} /\ "cancelled" \notin Reading \cup {"handed"}
      /\ "none" \notin Reading \cup {"handed"}
  BY DEF Reading
<1>1. CASE Kept(r) /\ (started' = started \/ (started' = started + 1 /\ r # started'))
  BY <1>1, <1>t, <1>h DEF Kept, Created, HandedRight, ByCompletion
<1>2. CASE Own(r)
  BY <1>2, <1>t, <1>n DEF Own, Created, HandedRight, ByCompletion
<1>3. CASE Made(r)
  BY <1>3, <1>t, <1>n DEF Made, Created, HandedRight, ByCompletion
<1>4. CASE GivesWay(r) /\ started' = started + 1
  BY <1>4, <1>t, <1>n DEF GivesWay, Created, HandedRight, ByCompletion
<1>. QED
  BY <1>1, <1>2, <1>3, <1>4, Ways

LEMMA OneRunningKept ==
    ASSUME Types, OneRunning, \A s \in Run : HandedRight(s), Next
    PROVE  OneRunning'
<1>. SUFFICES ASSUME NEW r \in Run, NEW s \in Run, pc'[r] \in Running, pc'[s] \in Running,
                     SameGroup(r, s)', r # s
              PROVE  FALSE
  BY DEF OneRunning
<1>n. "waiting" \notin Running /\ "cancelled" \notin Running
  BY DEF Running, Reading
<1>1. ASSUME NEW u \in Run, pc'[u] \in Running
      PROVE  \/ /\ pc[u] \in Running /\ by'[u] = by[u]
                /\ ByCompletion(u) => sha'[u] = sha[u]
             \/ Start(u)
  <2>1. CASE Kept(u)
    BY <1>1, <2>1 DEF Kept
  <2>2. CASE Own(u)
    BY <1>1, <2>2 DEF Own
  <2>3. CASE Made(u) \/ GivesWay(u)
    BY <1>1, <2>3, <1>n DEF Made, GivesWay
  <2>. QED
    BY <2>1, <2>2, <2>3, Ways
<1>2. ASSUME NEW u \in Run, NEW v \in Run, u # v, Start(u), pc'[v] \in Running, SameGroup(u, v)'
      PROVE  FALSE
  <2>1. UNCHANGED <<by, sha>> /\ pc'[v] = pc[v]
    BY <1>2 DEF Start, Goes, Types
  <2>2. SameGroup(u, v)
    BY <1>2, <2>1 DEF SameGroup, ByCompletion
  <2>. QED
    BY <1>2, <2>1, <2>2 DEF Start
<1>3. SameGroup(s, r)'
  BY DEF SameGroup, ByCompletion
<1>4. CASE Start(r) \/ Start(s)
  BY <1>2, <1>3, <1>4
<1>5. CASE ~Start(r) /\ ~Start(s)
  <2>1. SameGroup(r, s)
    BY <1>1, <1>5 DEF SameGroup, ByCompletion
  <2>. QED
    BY <1>1, <1>5, <2>1 DEF OneRunning
<1>. QED
  BY <1>4, <1>5

-----------------------------------------------------------------------------
(* The reading of one run. *)

LEMMA Quiet ==
    ASSUME Types, Follow, NEW r \in Run, Kept(r), ReadRight(r), HandedSeen(r), Created(r)
    PROVE  ReadRight(r)' /\ HandedSeen(r)'
<1>1. ~Begins(r)
  BY DEF Begins, Kept
<1>2. pc'[r] = pc[r] /\ sha'[r] = sha[r] /\ facts'[r] = facts[r]
  BY DEF Kept
<1>3. /\ pc[r] \in Reading =>
           /\ seen'[r] = seen[r] \cup Holding(sha[r])'
           /\ moved'[r] = FALSE => moved[r] = FALSE /\ head' = head
      /\ pc[r] = "handed" => seen'[r] = seen[r] /\ moved'[r] = moved[r]
  BY <1>1, <1>2, Followed
<1>4. AfterPr \subseteq Reading /\ AfterFiles \subseteq Reading /\ AfterChecks \subseteq Reading
      /\ AfterReviews \subseteq Reading /\ AfterComments \subseteq Reading
  BY DEF AfterPr, AfterFiles, AfterChecks, AfterReviews, AfterComments, Reading
<1>5. HandedSeen(r)'
  BY <1>2, <1>3 DEF HandedSeen
<1>6. pc[r] \in Reading => Holding(sha[r])' \subseteq seen'[r] /\ seen[r] \subseteq seen'[r]
  BY <1>3
<1>7. FilesComplete(facts[r])' <=> FilesComplete(facts[r])
  BY <1>2 DEF FilesComplete
<1>8. Protects(Diff[facts[r].files].shown, facts[r].head, facts[r].surface)'
      <=> Protects(Diff[facts[r].files].shown, facts[r].head, facts[r].surface)
  BY <1>2 DEF Protects
<1>. QED
  BY <1>2, <1>3, <1>4, <1>5, <1>6, <1>7, <1>8 DEF ReadRight

LEMMA Outside ==
    ASSUME Types, Follow, NEW r \in Run,
           pc'[r] \notin Reading \cup {"handed"} \/ (Begins(r) /\ pc'[r] = "pr")
    PROVE  ReadRight(r)' /\ HandedSeen(r)'
<1>1. AfterPr \subseteq Reading \ {"pr"} /\ AfterFiles \subseteq Reading \ {"pr"}
      /\ AfterChecks \subseteq Reading \ {"pr"} /\ AfterReviews \subseteq Reading \ {"pr"}
      /\ AfterComments \subseteq Reading \ {"pr"} /\ "handed" \notin Reading
  BY DEF AfterPr, AfterFiles, AfterChecks, AfterReviews, AfterComments, Reading
<1>2. CASE pc'[r] \notin Reading \cup {"handed"}
  BY <1>1, <1>2 DEF ReadRight, HandedSeen
<1>3. CASE Begins(r) /\ pc'[r] = "pr"
  <2>1. seen'[r] = Holding(sha[r])'
    BY <1>3, Followed
  <2>. QED
    BY <1>1, <1>3, <2>1 DEF ReadRight, HandedSeen
<1>. QED
  BY <1>2, <1>3

(* A call of the reading: nothing at GitHub changes with it.                *)
LEMMA Call ==
    ASSUME Types, Follow, NEW r \in Run, NEW from \in Reading, NEW to \in Reading \ {"pr"}, NEW f,
           Learns(r, from, to, f), ReadRight(r)
    PROVE  /\ pc[r] = from /\ pc'[r] = to /\ sha'[r] = sha[r] /\ facts'[r] = f /\ head' = head
           /\ seen'[r] = seen[r]
           /\ moved'[r] = FALSE => moved[r] = FALSE
<1>1. pc[r] = from /\ pc'[r] = to /\ sha'[r] = sha[r] /\ facts'[r] = f
  BY DEF Learns, Goes, Types
<1>2. UNCHANGED <<head, state, conflict, changes, comments, checks, surface, baseline>>
  BY DEF Learns, Goes, pullRequest, ci
<1>3. Holding(sha[r])' = Holding(sha[r])
  BY <1>1, <1>2 DEF Holding, Holds, Green, Protects, Drops
<1>4. ~Begins(r)
  BY <1>1 DEF Begins
<1>5. seen'[r] = seen[r] \cup Holding(sha[r])' /\ (moved'[r] = FALSE => moved[r] = FALSE)
  BY <1>1, <1>4, Followed
<1>6. Holding(sha[r]) \subseteq seen[r]
  BY <1>1 DEF ReadRight
<1>. QED
  BY <1>1, <1>2, <1>3, <1>5, <1>6

LEMMA Calls ==
    ASSUME Types, Follow, NEW r \in Run, ReadRight(r), HandedSeen(r), Created(r),
           ReadPr(r) \/ ReadFiles(r) \/ ReadChecks(r) \/ ReadReviews(r) \/ ReadComments(r)
    PROVE  ReadRight(r)' /\ HandedSeen(r)'
<1>. USE DEF AfterPr, AfterFiles, AfterChecks, AfterReviews, AfterComments
<1>r. {"pr", "files", "checks", "reviews", "comments", "decide"} \subseteq Reading
      /\ "handed" \notin Reading
  BY DEF Reading
<1>t. facts[r] \in Facts /\ head \in Commit
  BY DEF Types
<1>h. pc[r] \in Reading => sha[r] \in Commit /\ Holding(sha[r]) \subseteq seen[r]
  BY DEF Created, ReadRight
<1>k. ASSUME NEW from \in Reading, NEW to \in Reading \ {"pr"}, NEW f, Learns(r, from, to, f)
      PROVE  /\ HandedSeen(r)'
             /\ Holding(sha[r])' \subseteq seen'[r]
  <2>1. pc'[r] = to
    BY <1>k, Call
  <2>2. ~Begins(r)
    BY <2>1 DEF Begins
  <2>3. seen'[r] = seen[r] \cup Holding(sha[r])'
    BY <2>1, <2>2, Followed
  <2>. QED
    BY <2>1, <2>3, <1>r DEF HandedSeen
<1>1. CASE ReadPr(r)
  <2>. DEFINE f == [facts[r] EXCEPT !.head = head, !.state = state, !.conflict = conflict]
  <2>0. Learns(r, "pr", "files", f)
    BY <1>1 DEF ReadPr
  <2>1. f.head = head /\ f.state = state /\ f.conflict = conflict
    BY <1>t DEF Facts
  <2>. HIDE DEF f
  <2>2. /\ pc[r] = "pr" /\ pc'[r] = "files" /\ sha'[r] = sha[r] /\ facts'[r] = f /\ head' = head
        /\ seen'[r] = seen[r]
    BY <2>0, <1>r, Call
  <2>3. /\ state = "open" => "pull-request" \in Holding(sha[r])
        /\ head = sha[r] => "stale" \in Holding(sha[r])
        /\ ~conflict => "mergeable" \in Holding(sha[r])
    BY <1>h, <2>2, <1>r, HoldingNow
  <2>. QED
    BY <1>k, <2>0, <2>1, <2>2, <2>3, <1>h, <1>t, <1>r DEF ReadRight
<1>2. CASE ReadFiles(r)
  <2>. DEFINE f == [facts[r] EXCEPT !.files = head]
  <2>0. Learns(r, "files", "checks", f)
    BY <1>2 DEF ReadFiles
  <2>1. f.files = head /\ f.head = facts[r].head /\ f.state = facts[r].state
        /\ f.conflict = facts[r].conflict
    BY <1>t DEF Facts
  <2>. HIDE DEF f
  <2>2. /\ pc[r] = "files" /\ pc'[r] = "checks" /\ sha'[r] = sha[r] /\ facts'[r] = f /\ head' = head
        /\ seen'[r] = seen[r] /\ (moved'[r] = FALSE => moved[r] = FALSE)
    BY <2>0, <1>r, Call
  <2>. QED
    BY <1>k, <2>0, <2>1, <2>2, <1>t, <1>r DEF ReadRight
<1>3. CASE ReadChecks(r)
  <2>. DEFINE f == [facts[r] EXCEPT !.green = RequiredGreen(sha[r]), !.surface = sha[r] \in surface]
  <2>0. Learns(r, "checks", "reviews", f)
    BY <1>3 DEF ReadChecks
  <2>1. /\ f.green = RequiredGreen(sha[r]) /\ f.surface = (sha[r] \in surface)
        /\ f.files = facts[r].files /\ f.head = facts[r].head /\ f.state = facts[r].state
        /\ f.conflict = facts[r].conflict
    BY <1>t DEF Facts
  <2>. HIDE DEF f
  <2>2. /\ pc[r] = "checks" /\ pc'[r] = "reviews" /\ sha'[r] = sha[r] /\ facts'[r] = f /\ head' = head
        /\ seen'[r] = seen[r] /\ (moved'[r] = FALSE => moved[r] = FALSE)
    BY <2>0, <1>r, Call
  <2>3. f.green = TRUE => "checks" \in seen[r]
    <3>1. f.green = TRUE => Green(sha[r])
      BY <2>1, Zenon DEF RequiredGreen
    <3>. QED
      BY <3>1, <1>h, <1>r, <2>2, HoldingNow
  <2>4. ASSUME moved'[r] = FALSE, f.head = sha[r], FilesComplete(f),
               ~Protects(Diff[f.files].shown, f.head, f.surface)
        PROVE  "protected" \in seen[r]
    <3>1. f.files = sha[r] /\ sha[r] \in Commit
      BY <2>1, <2>2, <2>4, <1>h, <1>r DEF ReadRight
    <3>2. Diff[sha[r]].changed = Diff[sha[r]].listed
      BY <2>4, <3>1 DEF FilesComplete
    <3>3. Diff[sha[r]].shown = Diff[sha[r]].touches
      BY <3>1, <3>2, PolicyAssumption, Zenon DEF PolicyAssumption
    <3>4. ~Protects(Diff[sha[r]].touches, sha[r], sha[r] \in surface)
      BY <2>1, <2>4, <3>1, <3>3, Zenon
    <3>. QED
      BY <3>1, <3>2, <3>4, <1>h, <1>r, <2>2, HoldingNow
  <2>5. FilesComplete(facts[r])' <=> FilesComplete(f)
    BY <2>2 DEF FilesComplete
  <2>6. Protects(Diff[facts[r].files].shown, facts[r].head, facts[r].surface)'
        <=> Protects(Diff[f.files].shown, f.head, f.surface)
    BY <2>2 DEF Protects
  <2>. QED
    BY <1>k, <2>0, <2>1, <2>2, <2>3, <2>4, <2>5, <2>6, <1>r DEF ReadRight
<1>4. CASE ReadReviews(r)
  <2>. DEFINE f == [facts[r] EXCEPT !.changes = changes]
  <2>0. Learns(r, "reviews", "comments", f)
    BY <1>4 DEF ReadReviews
  <2>1. /\ f.green = facts[r].green /\ f.surface = facts[r].surface
        /\ f.files = facts[r].files /\ f.head = facts[r].head /\ f.state = facts[r].state
        /\ f.conflict = facts[r].conflict /\ f.changes = changes
    BY <1>t DEF Facts
  <2>. HIDE DEF f
  <2>2. /\ pc[r] = "reviews" /\ pc'[r] = "comments" /\ sha'[r] = sha[r] /\ facts'[r] = f /\ head' = head
        /\ seen'[r] = seen[r] /\ (moved'[r] = FALSE => moved[r] = FALSE)
    BY <2>0, <1>r, Call
  <2>3. f.changes = FALSE => "changes" \in seen[r]
    BY <2>1, <2>2, <1>h, <1>r, HoldingNow
  <2>5. FilesComplete(facts[r])' <=> FilesComplete(facts[r])
    BY <2>1, <2>2 DEF FilesComplete
  <2>6. Protects(Diff[facts[r].files].shown, facts[r].head, facts[r].surface)'
        <=> Protects(Diff[facts[r].files].shown, facts[r].head, facts[r].surface)
    BY <2>1, <2>2 DEF Protects
  <2>. QED
    BY <1>k, <2>0, <2>1, <2>2, <2>3, <2>5, <2>6, <1>r DEF ReadRight
<1>5. CASE ReadComments(r)
  <2>. DEFINE f == [facts[r] EXCEPT !.comments = comments]
  <2>0. Learns(r, "comments", "decide", f)
    BY <1>5 DEF ReadComments
  <2>1. /\ f.green = facts[r].green /\ f.surface = facts[r].surface
        /\ f.files = facts[r].files /\ f.head = facts[r].head /\ f.state = facts[r].state
        /\ f.conflict = facts[r].conflict /\ f.changes = facts[r].changes /\ f.comments = comments
    BY <1>t DEF Facts
  <2>. HIDE DEF f
  <2>2. /\ pc[r] = "comments" /\ pc'[r] = "decide" /\ sha'[r] = sha[r] /\ facts'[r] = f /\ head' = head
        /\ seen'[r] = seen[r] /\ (moved'[r] = FALSE => moved[r] = FALSE)
    BY <2>0, <1>r, Call
  <2>3. f.comments = FALSE => "comments" \in seen[r]
    BY <2>1, <2>2, <1>h, <1>r, HoldingNow
  <2>5. FilesComplete(facts[r])' <=> FilesComplete(facts[r])
    BY <2>1, <2>2 DEF FilesComplete
  <2>6. Protects(Diff[facts[r].files].shown, facts[r].head, facts[r].surface)'
        <=> Protects(Diff[facts[r].files].shown, facts[r].head, facts[r].surface)
    BY <2>1, <2>2 DEF Protects
  <2>. QED
    BY <1>k, <2>0, <2>1, <2>2, <2>3, <2>5, <2>6, <1>r DEF ReadRight
<1>. QED
  BY <1>1, <1>2, <1>3, <1>4, <1>5
(* A judgment that passes: what its facts say was so during the reading, or *)
(* is so now.                                                               *)
LEMMA Judged ==
    ASSUME Types, Follow, NEW r \in Run, PassJudge(r), ReadRight(r), Created(r)
    PROVE  ReadRight(r)' /\ HandedSeen(r)'
<1>. DEFINE f == facts[r]
            c == sha[r]
<1>r. "decide" \in Reading /\ "handed" \notin Reading /\ "dry" \notin Reading
  BY DEF Reading
<1>1. pc[r] = "decide" /\ pc'[r] \in {"handed", "dry"} /\ ~Fails(f, c)
  BY DEF PassJudge, Goes, Types
<1>2. c \in Commit /\ Holding(c) \subseteq seen[r]
  BY <1>1, <1>r DEF Created, ReadRight
<1>3. CASE pc'[r] = "dry"
  BY <1>3, <1>r, Outside
<1>4. CASE pc'[r] = "handed"
  <2>1. seen'[r] = seen[r] /\ moved'[r] = moved[r]
    BY <1>4, Followed
  <2>2. ReadRight(r)'
    BY <1>4, <1>r DEF ReadRight, AfterPr, AfterFiles, AfterChecks, AfterReviews, AfterComments
  <2>t. f \in Facts /\ moved[r] \in BOOLEAN
    BY DEF Types
  <2>3. /\ f.state = "open" /\ f.head = c /\ FilesComplete(f)
        /\ ~Protects(Diff[f.files].shown, f.head, f.surface)
        /\ f.green /\ ~Drops(Diff[f.files].shown, c, f.green)
        /\ ~f.conflict /\ ~f.changes /\ ~f.comments
    BY <1>1, Zenon DEF Fails, SameHead
  <2>4. f.green = TRUE /\ f.conflict = FALSE /\ f.changes = FALSE /\ f.comments = FALSE
    <3>1. f.green \in BOOLEAN /\ f.conflict \in BOOLEAN /\ f.changes \in BOOLEAN
          /\ f.comments \in BOOLEAN
      BY <2>t DEF Facts
    <3>. QED
      BY <3>1, <2>3, Zenon
  <2>5. {"pull-request", "stale", "checks", "mergeable", "changes", "comments"} \subseteq seen[r]
    BY <1>1, <2>3, <2>4
       DEF ReadRight, AfterPr, AfterFiles, AfterChecks, AfterReviews, AfterComments
  <2>6. CASE moved[r] = FALSE
    <3>1. f.files = c
      BY <1>1, <2>3, <2>6 DEF ReadRight, AfterPr, AfterFiles, AfterChecks, AfterReviews, AfterComments
    <3>2. "protected" \in seen[r]
      BY <1>1, <2>3, <2>6 DEF ReadRight, AfterPr, AfterFiles, AfterChecks, AfterReviews, AfterComments
    <3>3. Diff[c].listed = Diff[c].changed
      BY <2>3, <3>1 DEF FilesComplete
    <3>4. Diff[c].shown = Diff[c].touches
      BY <1>2, <3>3, PolicyAssumption, Zenon DEF PolicyAssumption
    <3>5. ~Drops(Diff[c].touches, c, TRUE)
      BY <2>3, <2>4, <3>1, <3>4, Zenon
    <3>6. "test-counts" \in seen[r]
      BY <1>2, <3>5, HoldingNow
    <3>. QED
      BY <1>4, <2>1, <2>2, <2>5, <3>2, <3>6 DEF HandedSeen, Conditions
  <2>7. CASE moved[r] = TRUE
    BY <1>4, <2>1, <2>2, <2>5, <2>7 DEF HandedSeen, Conditions
  <2>. QED
    BY <2>t, <2>6, <2>7
<1>. QED
  BY <1>1, <1>3, <1>4

LEMMA ReadKept ==
    ASSUME Inv, Next, NEW r \in Run
    PROVE  ReadRight(r)' /\ HandedSeen(r)'
<1>0. Types /\ Follow /\ Created(r) /\ ReadRight(r) /\ HandedSeen(r)
  BY DEF Inv, Next
<1>r. /\ {"select", "skipped", "waiting", "refused", "done", "declined", "red", "cancelled"}
            \cap (Reading \cup {"handed"}) = {}
  BY DEF Reading
<1>t. pc \in [Run -> PCs] /\ phase \in [Run -> {"gate", "judge"}]
  BY <1>0 DEF Types
<1>1. CASE Kept(r)
  BY <1>0, <1>1, Quiet
<1>2. CASE RunNext(r) \/ Fail(r)
  <2>1. CASE Start(r) \/ SelectNone(r) \/ Refuse(r) \/ EnqueueDeclined(r) \/ Enqueue(r) \/ Fail(r)
    <3>1. pc'[r] \in {"select", "skipped", "refused", "done", "declined", "red"}
      BY <2>1, <1>t DEF Start, SelectNone, Refuse, EnqueueDeclined, Enqueue, Fail, Goes
    <3>. QED
      BY <3>1, <1>0, <1>r, Outside
  <2>2. CASE Select(r) \/ PassGate(r)
    <3>1. Begins(r) /\ pc'[r] = "pr"
      BY <2>2, <1>t DEF Select, PassGate, Goes, Begins
    <3>. QED
      BY <3>1, <1>0, Outside
  <2>3. CASE ReadPr(r) \/ ReadFiles(r) \/ ReadChecks(r) \/ ReadReviews(r) \/ ReadComments(r)
    BY <2>3, <1>0, Calls
  <2>4. CASE PassJudge(r)
    BY <2>4, <1>0, Judged
  <2>. QED
    BY <1>2, <2>1, <2>2, <2>3, <2>4, Zenon DEF RunNext
<1>3. CASE Made(r) \/ GivesWay(r)
  <2>1. pc'[r] \in {"waiting", "cancelled"}
    BY <1>3 DEF Made, GivesWay
  <2>. QED
    BY <2>1, <1>0, <1>r, Outside
<1>4. \A s \in Run : HandedRight(s)
  BY DEF Inv
<1>. QED
  BY <1>0, <1>1, <1>2, <1>3, <1>4, Ways

-----------------------------------------------------------------------------
(* While every condition holds. *)

LEMMA ReadyKept ==
    ASSUME Inv, Next, NEW r \in Run
    PROVE  ReadReady(r)'
<1>. SUFFICES ASSUME steady'[r] = TRUE PROVE ReadReady(r)'
  BY DEF ReadReady
<1>. USE DEF AfterPr, AfterFiles, AfterChecks, AfterReviews, AfterComments
<1>0. Types /\ Follow /\ Created(r) /\ ReadRight(r) /\ ReadReady(r)
      /\ \A s \in Run : HandedRight(s)
  BY DEF Inv, Next
<1>t. pc \in [Run -> PCs] /\ phase \in [Run -> {"gate", "judge"}] /\ facts[r] \in Facts
  BY <1>0 DEF Types
<1>r. /\ {"select", "skipped", "waiting", "refused", "done", "declined", "red", "cancelled",
        "handed", "dry"}
            \cap Reading = {}
      /\ {"pr", "files", "checks", "reviews", "comments", "decide"} \subseteq Reading
  BY DEF Reading
<1>1. pc'[r] \in Reading /\ Ready(sha[r])' /\ (Begins(r) \/ steady[r] = TRUE)
  BY <1>0, Followed
<1>2. sha'[r] \in Commit
  <2>1. Created(r)'
    BY <1>0, CreatedKept
  <2>. QED
    BY <1>1, <2>1 DEF Created
<1>3. CASE Begins(r)
  <2>1. pc'[r] = "pr"
    BY <1>3 DEF Begins
  <2>. QED
    BY <1>1, <1>2, <2>1 DEF ReadReady
<1>4. ASSUME ~Begins(r)
      PROVE  ReadReady(r)'
  <2>0. steady[r] = TRUE /\ Ready(sha[r]) /\ pc[r] \in Reading
    BY <1>0, <1>1, <1>4 DEF ReadReady
  <2>1. CASE Kept(r)
    <3>1. pc'[r] = pc[r] /\ sha'[r] = sha[r] /\ facts'[r] = facts[r]
      BY <2>1 DEF Kept
    <3>2. Protects(Diff[sha[r]].touches, sha[r], facts[r].surface)'
          <=> Protects(Diff[sha[r]].touches, sha[r], facts[r].surface)
      BY <3>1 DEF Protects
    <3>. QED
      BY <1>0, <1>1, <1>2, <2>0, <3>1, <3>2 DEF ReadReady
  <2>a. ASSUME NEW from \in Reading, NEW to \in Reading \ {"pr"}, NEW f, Learns(r, from, to, f)
        PROVE  /\ pc[r] = from /\ pc'[r] = to /\ sha'[r] = sha[r] /\ facts'[r] = f
               /\ Protects(Diff[sha[r]].touches, sha[r], facts[r].surface)'
                  <=> Protects(Diff[sha[r]].touches, sha[r], f.surface)
    <3>1. pc[r] = from /\ pc'[r] = to /\ sha'[r] = sha[r] /\ facts'[r] = f
      BY <1>0, <2>a, Call
    <3>2. Protects(Diff[sha[r]].touches, sha[r], facts[r].surface)'
          <=> Protects(Diff[sha[r]].touches, sha[r], f.surface)
      BY <3>1 DEF Protects
    <3>. QED
      BY <3>1, <3>2
  <2>n. /\ sha[r] \in Commit /\ state = "open" /\ head = sha[r] /\ Green(sha[r])
        /\ ~Protects(Diff[sha[r]].touches, sha[r], sha[r] \in surface)
        /\ ~conflict /\ ~changes /\ ~comments
    BY <2>0, ReadyNow
  <2>b. conflict = FALSE /\ changes = FALSE /\ comments = FALSE
    BY <1>0, <2>n, Zenon DEF Types
  <2>2. CASE ReadPr(r)
    <3>. DEFINE f == [facts[r] EXCEPT !.head = head, !.state = state, !.conflict = conflict]
    <3>0. Learns(r, "pr", "files", f)
      BY <2>2 DEF ReadPr
    <3>1. f.head = head /\ f.state = state /\ f.conflict = conflict
      BY <1>t DEF Facts
    <3>. HIDE DEF f
    <3>2. pc'[r] = "files" /\ sha'[r] = sha[r] /\ facts'[r] = f
      BY <3>0, <1>r, <2>a
    <3>. QED
      BY <1>1, <1>2, <2>n, <2>b, <3>1, <3>2 DEF ReadReady
  <2>3. CASE ReadFiles(r)
    <3>. DEFINE f == [facts[r] EXCEPT !.files = head]
    <3>0. Learns(r, "files", "checks", f)
      BY <2>3 DEF ReadFiles
    <3>1. f.files = head /\ f.head = facts[r].head /\ f.state = facts[r].state
          /\ f.conflict = facts[r].conflict
      BY <1>t DEF Facts
    <3>. HIDE DEF f
    <3>2. pc[r] = "files" /\ pc'[r] = "checks" /\ sha'[r] = sha[r] /\ facts'[r] = f
      BY <3>0, <1>r, <2>a
    <3>. QED
      BY <1>0, <1>1, <1>2, <2>0, <2>n, <3>1, <3>2 DEF ReadReady
  <2>4. CASE ReadChecks(r)
    <3>. DEFINE f == [facts[r] EXCEPT !.green = RequiredGreen(sha[r]), !.surface = sha[r] \in surface]
    <3>0. Learns(r, "checks", "reviews", f)
      BY <2>4 DEF ReadChecks
    <3>1. /\ f.green = RequiredGreen(sha[r]) /\ f.surface = (sha[r] \in surface)
          /\ f.files = facts[r].files /\ f.head = facts[r].head /\ f.state = facts[r].state
          /\ f.conflict = facts[r].conflict
      BY <1>t DEF Facts
    <3>. HIDE DEF f
    <3>2. /\ pc[r] = "checks" /\ pc'[r] = "reviews" /\ sha'[r] = sha[r] /\ facts'[r] = f
          /\ Protects(Diff[sha[r]].touches, sha[r], facts[r].surface)'
             <=> Protects(Diff[sha[r]].touches, sha[r], f.surface)
      BY <3>0, <1>r, <2>a
    <3>3. f.green = TRUE
      <4>1. Green(sha[r]) = TRUE
        BY <2>n, Zenon DEF Green
      <4>. QED
        BY <3>1, <4>1 DEF RequiredGreen
    <3>4. ~Protects(Diff[sha[r]].touches, sha[r], f.surface)
      BY <2>n, <3>1, Zenon
    <3>. QED
      BY <1>0, <1>1, <1>2, <2>0, <3>1, <3>2, <3>3, <3>4 DEF ReadReady
  <2>5. CASE ReadReviews(r)
    <3>. DEFINE f == [facts[r] EXCEPT !.changes = changes]
    <3>0. Learns(r, "reviews", "comments", f)
      BY <2>5 DEF ReadReviews
    <3>1. /\ f.green = facts[r].green /\ f.surface = facts[r].surface
          /\ f.files = facts[r].files /\ f.head = facts[r].head /\ f.state = facts[r].state
          /\ f.conflict = facts[r].conflict /\ f.changes = changes
      BY <1>t DEF Facts
    <3>. HIDE DEF f
    <3>2. /\ pc[r] = "reviews" /\ pc'[r] = "comments" /\ sha'[r] = sha[r] /\ facts'[r] = f
          /\ Protects(Diff[sha[r]].touches, sha[r], facts[r].surface)'
             <=> Protects(Diff[sha[r]].touches, sha[r], f.surface)
      BY <3>0, <1>r, <2>a
    <3>. QED
      BY <1>0, <1>1, <1>2, <2>0, <2>b, <3>1, <3>2 DEF ReadReady
  <2>6. CASE ReadComments(r)
    <3>. DEFINE f == [facts[r] EXCEPT !.comments = comments]
    <3>0. Learns(r, "comments", "decide", f)
      BY <2>6 DEF ReadComments
    <3>1. /\ f.green = facts[r].green /\ f.surface = facts[r].surface
          /\ f.files = facts[r].files /\ f.head = facts[r].head /\ f.state = facts[r].state
          /\ f.conflict = facts[r].conflict /\ f.changes = facts[r].changes /\ f.comments = comments
      BY <1>t DEF Facts
    <3>. HIDE DEF f
    <3>2. /\ pc[r] = "comments" /\ pc'[r] = "decide" /\ sha'[r] = sha[r] /\ facts'[r] = f
          /\ Protects(Diff[sha[r]].touches, sha[r], facts[r].surface)'
             <=> Protects(Diff[sha[r]].touches, sha[r], f.surface)
      BY <3>0, <1>r, <2>a
    <3>. QED
      BY <1>0, <1>1, <1>2, <2>0, <2>b, <3>1, <3>2 DEF ReadReady
  <2>7. CASE RunNext(r) \/ Fail(r)
    <3>1. ASSUME Start(r) \/ Select(r) \/ SelectNone(r) \/ Refuse(r) \/ PassGate(r) \/ PassJudge(r)
                 \/ Enqueue(r) \/ EnqueueDeclined(r) \/ Fail(r)
          PROVE  FALSE
      <4>1. CASE Select(r) \/ PassGate(r)
        BY <4>1, <1>4, <1>t DEF Select, PassGate, Goes, Begins
      <4>2. CASE Start(r) \/ SelectNone(r) \/ Refuse(r) \/ EnqueueDeclined(r) \/ Enqueue(r)
                 \/ Fail(r) \/ PassJudge(r)
        <5>1. pc'[r] \in {"select", "skipped", "refused", "done", "declined", "red", "handed", "dry"}
          BY <4>2, <1>t
             DEF Start, SelectNone, Refuse, EnqueueDeclined, Enqueue, Fail, PassJudge, Goes
        <5>. QED
          BY <5>1, <1>1, <1>r
      <4>. QED
        BY <3>1, <4>1, <4>2
    <3>. QED
      BY <2>7, <3>1, <2>2, <2>3, <2>4, <2>5, <2>6, Zenon DEF RunNext
  <2>8. ~Made(r) /\ ~GivesWay(r)
    BY <1>1, <1>r DEF Made, GivesWay
  <2>. QED
    BY <1>0, <2>1, <2>7, <2>8, Ways
<1>. QED
  BY <1>3, <1>4

-----------------------------------------------------------------------------
(* The inductive invariant. *)

LEMMA InitInv == Init => Inv
<1>. SUFFICES ASSUME Init PROVE Inv
  OBVIOUS
<1>. USE DEF Init
<1>1. checks \in [Commit -> [Workflow -> {"running", "green", "red"}]] /\ surface \subseteq Commit
  OBVIOUS
<1>2. started \in 0 .. MaxRuns /\ events \in 0 .. MaxEvents
  BY Bounds
<1>3. facts \in [Run -> Facts]
  BY NoFactsType
<1>4. pc \in [Run -> PCs] /\ by \in [Run -> Kinds]
  BY DEF PCs, Kinds, Completions
<1>5. Types
  BY <1>1, <1>2, <1>3, <1>4 DEF Types, States
<1>6. \A r \in Run : pc[r] = "none" /\ steady[r] = FALSE
  OBVIOUS
<1>7. "none" \notin Running /\ "none" \notin Reading
  BY DEF Running, Reading
<1>8. OneRunning
  BY <1>6, <1>7 DEF OneRunning
<1>9. ASSUME NEW r \in Run
      PROVE  Created(r) /\ HandedRight(r) /\ ReadRight(r) /\ HandedSeen(r) /\ ReadReady(r)
  BY <1>6, <1>7 DEF Created, HandedRight, ReadRight, HandedSeen, ReadReady, AfterPr, AfterFiles,
     AfterChecks, AfterReviews, AfterComments
<1>. QED
  BY <1>5, <1>8, <1>9 DEF Inv

LEMMA StutterInv == Inv /\ UNCHANGED vars => Inv'
<1>. SUFFICES ASSUME Inv, UNCHANGED vars PROVE Inv'
  OBVIOUS
<1>1. /\ UNCHANGED <<head, state, conflict, changes, comments, queue, checks, byHand, ending, surface>>
      /\ UNCHANGED <<baseline, pc, by, sha, facts, phase, started, events, seen, steady, moved>>
  BY DEF vars, pullRequest, ci, run, history
<1>2. Types' /\ OneRunning'
  BY <1>1 DEF Inv, Types, OneRunning, SameGroup, ByCompletion
<1>3. ASSUME NEW r \in Run
      PROVE  Created(r)' /\ HandedRight(r)' /\ HandedSeen(r)'
  BY <1>1 DEF Inv, Created, HandedRight, HandedSeen, ByCompletion
<1>4. ASSUME NEW r \in Run
      PROVE  ReadRight(r)' /\ ReadReady(r)'
  <2>1. Holding(sha[r])' = Holding(sha[r]) /\ (Ready(sha[r])' <=> Ready(sha[r]))
    BY <1>1 DEF Ready, Holding, Holds, Green, Protects, Drops
  <2>2. FilesComplete(facts[r])' <=> FilesComplete(facts[r])
    BY <1>1 DEF FilesComplete
  <2>3. Protects(Diff[facts[r].files].shown, facts[r].head, facts[r].surface)'
        <=> Protects(Diff[facts[r].files].shown, facts[r].head, facts[r].surface)
    BY <1>1 DEF Protects
  <2>4. Protects(Diff[sha[r]].touches, sha[r], facts[r].surface)'
        <=> Protects(Diff[sha[r]].touches, sha[r], facts[r].surface)
    BY <1>1 DEF Protects
  <2>5. ReadRight(r) /\ ReadReady(r)
    BY DEF Inv
  <2>6. ReadRight(r)'
    BY <1>1, <2>1, <2>2, <2>3, <2>5 DEF ReadRight
  <2>7. ReadReady(r)'
    BY <1>1, <2>1, <2>4, <2>5 DEF ReadReady
  <2>. QED
    BY <2>6, <2>7
<1>. QED
  BY <1>2, <1>3, <1>4 DEF Inv

LEMMA NextInv == Inv /\ [Next]_vars => Inv'
<1>. SUFFICES ASSUME Inv, Next PROVE Inv'
  BY StutterInv, Zenon
<1>1. Types /\ OneRunning /\ \A s \in Run : HandedRight(s)
  BY DEF Inv
<1>2. Types' /\ OneRunning'
  BY <1>1, TypesKept, OneRunningKept
<1>3. ASSUME NEW r \in Run
      PROVE  Created(r)' /\ HandedRight(r)' /\ ReadRight(r)' /\ HandedSeen(r)' /\ ReadReady(r)'
  <2>1. Created(r)
    BY DEF Inv
  <2>. QED
    BY <1>1, <2>1, CreatedKept, ReadKept, ReadyKept
<1>. QED
  BY <1>2, <1>3 DEF Inv

LEMMA InvAlways == Spec => []Inv
<1>. QED
  BY InitInv, NextInv, PTL DEF Spec

-----------------------------------------------------------------------------
(* Every variable keeps its type; a commit is handed on only by a second    *)
(* reading that is not a dry one, and the runs of a group take turns.       *)
THEOREM TypeCorrect == Spec => []TypeOK
<1>1. Inv => TypeOK
  BY DEF Inv, Types, TypeOK, OneRunning
<1>. QED
  BY <1>1, InvAlways, PTL

(* Whatever happens between the calls of a reading, and however many runs   *)
(* there are, a commit handed on was read twice, by no dry run, and had     *)
(* every condition at some moment of the second (gather, decide, cmd_enqueue).*)
THEOREM NothingStaleAlways == Spec => []NothingStale
<1>1. Inv => NothingStale
  BY DEF Inv, HandedSeen, HandedRight, NothingStale
<1>. QED
  BY <1>1, InvAlways, PTL

LEMMA RefuseStep ==
    ASSUME Inv, Next, NEW r \in Run, pc[r] = "decide", pc'[r] = "refused"
    PROVE  Refuse(r)
<1>0. Types /\ \A s \in Run : HandedRight(s)
  BY DEF Inv
<1>t. pc \in [Run -> PCs]
  BY <1>0 DEF Types
<1>1. RunNext(r) \/ Fail(r)
  BY <1>0, Ways DEF Kept, Made, GivesWay
<1>2. ASSUME Start(r) \/ Select(r) \/ SelectNone(r) \/ ReadPr(r) \/ ReadFiles(r) \/ ReadChecks(r)
             \/ ReadReviews(r)
      PROVE  FALSE
  BY <1>2, <1>t DEF Start, Select, SelectNone, ReadPr, ReadFiles, ReadChecks, ReadReviews, Learns,
     Goes
<1>3. ASSUME ReadComments(r) \/ PassGate(r) \/ PassJudge(r) \/ Enqueue(r) \/ EnqueueDeclined(r)
             \/ Fail(r)
      PROVE  FALSE
  BY <1>3, <1>t DEF ReadComments, Learns, PassGate, PassJudge, Enqueue, EnqueueDeclined, Fail, Goes
<1>. QED
  BY <1>1, <1>2, <1>3, Zenon DEF RunNext

LEMMA SteadyPasses ==
    ASSUME Inv, NEW r \in Run, pc[r] = "decide", steady[r] = TRUE
    PROVE  ~Fails(facts[r], sha[r])
<1>. DEFINE f == facts[r]
            c == sha[r]
<1>1. /\ Ready(c) /\ f.state = "open" /\ f.head = c /\ f.conflict = FALSE /\ f.files = c
      /\ f.green = TRUE /\ ~Protects(Diff[c].touches, c, f.surface)
      /\ f.changes = FALSE /\ f.comments = FALSE
  BY DEF Inv, ReadReady, AfterPr, AfterFiles, AfterChecks, AfterReviews, AfterComments
<1>2. c \in Commit /\ Diff[c].changed = Diff[c].listed /\ ~Drops(Diff[c].touches, c, TRUE)
  BY <1>1, ReadyNow
<1>3. Diff[c].shown = Diff[c].touches
  <2>1. Diff[c].listed = Diff[c].changed
    BY <1>2
  <2>. QED
    BY <1>2, <2>1, PolicyAssumption, Zenon DEF PolicyAssumption
<1>4. FilesComplete(f) /\ SameHead(f, c)
  BY <1>1, <1>2 DEF FilesComplete, SameHead
<1>5. ~Protects(Diff[f.files].shown, f.head, f.surface) /\ ~Drops(Diff[f.files].shown, c, f.green)
  BY <1>1, <1>2, <1>3, Zenon
<1>. QED
  BY <1>1, <1>4, <1>5, Zenon DEF Fails

(* A run that refuses its commit found one of the conditions missing at     *)
(* some moment since its first call (decide, cmd_gate).                     *)
THEOREM RefusedRightlyAlways == Spec => RefusedRightly
<1>. DEFINE Right == \A r \in Run : pc[r] = "decide" /\ pc'[r] = "refused" => ~steady[r]
<1>1. Inv /\ Next => Right
  <2>. SUFFICES ASSUME Inv, Next, NEW r \in Run, pc[r] = "decide", pc'[r] = "refused"
                PROVE  ~steady[r]
    OBVIOUS
  <2>1. Refuse(r)
    BY RefuseStep
  <2>2. Fails(facts[r], sha[r])
    BY <2>1 DEF Refuse
  <2>3. steady[r] # TRUE
    BY <2>2, SteadyPasses
  <2>4. steady[r] \in BOOLEAN
    BY DEF Inv, Types
  <2>. QED
    BY <2>3, <2>4, Zenon
<1>2. Inv /\ [Next]_vars => [Right]_vars
  BY <1>1, Zenon
<1>. QED
  BY <1>2, InvAlways, PTL DEF Spec, RefusedRightly
=============================================================================
