------------------------------ MODULE IndexJson ------------------------------
(***************************************************************************)
(* index.json of the shared cache: update_index_json of                    *)
(* _ocifetch/_layout.py, called by _ensure_floating once its build is       *)
(* installed, by several processes at once.                                *)
(*                                                                         *)
(* A writer stands for the entry it appends: each has installed a build of *)
(* its own, so the list is the set of its entries.  The temporary file is  *)
(* nobody else's, and holds base plus the writer's entry.                  *)
(***************************************************************************)
EXTENDS Integers, FiniteSets

CONSTANTS
    Writer,        \* processes that have installed a build each
    InitialIndex,  \* what may stand at index.json when they start
    MaxAttempts,   \* max_attempts
    Torn,          \* bytes that are not JSON
    Alien          \* bytes that are not UTF-8, or JSON that is no object

ASSUME IndexAssumption ==
    /\ IsFiniteSet(Writer)
    /\ InitialIndex \subseteq {{}, Torn, Alien}
    /\ MaxAttempts \in Nat \ {0}
    /\ Torn # Alien /\ \A entries \in SUBSET Writer : entries # Torn /\ entries # Alien

VARIABLES
    index,     \* what stands at index.json; {} is a missing file as well
    base,      \* per writer, what it merged its entry onto
    attempts,  \* per writer, turns of the loop that found another base
    gap,       \* history: per writer, what was published since its last check
    pc         \* where each writer stands

vars == <<index, base, attempts, gap, pc>>

Ended == {"recorded", "skipped", "raised"}
PCs == {"start", "check", "replace"} \cup Ended

Init ==
    /\ index \in InitialIndex
    /\ base = [w \in Writer |-> {}]
    /\ attempts = [w \in Writer |-> 0]
    /\ gap = [w \in Writer |-> {}]
    /\ pc = [w \in Writer |-> "start"]

-----------------------------------------------------------------------------
Goto(w, label) == pc' = [pc EXCEPT ![w] = label]

(* _read_index_or_default: what is not JSON reads as an empty index. *)
ReadIndex == IF index = Torn THEN {} ELSE index

(* The first read, and the first temporary file. *)
Begin(w) ==
    /\ pc[w] = "start"
    /\ index # Alien
    /\ base' = [base EXCEPT ![w] = ReadIndex]
    /\ Goto(w, "check")
    /\ UNCHANGED <<index, attempts, gap>>

(* The file cannot be decoded or merged onto: no OSError, so _ensure_floating *)
(* does not catch it.                                                         *)
Undecodable(w) ==
    /\ pc[w] = "start"
    /\ index = Alien
    /\ Goto(w, "raised")
    /\ UNCHANGED <<index, base, attempts, gap>>

(* The second read, just before the rename, finds the file as it was.  Mutant: *)
(* it is not compared.                                                         *)
UnmovedAlways(w) == TRUE
Unmoved(w) == ReadIndex = base[w]

CheckPasses(w) ==
    /\ pc[w] = "check"
    /\ Unmoved(w)
    /\ gap' = [gap EXCEPT ![w] = {}]
    /\ Goto(w, "replace")
    /\ UNCHANGED <<index, base, attempts>>

(* It moved: merge again onto what is there, or give up (RuntimeError).  *)
TurnLeft(w) == attempts[w] + 1 < MaxAttempts

(* Mutant: the first base is kept. *)
RebaseNot(w) == base
Rebase(w) == [base EXCEPT ![w] = ReadIndex]

CheckFails(w) ==
    /\ pc[w] = "check"
    /\ ~Unmoved(w)
    /\ base' = Rebase(w)
    /\ attempts' = [attempts EXCEPT ![w] = @ + 1]
    /\ Goto(w, IF TurnLeft(w) THEN "check" ELSE "raised")
    /\ UNCHANGED <<index, gap>>

(* os.replace: unconditional.  Mutant: the entry is written alone. *)
MergedAlone(w) == {w}
Merged(w) == base[w] \cup {w}

Replace(w) ==
    /\ pc[w] = "replace"
    /\ index' = Merged(w)
    /\ gap' = [u \in Writer |-> IF pc[u] = "replace" THEN gap[u] \cup Merged(w) ELSE gap[u]]
    /\ Goto(w, "recorded")
    /\ UNCHANGED <<base, attempts>>

(* Any OSError of the update is ignored, and a process may die in it. *)
Skip(w) ==
    /\ pc[w] \in {"start", "check", "replace"}
    /\ Goto(w, "skipped")
    /\ UNCHANGED <<index, base, attempts, gap>>

-----------------------------------------------------------------------------
Step(w) == Begin(w) \/ Undecodable(w) \/ CheckPasses(w) \/ CheckFails(w) \/ Replace(w)

(* Every update has ended. *)
Finished == (\A w \in Writer : pc[w] \in Ended) /\ UNCHANGED vars

Next == \/ \E w \in Writer : Step(w) \/ Skip(w)
        \/ Finished

Spec == Init /\ [][Next]_vars

-----------------------------------------------------------------------------
(***************************************************************************)
(* Properties.                                                             *)
(***************************************************************************)

(* Every variable has its type, and a writer that merges is not in its base. *)
TypeOK ==
    /\ index \in {Torn, Alien} \cup SUBSET Writer
    /\ base \in [Writer -> SUBSET Writer]
    /\ attempts \in [Writer -> 0 .. MaxAttempts]
    /\ gap \in [Writer -> SUBSET Writer]
    /\ pc \in [Writer -> PCs]
    /\ \A w \in Writer : pc[w] \in {"start", "check", "replace"} => attempts[w] < MaxAttempts

Recorded == {w \in Writer : pc[w] = "recorded"}

(* "a persistent concurrent writer": each turn that finds the file moved took *)
(* the write of another process, and one that will find it so has one to come. *)
TurnsAreContended ==
    \A w \in Writer :
        /\ attempts[w] <= Cardinality(Recorded)
        /\ pc[w] = "check" /\ ~Unmoved(w) => attempts[w] < Cardinality(Recorded)

(* The docstring of update_index_json: it raises when "a persistent concurrent *)
(* writer" kept it from converging.  An update fails only over a file it       *)
(* cannot decode, or after as many other updates succeeded as it has turns.    *)
Converges ==
    \A w \in Writer : pc[w] = "raised" => \/ index = Alien
                                        \/ Cardinality(Recorded) >= MaxAttempts

(* The re-check before the rename: an entry leaves index.json only if it was *)
(* published after the last check of the writer that overwrites it.          *)
LostInGapOnly ==
    [][\A w \in Writer : pc[w] = "replace" /\ pc'[w] = "recorded" =>
           \A e \in ReadIndex \ index' : e \in gap[w]]_vars
=============================================================================
