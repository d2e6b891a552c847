----------------------------- MODULE CacheInstall -----------------------------
(***************************************************************************)
(* One unpacked/sha256/<manifest> entry of the shared cache and the        *)
(* processes that install it at once: write_verified_install and           *)
(* _install_dir of _ocifetch/_layout.py, under _unpack_and_install and the *)
(* read-back of _ocifetch/_ensure.py.  Every binding follows the same rule *)
(* over the same directory, so an installer is a process of any of them.   *)
(*                                                                         *)
(* One action is one file system call another process can see the effect   *)
(* of.  A rename is atomic; what an installer does inside its own randomly *)
(* named directories is not visible to the others.                         *)
(***************************************************************************)
EXTENDS Integers, FiniteSets

CONSTANTS
    Installer,    \* processes that ensure this build
    InitialDest,  \* what may stand at the entry's path when they start
    MaxAttempts,  \* _INSTALL_ATTEMPTS
    MaxCalls,     \* bound: ensure() calls of a process, restarts included
    Absent,       \* nothing at the path
    Empty,        \* an empty directory: rename() may land on one
    Torn          \* foreign, torn or older format: no acceptable record

ASSUME InstallAssumption ==
    /\ InitialDest \subseteq {Absent, Empty, Torn}
    /\ MaxAttempts \in Nat \ {0}
    /\ MaxCalls \in Nat
    /\ {Absent, Empty, Torn} \cap Installer = {}
    /\ Torn \notin {Absent, Empty} /\ Absent # Empty

(* A directory's content; an installer stands for the complete entry it *)
(* unpacked, its library and its verified.json.                         *)
Contents == {Absent, Empty, Torn} \cup Installer

VARIABLES
    dest,         \* what stands at unpacked/sha256/<manifest>
    src,          \* per installer, its unpacked temporary directory
    aside,        \* per installer, what it moved to .stale-*/old
    attempts,     \* per installer, renames that failed in this _install_dir
    pc,           \* where each installer stands
    calls,        \* ensure() calls the process has left
    installed,    \* history: an acceptable entry has stood at dest
    interference  \* history: changes of dest by others since its _install_dir began

vars == <<dest, src, aside, attempts, pc, calls, installed, interference>>

Returned == {"idle", "returned", "failed", "aborted"}
Installing == {"rename", "look", "exists", "aside", "readaside", "putback", "drop"}
PCs == {"unpacked", "record", "installed"} \cup Returned \cup Installing

Init ==
    /\ dest \in InitialDest
    /\ src = [p \in Installer |-> Absent]
    /\ aside = [p \in Installer |-> Absent]
    /\ attempts = [p \in Installer |-> 0]
    /\ pc = [p \in Installer |-> "idle"]
    /\ calls = [p \in Installer |-> MaxCalls]
    /\ installed = FALSE
    /\ interference = [p \in Installer |-> 0]

-----------------------------------------------------------------------------
(* Helpers. *)

(* read_verified_record(dir) is not None. *)
Acceptable(content) == content \in Installer

Goto(p, label) == pc' = [pc EXCEPT ![p] = label]

(* The path takes other content: the ghosts follow. *)
Place(p, content) ==
    /\ dest' = content
    /\ installed' = (installed \/ Acceptable(content))
    /\ interference' = [q \in Installer |->
                           IF q # p /\ pc[q] \in Installing THEN interference[q] + 1
                           ELSE interference[q]]

KeepPlace == UNCHANGED <<dest, installed, interference>>

(* rename() of a directory succeeds onto nothing and onto an empty directory. *)
(* Mutant: the destination is cleared first.                                  *)
FreeAlways == TRUE
Free == dest \in {Absent, Empty}

(* The `finally` of write_verified_install and _unpack_and_install: the    *)
(* temporary directory goes, whatever the outcome.                          *)
Leave(p, label) ==
    /\ src' = [src EXCEPT ![p] = Absent]
    /\ Goto(p, label)

(* The next turn of the loop, or the last OSError. *)
NextAttempt(p) ==
    IF attempts[p] < MaxAttempts
    THEN /\ Goto(p, "rename")
         /\ UNCHANGED src
    ELSE Leave(p, "failed")

-----------------------------------------------------------------------------
(* _ensure_floating and _ensure_frozen. *)

(* An acceptable record is there already: nothing is fetched. *)
AlreadyInstalled(p) ==
    /\ pc[p] \in Returned
    /\ calls[p] > 0
    /\ Acceptable(dest)
    /\ calls' = [calls EXCEPT ![p] = @ - 1]
    /\ Goto(p, "returned")
    /\ KeepPlace
    /\ UNCHANGED <<src, aside, attempts>>

(* The layer is fetched and unpacked into a directory of the process's own. *)
Unpack(p) ==
    /\ pc[p] \in Returned
    /\ calls[p] > 0
    /\ ~Acceptable(dest)
    /\ calls' = [calls EXCEPT ![p] = @ - 1]
    /\ src' = [src EXCEPT ![p] = Torn]
    /\ aside' = [aside EXCEPT ![p] = Absent]
    /\ attempts' = [attempts EXCEPT ![p] = 0]
    /\ Goto(p, "unpacked")
    /\ KeepPlace

(* unpack_tar_zst refuses, or the fetch fails. *)
UnpackFails(p) ==
    /\ pc[p] = "unpacked"
    /\ Leave(p, "failed")
    /\ KeepPlace
    /\ UNCHANGED <<aside, attempts, calls>>

-----------------------------------------------------------------------------
(* write_verified_install. *)

FindInstalled(p) ==
    /\ pc[p] = "unpacked"
    /\ Acceptable(dest)
    /\ Leave(p, "installed")
    /\ KeepPlace
    /\ UNCHANGED <<aside, attempts, calls>>

FindMissing(p) ==
    /\ pc[p] = "unpacked"
    /\ ~Acceptable(dest)
    /\ Goto(p, "record")
    /\ KeepPlace
    /\ UNCHANGED <<src, aside, attempts, calls>>

(* verified.json goes into the temporary directory, which is now complete, and *)
(* _install_dir begins.  Mutant: the record is written once it is in place.    *)
RecordLater(p) == src
RecordFirst(p) == [src EXCEPT ![p] = p]

WriteRecord(p) ==
    /\ pc[p] = "record"
    /\ src' = RecordFirst(p)
    /\ interference' = [interference EXCEPT ![p] = 0]
    /\ Goto(p, "rename")
    /\ UNCHANGED <<dest, installed, aside, attempts, calls>>

-----------------------------------------------------------------------------
(* _install_dir. *)

Rename(p) ==
    /\ pc[p] = "rename"
    /\ Free
    /\ Place(p, src[p])
    /\ Leave(p, "installed")
    /\ UNCHANGED <<aside, attempts, calls>>

RenameFails(p) ==
    /\ pc[p] = "rename"
    /\ ~Free
    /\ attempts' = [attempts EXCEPT ![p] = @ + 1]
    /\ Goto(p, "look")
    /\ KeepPlace
    /\ UNCHANGED <<src, aside, calls>>

(* Another process's install is the one in place. *)
Keep(p) ==
    /\ pc[p] = "look"
    /\ Acceptable(dest)
    /\ Leave(p, "installed")
    /\ KeepPlace
    /\ UNCHANGED <<aside, attempts, calls>>

LookPast(p) ==
    /\ pc[p] = "look"
    /\ ~Acceptable(dest)
    /\ Goto(p, "exists")
    /\ KeepPlace
    /\ UNCHANGED <<src, aside, attempts, calls>>

(* What stood there went away: try the rename again. *)
Gone(p) ==
    /\ pc[p] = "exists"
    /\ dest = Absent
    /\ NextAttempt(p)
    /\ KeepPlace
    /\ UNCHANGED <<aside, attempts, calls>>

(* A fresh .stale-* directory is made for it. *)
MakeStale(p) ==
    /\ pc[p] = "exists"
    /\ dest # Absent
    /\ Goto(p, "aside")
    /\ KeepPlace
    /\ UNCHANGED <<src, aside, attempts, calls>>

(* Mutant: what is moved aside is copied and stays. *)
MovedCopy == dest
MovedAway == Absent

MoveAside(p) ==
    /\ pc[p] = "aside"
    /\ dest # Absent
    /\ aside' = [aside EXCEPT ![p] = dest]
    /\ Place(p, MovedAway)
    /\ Goto(p, "readaside")
    /\ UNCHANGED <<src, attempts, calls>>

(* Another process moved it first. *)
MoveAsideFails(p) ==
    /\ pc[p] = "aside"
    /\ dest = Absent
    /\ NextAttempt(p)
    /\ KeepPlace
    /\ UNCHANGED <<aside, attempts, calls>>

(* Mutant: what was moved aside is taken for stale unread. *)
ReadAsideNever(p) == FALSE
AsideAcceptable(p) == Acceptable(aside[p])

ReadAside(p) ==
    /\ pc[p] = "readaside"
    /\ Goto(p, IF AsideAcceptable(p) THEN "putback" ELSE "drop")
    /\ KeepPlace
    /\ UNCHANGED <<src, aside, attempts, calls>>

(* Another installer's rename had landed in between: it goes back. *)
PutBack(p) ==
    /\ pc[p] = "putback"
    /\ Free
    /\ Place(p, aside[p])
    /\ aside' = [aside EXCEPT ![p] = Absent]
    /\ Leave(p, "installed")
    /\ UNCHANGED <<attempts, calls>>

(* Re-occupied meanwhile. *)
PutBackFails(p) ==
    /\ pc[p] = "putback"
    /\ ~Free
    /\ Goto(p, "drop")
    /\ KeepPlace
    /\ UNCHANGED <<src, aside, attempts, calls>>

(* rmtree of the .stale-* directory. *)
DropAside(p) ==
    /\ pc[p] = "drop"
    /\ aside' = [aside EXCEPT ![p] = Absent]
    /\ NextAttempt(p)
    /\ KeepPlace
    /\ UNCHANGED <<attempts, calls>>

-----------------------------------------------------------------------------
(* ensure() reads the record back from the path it was given. *)

ReadBack(p) ==
    /\ pc[p] = "installed"
    /\ Goto(p, IF Acceptable(dest) THEN "returned" ELSE "aborted")
    /\ KeepPlace
    /\ UNCHANGED <<src, aside, attempts, calls>>

(* A process dies and may start again: its directories keep the random names *)
(* nobody reads.                                                             *)
Crash(p) ==
    /\ pc[p] \notin Returned
    /\ src' = [src EXCEPT ![p] = Absent]
    /\ aside' = [aside EXCEPT ![p] = Absent]
    /\ Goto(p, "idle")
    /\ KeepPlace
    /\ UNCHANGED <<attempts, calls>>

-----------------------------------------------------------------------------
(* An ensure() that has begun. *)
Step(p) ==
    \/ UnpackFails(p) \/ FindInstalled(p) \/ FindMissing(p) \/ WriteRecord(p)
    \/ Rename(p) \/ RenameFails(p) \/ Keep(p) \/ LookPast(p) \/ Gone(p)
    \/ MakeStale(p) \/ MoveAside(p) \/ MoveAsideFails(p) \/ ReadAside(p)
    \/ PutBack(p) \/ PutBackFails(p) \/ DropAside(p) \/ ReadBack(p)

(* Every process has made its calls. *)
Finished == /\ \A p \in Installer : pc[p] \in Returned /\ calls[p] = 0
            /\ UNCHANGED vars

Next == \/ \E p \in Installer : AlreadyInstalled(p) \/ Unpack(p) \/ Step(p)
        \/ Finished

Spec == Init /\ [][Next]_vars

(* A process inside an ensure() runs on. *)
FairSpec == Spec /\ \A p \in Installer : WF_vars(Step(p))

CrashNext == Next \/ \E p \in Installer : Crash(p)
CrashSpec == Init /\ [][CrashNext]_vars

-----------------------------------------------------------------------------
(***************************************************************************)
(* Properties.                                                             *)
(***************************************************************************)

(* Every variable has its type, and a process has a temporary directory      *)
(* exactly while its install runs.                                           *)
TypeOK ==
    /\ dest \in Contents
    /\ src \in [Installer -> {Absent, Torn} \cup Installer]
    /\ aside \in [Installer -> Contents]
    /\ attempts \in [Installer -> 0 .. MaxAttempts]
    /\ pc \in [Installer -> PCs]
    /\ calls \in [Installer -> 0 .. MaxCalls]
    /\ installed \in BOOLEAN
    /\ interference \in [Installer -> Nat]
    /\ \A p \in Installer :
           /\ pc[p] \in {"unpacked", "record"} => src[p] = Torn /\ attempts[p] = 0
           /\ pc[p] \in Installing => src[p] = p
           /\ pc[p] = "rename" => attempts[p] < MaxAttempts

(* fetch-v1.md section 1: the entry is only ever removed or becomes a complete *)
(* one.  Nothing half written is published, in whatever order processes race   *)
(* and wherever one dies.                                                      *)
PublishedWhole == [][dest' # dest => dest' = Absent \/ Acceptable(dest')]_vars

(* _install_dir's put-back: once an entry was installed, one is in place, or a *)
(* process that moved it aside by mistake still holds an acceptable one and    *)
(* puts it back.                                                               *)
EntryNotLost ==
    installed => \/ Acceptable(dest)
                 \/ \E p \in Installer : /\ pc[p] \in {"readaside", "putback"}
                                         /\ Acceptable(aside[p])

(* The comment on _INSTALL_ATTEMPTS, "A handful is plenty": after the first,  *)
(* each failed turn of the loop follows another process changing the          *)
(* destination under it, so only that many changes exhaust an installer.      *)
RetriesAreContended ==
    \A p \in Installer :
        pc[p] \in Installing \cup {"failed"} => attempts[p] <= 1 + interference[p]

(* Its inductive form: before a rename that will find the path taken, another *)
(* process has taken it since the last one failed.                            *)
Contended ==
    \A p \in Installer :
        /\ pc[p] \in Installing \cup {"failed"} => attempts[p] <= 1 + interference[p]
        /\ pc[p] \in {"rename", "readaside", "putback", "drop"} /\ ~Free
               => attempts[p] <= interference[p]

(* Only an acceptable entry is put back, and an installed one leaves the path *)
(* only into the hands of a process that will.                                *)
EntryInv ==
    /\ \A p \in Installer : pc[p] = "putback" => Acceptable(aside[p])
    /\ installed => dest # Torn /\ dest # Empty
    /\ Acceptable(dest) => installed
    /\ EntryNotLost

(* The read-back's assertion: a caller that was told its install is in place *)
(* finds an acceptable record there.                                         *)
ReadBackFinds == \A p \in Installer : pc[p] # "aborted"

(* fetch-v1.md section 1: an entry that holds an acceptable record is never *)
(* removed or replaced, so the entry is one of EntryOnce's, as it is one     *)
(* step of Ensure; until it is installed, nothing its readers accept stands  *)
(* there.                                                                    *)
TheEntry == INSTANCE EntryOnce WITH
    Entry <- {"entry"}, Content <- Installer, Missing <- Absent,
    entries <- [e \in {"entry"} |-> IF Acceptable(dest) THEN dest ELSE Absent]
InstalledOnce == TheEntry!Spec

(* Once an installer begins its renames an acceptable entry ends up in place, *)
(* and stays.                                                                 *)
EventuallyUsable ==
    \A p \in Installer : pc[p] = "rename" ~> [](installed /\ Acceptable(dest))
=============================================================================
