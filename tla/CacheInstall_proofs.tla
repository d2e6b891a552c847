-------------------------- MODULE CacheInstall_proofs --------------------------
(***************************************************************************)
(* The cache entry for any number of installers and any number of attempts: *)
(* types, that nothing half written is published even when processes die,  *)
(* that an installed entry is not lost, that retries are contended, and    *)
(* that an entry stands for good in a cache where nothing foreign stood.   *)
(***************************************************************************)
EXTENDS CacheInstall, TLAPS

(* Every variable keeps its type, crashes included. *)
THEOREM TypeCorrect == CrashSpec => []TypeOK
<1> USE InstallAssumption DEF TypeOK, Contents, InstallAssumption
<1>1. Init => TypeOK
  <2> SUFFICES ASSUME Init PROVE TypeOK
    OBVIOUS
  <2> USE DEF Init, PCs, Returned, Installing
  <2>1. dest \in Contents /\ installed \in BOOLEAN
    OBVIOUS
  <2>2. /\ src \in [Installer -> {Absent, Torn} \cup Installer]
        /\ aside \in [Installer -> Contents]
        /\ pc \in [Installer -> PCs]
    OBVIOUS
  <2>3. /\ attempts \in [Installer -> 0 .. MaxAttempts]
        /\ calls \in [Installer -> 0 .. MaxCalls]
        /\ interference \in [Installer -> Nat]
    OBVIOUS
  <2>4. \A p \in Installer : pc[p] = "idle"
    OBVIOUS
  <2>5. QED
    BY <2>1, <2>2, <2>3, <2>4
<1>2. TypeOK /\ [CrashNext]_vars => TypeOK'
  <2> SUFFICES ASSUME TypeOK, [CrashNext]_vars PROVE TypeOK'
    OBVIOUS
  <2> USE DEF PCs, Returned, Installing, Goto, Leave, KeepPlace, Place, Acceptable, Free
  <2>1. ASSUME NEW p \in Installer, AlreadyInstalled(p) PROVE TypeOK'
    BY <2>1 DEF AlreadyInstalled
  <2>2. ASSUME NEW p \in Installer, Unpack(p) PROVE TypeOK'
    BY <2>2 DEF Unpack
  <2>3. ASSUME NEW p \in Installer, UnpackFails(p) \/ FindInstalled(p) \/ FindMissing(p)
        PROVE TypeOK'
    BY <2>3 DEF UnpackFails, FindInstalled, FindMissing
  <2>4. ASSUME NEW p \in Installer, WriteRecord(p) PROVE TypeOK'
    BY <2>4 DEF WriteRecord, RecordFirst
  <2>5. ASSUME NEW p \in Installer, Rename(p) PROVE TypeOK'
    BY <2>5 DEF Rename
  <2>6. ASSUME NEW p \in Installer, RenameFails(p) PROVE TypeOK'
    BY <2>6 DEF RenameFails
  <2>7. ASSUME NEW p \in Installer, Keep(p) \/ LookPast(p) \/ MakeStale(p) PROVE TypeOK'
    BY <2>7 DEF Keep, LookPast, MakeStale
  <2>8. ASSUME NEW p \in Installer, Gone(p) \/ MoveAsideFails(p) PROVE TypeOK'
    BY <2>8 DEF Gone, MoveAsideFails, NextAttempt
  <2>9. ASSUME NEW p \in Installer, MoveAside(p) PROVE TypeOK'
    BY <2>9 DEF MoveAside, MovedAway
  <2>10. ASSUME NEW p \in Installer, ReadAside(p) PROVE TypeOK'
    BY <2>10 DEF ReadAside
  <2>11. ASSUME NEW p \in Installer, PutBack(p) PROVE TypeOK'
    BY <2>11 DEF PutBack
  <2>12. ASSUME NEW p \in Installer, PutBackFails(p) PROVE TypeOK'
    BY <2>12 DEF PutBackFails
  <2>13. ASSUME NEW p \in Installer, DropAside(p) PROVE TypeOK'
    BY <2>13 DEF DropAside, NextAttempt
  <2>14. ASSUME NEW p \in Installer, ReadBack(p) PROVE TypeOK'
    BY <2>14 DEF ReadBack
  <2>15. ASSUME NEW p \in Installer, Crash(p) PROVE TypeOK'
    BY <2>15 DEF Crash
  <2>16. CASE UNCHANGED vars
    BY <2>16 DEF vars
  <2>17. QED
    BY <2>1, <2>2, <2>3, <2>4, <2>5, <2>6, <2>7, <2>8, <2>9, <2>10, <2>11, <2>12,
       <2>13, <2>14, <2>15, <2>16
       DEF CrashNext, Next, Step, Finished
<1>3. QED
  BY <1>1, <1>2, PTL DEF CrashSpec

(* The path changes only by a rename, and to what these say. *)
LEMMA PlaceStep ==
    ASSUME TypeOK, [CrashNext]_vars, dest' # dest
    PROVE  \E p \in Installer :
               \/ Rename(p) /\ dest' = p /\ Free
               \/ PutBack(p) /\ dest' = aside[p] /\ Free
               \/ MoveAside(p) /\ dest' = Absent
<1> USE DEF KeepPlace, Place
<1>1. \E p \in Installer : Rename(p) \/ PutBack(p) \/ MoveAside(p)
  BY DEF CrashNext, Next, Step, Finished, vars, AlreadyInstalled, Unpack, UnpackFails,
         FindInstalled, FindMissing, WriteRecord, RenameFails, Keep, LookPast, Gone,
         MakeStale, MoveAsideFails, ReadAside, PutBackFails, DropAside, ReadBack, Crash
<1>2. QED
  BY <1>1 DEF Rename, PutBack, MoveAside, MovedAway, TypeOK, Installing

(* Only an acceptable entry waits to be put back. *)
PutBackInv == \A p \in Installer : pc[p] = "putback" => Acceptable(aside[p])

LEMMA PutBackStep == TypeOK /\ PutBackInv /\ [CrashNext]_vars => PutBackInv'
<1> SUFFICES ASSUME TypeOK, PutBackInv, [CrashNext]_vars,
                    NEW p \in Installer, pc'[p] = "putback"
             PROVE  Acceptable(aside'[p])
  BY DEF PutBackInv, Acceptable
<1> USE DEF TypeOK, PutBackInv, Acceptable, Goto, Leave, KeepPlace
<1>1. ASSUME NEW q \in Installer, ReadAside(q) PROVE Acceptable(aside'[p])
  BY <1>1 DEF ReadAside, AsideAcceptable
<1>2. ASSUME NEW q \in Installer,
             \/ AlreadyInstalled(q) \/ Unpack(q) \/ UnpackFails(q) \/ FindInstalled(q)
             \/ FindMissing(q) \/ WriteRecord(q) \/ Rename(q) \/ RenameFails(q)
             \/ Keep(q) \/ LookPast(q) \/ MakeStale(q) \/ MoveAside(q) \/ PutBack(q)
             \/ PutBackFails(q) \/ ReadBack(q) \/ Crash(q)
      PROVE  Acceptable(aside'[p])
  BY <1>2 DEF AlreadyInstalled, Unpack, UnpackFails, FindInstalled, FindMissing,
              WriteRecord, Rename, RenameFails, Keep, LookPast, MakeStale, MoveAside,
              PutBack, PutBackFails, ReadBack, Crash
<1>3. ASSUME NEW q \in Installer, Gone(q) \/ MoveAsideFails(q) \/ DropAside(q)
      PROVE  Acceptable(aside'[p])
  BY <1>3 DEF Gone, MoveAsideFails, DropAside, NextAttempt
<1>4. CASE UNCHANGED vars
  BY <1>4 DEF vars
<1>5. QED
  BY <1>1, <1>2, <1>3, <1>4 DEF CrashNext, Next, Step, Finished

(* Nothing half written is ever published at the entry's path. *)
THEOREM PublishedWholeAlways == CrashSpec => PublishedWhole
<1>1. Init => PutBackInv
  BY DEF Init, PutBackInv
<1>2. TypeOK /\ PutBackInv /\ [CrashNext]_vars
        => [dest' # dest => dest' = Absent \/ Acceptable(dest')]_vars
  <2> SUFFICES ASSUME TypeOK, PutBackInv, [CrashNext]_vars, dest' # dest
               PROVE  dest' = Absent \/ Acceptable(dest')
    OBVIOUS
  <2>1. PICK p \in Installer :
               \/ Rename(p) /\ dest' = p /\ Free
               \/ PutBack(p) /\ dest' = aside[p] /\ Free
               \/ MoveAside(p) /\ dest' = Absent
    BY PlaceStep
  <2>2. QED
    BY <2>1 DEF PutBackInv, PutBack, Acceptable
<1>3. QED
  BY <1>1, <1>2, TypeCorrect, PutBackStep, PTL DEF CrashSpec, PublishedWhole

(* In a cache where nothing foreign stood, no process moves anything aside. *)
CleanInv ==
    /\ dest # Torn
    /\ \A p \in Installer :
           /\ pc[p] \notin {"exists", "aside", "readaside", "putback", "drop"}
           /\ pc[p] \in {"look", "installed"} => Acceptable(dest)

LEMMA CleanStep == TypeOK /\ CleanInv /\ [CrashNext]_vars => CleanInv'
<1> SUFFICES ASSUME TypeOK, CleanInv, [CrashNext]_vars
             PROVE  CleanInv'
  OBVIOUS
<1> USE InstallAssumption
    DEF InstallAssumption, TypeOK, Contents, CleanInv, Acceptable, Goto, Leave, KeepPlace,
        Returned, Installing, Free
<1>1. CASE dest' # dest
  <2>1. PICK p \in Installer : Rename(p) /\ dest' = p /\ Free
    BY <1>1, PlaceStep DEF PutBack, MoveAside
  <2>2. QED
    BY <2>1 DEF Rename
<1>2. CASE dest' = dest
  <2>1. ASSUME NEW q \in Installer,
               \/ AlreadyInstalled(q) \/ Unpack(q) \/ UnpackFails(q) \/ FindInstalled(q)
               \/ FindMissing(q) \/ WriteRecord(q) \/ Rename(q) \/ RenameFails(q)
               \/ Keep(q) \/ LookPast(q) \/ ReadBack(q) \/ Crash(q)
        PROVE  CleanInv'
    BY <1>2, <2>1 DEF AlreadyInstalled, Unpack, UnpackFails, FindInstalled, FindMissing,
                WriteRecord, Rename, RenameFails, Keep, LookPast, ReadBack, Crash, Place
  <2>2. ASSUME NEW q \in Installer,
               \/ Gone(q) \/ MakeStale(q) \/ MoveAside(q) \/ MoveAsideFails(q)
               \/ ReadAside(q) \/ PutBack(q) \/ PutBackFails(q) \/ DropAside(q)
        PROVE  FALSE
    BY <2>2 DEF Gone, MakeStale, MoveAside, MoveAsideFails, ReadAside, PutBack,
                PutBackFails, DropAside
  <2>3. CASE UNCHANGED vars
    BY <2>3 DEF vars
  <2>4. QED
    BY <1>2, <2>1, <2>2, <2>3 DEF CrashNext, Next, Step, Finished
<1>3. QED
  BY <1>1, <1>2

LEMMA CleanInit == Torn \notin InitialDest /\ Init => CleanInv
  BY InstallAssumption DEF Init, CleanInv, InstallAssumption

(* One step of the installers is one of EntryOnce's, or leaves the entry alone. *)
LEMMA CleanEntryStep ==
    ASSUME TypeOK, CleanInv, [CrashNext]_vars
    PROVE  [TheEntry!Next]_([e \in {"entry"} |-> IF Acceptable(dest) THEN dest ELSE Absent])
<1> DEFINE entry == [e \in {"entry"} |-> IF Acceptable(dest) THEN dest ELSE Absent]
<1>1. CASE dest' = dest
  <2>1. entry' = entry
    BY <1>1 DEF Acceptable
  <2>2. QED
    BY <2>1
<1>2. CASE dest' # dest
  <2>1. PICK p \in Installer : dest' = p /\ Free
    BY <1>2, PlaceStep DEF CleanInv, PutBack, MoveAside
  <2>2. entry = [e \in {"entry"} |-> Absent] /\ entry' = [e \in {"entry"} |-> p]
    BY <2>1, InstallAssumption DEF Free, Acceptable
  <2>3. TheEntry!Install("entry", p)
    BY <2>2 DEF TheEntry!Install
  <2>4. QED
    BY <2>3 DEF TheEntry!Next
<1>3. QED
  BY <1>1, <1>2

(* In a cache where nothing foreign stood the entry is installed once and      *)
(* stands for good, wherever processes die: the installers implement EntryOnce. *)
THEOREM CleanCacheStands ==
    ASSUME Torn \notin InitialDest
    PROVE  CrashSpec => InstalledOnce
<1>1. TypeOK /\ CleanInv /\ [CrashNext]_vars =>
        [TheEntry!Next]_([e \in {"entry"} |-> IF Acceptable(dest) THEN dest ELSE Absent])
  BY CleanEntryStep
<1>2. Init => CleanInv /\ TheEntry!Init
  BY CleanInit, InstallAssumption DEF Init, TheEntry!Init, Acceptable
<1>3. QED
  BY <1>1, <1>2, TypeCorrect, CleanStep, PTL DEF CrashSpec, InstalledOnce, TheEntry!Spec

(* Whoever was told its install is in place finds it there. *)
LEMMA ReadBackStep == TypeOK /\ CleanInv /\ ReadBackFinds /\ [CrashNext]_vars => ReadBackFinds'
<1> SUFFICES ASSUME TypeOK, CleanInv, ReadBackFinds, [CrashNext]_vars,
                    NEW p \in Installer, pc'[p] = "aborted"
             PROVE  FALSE
  BY DEF ReadBackFinds
<1> USE DEF TypeOK, CleanInv, ReadBackFinds, Goto, Leave
<1>1. ASSUME NEW q \in Installer, ReadBack(q) PROVE FALSE
  BY <1>1 DEF ReadBack
<1>2. ASSUME NEW q \in Installer,
             \/ AlreadyInstalled(q) \/ Unpack(q) \/ UnpackFails(q) \/ FindInstalled(q)
             \/ FindMissing(q) \/ WriteRecord(q) \/ Rename(q) \/ RenameFails(q)
             \/ Keep(q) \/ LookPast(q) \/ Crash(q)
      PROVE  FALSE
  BY <1>2 DEF AlreadyInstalled, Unpack, UnpackFails, FindInstalled, FindMissing,
              WriteRecord, Rename, RenameFails, Keep, LookPast, Crash
<1>3. ASSUME NEW q \in Installer,
             \/ Gone(q) \/ MakeStale(q) \/ MoveAside(q) \/ MoveAsideFails(q)
             \/ ReadAside(q) \/ PutBack(q) \/ PutBackFails(q) \/ DropAside(q)
      PROVE  FALSE
  BY <1>3 DEF Gone, MakeStale, MoveAside, MoveAsideFails, ReadAside, PutBack,
              PutBackFails, DropAside
<1>4. CASE UNCHANGED vars
  BY <1>4 DEF vars
<1>5. QED
  BY <1>1, <1>2, <1>3, <1>4 DEF CrashNext, Next, Step, Finished

(* In such a cache the read-back's assertion holds. *)
THEOREM CleanReadBack ==
    ASSUME Torn \notin InitialDest
    PROVE  CrashSpec => []ReadBackFinds
<1>1. Init => CleanInv /\ ReadBackFinds
  BY CleanInit DEF Init, ReadBackFinds
<1>2. QED
  BY <1>1, TypeCorrect, CleanStep, ReadBackStep, PTL DEF CrashSpec

(* A behaviour in which nobody dies is one in which they may. *)
LEMMA SpecCrashes == Spec => CrashSpec
<1>1. [Next]_vars => [CrashNext]_vars
  BY DEF CrashNext
<1>2. QED
  BY <1>1, PTL DEF Spec, CrashSpec

LEMMA EntryInit == Init => EntryInv
  BY InstallAssumption DEF Init, EntryInv, EntryNotLost, Acceptable, InstallAssumption

(* A step that leaves the path and every process that moved something aside. *)
LEMMA EntryKept ==
    ASSUME TypeOK, EntryInv, KeepPlace, PutBackInv',
           \A p \in Installer : pc[p] \in {"readaside", "putback"} =>
               pc'[p] \in {"readaside", "putback"} /\ aside'[p] = aside[p]
    PROVE  EntryInv'
  BY DEF EntryInv, EntryNotLost, KeepPlace, PutBackInv, Acceptable

LEMMA EntryStep == TypeOK /\ EntryInv /\ [Next]_vars => EntryInv'
<1> SUFFICES ASSUME TypeOK, EntryInv, [Next]_vars PROVE EntryInv'
  OBVIOUS
<1>0. PutBackInv'
  <2>1. PutBackInv /\ [CrashNext]_vars
    BY DEF EntryInv, PutBackInv, CrashNext
  <2>2. QED
    BY <2>1, PutBackStep
<1> USE InstallAssumption DEF InstallAssumption, TypeOK, Goto, Leave
<1>1. ASSUME NEW p \in Installer,
             \/ AlreadyInstalled(p) \/ Unpack(p) \/ UnpackFails(p) \/ FindInstalled(p)
             \/ FindMissing(p) \/ RenameFails(p) \/ Keep(p) \/ LookPast(p)
             \/ MakeStale(p) \/ ReadBack(p)
      PROVE  EntryInv'
  <2>1. KeepPlace /\ \A q \in Installer : pc[q] \in {"readaside", "putback"} =>
                      pc'[q] = pc[q] /\ aside'[q] = aside[q]
    BY <1>1 DEF AlreadyInstalled, Unpack, UnpackFails, FindInstalled, FindMissing,
                RenameFails, Keep, LookPast, MakeStale, ReadBack, Returned
  <2>2. QED
    BY <1>0, <2>1, EntryKept
<1>2. ASSUME NEW p \in Installer, Gone(p) \/ MoveAsideFails(p) \/ DropAside(p)
      PROVE  EntryInv'
  <2>1. KeepPlace /\ \A q \in Installer : pc[q] \in {"readaside", "putback"} =>
                      pc'[q] = pc[q] /\ aside'[q] = aside[q]
    BY <1>2 DEF Gone, MoveAsideFails, DropAside, NextAttempt
  <2>2. QED
    BY <1>0, <2>1, EntryKept
<1>3. ASSUME NEW p \in Installer, WriteRecord(p) PROVE EntryInv'
  BY <1>0, <1>3 DEF WriteRecord, EntryInv, EntryNotLost, PutBackInv, Acceptable
<1>4. ASSUME NEW p \in Installer, Rename(p) PROVE EntryInv'
  <2>1. dest' = p /\ installed'
    BY <1>4 DEF Rename, Place, Acceptable, Installing
  <2>2. QED
    BY <1>0, <2>1 DEF EntryInv, EntryNotLost, PutBackInv, Acceptable
<1>5. ASSUME NEW p \in Installer, MoveAside(p) PROVE EntryInv'
  <2>1. /\ aside' = [aside EXCEPT ![p] = dest] /\ dest' = Absent
        /\ pc[p] = "aside" /\ pc' = [pc EXCEPT ![p] = "readaside"]
        /\ installed' = (installed \/ Acceptable(Absent))
    BY <1>5, Zenon DEF MoveAside, Place, MovedAway, Goto
  <2>2. ~Acceptable(Absent)
    BY DEF Acceptable
  <2>3. installed' => installed /\ dest \in Contents /\ dest # Absent
    BY <1>5, <2>1, <2>2, Zenon DEF MoveAside, TypeOK
  <2>4. installed' => \E q \in Installer : pc'[q] \in {"readaside", "putback"} /\ Acceptable(aside'[q])
    BY <2>1, <2>3 DEF EntryInv, Contents, Acceptable
  <2>5. QED
    BY <1>0, <2>1, <2>2, <2>4 DEF EntryInv, EntryNotLost, PutBackInv, Acceptable
<1>6. ASSUME NEW p \in Installer, ReadAside(p) PROVE EntryInv'
  BY <1>0, <1>6 DEF ReadAside, AsideAcceptable, KeepPlace, EntryInv, EntryNotLost, PutBackInv,
                    Acceptable
<1>7. ASSUME NEW p \in Installer, PutBack(p) PROVE EntryInv'
  <2>1. dest' \in Installer /\ installed'
    BY <1>7 DEF PutBack, Place, EntryInv, Acceptable
  <2>2. QED
    BY <1>0, <2>1 DEF EntryInv, EntryNotLost, PutBackInv, Acceptable
<1>8. ASSUME NEW p \in Installer, PutBackFails(p) PROVE EntryInv'
  <2>1. installed => Acceptable(dest)
    BY <1>8 DEF PutBackFails, Free, EntryInv, Acceptable, Contents
  <2>2. QED
    BY <1>0, <1>8, <2>1 DEF PutBackFails, KeepPlace, EntryInv, EntryNotLost, PutBackInv, Acceptable
<1>9. CASE UNCHANGED vars
  BY <1>9 DEF vars, EntryInv, EntryNotLost, Acceptable
<1>10. QED
  BY <1>1, <1>2, <1>3, <1>4, <1>5, <1>6, <1>7, <1>8, <1>9 DEF Next, Step, Finished

(* The same, inductively: an installed entry leaves the path only into the *)
(* hands of a process that puts it back.                                   *)
THEOREM EntryInvAlways == Spec => []EntryInv
  BY EntryInit, EntryStep, TypeCorrect, SpecCrashes, PTL DEF Spec

(* While nobody dies, an installed entry is in place or in the hands of a   *)
(* process that puts it back, for any number of racing installers.          *)
THEOREM EntryNotLostAlways == Spec => []EntryNotLost
<1>1. EntryInv => EntryNotLost
  BY DEF EntryInv
<1>2. QED
  BY <1>1, EntryInvAlways, PTL

(* The path counts one more change for every other installer at work. *)
LEMMA PlaceCounts ==
    ASSUME TypeOK, NEW p \in Installer, NEW content, Place(p, content),
           NEW q \in Installer, q # p
    PROVE  interference'[q] = IF pc[q] \in Installing THEN interference[q] + 1
                                                      ELSE interference[q]
  BY DEF Place, TypeOK

LEMMA ContendedStep == TypeOK /\ TypeOK' /\ Contended /\ [Next]_vars => Contended'
<1> SUFFICES ASSUME TypeOK, TypeOK', Contended, [Next]_vars PROVE Contended'
  OBVIOUS
<1> USE InstallAssumption DEF InstallAssumption, TypeOK, Goto, Leave
<1>1. ASSUME NEW p \in Installer,
             \/ AlreadyInstalled(p) \/ Unpack(p) \/ UnpackFails(p) \/ FindInstalled(p)
             \/ FindMissing(p) \/ Keep(p) \/ LookPast(p) \/ MakeStale(p) \/ ReadBack(p)
             \/ PutBackFails(p) \/ ReadAside(p)
      PROVE  Contended'
  BY <1>1 DEF AlreadyInstalled, Unpack, UnpackFails, FindInstalled, FindMissing, Keep,
              LookPast, MakeStale, ReadBack, PutBackFails, ReadAside, Returned, KeepPlace,
              Contended, Installing, Free
<1>2. ASSUME NEW p \in Installer, Gone(p) \/ MoveAsideFails(p) \/ DropAside(p)
      PROVE  Contended'
  BY <1>2 DEF Gone, MoveAsideFails, DropAside, NextAttempt, KeepPlace, Contended,
              Installing, Free
<1>3. ASSUME NEW p \in Installer, WriteRecord(p) PROVE Contended'
  BY <1>3 DEF WriteRecord, Contended, Installing, Free
<1>4. ASSUME NEW p \in Installer, RenameFails(p) PROVE Contended'
  BY <1>4 DEF RenameFails, KeepPlace, Contended, Installing, Free
<1>5. ASSUME NEW p \in Installer, Rename(p) \/ PutBack(p) \/ MoveAside(p)
      PROVE  Contended'
  <2>1. UNCHANGED attempts /\ \E content : Place(p, content)
    BY <1>5 DEF Rename, PutBack, MoveAside
  <2>2. \A q \in Installer : q # p => pc'[q] = pc[q]
    BY <1>5 DEF Rename, PutBack, MoveAside
  <2>3. \A q \in Installer : q # p =>
            interference'[q] = IF pc[q] \in Installing THEN interference[q] + 1
                                                       ELSE interference[q]
    BY <2>1, PlaceCounts
  <2>4. interference'[p] = interference[p]
    BY <2>1 DEF Place
  <2>5. \A q \in Installer : attempts[q] \in Nat /\ interference[q] \in Nat
    OBVIOUS
  <2>6. \/ pc'[p] = "installed"
        \/ pc[p] = "aside" /\ pc'[p] = "readaside" /\ Free'
    BY <1>5 DEF Rename, PutBack, MoveAside, MovedAway, Place, Free
  <2>7. QED
    BY <2>1, <2>2, <2>3, <2>4, <2>5, <2>6 DEF Contended, Installing
<1>6. CASE UNCHANGED vars
  BY <1>6 DEF vars, Contended, Free
<1>7. QED
  BY <1>1, <1>2, <1>3, <1>4, <1>5, <1>6 DEF Next, Step, Finished

(* Before a rename that will find the path taken, another process has taken *)
(* it since the last one failed.                                            *)
THEOREM ContendedAlways == Spec => []Contended
<1>1. Init => Contended
  BY DEF Init, Contended, Installing
<1>2. QED
  BY <1>1, ContendedStep, TypeCorrect, SpecCrashes, PTL DEF Spec

(* After the first, every failed turn of _install_dir follows a change of the *)
(* path by another process, for any number of processes.                      *)
THEOREM RetriesAreContendedAlways == Spec => []RetriesAreContended
<1>1. Contended => RetriesAreContended
  BY DEF Contended, RetriesAreContended
<1>2. QED
  BY <1>1, ContendedAlways, PTL
=============================================================================
