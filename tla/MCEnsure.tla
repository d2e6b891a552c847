------------------------------- MODULE MCEnsure -------------------------------
(* Ensure with two or three processes: one line with an older and a newer    *)
(* build for the host, a build of another line, and the line's build for     *)
(* another platform.                                                         *)
EXTENDS Ensure, TLC

CONSTANTS line, other, host, foreign, old, new, next, away

MCPlatformOf == [m \in Manifest |-> IF m = away THEN foreign ELSE host]
MCRank == old :> 1 @@ new :> 2 @@ away :> 2 @@ next :> 3
MCWithin == line :> {old, new, away} @@ other :> {next}
NoSystem == [m \in Manifest |-> "absent"]
MCSystems == {NoSystem, [NoSystem EXCEPT ![new] = "unsigned"]}

Plain == [request |-> line, platform |-> host, offline |-> FALSE,
          frozen |-> FALSE, update |-> FALSE, lockWrite |-> FALSE,
          lockPath |-> FALSE, allowUnsigned |-> FALSE]

MCOptions ==
    {Plain,
     [Plain EXCEPT !.offline = TRUE, !.lockPath = TRUE],
     [Plain EXCEPT !.allowUnsigned = TRUE, !.update = TRUE],
     [Plain EXCEPT !.lockPath = TRUE, !.frozen = TRUE],
     [Plain EXCEPT !.lockPath = TRUE, !.lockWrite = TRUE],
     [Plain EXCEPT !.lockPath = TRUE, !.update = TRUE, !.platform = foreign],
     [Plain EXCEPT !.lockPath = TRUE, !.update = TRUE, !.request = other]}

EmptyLock == [k \in Key |-> NoPin]
PinTo(m, how) == [manifest |-> m, agrees |-> how, bundled |-> TRUE]
Pinned(m, how) == [EmptyLock EXCEPT ![<<line, host>>] = PinTo(m, how)]
MCInitialLocks ==
    {NoFile, Refused, Pinned(old, "all"), Pinned(next, "all"),
     Pinned(old, "not version"), Pinned(old, "not layer")}
=============================================================================
