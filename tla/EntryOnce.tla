------------------------------ MODULE EntryOnce ------------------------------
(***************************************************************************)
(* What the entries of the cache promise their readers                     *)
(* (docs/guides/fetch-v1.md section 1): an entry may be missing, somebody  *)
(* installs it, and what was installed first stands.                       *)
(***************************************************************************)
CONSTANTS Entry, Content, Missing

VARIABLE entries

Init == entries = [e \in Entry |-> Missing]

(* Installed once, never replaced and never removed. *)
Install(e, content) ==
    /\ entries[e] = Missing
    /\ entries' = [entries EXCEPT ![e] = content]

Next == \E e \in Entry, content \in Content : Install(e, content)

Spec == Init /\ [][Next]_entries
=============================================================================
