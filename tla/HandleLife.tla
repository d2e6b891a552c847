------------------------------ MODULE HandleLife ------------------------------
(***************************************************************************)
(* What a handle object promises the threads that share it                 *)
(* (docs/reference/bindings-v1.md section 3), with no counter, condition,  *)
(* or finalizer in sight: a call enters while the object is open and not   *)
(* freed, close shuts it for good and at once, and the reference goes back *)
(* to the library once, when nobody is inside.  The one way to give it     *)
(* back twice is to be struck after the free and before the note of it.    *)
(***************************************************************************)
CONSTANTS Thread, Handle

VARIABLES users,   \* per handle, the threads whose call is inside
          shut,    \* per handle, whether it was closed
          freed,   \* per handle, how often its reference was given back
          torn     \* the handles whose free was struck before its note

vars == <<users, shut, freed, torn>>

Init == /\ users = [h \in Handle |-> {}]
        /\ shut = [h \in Handle |-> FALSE]
        /\ freed = [h \in Handle |-> 0]
        /\ torn = {}

Enter(t, h) == /\ ~shut[h]
               /\ freed[h] = 0
               /\ t \notin users[h]
               /\ users' = [users EXCEPT ![h] = @ \cup {t}]
               /\ UNCHANGED <<shut, freed, torn>>

Leave(t, h) == /\ t \in users[h]
               /\ users' = [users EXCEPT ![h] = @ \ {t}]
               /\ UNCHANGED <<shut, freed, torn>>

Shut(h) == /\ ~shut[h]
           /\ shut' = [shut EXCEPT ![h] = TRUE]
           /\ UNCHANGED <<users, freed, torn>>

Free(h) == /\ freed[h] = 0
           /\ users[h] = {}
           /\ freed' = [freed EXCEPT ![h] = 1]
           /\ UNCHANGED <<users, shut, torn>>

Tear(h) == /\ shut[h] /\ freed[h] = 1
           /\ torn' = torn \cup {h}
           /\ UNCHANGED <<users, shut, freed>>

FreeAgain(h) == /\ h \in torn
                /\ freed[h] = 1
                /\ users[h] = {}
                /\ freed' = [freed EXCEPT ![h] = 2]
                /\ UNCHANGED <<users, shut, torn>>

Next == \E h \in Handle :
            \/ \E t \in Thread : Enter(t, h) \/ Leave(t, h)
            \/ Shut(h) \/ Free(h) \/ Tear(h) \/ FreeAgain(h)

Spec == Init /\ [][Next]_vars
=============================================================================
