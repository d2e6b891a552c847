------------------------------ MODULE SetupOnce ------------------------------
(***************************************************************************)
(* What the process setup promises (docs/reference/bindings-v1.md section  *)
(* 6), with no lock, thread or failure in sight: one record of the image   *)
(* zone and the defaults, free to change while no image is open, and every *)
(* image that opens runs under the one record there is.                    *)
(***************************************************************************)
CONSTANTS Image, Setups, NoSetup

VARIABLES record,   \* the recorded setup, NoSetup before the first
          running   \* per image, the setup it runs under once it is open

vars == <<record, running>>

Open == {i \in Image : running[i] # NoSetup}

Init == /\ record = NoSetup
        /\ running = [i \in Image |-> NoSetup]

(* A setup is recorded or replaced only while no image is open. *)
Record(s) == /\ Open = {}
             /\ record' = s
             /\ UNCHANGED running

(* An image opens under the record, once. *)
OpenImage(i) == /\ record # NoSetup
                /\ running[i] = NoSetup
                /\ running' = [running EXCEPT ![i] = record]
                /\ UNCHANGED record

Next == \/ \E s \in Setups : Record(s)
        \/ \E i \in Image : OpenImage(i)

Spec == Init /\ [][Next]_vars
=============================================================================
