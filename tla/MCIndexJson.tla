------------------------------ MODULE MCIndexJson ------------------------------
(* IndexJson with a few writers: see the .cfg files. *)
EXTENDS IndexJson, TLC

(* The missing or empty file, alone or beside the unreadable ones. *)
Anything == {{}, Torn, Alien}

(* Writers are interchangeable. *)
Symmetry == Permutations(Writer)
=============================================================================
