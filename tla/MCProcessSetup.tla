--------------------------- MODULE MCProcessSetup ---------------------------
(* ProcessSetup on a small process: see the .cfg files for the bounds. *)
EXTENDS ProcessSetup, TLC

(* Threads, registries and images are interchangeable: symmetry is sound for *)
(* the safety runs.                                                          *)
Symmetry == Permutations(Thread) \cup Permutations(Image) \cup Permutations(Registry)
=============================================================================
