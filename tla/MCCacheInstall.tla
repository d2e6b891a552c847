---------------------------- MODULE MCCacheInstall ----------------------------
(* CacheInstall with a few processes: see the .cfg files for the bounds. *)
EXTENDS CacheInstall, TLC

(* Processes are interchangeable: sound for the safety runs. *)
Symmetry == Permutations(Installer)
=============================================================================
