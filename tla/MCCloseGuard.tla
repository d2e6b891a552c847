----------------------------- MODULE MCCloseGuard -----------------------------
(* CloseGuard with a few threads and handles: see guard.cfg.  Ctrl-C tells   *)
(* the main thread apart from the others, so threads are not interchangeable.*)
EXTENDS CloseGuard
=============================================================================
