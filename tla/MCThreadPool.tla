---------------------------- MODULE MCThreadPool ----------------------------
(* Instances of ThreadPool for TLC.  No symmetry: they check liveness.       *)
EXTENDS ThreadPool
=============================================================================
