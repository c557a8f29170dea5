-------------------------- MODULE MCSessionManager --------------------------
(* Small instances of SessionManager for TLC. *)
EXTENDS SessionManager, TLC

\* Requests are interchangeable, and so are keys.
Symmetry == Permutations(Requests) \cup Permutations(Keys)
=============================================================================
