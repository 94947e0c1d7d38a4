------------------------------ MODULE MCDaemon ------------------------------
(* Daemon on a few handles, sessions and events.                           *)
EXTENDS Daemon, TLC

\* Handles are interchangeable, and so are activations.
Symmetry == Permutations(Handle) \cup Permutations(Target)
=============================================================================
