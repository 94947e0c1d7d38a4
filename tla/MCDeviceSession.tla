------------------------- MODULE MCDeviceSession -------------------------
(* DeviceSession with two goroutines that look up two features.           *)
EXTENDS DeviceSession, TLC

Symmetry == Permutations(User) \cup Permutations(Feature)
=============================================================================
