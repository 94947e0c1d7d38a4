-------------------------- MODULE MCHidppSession --------------------------
(* HidppSession on small sets of calls, keys and Close callers.            *)
EXTENDS HidppSession, TLC

\* Exchanges are interchangeable, Sends are, and so are keys and callers of Close.
Symmetry ==
  Permutations(Call \ OneWay) \cup Permutations(OneWay) \cup Permutations(Key)
    \cup Permutations(Closer)
=============================================================================
