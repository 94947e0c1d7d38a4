------------------------ MODULE MCReceiverSession ------------------------
(* ReceiverSession with short queues and few notifications.              *)
EXTENDS ReceiverSession, TLC

\* Handles are interchangeable, and so are slots.
Symmetry == Permutations(Handle) \cup Permutations(Slot)
=============================================================================
