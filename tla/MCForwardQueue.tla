--------------------------- MODULE MCForwardQueue ---------------------------
(* Instances of ForwardQueue for TLC. *)
EXTENDS ForwardQueue, TLC

PusherSymmetry == Permutations(Pushers)
=============================================================================
