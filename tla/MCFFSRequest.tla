---------------------------- MODULE MCFFSRequest ----------------------------
(* Instances for FFSRequest. *)
EXTENDS FFSRequest, TLC

Symmetric == Permutations(Irps) \cup Permutations(Contexts)
=============================================================================
