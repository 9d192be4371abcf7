------------------------------- MODULE MCChain -------------------------------
(* Instances of ChainService for TLC. *)
EXTENDS ChainProperties, TLC

\* Visitors are alike, and so are sentences.  Used without liveness only.
Alike == Permutations(Visitors) \cup Permutations(Acts)
=============================================================================
