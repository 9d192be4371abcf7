------------------------------ MODULE MCIntake ------------------------------
(* Instances of Intake for TLC. *)
EXTENDS Intake, TLC

\* Requests are alike, and so are addresses and seeds.
Alike == Permutations(Requests) \cup Permutations(Addresses) \cup Permutations(Seeds)
=============================================================================
