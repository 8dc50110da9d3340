-------------------------- MODULE MCCandidateInbox --------------------------
(* Instances of CandidateInbox for TLC. *)
EXTENDS CandidateInbox, TLC

Symmetry == Permutations(Requests)
=============================================================================
