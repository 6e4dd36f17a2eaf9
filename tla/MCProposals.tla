---------------------------- MODULE MCProposals ----------------------------
(***************************************************************************)
(* Instances of Proposals for TLC: people are interchangeable, and so are  *)
(* requests.                                                               *)
(***************************************************************************)
EXTENDS Proposals, TLC

Symmetry == Permutations(People) \cup Permutations(Requests)
=============================================================================
