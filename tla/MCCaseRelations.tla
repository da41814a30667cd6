-------------------------- MODULE MCCaseRelations --------------------------
(* Constants for the run of CaseRelations. *)
EXTENDS CaseRelations, TLC

CONSTANTS ann, bob, b1

(* The bug was found in the version that is tested. *)
OneVersion == [b \in Bugs |-> 1]

(* Nothing distinguishes one user from another. *)
SomeUser == Permutations(Users)
=============================================================================
