-------------------------- MODULE MCCaseClipboard --------------------------
(* Constants for the runs of CaseClipboard. *)
EXTENDS CaseClipboard, TLC

CONSTANTS ann, bob

(* Nothing distinguishes one user from another. *)
SomeUser == Permutations(Users)
=============================================================================
