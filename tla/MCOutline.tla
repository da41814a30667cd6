----------------------------- MODULE MCOutline -----------------------------
(* Constants for the run of Outline. *)
EXTENDS Outline

CONSTANTS ann, bob, x, y
=============================================================================
