---------------------------- MODULE MCApplyPath ----------------------------
(* Instances of ApplyPath for TLC. *)
EXTENDS ApplyPath

CONSTANTS w1, w2, other
=============================================================================
