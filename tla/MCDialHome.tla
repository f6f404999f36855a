----------------------------- MODULE MCDialHome -----------------------------
(* Two targets, so that an approval may be mistaken for the other's.         *)
EXTENDS DialHome

CONSTANTS a, b
TwoTargets == {a, b}
=============================================================================
