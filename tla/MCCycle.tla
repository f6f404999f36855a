------------------------------- MODULE MCCycle -------------------------------
(* The engine under its lock, on the fleet of MCTargets.                    *)
EXTENDS Cycle, MCTargets

AllPolicies == PoliciesOver(Specs, "disk", NoSpec)
=============================================================================
