------------------------------- MODULE MCWatch -------------------------------
(* The engine under the scheduler, on the fleet of MCTargets.               *)
EXTENDS Watch, MCTargets

AllPolicies == PoliciesOver(Specs, "disk", NoSpec)
=============================================================================
