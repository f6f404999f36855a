------------------------------ MODULE MCTargets ------------------------------
(* The small fleet the engine is checked on: two names, and three contents  *)
(* a target may have.  "web" escalates from an unattended restart to a      *)
(* gated, destructive step; "disk" from a suggestion to a gated step;       *)
(* "agent" acts only at the second failure, unattended.                     *)
EXTENDS Integers, Sequences

TwoNames == {"a", "b"}
TwoSpecs == {"web", "disk"}

Rung(k, autonomy, destructive) ==
  [max_attempts |-> k, autonomy |-> autonomy, destructive |-> destructive]

TwoLadders ==
  [s \in TwoSpecs |->
     IF s = "web" THEN <<Rung(1, "auto", FALSE), Rung(2, "gated", TRUE)>>
                  ELSE <<Rung(1, "suggest", TRUE), Rung(2, "gated", FALSE)>>]

MixedSpecs == {"disk", "agent"}
MixedLadders ==
  [s \in MixedSpecs |->
     IF s = "disk" THEN TwoLadders[s]
                   ELSE <<Rung(1, "suggest", TRUE), Rung(2, "auto", FALSE)>>]

(* "a" may be any content, or none; "b" is there with the content x or not. *)
PoliciesOver(contents, x, none) ==
  {p \in [frozen : BOOLEAN, targets : [TwoNames -> contents \cup {none}]] :
     p.targets["b"] \in {x, none}}

AllVerdicts == {"healthy", "unhealthy", "raises"}
AllOutcomes == {"ok", "dropped", "raises"}
=============================================================================
