----------------------------- MODULE Escalation -----------------------------
(***************************************************************************)
(* The failure counter of one target along its outages, over every ladder  *)
(* that loads.                                                             *)
(***************************************************************************)
EXTENDS Ladder

CONSTANTS Ladders,     \* the lists of remediations a policy file may contain
          MaxFailures  \* bound on the counter, for model checking

ASSUME EscalationAssumption ==
  Ladders \subseteq Seq(StepsOver(Int)) /\ MaxFailures \in Nat

VARIABLES ladder, n
countVars == <<ladder, n>>

CountInit == ladder \in {l \in Ladders : ValidLadder(l)} /\ n = 0

Fail == n < MaxFailures /\ n' = n + 1 /\ UNCHANGED ladder

(* A healthy probe, or a remediation that reported success.                 *)
Clear == n > 0 /\ n' = 0 /\ UNCHANGED ladder

CountNext == Fail \/ Clear

CountSpec == CountInit /\ [][CountNext]_countVars

(* "most-escalated eligible is well-defined" (models.py:66-68): whatever    *)
(* the count, the eligible steps of a ladder that loaded are its first k,   *)
(* so no step is ever selected over a gentler one that is not due yet.      *)
EligibleIsPrefix ==
  Eligible(ladder, n) # {} => Eligible(ladder, n) = 1 .. Selected(ladder, n)

(* No count makes a ladder that loaded run a destructive step unattended    *)
(* (models.py:77-81).                                                       *)
DestructiveNeverAuto ==
  Decision(ladder, n, FALSE) = "auto"
     => ~ ladder[Selected(ladder, n)].destructive
=============================================================================
