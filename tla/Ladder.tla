------------------------------- MODULE Ladder -------------------------------
(***************************************************************************)
(* The escalation ladder of a supervised target: the list of remediations  *)
(* of a TargetPolicy, what load-time validation accepts, and which of its  *)
(* steps the engine selects once n failures have been counted              *)
(* (core/models.py, core/engine.py _select_and_act).                       *)
(***************************************************************************)
EXTENDS Integers, Sequences

Autonomy == {"suggest", "gated", "auto"}

(* A RemediationSpec: what the engine reads of it, and whether the          *)
(* remediation class it names is marked destructive.                        *)
StepsOver(thresholds) ==
  [max_attempts : thresholds, autonomy : Autonomy, destructive : BOOLEAN]

(* _validate_buildable walks the list with `last', the threshold of the     *)
(* step before, which starts at 0.                                          *)
NoLastThreshold(ladder, i) == 0  \* mutant: `last' is never updated
LastThreshold(ladder, i) == IF i = 1 THEN 0 ELSE ladder[i - 1].max_attempts

ValidUnlessInverted(ladder) ==   \* mutant: destructive steps may be unattended
  \A i \in DOMAIN ladder : ladder[i].max_attempts >= LastThreshold(ladder, i)

ValidLadder(ladder) ==
  \A i \in DOMAIN ladder :
     /\ ~ (ladder[i].destructive /\ ladder[i].autonomy = "auto")
     /\ ladder[i].max_attempts >= LastThreshold(ladder, i)

(* The steps whose threshold n failures reach, and the last of them.        *)
EligibleTooLate(ladder, n) ==   \* mutant: one failure too many
  {i \in DOMAIN ladder : n > ladder[i].max_attempts}
EligibleTooEarly(ladder, n) ==  \* mutant: one failure too few
  {i \in DOMAIN ladder : n + 1 >= ladder[i].max_attempts}

Eligible(ladder, n) == {i \in DOMAIN ladder : n >= ladder[i].max_attempts}

Selected(ladder, n) ==
  CHOOSE i \in Eligible(ladder, n) : \A j \in Eligible(ladder, n) : j <= i

(* What _select_and_act decides before it consults an approver: the         *)
(* autonomy of the selected step is the decision when nothing blocks it.    *)
(* "waiting" also stands for a target without remediations.                 *)
DecisionFrozenRuns(ladder, n, frozen) ==  \* mutant: the freeze is not looked at
  IF Eligible(ladder, n) = {} THEN "waiting"
  ELSE ladder[Selected(ladder, n)].autonomy

DecisionGatedRuns(ladder, n, frozen) ==   \* mutant: gated is taken for auto
  IF Eligible(ladder, n) = {} THEN "waiting"
  ELSE IF frozen THEN "frozen"
  ELSE IF ladder[Selected(ladder, n)].autonomy = "gated" THEN "auto"
  ELSE ladder[Selected(ladder, n)].autonomy

Decision(ladder, n, frozen) ==
  IF Eligible(ladder, n) = {} THEN "waiting"
  ELSE IF frozen THEN "frozen"
  ELSE ladder[Selected(ladder, n)].autonomy
=============================================================================
