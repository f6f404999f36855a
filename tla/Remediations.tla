---------------------------- MODULE Remediations ----------------------------
(***************************************************************************)
(* remediations/: what a remediation reports of the command it ran, and    *)
(* ai/approver.py: what the model's answer decides about a gated one.      *)
(***************************************************************************)
EXTENDS Integers, Sequences

(* A class runs one command.  It reports success on these return codes; it  *)
(* may never run unattended if it is destructive; and it may split an       *)
(* argument when it is applied, which load-time validation has not tried.   *)
Remediation(type, destructive) ==
  [type |-> type, destructive |-> destructive, successes |-> {0}, splits |-> FALSE]

RestartService == Remediation("restart", FALSE)
RespawnProcess == [Remediation("respawn", FALSE) EXCEPT !.splits = TRUE]
(* pkill exits 1 when nothing matched, which counts as "already gone".      *)
KillProcess == [Remediation("kill", TRUE) EXCEPT !.successes = {0, 1}]
RotateLogs == Remediation("rotate", TRUE)
RolloutRestart == Remediation("rollout-restart", FALSE)
ScaleDeployment == Remediation("scale", FALSE)
PatchRequests == Remediation("patch-requests", TRUE)
DeletePod == Remediation("delete-pod", TRUE)
UnpauseScaledObject == Remediation("keda-unpause", FALSE)

REMEDIATIONS ==
  {RestartService, RespawnProcess, KillProcess, RotateLogs, RolloutRestart,
   ScaleDeployment, DeletePod, PatchRequests, UnpauseScaledObject}

(* build_remediation: a RemediationSpec names a class, may carry a command  *)
(* that cannot be split, and requests some resources of PatchRequests.      *)
CanBuild(spec) ==
  /\ spec.class \in REMEDIATIONS
  /\ spec.class = PatchRequests => spec.requests # {}

SuccessOfAnyEnd(spec, rc) == rc # 127   \* mutant: only a missing binary is a failure

Success(spec, rc) == rc \in spec.class.successes

ApplyRaises(spec) == spec.class.splits /\ ~ spec.quoted

(* The words of the last line of the model's answer, without blanks, case   *)
(* and trailing punctuation; NoAnswer is an empty answer, an error or a     *)
(* timeout.                                                                 *)
NoAnswer == << >>
Affirmative == {"yes", "approve", "approved"}

ApprovesByPrefix(answer) ==   \* mutant: "yes, but ..." is taken for a yes
  answer # NoAnswer /\ answer[Len(answer)][1] \in Affirmative

(* An answer is a sequence of lines, a line a sequence of words.            *)
Approves(answer) ==
  /\ answer # NoAnswer
  /\ Len(answer[Len(answer)]) = 1
  /\ answer[Len(answer)][1] \in Affirmative
=============================================================================
