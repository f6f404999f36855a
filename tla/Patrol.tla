------------------------------- MODULE Patrol -------------------------------
(***************************************************************************)
(* One target from the command of its probe to the command of its          *)
(* remediation: the engine's supervision of it (mode "patrol"), and        *)
(* `spero heal' (mode "heal"), which walks the ladder whatever the counter *)
(* says.  Mode "direct" is a caller of run_local, or of a provider.        *)
(***************************************************************************)
EXTENDS Escalation, Command, Probes, Remediations

CONSTANTS
  Setups,   \* what is patrolled
  Bodies,   \* the texts the commands of each type of probe may print
  Answers,  \* of the language model, as Approves reads them
  Nobody    \* no answer of a command yet

(* A target: its probe, its ladder with the remediations the steps name,    *)
(* how commands run, and who approves.  Nobody asks for retries on timeout  *)
(* but a caller of run_local.                                               *)
ASSUME PatrolAssumption ==
  /\ Answers \subseteq Seq(Seq(STRING))
  /\ \A s \in Setups :
      /\ s.ladder \in Ladders /\ s.call \in CallType
      /\ s.call.again => s.call.runner = "sync"
      /\ s.frozen \in BOOLEAN
      /\ s.mode \in {"patrol", "heal", "direct"}
      /\ s.approver \in {"deny_all", "ai", "human"}
      /\ \A i \in DOMAIN s.ladder : s.ladder[i].max_attempts <= MaxFailures

(* What a probe compares as a number is one: its constructor and the parser *)
(* of df call int() (kubernetes.py:139, host.py:89, 128), and the time left *)
(* on a certificate is a timedelta (kubernetes.py:173).  Conditions are a   *)
(* list of pairs.                                                           *)
ASSUME NumbersAssumption ==
  /\ \A s \in Setups : /\ s.probe.type = "cert-expiry" => s.probe.days \in Int
                       /\ s.probe.type = "disk" => s.probe.threshold_pct \in Int
  /\ \A b \in Bodies["cert-expiry"] \ {NotJson, NotObject} : b.hours \in Int
  /\ Bodies["disk"] \subseteq Seq(Seq(Int \cup {NoValue}))
  /\ \A b \in Bodies["keda-scaledobject"] \ {NotJson, NotObject} :
       b.conditions \in Seq([type : STRING, status : STRING])

VARIABLES
  setup,    \* the target, how its commands run and who approves
  phase,    \* what the supervision is at
  reply,    \* the answer the probe judges
  verdict,  \* and what it makes of it
  step,     \* the remediation selected
  answer    \* the approver's answer about it

patrolVars == <<setup, phase, reply, verdict, step, answer>>
vars == <<ladder, n, commandVars, patrolVars>>

Yes == << <<"yes">> >>

(* No output, as the probe of each type reads it.                           *)
Silence(type) ==
  CASE type \in {"port", "disk"} -> << >>
    [] type = "command"           -> {}
    [] type = "usage"             -> [pod \in {} |-> NoValue]
    [] OTHER                      -> NotJson

(* What an approver may answer: deny_all, the model, a human.               *)
AnswersOf(approver) ==
  CASE approver = "deny_all" -> {NoAnswer}
    [] approver = "ai"       -> Answers
    [] approver = "human"    -> {NoAnswer, Yes}

PatrolTypeOK ==
  /\ phase \in {"idle", "calling", "checking", "checked once", "rechecking",
                "judged", "asking", "applying"}
  /\ verdict \in {"healthy", "unhealthy", "raises"}
  /\ step \in 0 .. Len(ladder) + 1
  /\ phase = "applying" => step \in DOMAIN ladder /\ Len(setup.kinds) = Len(ladder)

TypeOK == CommandTypeOK /\ PatrolTypeOK /\ n \in 0 .. MaxFailures

(* _validate_buildable: the probe can be built, and the ladder is coherent. *)
Loads(s) ==
  /\ Buildable(s.probe)
  /\ ValidLadder(s.ladder)
  /\ Len(s.kinds) = Len(s.ladder)
  /\ \A i \in DOMAIN s.ladder :
       CanBuild(s.kinds[i]) /\ s.ladder[i].destructive = s.kinds[i].class.destructive

Init ==
  /\ setup \in {s \in Setups : Loads(s)}
  /\ ladder = setup.ladder /\ n = 0
  /\ CommandInit
  /\ phase = "idle" /\ reply = Nobody /\ verdict = "healthy"
  /\ step = 0 /\ answer = NoAnswer

-----------------------------------------------------------------------------
(* Probe.check.                                                             *)

NeedsNoCommand == setup.probe.type = "cert-expiry" /\ ~ setup.probe.certs

(* heal refuses a frozen policy.                                            *)
StartCheck ==
  /\ phase = "idle" /\ ~ NeedsNoCommand
  /\ setup.mode = "heal" => ~ setup.frozen
  /\ BeginCall(setup.call)
  /\ phase' = IF setup.mode = "direct" THEN "calling" ELSE "checking"
  /\ reply' = Nobody /\ answer' = NoAnswer /\ step' = 0
  /\ UNCHANGED <<ladder, n, setup, verdict>>

(* What may be in stdout: nothing of a command that timed out or never ran. *)
Printed(type) ==
  IF evidence = "none" THEN {Silence(type)} ELSE Bodies[type]

(* The verdict on an answer; the caller looks at it next.                   *)
Conclude(r) ==
  /\ reply' = r /\ verdict' = Verdict(setup.probe, r)
  /\ phase' = "judged"

CheckWithoutCommand ==
  /\ phase = "idle" /\ NeedsNoCommand
  /\ Conclude([rc |-> -1, body |-> NoValue])
  /\ answer' = NoAnswer /\ step' = 0
  /\ UNCHANGED <<ladder, n, setup, commandVars>>

CommandAnswers ==
  /\ phase = "checking" /\ pc = "done" /\ setup.probe.type # "resource-usage"
  /\ CollectResult
  /\ \E b \in Printed(setup.probe.type) : Conclude([rc |-> rc, body |-> b])
  /\ UNCHANGED <<ladder, n, setup, step, answer>>

(* resource-usage asks for the usage first, and for the requests only if    *)
(* there is any.                                                            *)
UsageAnswers ==
  /\ phase = "checking" /\ pc = "done" /\ setup.probe.type = "resource-usage"
  /\ CollectResult
  /\ \E u \in Printed("usage") :
       LET first == [rc |-> rc, body |-> u]
       IN  IF rc = 0 /\ TopParses(u) /\ DOMAIN u # {}
           THEN /\ reply' = [rc |-> rc, body |-> NoValue, first |-> first]
                /\ phase' = "checked once"
                /\ UNCHANGED verdict
           ELSE Conclude([rc |-> rc, body |-> NoValue, first |-> first])
  /\ UNCHANGED <<ladder, n, setup, step, answer>>

AskForRequests ==
  /\ phase = "checked once" /\ phase' = "rechecking"
  /\ BeginCall(setup.call)
  /\ UNCHANGED <<ladder, n, setup, reply, verdict, step, answer>>

RequestsAnswer ==
  /\ phase = "rechecking" /\ pc = "done"
  /\ CollectResult
  /\ \E b \in Printed("resource-usage") :
       Conclude([rc |-> rc, body |-> b, first |-> reply.first])
  /\ UNCHANGED <<ladder, n, setup, step, answer>>

CheckRaises ==
  /\ phase \in {"checking", "rechecking"} /\ pc = "raised"
  /\ CollectResult
  /\ verdict' = "raises" /\ phase' = "judged"
  /\ UNCHANGED <<ladder, n, setup, reply, step, answer>>

-----------------------------------------------------------------------------
(* The engine: _supervise_inner and _select_and_act.                        *)

Rest == phase' = "idle" /\ step' = 0 /\ UNCHANGED <<answer, commandVars>>

ApplyCall == [setup.call EXCEPT !.quoted = TRUE, !.bounded = TRUE]

(* Remediation.apply up to its command.  What raises ends the supervision.  *)
StartApply(i) ==
  IF ApplyRaises(setup.kinds[i])
  THEN phase' = "idle" /\ step' = 0 /\ UNCHANGED commandVars
  ELSE phase' = "applying" /\ step' = i /\ BeginCall(ApplyCall)

Act(k) ==
  LET decision == Decision(ladder, k, setup.frozen)
      i        == Selected(ladder, k)
  IN  \/ decision \in {"waiting", "frozen", "suggest"} /\ Rest
      \/ decision = "auto" /\ StartApply(i) /\ UNCHANGED answer
      \/ /\ decision = "gated"
         /\ \E a \in AnswersOf(setup.approver) :
              /\ answer' = a
              /\ IF Approves(a) THEN StartApply(i)
                 ELSE phase' = "idle" /\ step' = 0 /\ UNCHANGED commandVars

Patrolled == phase = "judged" /\ setup.mode = "patrol"

HealthyAgain ==
  /\ Patrolled /\ verdict = "healthy"
  /\ n' = 0 /\ Rest
  /\ UNCHANGED <<ladder, setup, reply, verdict>>

ProbeRaised ==
  /\ Patrolled /\ verdict = "raises"
  /\ Rest
  /\ UNCHANGED <<ladder, n, setup, reply, verdict>>

BumpOnce(k) == 1  \* mutant: the counter is set, not counted up

(* The count saturates at MaxFailures, where no threshold lies above.       *)
Bump(k) == IF k < MaxFailures THEN k + 1 ELSE MaxFailures

StillDown ==
  LET k == Bump(n)
  IN  /\ Patrolled /\ verdict = "unhealthy"
      /\ n' = k /\ Act(k)
      /\ UNCHANGED <<ladder, setup, reply, verdict>>

Repaired(i) == pc = "done" /\ Success(setup.kinds[i], rc)

ApplyReturns ==
  /\ phase = "applying" /\ setup.mode = "patrol"
  /\ CollectResult
  /\ n' = IF Repaired(step) THEN 0 ELSE n
  /\ phase' = "idle" /\ step' = 0
  /\ UNCHANGED <<ladder, setup, reply, verdict, answer>>

(* The task is cancelled, as by spero top or by Ctrl-C.                     *)
Interrupt ==
  /\ phase \in {"checking", "rechecking", "applying"}
  /\ CancelCall
  /\ phase' = "idle" /\ step' = 0
  /\ UNCHANGED <<ladder, n, setup, reply, verdict, answer>>

DirectCallReturns ==
  /\ phase = "calling" /\ CollectResult
  /\ phase' = "idle"
  /\ UNCHANGED <<ladder, n, setup, reply, verdict, step, answer>>

-----------------------------------------------------------------------------
(* spero heal: _heal_target.                                                *)

HealJudged ==
  /\ phase = "judged" /\ setup.mode = "heal"
  /\ IF verdict = "unhealthy" THEN phase' = "asking" /\ step' = 1
     ELSE phase' = "idle" /\ step' = 0
  /\ UNCHANGED <<ladder, n, commandVars, setup, reply, verdict, answer>>

(* _approve asks about every step, suggested ones too; --yes answers yes.   *)
HealAsks(yes) ==
  /\ phase = "asking" /\ step \in DOMAIN ladder
  /\ answer' = IF yes THEN Yes ELSE NoAnswer
  /\ IF yes THEN StartApply(step)
     ELSE step' = step + 1 /\ UNCHANGED <<phase, commandVars>>
  /\ UNCHANGED <<ladder, n, setup, reply, verdict>>

WalksOn(success) == phase' = "asking" /\ step' = step + 1  \* mutant: goes on anyway

AfterStep(success) ==
  IF success THEN phase' = "idle" /\ step' = 0
  ELSE phase' = "asking" /\ step' = step + 1

HealStepReturns ==
  /\ phase = "applying" /\ setup.mode = "heal"
  /\ CollectResult
  /\ AfterStep(Repaired(step))
  /\ UNCHANGED <<ladder, n, setup, reply, verdict, answer>>

(* "no remediation succeeded"                                               *)
HealGivesUp ==
  /\ phase = "asking" /\ step \notin DOMAIN ladder
  /\ phase' = "idle" /\ step' = 0
  /\ UNCHANGED <<ladder, n, commandVars, setup, reply, verdict, answer>>

-----------------------------------------------------------------------------
Supervision ==
  \/ StartCheck \/ CheckWithoutCommand \/ CommandAnswers
  \/ UsageAnswers \/ AskForRequests \/ RequestsAnswer \/ CheckRaises
  \/ HealthyAgain \/ ProbeRaised \/ StillDown \/ ApplyReturns
  \/ DirectCallReturns
  \/ HealJudged \/ HealStepReturns \/ HealGivesUp
  \/ \E yes \in BOOLEAN : HealAsks(yes)

Running == CommandStep /\ UNCHANGED <<ladder, n, patrolVars>>

Next == Supervision \/ Running \/ Interrupt

Spec == Init /\ [][Next]_vars

(* The interval passes and the coroutine runs on.                           *)
FairSpec == Spec /\ CommandFairness /\ WF_vars(Supervision)

-----------------------------------------------------------------------------
(* A target is called healthy only on the evidence of every command of its  *)
(* probe: each ended by itself with status 0 (or its SSH channel closed     *)
(* without a status, which host.py:107 counts as 0).  A command that timed  *)
(* out, was not found or failed half way heals nothing, whatever it printed *)
(* before.                                                                  *)
HealthyOnEvidence ==
  phase = "judged" /\ verdict = "healthy" =>
    /\ evidence = "exit" \/ (evidence = "silence" /\ setup.call.runner = "ssh")
    /\ rc = 0 /\ reply.rc = 0
    /\ setup.probe.type = "resource-usage" => reply.first.rc = 0

(* Where a probe reads more than one value, a fault in any of them shows in *)
(* the verdict, wherever it stands: a certificate with less than `days'     *)
(* full days, by the hour (kubernetes.py:122-133); one crashed or worn      *)
(* container behind healthy ones (182-190); a paused autoscaler among its   *)
(* conditions (keda.py:29-42); a full disk (host.py:78-82).                 *)
FaultShows(p, body) ==
  CASE p.type = "cert-expiry" -> body.hours < 24 * p.days
    [] p.type = "restart-count" ->
         \E i \in DOMAIN body : \E c \in body[i].containers :
           Crashed(c) \/ c.restarts >= p.max_restarts
    [] p.type = "keda-scaledobject" ->
         \E i \in DOMAIN body.conditions :
           body.conditions[i] \in {Cond("Ready", "False"), Cond("Paused", "True")}
    [] p.type = "disk" ->
         \A i \in DOMAIN body[Len(body)] :
           body[Len(body)][i] \in {NoValue} \cup (p.threshold_pct + 1 .. 100)
    [] OTHER -> FALSE

NoHiddenFault ==
  phase = "judged" /\ verdict = "healthy" => ~ FaultShows(setup.probe, reply.body)

(* The counter goes down only on evidence that the target is well or was    *)
(* acted on (engine.py:190-191, 243-247): a healthy verdict, or a           *)
(* remediation whose command ended with 0, or with pkill's "no process      *)
(* matched"; never on a timeout, a missing binary or a cancelled command.   *)
ClearedOnEvidence ==
  [][ n' < n =>
        \/ phase = "judged" /\ verdict = "healthy"
        \/ /\ phase = "applying" /\ evidence \in {"exit", "silence"}
           /\ rc = 0 \/ (rc = 1 /\ setup.kinds[step].class = KillProcess) ]_vars

(* A destructive remediation runs only after an approver's clear yes: the   *)
(* last line of the answer is one word, and that word affirms               *)
(* (approver.py:29-31, models.py:77-81); in heal, too, where the operator   *)
(* is asked about every step.                                               *)
DestructiveNeedsClearYes ==
  phase = "applying" /\ (setup.kinds[step].class.destructive \/ setup.mode = "heal")
    => /\ setup.mode = "patrol" => setup.approver # "deny_all"
       /\ \E i \in DOMAIN answer :
            i = Len(answer) /\ answer[i] \in {<<w>> : w \in Affirmative}

(* "Walk its remediations" (cli.py:372): heal moves on to the next step     *)
(* only when the one before was declined or did not succeed, so one call    *)
(* repairs a target at most once, and a step is never tried twice.          *)
HealStopsAtSuccess ==
  [][ setup.mode = "heal" /\ step' # step /\ phase # "idle" =>
        \/ phase' = "idle"
        \/ /\ step' = step + 1
           /\ phase = "applying" => pc = "raised" \/ rc # 0 ]_vars

(* "A genuinely still-broken target will re-accumulate failures and         *)
(* escalate" (engine.py:245-246): a target that goes on failing, and whose  *)
(* counter no repair clears, has the last step of its ladder acted on again *)
(* and again, whatever its commands do in between.                          *)
KeepsFailing ==
  /\ <>[](phase = "judged" => verdict = "unhealthy")
  /\ []<>(phase = "judged")
  /\ <>[][n' >= n]_vars

ClimbsUnlessRepaired ==
  ladder # << >> /\ setup.mode = "patrol" /\ KeepsFailing
    => []<>(phase = "judged" /\ verdict = "unhealthy"
             /\ Len(ladder) \in Eligible(ladder, Bump(n)))
=============================================================================
