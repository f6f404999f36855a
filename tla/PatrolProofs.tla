----------------------------- MODULE PatrolProofs -----------------------------
(***************************************************************************)
(* One target under patrol, for every probe, ladder, approver and runner.  *)
(* Its counter is the one of Escalation, whose theorems come first; CInv   *)
(* says of a command how its return code was come by and what is left of   *)
(* it, and PInv what the supervision may rely on from there.               *)
(***************************************************************************)
EXTENDS Patrol, LadderProofs

LInv == n \in Int /\ ladder \in Seq(StepsOver(Int)) /\ ValidLadder(ladder)

(* Whatever the count, the eligible steps of a ladder that loaded are the   *)
(* first ones up to the selected one (models.py:66-68).                     *)
THEOREM PrefixAlways == CountSpec => []EligibleIsPrefix
<1>1. CountInit => LInv
  BY EscalationAssumption DEF CountInit, LInv
<1>2. LInv /\ [CountNext]_countVars => LInv'
  BY EscalationAssumption DEF LInv, CountNext, Fail, Clear, countVars
<1>3. LInv => EligibleIsPrefix
  BY EligibleStepsAreAPrefix DEF LInv, EligibleIsPrefix
<1> QED BY <1>1, <1>2, <1>3, PTL DEF CountSpec

(* No count makes a ladder that loaded run a destructive step unattended    *)
(* (models.py:77-81).                                                       *)
THEOREM NeverDestructiveUnattended == CountSpec => []DestructiveNeverAuto
<1>1. CountInit => LInv
  BY EscalationAssumption DEF CountInit, LInv
<1>2. LInv /\ [CountNext]_countVars => LInv'
  BY EscalationAssumption DEF LInv, CountNext, Fail, Clear, countVars
<1>3. LInv => DestructiveNeverAuto
  <2> SUFFICES ASSUME LInv, Decision(ladder, n, FALSE) = "auto"
               PROVE  ~ ladder[Selected(ladder, n)].destructive
    BY DEF DestructiveNeverAuto
  <2>1. Eligible(ladder, n) # {} /\ ladder[Selected(ladder, n)].autonomy = "auto"
    BY DEF Decision
  <2>2. Selected(ladder, n) \in DOMAIN ladder
    BY <2>1, SelectedIsEligible DEF LInv, Eligible
  <2> QED BY <2>1, <2>2 DEF LInv, ValidLadder
<1> QED BY <1>1, <1>2, <1>3, PTL DEF CountSpec

-----------------------------------------------------------------------------
(* The runner.                                                              *)

CInv ==
  /\ call \in CallType
  /\ pc \in {"idle", "starting", "running", "killing", "done", "raised"}
  /\ evidence \in {"none", "exit", "silence"}
  /\ evidence = "silence" => call.runner = "ssh"
  /\ pc = "done" /\ evidence = "none" => rc \in {TIMEOUT_RC, NOT_FOUND_RC}
  /\ alive = IF pc \in {"running", "killing"} THEN 1 ELSE 0
  /\ pc = "killing" => call.runner \in Local
  /\ call.runner \in Local => adrift \subseteq {"cancelled"}

LEMMA InitCInv == CommandInit => CInv
BY DEF CommandInit, CInv, NoCall, CallType, Local

LEMMA BeginCInv ==
  ASSUME CInv, NEW c \in CallType, BeginCall(c)
  PROVE  CInv' /\ call' = c /\ pc' \in {"starting", "done", "raised"}
BY DEF CInv, BeginCall, Local, NOT_FOUND_RC, TIMEOUT_RC

LEMMA CollectCInv ==
  ASSUME CInv, CollectResult
  PROVE  CInv' /\ pc' = "idle" /\ UNCHANGED <<call, rc, evidence>>
BY DEF CInv, CollectResult

LEMMA CancelCInv ==
  ASSUME CInv, CancelCall
  PROVE  CInv' /\ pc' = "idle" /\ UNCHANGED call
BY DEF CInv, CancelCall, Local

(* A running command goes on, and is retried, or comes to its end.          *)
LEMMA CommandStepCInv ==
  ASSUME CInv, CommandStep
  PROVE  CInv' /\ UNCHANGED call /\ pc # "idle" /\ pc' # "idle"
<1>1. CASE SpawnFails
  BY <1>1 DEF CInv, SpawnFails, AttemptEnds, TIMEOUT_RC, NOT_FOUND_RC
<1>2. CASE Spawn
  BY <1>2 DEF CInv, Spawn
<1>3. CASE ConnectionLost
  BY <1>3 DEF CInv, ConnectionLost, AttemptEnds, TIMEOUT_RC, NOT_FOUND_RC, Local
<1>4. CASE TimeOut
  BY <1>4 DEF CInv, TimeOut, AttemptEnds, TIMEOUT_RC, NOT_FOUND_RC, Local
<1>5. CASE Reap
  BY <1>5 DEF CInv, Reap, AttemptEnds, TIMEOUT_RC, NOT_FOUND_RC
<1>6. ASSUME NEW code \in ExitCodes, Exits(code)
      PROVE  CInv' /\ UNCHANGED call /\ pc # "idle" /\ pc' # "idle"
  BY <1>6 DEF CInv, Exits, AttemptEnds, Local
<1> QED BY <1>1, <1>2, <1>3, <1>4, <1>5, <1>6 DEF CommandStep

(* When an attempt follows another, the other failed, and not by a timeout  *)
(* unless that was asked for.                                               *)
LEMMA RetriesAreDue ==
  ASSUME CInv, CommandStep, pc' = "starting"
  PROVE  rc' # 0 /\ (rc' = TIMEOUT_RC /\ evidence' = "none" => call.again)
<1>1. CASE SpawnFails
  BY <1>1 DEF SpawnFails, AttemptEnds, TIMEOUT_RC, NOT_FOUND_RC
<1>2. CASE Spawn
  BY <1>2 DEF Spawn
<1>3. CASE ConnectionLost
  BY <1>3 DEF ConnectionLost, AttemptEnds, TIMEOUT_RC, NOT_FOUND_RC
<1>4. CASE TimeOut
  BY <1>4 DEF TimeOut, AttemptEnds
<1>5. CASE Reap
  BY <1>5 DEF CInv, Reap, AttemptEnds, CallType, TIMEOUT_RC
<1>6. ASSUME NEW code \in ExitCodes, Exits(code)
      PROVE  rc' # 0 /\ evidence' = "exit"
  BY <1>6 DEF Exits, AttemptEnds
<1> QED BY <1>1, <1>2, <1>3, <1>4, <1>5, <1>6 DEF CommandStep

-----------------------------------------------------------------------------
(* Verdicts, remediations and approvals.                                    *)

LEMMA HealthyJson ==
  ASSUME NEW r, NEW v, OfJson(r, v) = "healthy"
  PROVE  r.rc = 0
BY DEF OfJson

(* No probe calls a target healthy whose command did not end with 0.        *)
LEMMA HealthyVerdict ==
  ASSUME NEW p, NEW r, Buildable(p), Verdict(p, r) = "healthy"
  PROVE  /\ p.type # "resource-usage" => r.rc = 0
         /\ p.type = "cert-expiry" => p.certs
         /\ p.type = "resource-usage" =>
              r.first.rc = 0 /\ (DOMAIN r.first.body # {} => r.rc = 0)
<1>1. p.type \in Types
  BY DEF Buildable
<1>2. CASE p.type \in {"pod", "deployment", "pvc", "restart-count", "knative-service",
                       "keda-scaledobject", "elpio-service", "elpio-function", "elpio-task"}
  BY <1>2, HealthyJson
     DEF Verdict, PodReadyProbe, DeploymentProbe, PvcProbe, RestartCountProbe,
         KnativeServiceProbe, KedaScaledObjectProbe, ElpioServiceProbe,
         ElpioFunctionProbe, ElpioTaskProbe
<1>3. CASE p.type = "cert-expiry"
  BY <1>3, HealthyJson DEF Verdict, CertExpiryProbe
<1>4. CASE p.type = "resource-usage"
  BY <1>4, HealthyJson DEF Verdict, ResourceUsageProbe
<1>5. CASE p.type \in {"process", "systemd", "postgres", "kafka", "port", "disk", "http",
                       "command", "trino", "clickhouse"}
  BY <1>5 DEF Verdict, ProcessProbe, SystemdProbe, PostgresProbe, KafkaProbe, PortProbe,
              DiskProbe, HttpProbe, CommandProbe, TrinoProbe, ClickHouseProbe, Judged
<1> QED BY <1>1, <1>2, <1>3, <1>4, <1>5 DEF Types

LEMMA Successes ==
  ASSUME NEW class \in REMEDIATIONS
  PROVE  /\ 0 \in class.successes /\ class.successes \subseteq {0, 1}
         /\ 1 \in class.successes => class = KillProcess
BY DEF REMEDIATIONS, Remediation, RestartService, RespawnProcess, KillProcess, RotateLogs,
       RolloutRestart, ScaleDeployment, DeletePod, PatchRequests, UnpauseScaledObject

ClearYes(a) == \E i \in DOMAIN a : i = Len(a) /\ a[i] \in {<<w>> : w \in Affirmative}

LEMMA ApprovalIsClear ==
  ASSUME NEW a \in Seq(Seq(STRING)), Approves(a)
  PROVE  ClearYes(a)
<1> DEFINE l == a[Len(a)]
<1>1. Len(a) \in DOMAIN a /\ Len(a) \in Nat
  BY DEF Approves, NoAnswer
<1>2. l \in Seq(STRING) /\ Len(l) = 1 /\ l[1] \in Affirmative
  BY <1>1 DEF Approves
<1>3. l = <<l[1]>>
  BY <1>2
<1> QED BY <1>1, <1>2, <1>3 DEF ClearYes

LEMMA YesIsClear == ClearYes(Yes)
BY DEF ClearYes, Yes, Affirmative

LEMMA AnswersAreTexts ==
  ASSUME NEW s \in Setups, NEW a \in AnswersOf(s.approver), Approves(a)
  PROVE  s.approver # "deny_all" /\ ClearYes(a)
<1>1. s.approver \in {"deny_all", "ai", "human"} /\ Answers \subseteq Seq(Seq(STRING))
  BY PatrolAssumption DEF PatrolAssumption
<1>2. a # NoAnswer
  BY DEF Approves
<1>3. s.approver # "deny_all"
  BY <1>2 DEF AnswersOf
<1>4. a \in Answers \/ a = Yes
  BY <1>1, <1>2, <1>3 DEF AnswersOf
<1> QED BY <1>1, <1>3, <1>4, ApprovalIsClear, YesIsClear

-----------------------------------------------------------------------------
(* The supervision.                                                         *)

Calls == {"calling", "checking", "rechecking", "applying"}

(* The first answer of resource-usage, while the second is asked for.       *)
FirstAnswer ==
  /\ setup.probe.type = "resource-usage"
  /\ reply.first.rc = 0 /\ DOMAIN reply.first.body # {}

PInv ==
  /\ CInv
  /\ setup \in Setups /\ Loads(setup) /\ ladder = setup.ladder
  /\ n \in 0 .. MaxFailures
  /\ phase \in Calls \cup {"idle", "checked once", "judged", "asking"}
  /\ pc # "idle" <=> phase \in Calls
  /\ phase \notin {"asking", "applying"} => step = 0
  /\ phase \in {"checking", "rechecking"} => call = setup.call
  /\ phase \in {"checked once", "rechecking"} => FirstAnswer
  /\ phase = "asking" => setup.mode = "heal"
  /\ phase = "applying" => step \in DOMAIN ladder
  /\ HealthyOnEvidence
  /\ DestructiveNeedsClearYes

(* What a setup that loads is made of.                                      *)
LEMMA SetupFacts ==
  ASSUME setup \in Setups, Loads(setup), ladder = setup.ladder
  PROVE  /\ setup.call \in CallType /\ ApplyCall \in CallType
         /\ setup.mode \in {"patrol", "heal", "direct"}
         /\ Buildable(setup.probe)
         /\ ladder \in Ladders /\ ladder \in Seq(StepsOver(Int)) /\ ValidLadder(ladder)
         /\ \A i \in DOMAIN ladder :
              /\ setup.kinds[i].class \in REMEDIATIONS
              /\ ladder[i].destructive = setup.kinds[i].class.destructive
<1>1. setup.call \in CallType /\ ApplyCall \in CallType
  BY PatrolAssumption DEF PatrolAssumption, ApplyCall, CallType
<1> QED
  BY <1>1, PatrolAssumption, EscalationAssumption
     DEF PatrolAssumption, EscalationAssumption, Loads, CanBuild

LEMMA InitPInv == Init => PInv
BY InitCInv, EscalationAssumption
   DEF Init, PInv, Calls, CommandInit, HealthyOnEvidence, DestructiveNeedsClearYes,
       EscalationAssumption

(* A step out of the calls and judgements owes less.                        *)
LEMMA AtEase ==
  ASSUME CInv', pc' = "idle", phase' \in {"idle", "asking"},
         phase' = "asking" => setup.mode = "heal", phase' = "idle" => step' = 0,
         setup \in Setups, Loads(setup), ladder = setup.ladder,
         UNCHANGED <<setup, ladder>>, n' \in 0 .. MaxFailures
  PROVE  PInv'
BY DEF PInv, Calls, Loads, HealthyOnEvidence, DestructiveNeedsClearYes

LEMMA RunningPInv ==
  ASSUME PInv, Running
  PROVE  PInv'
<1>1. CInv' /\ call' = call /\ pc # "idle" /\ pc' # "idle"
  BY CommandStepCInv DEF PInv, Running
<1> QED
  BY <1>1 DEF PInv, Running, patrolVars, Calls, Loads, FirstAnswer, HealthyOnEvidence,
              DestructiveNeedsClearYes

LEMMA StartCheckPInv ==
  ASSUME PInv, StartCheck
  PROVE  PInv'
<1>1. CInv' /\ call' = setup.call /\ pc' # "idle"
  BY BeginCInv, SetupFacts DEF PInv, StartCheck
<1> QED
  BY <1>1 DEF PInv, StartCheck, Calls, Loads, HealthyOnEvidence, DestructiveNeedsClearYes

(* The judgement of an answer.                                              *)
LEMMA ConcludePInv ==
  ASSUME PInv, NEW r, Conclude(r), CInv', pc' = "idle", UNCHANGED <<ladder, n, setup>>,
         step' = 0,
         verdict' = "healthy" =>
           /\ evidence' = "exit" \/ (evidence' = "silence" /\ setup.call.runner = "ssh")
           /\ rc' = 0 /\ r.rc = 0
           /\ setup.probe.type = "resource-usage" => r.first.rc = 0
  PROVE  PInv'
BY DEF PInv, Conclude, Calls, Loads, HealthyOnEvidence, DestructiveNeedsClearYes

(* A return code of 0 is evidence.                                          *)
LEMMA ZeroIsEvidence ==
  ASSUME PInv, phase \in {"checking", "rechecking"}, pc = "done", rc = 0
  PROVE  evidence = "exit" \/ (evidence = "silence" /\ setup.call.runner = "ssh")
<1>1. CInv /\ call = setup.call
  BY DEF PInv
<1>2. evidence # "none"
  BY <1>1 DEF CInv, TIMEOUT_RC, NOT_FOUND_RC
<1> QED
  BY <1>1, <1>2 DEF CInv

LEMMA CheckWithoutCommandPInv ==
  ASSUME PInv, CheckWithoutCommand
  PROVE  PInv'
<1>1. verdict' # "healthy"
  BY HealthyVerdict, SetupFacts DEF PInv, CheckWithoutCommand, Conclude, NeedsNoCommand
<1>2. CInv' /\ pc' = "idle"
  BY DEF PInv, CheckWithoutCommand, CInv, commandVars, Calls
<1> QED
  BY <1>1, <1>2, ConcludePInv DEF CheckWithoutCommand

LEMMA CommandAnswersPInv ==
  ASSUME PInv, CommandAnswers
  PROVE  PInv'
<1>1. CInv' /\ pc' = "idle" /\ UNCHANGED <<rc, evidence>>
  BY CollectCInv DEF PInv, CommandAnswers
<1>2. PICK b : Conclude([rc |-> rc, body |-> b])
  BY DEF CommandAnswers
<1>3. verdict' = "healthy" => rc = 0
  BY <1>2, HealthyVerdict, SetupFacts DEF PInv, CommandAnswers, Conclude
<1>4. step' = 0
  BY DEF PInv, CommandAnswers
<1> QED
  BY <1>1, <1>2, <1>3, <1>4, ZeroIsEvidence, ConcludePInv DEF CommandAnswers

LEMMA UsageAnswersPInv ==
  ASSUME PInv, UsageAnswers
  PROVE  PInv'
<1>1. CInv' /\ pc' = "idle" /\ UNCHANGED <<rc, evidence>>
  BY CollectCInv DEF PInv, UsageAnswers
<1>2. PICK u : LET first == [rc |-> rc, body |-> u]
               IN  IF rc = 0 /\ TopParses(u) /\ DOMAIN u # {}
                   THEN /\ reply' = [rc |-> rc, body |-> NoValue, first |-> first]
                        /\ phase' = "checked once"
                        /\ UNCHANGED verdict
                   ELSE Conclude([rc |-> rc, body |-> NoValue, first |-> first])
  BY DEF UsageAnswers
<1>3. step' = 0 /\ UNCHANGED <<ladder, n, setup>> /\ setup.probe.type = "resource-usage"
      /\ phase = "checking" /\ pc = "done"
  BY DEF PInv, UsageAnswers
<1>4. CASE rc = 0 /\ TopParses(u) /\ DOMAIN u # {}
  <2>1. /\ reply' = [rc |-> rc, body |-> NoValue, first |-> [rc |-> rc, body |-> u]]
        /\ phase' = "checked once"
    BY <1>2, <1>4
  <2>2. FirstAnswer'
    BY <1>3, <1>4, <2>1 DEF FirstAnswer
  <2> QED
    BY <1>1, <1>3, <2>1, <2>2
       DEF PInv, Calls, Loads, HealthyOnEvidence, DestructiveNeedsClearYes
<1>5. CASE ~ (rc = 0 /\ TopParses(u) /\ DOMAIN u # {})
  <2> DEFINE r == [rc |-> rc, body |-> NoValue, first |-> [rc |-> rc, body |-> u]]
  <2>1. Conclude(r)
    BY <1>2, <1>5
  <2>2. verdict' = "healthy" => rc = 0
    BY <1>3, <2>1, HealthyVerdict, SetupFacts DEF PInv, Conclude
  <2> QED
    BY <1>1, <1>3, <2>1, <2>2, ZeroIsEvidence, ConcludePInv
<1> QED BY <1>4, <1>5

LEMMA AskForRequestsPInv ==
  ASSUME PInv, AskForRequests
  PROVE  PInv'
<1>1. CInv' /\ call' = setup.call /\ pc' # "idle"
  BY BeginCInv, SetupFacts DEF PInv, AskForRequests
<1> QED
  BY <1>1 DEF PInv, AskForRequests, FirstAnswer, Calls, Loads, HealthyOnEvidence,
              DestructiveNeedsClearYes

LEMMA RequestsAnswerPInv ==
  ASSUME PInv, RequestsAnswer
  PROVE  PInv'
<1>1. CInv' /\ pc' = "idle" /\ UNCHANGED <<rc, evidence>>
  BY CollectCInv DEF PInv, RequestsAnswer
<1>2. PICK b : Conclude([rc |-> rc, body |-> b, first |-> reply.first])
  BY DEF RequestsAnswer
<1> DEFINE r == [rc |-> rc, body |-> b, first |-> reply.first]
<1>3. /\ FirstAnswer /\ step' = 0 /\ UNCHANGED <<ladder, n, setup>>
      /\ phase = "rechecking" /\ pc = "done"
  BY DEF PInv, RequestsAnswer
<1>5. Conclude(r)
  BY <1>2
<1>6. verdict' = "healthy" => rc = 0
  BY <1>3, <1>5, HealthyVerdict, SetupFacts DEF PInv, Conclude, FirstAnswer
<1>7. r.first.rc = 0 /\ r.rc = rc
  BY <1>3 DEF FirstAnswer
<1> HIDE DEF r
<1> QED
  BY <1>1, <1>3, <1>5, <1>6, <1>7, ZeroIsEvidence, ConcludePInv

LEMMA CheckRaisesPInv ==
  ASSUME PInv, CheckRaises
  PROVE  PInv'
<1>1. CInv' /\ pc' = "idle"
  BY CollectCInv DEF PInv, CheckRaises
<1> QED
  BY <1>1 DEF PInv, CheckRaises, Calls, Loads, HealthyOnEvidence, DestructiveNeedsClearYes
-----------------------------------------------------------------------------
(* The remediation.                                                         *)

LEMMA StartApplyPInv ==
  ASSUME PInv, phase \in {"judged", "asking"}, NEW i \in DOMAIN ladder, StartApply(i),
         UNCHANGED <<ladder, setup>>, n' \in 0 .. MaxFailures,
         setup.kinds[i].class.destructive \/ setup.mode = "heal" =>
           /\ setup.mode = "patrol" => setup.approver # "deny_all"
           /\ ClearYes(answer')
  PROVE  PInv'
<1>1. pc = "idle" /\ CInv /\ setup \in Setups /\ Loads(setup) /\ ladder = setup.ladder
  BY DEF PInv, Calls
<1>2. CASE ApplyRaises(setup.kinds[i])
  <2>1. CInv' /\ phase' = "idle" /\ step' = 0 /\ pc' = "idle"
    BY <1>1, <1>2 DEF StartApply, CInv, commandVars
  <2> QED BY <1>1, <2>1, AtEase
<1>3. CASE ~ ApplyRaises(setup.kinds[i])
  <2>1. phase' = "applying" /\ step' = i /\ BeginCall(ApplyCall)
    BY <1>3 DEF StartApply
  <2>2. CInv' /\ pc' # "idle"
    BY <1>1, <2>1, BeginCInv, SetupFacts
  <2> QED
    BY <1>1, <2>1, <2>2
       DEF PInv, Calls, Loads, HealthyOnEvidence, DestructiveNeedsClearYes, ClearYes
<1> QED BY <1>2, <1>3

LEMMA RestPInv ==
  ASSUME PInv, phase \notin Calls, Rest, UNCHANGED <<ladder, setup>>,
         n' \in 0 .. MaxFailures
  PROVE  PInv'
<1>1. CInv' /\ pc' = "idle" /\ phase' = "idle" /\ step' = 0
  BY DEF PInv, CInv, Rest, commandVars
<1>2. setup \in Setups /\ Loads(setup) /\ ladder = setup.ladder
  BY DEF PInv
<1> QED BY <1>1, <1>2, AtEase

LEMMA ZeroCounts == 0 \in 0 .. MaxFailures
BY EscalationAssumption DEF EscalationAssumption

LEMMA BumpCounts ==
  ASSUME n \in 0 .. MaxFailures
  PROVE  Bump(n) \in 0 .. MaxFailures /\ (Bump(n) = n \/ (n < MaxFailures /\ Bump(n) = n + 1))
BY EscalationAssumption DEF EscalationAssumption, Bump

LEMMA StillDownPInv ==
  ASSUME PInv, StillDown
  PROVE  PInv'
<1> DEFINE k == Bump(n)
           i == Selected(ladder, k)
<1>1. /\ setup \in Setups /\ Loads(setup) /\ ladder = setup.ladder
      /\ phase = "judged" /\ setup.mode = "patrol" /\ phase \notin Calls
      /\ UNCHANGED <<ladder, setup>>
  BY DEF PInv, StillDown, Patrolled, Calls
<1>2. n' = k /\ n' \in 0 .. MaxFailures /\ Act(k)
  BY BumpCounts DEF PInv, StillDown
<1>3. CASE Rest
  BY <1>1, <1>2, <1>3, RestPInv
<1>4. ASSUME Decision(ladder, k, setup.frozen) \in {"auto", "gated"}
      PROVE  /\ i \in DOMAIN ladder
             /\ ladder[i].autonomy = Decision(ladder, k, setup.frozen)
  <2>1. Eligible(ladder, k) # {} /\ ladder[i].autonomy = Decision(ladder, k, setup.frozen)
    BY <1>4 DEF Decision
  <2>2. ladder \in Seq(StepsOver(Int))
    BY <1>1, SetupFacts
  <2>3. i \in Eligible(ladder, k)
    BY <2>1, <2>2, SelectedIsEligible
  <2> QED BY <2>1, <2>3 DEF Eligible
<1>5. CASE Decision(ladder, k, setup.frozen) = "auto" /\ StartApply(i)
  <2>1. i \in DOMAIN ladder /\ ladder[i].autonomy = "auto"
    BY <1>4, <1>5
  <2>2. ~ setup.kinds[i].class.destructive
    BY <1>1, <2>1, SetupFacts DEF ValidLadder
  <2> HIDE DEF k, i
  <2> QED BY <1>1, <1>2, <1>5, <2>1, <2>2, StartApplyPInv
<1>6. CASE /\ Decision(ladder, k, setup.frozen) = "gated"
           /\ \E a \in AnswersOf(setup.approver) :
                /\ answer' = a
                /\ IF Approves(a) THEN StartApply(i)
                   ELSE phase' = "idle" /\ step' = 0 /\ UNCHANGED commandVars
  <2>1. PICK a \in AnswersOf(setup.approver) :
               /\ answer' = a
               /\ IF Approves(a) THEN StartApply(i)
                  ELSE phase' = "idle" /\ step' = 0 /\ UNCHANGED commandVars
    BY <1>6
  <2>2. i \in DOMAIN ladder
    BY <1>4, <1>6
  <2>3. CASE Approves(a)
    <3>1. setup.approver # "deny_all" /\ ClearYes(answer')
      BY <1>1, <2>1, <2>3, AnswersAreTexts
    <3>2. StartApply(i)
      BY <2>1, <2>3
    <3> HIDE DEF k, i
    <3> QED BY <1>1, <1>2, <2>2, <3>1, <3>2, StartApplyPInv
  <2>4. CASE ~ Approves(a)
    <3>1. phase' = "idle" /\ step' = 0 /\ CInv' /\ pc' = "idle"
      BY <1>1, <2>1, <2>4 DEF PInv, CInv, commandVars
    <3> QED BY <1>1, <1>2, <3>1, AtEase
  <2> QED BY <2>3, <2>4
<1> QED BY <1>2, <1>3, <1>5, <1>6 DEF Act

LEMMA VerdictReadPInv ==
  ASSUME PInv, HealthyAgain \/ ProbeRaised
  PROVE  PInv'
<1>1. /\ phase \notin Calls /\ Rest /\ UNCHANGED <<ladder, setup>>
      /\ n' \in 0 .. MaxFailures
  BY ZeroCounts DEF PInv, HealthyAgain, ProbeRaised, Patrolled, Calls
<1> QED BY <1>1, RestPInv

(* The calls that end, and the ones that are cancelled.                     *)
LEMMA CallEndsPInv ==
  ASSUME PInv, ApplyReturns \/ DirectCallReturns \/ Interrupt \/ HealStepReturns
  PROVE  PInv'
<1>1. CInv' /\ pc' = "idle"
  BY CollectCInv, CancelCInv
     DEF PInv, ApplyReturns, DirectCallReturns, Interrupt, HealStepReturns
<1>2. /\ setup \in Setups /\ Loads(setup) /\ ladder = setup.ladder
      /\ UNCHANGED <<ladder, setup>> /\ n' \in 0 .. MaxFailures
  BY ZeroCounts
     DEF PInv, ApplyReturns, DirectCallReturns, Interrupt, HealStepReturns
<1>3. \/ phase' = "idle" /\ step' = 0
      \/ phase' = "asking" /\ setup.mode = "heal"
  BY DEF PInv, ApplyReturns, DirectCallReturns, Interrupt, HealStepReturns, AfterStep
<1> QED BY <1>1, <1>2, <1>3, AtEase

LEMMA HealPInv ==
  ASSUME PInv, HealJudged \/ HealGivesUp \/ (\E yes \in BOOLEAN : HealAsks(yes))
  PROVE  PInv'
<1>1. /\ CInv /\ pc = "idle" /\ setup \in Setups /\ Loads(setup) /\ ladder = setup.ladder
      /\ setup.mode = "heal" /\ phase \in {"judged", "asking"}
      /\ UNCHANGED <<ladder, setup>> /\ n' \in 0 .. MaxFailures
  BY DEF PInv, HealJudged, HealGivesUp, HealAsks, Calls
<1>2. CASE HealJudged \/ HealGivesUp
  <2>1. CInv' /\ pc' = "idle"
    BY <1>1, <1>2 DEF HealJudged, HealGivesUp, CInv, commandVars
  <2>2. phase' = "asking" \/ (phase' = "idle" /\ step' = 0)
    BY <1>2 DEF HealJudged, HealGivesUp
  <2> QED BY <1>1, <2>1, <2>2, AtEase
<1>3. CASE HealAsks(TRUE)
  <2>1. answer' = Yes /\ StartApply(step) /\ step \in DOMAIN ladder
    BY <1>3 DEF HealAsks
  <2>2. ClearYes(answer') /\ setup.mode # "patrol"
    BY <1>1, <2>1, YesIsClear
  <2> QED BY <1>1, <2>1, <2>2, StartApplyPInv
<1>4. CASE HealAsks(FALSE)
  <2>1. CInv' /\ pc' = "idle" /\ phase' = phase /\ phase = "asking"
    BY <1>1, <1>4 DEF HealAsks, CInv, commandVars
  <2> QED BY <1>1, <2>1, AtEase
<1> QED BY <1>2, <1>3, <1>4

LEMMA NextPInv ==
  ASSUME PInv, [Next]_vars
  PROVE  PInv'
<1>1. CASE UNCHANGED vars
  <2>1. UNCHANGED <<ladder, n, pc, call, evidence, rc, setup, phase, reply, verdict, step,
                    answer>>
    BY <1>1 DEF vars, patrolVars, commandVars
  <2>2. CInv'
    BY <1>1 DEF PInv, CInv, vars, commandVars
  <2>3. FirstAnswer' <=> FirstAnswer
    BY <2>1 DEF FirstAnswer
  <2>4. HealthyOnEvidence' /\ DestructiveNeedsClearYes'
    BY <2>1 DEF PInv, HealthyOnEvidence, DestructiveNeedsClearYes
  <2> QED BY <2>1, <2>2, <2>3, <2>4 DEF PInv, Loads
<1>2. CASE Running
  BY <1>2, RunningPInv
<1>3. CASE Interrupt
  BY <1>3, CallEndsPInv
<1>4. CASE Supervision
  BY <1>4, StartCheckPInv, CheckWithoutCommandPInv, CommandAnswersPInv, UsageAnswersPInv,
     AskForRequestsPInv, RequestsAnswerPInv, CheckRaisesPInv, VerdictReadPInv,
     StillDownPInv, CallEndsPInv, HealPInv DEF Supervision
<1> QED BY <1>1, <1>2, <1>3, <1>4 DEF Next

LEMMA PatrolInvariant == Spec => []PInv
BY InitPInv, NextPInv, PTL DEF Spec
-----------------------------------------------------------------------------
(* The theorems.                                                            *)

LEMMA CountSteps ==
  ASSUME PInv, [Next]_vars
  PROVE  [CountNext]_countVars
<1>1. n \in 0 .. MaxFailures /\ MaxFailures \in Nat
  BY EscalationAssumption DEF EscalationAssumption, PInv
<1>2. ASSUME UNCHANGED ladder, n' = 0
      PROVE  [CountNext]_countVars
  BY <1>1, <1>2 DEF CountNext, Clear, countVars
<1>3. CASE UNCHANGED <<ladder, n>>
  BY <1>3 DEF countVars
<1>4. CASE HealthyAgain
  BY <1>2, <1>4 DEF HealthyAgain
<1>5. CASE StillDown
  BY <1>1, <1>5, BumpCounts DEF StillDown, CountNext, Fail, countVars
<1>6. CASE ApplyReturns
  BY <1>2, <1>3, <1>6 DEF ApplyReturns
<1>7. CASE ~ (HealthyAgain \/ StillDown \/ ApplyReturns)
  BY <1>3, <1>7
     DEF Next, Supervision, Running, Interrupt, vars, StartCheck, CheckWithoutCommand,
         CommandAnswers, UsageAnswers, AskForRequests, RequestsAnswer, CheckRaises,
         ProbeRaised, DirectCallReturns, HealJudged, HealAsks, HealStepReturns, HealGivesUp
<1> QED BY <1>4, <1>5, <1>6, <1>7

(* The engine's counting, with every probe, approver and runner             *)
(* (engine.py:187-247), is the abstract counter's: up by one on a failure,  *)
(* to zero on a healthy verdict or a successful remediation, and never      *)
(* otherwise; a raised check or a cancelled command leaves it alone.        *)
THEOREM PatrolCounts == Spec => CountSpec
<1>1. Init => CountInit
  BY SetupFacts DEF Init, CountInit
<1>2. PInv /\ [Next]_vars => [CountNext]_countVars
  BY CountSteps
<1> QED BY <1>1, <1>2, PatrolInvariant, PTL DEF Spec, CountSpec

(* "kill + wait reaps the child" (command.py:181-182): however often an     *)
(* attempt times out, none starts while a process of an earlier one is      *)
(* left on the local host, and a call that ends leaves none behind.         *)
THEOREM NoProcessLeft == Spec => []NothingLeftBehind
<1>1. PInv => NothingLeftBehind
  BY DEF PInv, CInv, NothingLeftBehind
<1> QED BY <1>1, PatrolInvariant, PTL

(* With any number of retries, a command that timed out is not run again    *)
(* unless its caller asked for that, and one that succeeded never is        *)
(* (command.py:19-21).                                                      *)
THEOREM SlowCommandsNotRerun == Spec => SlowNotRerun
<1>1. ASSUME PInv, [Next]_vars, pc' = "starting", pc # "idle"
      PROVE  UNCHANGED commandVars \/ CommandStep
  <2>1. phase \in Calls
    BY <1>1 DEF PInv
  <2> QED
    BY <1>1, <2>1
       DEF Next, Supervision, Running, Interrupt, vars, StartCheck, CheckWithoutCommand,
           CommandAnswers, UsageAnswers, AskForRequests, RequestsAnswer, CheckRaises,
           HealthyAgain, ProbeRaised, StillDown, ApplyReturns, DirectCallReturns,
           HealJudged, HealAsks, HealStepReturns, HealGivesUp, Patrolled, Calls,
           CollectResult, CancelCall
<1>2. PInv /\ [Next]_vars
        => [pc' = "starting" /\ pc # "idle"
              => rc' # 0 /\ (rc' = TIMEOUT_RC /\ evidence' = "none" => call.again)]_commandVars
  BY <1>1, RetriesAreDue DEF PInv
<1> QED BY <1>2, PatrolInvariant, PTL DEF Spec, SlowNotRerun

(* Whatever the probe, a healthy verdict rests on commands that all ended   *)
(* by themselves with status 0, or whose SSH channel closed without one     *)
(* (host.py:107).                                                           *)
THEOREM HealthyNeedsEvidence == Spec => []HealthyOnEvidence
<1>1. PInv => HealthyOnEvidence
  BY DEF PInv
<1> QED BY <1>1, PatrolInvariant, PTL

(* A destructive remediation, and every step of `spero heal', runs only     *)
(* after a clear yes, whatever a model may answer (approver.py:29-31).      *)
THEOREM DestructionIsApproved == Spec => []DestructiveNeedsClearYes
<1>1. PInv => DestructiveNeedsClearYes
  BY DEF PInv
<1> QED BY <1>1, PatrolInvariant, PTL

(* A remediation that is not KillProcess succeeded only if its command      *)
(* ended with 0.                                                            *)
LEMMA RepairedOnEvidence ==
  ASSUME PInv, phase = "applying", Repaired(step)
  PROVE  /\ evidence \in {"exit", "silence"}
         /\ rc = 0 \/ (rc = 1 /\ setup.kinds[step].class = KillProcess)
<1>1. setup.kinds[step].class \in REMEDIATIONS
  BY SetupFacts DEF PInv
<1>2. rc \in setup.kinds[step].class.successes /\ pc = "done"
  BY DEF Repaired, Success
<1>3. rc \in {0, 1} /\ (rc = 1 => setup.kinds[step].class = KillProcess)
  BY <1>1, <1>2, Successes
<1>4. evidence # "none"
  BY <1>2, <1>3 DEF PInv, CInv, TIMEOUT_RC, NOT_FOUND_RC
<1> QED BY <1>3, <1>4 DEF PInv, CInv

(* The counter falls only on a healthy verdict or on a remediation whose    *)
(* command ended well (engine.py:190-191, 243-247).                         *)
THEOREM CounterClearedOnEvidence == Spec => ClearedOnEvidence
<1> DEFINE Due == n' < n =>
        \/ phase = "judged" /\ verdict = "healthy"
        \/ /\ phase = "applying" /\ evidence \in {"exit", "silence"}
           /\ rc = 0 \/ (rc = 1 /\ setup.kinds[step].class = KillProcess)
<1>1. ASSUME PInv, [Next]_vars
      PROVE  [Due]_vars
  <2>1. n \in 0 .. MaxFailures
    BY <1>1 DEF PInv
  <2>2. CASE n' = n
    BY <2>1, <2>2
  <2>3. CASE HealthyAgain
    BY <2>3 DEF HealthyAgain, Patrolled
  <2>4. CASE StillDown
    <3>1. n' = n \/ n' = n + 1
      BY <2>1, <2>4, BumpCounts DEF StillDown
    <3> QED BY <2>1, <3>1
  <2>5. CASE ApplyReturns
    BY <1>1, <2>2, <2>5, RepairedOnEvidence DEF ApplyReturns
  <2>6. CASE ~ (HealthyAgain \/ StillDown \/ ApplyReturns)
    BY <1>1, <2>2, <2>6
       DEF Next, Supervision, Running, Interrupt, vars, StartCheck, CheckWithoutCommand,
           CommandAnswers, UsageAnswers, AskForRequests, RequestsAnswer, CheckRaises,
           ProbeRaised, DirectCallReturns, HealJudged, HealAsks, HealStepReturns,
           HealGivesUp
  <2> QED BY <2>3, <2>4, <2>5, <2>6
<1>2. PInv /\ [Next]_vars => [Due]_vars
  BY <1>1
<1> QED BY <1>2, PatrolInvariant, PTL DEF Spec, ClearedOnEvidence

(* `spero heal' walks a ladder of any length upwards, one step at a time,   *)
(* and past a step only when it was declined or did not succeed             *)
(* (cli.py:384-400).                                                        *)
THEOREM HealRepairsOnce == Spec => HealStopsAtSuccess
<1> DEFINE Due == setup.mode = "heal" /\ step' # step /\ phase # "idle" =>
        \/ phase' = "idle"
        \/ /\ step' = step + 1
           /\ phase = "applying" => pc = "raised" \/ rc # 0
<1>1. ASSUME PInv, [Next]_vars
      PROVE  [Due]_vars
  <2>1. CASE step' = step
    BY <2>1
  <2>2. CASE StartCheck \/ CheckWithoutCommand
    BY <2>2 DEF StartCheck, CheckWithoutCommand
  <2>3. CASE HealthyAgain \/ ProbeRaised \/ StillDown \/ ApplyReturns
    BY <2>3 DEF HealthyAgain, ProbeRaised, StillDown, Patrolled, ApplyReturns
  <2>4. CASE HealJudged \/ HealGivesUp \/ Interrupt
    <3>1. phase = "judged" => step = 0
      BY <1>1 DEF PInv
    <3> QED BY <2>4, <3>1 DEF HealJudged, HealGivesUp, Interrupt
  <2>5. ASSUME NEW yes \in BOOLEAN, HealAsks(yes)
        PROVE  Due
    BY <2>5 DEF HealAsks, StartApply
  <2>6. CASE HealStepReturns
    <3>1. setup.kinds[step].class \in REMEDIATIONS /\ phase = "applying"
      BY <1>1, <2>6, SetupFacts DEF PInv, HealStepReturns
    <3>2. pc \in {"done", "raised"}
      BY <2>6 DEF HealStepReturns, CollectResult
    <3>3. ~ Repaired(step) => pc = "raised" \/ rc # 0
      BY <3>1, <3>2, Successes DEF Repaired, Success
    <3> QED BY <2>6, <3>3 DEF HealStepReturns, AfterStep
  <2>7. CASE Running \/ UNCHANGED vars
    BY <2>1, <2>7 DEF Running, vars, patrolVars
  <2>8. CASE \/ CommandAnswers \/ UsageAnswers \/ AskForRequests \/ RequestsAnswer
             \/ CheckRaises \/ DirectCallReturns
    BY <2>1, <2>8
       DEF CommandAnswers, UsageAnswers, AskForRequests, RequestsAnswer, CheckRaises,
           DirectCallReturns
  <2> HIDE DEF Due
  <2> QED
    BY <1>1, <2>2, <2>3, <2>4, <2>5, <2>6, <2>7, <2>8 DEF Next, Supervision
<1>2. PInv /\ [Next]_vars => [Due]_vars
  BY <1>1
<1> QED BY <1>2, PatrolInvariant, PTL DEF Spec, HealStopsAtSuccess

-----------------------------------------------------------------------------
(* The types.                                                               *)

Verdicts == {"healthy", "unhealthy", "raises"}

LEMMA JsonVerdicts ==
  ASSUME NEW r, NEW v \in Verdicts
  PROVE  OfJson(r, v) \in Verdicts
BY DEF OfJson, Verdicts

LEMMA JudgedVerdicts ==
  ASSUME NEW b
  PROVE  Judged(b) \in Verdicts
BY DEF Judged, Verdicts

LEMMA VerdictTypes ==
  ASSUME NEW p, NEW r, Buildable(p)
  PROVE  Verdict(p, r) \in Verdicts
<1>1. p.type \in Types /\ {"healthy", "unhealthy", "raises"} \subseteq Verdicts
  BY DEF Buildable, Verdicts
<1>2. CASE p.type \in {"pod", "deployment", "pvc", "restart-count"}
  BY <1>1, <1>2, JsonVerdicts, JudgedVerdicts
     DEF Verdict, PodReadyProbe, DeploymentProbe, PvcProbe, RestartCountProbe
<1>3. CASE p.type \in {"knative-service", "keda-scaledobject", "elpio-service",
                       "elpio-function", "elpio-task"}
  BY <1>1, <1>3, JsonVerdicts, JudgedVerdicts
     DEF Verdict, KnativeServiceProbe, KedaScaledObjectProbe, ElpioServiceProbe,
         ElpioFunctionProbe, ElpioTaskProbe, ElpioReady
<1>4. CASE p.type = "cert-expiry"
  BY <1>1, <1>4, JsonVerdicts, JudgedVerdicts DEF Verdict, CertExpiryProbe
<1>5. CASE p.type = "resource-usage"
  BY <1>1, <1>5, JsonVerdicts, JudgedVerdicts DEF Verdict, ResourceUsageProbe
<1>6. CASE p.type \in {"process", "systemd", "postgres", "kafka", "port", "disk", "http",
                       "command", "trino", "clickhouse"}
  BY <1>6, JudgedVerdicts
     DEF Verdict, ProcessProbe, SystemdProbe, PostgresProbe, KafkaProbe, PortProbe,
         DiskProbe, HttpProbe, CommandProbe, TrinoProbe, ClickHouseProbe
<1> QED BY <1>1, <1>2, <1>3, <1>4, <1>5, <1>6 DEF Types

(* An attempt that has not ended is within the retries.                     *)
AttemptsLeft == pc \in {"starting", "running", "killing"} => tries <= call.retries

(* How an attempt ends.                                                     *)
Ended(code) ==
  /\ code \in ExitCodes \cup {0, TIMEOUT_RC, NOT_FOUND_RC}
  /\ tries' = tries + 1 /\ rc' = code
  /\ (pc' = "starting" /\ tries + 1 <= call.retries) \/ pc' = "done"

LEMMA EndedTypes ==
  ASSUME CommandTypeOK, AttemptsLeft, pc \in {"starting", "running", "killing"},
         UNCHANGED call, NEW code, Ended(code)
  PROVE  /\ tries' \in 0 .. call.retries + 1 /\ AttemptsLeft'
         /\ rc' \in ExitCodes \cup {-1, 0, TIMEOUT_RC, NOT_FOUND_RC}
<1>1. tries \in Nat /\ call.retries \in Nat /\ tries <= call.retries
  <2>1. call.retries \in Nat /\ tries \in 0 .. call.retries + 1
    BY DEF CommandTypeOK, CallType
  <2>2. tries <= call.retries
    BY DEF AttemptsLeft
  <2> QED BY <2>1, <2>2
<1>2. tries' = tries + 1 /\ rc' = code
      /\ code \in ExitCodes \cup {0, TIMEOUT_RC, NOT_FOUND_RC}
  BY DEF Ended
<1>3. AttemptsLeft'
  BY <1>1, <1>2 DEF Ended, AttemptsLeft
<1>4. tries' \in 0 .. call.retries + 1
  BY <1>1, <1>2
<1> QED BY <1>2, <1>3, <1>4

LEMMA CommandStepTypes ==
  ASSUME CInv, CommandTypeOK, AttemptsLeft, CommandStep
  PROVE  CommandTypeOK' /\ AttemptsLeft'
<1>1. CInv' /\ UNCHANGED call
  BY CommandStepCInv
<1>2. ASSUME \/ Spawn
             \/ pc = "running" /\ pc' = "killing" /\ UNCHANGED <<tries, rc>>
      PROVE  /\ tries' \in 0 .. call.retries + 1 /\ AttemptsLeft'
             /\ rc' \in ExitCodes \cup {-1, 0, TIMEOUT_RC, NOT_FOUND_RC}
  <2>1. tries' = tries /\ rc' = rc /\ pc \in {"starting", "running"}
    BY <1>2 DEF Spawn
  <2> QED BY <1>1, <2>1 DEF AttemptsLeft, CommandTypeOK
<1>3. ASSUME pc \in {"starting", "running", "killing"}, NEW code, Ended(code)
      PROVE  /\ tries' \in 0 .. call.retries + 1 /\ AttemptsLeft'
             /\ rc' \in ExitCodes \cup {-1, 0, TIMEOUT_RC, NOT_FOUND_RC}
  BY <1>1, <1>3, EndedTypes
<1>4. \/ Spawn
      \/ pc = "running" /\ pc' = "killing" /\ UNCHANGED <<tries, rc>>
      \/ pc \in {"starting", "running", "killing"} /\ \E code : Ended(code)
  <2>1. CASE SpawnFails
    <3>1. pc = "starting" /\ Ended(NOT_FOUND_RC)
      BY <2>1 DEF SpawnFails, AttemptEnds, Ended
    <3> QED BY <3>1
  <2>2. CASE ConnectionLost
    <3>1. pc = "running" /\ (Ended(NOT_FOUND_RC) \/ Ended(0))
      BY <2>2 DEF ConnectionLost, AttemptEnds, Ended
    <3> QED BY <3>1
  <2>3. CASE TimeOut
    <3>1. \/ pc = "running" /\ pc' = "killing" /\ UNCHANGED <<tries, rc>>
          \/ pc \in {"starting", "running"} /\ Ended(TIMEOUT_RC)
      BY <2>3 DEF TimeOut, AttemptEnds, Ended
    <3> QED BY <3>1
  <2>4. CASE Reap
    <3>1. pc = "killing" /\ Ended(TIMEOUT_RC)
      BY <2>4 DEF Reap, AttemptEnds, Ended
    <3> QED BY <3>1
  <2>5. ASSUME NEW code \in ExitCodes, Exits(code)
        PROVE  pc = "running" /\ Ended(code)
    BY <2>5 DEF Exits, AttemptEnds, Ended
  <2> QED BY <2>1, <2>2, <2>3, <2>4, <2>5 DEF CommandStep
<1>5. adrift' \subseteq {"cancelled", "timed out", "lost"} /\ alive' \in {0, 1}
  BY <1>1 DEF CInv, CommandTypeOK, CommandStep, SpawnFails, Spawn, ConnectionLost, TimeOut,
              Reap, Exits
<1>6. /\ tries' \in 0 .. call.retries + 1 /\ AttemptsLeft'
      /\ rc' \in ExitCodes \cup {-1, 0, TIMEOUT_RC, NOT_FOUND_RC}
  BY <1>2, <1>3, <1>4
<1> QED BY <1>1, <1>5, <1>6 DEF CInv, CommandTypeOK

LEMMA CollectTypes ==
  ASSUME CommandTypeOK, CollectResult \/ CancelCall
  PROVE  CommandTypeOK' /\ AttemptsLeft'
BY DEF CommandTypeOK, CollectResult, CancelCall, AttemptsLeft

LEMMA BeginTypes ==
  ASSUME CommandTypeOK, NEW c \in CallType, c.again => c.runner = "sync", BeginCall(c)
  PROVE  CommandTypeOK' /\ AttemptsLeft'
<1>1. c.retries \in Nat
  BY DEF CallType
<1>2. call' = c /\ tries' = 0 /\ evidence' = "none" /\ adrift' = {} /\ alive' = alive
  BY DEF BeginCall
<1>3. pc' \in {"starting", "done", "raised"} /\ rc' \in {-1, NOT_FOUND_RC}
  BY DEF BeginCall
<1>4. tries' \in 0 .. call'.retries + 1 /\ AttemptsLeft'
  BY <1>1, <1>2 DEF AttemptsLeft
<1> QED BY <1>2, <1>3, <1>4 DEF CommandTypeOK

LEMMA CallsBegin ==
  ASSUME PInv
  PROVE  /\ setup.call \in CallType /\ (setup.call.again => setup.call.runner = "sync")
         /\ ApplyCall \in CallType /\ (ApplyCall.again => ApplyCall.runner = "sync")
<1>1. /\ setup \in Setups /\ setup.call \in CallType
      /\ setup.call.again => setup.call.runner = "sync"
  BY PatrolAssumption DEF PatrolAssumption, PInv
<1> QED BY <1>1 DEF ApplyCall, CallType

(* What a step does to the commands.                                        *)
LEMMA CommandMoves ==
  ASSUME PInv, [Next]_vars
  PROVE  \/ CommandStep \/ CollectResult \/ CancelCall \/ UNCHANGED commandVars
         \/ BeginCall(setup.call) \/ BeginCall(ApplyCall)
<1>1. CASE UNCHANGED vars
  BY <1>1 DEF vars
<1>2. CASE Running \/ Interrupt
  BY <1>2 DEF Running, Interrupt
<1>3. CASE HealthyAgain \/ ProbeRaised \/ HealJudged \/ HealGivesUp \/ CheckWithoutCommand
  BY <1>3 DEF HealthyAgain, ProbeRaised, HealJudged, HealGivesUp, CheckWithoutCommand, Rest,
              commandVars
<1>4. CASE StillDown
  BY <1>4 DEF StillDown, Act, StartApply, Rest, commandVars
<1>5. ASSUME NEW yes \in BOOLEAN, HealAsks(yes)
      PROVE  UNCHANGED commandVars \/ BeginCall(ApplyCall)
  BY <1>5 DEF HealAsks, StartApply, commandVars
<1>6. CASE StartCheck \/ AskForRequests
  BY <1>6 DEF StartCheck, AskForRequests
<1>7. CASE \/ CommandAnswers \/ UsageAnswers \/ RequestsAnswer \/ CheckRaises
           \/ ApplyReturns \/ DirectCallReturns \/ HealStepReturns
  BY <1>7 DEF CommandAnswers, UsageAnswers, RequestsAnswer, CheckRaises, ApplyReturns,
              DirectCallReturns, HealStepReturns
<1> QED BY <1>1, <1>2, <1>3, <1>4, <1>5, <1>6, <1>7 DEF Next, Supervision

LEMMA CommandTypes ==
  ASSUME PInv, CommandTypeOK, AttemptsLeft, [Next]_vars
  PROVE  CommandTypeOK' /\ AttemptsLeft'
<1>1. CASE UNCHANGED commandVars
  BY <1>1 DEF commandVars, CommandTypeOK, AttemptsLeft
<1>2. CASE CommandStep
  BY <1>2, CommandStepTypes DEF PInv
<1>3. CASE CollectResult \/ CancelCall
  BY <1>3, CollectTypes
<1>4. CASE BeginCall(setup.call) \/ BeginCall(ApplyCall)
  BY <1>4, CallsBegin, BeginTypes
<1> QED BY <1>1, <1>2, <1>3, <1>4, CommandMoves

(* A ladder is walked one step at a time, to one past its end.              *)
Walk ==
  /\ verdict \in Verdicts
  /\ step \in 0 .. Len(ladder) + 1

LEMMA LadderLength ==
  ASSUME PInv
  PROVE  /\ Len(ladder) \in Nat /\ DOMAIN ladder = 1 .. Len(ladder)
         /\ Len(setup.kinds) = Len(ladder) /\ Buildable(setup.probe)
<1>1. ladder \in Seq(StepsOver(Int))
  BY SetupFacts DEF PInv
<1>2. Len(ladder) \in Nat /\ DOMAIN ladder = 1 .. Len(ladder)
  BY <1>1
<1> QED BY <1>2 DEF PInv, Loads

LEMMA WalkTypes ==
  ASSUME PInv, Walk, [Next]_vars
  PROVE  Walk'
<1>1. verdict' \in Verdicts
  <2>1. ASSUME NEW r, Conclude(r)
        PROVE  verdict' \in Verdicts
    BY <2>1, VerdictTypes, LadderLength DEF Conclude
  <2>2. CASE CheckWithoutCommand \/ CommandAnswers \/ RequestsAnswer
    BY <2>1, <2>2 DEF CheckWithoutCommand, CommandAnswers, RequestsAnswer
  <2>3. CASE UsageAnswers
    BY <2>1, <2>3 DEF UsageAnswers, Walk
  <2>4. CASE CheckRaises
    BY <2>4 DEF CheckRaises, Verdicts
  <2>5. CASE ~ (CheckWithoutCommand \/ CommandAnswers \/ RequestsAnswer \/ UsageAnswers
                \/ CheckRaises)
    BY <2>5
       DEF Walk, Next, Supervision, Running, Interrupt, vars, patrolVars, StartCheck,
           AskForRequests, HealthyAgain, ProbeRaised, StillDown, ApplyReturns,
           DirectCallReturns, HealJudged, HealAsks, HealStepReturns, HealGivesUp
  <2> QED BY <2>2, <2>3, <2>4, <2>5
<1>2. step' \in 0 .. Len(ladder) + 1
  <2>1. Len(ladder) \in Nat /\ step \in 0 .. Len(ladder) + 1
    BY LadderLength DEF Walk
  <2>2. CASE step' \in {0, 1, step}
    BY <2>1, <2>2
  <2>3. CASE step \in DOMAIN ladder /\ step' = step + 1
    BY <2>1, <2>3, LadderLength
  <2>4. CASE step' \in DOMAIN ladder
    BY <2>1, <2>4, LadderLength
  <2>5. \/ step' \in {0, 1, step}
        \/ step \in DOMAIN ladder /\ step' = step + 1
        \/ step' \in DOMAIN ladder
    <3>1. CASE StillDown
      <4>1. PInv' /\ UNCHANGED ladder
        BY <3>1, StillDownPInv DEF StillDown
      <4>2. phase' = "applying" \/ step' = 0
        BY <3>1 DEF StillDown, Act, StartApply, Rest
      <4> QED BY <4>1, <4>2 DEF PInv
    <3>2. CASE HealStepReturns
      BY <3>2 DEF PInv, HealStepReturns, AfterStep
    <3>3. ASSUME NEW yes \in BOOLEAN, HealAsks(yes)
          PROVE  step' \in {0, 1, step} \/ (step \in DOMAIN ladder /\ step' = step + 1)
      BY <3>3 DEF HealAsks, StartApply
    <3>4. CASE StartCheck \/ CheckWithoutCommand \/ HealthyAgain \/ ProbeRaised
               \/ ApplyReturns \/ Interrupt \/ HealJudged \/ HealGivesUp
      BY <3>4 DEF StartCheck, CheckWithoutCommand, HealthyAgain, ProbeRaised, Rest,
                  ApplyReturns, Interrupt, HealJudged, HealGivesUp
    <3>5. CASE \/ Running \/ UNCHANGED vars \/ CommandAnswers \/ UsageAnswers
               \/ AskForRequests \/ RequestsAnswer \/ CheckRaises \/ DirectCallReturns
      BY <3>5 DEF Running, vars, patrolVars, CommandAnswers, UsageAnswers, AskForRequests,
                  RequestsAnswer, CheckRaises, DirectCallReturns
    <3> QED BY <3>1, <3>2, <3>3, <3>4, <3>5 DEF Next, Supervision
  <2> QED BY <2>2, <2>3, <2>4, <2>5
<1>3. UNCHANGED ladder
  BY DEF Next, Supervision, Running, Interrupt, vars, StartCheck, CheckWithoutCommand,
         CommandAnswers, UsageAnswers, AskForRequests, RequestsAnswer, CheckRaises,
         HealthyAgain, ProbeRaised, StillDown, ApplyReturns, DirectCallReturns,
         HealJudged, HealAsks, HealStepReturns, HealGivesUp
<1> QED BY <1>1, <1>2, <1>3 DEF Walk

(* Type correctness of the supervision of one target and of its commands,   *)
(* for every probe, ladder, approver and runner: among it that no call      *)
(* makes more than retries + 1 attempts (command.py:108), and that heal     *)
(* never walks past the end of a ladder.                                    *)
THEOREM TypesAlways == Spec => []TypeOK
<1> DEFINE I == PInv /\ CommandTypeOK /\ AttemptsLeft /\ Walk
<1>1. Init => I
  <2>1. ASSUME Init PROVE CommandTypeOK /\ AttemptsLeft
    BY <2>1 DEF Init, CommandInit, CommandTypeOK, AttemptsLeft, NoCall, CallType, Local
  <2>2. ASSUME Init PROVE Walk
    BY <2>2, InitPInv, LadderLength DEF Init, Walk, Verdicts
  <2> QED BY <2>1, <2>2, InitPInv
<1>2. I /\ [Next]_vars => I'
  BY NextPInv, CommandTypes, WalkTypes
<1>3. I => TypeOK
  BY LadderLength DEF PInv, Walk, Verdicts, Calls, TypeOK, PatrolTypeOK
<1> QED BY <1>1, <1>2, <1>3, PTL DEF Spec

-----------------------------------------------------------------------------
(* No fault behind a healthy verdict.                                       *)

(* The judgement still stands for the answer it was made of, and that is    *)
(* one the command may have printed: the reply is not replaced before the   *)
(* verdict is read, and no setting of the probe changes.                    *)
Plain == {"cert-expiry", "restart-count", "keda-scaledobject", "disk"}

JudgedInv ==
  phase = "judged" /\ verdict = "healthy" /\ setup.probe.type \in Plain =>
    /\ Verdict(setup.probe, reply) = "healthy"
    /\ reply.body \in Bodies[setup.probe.type]

(* Kubernetes keeps one condition of a type in a status.  keda.py:68-77     *)
(* reads the first one of a type, and cannot see another.                   *)
OneConditionPerType ==
  \A b \in Bodies["keda-scaledobject"] \ {NotJson, NotObject} :
    \A i, j \in DOMAIN b.conditions :
      b.conditions[i].type = b.conditions[j].type => i = j

LEMMA HealthyBody ==
  ASSUME NEW r, NEW v, OfJson(r, v) = "healthy"
  PROVE  v = "healthy" /\ r.body \notin {NotJson, NotObject}
BY DEF OfJson

LEMMA JudgedHealthy ==
  ASSUME NEW b, Judged(b) = "healthy"
  PROVE  b
BY DEF Judged

(* timedelta.days rounds down: a certificate with fewer than `days' full    *)
(* days has fewer than 24 * days hours (kubernetes.py:173-176).             *)
LEMMA FullDays ==
  ASSUME NEW hours \in Int, NEW days \in Int, DaysLeft(hours) >= days
  PROVE  ~ hours < 24 * days
BY DEF DaysLeft

LEMMA CertShows ==
  ASSUME NEW p, NEW r, p.type = "cert-expiry", p.days \in Int,
         r.body \notin {NotJson, NotObject} => r.body.hours \in Int,
         Verdict(p, r) = "healthy"
  PROVE  ~ FaultShows(p, r.body)
<1>1. CertExpiryProbe(p, r) = "healthy"
  BY DEF Verdict
<1> DEFINE far == /\ r.body.crt = "certificate"
                  /\ DaysLeft(r.body.hours) >= 0
                  /\ DaysLeft(r.body.hours) >= p.days
<1>2. OfJson(r, Judged(far)) = "healthy"
  <2> HIDE DEF far
  <2>1. CertExpiryProbe(p, r) = IF p.certs THEN OfJson(r, Judged(far)) ELSE "unhealthy"
    BY DEF CertExpiryProbe, far
  <2> QED BY <1>1, <2>1
<1>3. r.body \notin {NotJson, NotObject} /\ far
  <2> HIDE DEF far
  <2> QED BY <1>2, HealthyBody, JudgedHealthy
<1>4. r.body \notin {NotJson, NotObject} /\ DaysLeft(r.body.hours) >= p.days
  BY <1>3
<1>5. ~ r.body.hours < 24 * p.days
  BY <1>4, FullDays
<1> QED BY <1>5 DEF FaultShows

(* The walk over the pods ends early only to report a fault: if it finds    *)
(* nothing, it has seen every container (kubernetes.py:217-234).            *)
LEMMA RestartsShow ==
  ASSUME NEW p, NEW r, p.type = "restart-count", Verdict(p, r) = "healthy"
  PROVE  ~ FaultShows(p, r.body)
<1> DEFINE pods    == r.body
           odd     == {i \in DOMAIN pods : pods[i] = NotObject}
           crashed == {i \in DOMAIN pods \ odd : \E c \in pods[i].containers : Crashed(c)}
           worn    == {i \in DOMAIN pods \ odd :
                         \E c \in pods[i].containers : c.restarts >= p.max_restarts}
           early   == \E i \in odd : \A j \in crashed : i < j
<1>1. RestartCountProbe(p, r) = "healthy"
  BY DEF Verdict
<1>2. OfJson(r, IF early THEN "raises" ELSE Judged(crashed \cup worn = {})) = "healthy"
  BY <1>1 DEF RestartCountProbe
<1>3. ~ early /\ crashed \cup worn = {}
  <2> HIDE DEF odd, crashed, worn, early
  <2>1. (IF early THEN "raises" ELSE Judged(crashed \cup worn = {})) = "healthy"
    BY <1>2, HealthyBody
  <2> QED BY <2>1, JudgedHealthy
<1>4. odd = {}
  BY <1>3
<1>5. \A i \in DOMAIN pods : \A c \in pods[i].containers :
        ~ Crashed(c) /\ ~ c.restarts >= p.max_restarts
  BY <1>3, <1>4
<1> QED BY <1>5 DEF FaultShows

(* The first condition of a type is the only one.                           *)
LEMMA TheStatus ==
  ASSUME NEW conditions \in Seq([type : STRING, status : STRING]),
         \A i, j \in DOMAIN conditions : conditions[i].type = conditions[j].type => i = j,
         NEW k \in DOMAIN conditions
  PROVE  StatusOf(conditions, conditions[k].type) = conditions[k].status
<1> DEFINE at == {i \in DOMAIN conditions : conditions[i].type = conditions[k].type}
<1>1. at = {k} /\ k \in Int
  OBVIOUS
<1>2. (CHOOSE i \in at : \A j \in at : i <= j) = k
  BY <1>1
<1>3. StatusOf(conditions, conditions[k].type)
        = IF at = {} THEN "" ELSE conditions[CHOOSE i \in at : \A j \in at : i <= j].status
  BY DEF StatusOf
<1> HIDE DEF at
<1> QED BY <1>1, <1>2, <1>3

LEMMA ConditionsShow ==
  ASSUME NEW p, NEW r, p.type = "keda-scaledobject", Verdict(p, r) = "healthy",
         r.body \in Bodies["keda-scaledobject"], OneConditionPerType
  PROVE  ~ FaultShows(p, r.body)
<1>1. KedaScaledObjectProbe(p, r) = "healthy"
  BY DEF Verdict
<1>2. r.body \notin {NotJson, NotObject} /\ ReadyAndNotPaused(r.body.conditions)
  BY <1>1, HealthyBody, JudgedHealthy DEF KedaScaledObjectProbe
<1> DEFINE conditions == r.body.conditions
<1>3. /\ conditions \in Seq([type : STRING, status : STRING])
      /\ \A i, j \in DOMAIN conditions : conditions[i].type = conditions[j].type => i = j
  BY <1>2, NumbersAssumption DEF NumbersAssumption, OneConditionPerType
<1>4. ASSUME NEW k \in DOMAIN conditions,
             conditions[k] \in {Cond("Ready", "False"), Cond("Paused", "True")}
      PROVE  FALSE
  <2>1. StatusOf(conditions, conditions[k].type) = conditions[k].status
    BY <1>3, TheStatus
  <2>2. \/ conditions[k].type = "Ready" /\ conditions[k].status = "False"
        \/ conditions[k].type = "Paused" /\ conditions[k].status = "True"
    BY <1>4 DEF Cond
  <2> QED BY <1>2, <2>1, <2>2 DEF ReadyAndNotPaused
<1> QED BY <1>4 DEF FaultShows

(* The percentage read is that of some field of the last line               *)
(* (host.py:120-129).                                                       *)
LEMMA UseIsRead ==
  ASSUME NEW lines \in Seq(Seq(Int \cup {NoValue})), UsePct(lines) # NoValue
  PROVE  /\ UsePct(lines) \in Int
         /\ \E i \in DOMAIN lines[Len(lines)] : lines[Len(lines)][i] = UsePct(lines)
<1> DEFINE row == lines[Len(lines)]
           at  == {i \in DOMAIN row : row[i] # NoValue}
           top == CHOOSE i \in at : \A j \in at : j <= i
<1>1. Len(lines) >= 2 /\ at # {} /\ UsePct(lines) = row[top]
  <2>1. UsePct(lines) = IF Len(lines) < 2 \/ at = {} THEN NoValue ELSE row[top]
    BY DEF UsePct
  <2>2. Len(lines) \in Nat
    OBVIOUS
  <2> HIDE DEF at, top, row
  <2> QED BY <2>1, <2>2
<1>2. row \in Seq(Int \cup {NoValue})
  BY <1>1
<1>3. Len(row) \in Nat /\ at \in SUBSET (1 .. Len(row))
  BY <1>2
<1>4. top \in at
  <2> HIDE DEF at, row
  <2>1. \E i \in at : \A j \in at : j <= i
    BY <1>1, <1>3, LargestIndex
  <2> QED BY <2>1
<1> HIDE DEF top
<1>5. row[top] \in Int
  BY <1>2, <1>4
<1> QED BY <1>1, <1>4, <1>5

LEMMA DiskShows ==
  ASSUME NEW p, NEW r, p.type = "disk", p.threshold_pct \in Int,
         r.body \in Seq(Seq(Int \cup {NoValue})), Verdict(p, r) = "healthy"
  PROVE  ~ FaultShows(p, r.body)
<1>1. DiskProbe(p, r) = "healthy"
  BY DEF Verdict
<1>2. UsePct(r.body) # NoValue /\ UsePct(r.body) <= p.threshold_pct
  BY <1>1, JudgedHealthy DEF DiskProbe
<1>3. UsePct(r.body) \in Int
  BY <1>2, UseIsRead
<1>4. UsePct(r.body) \notin {NoValue} \cup (p.threshold_pct + 1 .. 100)
  BY <1>2, <1>3
<1>5. PICK i \in DOMAIN r.body[Len(r.body)] : r.body[Len(r.body)][i] = UsePct(r.body)
  BY <1>2, UseIsRead
<1> QED BY <1>4, <1>5 DEF FaultShows

LEMMA JudgedInvNext ==
  ASSUME PInv, JudgedInv, [Next]_vars
  PROVE  JudgedInv'
<1>1. CASE CommandAnswers
  <2> SUFFICES ASSUME verdict' = "healthy", setup'.probe.type \in Plain
               PROVE  /\ Verdict(setup'.probe, reply') = "healthy"
                      /\ reply'.body \in Bodies[setup'.probe.type]
    BY DEF JudgedInv
  <2>1. PICK b \in Printed(setup.probe.type) : Conclude([rc |-> rc, body |-> b])
    BY <1>1 DEF CommandAnswers
  <2>2. /\ setup' = setup /\ reply' = [rc |-> rc, body |-> b]
        /\ Verdict(setup.probe, reply') = "healthy"
    BY <1>1, <2>1 DEF CommandAnswers, Conclude
  <2>3. rc = 0
    <3>1. Buildable(setup.probe) /\ setup.probe.type # "resource-usage"
      BY <2>2, SetupFacts DEF PInv, Plain
    <3>2. reply'.rc = 0
      BY <2>2, <3>1, HealthyVerdict
    <3> QED BY <2>2, <3>2
  <2>4. evidence # "none"
    BY <1>1, <2>3, ZeroIsEvidence DEF CommandAnswers
  <2> QED BY <2>1, <2>2, <2>4 DEF Printed
<1>2. CASE CheckWithoutCommand
  <2>1. verdict' # "healthy"
    BY <1>2, HealthyVerdict, SetupFacts DEF PInv, CheckWithoutCommand, Conclude, NeedsNoCommand
  <2> QED BY <2>1 DEF JudgedInv
<1>3. CASE UsageAnswers
  <2>1. setup' = setup /\ setup.probe.type = "resource-usage"
    BY <1>3 DEF UsageAnswers
  <2> QED BY <2>1 DEF JudgedInv, Plain
<1>4. CASE RequestsAnswer
  <2>1. setup' = setup /\ setup.probe.type = "resource-usage"
    BY <1>4 DEF PInv, FirstAnswer, RequestsAnswer
  <2> QED BY <2>1 DEF JudgedInv, Plain
<1>5. CASE CheckRaises
  BY <1>5 DEF CheckRaises, JudgedInv
<1>6. CASE Running \/ UNCHANGED vars
  <2>1. UNCHANGED <<setup, phase, reply, verdict>>
    BY <1>6 DEF Running, vars, patrolVars
  <2> QED BY <2>1 DEF JudgedInv
<1>7. CASE \/ StartCheck \/ AskForRequests \/ HealthyAgain \/ ProbeRaised \/ ApplyReturns
           \/ DirectCallReturns \/ HealJudged \/ HealStepReturns \/ HealGivesUp \/ Interrupt
  <2>1. CASE HealStepReturns \/ HealJudged \/ HealGivesUp
    <3>1. phase' \in {"idle", "asking"}
      BY <2>1 DEF HealStepReturns, AfterStep, HealJudged, HealGivesUp
    <3> QED BY <3>1 DEF JudgedInv
  <2>2. CASE \/ StartCheck \/ AskForRequests \/ HealthyAgain \/ ProbeRaised \/ ApplyReturns
             \/ DirectCallReturns \/ Interrupt
    <3>1. phase' \in {"calling", "checking", "rechecking", "idle"}
      BY <2>2 DEF StartCheck, AskForRequests, HealthyAgain, ProbeRaised, Rest, ApplyReturns,
                  DirectCallReturns, Interrupt
    <3> QED BY <3>1 DEF JudgedInv
  <2> QED BY <1>7, <2>1, <2>2
<1>8. CASE StillDown
  <2>1. phase' # "judged"
    BY <1>8 DEF StillDown, Act, StartApply, Rest
  <2> QED BY <2>1 DEF JudgedInv
<1>9. ASSUME NEW yes \in BOOLEAN, HealAsks(yes)
      PROVE  JudgedInv'
  <2>1. phase' # "judged"
    BY <1>9 DEF HealAsks, StartApply
  <2> QED BY <2>1 DEF JudgedInv
<1> QED
  BY <1>1, <1>2, <1>3, <1>4, <1>5, <1>6, <1>7, <1>8, <1>9 DEF Next, Supervision

(* Whatever the certificates, containers, conditions and file systems are,  *)
(* a probe that reads several values calls none of them healthy whose fault *)
(* shows in any (kubernetes.py:122-133, 182-190; keda.py:29-42;             *)
(* host.py:78-82).                                                          *)
THEOREM NoFaultHidden ==
  ASSUME OneConditionPerType
  PROVE  Spec => []NoHiddenFault
<1>1. Init => JudgedInv
  BY DEF Init, JudgedInv
<1>2. PInv /\ JudgedInv => NoHiddenFault
  <2> SUFFICES ASSUME PInv, JudgedInv, phase = "judged", verdict = "healthy"
               PROVE  ~ FaultShows(setup.probe, reply.body)
    BY DEF NoHiddenFault
  <2>1. setup \in Setups
    BY DEF PInv
  <2>2. CASE setup.probe.type \notin Plain
    BY <2>2 DEF FaultShows, Plain
  <2>3. CASE setup.probe.type \in Plain
    <3>1. /\ Verdict(setup.probe, reply) = "healthy"
          /\ reply.body \in Bodies[setup.probe.type]
      BY <2>3 DEF JudgedInv
    <3>2. CASE setup.probe.type = "cert-expiry"
      <4>1. /\ setup.probe.days \in Int
            /\ reply.body \notin {NotJson, NotObject} => reply.body.hours \in Int
        BY <2>1, <3>1, <3>2, NumbersAssumption DEF NumbersAssumption
      <4> QED BY <3>1, <3>2, <4>1, CertShows
    <3>3. CASE setup.probe.type = "restart-count"
      BY <3>1, <3>3, RestartsShow
    <3>4. CASE setup.probe.type = "keda-scaledobject"
      <4>1. reply.body \in Bodies["keda-scaledobject"]
        BY <3>1, <3>4
      <4> QED BY <3>1, <3>4, <4>1, ConditionsShow
    <3>5. CASE setup.probe.type = "disk"
      <4>1. /\ setup.probe.threshold_pct \in Int
            /\ reply.body \in Seq(Seq(Int \cup {NoValue}))
        BY <2>1, <3>1, <3>5, NumbersAssumption DEF NumbersAssumption
      <4> QED BY <3>1, <3>5, <4>1, DiskShows
    <3> QED BY <2>3, <3>2, <3>3, <3>4, <3>5 DEF Plain
  <2> QED BY <2>2, <2>3
<1> QED BY <1>1, <1>2, JudgedInvNext, PatrolInvariant, PTL DEF Spec
=============================================================================
