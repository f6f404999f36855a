---------------------------- MODULE WatchProofs ----------------------------
(***************************************************************************)
(* The engine under the scheduler, where no lock keeps a reload out of a   *)
(* supervision, for all names, contents, ladders, policies and channels.   *)
(* IInv is the inductive invariant.                                        *)
(***************************************************************************)
EXTENDS Watch, EngineProofs

(* Only an approver that suspends is ever waited for.                       *)
ApproverInv == \A t \in Names : tick[t].pc = "approving" => ApproverSuspends

IInv == TypeOK /\ GateInv /\ ApproverInv /\ JobsFollowPolicy /\ NobodyUnknown

LEMMA InitIInv == Init => IInv
<1> SUFFICES ASSUME Init PROVE IInv
  OBVIOUS
<1>1. /\ policy \in Policies /\ failures = [t \in Names |-> 0] /\ streak = [t \in Names |-> 0]
      /\ openAlerts = {} /\ retired = {} /\ sink = [t \in Names |-> "closed"] /\ tick = [t \in Names |-> Idle]
      /\ reload = NoReload /\ jobs = policy.targets /\ running = TRUE
  BY DEF Init, EngineInit
<1>2. /\ reload \in [pc : {"idle", "resolving"}, new : Policies \cup {NoPolicy},
                    todo : SUBSET Names, at : SUBSET Names]
      /\ reload.pc = "idle"
  BY <1>1 DEF NoReload
<1>3. 0 \in 0 .. MaxCount /\ policy \in PolicyType
  BY <1>1, EngineAssumption
<1>4. TypeOK
  BY <1>1, <1>2, <1>3, IdleType DEF TypeOK, EngineTypeOK, SinkType, PolicyType
<1>5. \A t \in Names : tick[t].pc = "idle"
  BY <1>1 DEF Idle
<1> QED BY <1>1, <1>4, <1>5 DEF IInv, GateInv, ApproverInv, JobsFollowPolicy, NobodyUnknown

LEMMA StartTickIInv ==
  ASSUME IInv, NEW t \in Names, StartTick(t)
  PROVE  IInv' /\ tick'[t].pc = "probing"
<1>1. /\ jobs[t] # NoSpec /\ tick' = [tick EXCEPT ![t] = Started(jobs[t])]
      /\ UNCHANGED <<policy, failures, openAlerts, retired, reload, sink, streak, jobs, running>>
      /\ TypeOK /\ EngineTypeOK /\ tick \in [Names -> TickType]
  BY DEF StartTick, IInv, TypeOK, EngineTypeOK
<1>2. jobs[t] \in Specs /\ t \in Supervised(policy)
  BY <1>1 DEF TypeOK, IInv, JobsFollowPolicy, Supervised
<1>3. ASSUME NEW s \in Specs
      PROVE  Started(s) \in TickType /\ Started(s).pc = "probing" /\ Started(s).spec = s
  BY IdleType DEF Started, TickType
<1>4. /\ tick' \in [Names -> TickType] /\ tick'[t].pc = "probing" /\ tick'[t].spec \in Specs
      /\ \A u \in Names \ {t} : tick'[u] = tick[u]
  BY <1>1, <1>2, <1>3
<1>5. TypeOK' /\ GateInv' /\ ApproverInv'
  BY <1>1, <1>4 DEF IInv, TypeOK, EngineTypeOK, GateInv, ApproverInv
<1>6. Supervised(policy') = Supervised(policy)
  BY <1>1
<1>7. JobsFollowPolicy' /\ NobodyUnknown'
  BY <1>1, <1>2, <1>4, <1>6 DEF IInv, JobsFollowPolicy, NobodyUnknown
<1> QED BY <1>4, <1>5, <1>7 DEF IInv

LEMMA SuperviseIInv ==
  ASSUME IInv, NEW t \in Names, Supervise(t)
  PROVE  IInv'
<1>1. /\ TickStep(t) /\ UNCHANGED <<jobs, running>> /\ EngineTypeOK /\ GateInv
  BY DEF Supervise, IInv, TypeOK
<1>2. /\ UNCHANGED <<policy, retired, reload>> /\ tick[t].pc # "idle"
      /\ \A u \in Names \ {t} : tick'[u] = tick[u]
  BY <1>1, TickStepFrame
<1>3. EngineTypeOK' /\ GateInv' /\ (tick'[t].pc = "approving" => ApproverSuspends)
  BY <1>1, TickStepType, TickStepGate, TickStepStarts
<1>4. Supervised(policy') = Supervised(policy)
  BY <1>2
<1> QED
  BY <1>1, <1>2, <1>3, <1>4
     DEF IInv, TypeOK, ApproverInv, JobsFollowPolicy, NobodyUnknown

(* A reload suspends, with the old jobs, or ends with those of the new      *)
(* policy; whom it removes while in flight is retired.                      *)
LEMMA ReloadIInv ==
  ASSUME IInv, NEW p \in Policies, NEW todo \in SUBSET Names, DropRemoved(p, todo),
         sink' \in SinkType, ReconcileWhenDone(p), UNCHANGED running
  PROVE  IInv'
<1>1. EngineTypeOK /\ GateInv /\ TypeOK
  BY DEF IInv, TypeOK
<1>2. EngineTypeOK' /\ GateInv'
  BY <1>1, ReloadType, ReloadGate
<1>3. \A t \in Names : tick'[t].pc = tick[t].pc
  BY <1>1, ReloadKeepsTicks
<1>4. ApproverInv'
  BY <1>3 DEF IInv, ApproverInv
<1>5. /\ policy.targets \in [Names -> Specs \cup {NoSpec}]
      /\ p.targets \in [Names -> Specs \cup {NoSpec}]
      /\ jobs = policy.targets
  BY <1>1, EngineAssumption DEF EngineTypeOK, PolicyType, IInv, JobsFollowPolicy
<1>6. ASSUME NEW t \in todo, NEW silent \in SUBSET (todo \ openAlerts),
             DropUpTo(p, todo, t, silent)
      PROVE  TypeOK' /\ JobsFollowPolicy' /\ NobodyUnknown'
  <2>1. reload'.pc # "idle" /\ UNCHANGED <<policy, retired>>
    BY <1>6 DEF DropUpTo
  <2>2. UNCHANGED jobs /\ Supervised(policy') = Supervised(policy)
    BY <2>1 DEF ReconcileWhenDone
  <2> QED BY <1>1, <1>2, <1>3, <2>1, <2>2 DEF IInv, TypeOK, JobsFollowPolicy, NobodyUnknown
<1>7. ASSUME DropRestAndInstall(p, todo)
      PROVE  TypeOK' /\ JobsFollowPolicy' /\ NobodyUnknown'
  <2>1. policy' = p /\ reload'.pc = "idle" /\ retired' = (retired \cup Removed(p)) \ Supervised(p)
    BY <1>7 DEF DropRestAndInstall, RetiredAfter, NoReload
  <2>2. Reconcile(p)
    BY <2>1 DEF ReconcileWhenDone
  <2>3. jobs' = p.targets
    <3>1. ASSUME NEW t \in Names PROVE jobs'[t] = p.targets[t]
      BY <1>5, <2>2 DEF Reconcile, Removed, Added, Changed, Supervised
    <3>2. jobs' = [t \in Names |-> jobs'[t]]
      BY <2>2 DEF Reconcile
    <3> QED BY <1>5, <3>1, <3>2
  <2>4. NobodyUnknown'
    BY <1>3, <2>1 DEF IInv, NobodyUnknown, Removed
  <2> QED BY <1>1, <1>2, <1>5, <2>1, <2>3, <2>4 DEF TypeOK, JobsFollowPolicy
<1> QED BY <1>2, <1>4, <1>6, <1>7 DEF IInv, DropRemoved

(* Every step but a stop and a stutter is a step of one supervision, the    *)
(* start of one, or a step of a reload.                                     *)
LEMMA StepKinds ==
  ASSUME IInv, [Next]_vars
  PROVE  \/ \E t \in Names : StartTick(t) \/ Supervise(t)
         \/ \E p \in Policies, todo \in SUBSET Names :
              /\ DropRemoved(p, todo) /\ sink' \in SinkType
              /\ ReconcileWhenDone(p) /\ UNCHANGED running
         \/ Stop
         \/ UNCHANGED vars
<1>1. ASSUME NEW p \in Policies, StartReload(p)
      PROVE  /\ DropRemoved(p, Removed(p)) /\ sink' \in SinkType
             /\ ReconcileWhenDone(p) /\ UNCHANGED running /\ Removed(p) \in SUBSET Names
  BY <1>1 DEF StartReload, BeginReload, Removed, Supervised, IInv, TypeOK, EngineTypeOK
<1>2. ASSUME ContinueReload
      PROVE  /\ DropRemoved(reload.new, reload.todo) /\ sink' \in SinkType
             /\ ReconcileWhenDone(reload.new) /\ UNCHANGED running
             /\ reload.new \in Policies /\ reload.todo \in SUBSET Names
  BY <1>2, DeliverType DEF ContinueReload, ReloadStep, ReloadResolveReturns, IInv, TypeOK, EngineTypeOK
<1> QED BY <1>1, <1>2 DEF Next

LEMMA NextIInv == IInv /\ [Next]_vars => IInv'
<1> SUFFICES ASSUME IInv, [Next]_vars PROVE IInv'
  OBVIOUS
<1>1. CASE Stop
  <2>1. /\ tick' = [t \in Names |-> Idle] /\ running' = FALSE
        /\ UNCHANGED <<policy, failures, openAlerts, retired, reload, sink, streak, jobs>>
    BY <1>1 DEF Stop
  <2>2. \A t \in Names : tick'[t] = Idle /\ tick'[t].pc = "idle"
    BY <2>1, IdleType
  <2>3. tick' \in [Names -> TickType]
    BY <2>1, IdleType
  <2>4. Supervised(policy') = Supervised(policy)
    BY <2>1
  <2> QED BY <2>1, <2>2, <2>3, <2>4
          DEF IInv, TypeOK, EngineTypeOK, GateInv, ApproverInv, JobsFollowPolicy, NobodyUnknown
<1>2. CASE UNCHANGED vars
  <2>1. Supervised(policy') = Supervised(policy)
    BY <1>2 DEF vars, engineVars
  <2> QED BY <1>2, <2>1 DEF vars, engineVars, IInv, TypeOK, EngineTypeOK, GateInv, ApproverInv,
                            JobsFollowPolicy, NobodyUnknown
<1> QED BY <1>1, <1>2, StepKinds, StartTickIInv, SuperviseIInv, ReloadIInv

LEMMA SpecIInv == Spec => []IInv
BY InitIInv, NextIInv, PTL DEF Spec

-----------------------------------------------------------------------------
(* Every variable of the engine and of the scheduler keeps its type.        *)
THEOREM TypesAlways == Spec => []TypeOK
<1>1. IInv => TypeOK
  BY DEF IInv
<1> QED BY <1>1, SpecIInv, PTL

(* However reloads cut into supervisions, the scheduler runs exactly the    *)
(* targets of the policy in force, each with its current content.           *)
THEOREM JobsFollowPolicyAlways == Spec => []JobsFollowPolicy
<1>1. IInv => JobsFollowPolicy
  BY DEF IInv
<1> QED BY <1>1, SpecIInv, PTL

(* Whatever is in flight is supervised or known as retired, so the test     *)
(* after the probe (engine.py:187) misses nobody.                           *)
THEOREM NobodyUnknownAlways == Spec => []NobodyUnknown
<1>1. IInv => NobodyUnknown
  BY DEF IInv
<1> QED BY <1>1, SpecIInv, PTL

(* Without the lock, too, no remediation runs that the autonomy of its step *)
(* does not allow.                                                          *)
THEOREM AllowedAlways == Spec => []ActsOnlyAsAllowed
<1>1. IInv => ActsOnlyAsAllowed
  BY GateAllows DEF IInv, TypeOK
<1> QED BY <1>1, SpecIInv, PTL

(* A probe that returns while its target is retired writes nothing back.    *)
THEOREM RetiredStaysSilentAlways == Spec => RetiredStaysSilent
<1> DEFINE Silent ==
      \A t \in retired \cap retired' :
        failures'[t] <= failures[t] /\ (t \in openAlerts' => t \in openAlerts)
<1>1. ASSUME IInv, [Next]_vars PROVE Silent
  <2>0. /\ failures \in [Names -> 0 .. MaxCount] /\ retired \subseteq Names /\ EngineTypeOK
        /\ MaxCount \in Nat
    BY <1>1, EngineAssumption DEF IInv, TypeOK, EngineTypeOK
  <2>1. CASE UNCHANGED <<failures, openAlerts>>
    BY <2>0, <2>1
  <2>2. ASSUME NEW u \in Names, TickStep(u) PROVE Silent
    <3>1. ASSUME NEW t \in retired PROVE failures'[t] <= failures[t] /\ (t \in openAlerts' => t \in openAlerts)
      <4>1. CASE t # u
        <5>1. failures'[t] = failures[t] /\ (t \in openAlerts' <=> t \in openAlerts)
          BY <2>0, <2>2, <4>1, TickStepFrame
        <5> QED BY <2>0, <5>1
      <4>2. CASE t = u
        <5>1. openAlerts' = openAlerts
              /\ (failures' = failures \/ failures' = [failures EXCEPT ![t] = 0])
          BY <2>2, <4>2
             DEF TickStep, Probe, Resume, ProbeOfRetired, ProbeRaises, ProbeHealthy,
                 ProbeUnhealthy, Dropped, FireReturns, ResolveReturns, ApproverAnswers, ApplyReturns
        <5>2. failures[t] \in 0 .. MaxCount /\ failures'[t] \in {0, failures[t]}
          BY <2>0, <4>2, <5>1
        <5> QED BY <2>0, <5>1, <5>2
      <4> QED BY <4>1, <4>2
    <3> QED BY <3>1
  <2>3. ASSUME NEW p, NEW todo, DropRemoved(p, todo) PROVE Silent
    <3>1. \A t \in Names : failures'[t] \in {0, failures[t]}
      BY <2>3 DEF DropRemoved, DropUpTo, DropRestAndInstall, Cleared
    <3>2. openAlerts' \subseteq openAlerts
      BY <2>3 DEF DropRemoved, DropUpTo, DropRestAndInstall
    <3> QED BY <2>0, <3>1, <3>2
  <2>4. \/ UNCHANGED <<failures, openAlerts>>
        \/ \E u \in Names : TickStep(u)
        \/ \E p, todo : DropRemoved(p, todo)
    BY <1>1, StepKinds DEF StartTick, Supervise, Stop, vars, engineVars
  <2> HIDE DEF Silent
  <2> QED BY <2>1, <2>2, <2>3, <2>4
<1>2. ASSUME IInv, [Next]_vars PROVE [Silent]_vars
  BY <1>1, <1>2
<1> QED BY <1>2, SpecIInv, PTL DEF Spec, RetiredStaysSilent

(* With an approver that answers without suspending, no remediation starts  *)
(* under a frozen policy, though reloads swap the policy at any await.      *)
THEOREM FreezeHoldsAlways ==
  ASSUME ~ ApproverSuspends
  PROVE  Spec => FreezeHolds
<1>1. ASSUME IInv, [Next]_vars
      PROVE  [\A t \in Names : StartsApplying(t) => ~ policy.frozen]_engineVars
  <2>0. EngineTypeOK
    BY <1>1 DEF IInv, TypeOK
  <2>1. ASSUME NEW t \in Names, StartsApplying(t) PROVE ~ policy.frozen
    <3>1. ASSUME NEW u \in Names, Supervise(u) PROVE ~ policy.frozen
      <4>1. TickStep(t)
        BY <2>0, <2>1, <3>1, TickStepFrame DEF Supervise, StartsApplying
      <4> QED BY <1>1, <2>0, <2>1, <4>1, TickStepStarts DEF IInv, ApproverInv
    <3>2. ASSUME NEW u \in Names, StartTick(u) PROVE FALSE
      <4>1. tick'[t].pc = "probing" \/ tick'[t] = tick[t]
        BY <1>1, <2>0, <3>2, StartTickIInv DEF StartTick, EngineTypeOK
      <4> QED BY <2>1, <4>1 DEF StartsApplying
    <3>3. ASSUME NEW p, NEW todo, DropRemoved(p, todo) PROVE FALSE
      BY <2>0, <2>1, <3>3, ReloadKeepsTicks DEF StartsApplying
    <3>4. ~ Stop
      BY <2>1 DEF Stop, Idle, StartsApplying
    <3>5. tick' # tick
      BY <2>1 DEF StartsApplying
    <3> QED BY <1>1, <3>1, <3>2, <3>3, <3>4, <3>5, StepKinds DEF vars, engineVars
  <2> QED BY <2>1
<1> QED BY <1>1, SpecIInv, PTL DEF Spec, FreezeHolds

-----------------------------------------------------------------------------
(* With an alerter that answers without suspending (NullAlerter, when no    *)
(* alert channel is configured) a reload is one step, and what a removed    *)
(* target leaves behind, and what a supervision it has overtaken may still  *)
(* write, are bounded.                                                      *)

(* A target that a reload has touched while its probe ran starts from 0.    *)
CountInv(t) ==
  /\ failures[t] <= streak[t] + 1
  /\ tick[t].pc = "probing" /\ tick[t].stale # "no" => failures[t] = 0
  /\ t \notin Supervised(policy) => failures[t] = 0 /\ t \notin openAlerts

SilentInv == reload.pc = "idle" /\ \A t \in Names : CountInv(t)

(* What a step of a supervision writes to the books of its target.          *)
LEMMA TickStepCounts ==
  ASSUME EngineTypeOK, NEW t \in Names, TickStep(t)
  PROVE  /\ tick'[t].pc # "probing"
         /\ \/ failures'[t] = failures[t] /\ streak'[t] = streak[t]
            \/ failures'[t] = 0 /\ streak'[t] \in {0, streak[t]}
            \/ /\ tick[t].pc = "probing" /\ t \notin retired
               /\ failures'[t] = Bump(failures[t])
               /\ streak'[t] = IF tick[t].stale = "no" THEN Bump(streak[t]) ELSE streak[t]
         /\ t \in retired /\ t \notin openAlerts => t \notin openAlerts'
<1>0. /\ tick \in [Names -> TickType] /\ tick[t] \in TickType
      /\ failures \in [Names -> 0 .. MaxCount] /\ streak \in [Names -> 0 .. MaxCount]
  BY DEF EngineTypeOK
<1>1. Finish(t) => tick'[t].pc = "idle"
  BY <1>0 DEF Finish, Idle
<1>2. \A k, i : /\ Suspend(t, "firing", k, i) => tick'[t].pc = "firing"
                /\ Suspend(t, "resolving", k, i) => tick'[t].pc = "resolving"
                /\ Suspend(t, "approving", k, i) => tick'[t].pc = "approving"
  BY <1>0 DEF Suspend, TickType
<1>3. \A i, yes : Apply(t, i, yes) => tick'[t].pc = "applying"
  BY <1>0 DEF Apply, TickType
<1>4. ASSUME NEW k, SelectAndAct(t, k) PROVE tick'[t].pc # "probing"
  BY <1>1, <1>2, <1>3, <1>4 DEF SelectAndAct
<1>5. CASE ProbeOfRetired(t) \/ ProbeRaises(t)
  BY <1>1, <1>5 DEF ProbeOfRetired, ProbeRaises
<1>6. CASE ProbeHealthy(t)
  BY <1>0, <1>1, <1>2, <1>6 DEF ProbeHealthy
<1>7. CASE ProbeUnhealthy(t)
  BY <1>0, <1>2, <1>4, <1>7 DEF ProbeUnhealthy, Dropped
<1>8. CASE Resume(t)
  BY <1>0, <1>1, <1>3, <1>4, <1>8
     DEF Resume, FireReturns, ResolveReturns, ApproverAnswers, ApplyReturns
<1> QED BY <1>5, <1>6, <1>7, <1>8 DEF TickStep, Probe

(* The arithmetic of one more failure, counted or not, at the saturation    *)
(* point too.                                                               *)
LEMMA BumpBounds ==
  ASSUME NEW f \in 0 .. MaxCount, NEW s \in 0 .. MaxCount, f <= s + 1
  PROVE  /\ Bump(f) <= Bump(s) + 1
         /\ f = 0 => Bump(f) <= s + 1
BY EngineAssumption DEF Bump

LEMMA SuperviseSilentInv ==
  ASSUME IInv, SilentInv, NEW t \in Names, TickStep(t)
  PROVE  SilentInv'
<1>0. EngineTypeOK /\ reload.pc = "idle" /\ CountInv(t)
  BY DEF IInv, TypeOK, SilentInv
<1>1. /\ UNCHANGED <<policy, retired, reload>> /\ tick[t].pc # "idle"
      /\ \A u \in Names \ {t} :
           /\ tick'[u] = tick[u] /\ failures'[u] = failures[u] /\ streak'[u] = streak[u]
           /\ u \in openAlerts' <=> u \in openAlerts
  BY <1>0, TickStepFrame
<1>2. Supervised(policy') = Supervised(policy)
  BY <1>1
<1>3. ASSUME NEW u \in Names \ {t} PROVE CountInv(u)'
  BY <1>1, <1>2 DEF SilentInv, CountInv
<1>4. CountInv(t)'
  <2>1. failures[t] \in 0 .. MaxCount /\ streak[t] \in 0 .. MaxCount
    BY <1>0 DEF EngineTypeOK
  <2>2. failures[t] <= streak[t] + 1
    BY <1>0 DEF CountInv
  <2>3. tick'[t].pc # "probing"
    BY <1>0, TickStepCounts
  <2>4. t \notin Supervised(policy) =>
          failures'[t] = 0 /\ t \notin openAlerts'
    <3>1. t \notin Supervised(policy) => t \in retired /\ failures[t] = 0 /\ t \notin openAlerts
      BY <1>0, <1>1 DEF IInv, NobodyUnknown, CountInv
    <3> QED BY <1>0, <3>1, TickStepCounts
  <2>5. failures'[t] <= streak'[t] + 1
    <3>1. CASE failures'[t] = failures[t] /\ streak'[t] = streak[t]
      BY <2>2, <3>1
    <3>2. CASE failures'[t] = 0 /\ streak'[t] \in {0, streak[t]}
      BY <2>1, <3>2
    <3>3. CASE /\ tick[t].pc = "probing"
               /\ failures'[t] = Bump(failures[t])
               /\ streak'[t] = IF tick[t].stale = "no" THEN Bump(streak[t]) ELSE streak[t]
      <4>1. tick[t].stale # "no" => failures[t] = 0
        BY <1>0, <3>3 DEF CountInv
      <4> QED BY <2>1, <2>2, <3>3, <4>1, BumpBounds
    <3> QED BY <1>0, <3>1, <3>2, <3>3, TickStepCounts
  <2> QED BY <1>2, <2>3, <2>4, <2>5 DEF CountInv
<1> QED BY <1>0, <1>1, <1>3, <1>4 DEF SilentInv

(* The reload clears the counter of every target it removes or changes, and *)
(* an added one had none.                                                   *)
LEMMA ReloadSilentInv ==
  ASSUME IInv, SilentInv, NEW p \in Policies, DropRestAndInstall(p, Removed(p))
  PROVE  SilentInv'
<1>0. /\ EngineTypeOK /\ failures \in [Names -> 0 .. MaxCount]
      /\ streak \in [Names -> 0 .. MaxCount] /\ tick \in [Names -> TickType]
  BY DEF IInv, TypeOK, EngineTypeOK
<1>1. /\ policy' = p /\ reload'.pc = "idle" /\ openAlerts' = openAlerts \ Removed(p)
      /\ \A t \in Names :
           /\ failures'[t] = IF t \in Removed(p) \cup Changed(p) THEN 0 ELSE failures[t]
           /\ streak'[t] = IF t \in Touched(p) THEN 0 ELSE streak[t]
  BY DEF DropRestAndInstall, Restarts, Cleared, NoReload
<1>2. ASSUME NEW t \in Names, t \notin Touched(p) PROVE tick'[t] = tick[t]
  BY <1>2 DEF DropRestAndInstall
<1>3. ASSUME NEW t \in Names PROVE CountInv(t)'
  <2>1. CountInv(t) /\ failures[t] \in Nat /\ streak[t] \in Nat
    BY <1>0, EngineAssumption DEF SilentInv
  <2>2. CASE t \in Touched(p)
    <3>1. t \in Added(p) => failures[t] = 0
      BY <2>1 DEF Added, CountInv
    <3>2. failures'[t] = 0 /\ streak'[t] = 0
      BY <1>1, <2>2, <3>1 DEF Touched
    <3>3. t \notin Supervised(p) => t \notin openAlerts'
      BY <1>1, <2>1 DEF Removed, CountInv
    <3> QED BY <1>1, <3>2, <3>3 DEF CountInv
  <2>3. CASE t \notin Touched(p)
    <3>1. failures'[t] = failures[t] /\ streak'[t] = streak[t] /\ tick'[t] = tick[t]
      BY <1>1, <1>2, <2>3 DEF Touched
    <3>2. (t \in Supervised(p) <=> t \in Supervised(policy)) /\ openAlerts' \subseteq openAlerts
      BY <1>1, <2>3 DEF Touched, Removed, Added, Supervised
    <3> QED BY <1>1, <2>1, <3>1, <3>2 DEF CountInv
  <2> QED BY <2>2, <2>3
<1> QED BY <1>1, <1>3 DEF SilentInv

(* With such an alerter a reload never suspends.                            *)
LEMMA SilentStepKinds ==
  ASSUME ~ AlerterSuspends, SilentInv, [Next]_vars
  PROVE  \/ \E t \in Names : StartTick(t) \/ Supervise(t)
         \/ \E p \in Policies : DropRestAndInstall(p, Removed(p))
         \/ Stop
         \/ UNCHANGED vars
BY DEF Next, StartReload, BeginReload, DropRemoved, DropUpTo, ContinueReload, ReloadStep,
       ReloadResolveReturns, SilentInv

LEMMA NextSilentInv ==
  ASSUME ~ AlerterSuspends, IInv, SilentInv, [Next]_vars
  PROVE  SilentInv'
<1>1. ASSUME NEW t \in Names, StartTick(t) PROVE SilentInv'
  <2>1. /\ UNCHANGED <<policy, failures, openAlerts, streak, reload>>
        /\ tick' = [tick EXCEPT ![t] = Started(jobs[t])] /\ tick \in [Names -> TickType]
    BY <1>1 DEF StartTick, IInv, TypeOK, EngineTypeOK
  <2>2. Started(jobs[t]).stale = "no"
    BY DEF Started, Idle
  <2>3. \A u \in Names : tick'[u].stale # "no" => tick'[u] = tick[u]
    BY <2>1, <2>2
  <2>4. Supervised(policy') = Supervised(policy)
    BY <2>1
  <2> QED BY <2>1, <2>3, <2>4 DEF SilentInv, CountInv
<1>2. ASSUME NEW t \in Names, Supervise(t) PROVE SilentInv'
  BY <1>2, SuperviseSilentInv DEF Supervise
<1>3. CASE Stop
  <2>1. /\ UNCHANGED <<policy, failures, openAlerts, streak, reload>>
        /\ \A u \in Names : tick'[u].pc = "idle"
    BY <1>3, IdleType DEF Stop
  <2>2. Supervised(policy') = Supervised(policy)
    BY <2>1
  <2> QED BY <2>1, <2>2 DEF SilentInv, CountInv
<1>4. CASE UNCHANGED vars
  <2>1. UNCHANGED <<policy, failures, openAlerts, streak, reload, tick>>
    BY <1>4 DEF vars, engineVars
  <2>2. Supervised(policy') = Supervised(policy)
    BY <2>1
  <2> QED BY <2>1, <2>2 DEF SilentInv, CountInv
<1> QED BY <1>1, <1>2, <1>3, <1>4, SilentStepKinds, ReloadSilentInv

LEMMA SpecSilentInv ==
  ASSUME ~ AlerterSuspends
  PROVE  Spec => []SilentInv
<1>1. Init => SilentInv
  BY DEF Init, EngineInit, NoReload, Idle, SilentInv, CountInv
<1>2. IInv /\ SilentInv /\ [Next]_vars => SilentInv'
  BY NextSilentInv
<1> QED BY <1>1, <1>2, SpecIInv, PTL DEF Spec

(* A supervision that a reload has overtaken adds at most one failure that  *)
(* is not the current target's own, however many reloads touch the target   *)
(* and however long its probe hangs, provided that no alert channel         *)
(* suspends a reload half way (engine.py:130-148, 184-199).                 *)
THEOREM MiscountsAtMostOnceAlways ==
  ASSUME ~ AlerterSuspends
  PROVE  Spec => []MiscountsAtMostOnce
<1>1. SilentInv => MiscountsAtMostOnce
  BY DEF SilentInv, CountInv, MiscountsAtMostOnce
<1> QED BY <1>1, SpecSilentInv, PTL

(* Under the same proviso a removed target keeps neither counter nor alert  *)
(* without the lock too: a probe that returns after the reload writes       *)
(* nothing (engine.py:126-129, 184-189).                                    *)
THEOREM RemovedLosesStateAlways ==
  ASSUME ~ AlerterSuspends
  PROVE  Spec => []RemovedLosesState
<1>1. SilentInv => RemovedLosesState
  BY DEF SilentInv, CountInv, RemovedLosesState
<1> QED BY <1>1, SpecSilentInv, PTL

(* And the engine implements AlertContract under the scheduler as it does   *)
(* under the lock: only a supervised target ever has an alert opened.       *)
THEOREM SilentRefinesAlertContract ==
  ASSUME ~ AlerterSuspends
  PROVE  Spec => ImplementsAlertContract
<1>1. Init => Contract!Init
  BY DEF Init, EngineInit, Contract!Init, Supervised
<1>2. ASSUME IInv, SilentInv, [Next]_vars
      PROVE  [Contract!Next]_(Contract!contractVars)
  <2>1. CASE UNCHANGED <<policy, openAlerts>>
    BY <2>1 DEF Contract!contractVars
  <2>2. ASSUME NEW t \in Names, TickStep(t)
        PROVE  [Contract!Next]_(Contract!contractVars)
    <3>1. policy' = policy /\ EngineTypeOK /\ (t \in Supervised(policy) \/ t \in retired)
      BY <1>2, <2>2, TickStepFrame DEF IInv, TypeOK, NobodyUnknown
    <3>2. \/ openAlerts' = openAlerts
          \/ t \notin openAlerts /\ openAlerts' = openAlerts \cup {t}
          \/ t \in openAlerts /\ openAlerts' = openAlerts \ {t}
      BY <2>2 DEF TickStep, Probe, Resume, ProbeOfRetired, ProbeRaises, ProbeHealthy, ProbeUnhealthy,
         FireReturns, ResolveReturns, ApproverAnswers, ApplyReturns
    <3>3. t \notin openAlerts /\ openAlerts' = openAlerts \cup {t} => t \in Supervised(policy)
      BY <2>2, <3>1, TickStepCounts
    <3> QED BY <3>1, <3>2, <3>3
            DEF Contract!Next, Contract!Open, Contract!Close, Contract!contractVars
  <2>3. ASSUME NEW p \in Policies, DropRestAndInstall(p, Removed(p))
        PROVE  [Contract!Next]_(Contract!contractVars)
    <3>1. policy' = p /\ openAlerts' = openAlerts \ Removed(p)
      BY <2>3 DEF DropRestAndInstall
    <3>2. openAlerts \subseteq Supervised(policy) /\ Supervised(p) \in SUBSET Names
      BY <1>2 DEF SilentInv, CountInv, IInv, TypeOK, EngineTypeOK, Supervised
    <3>3. openAlerts \ Removed(p) = openAlerts \cap Supervised(p)
      BY <3>2 DEF Removed
    <3> QED BY <3>1, <3>2, <3>3 DEF Contract!Next, Contract!Retarget
  <2> QED
    BY <1>2, <2>1, <2>2, <2>3, SilentStepKinds
       DEF StartTick, Supervise, Stop, vars, engineVars
<1> QED BY <1>1, <1>2, SpecIInv, SpecSilentInv, PTL
        DEF Spec, ImplementsAlertContract, Contract!Spec
=============================================================================
