------------------------------- MODULE TopProofs -------------------------------
(***************************************************************************)
(* The engine under its lock, and the dashboards that run it, for all      *)
(* names, contents, ladders, policies, callers and alert channels.  IInv   *)
(* is the inductive invariant of Cycle: what the lock guards, why a target *)
(* that is not supervised has nothing left, and what evidence a            *)
(* supervision carries in its local variables.  The dashboards implement   *)
(* Cycle step by step, so that all of it is theirs as well; with it,       *)
(* ClickInv shows that a click is good for one applied action.             *)
(***************************************************************************)
EXTENDS Top, EngineProofs

-----------------------------------------------------------------------------
(* The engine under its lock.                                               *)

(* Only supervised targets are probed, and no reload overlaps a probe.      *)
InFlightInv ==
  \A t \in Names : /\ tick[t].pc # "idle" => t \in Supervised(policy)
                   /\ tick[t].stale = "no"

(* A reload suspended half way still has to drop `todo', and has dropped    *)
(* the other removed targets completely.                                    *)
DroppedInv ==
  /\ \A t \in Names \ Supervised(policy) : failures[t] = 0 /\ t \notin openAlerts
  /\ reload.pc # "idle" =>
       /\ reload.todo \subseteq Removed(reload.new)
       /\ \A t \in Removed(reload.new) \ reload.todo : failures[t] = 0 /\ t \notin openAlerts

(* Nobody waits for the approver under a freeze.                            *)
UnfrozenInv ==
  \A t \in Names : tick[t].pc = "approving" => ~ policy.frozen /\ ApproverSuspends

EvidenceInv == \A t \in Names : LocalEvidence(t)

IInv == /\ TypeOK /\ GateInv /\ LockGuards /\ InFlightInv
        /\ DroppedInv /\ EvidenceInv /\ UnfrozenInv

-----------------------------------------------------------------------------
LEMMA InitIInv == Init => IInv
<1> SUFFICES ASSUME Init PROVE IInv
  OBVIOUS
<1>1. /\ policy \in Policies /\ failures = [t \in Names |-> 0] /\ streak = [t \in Names |-> 0]
      /\ openAlerts = {} /\ retired = {} /\ sink = [t \in Names |-> "closed"] /\ tick = [t \in Names |-> Idle]
      /\ reload = NoReload /\ lock = Free /\ waiters = << >> /\ next = policy /\ orphans = {}
  BY DEF Init, EngineInit
<1>2. EngineTypeOK
  <2>1. reload \in [pc : {"idle", "resolving"}, new : Policies \cup {NoPolicy},
                    todo : SUBSET Names, at : SUBSET Names]
        /\ reload.pc = "idle"
    BY <1>1 DEF NoReload
  <2>2. 0 \in 0 .. MaxCount /\ policy \in PolicyType
    BY <1>1, EngineAssumption
  <2> QED BY <1>1, <2>1, <2>2, IdleType DEF EngineTypeOK, SinkType
<1>3. TypeOK
  BY <1>1, <1>2 DEF TypeOK
<1>4. \A t \in Names : tick[t].pc = "idle" /\ tick[t].stale = "no" /\ failures[t] = 0 /\ streak[t] = 0
  BY <1>1 DEF Idle
<1>5. reload.pc = "idle"
  BY <1>1 DEF NoReload
<1> QED BY <1>1, <1>3, <1>4, <1>5
        DEF IInv, GateInv, LockGuards, AtRest, InFlightInv, DroppedInv, EvidenceInv,
            LocalEvidence, UnfrozenInv

(* The steps that move only the lock, its queue and the orphans.            *)
LEMMA QueueTypes ==
  ASSUME TypeOK
  PROVE  /\ \A c \in Callers \cup {Reloader} :
              Append(waiters, c) \in Seq(Callers \cup {Reloader})
         /\ waiters # << >> => Tail(waiters) \in Seq(Callers \cup {Reloader})
         /\ \A i \in DOMAIN waiters :
              SubSeq(waiters, 1, i - 1) \o SubSeq(waiters, i + 1, Len(waiters))
                \in Seq(Callers \cup {Reloader})
<1>1. waiters \in Seq(Callers \cup {Reloader})
  BY DEF TypeOK
<1>2. \A c \in Callers \cup {Reloader} : Append(waiters, c) \in Seq(Callers \cup {Reloader})
  BY <1>1, AppendProperties
<1>3. waiters # << >> => Tail(waiters) \in Seq(Callers \cup {Reloader})
  BY <1>1, HeadTailProperties
<1>4. ASSUME NEW i \in DOMAIN waiters
      PROVE  SubSeq(waiters, 1, i - 1) \o SubSeq(waiters, i + 1, Len(waiters))
               \in Seq(Callers \cup {Reloader})
  <2>1. i \in 1 .. Len(waiters) /\ Len(waiters) \in Nat
    BY <1>1, LenProperties
  <2>2. /\ SubSeq(waiters, 1, i - 1) \in Seq(Callers \cup {Reloader})
        /\ SubSeq(waiters, i + 1, Len(waiters)) \in Seq(Callers \cup {Reloader})
    BY <1>1, <2>1
  <2> QED BY <2>2, ConcatProperties
<1> QED BY <1>2, <1>3, <1>4

(* A supervision in flight holds the cycle's lock, so no reload is under    *)
(* way and its target is supervised.                                        *)
LEMMA InFlight ==
  ASSUME IInv, NEW t \in Names, tick[t].pc # "idle"
  PROVE  lock \in Callers /\ reload.pc = "idle" /\ t \in Supervised(policy)
BY CycleAssumption DEF IInv, LockGuards, AtRest, InFlightInv, TypeOK, EngineTypeOK

LEMMA SuperviseIInv ==
  ASSUME IInv, NEW t \in Names, Supervise(t)
  PROVE  IInv'
<1>1. /\ TickStep(t) /\ UNCHANGED <<lock, waiters, next, orphans>>
      /\ EngineTypeOK /\ GateInv /\ tick[t].stale = "no" /\ LocalEvidence(t)
  BY DEF Supervise, IInv, TypeOK, InFlightInv, EvidenceInv
<1>2. /\ UNCHANGED <<policy, retired, reload>> /\ tick[t].pc # "idle"
      /\ \A u \in Names \ {t} :
           /\ tick'[u] = tick[u] /\ failures'[u] = failures[u] /\ streak'[u] = streak[u]
           /\ u \in openAlerts' <=> u \in openAlerts
  BY <1>1, TickStepFrame
<1>3. lock \in Callers /\ reload.pc = "idle" /\ t \in Supervised(policy)
  BY <1>2, InFlight
<1>4. LocalEvidence(t)' /\ tick'[t].stale = "no"
      /\ (tick'[t].pc = "approving" => ~ policy.frozen /\ ApproverSuspends)
  BY <1>1, TickStepEvidence
<1>5. TypeOK' /\ GateInv'
  BY <1>1, TickStepType, TickStepGate DEF IInv, TypeOK
<1>6. LockGuards'
  BY <1>1, <1>2, <1>3 DEF LockGuards, AtRest
<1>7. Supervised(policy') = Supervised(policy)
  BY <1>2
<1>8. InFlightInv'
  BY <1>2, <1>3, <1>4, <1>7 DEF IInv, InFlightInv
<1>9. DroppedInv'
  BY <1>2, <1>3, <1>7 DEF IInv, DroppedInv
<1>10. EvidenceInv'
  <2>1. ASSUME NEW u \in Names \ {t} PROVE LocalEvidence(u)'
    BY <1>2 DEF IInv, EvidenceInv, LocalEvidence
  <2> QED BY <1>4, <2>1 DEF EvidenceInv
<1>11. UnfrozenInv'
  BY <1>2, <1>4 DEF IInv, UnfrozenInv
<1> QED BY <1>5, <1>6, <1>8, <1>9, <1>10, <1>11 DEF IInv

(* The steps that move the lock, its queue and the orphans alone.           *)
LEMMA QueueIInv ==
  ASSUME IInv, TypeOK', UNCHANGED engineVars, lock' = lock \/ (lock' = Free /\ AtRest /\ lock \in Callers)
  PROVE  IInv'
<1>1. Supervised(policy') = Supervised(policy) /\ (AtRest' <=> AtRest)
  BY DEF engineVars, AtRest
<1>2. GateInv' /\ InFlightInv' /\ UnfrozenInv' /\ EvidenceInv'
  BY <1>1 DEF IInv, engineVars, GateInv, InFlightInv, UnfrozenInv, EvidenceInv, LocalEvidence
<1>3. DroppedInv'
  BY <1>1 DEF IInv, engineVars, DroppedInv, Removed
<1>4. LockGuards'
  BY <1>1, CycleAssumption DEF IInv, engineVars, LockGuards
<1> QED BY <1>2, <1>3, <1>4 DEF IInv

(* The steps that leave every supervision at rest, or just started, and no  *)
(* other part of the engine touched.                                        *)
LEMMA BeginCycleIInv ==
  ASSUME IInv, NEW c \in Callers, BeginCycle(c)
  PROVE  IInv'
<1>1. /\ lock = Free /\ lock' = c /\ waiters # << >> /\ waiters' = Tail(waiters)
      /\ UNCHANGED <<policy, failures, openAlerts, retired, reload, sink, streak, next, orphans>>
      /\ tick' = [t \in Names |-> IF t \in Supervised(policy)
                                  THEN Started(policy.targets[t]) ELSE Idle]
  BY DEF BeginCycle, Acquire
<1>2. reload.pc = "idle" /\ TypeOK /\ EngineTypeOK
  BY <1>1, CycleAssumption DEF IInv, LockGuards, TypeOK
<1>3. ASSUME NEW t \in Names
      PROVE  /\ tick'[t] \in TickType /\ tick'[t].pc \in {"idle", "probing"}
             /\ tick'[t].stale = "no"
             /\ tick'[t].pc # "idle" => t \in Supervised(policy) /\ tick'[t].spec \in Specs
  <2>1. CASE t \in Supervised(policy)
    <3>1. policy.targets[t] \in Specs
      BY <1>2, <2>1 DEF Supervised, EngineTypeOK, PolicyType
    <3>2. ASSUME NEW s \in Specs
          PROVE  /\ Started(s) \in TickType /\ Started(s).pc = "probing"
                 /\ Started(s).stale = "no" /\ Started(s).spec = s
      <4>1. Idle.stale = "no" /\ Idle \in TickType
        BY IdleType DEF Idle
      <4> QED BY <4>1 DEF Started, TickType
    <3> QED BY <1>1, <2>1, <3>1, <3>2
  <2>2. CASE t \notin Supervised(policy)
    <3>1. tick'[t] = Idle
      BY <1>1, <2>2
    <3> QED BY <3>1, IdleType DEF Idle
  <2> QED BY <2>1, <2>2
<1>4. TypeOK'
  <2>1. tick' \in [Names -> TickType]
    <3>1. tick' = [t \in Names |-> tick'[t]]
      BY <1>1
    <3> QED BY <1>3, <3>1
  <2>2. waiters' \in Seq(Callers \cup {Reloader})
    BY <1>1, <1>2, QueueTypes
  <2> QED BY <1>1, <1>2, <1>3, <2>1, <2>2 DEF TypeOK, EngineTypeOK
<1>5. Supervised(policy') = Supervised(policy)
  BY <1>1
<1>6. GateInv' /\ LockGuards' /\ InFlightInv' /\ UnfrozenInv'
  BY <1>1, <1>2, <1>3, <1>5 DEF GateInv, LockGuards, InFlightInv, UnfrozenInv
<1>7. DroppedInv'
  BY <1>1, <1>2, <1>5 DEF IInv, DroppedInv
<1>8. EvidenceInv'
  BY <1>1, <1>3 DEF IInv, EvidenceInv, LocalEvidence
<1> QED BY <1>4, <1>6, <1>7, <1>8 DEF IInv

LEMMA CancelCycleIInv ==
  ASSUME IInv, NEW c \in Callers, CancelCycle(c)
  PROVE  IInv'
<1>1. /\ lock = c /\ lock' = Free /\ tick' = [t \in Names |-> Idle]
      /\ UNCHANGED <<policy, failures, openAlerts, retired, reload, sink, streak, waiters, next>>
      /\ orphans' = orphans \cup {t \in Names : tick[t].pc = "applying"}
  BY DEF CancelCycle
<1>2. \A t \in Names : tick'[t] = Idle /\ tick'[t].pc = "idle" /\ tick'[t].stale = "no"
  BY <1>1 DEF Idle
<1>3. reload.pc = "idle"
  BY <1>1, CycleAssumption DEF IInv, LockGuards
<1>4. TypeOK'
  <2>1. tick' \in [Names -> TickType] /\ orphans' \subseteq Names
    BY <1>1, IdleType DEF IInv, TypeOK
  <2> QED BY <1>1, <1>2, <2>1 DEF IInv, TypeOK, EngineTypeOK
<1>5. Supervised(policy') = Supervised(policy)
  BY <1>1
<1>6. GateInv' /\ LockGuards' /\ InFlightInv' /\ UnfrozenInv'
  BY <1>1, <1>2, <1>3, <1>5 DEF GateInv, LockGuards, InFlightInv, UnfrozenInv, AtRest
<1>7. DroppedInv' /\ EvidenceInv'
  BY <1>1, <1>2, <1>3, <1>5 DEF IInv, DroppedInv, EvidenceInv, LocalEvidence
<1> QED BY <1>4, <1>6, <1>7 DEF IInv

LEMMA ToggleFreezeIInv ==
  ASSUME IInv, ToggleFreeze
  PROVE  IInv'
<1>1. /\ OperatorFreezes /\ policy' = [policy EXCEPT !.frozen = ~ @]
      /\ UNCHANGED <<failures, openAlerts, retired, tick, reload, sink, streak,
                     lock, waiters, next, orphans>>
      /\ policy \in PolicyType
  BY DEF ToggleFreeze, IInv, TypeOK, EngineTypeOK
<1>2. policy' \in PolicyType /\ policy'.targets = policy.targets
  BY <1>1 DEF PolicyType
<1>3. Supervised(policy') = Supervised(policy) /\ (AtRest' <=> AtRest)
  BY <1>1, <1>2 DEF Supervised, AtRest
<1>4. TypeOK' /\ GateInv' /\ LockGuards' /\ InFlightInv' /\ EvidenceInv'
  BY <1>1, <1>2, <1>3
     DEF IInv, TypeOK, EngineTypeOK, GateInv, LockGuards, InFlightInv, EvidenceInv, LocalEvidence
<1>5. DroppedInv'
  BY <1>1, <1>3 DEF IInv, DroppedInv, Removed
<1>6. UnfrozenInv'
  BY <1>1, CycleAssumption DEF IInv, UnfrozenInv
<1> QED BY <1>4, <1>5, <1>6 DEF IInv

-----------------------------------------------------------------------------
(* A reload, under the lock: every supervision is at rest.                  *)

(* The loop over the removed targets, from the point where `todo' is left   *)
(* of them, suspends with less left to do, or installs the new policy.      *)
LEMMA DropRemovedInv ==
  ASSUME EngineTypeOK, AtRest, GateInv, InFlightInv, EvidenceInv,
         \A t \in Names \ Supervised(policy) : failures[t] = 0 /\ t \notin openAlerts,
         NEW p \in Policies, NEW todo \in SUBSET Removed(p),
         \A t \in Removed(p) \ todo : failures[t] = 0 /\ t \notin openAlerts,
         DropRemoved(p, todo), sink' \in SinkType
  PROVE  /\ EngineTypeOK' /\ AtRest' /\ GateInv' /\ InFlightInv' /\ EvidenceInv'
         /\ UnfrozenInv' /\ DroppedInv'
<1>0. /\ failures \in [Names -> 0 .. MaxCount] /\ streak \in [Names -> 0 .. MaxCount]
      /\ MaxCount \in Nat
      /\ todo \subseteq Names
      /\ \A t \in Names : failures[t] <= streak[t]
  BY EngineAssumption DEF EngineTypeOK, Removed, Supervised, EvidenceInv, LocalEvidence
<1>1. EngineTypeOK'
  BY <1>0, ReloadType
<1>2. \A t \in Names : tick'[t] = tick[t] /\ tick'[t].pc = "idle"
  BY ReloadKeepsTicks DEF AtRest
<1>3. AtRest' /\ GateInv' /\ InFlightInv' /\ UnfrozenInv'
  BY <1>2 DEF AtRest, GateInv, InFlightInv, UnfrozenInv
<1>4. ASSUME NEW t \in todo, NEW silent \in SUBSET (todo \ openAlerts),
             DropUpTo(p, todo, t, silent)
      PROVE  DroppedInv' /\ EvidenceInv'
  <2>1. /\ policy' = policy /\ streak' = streak /\ openAlerts' = openAlerts \ {t}
        /\ reload'.new = p /\ reload'.todo = todo \ (silent \cup {t})
        /\ \A u \in Names : failures'[u] = IF u \in silent \cup {t} THEN 0 ELSE failures[u]
    BY <1>4 DEF DropUpTo, Cleared
  <2>2. DroppedInv'
    <3>1. Removed(p)' = Removed(p) /\ Supervised(policy') = Supervised(policy)
      BY <2>1 DEF Removed
    <3>2. \A u \in Names \ Supervised(policy) : failures'[u] = 0 /\ u \notin openAlerts'
      BY <2>1
    <3>3. \A u \in Removed(p) \ (todo \ (silent \cup {t})) : failures'[u] = 0 /\ u \notin openAlerts'
      <4>1. Removed(p) \subseteq Names
        BY DEF Removed, Supervised
      <4> QED BY <1>4, <2>1, <4>1
    <3> QED BY <2>1, <3>1, <3>2, <3>3 DEF DroppedInv, Removed
  <2>3. EvidenceInv'
    BY <1>0, <1>2, <2>1 DEF EvidenceInv, LocalEvidence
  <2> QED BY <2>2, <2>3
<1>5. ASSUME DropRestAndInstall(p, todo) PROVE DroppedInv' /\ EvidenceInv'
  <2>1. /\ policy' = p /\ openAlerts' = openAlerts \ todo /\ reload'.pc = "idle"
        /\ \A u \in Names :
             /\ failures'[u] = IF u \in todo \cup Changed(p) THEN 0 ELSE failures[u]
             /\ streak'[u] = IF u \in Touched(p) THEN 0 ELSE streak[u]
    BY <1>5 DEF DropRestAndInstall, Restarts, Cleared, NoReload
  <2>2. DroppedInv'
    <3>1. ASSUME NEW u \in Names \ Supervised(p)
          PROVE  failures'[u] = 0 /\ u \notin openAlerts'
      BY <2>1, <3>1 DEF Removed
    <3> QED BY <2>1, <3>1 DEF DroppedInv
  <2>3. EvidenceInv'
    <3>1. ASSUME NEW u \in Names PROVE failures'[u] <= streak'[u]
      <4>1. failures[u] \in Nat /\ streak[u] \in Nat /\ failures[u] <= streak[u]
        BY <1>0
      <4>2. CASE u \in Touched(p)
        <5>1. u \in Changed(p) \/ u \in Removed(p) \/ u \in Added(p)
          BY <4>2 DEF Touched
        <5>2. u \in Added(p) => failures[u] = 0
          BY DEF Added
        <5>3. u \in Changed(p) \/ u \in todo \/ failures[u] = 0
          BY <5>1, <5>2
        <5> QED BY <2>1, <4>2, <5>3
      <4>3. CASE u \notin Touched(p)
        BY <2>1, <4>1, <4>3 DEF Touched
      <4> QED BY <4>2, <4>3
    <3> QED BY <1>2, <3>1 DEF EvidenceInv, LocalEvidence
  <2> QED BY <2>2, <2>3
<1>6. DroppedInv' /\ EvidenceInv'
  BY <1>4, <1>5 DEF DropRemoved
<1> QED BY <1>1, <1>3, <1>6

LEMMA ReloadIInv ==
  ASSUME IInv, StartApplyPolicy \/ ContinueApplyPolicy
  PROVE  IInv'
<1>1. PICK p \in Policies, todo \in SUBSET Names :
        /\ todo \subseteq Removed(p)
        /\ DropRemoved(p, todo) /\ sink' \in SinkType
        /\ \A t \in Removed(p) \ todo : failures[t] = 0 /\ t \notin openAlerts
  <2>1. CASE StartApplyPolicy
    <3>1. Removed(next) \subseteq Names
      BY DEF Removed, Supervised
    <3> QED BY <2>1, <3>1 DEF StartApplyPolicy, BeginReload, IInv, TypeOK, EngineTypeOK
  <2>2. CASE ContinueApplyPolicy
    <3>1. reload.new \in Policies /\ reload.todo \subseteq Removed(reload.new)
          /\ (\A t \in Removed(reload.new) \ reload.todo : failures[t] = 0 /\ t \notin openAlerts)
          /\ DropRemoved(reload.new, reload.todo) /\ sink' \in SinkType
      BY <2>2, DeliverType
         DEF ContinueApplyPolicy, ReloadStep, ReloadResolveReturns, IInv, DroppedInv,
             TypeOK, EngineTypeOK
    <3>2. reload.todo \in SUBSET Names
      BY DEF IInv, TypeOK, EngineTypeOK
    <3> QED BY <3>1, <3>2
  <2> QED BY <2>1, <2>2
<1>2. AtRest
  BY CycleAssumption DEF StartApplyPolicy, ContinueApplyPolicy, ReloadStep, ReloadResolveReturns,
     IInv, LockGuards
<1>3. /\ EngineTypeOK' /\ AtRest' /\ GateInv' /\ InFlightInv' /\ EvidenceInv'
      /\ UnfrozenInv' /\ DroppedInv'
  BY <1>1, <1>2, DropRemovedInv DEF IInv, TypeOK, DroppedInv
<1>4. LockGuards' /\ lock' \in Callers \cup {Reloader, Free}
  BY <1>3 DEF StartApplyPolicy, ContinueApplyPolicy, ReleaseWhenDone, LockGuards
<1>5. waiters' \in Seq(Callers \cup {Reloader}) /\ next' \in Policies /\ orphans' \subseteq Names
  BY QueueTypes DEF StartApplyPolicy, ContinueApplyPolicy, IInv, TypeOK
<1> QED BY <1>3, <1>4, <1>5 DEF IInv, TypeOK

-----------------------------------------------------------------------------
(* IInv is inductive.                                                       *)
LEMMA NextIInv == IInv /\ [Next]_vars => IInv'
<1> SUFFICES ASSUME IInv, [Next]_vars PROVE IInv'
  OBVIOUS
<1>0. TypeOK
  BY DEF IInv
<1>1. CASE UNCHANGED vars
  <2>1. UNCHANGED engineVars /\ UNCHANGED <<lock, waiters, next, orphans>>
    BY <1>1 DEF vars
  <2>2. TypeOK'
    BY <1>0, <2>1 DEF engineVars, TypeOK, EngineTypeOK
  <2> QED BY <2>1, <2>2, QueueIInv
<1>2. ASSUME NEW c \in Callers, CallRunCycle(c) PROVE IInv'
  <2>1. TypeOK'
    BY <1>2, <1>0, QueueTypes DEF CallRunCycle, Enqueue, engineVars, TypeOK, EngineTypeOK
  <2> QED BY <1>2, <2>1, QueueIInv DEF CallRunCycle
<1>3. ASSUME NEW c \in Callers, EndCycle(c) PROVE IInv'
  <2>1. TypeOK'
    BY <1>0, <1>3 DEF EndCycle, engineVars, TypeOK, EngineTypeOK
  <2> QED BY <1>3, <2>1, QueueIInv DEF EndCycle
<1>4. ASSUME NEW i \in DOMAIN waiters, CancelWaiting(i) PROVE IInv'
  <2>1. TypeOK'
    BY <1>4, <1>0, QueueTypes DEF CancelWaiting, engineVars, TypeOK, EngineTypeOK
  <2> QED BY <1>4, <2>1, QueueIInv DEF CancelWaiting
<1>5. ASSUME NEW t \in Names, OrphanExits(t) PROVE IInv'
  <2>1. TypeOK'
    BY <1>0, <1>5 DEF OrphanExits, engineVars, TypeOK, EngineTypeOK
  <2> QED BY <1>5, <2>1, QueueIInv DEF OrphanExits
<1>6. ASSUME NEW p \in Policies, CallApplyPolicy(p) PROVE IInv'
  <2>1. TypeOK'
    BY <1>6, <1>0, QueueTypes DEF CallApplyPolicy, Enqueue, engineVars, TypeOK, EngineTypeOK
  <2> QED BY <1>6, <2>1, QueueIInv DEF CallApplyPolicy
<1> QED
  BY <1>1, <1>2, <1>3, <1>4, <1>5, <1>6, BeginCycleIInv, CancelCycleIInv, SuperviseIInv,
     ReloadIInv, ToggleFreezeIInv DEF Next, TasksNext, DashboardNext

LEMMA SpecIInv == Spec => []IInv
BY InitIInv, NextIInv, PTL DEF Spec

-----------------------------------------------------------------------------
(* What follows, for every value of the constants.                          *)

(* Every variable of the engine and of its lock keeps its type.             *)
THEOREM TypesAlways == Spec => []TypeOK
<1>1. IInv => TypeOK
  BY DEF IInv
<1> QED BY <1>1, SpecIInv, PTL

(* Cycles and reloads exclude each other, for any number of callers, of     *)
(* which any may be cancelled at any await (engine.py:156-157).             *)
THEOREM LockGuardsAlways == Spec => []LockGuards
<1>1. IInv => LockGuards
  BY DEF IInv
<1> QED BY <1>1, SpecIInv, PTL

(* "Serialized by a lock" (engine.py:156): a cycle starts its supervisions  *)
(* when none is in flight and no reload is half way, so that it overwrites  *)
(* nobody's work.                                                           *)
THEOREM CyclesSerialize ==
  Spec => [][ \A c \in Callers : lock # c /\ lock' = c
                => AtRest /\ reload.pc = "idle" ]_vars
<1>1. ASSUME IInv, [Next]_vars, NEW c \in Callers, lock # c, lock' = c
      PROVE  AtRest /\ reload.pc = "idle"
  <2>1. c # Free /\ c # Reloader /\ Free # Reloader /\ Free \notin Callers
    BY CycleAssumption DEF CycleAssumption
  <2>2. CASE \E d \in Callers : BeginCycle(d)
    <3>1. lock = Free
      BY <2>2 DEF BeginCycle, Acquire
    <3> QED BY <1>1, <2>1, <3>1 DEF IInv, LockGuards
  <2>3. CASE ~ \E d \in Callers : BeginCycle(d)
    <3>1. CASE DashboardNext \/ UNCHANGED vars
      BY <1>1, <2>1, <3>1
         DEF DashboardNext, vars, CancelCycle, CancelWaiting, OrphanExits, ToggleFreeze
    <3>2. CASE StartApplyPolicy \/ ContinueApplyPolicy
      <4>1. ReleaseWhenDone
        BY <3>2 DEF StartApplyPolicy, ContinueApplyPolicy
      <4> QED BY <1>1, <2>1, <4>1 DEF ReleaseWhenDone
    <3>3. CASE \/ \E d \in Callers : CallRunCycle(d) \/ EndCycle(d)
               \/ \E t \in Names : Supervise(t)
               \/ \E p \in Policies : CallApplyPolicy(p)
      <4>1. lock' \in {lock, Free}
        BY <3>3 DEF CallRunCycle, EndCycle, Supervise, CallApplyPolicy
      <4> QED BY <1>1, <2>1, <4>1
    <3> QED BY <1>1, <2>3, <3>1, <3>2, <3>3 DEF Next, TasksNext
  <2> QED BY <2>2, <2>3
<1>2. IInv /\ [Next]_vars
        => [\A c \in Callers : lock # c /\ lock' = c => AtRest /\ reload.pc = "idle"]_vars
  BY <1>1
<1> QED BY <1>2, SpecIInv, PTL DEF Spec

(* A counter never exceeds the failures its current target has shown in a   *)
(* row, however cycles, cancellations and reloads follow one another.       *)
THEOREM CounterIsEvidenceAlways == Spec => []CounterIsEvidence
<1>1. IInv => CounterIsEvidence
  BY DEF IInv, EvidenceInv, LocalEvidence, CounterIsEvidence
<1> QED BY <1>1, SpecIInv, PTL

(* No remediation runs that the autonomy of its step does not allow.        *)
THEOREM AllowedAlways == Spec => []ActsOnlyAsAllowed
<1>1. IInv => ActsOnlyAsAllowed
  BY GateAllows DEF IInv, TypeOK
<1> QED BY <1>1, SpecIInv, PTL

(* Under the lock a removed target never has a counter or an open alert,    *)
(* not even while the reload that removed others is suspended.              *)
THEOREM RemovedLosesStateAlways == Spec => []RemovedLosesState
<1>1. IInv => RemovedLosesState
  BY DEF IInv, DroppedInv, RemovedLosesState
<1> QED BY <1>1, SpecIInv, PTL

(* A remediation starts in a step of its own supervision only.              *)
LEMMA OnlySuperviseStarts ==
  ASSUME IInv, [Next]_vars, NEW t \in Names, StartsApplying(t)
  PROVE  TickStep(t)
<1>1. EngineTypeOK
  BY DEF IInv, TypeOK
<1>2. ASSUME NEW u \in Names, Supervise(u) PROVE TickStep(t)
  BY <1>1, <1>2, TickStepFrame DEF Supervise, StartsApplying
<1>3. ASSUME NEW c \in Callers, BeginCycle(c) PROVE FALSE
  <2>1. tick'[t].pc \in {"idle", "probing"}
    BY <1>3 DEF BeginCycle, Started, Idle
  <2> QED BY <2>1 DEF StartsApplying
<1>4. ASSUME NEW c \in Callers, CancelCycle(c) PROVE FALSE
  BY <1>4 DEF CancelCycle, Idle, StartsApplying
<1>5. CASE StartApplyPolicy \/ ContinueApplyPolicy
  <2>1. PICK p, todo : DropRemoved(p, todo)
    BY <1>5 DEF StartApplyPolicy, BeginReload, ContinueApplyPolicy, ReloadStep, ReloadResolveReturns
  <2> QED BY <1>1, <2>1, ReloadKeepsTicks DEF StartsApplying
<1>6. CASE tick' = tick
  BY <1>6 DEF StartsApplying
<1> QED
  BY <1>2, <1>3, <1>4, <1>5, <1>6
     DEF Next, TasksNext, DashboardNext, vars, engineVars, CallRunCycle, EndCycle, CancelWaiting, OrphanExits,
         CallApplyPolicy, ToggleFreeze

(* No remediation starts under a frozen policy when the lock keeps reloads  *)
(* out of a cycle and the approver of the dashboards, which may freeze at   *)
(* any moment, does not suspend (engine.py:20, 224-232).                    *)
THEOREM FreezeHoldsAlways == Spec => FreezeHolds
<1>1. ASSUME IInv, [Next]_vars
      PROVE  [\A t \in Names : StartsApplying(t) => ~ policy.frozen]_engineVars
  <2>1. ASSUME NEW t \in Names, StartsApplying(t) PROVE ~ policy.frozen
    <3>1. TickStep(t) /\ EngineTypeOK /\ tick[t].stale = "no" /\ LocalEvidence(t)
      BY <1>1, <2>1, OnlySuperviseStarts DEF IInv, TypeOK, InFlightInv, EvidenceInv
    <3>2. ~ policy.frozen \/ tick[t].pc = "approving"
      BY <2>1, <3>1, TickStepEvidence
    <3> QED BY <1>1, <3>2 DEF IInv, UnfrozenInv
  <2> QED BY <2>1
<1> QED BY <1>1, SpecIInv, PTL DEF Spec, FreezeHolds

(* A remediation starts on no less evidence than its threshold asks for.    *)
THEOREM ActsOnEvidenceAlways == Spec => ActsOnEvidence
<1>1. ASSUME IInv, [Next]_vars
      PROVE  [\A t \in Names : StartsApplying(t) /\ tick[t].stale = "no"
                => Remediations[tick'[t].spec][tick'[t].step].max_attempts
                     <= streak'[t]]_engineVars
  <2>1. ASSUME NEW t \in Names, StartsApplying(t)
        PROVE  Remediations[tick'[t].spec][tick'[t].step].max_attempts <= streak'[t]
    <3>1. TickStep(t) /\ EngineTypeOK /\ tick[t].stale = "no" /\ LocalEvidence(t)
      BY <1>1, <2>1, OnlySuperviseStarts DEF IInv, TypeOK, InFlightInv, EvidenceInv
    <3> QED BY <2>1, <3>1, TickStepEvidence
  <2> QED BY <2>1
<1> QED BY <1>1, SpecIInv, PTL DEF Spec, ActsOnEvidence

-----------------------------------------------------------------------------
(* The refinement of AlertContract.                                         *)

LEMMA TickStepAlerts ==
  ASSUME NEW t \in Names, TickStep(t)
  PROVE  openAlerts' \in {openAlerts, openAlerts \cup {t}, openAlerts \ {t}}
BY DEF TickStep, Probe, Resume, ProbeOfRetired, ProbeRaises, ProbeHealthy, ProbeUnhealthy,
       FireReturns, ResolveReturns, ApproverAnswers, ApplyReturns

(* A step of a reload closes one alert of a target it removes, or installs  *)
(* the new policy with the alerts of all removed targets closed.            *)
LEMMA ReloadAlerts ==
  ASSUME IInv, NEW p, NEW todo, todo \subseteq Removed(p), DropRemoved(p, todo),
         \A t \in Removed(p) \ todo : failures[t] = 0 /\ t \notin openAlerts
  PROVE  Contract!Next
<1>1. openAlerts \subseteq Supervised(policy) /\ todo \subseteq Names /\ Supervised(policy) \subseteq Names
  BY DEF IInv, DroppedInv, TypeOK, EngineTypeOK, Removed, Supervised
<1>2. ASSUME NEW t \in todo, NEW silent \in SUBSET (todo \ openAlerts),
             DropUpTo(p, todo, t, silent)
      PROVE  Contract!Close(t)
  BY <1>2 DEF DropUpTo, Contract!Close
<1>3. ASSUME DropRestAndInstall(p, todo)
      PROVE  Contract!Retarget(Supervised(p))
  <2>1. policy' = p /\ openAlerts' = openAlerts \ todo
    BY <1>3 DEF DropRestAndInstall
  <2>2. openAlerts \ todo = openAlerts \cap Supervised(p)
    BY <1>1 DEF Removed
  <2> QED BY <2>1, <2>2 DEF Contract!Retarget
<1>4. Supervised(p) \in SUBSET Names
  BY DEF Supervised
<1> QED BY <1>1, <1>2, <1>3, <1>4 DEF DropRemoved, Contract!Next

(* The engine under its lock implements AlertContract: only a supervised    *)
(* target has an open alert, whatever the reload closes on its way.         *)
THEOREM RefinesAlertContract == Spec => ImplementsAlertContract
<1>1. Init => Contract!Init
  BY DEF Init, EngineInit, Contract!Init, Supervised
<1>2. ASSUME IInv, [Next]_vars
      PROVE  [Contract!Next]_(Contract!contractVars)
  <2>1. CASE Supervised(policy)' = Supervised(policy) /\ openAlerts' = openAlerts
    BY <2>1 DEF Contract!contractVars
  <2>2. ASSUME NEW t \in Names, Supervise(t)
        PROVE  [Contract!Next]_(Contract!contractVars)
    <3>1. TickStep(t) /\ EngineTypeOK /\ tick[t].pc # "idle" /\ policy' = policy
      BY <1>2, <2>2, TickStepFrame DEF Supervise, IInv, TypeOK
    <3>2. t \in Supervised(policy)
      BY <1>2, <3>1, InFlight
    <3>3. \/ openAlerts' = openAlerts
          \/ t \notin openAlerts /\ openAlerts' = openAlerts \cup {t}
          \/ t \in openAlerts /\ openAlerts' = openAlerts \ {t}
      BY <3>1, TickStepAlerts
    <3> QED BY <3>1, <3>2, <3>3
            DEF Contract!Next, Contract!Open, Contract!Close, Contract!contractVars
  <2>3. CASE StartApplyPolicy
    BY <1>2, <2>3, ReloadAlerts DEF StartApplyPolicy, BeginReload
  <2>4. CASE ContinueApplyPolicy
    BY <1>2, <2>4, ReloadAlerts
       DEF ContinueApplyPolicy, ReloadStep, ReloadResolveReturns, IInv, DroppedInv
  <2>5. CASE ToggleFreeze
    <3>1. policy'.targets = policy.targets /\ openAlerts' = openAlerts
      BY <1>2, <2>5 DEF ToggleFreeze, IInv, TypeOK, EngineTypeOK, PolicyType
    <3> QED BY <2>1, <3>1 DEF Supervised
  <2>6. CASE policy' = policy /\ openAlerts' = openAlerts
    BY <2>1, <2>6
  <2> QED
    BY <1>2, <2>2, <2>3, <2>4, <2>5, <2>6
       DEF Next, TasksNext, DashboardNext, vars, engineVars, CallRunCycle, BeginCycle, EndCycle, CancelCycle,
           CancelWaiting, OrphanExits, CallApplyPolicy
<1> QED BY <1>1, <1>2, SpecIInv, PTL DEF Spec, ImplementsAlertContract, Contract!Spec

-----------------------------------------------------------------------------
(* What the far end of the alert channel shows, with a channel whose calls  *)
(* suspend.  A call that is on its way is the one the books ask for.        *)
SinkFollows(t) ==
  /\ tick[t].pc = "firing" => t \in openAlerts
  /\ tick[t].pc = "resolving" => t \notin openAlerts
  /\ t \in reload.at => t \notin openAlerts
  /\ tick[t].pc \notin {"firing", "resolving"} /\ t \notin reload.at
       => sink[t] = "unknown" \/ (sink[t] = "open" <=> t \in openAlerts)

SinkInv ==
  /\ reload.pc = "idle" => reload.at = {}
  /\ \A t \in Names : SinkFollows(t)

(* After the engine has decided what to do no alert call is under way.      *)
LEMMA SelectAndActCallsNobody ==
  ASSUME EngineTypeOK, NEW t \in Names, NEW k, SelectAndAct(t, k)
  PROVE  tick'[t].pc \notin {"firing", "resolving"}
<1>1. tick \in [Names -> TickType] /\ tick[t] \in TickType
  BY DEF EngineTypeOK
<1>2. Finish(t) => tick'[t].pc = "idle"
  BY <1>1 DEF Finish, Idle
<1>3. \A i : Suspend(t, "approving", 0, i) => tick'[t].pc = "approving"
  BY <1>1 DEF Suspend, TickType
<1>4. \A i, yes : Apply(t, i, yes) => tick'[t].pc = "applying"
  BY <1>1 DEF Apply, TickType
<1> QED BY <1>2, <1>3, <1>4 DEF SelectAndAct

(* A step of a supervision, while no reload waits for the channel.          *)
LEMMA TickStepSink ==
  ASSUME EngineTypeOK, AlerterSuspends, SinkInv, reload.pc = "idle",
         NEW t \in Names, TickStep(t)
  PROVE  SinkInv'
<1>1. /\ tick \in [Names -> TickType] /\ tick[t] \in TickType /\ sink \in SinkType
      /\ reload' = reload /\ reload.at = {}
      /\ SinkFollows(t)
  BY TickStepFrame DEF EngineTypeOK, SinkInv
<1>2. ASSUME NEW u \in Names \ {t} PROVE SinkFollows(u)'
  <2>1. tick'[u] = tick[u] /\ (u \in openAlerts' <=> u \in openAlerts)
    BY TickStepFrame
  <2>2. sink'[u] = sink[u]
    BY <1>1 DEF TickStep, Probe, Resume, ProbeOfRetired, ProbeRaises, ProbeHealthy, ProbeUnhealthy,
       FireReturns, ResolveReturns, ApproverAnswers, ApplyReturns, Deliver
  <2> QED BY <1>1, <2>1, <2>2 DEF SinkInv, SinkFollows
<1>3. Finish(t) => tick'[t].pc = "idle"
  BY <1>1 DEF Finish, Idle
<1>4. \A k, i : /\ Suspend(t, "firing", k, i) => tick'[t].pc = "firing"
                /\ Suspend(t, "resolving", k, i) => tick'[t].pc = "resolving"
  BY <1>1 DEF Suspend, TickType
<1>5. \A i : Apply(t, i, TRUE) => tick'[t].pc = "applying"
  BY <1>1 DEF Apply, TickType
<1>6. \A k : SelectAndAct(t, k) => tick'[t].pc \notin {"firing", "resolving"}
  BY SelectAndActCallsNobody
<1>7. SinkFollows(t)'
  <2>1. CASE ProbeOfRetired(t) \/ ProbeRaises(t)
    BY <1>1, <1>3, <2>1 DEF ProbeOfRetired, ProbeRaises, SinkFollows
  <2>2. CASE ProbeHealthy(t)
    BY <1>1, <1>3, <1>4, <2>2 DEF ProbeHealthy, SinkFollows
  <2>3. CASE ProbeUnhealthy(t)
    BY <1>1, <1>4, <1>6, <2>3 DEF ProbeUnhealthy, SinkFollows
  <2>4. ASSUME NEW outcome, FireReturns(t, outcome) PROVE SinkFollows(t)'
    <3>1. /\ tick'[t].pc \notin {"firing", "resolving"} /\ openAlerts' = openAlerts
          /\ tick[t].pc = "firing" /\ sink'[t] \in {"open", "unknown"}
      BY <1>1, <1>3, <1>6, <2>4 DEF FireReturns, Deliver
    <3> QED BY <1>1, <3>1 DEF SinkFollows
  <2>5. ASSUME NEW outcome, ResolveReturns(t, outcome) PROVE SinkFollows(t)'
    <3>1. /\ tick'[t].pc = "idle" /\ openAlerts' = openAlerts
          /\ tick[t].pc = "resolving" /\ sink'[t] \in {"closed", "unknown"}
      BY <1>1, <1>3, <2>5 DEF ResolveReturns, Deliver
    <3> QED BY <1>1, <3>1 DEF SinkFollows
  <2>6. ASSUME NEW yes, ApproverAnswers(t, yes) \/ ApplyReturns(t, yes) PROVE SinkFollows(t)'
    <3>1. /\ tick'[t].pc \notin {"firing", "resolving"} /\ openAlerts' = openAlerts
          /\ tick[t].pc \notin {"firing", "resolving"} /\ sink' = sink
      BY <1>1, <1>3, <1>5, <2>6 DEF ApproverAnswers, ApplyReturns
    <3> QED BY <1>1, <3>1 DEF SinkFollows
  <2> QED BY <2>1, <2>2, <2>3, <2>4, <2>5, <2>6 DEF TickStep, Probe, Resume
<1> QED BY <1>1, <1>2, <1>7 DEF SinkInv

(* A step of a reload, under the lock; a call that returns leaves the far   *)
(* end closed or unknown, and the alert is off the books.                   *)
LEMMA ReloadSink ==
  ASSUME EngineTypeOK, AtRest, AlerterSuspends, SinkInv, NEW p, NEW todo, DropRemoved(p, todo),
         \A t \in Names : \/ sink'[t] = sink[t] /\ t \notin reload.at
                          \/ sink'[t] \in {"closed", "unknown"} /\ t \in reload.at
  PROVE  SinkInv'
<1>1. \A t \in Names : tick[t].pc = "idle" /\ tick'[t].pc = "idle"
  BY ReloadKeepsTicks DEF AtRest
<1>2. \A t \in Names : sink'[t] = "unknown" \/ (sink'[t] = "open" <=> t \in openAlerts)
  BY <1>1 DEF SinkInv, SinkFollows
<1>3. ASSUME NEW t \in todo, NEW silent \in SUBSET (todo \ openAlerts), DropUpTo(p, todo, t, silent)
      PROVE  SinkInv'
  <2>1. openAlerts' = openAlerts \ {t} /\ reload'.at = {t} /\ reload'.pc = "resolving"
    BY <1>3 DEF DropUpTo
  <2> QED BY <1>1, <1>2, <2>1 DEF SinkInv, SinkFollows
<1>4. ASSUME DropRestAndInstall(p, todo) PROVE SinkInv'
  <2>1. openAlerts' = openAlerts /\ reload'.at = {} /\ reload'.pc = "idle"
    BY <1>4 DEF DropRestAndInstall, NoReload
  <2> QED BY <1>1, <1>2, <2>1 DEF SinkInv, SinkFollows
<1> QED BY <1>3, <1>4 DEF DropRemoved

LEMMA TasksSinkInv ==
  ASSUME IInv, AlerterSuspends, SinkInv, [TasksNext]_vars
  PROVE  SinkInv'
<1>0. EngineTypeOK
  BY DEF IInv, TypeOK
<1>1. CASE UNCHANGED <<openAlerts, sink, reload, tick>>
  BY <1>1 DEF SinkInv, SinkFollows
<1>2. ASSUME NEW c \in Callers, BeginCycle(c) PROVE SinkInv'
  <2>1. /\ UNCHANGED <<openAlerts, sink, reload>> /\ lock = Free
        /\ tick' = [t \in Names |-> IF t \in Supervised(policy)
                                    THEN Started(policy.targets[t]) ELSE Idle]
    BY <1>2 DEF BeginCycle, Acquire
  <2>2. AtRest
    BY <2>1, CycleAssumption DEF IInv, LockGuards
  <2>3. ASSUME NEW t \in Names PROVE tick'[t].pc \in {"idle", "probing"}
    <3>1. \A s : Started(s).pc = "probing"
      BY DEF Started, Idle
    <3> QED BY <2>1, <3>1, IdleType
  <2>4. \A t \in Names : tick[t].pc = "idle"
    BY <2>2 DEF AtRest
  <2> QED BY <2>1, <2>3, <2>4 DEF SinkInv, SinkFollows
<1>3. ASSUME NEW t \in Names, Supervise(t) PROVE SinkInv'
  <2>1. TickStep(t) /\ tick[t].pc # "idle"
    BY <1>0, <1>3, TickStepFrame DEF Supervise
  <2>2. reload.pc = "idle"
    BY <2>1, InFlight
  <2> QED BY <1>0, <2>1, <2>2, TickStepSink
<1>4. CASE StartApplyPolicy
  <2>1. DropRemoved(next, Removed(next)) /\ sink' = sink /\ reload.pc = "idle" /\ AtRest
    BY <1>4, CycleAssumption DEF StartApplyPolicy, BeginReload, IInv, LockGuards
  <2>2. reload.at = {}
    BY <2>1 DEF SinkInv
  <2> QED BY <1>0, <2>1, <2>2, ReloadSink
<1>5. CASE ContinueApplyPolicy
  <2>1. PICK outcome : Deliver(reload.at, outcome, "closed") /\ DropRemoved(reload.new, reload.todo)
    BY <1>5 DEF ContinueApplyPolicy, ReloadStep, ReloadResolveReturns
  <2>2. AtRest
    BY <1>5, CycleAssumption DEF ContinueApplyPolicy, ReloadStep, ReloadResolveReturns, IInv, LockGuards
  <2>3. \A t \in Names : \/ sink'[t] = sink[t] /\ t \notin reload.at
                         \/ sink'[t] \in {"closed", "unknown"} /\ t \in reload.at
    BY <2>1 DEF Deliver
  <2> QED BY <1>0, <2>1, <2>2, <2>3, ReloadSink
<1> QED
  BY <1>1, <1>2, <1>3, <1>4, <1>5
     DEF TasksNext, vars, engineVars, CallRunCycle, EndCycle, CallApplyPolicy

(* What the channel shows for a target is what the engine believes, unless  *)
(* a call about it is on its way or has failed, for as long as nobody       *)
(* cancels a cycle, as under `spero run' (engine.py:190-203, 144-148).      *)
THEOREM SinkAgreesAlways ==
  ASSUME AlerterSuspends
  PROVE  Init /\ [][TasksNext]_vars => []SinkAgrees
<1>1. Init => SinkInv
  BY DEF Init, EngineInit, NoReload, Idle, SinkInv, SinkFollows
<1>2. IInv /\ SinkInv /\ [TasksNext]_vars => SinkInv'
  BY TasksSinkInv
<1>3. [TasksNext]_vars => [Next]_vars
  BY DEF Next
<1>4. SinkInv => SinkAgrees
  BY DEF SinkInv, SinkFollows, SinkAgrees
<1> QED BY InitIInv, NextIInv, <1>1, <1>2, <1>3, <1>4, PTL

-----------------------------------------------------------------------------
(* The dashboards.                                                          *)

LEMMA TopInitIsInit == TopInit => Init
BY DEF TopInit

(* Every step of a dashboard is a step of Cycle, or leaves it alone.        *)
LEMMA TopStepIsStep == [TopNext]_topVars => [Next]_vars
<1> SUFFICES ASSUME [TopNext]_topVars PROVE [Next]_vars
  OBVIOUS
<1>1. CASE UNCHANGED topVars
  BY <1>1 DEF topVars
<1>2. ASSUME NEW c \in Callers,
             StartCycle(c) \/ BeginTopCycle(c) \/ CycleReturns(c)
      PROVE  Next
  <2>1. CallRunCycle(c) \/ BeginCycle(c) \/ EndCycle(c)
    BY <1>2 DEF StartCycle, BeginTopCycle, CycleReturns
  <2> QED BY <2>1 DEF Next, TasksNext, DashboardNext
<1>3. ASSUME NEW c \in Callers, Tick(c) \/ QuitTextual(c)
      PROVE  [Next]_vars
  <2>1. StopInFlight(c)
    BY <1>3 DEF Tick, QuitTextual, Replace
  <2> QED BY <2>1 DEF StopInFlight, Next, TasksNext, DashboardNext
<1>4. ASSUME NEW t \in Names, SuperviseTop(t)
      PROVE  Next
  <2>1. UNCHANGED <<lock, waiters, next, orphans>>
    BY <1>4 DEF SuperviseTop
  <2>2. Probe(t) \/ \E success \in BOOLEAN : ApplyReturns(t, success)
    BY <1>4 DEF SuperviseTop, ProbedDown, Remedied, Probe
  <2>3. TickStep(t)
    BY <2>2 DEF TickStep, Resume
  <2> QED BY <2>1, <2>3 DEF Next, TasksNext, DashboardNext, Supervise
<1>5. ASSUME NEW t \in Names, OrphanExits(t)
      PROVE  Next
  BY <1>5 DEF Next, TasksNext, DashboardNext
<1>6. ASSUME Freeze
      PROVE  Next
  BY <1>6 DEF Freeze, Next, TasksNext, DashboardNext
<1>7. CASE SkipCycle \/ Persisted \/ PersistFails \/ LoopEnds \/ WaitEnds \/ QuitLive
           \/ Signal \/ Pause \/ \E S \in SUBSET Names : Approve(S)
  <2>1. UNCHANGED vars
    BY <1>7 DEF SkipCycle, Persisted, PersistFails, LoopEnds, WaitEnds, QuitLive,
                Signal, Pause, Approve
  <2> QED BY <2>1
<1> QED BY <1>1, <1>2, <1>3, <1>4, <1>5, <1>6, <1>7 DEF TopNext

(* The dashboards drive the engine as Cycle says: keys, timers, signals and *)
(* approvals add no behaviour to it (tui.py:183-213, dashboard.py:233-249). *)
THEOREM TopImplementsCycle == TopSpec => ImplementsCycle
BY TopInitIsInit, TopStepIsStep, PTL DEF TopSpec, ImplementsCycle, Spec

(* So a counter of theirs never exceeds its evidence, though Textual may    *)
(* cancel a cycle at any await.                                             *)
THEOREM TopCountsEvidence == TopSpec => []CounterIsEvidence
BY TopImplementsCycle, CounterIsEvidenceAlways, PTL DEF ImplementsCycle

(* And nothing starts under a freeze, though the key may be pressed at any  *)
(* moment (engine.py:20).                                                   *)
THEOREM TopFreezeHolds == TopSpec => FreezeHolds
BY TopImplementsCycle, FreezeHoldsAlways, PTL DEF ImplementsCycle

-----------------------------------------------------------------------------
(* One-shot approvals.                                                      *)

(* An applied action is the end of its supervision, and the lock keeps the  *)
(* next one away until the results are collected; an approval that has been *)
(* used up is about to be pruned.                                           *)
ClickInv ==
  /\ results \in ResultsType
  /\ lock = Free => results.applied = {}
  /\ \A t \in Names : t \in results.applied => tick[t].pc = "idle"
  /\ approved \cap used \subseteq results.applied

LEMMA NoResultsFacts == NoResults \in ResultsType /\ NoResults.applied = {}
BY DEF NoResults, ResultsType

LEMMA InitClickInv == TopInit => ClickInv
BY NoResultsFacts DEF TopInit, ClickInv

(* What a supervision does to the other targets.                            *)
LEMMA SuperviseTopFrame ==
  ASSUME EngineTypeOK, NEW t \in Names, SuperviseTop(t)
  PROVE  /\ \A u \in Names \ {t} : tick'[u] = tick[u]
         /\ UNCHANGED <<lock, phase, approved>>
         /\ tick[t].pc # "idle"
<1>1. UNCHANGED <<lock, phase, approved>>
  BY DEF SuperviseTop
<1>2. Probe(t) \/ \E success \in BOOLEAN : ApplyReturns(t, success)
  BY DEF SuperviseTop, ProbedDown, Remedied, Probe
<1>3. TickStep(t)
  BY <1>2 DEF TickStep, Resume
<1> QED BY <1>1, <1>3, TickStepFrame

LEMMA SuperviseTopClickInv ==
  ASSUME IInv, ClickInv, NEW t \in Names, SuperviseTop(t)
  PROVE  ClickInv'
<1>1. EngineTypeOK /\ tick \in [Names -> TickType]
  BY DEF IInv, TypeOK, EngineTypeOK
<1>2. /\ \A u \in Names \ {t} : tick'[u] = tick[u]
      /\ UNCHANGED <<lock, phase, approved>> /\ tick[t].pc # "idle"
  BY <1>1, SuperviseTopFrame
<1>3. lock # Free
  BY <1>2, InFlight, CycleAssumption
<1>4. t \notin results.applied
  BY <1>2 DEF ClickInv
<1>5. ASSUME results'.applied = results.applied, results' \in ResultsType, used' = used
      PROVE  ClickInv'
  <2>1. \A u \in Names : u \in results'.applied => tick'[u].pc = "idle"
    BY <1>2, <1>4, <1>5 DEF ClickInv
  <2> QED BY <1>2, <1>3, <1>5, <2>1 DEF ClickInv
<1>6. CASE UNCHANGED <<results, used>>
  BY <1>5, <1>6 DEF ClickInv
<1>7. CASE ProbedDown(t)
  <2>1. results' \in ResultsType /\ results'.applied = results.applied
    BY <1>7 DEF ProbedDown, ClickInv, ResultsType
  <2> QED BY <1>5, <1>7, <2>1 DEF ProbedDown
<1>8. ASSUME NEW success \in BOOLEAN, Remedied(t, success)
      PROVE  ClickInv'
  <2>1. CASE ~ success
    BY <1>5, <1>8, <2>1 DEF Remedied, ClickInv
  <2>2. CASE success
    <3>1. results' \in ResultsType /\ results'.applied = results.applied \cup {t}
      BY <1>8, <2>2 DEF Remedied, ClickInv, ResultsType
    <3>2. tick'[t] = Idle
      BY <1>1, <1>8 DEF Remedied, ApplyReturns, Finish
    <3>3. used' \subseteq used \cup {t}
      BY <1>8 DEF Remedied
    <3>4. \A u \in Names : u \in results'.applied => tick'[u].pc = "idle"
      BY <1>2, <3>1, <3>2 DEF ClickInv, Idle
    <3> QED BY <1>2, <1>3, <3>1, <3>3, <3>4 DEF ClickInv
  <2> QED BY <2>1, <2>2
<1> QED BY <1>6, <1>7, <1>8 DEF SuperviseTop

LEMMA TopStepClickInv == IInv /\ ClickInv /\ [TopNext]_topVars => ClickInv'
<1> SUFFICES ASSUME IInv, ClickInv, [TopNext]_topVars PROVE ClickInv'
  OBVIOUS
<1>1. ASSUME UNCHANGED <<lock, tick, results, approved, used>>
      PROVE  ClickInv'
  BY <1>1 DEF ClickInv
<1>2. CASE UNCHANGED topVars
  BY <1>1, <1>2 DEF topVars, vars, engineVars, held
<1>3. ASSUME NEW c \in Callers, StartCycle(c)
      PROVE  ClickInv'
  BY <1>1, <1>3 DEF StartCycle, CallRunCycle, engineVars, held
<1>4. ASSUME NEW c \in Callers, BeginTopCycle(c)
      PROVE  ClickInv'
  <2>1. lock = Free /\ UNCHANGED <<results, approved, used>> /\ lock' # Free
    BY <1>4, CycleAssumption DEF BeginTopCycle, BeginCycle, Acquire, held
  <2> QED BY <2>1 DEF ClickInv
<1>5. ASSUME NEW c \in Callers, CycleReturns(c)
      PROVE  ClickInv'
  BY <1>5, NoResultsFacts DEF CycleReturns, Pruned, EndCycle, engineVars, ClickInv
<1>6. ASSUME NEW c \in Callers, Tick(c) \/ QuitTextual(c)
      PROVE  ClickInv'
  <2>1. /\ results' = NoResults /\ used' = used \ results.applied
        /\ approved' = approved
    BY <1>6 DEF Tick, QuitTextual, Replace
  <2> QED BY <2>1, NoResultsFacts DEF ClickInv
<1>7. ASSUME NEW t \in Names, SuperviseTop(t)
      PROVE  ClickInv'
  BY <1>7, SuperviseTopClickInv
<1>8. ASSUME NEW t \in Names, OrphanExits(t) /\ UNCHANGED <<screen, phase, paused, held>>
      PROVE  ClickInv'
  BY <1>1, <1>8 DEF OrphanExits, engineVars, held
<1>9. CASE Freeze
  BY <1>1, <1>9 DEF Freeze, ToggleFreeze, held
<1>10. CASE SkipCycle \/ Persisted \/ PersistFails \/ LoopEnds \/ WaitEnds \/ QuitLive
            \/ Signal \/ Pause
  BY <1>1, <1>10 DEF SkipCycle, Persisted, PersistFails, LoopEnds, WaitEnds, QuitLive,
                     Signal, Pause, vars, engineVars, held
<1>11. ASSUME NEW S \in SUBSET Names, Approve(S)
       PROVE  ClickInv'
  BY <1>11 DEF Approve, vars, engineVars, ClickInv
<1> QED BY <1>2, <1>3, <1>4, <1>5, <1>6, <1>7, <1>8, <1>9, <1>10, <1>11 DEF TopNext

(* A remediation with a yes starts in a probe that found its target down,   *)
(* and the approver says yes to what is approved.                           *)
LEMMA StartsOnApproval ==
  ASSUME IInv, TopNext, NEW t \in Names, StartsApplying(t), tick'[t].approved
  PROVE  t \in approved /\ tick[t].pc # "idle"
<1>1. EngineTypeOK /\ tick \in [Names -> TickType]
  BY DEF IInv, TypeOK, EngineTypeOK
<1>2. tick'[t] # tick[t] /\ tick'[t].pc = "applying"
  BY DEF StartsApplying
<1>3. tick'[t].pc \notin {"idle", "probing", "resolving", "firing"}
  BY <1>2
<1>4. Idle.pc = "idle" /\ \A s : Started(s).pc = "probing"
  BY DEF Idle, Started
<1>5. ASSUME tick' = tick
      PROVE  FALSE
  BY <1>2, <1>5
<1>6. ASSUME NEW u \in Names, SuperviseTop(u)
      PROVE  t \in approved /\ tick[t].pc # "idle"
  <2>1. u = t /\ tick[t].pc # "idle"
    BY <1>1, <1>2, <1>6, SuperviseTopFrame
  <2>2. ~ Finish(t) /\ ~ Suspend(t, "resolving", 0, 0)
    BY <1>1, <1>3, <1>4 DEF Finish, Suspend, TickType
  <2>3. ProbedDown(t)
    BY <1>6, <2>1, <2>2 DEF SuperviseTop, ProbeRaises, ProbeHealthy, Remedied, ApplyReturns
  <2>4. Asks(t)
    <3>1. \A k \in Nat : ~ Suspend(t, "firing", k, 0)
      BY <1>1, <1>3 DEF Suspend, TickType
    <3>2. \A i : ~ Apply(t, i, FALSE)
      BY <1>1 DEF Apply, TickType
    <3>3. Bump(failures[t]) \in Nat
      BY <1>1, EngineAssumption DEF Bump, EngineTypeOK
    <3>4. SelectAndAct(t, Bump(failures[t]))
      BY <2>2, <2>3, <3>1, <3>3 DEF ProbedDown, ProbeUnhealthy
    <3> QED BY <2>2, <3>2, <3>4 DEF SelectAndAct, Asks
  <2> QED BY <1>2, <2>1, <2>3, <2>4 DEF ProbedDown, Approver
<1>7. ASSUME NEW c \in Callers, StartCycle(c) \/ CycleReturns(c)
      PROVE  FALSE
  BY <1>5, <1>7 DEF StartCycle, CallRunCycle, CycleReturns, EndCycle, engineVars
<1>8. ASSUME NEW c \in Callers, BeginTopCycle(c)
      PROVE  FALSE
  BY <1>3, <1>4, <1>8 DEF BeginTopCycle, BeginCycle
<1>9. ASSUME NEW c \in Callers, Tick(c) \/ QuitTextual(c)
      PROVE  FALSE
  <2>1. StopInFlight(c)
    BY <1>9 DEF Tick, QuitTextual, Replace
  <2> QED BY <1>3, <1>4, <1>5, <2>1 DEF StopInFlight, CancelCycle, CancelWaiting, vars, engineVars
<1>10. ASSUME NEW u \in Names, OrphanExits(u)
       PROVE  FALSE
  BY <1>5, <1>10 DEF OrphanExits, engineVars
<1>11. CASE SkipCycle \/ Persisted \/ PersistFails \/ LoopEnds \/ WaitEnds \/ QuitLive
            \/ Signal \/ Pause \/ Freeze \/ \E S \in SUBSET Names : Approve(S)
  BY <1>5, <1>11 DEF SkipCycle, Persisted, PersistFails, LoopEnds, WaitEnds, QuitLive,
                     Signal, Pause, Freeze, ToggleFreeze, Approve, vars, engineVars
<1> QED BY <1>6, <1>7, <1>8, <1>9, <1>10, <1>11 DEF TopNext

(* No approved remediation starts without a click since the latest one that *)
(* applied, unless Textual cancelled the cycle that one ran in.             *)
THEOREM OneShotAlways == TopSpec => OneShot
<1>1. ASSUME IInv, ClickInv, [TopNext]_topVars
      PROVE  [\A t \in Names : StartsApplying(t) /\ tick'[t].approved => t \notin used]_topVars
  <2>1. ASSUME TopNext, NEW t \in Names, StartsApplying(t), tick'[t].approved
        PROVE  t \notin used
    BY <1>1, <2>1, StartsOnApproval DEF ClickInv
  <2> QED BY <1>1, <2>1
<1>2. TopSpec => []IInv
  BY TopImplementsCycle, SpecIInv, PTL DEF ImplementsCycle
<1>3. TopSpec => []ClickInv
  BY <1>2, InitClickInv, TopStepClickInv, PTL DEF TopSpec
<1> QED BY <1>1, <1>2, <1>3, PTL DEF TopSpec, OneShot

-----------------------------------------------------------------------------
(* Types of the dashboards.                                                 *)

LEMMA ScreenTypes ==
  ASSUME TopTypeOK, TopNext
  PROVE  /\ ui' \in Uis /\ store' \in Stores
         /\ {paused', quit', stop', wake'} \subseteq BOOLEAN
<1>1. ASSUME UNCHANGED <<screen, paused>>
      PROVE  /\ ui' \in Uis /\ store' \in Stores
             /\ {paused', quit', stop', wake'} \subseteq BOOLEAN
  BY <1>1 DEF TopTypeOK, screen
<1>2. CASE \E c \in Callers : StartCycle(c) \/ BeginTopCycle(c) \/ Tick(c) \/ QuitTextual(c)
  BY <1>1, <1>2 DEF StartCycle, BeginTopCycle, Tick, QuitTextual, Replace
<1>3. CASE \E t \in Names : \/ SuperviseTop(t)
                           \/ (OrphanExits(t) /\ UNCHANGED <<screen, phase, paused, held>>)
  BY <1>1, <1>3 DEF SuperviseTop
<1>4. ASSUME UNCHANGED screen \/ Rest, paused' = paused
      PROVE  /\ ui' \in Uis /\ store' \in Stores
             /\ {paused', quit', stop', wake'} \subseteq BOOLEAN
  BY <1>4 DEF TopTypeOK, screen, Rest
<1>5. CASE \/ \E c \in Callers : CycleReturns(c)
           \/ SkipCycle \/ Persisted \/ PersistFails \/ LoopEnds \/ WaitEnds
  BY <1>4, <1>5 DEF CycleReturns, SkipCycle, Persisted, PersistFails, LoopEnds, WaitEnds
<1>6. CASE QuitLive \/ Signal \/ Pause \/ Freeze \/ \E S \in SUBSET Names : Approve(S)
  BY <1>6 DEF TopTypeOK, QuitLive, Signal, Pause, Freeze, Approve, Key
<1> QED BY <1>2, <1>3, <1>5, <1>6 DEF TopNext

LEMMA PhaseTypes ==
  ASSUME TopTypeOK, TopNext
  PROVE  phase' \in {"idle", "due", "cycling", "persisting", "over"}
<1>1. CASE \/ SkipCycle \/ Persisted \/ PersistFails \/ LoopEnds \/ WaitEnds \/ QuitLive
           \/ Signal \/ Pause \/ Freeze \/ \E S \in SUBSET Names : Approve(S)
  BY <1>1 DEF TopTypeOK, SkipCycle, Persisted, PersistFails, LoopEnds, WaitEnds, QuitLive,
              Signal, Pause, Freeze, Approve, Rest
<1>2. CASE \E c \in Callers : \/ StartCycle(c) \/ BeginTopCycle(c) \/ CycleReturns(c)
                              \/ Tick(c) \/ QuitTextual(c)
  BY <1>2 DEF TopTypeOK, StartCycle, BeginTopCycle, CycleReturns, Rest, Tick, QuitTextual,
              Replace
<1>3. CASE \E t \in Names : \/ SuperviseTop(t)
                           \/ (OrphanExits(t) /\ UNCHANGED <<screen, phase, paused, held>>)
  BY <1>3 DEF TopTypeOK, SuperviseTop
<1> QED BY <1>1, <1>2, <1>3 DEF TopNext

LEMMA HeldTypes ==
  ASSUME TopTypeOK, TopNext
  PROVE  /\ approved' \subseteq Names /\ latest' \subseteq Names /\ used' \subseteq Names
         /\ results' \in ResultsType
<1>0. /\ approved \subseteq Names /\ latest \subseteq Names /\ used \subseteq Names
      /\ results \in ResultsType
  BY DEF TopTypeOK
<1>1. CASE UNCHANGED held
  BY <1>0, <1>1 DEF held
<1>2. CASE \E c \in Callers : CycleReturns(c) \/ Tick(c) \/ QuitTextual(c)
  BY <1>0, <1>2, NoResultsFacts
     DEF CycleReturns, Pruned, Tick, QuitTextual, Replace, ResultsType
<1>3. ASSUME NEW t \in Names, SuperviseTop(t)
      PROVE  /\ approved' \subseteq Names /\ latest' \subseteq Names /\ used' \subseteq Names
             /\ results' \in ResultsType
  <2>1. UNCHANGED <<approved, latest>>
    BY <1>3 DEF SuperviseTop
  <2>2. results' \in ResultsType /\ used' \subseteq Names
    BY <1>0, <1>3 DEF SuperviseTop, ProbedDown, Remedied, ResultsType
  <2> QED BY <1>0, <2>1, <2>2
<1>4. CASE \E S \in SUBSET Names : Approve(S)
  BY <1>0, <1>4 DEF Approve
<1>5. CASE \/ \E c \in Callers : StartCycle(c) \/ BeginTopCycle(c)
           \/ \E t \in Names : (OrphanExits(t) /\ UNCHANGED <<screen, phase, paused, held>>)
           \/ SkipCycle \/ Persisted \/ PersistFails \/ LoopEnds \/ WaitEnds \/ QuitLive
           \/ Signal \/ Pause \/ Freeze
  <2>1. UNCHANGED held
    BY <1>5 DEF StartCycle, BeginTopCycle, SkipCycle, Persisted, PersistFails, LoopEnds,
                WaitEnds, QuitLive, Signal, Pause, Freeze
  <2> QED BY <1>1, <2>1
<1> QED BY <1>2, <1>3, <1>4, <1>5 DEF TopNext

(* Type correctness of the two dashboards over the engine: among it that    *)
(* what they show, hold as approved and have used up are names of targets.  *)
THEOREM TopTypesAlways == TopSpec => []TopTypeOK
<1>1. TopInit => TopTypeOK
  BY NoResultsFacts DEF TopInit, TopTypeOK
<1>2. TopTypeOK /\ [TopNext]_topVars => TopTypeOK'
  <2>1. CASE TopNext
    BY <2>1, ScreenTypes, PhaseTypes, HeldTypes DEF TopTypeOK
  <2>2. CASE UNCHANGED topVars
    BY <2>2 DEF topVars, screen, held, TopTypeOK
  <2> QED BY <2>1, <2>2
<1> QED BY <1>1, <1>2, PTL DEF TopSpec

-----------------------------------------------------------------------------
(* What follows for the dashboards from the invariant of Cycle.             *)

(* A remediation the dashboards start rests on the failures it needs        *)
(* (models.py:45, engine.py:196-199).                                        *)
THEOREM TopActsOnEvidence == TopSpec => ActsOnEvidence
BY TopImplementsCycle, ActsOnEvidenceAlways, PTL DEF ImplementsCycle

(* And nothing they run exceeds its autonomy (models.py:77-81).             *)
THEOREM TopAllowed == TopSpec => []ActsOnlyAsAllowed
BY TopImplementsCycle, AllowedAlways, PTL DEF ImplementsCycle
=============================================================================
