------------------------------- MODULE Engine -------------------------------
(***************************************************************************)
(* core/engine.py: the state of one Engine and the steps its coroutines    *)
(* take on it.  A coroutine runs undisturbed from one await that suspends  *)
(* to the next, so an action is one such stretch of code.  What starts the *)
(* coroutines, and which of them may overlap, is left to the modules that  *)
(* extend this one: Cycle (run_cycle under the engine's lock) and Watch    *)
(* (one scheduler job per target, no lock).                                *)
(***************************************************************************)
EXTENDS Ladder, FiniteSets

CONSTANTS
  Names,             \* target names
  Specs,             \* the contents a TargetPolicy may have, its name apart
  NoSpec,            \* "no target of that name"
  Remediations,      \* the ladder of each content
  MaxCount,          \* the counter saturates here: no threshold lies above
  Policies,          \* the policies that files, and pushes, may hold
  NoPolicy,          \* no reload in progress
  Verdicts,          \* what a probe may do: "healthy", "unhealthy", "raises"
  AlerterSuspends,   \* FALSE for NullAlerter, whose calls never suspend
  ChannelOutcomes,   \* of an alert call: "ok", "dropped" (swallowed), "raises"
  ApproverSuspends   \* TRUE for AIApprover; FALSE for deny_all, the TUI's and
                     \* the owner's, which answer without suspending

PolicyType == [frozen : BOOLEAN, targets : [Names -> Specs \cup {NoSpec}]]

ASSUME EngineAssumption ==
  /\ NoSpec \notin Specs
  /\ MaxCount \in Nat \ {0}
  /\ Remediations \in [Specs -> Seq(StepsOver(0 .. MaxCount))]
  /\ \A s \in Specs : ValidLadder(Remediations[s])
  /\ Policies \subseteq PolicyType
  /\ NoPolicy \notin Policies
  /\ Verdicts \subseteq {"healthy", "unhealthy", "raises"}
  /\ ChannelOutcomes \subseteq {"ok", "dropped", "raises"}
  /\ AlerterSuspends \in BOOLEAN /\ ApproverSuspends \in BOOLEAN

VARIABLES
  policy,      \* self.policy
  failures,    \* self._failures, 0 where there is no entry
  openAlerts,  \* self._open_alerts
  retired,     \* self._retired
  tick,        \* the supervision of each name in flight: where it is suspended
  reload,      \* the apply_policy in flight
  sink,        \* each name's alert at the channel's far end: "closed", "open",
               \* or "unknown" when the latest call did not get through
  streak       \* history: see CounterIsEvidence

engineVars ==
  <<policy, failures, openAlerts, retired, tick, reload, sink, streak>>

(* A supervision in flight: the await it is suspended at, the TargetPolicy  *)
(* it was started with, the count and the ladder step it holds in local     *)
(* variables, whether the approver agreed, and (history) what a reload has  *)
(* done to its target since it started.                                     *)
Idle == [pc |-> "idle", spec |-> NoSpec, n |-> 0, step |-> 0,
         approved |-> FALSE, stale |-> "no"]

Started(s) == [Idle EXCEPT !.pc = "probing", !.spec = s]

NoReload == [pc |-> "idle", new |-> NoPolicy, todo |-> {}, at |-> {}]

Supervised(p) == {t \in Names : p.targets[t] # NoSpec}

SinkType == [Names -> {"closed", "open", "unknown"}]

TickType ==
  [pc : {"idle", "probing", "firing", "resolving", "approving", "applying"},
   spec : Specs \cup {NoSpec}, n : 0 .. MaxCount, step : Nat,
   approved : BOOLEAN, stale : {"no", "changed", "removed"}]

EngineTypeOK ==
  /\ policy \in PolicyType
  /\ failures \in [Names -> 0 .. MaxCount]
  /\ streak \in [Names -> 0 .. MaxCount]
  /\ openAlerts \subseteq Names /\ retired \subseteq Names
  /\ sink \in SinkType
  /\ tick \in [Names -> TickType]
  /\ \A t \in Names : tick[t].pc # "idle" => tick[t].spec \in Specs
  /\ reload \in [pc : {"idle", "resolving"}, new : Policies \cup {NoPolicy},
                 todo : SUBSET Names, at : SUBSET Names]
  /\ reload.pc # "idle" => reload.new \in Policies

EngineInit ==
  /\ policy \in Policies
  /\ failures = [t \in Names |-> 0] /\ streak = [t \in Names |-> 0]
  /\ openAlerts = {} /\ retired = {} /\ sink = [t \in Names |-> "closed"]
  /\ tick = [t \in Names |-> Idle]
  /\ reload = NoReload

-----------------------------------------------------------------------------
(* One target: _supervise and _supervise_inner.                             *)

Bump(k) == IF k < MaxCount THEN k + 1 ELSE MaxCount

Finish(t) == tick' = [tick EXCEPT ![t] = Idle]

Suspend(t, pc, k, i) ==
  tick' = [tick EXCEPT ![t] = [@ EXCEPT !.pc = pc, !.n = k, !.step = i]]

Apply(t, i, yes) ==
  tick' = [tick EXCEPT ![t] = [@ EXCEPT !.pc = "applying", !.n = 0,
                                        !.step = i, !.approved = yes]]

(* _select_and_act up to its next await, with the count k that _supervise_inner *)
(* passes it; the freeze is read from the policy in force.                  *)
SelectAndAct(t, k) ==
  LET ladder   == Remediations[tick[t].spec]
      decision == Decision(ladder, k, policy.frozen)
      i        == Selected(ladder, k)
  IN  \/ decision \in {"waiting", "frozen", "suggest"} /\ Finish(t)
      \/ decision = "auto" /\ Apply(t, i, FALSE)
      \/ decision = "gated" /\ ApproverSuspends /\ Suspend(t, "approving", 0, i)
      \/ decision = "gated" /\ ~ ApproverSuspends /\ (Finish(t) \/ Apply(t, i, TRUE))

(* Removed by a reload while the probe ran?                                 *)
NeverDropped(t) == FALSE  \* mutant: the test is missing
Dropped(t) == t \in retired

(* Then nothing is written.                                                 *)
ProbeOfRetired(t) ==
  /\ tick[t].pc = "probing" /\ Dropped(t)
  /\ Finish(t)
  /\ UNCHANGED <<policy, failures, openAlerts, retired, reload, sink, streak>>

ProbeRaises(t) ==
  /\ "raises" \in Verdicts
  /\ tick[t].pc = "probing"
  /\ Finish(t)
  /\ UNCHANGED <<policy, failures, openAlerts, retired, reload, sink, streak>>

(* Mutant: the counter survives a healthy probe.                            *)
ProbeHealthyKeepsCounter(t) ==
  /\ "healthy" \in Verdicts
  /\ tick[t].pc = "probing" /\ ~ Dropped(t)
  /\ streak' = [streak EXCEPT ![t] = IF tick[t].stale = "no" THEN 0 ELSE @]
  /\ openAlerts' = openAlerts \ {t}
  /\ Finish(t)
  /\ UNCHANGED <<policy, failures, retired, reload, sink>>

(* Mutant: the alert is forgotten before it is resolved at the channel.     *)
ProbeHealthyTellsNobody(t) ==
  /\ "healthy" \in Verdicts
  /\ tick[t].pc = "probing" /\ ~ Dropped(t)
  /\ failures' = [failures EXCEPT ![t] = 0]
  /\ streak' = [streak EXCEPT ![t] = IF tick[t].stale = "no" THEN 0 ELSE @]
  /\ openAlerts' = openAlerts \ {t}
  /\ Finish(t)
  /\ UNCHANGED <<policy, retired, reload, sink>>

(* Mutant: the alert stays on the engine's books.                           *)
ProbeHealthyKeepsAlert(t) ==
  /\ "healthy" \in Verdicts
  /\ tick[t].pc = "probing" /\ ~ Dropped(t)
  /\ failures' = [failures EXCEPT ![t] = 0]
  /\ streak' = [streak EXCEPT ![t] = IF tick[t].stale = "no" THEN 0 ELSE @]
  /\ Finish(t)
  /\ UNCHANGED <<policy, openAlerts, retired, reload, sink>>

ProbeHealthy(t) ==
  /\ "healthy" \in Verdicts
  /\ tick[t].pc = "probing" /\ ~ Dropped(t)
  /\ failures' = [failures EXCEPT ![t] = 0]
  /\ streak' = [streak EXCEPT ![t] = IF tick[t].stale = "no" THEN 0 ELSE @]
  /\ openAlerts' = openAlerts \ {t}
  /\ IF t \in openAlerts /\ AlerterSuspends
     THEN Suspend(t, "resolving", 0, 0)
     ELSE Finish(t)
  /\ UNCHANGED <<policy, retired, reload, sink>>

ProbeUnhealthy(t) ==
  LET k == Bump(failures[t])
  IN  /\ "unhealthy" \in Verdicts
      /\ tick[t].pc = "probing" /\ ~ Dropped(t)
      /\ failures' = [failures EXCEPT ![t] = k]
      /\ streak' = [streak EXCEPT ![t] = IF tick[t].stale = "no" THEN Bump(@) ELSE @]
      /\ openAlerts' = openAlerts \cup {t}
      /\ IF t \notin openAlerts /\ AlerterSuspends
         THEN Suspend(t, "firing", k, 0)
         ELSE SelectAndAct(t, k)
      /\ UNCHANGED <<policy, retired, reload, sink>>

(* The channel's far end after a call about the names in S.                 *)
Deliver(S, outcome, shown) ==
  sink' = [t \in Names |-> IF t \notin S THEN sink[t]
                           ELSE IF outcome = "ok" THEN shown ELSE "unknown"]

(* alerter.fire returns, and the coroutine goes on; or it raises, and       *)
(* _supervise turns the exception into an outcome.                          *)
FireReturns(t, outcome) ==
  /\ tick[t].pc = "firing"
  /\ Deliver({t}, outcome, "open")
  /\ IF outcome = "raises" THEN Finish(t) ELSE SelectAndAct(t, tick[t].n)
  /\ UNCHANGED <<policy, failures, openAlerts, retired, reload, streak>>

ResolveReturns(t, outcome) ==
  /\ tick[t].pc = "resolving"
  /\ Deliver({t}, outcome, "closed")
  /\ Finish(t)
  /\ UNCHANGED <<policy, failures, openAlerts, retired, reload, streak>>

(* A refusal and an approver that raises both end the supervision.          *)
ApproverAnswers(t, yes) ==
  /\ tick[t].pc = "approving"
  /\ IF yes THEN Apply(t, tick[t].step, TRUE) ELSE Finish(t)
  /\ UNCHANGED <<policy, failures, openAlerts, retired, reload, sink, streak>>

(* Mutant: a repaired target keeps its counter.                             *)
ApplyReturnsKeepsCounter(t, success) ==
  /\ tick[t].pc = "applying"
  /\ streak' = IF success /\ tick[t].stale = "no"
               THEN [streak EXCEPT ![t] = 0] ELSE streak
  /\ Finish(t)
  /\ UNCHANGED <<policy, failures, openAlerts, retired, reload, sink>>

(* A remediation that fails, or raises, leaves the counter alone.           *)
ApplyReturns(t, success) ==
  /\ tick[t].pc = "applying"
  /\ failures' = IF success THEN [failures EXCEPT ![t] = 0] ELSE failures
  /\ streak' = IF success /\ tick[t].stale = "no"
               THEN [streak EXCEPT ![t] = 0] ELSE streak
  /\ Finish(t)
  /\ UNCHANGED <<policy, openAlerts, retired, reload, sink>>

Probe(t) ==
  ProbeOfRetired(t) \/ ProbeRaises(t) \/ ProbeHealthy(t) \/ ProbeUnhealthy(t)

Resume(t) ==
  \/ \E outcome \in ChannelOutcomes : FireReturns(t, outcome) \/ ResolveReturns(t, outcome)
  \/ \E yes \in BOOLEAN : ApproverAnswers(t, yes) \/ ApplyReturns(t, yes)

TickStep(t) == Probe(t) \/ Resume(t)

-----------------------------------------------------------------------------
(* A reload: apply_policy.                                                  *)

Removed(p) == Supervised(policy) \ Supervised(p)
Added(p) == Supervised(p) \ Supervised(policy)
Changed(p) == {t \in Supervised(p) \cap Supervised(policy) :
                 p.targets[t] # policy.targets[t]}
Touched(p) == Removed(p) \cup Added(p) \cup Changed(p)

(* Whose counter a reload restarts besides those of the removed targets.    *)
RestartsNone(p) == {}     \* mutant: a changed target keeps its counter
RestartsAll(p) == Names   \* mutant: every counter restarts
Restarts(p) == Changed(p)

(* _retired after a reload.                                                 *)
RetiredForgets(p) == retired \ Supervised(p)  \* mutant: nobody is added
RetiredAfter(p) == (retired \cup Removed(p)) \ Supervised(p)

Cleared(f, S) == [t \in Names |-> IF t \in S THEN 0 ELSE f[t]]

(* Mutant: the open alert of a removed target is resolved, not discarded.   *)
DropUpToKeepsAlert(p, todo, t, silent) ==
  /\ AlerterSuspends
  /\ t \in todo \cap openAlerts
  /\ failures' = Cleared(failures, silent \cup {t})
  /\ reload' = [pc |-> "resolving", new |-> p,
                todo |-> todo \ (silent \cup {t}), at |-> {t}]
  /\ UNCHANGED <<policy, openAlerts, retired, tick, streak>>

(* Mutant: a removed target with an open alert keeps its counter.           *)
DropUpToKeepsCounter(p, todo, t, silent) ==
  /\ AlerterSuspends
  /\ t \in todo \cap openAlerts
  /\ failures' = Cleared(failures, silent)
  /\ openAlerts' = openAlerts \ {t}
  /\ reload' = [pc |-> "resolving", new |-> p,
                todo |-> todo \ (silent \cup {t}), at |-> {t}]
  /\ UNCHANGED <<policy, retired, tick, streak>>

(* The loop over the removed targets runs on until it has a target t with   *)
(* an open alert, and suspends in alerter.resolve for it.  The order of the *)
(* loop is the order of the old file: any set of silent targets may come    *)
(* before t.                                                                *)
DropUpTo(p, todo, t, silent) ==
  /\ AlerterSuspends
  /\ t \in todo \cap openAlerts
  /\ failures' = Cleared(failures, silent \cup {t})
  /\ openAlerts' = openAlerts \ {t}
  /\ reload' = [pc |-> "resolving", new |-> p,
                todo |-> todo \ (silent \cup {t}), at |-> {t}]
  /\ UNCHANGED <<policy, retired, tick, streak>>

(* The loop ends, and the new policy comes into force.                      *)
DropRestAndInstall(p, todo) ==
  /\ AlerterSuspends => todo \cap openAlerts = {}
  /\ failures' = Cleared(failures, todo \cup Restarts(p))
  /\ streak' = Cleared(streak, Touched(p))
  /\ openAlerts' = openAlerts \ todo
  /\ retired' = RetiredAfter(p)
  /\ policy' = p
  /\ tick' = [t \in Names |->
                IF tick[t].pc # "idle" /\ t \in Touched(p)
                THEN [tick[t] EXCEPT !.stale =
                        IF t \in Removed(p) THEN "removed"
                        ELSE IF @ = "no" THEN "changed" ELSE @]
                ELSE tick[t]]
  /\ reload' = NoReload

DropRemoved(p, todo) ==
  \/ \E t \in todo : \E silent \in SUBSET (todo \ openAlerts) :
        DropUpTo(p, todo, t, silent)
  \/ DropRestAndInstall(p, todo)

(* apply_policy from the moment it holds the lock.                          *)
BeginReload(p) ==
  /\ reload.pc = "idle"
  /\ DropRemoved(p, Removed(p))
  /\ UNCHANGED sink

(* Mutant: the reload waits until a call gets through.                      *)
ReloadResolveMustSucceed(outcome) ==
  /\ reload.pc = "resolving" /\ outcome = "ok"
  /\ Deliver(reload.at, outcome, "closed")
  /\ DropRemoved(reload.new, reload.todo)

(* An alerter that raises does not stop a reload.                           *)
ReloadResolveReturns(outcome) ==
  /\ reload.pc = "resolving"
  /\ Deliver(reload.at, outcome, "closed")
  /\ DropRemoved(reload.new, reload.todo)

ReloadStep == \E outcome \in ChannelOutcomes : ReloadResolveReturns(outcome)

-----------------------------------------------------------------------------
(* Properties that Cycle and Watch share.                                   *)

(* A gated step runs only after a yes of the approver in the same           *)
(* supervision, a suggested one never, and a destructive one is always      *)
(* behind the approver (engine.py:10-16, models.py:77-81).                  *)
ActsOnlyAsAllowed ==
  \A t \in Names : tick[t].pc = "applying" =>
     LET s == Remediations[tick[t].spec][tick[t].step]
     IN  /\ s.autonomy = "auto" \/ (s.autonomy = "gated" /\ tick[t].approved)
         /\ s.destructive => tick[t].approved

StartsApplying(t) == tick[t].pc # "applying" /\ tick'[t].pc = "applying"

(* "nothing is applied while it is set" (engine.py:20): no remediation      *)
(* starts under a frozen policy, though the flag is read before the         *)
(* approver is awaited and may be written at any moment.                    *)
FreezeHolds ==
  [][ \A t \in Names : StartsApplying(t) => ~ policy.frozen ]_engineVars

(* streak[t] counts the latest failures in a row that probes of t as the    *)
(* policy in force describes it have seen, since t was last healthy or      *)
(* repaired.  A counter that exceeds it counts a failure twice, or one that *)
(* is not in a row, or one of another content or an earlier life of the     *)
(* target (engine.py:126-129 and 156-157, models.py:45).                    *)
CounterIsEvidence == \A t \in Names : failures[t] <= streak[t]

(* "consecutive failures required before this remediation becomes eligible" *)
(* (models.py:45): a remediation of the current content of a target starts  *)
(* on no less evidence than its threshold asks for.                         *)
ActsOnEvidence ==
  [][ \A t \in Names : StartsApplying(t) /\ tick[t].stale = "no"
        => Remediations[tick'[t].spec][tick'[t].step].max_attempts
             <= streak'[t] ]_engineVars

(* What the channel shows for a target is what the engine believes, unless  *)
(* a call about it is on its way or the latest one did not get through      *)
(* (alerting/base.py:11).                                                   *)
SinkAgrees ==
  \A t \in Names :
     tick[t].pc \notin {"firing", "resolving"} /\ t \notin reload.at
       => sink[t] = "unknown" \/ (sink[t] = "open" <=> t \in openAlerts)

(* "A removed target loses its counter and has its open alert resolved"     *)
(* (engine.py:127-128): between reloads only supervised targets have either.*)
RemovedLosesState ==
  reload.pc = "idle" =>
    \A t \in Names \ Supervised(policy) : failures[t] = 0 /\ t \notin openAlerts

(* Alerts are opened and closed as AlertContract says, also when a reload   *)
(* suspends half way (engine.py:122-129).                                   *)
Contract == INSTANCE AlertContract
              WITH supervised <- Supervised(policy), open <- openAlerts
ImplementsAlertContract == Contract!Spec
=============================================================================
