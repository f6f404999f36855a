------------------------------ MODULE DialHome ------------------------------
(***************************************************************************)
(* The owner and one agent (owner.py, agent.py, api/supervisor.py).  The   *)
(* agent reports on a timer and the reply carries the orders queued since  *)
(* the previous report: approvals for the gate and pushed policies.  Beside *)
(* the report loop the agent's supervisor goes on probing and, with the    *)
(* owner's approval, repairing.  Requests and replies may be lost, and the *)
(* owner may restart.  The ladder of every target is one gated step.       *)
(***************************************************************************)
EXTENDS Integers, Sequences, FiniteSets, FiniteSetsExt

CONSTANTS
  Targets,
  Threshold,   \* max_attempts of the gated step
  MaxClicks,   \* bound on the approvals an operator gives
  MaxPushes,   \* bound on the policies pushed, numbered as they are pushed
  Rejected     \* the pushes that the owner loads and the agent, which may be
               \* of another version, does not

ASSUME DialHomeAssumption ==
  /\ Threshold \in Nat \ {0} /\ MaxClicks \in Nat /\ MaxPushes \in Nat
  /\ Rejected \subseteq 1 .. MaxPushes

VARIABLES
  orders,    \* AgentState.orders
  clicks,    \* history: the approvals given, for each target
  pushed,    \* the number of the latest push
  wire,      \* "idle", "request", "reply" or "error" (a status other than 200)
  reply,     \* the orders of the reply under way
  stray,     \* whether a request the agent gave up on may still arrive
  lost,      \* history: the latest push that was lost under way
  loop,      \* where run_agent is
  approved,  \* RemoteApprover.approved
  version,   \* the push whose policy is supervised, 0 for the agent's own
  pending,   \* the push being swapped in
  received,  \* history: the approvals the agent has received, for each target
  spent,     \* history: how many of them it has forgotten
  up,        \* whether the supervisor runs
  tick,      \* where the supervision of each target is
  failures,  \* Engine._failures
  latest     \* Supervisor.latest: whether a target's outcome is an applied action

ownerVars == <<orders, clicks, pushed>>
wireVars == <<wire, reply, stray, lost>>
loopVars == <<loop, approved, version, pending, received, spent>>
supVars == <<up, tick, failures, latest>>
vars == <<ownerVars, wireVars, loopVars, supVars>>

Approval(t) == [type |-> "approve", target |-> t]
PolicyPush(n) == [type |-> "policy", number |-> n]
Order == {Approval(t) : t \in Targets} \cup {PolicyPush(n) : n \in 1 .. MaxPushes}

Nobody == [t \in Targets |-> 0]

TypeOK ==
  /\ orders \in Seq(Order) /\ reply \in Seq(Order)
  /\ clicks \in [Targets -> 0 .. MaxClicks] /\ pushed \in 0 .. MaxPushes
  /\ wire \in {"idle", "request", "reply", "error"} /\ stray \in BOOLEAN
  /\ lost \in 0 .. MaxPushes
  /\ loop \in {"ready", "posted", "stopping", "starting", "ended"}
  /\ loop = "posted" <=> wire # "idle"
  /\ approved \subseteq Targets
  /\ version \in 0 .. pushed /\ pending \in 0 .. pushed
  /\ received \in [Targets -> 0 .. MaxClicks] /\ spent \in [Targets -> 0 .. MaxClicks]
  /\ up \in BOOLEAN
  /\ tick \in [Targets -> {"idle", "probing", "applying"}]
  /\ failures \in [Targets -> 0 .. Threshold]
  /\ latest \in [Targets -> {"applied", "other"}]

Init ==
  /\ orders = << >> /\ clicks = Nobody /\ pushed = 0
  /\ wire = "idle" /\ reply = << >> /\ stray = FALSE /\ lost = 0
  /\ loop = "ready" /\ approved = {} /\ version = 0 /\ pending = 0
  /\ received = Nobody /\ spent = Nobody
  /\ up = TRUE /\ tick = [t \in Targets |-> "idle"]
  /\ failures = Nobody /\ latest = [t \in Targets |-> "other"]

-----------------------------------------------------------------------------
(* The owner.                                                               *)

Pushes(o) == {i \in DOMAIN o : o[i].type = "policy"}
Approvals(o, t) == {i \in DOMAIN o : o[i] = Approval(t)}

(* The pushes among the orders o are lost.                                  *)
Lose(o) == lost' = Max({lost} \cup {o[i].number : i \in Pushes(o)})

Approve(t) ==
  /\ clicks[t] < MaxClicks
  /\ clicks' = [clicks EXCEPT ![t] = @ + 1]
  /\ orders' = Append(orders, Approval(t))
  /\ UNCHANGED <<pushed, wireVars, loopVars, supVars>>

(* A policy the owner itself cannot load is refused before it is queued.    *)
PushPolicy ==
  /\ pushed < MaxPushes
  /\ pushed' = pushed + 1
  /\ orders' = Append(orders, PolicyPush(pushed + 1))
  /\ UNCHANGED <<clicks, wireVars, loopVars, supVars>>

(* The owner keeps everything in memory.                                    *)
OwnerRestarts ==
  /\ orders # << >> /\ orders' = << >>
  /\ Lose(orders)
  /\ UNCHANGED <<clicks, pushed, wire, reply, stray, loopVars, supVars>>

(* A report hands over the queue and clears it.                             *)
Answer ==
  /\ wire = "request" /\ wire' = "reply"
  /\ reply' = orders /\ orders' = << >>
  /\ UNCHANGED <<clicks, pushed, stray, lost, loopVars, supVars>>

Refuse ==
  /\ wire = "request" /\ wire' = "error"
  /\ UNCHANGED <<ownerVars, reply, stray, lost, loopVars, supVars>>

(* A report that arrives after the agent has given it up.                   *)
AnswerStray ==
  /\ stray /\ stray' = FALSE
  /\ Lose(orders) /\ orders' = << >>
  /\ UNCHANGED <<clicks, pushed, wire, reply, loopVars, supVars>>

-----------------------------------------------------------------------------
(* The agent's report loop.                                                 *)

Report ==
  /\ loop = "ready" /\ loop' = "posted"
  /\ wire' = "request"
  /\ UNCHANGED <<ownerVars, reply, stray, lost, approved, version, pending,
                 received, spent, supVars>>

(* The end of a turn: approvals whose action has applied are forgotten,     *)
(* also those that came in with this turn's reply.                          *)
NothingServed == {}  \* mutant
Served == {t \in Targets : latest[t] = "applied"}

Forget(kept) ==
  /\ approved' = kept \ Served
  /\ spent' = [t \in Targets |-> IF latest[t] = "applied" THEN received'[t]
                                ELSE spent[t]]

(* Mutant: the reply of the request given up is still awaited.              *)
GiveUpForgetsRequest ==
  /\ loop = "posted" /\ loop' = "ready"
  /\ received' = received
  /\ Forget(approved)
  /\ UNCHANGED <<ownerVars, wireVars, version, pending, supVars>>

(* An HTTP error: nothing answers, or not in time.  The request may still   *)
(* be under way, the reply is lost.                                         *)
GiveUp ==
  /\ loop = "posted" /\ loop' = "ready"
  /\ wire' = "idle" /\ reply' = << >>
  /\ stray' \in IF wire = "request" THEN {stray, TRUE} ELSE {stray}
  /\ Lose(reply)
  /\ received' = received
  /\ Forget(approved)
  /\ UNCHANGED <<ownerVars, version, pending, supVars>>

ReceiveError ==
  /\ loop = "posted" /\ wire = "error"
  /\ loop' = "ready" /\ wire' = "idle"
  /\ received' = received
  /\ Forget(approved)
  /\ UNCHANGED <<ownerVars, reply, stray, lost, version, pending, supVars>>

FirstPush(o) == IF Pushes(o) = {} THEN 0 ELSE o[Min(Pushes(o))].number  \* mutant

(* latest_policy_order, 0 for None.                                         *)
LatestPush(o) == IF Pushes(o) = {} THEN 0 ELSE o[Max(Pushes(o))].number

(* Mutant: the old supervisor is stopped before the push is validated.      *)
ReceiveStopsFirst ==
  LET now  == {t \in Targets : Approvals(reply, t) # {}}
      push == LatestPush(reply)
  IN  /\ loop = "posted" /\ wire = "reply"
      /\ wire' = "idle" /\ reply' = << >>
      /\ received' = [t \in Targets |-> received[t] + Cardinality(Approvals(reply, t))]
      /\ IF push \in Rejected \cup {0}
         THEN /\ loop' = "ready" /\ pending' = pending
              /\ Forget(approved \cup now)
         ELSE /\ loop' = "stopping" /\ pending' = push
              /\ approved' = approved \cup now /\ spent' = spent
      /\ up' = (up /\ push \notin Rejected)
      /\ UNCHANGED <<ownerVars, stray, lost, version, tick, failures, latest>>

(* apply_orders, and, if there is no policy to swap in or it does not load, *)
(* the end of the turn.                                                     *)
Receive ==
  LET now  == {t \in Targets : Approvals(reply, t) # {}}
      push == LatestPush(reply)
  IN  /\ loop = "posted" /\ wire = "reply"
      /\ wire' = "idle" /\ reply' = << >>
      /\ received' = [t \in Targets |-> received[t] + Cardinality(Approvals(reply, t))]
      /\ IF push \in Rejected \cup {0}
         THEN /\ loop' = "ready" /\ pending' = pending
              /\ Forget(approved \cup now)
         ELSE /\ loop' = "stopping" /\ pending' = push
              /\ approved' = approved \cup now /\ spent' = spent
      /\ UNCHANGED <<ownerVars, stray, lost, version, supVars>>

(* swap_supervisor: the watch loop of the old supervisor ends, and with it  *)
(* every supervision at its await ...                                       *)
StopOld ==
  /\ loop = "stopping" /\ loop' = "starting"
  /\ up' = FALSE /\ tick' = [t \in Targets |-> "idle"]
  /\ UNCHANGED <<ownerVars, wireVars, approved, version, pending, received,
                 spent, failures, latest>>

(* Mutant: the new supervisor gets an approver of its own.                  *)
StartNewApprover ==
  /\ loop = "starting" /\ loop' = "ready"
  /\ up' = TRUE /\ version' = pending /\ pending' = 0
  /\ failures' = Nobody /\ latest' = [t \in Targets |-> "other"]
  /\ approved' = {}
  /\ UNCHANGED <<ownerVars, wireVars, received, spent, tick>>

(* ... and a new one starts, with the same approver, knowing nothing of     *)
(* what the old one counted or did: this turn forgets no approval.          *)
StartNew ==
  /\ loop = "starting" /\ loop' = "ready"
  /\ up' = TRUE /\ version' = pending /\ pending' = 0
  /\ failures' = Nobody /\ latest' = [t \in Targets |-> "other"]
  /\ UNCHANGED <<ownerVars, wireVars, approved, received, spent, tick>>

(* SIGINT or SIGTERM, seen at the end of a turn.                            *)
StopAgent ==
  /\ loop = "ready" /\ loop' = "ended"
  /\ up' = FALSE /\ tick' = [t \in Targets |-> "idle"]
  /\ UNCHANGED <<ownerVars, wireVars, approved, version, pending, received,
                 spent, failures, latest>>

-----------------------------------------------------------------------------
(* The agent's supervisor: the tick of one target.                          *)

StartTick(t) ==
  /\ up /\ tick[t] = "idle"
  /\ tick' = [tick EXCEPT ![t] = "probing"]
  /\ UNCHANGED <<ownerVars, wireVars, loopVars, up, failures, latest>>

EndTick(t, outcome) ==
  /\ tick' = [tick EXCEPT ![t] = "idle"]
  /\ latest' = [latest EXCEPT ![t] = outcome]

ProbeHealthy(t) ==
  /\ tick[t] = "probing"
  /\ failures' = [failures EXCEPT ![t] = 0]
  /\ EndTick(t, "other")
  /\ UNCHANGED <<ownerVars, wireVars, loopVars, up>>

ProbeRaises(t) ==
  /\ tick[t] = "probing"
  /\ EndTick(t, "other")
  /\ UNCHANGED <<ownerVars, wireVars, loopVars, up, failures>>

AnyApproved(t) == approved # {}  \* mutant

(* RemoteApprover.approve, which never suspends.                            *)
Approved(t) == t \in approved

ProbeUnhealthy(t) ==
  LET k == IF failures[t] < Threshold THEN failures[t] + 1 ELSE Threshold
  IN  /\ tick[t] = "probing"
      /\ failures' = [failures EXCEPT ![t] = k]
      /\ IF k < Threshold THEN EndTick(t, "other")
         ELSE IF ~ Approved(t) THEN EndTick(t, "other")
         ELSE tick' = [tick EXCEPT ![t] = "applying"] /\ latest' = latest
      /\ UNCHANGED <<ownerVars, wireVars, loopVars, up>>

Applied(t) ==
  /\ tick[t] = "applying"
  /\ failures' = [failures EXCEPT ![t] = 0]
  /\ EndTick(t, "applied")
  /\ UNCHANGED <<ownerVars, wireVars, loopVars, up>>

ApplyFails(t) ==
  /\ tick[t] = "applying"
  /\ EndTick(t, "other")
  /\ UNCHANGED <<ownerVars, wireVars, loopVars, up, failures>>

Supervise(t) ==
  \/ ProbeHealthy(t) \/ ProbeRaises(t) \/ ProbeUnhealthy(t)
  \/ Applied(t) \/ ApplyFails(t)

Next ==
  \/ \E t \in Targets : Approve(t) \/ StartTick(t) \/ Supervise(t)
  \/ PushPolicy \/ OwnerRestarts \/ Answer \/ Refuse \/ AnswerStray
  \/ Report \/ GiveUp \/ ReceiveError \/ Receive
  \/ StopOld \/ StartNew \/ StopAgent

Spec == Init /\ [][Next]_vars

(* Probes and remediations are bounded by their timeouts and the scheduler  *)
(* starts due jobs; the swap waits for nobody but the old watch loop.       *)
(* Nothing is assumed of the owner, the operator or the network.            *)
Fairness ==
  /\ \A t \in Targets : WF_vars(StartTick(t)) /\ WF_vars(Supervise(t))
  /\ WF_vars(StopOld) /\ WF_vars(StartNew)

FairSpec == Spec /\ Fairness

-----------------------------------------------------------------------------
(* A gated step starts only on an approval the owner gave for that target,  *)
(* that the agent has received, and that no report turn has seen applied    *)
(* since (agent.py:33-39).                                                  *)
OwnerDecides ==
  [][ \A t \in Targets : tick[t] # "applying" /\ tick'[t] = "applying"
        => spent[t] < received[t] /\ received[t] <= clicks[t] ]_vars

(* "an agent that fell behind and pulls several at once converges on the    *)
(* newest one" (agent.py:56-57): with no push queued or lost, the agent     *)
(* supervises the newest, unless it cannot load it.                         *)
CatchesUp ==
  /\ loop = "ready" /\ Pushes(orders) = {}
  /\ lost < pushed /\ pushed \notin Rejected
  => version = pushed

(* "if the owner is unreachable, the agent keeps supervising"               *)
(* (agent.py:16-17), and "a bad push from the owner can never take the      *)
(* agent down" (agent.py:78): every target is probed for ever, whatever the *)
(* owner and the network do, until the agent is told to stop.               *)
KeepsSupervising ==
  [](loop # "ended") => \A t \in Targets : []<>(tick[t] = "probing")

(* A probe that is not an unhealthy one; in some states its effect is the   *)
(* same.                                                                    *)
NotDown(t) == ProbeHealthy(t) \/ ProbeRaises(t)

(* "approvals and alerts keep flowing" (agent.py:76): an approval the agent *)
(* holds, and has not acted on, is acted on if the target stays down, across *)
(* every swap.                                                              *)
ApprovalActs ==
  \A t \in Targets :
    [](loop # "ended") /\ <>[][NotDown(t) => ProbeUnhealthy(t)]_vars
      => (t \in approved /\ latest[t] # "applied" ~> tick[t] = "applying")

(* "Approvals are one-shot [...] so a single click is a single action"      *)
(* (agent.py:37-38): an action that starts on a target whose latest outcome *)
(* is an action that applied has an approval of its own.                    *)
SingleClick ==
  \A t \in Targets :
    tick[t] = "applying" /\ latest[t] = "applied" => received[t] > 1
=============================================================================
