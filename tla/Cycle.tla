-------------------------------- MODULE Cycle --------------------------------
(***************************************************************************)
(* The engine driven by run_cycle: every cycle and every reload holds the  *)
(* engine's lock, and a cycle supervises all targets at once.  This is how *)
(* `spero run' and `spero top' drive it.  The dashboard also cancels a     *)
(* cycle when its timer or the refresh key starts the next one, and turns  *)
(* the freeze on and off at any moment.                                    *)
(***************************************************************************)
EXTENDS Engine

CONSTANTS
  Callers,          \* the tasks that call run_cycle
  Reloader,         \* the task that calls apply_policy
  Free,             \* nobody holds the lock
  Reloads,          \* whether apply_policy is called at all
  OperatorFreezes   \* whether an operator has the freeze key of `spero top'

ASSUME CycleAssumption ==
  /\ Reloader \notin Callers /\ Free \notin Callers \cup {Reloader}
  /\ Reloads \in BOOLEAN /\ OperatorFreezes \in BOOLEAN
  \* the dashboards, which have the freeze key, never reload, and their
  \* approver does not suspend
  /\ OperatorFreezes => ~ Reloads /\ ~ ApproverSuspends

VARIABLES
  lock,     \* self._lock: who holds it
  waiters,  \* the tasks waiting for it, first come first served
  next,     \* the argument of the latest apply_policy
  orphans   \* names with a remediation still running, its coroutine cancelled

vars == <<engineVars, lock, waiters, next, orphans>>

Waiting(c) == \E i \in DOMAIN waiters : waiters[i] = c
AtRest == \A t \in Names : tick[t].pc = "idle"

TypeOK ==
  /\ EngineTypeOK
  /\ lock \in Callers \cup {Reloader, Free}
  /\ waiters \in Seq(Callers \cup {Reloader})
  /\ next \in Policies
  /\ orphans \subseteq Names

Init ==
  /\ EngineInit
  /\ lock = Free /\ waiters = << >> /\ next = policy /\ orphans = {}

EnqueueFirst(c) ==  \* mutant: a newcomer overtakes the others
  /\ lock # c /\ ~ Waiting(c)
  /\ waiters' = <<c>> \o waiters

(* asyncio.Lock: a newcomer queues behind the tasks that wait already.      *)
Enqueue(c) == /\ lock # c /\ ~ Waiting(c)
              /\ waiters' = Append(waiters, c)

AcquireTaken(c) ==  \* mutant: a cycle does not wait for the lock
  /\ waiters # << >> /\ Head(waiters) = c
  /\ lock' = c
  /\ waiters' = Tail(waiters)

Acquire(c) == /\ lock = Free /\ waiters # << >> /\ Head(waiters) = c
              /\ lock' = c
              /\ waiters' = Tail(waiters)

CallRunCycle(c) ==
  Enqueue(c) /\ UNCHANGED <<engineVars, lock, next, orphans>>

(* Mutant: names that the policy does not list are supervised too.          *)
BeginCycleForAll(c) ==
  /\ Acquire(c)
  /\ tick' = [t \in Names |-> Started(policy.targets[t])]
  /\ UNCHANGED <<policy, failures, openAlerts, retired, reload, sink, streak,
                 next, orphans>>

(* gather: one supervision per target of the policy in force.               *)
BeginCycle(c) ==
  /\ Acquire(c)
  /\ tick' = [t \in Names |-> IF t \in Supervised(policy)
                              THEN Started(policy.targets[t]) ELSE Idle]
  /\ UNCHANGED <<policy, failures, openAlerts, retired, reload, sink, streak,
                 next, orphans>>

EndCycle(c) ==
  /\ lock = c /\ AtRest
  /\ lock' = Free
  /\ UNCHANGED <<engineVars, waiters, next, orphans>>

(* run_worker(exclusive=True): the cycle in flight is cancelled, and with   *)
(* it every supervision at its await.  Nothing stops the command of a       *)
(* remediation that has been started.                                       *)
CancelCycle(c) ==
  /\ lock = c
  /\ lock' = Free
  /\ tick' = [t \in Names |-> Idle]
  /\ orphans' = orphans \cup {t \in Names : tick[t].pc = "applying"}
  /\ UNCHANGED <<policy, failures, openAlerts, retired, reload, sink, streak,
                 waiters, next>>

CancelWaiting(i) ==
  /\ waiters[i] # Reloader
  /\ waiters' = SubSeq(waiters, 1, i - 1) \o SubSeq(waiters, i + 1, Len(waiters))
  /\ UNCHANGED <<engineVars, lock, next, orphans>>

OrphanExits(t) ==
  /\ t \in orphans
  /\ orphans' = orphans \ {t}
  /\ UNCHANGED <<engineVars, lock, waiters, next>>

CallApplyPolicy(p) ==
  /\ Reloads /\ Enqueue(Reloader)
  /\ next' = p
  /\ UNCHANGED <<engineVars, lock, orphans>>

NeverRelease == lock' = Reloader  \* mutant

(* The lock is released by the step that ends apply_policy.                 *)
ReleaseWhenDone == lock' = IF reload'.pc = "idle" THEN Free ELSE Reloader

StartApplyPolicy ==
  /\ lock = Free /\ waiters # << >> /\ Head(waiters) = Reloader
  /\ waiters' = Tail(waiters)
  /\ BeginReload(next)
  /\ ReleaseWhenDone
  /\ UNCHANGED <<next, orphans>>

ContinueApplyPolicy ==
  /\ ReloadStep
  /\ ReleaseWhenDone
  /\ UNCHANGED <<waiters, next, orphans>>

(* The freeze key writes the flag of the policy in force, lock or no lock.  *)
ToggleFreeze ==
  /\ OperatorFreezes
  /\ policy' = [policy EXCEPT !.frozen = ~ @]
  /\ UNCHANGED <<failures, openAlerts, retired, tick, reload, sink, streak,
                 lock, waiters, next, orphans>>

Supervise(t) == TickStep(t) /\ UNCHANGED <<lock, waiters, next, orphans>>

(* What the tasks do by themselves, as under `spero run'.                   *)
TasksNext ==
  \/ \E c \in Callers : CallRunCycle(c) \/ BeginCycle(c) \/ EndCycle(c)
  \/ \E t \in Names : Supervise(t)
  \/ \E p \in Policies : CallApplyPolicy(p)
  \/ StartApplyPolicy \/ ContinueApplyPolicy

(* And what a dashboard does to them.                                       *)
DashboardNext ==
  \/ \E c \in Callers : CancelCycle(c)
  \/ \E i \in DOMAIN waiters : CancelWaiting(i)
  \/ \E t \in Names : OrphanExits(t)
  \/ ToggleFreeze

Next == TasksNext \/ DashboardNext

Spec == Init /\ [][Next]_vars

(* Every await is bounded by a timeout of the provider, the channel or the  *)
(* approver; the lock is handed on.  Nobody is obliged to start a cycle,    *)
(* and nobody cancels one: a cancelled task waits for nothing.              *)
Fairness ==
  /\ \A t \in Names : WF_vars(Supervise(t))
  /\ \A c \in Callers : WF_vars(BeginCycle(c)) /\ WF_vars(EndCycle(c))
  /\ WF_vars(StartApplyPolicy) /\ WF_vars(ContinueApplyPolicy)

FairSpec == Init /\ [][TasksNext]_vars /\ Fairness

-----------------------------------------------------------------------------
(* run_cycle and apply_policy exclude each other (engine.py:156-157): a     *)
(* supervision is in flight only under a cycle's lock, a reload only under  *)
(* its own, and never both.                                                 *)
LockGuards ==
  /\ ~ AtRest => lock \in Callers
  /\ reload.pc # "idle" => lock = Reloader

(* "overlapping callers (a scheduler plus a manual trigger) can't           *)
(* double-count failures or double-fire remediations" (engine.py:156-157):  *)
(* a remediation never starts while an earlier run of one for the same      *)
(* target is still going on.                                                *)
OneRemediationAtATime == \A t \in orphans : tick[t].pc # "applying"

(* A cycle, or a reload, that waits for the lock gets it.                   *)
EveryWaiterServed ==
  \A c \in Callers \cup {Reloader} : Waiting(c) ~> ~ Waiting(c)
=============================================================================
