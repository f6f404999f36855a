# Spero, specified

TLA+ specifications of Spero, with TLC configurations that model-check them on
small instances and TLAPS proofs of what holds on every instance. All line
numbers refer to the repository; `engine.py` stands for
`src/spero/core/engine.py`, and so on.

## 1. The system

Spero supervises targets (hosts, workloads) described by a policy file. It
probes each of them on an interval, counts consecutive failures, raises an alert,
and climbs the target's ladder of remediations, each of which runs unattended
(`auto`), with somebody's approval (`gated`), or never (`suggest`). A policy can
be frozen: then nothing is applied.

| Part | State it keeps | Operations | Talks to |
|---|---|---|---|
| Policy model (`core/models.py`) | ladders, thresholds, autonomy, the freeze flag | validation at load | everything |
| Engine (`core/engine.py`) | policy, failure counters, open alerts, retired names, event list, a lock, a persist lock | `run_cycle`, `supervise`, `apply_policy`, `persist` | probes, remediations, alerter, approver, store |
| Watch loop (`core/watch.py`) | one scheduler job per target | tick, reload, reconcile, stop | engine, policy reloader, store |
| Policy reloader (`core/policy.py`) | two file signatures | `poll` | the policy file, SIGHUP |
| Store (`store/`) | the events table | one transaction per batch | engine, in a worker thread |
| Supervisor (`api/supervisor.py`) | latest outcome per target | start, stop, status | watch loop; read by the API and the agent |
| Agent (`agent.py`) | approvals, the supervisor it runs | report, apply orders, swap policy | owner, by HTTP |
| Owner (`owner.py`) | order queue and last report of each agent | approve, push a policy, answer a report | agents |
| Dashboards (`tui.py`, `dashboard.py`) | approvals, latest outcomes, an event cursor | refresh, freeze, pause, approve | engine, or a remote supervisor |
| Providers, probes, remediations | none | run a command, judge its output | the machines |
| Alert channels (`alerting/`) | none | fire, resolve | Slack, mail, webhooks |
| AI helpers (`ai/`) | none | approve, predict, query, diagnose, redact | a language model |
| CLI (`cli.py`), API (`api/app.py`) | none | wiring, printing, read-only views | everything |

Spero is one asyncio process per daemon. What makes it hard is not parallelism
but suspension: between two awaits a coroutine runs undisturbed, and at each await
(a probe, an alert call, an approval, a remediation, a lock, a worker thread) any
other may run. The behaviours that are hard to test:

* the engine has two drivers with different exclusion. `run_cycle` and
  `apply_policy` hold a lock; the scheduler's ticks call `supervise` without it
  (engine.py:165-167 says why: a slow target must not stall the fleet), so a
  reload cuts into supervisions that are half way through;
* `spero top` cancels a cycle at whatever await it is suspended at;
* alert calls, approvals and remediations fail or raise, between the change of
  the engine's books and the call that tells the world;
* the policy file is edited by another process between any two system calls;
* reports and orders between agent and owner are lost with their replies.

What makes each part correct is stated as properties in its module; the hazards
they are aimed at are listed in `PROJECT.json`.

## 2. Modules

| Module | Models | Extends / composes |
|---|---|---|
| `Ladder` | which ladders load, which step a count selects, what becomes of it | |
| `Escalation` | the counter of one target that fails and is repaired, over every ladder | `Ladder` |
| `Command` | one command: attempts, timeouts, exit statuses, the process behind it | |
| `Probes` | what every probe makes of the answer of its command | |
| `Remediations` | what every remediation takes for success, what the AI approver takes for a yes | |
| `Patrol` | one target from the command of its probe to the command of its remediation, supervised or healed | `Escalation`, `Command`, `Probes`, `Remediations` |
| `Engine` | the state of an `Engine` and every await-to-await stretch of `supervise` and `apply_policy` | `Ladder` |
| `AlertContract` | abstract: when alerts open and close | implemented by `Cycle` |
| `Cycle` | the engine under `run_cycle` and its lock (`spero run`, `spero top`) | `Engine` |
| `Top` | the two local dashboards: approvals, keys, timers, signals, flushes | `Cycle`, which it implements |
| `Watch` | the engine under the scheduler, with reloads (`spero watch`, `serve`, `agent`) | `Engine` |
| `PolicyReload` | the reloader, the reload loop, signals, and the file | |
| `AuditLog` | abstract: what the store holds | implemented by `Audit` and `ControlPlane` |
| `Audit` | event list, persist lock, worker thread, shutdown | |
| `ControlPlane` | the supervisor's read model, `/status` and `/events`, a remote dashboard | `Audit` |
| `DialHome` | owner, network, agent, and the supervisor the agent swaps | |
| `LadderProofs`, `PatrolProofs`, `EngineProofs`, `TopProofs` (with those of `Cycle`), `WatchProofs`, `PolicyReloadProofs`, `AuditProofs` (with those of `ControlPlane`), `DialHomeProofs` | theorems | |
| `MC*` | the values of the constants for TLC | |

### How the modules correspond to the code

*Ladder.* `ValidLadder` is `_validate_buildable` (models.py:64-88), `Eligible` and
`Selected` the list comprehension and `eligible[-1]` of `_select_and_act`
(engine.py:216-222), `Decision` its early returns in their order: nothing
eligible, frozen, suggest, gated, auto.

*Engine.* `policy`, `failures`, `openAlerts`, `retired` are the fields of
`Engine`; a missing counter is 0. `tick[t]` is the supervision of `t` in flight:
its `pc` names the await it is suspended at, the rest its local variables.
`ProbeHealthy` and `ProbeUnhealthy` run from the return of the probe to the next
await, and so do `FireReturns`, `ResolveReturns`, `ApproverAnswers` and
`ApplyReturns`. `BeginReload` and `ReloadResolveReturns` are `apply_policy`, cut at
the only await it has, `alerter.resolve`. An alerter that does not suspend
(`NullAlerter`), and an approver that does not (`deny_all`, the dashboard's, the
owner's), are modelled as such: an await that does not suspend is no interleaving
point. `sink` is what the far end of the alert channel shows. Two history
variables serve the properties: `streak`, the failures in a row that probes of the
*current* content have seen, and `tick[t].stale`, whether a reload has overtaken
the supervision. Target contents are model values with a ladder each: the engine
compares contents for equality and reads the ladder, nothing else.

*Command* is one call of `run_local`, of its async twin (behind the local and the
Kubernetes provider) or of `SSHProvider.run`: three loops over attempts that differ in what
they retry. `pc` is where the call is, `rc` the return code of `result`; `evidence` and
`adrift` are history: how the return code was obtained, and why a process may run on with
nobody waiting for it. A local child that times out is killed and reaped (`TimeOut`,
`Reap`); a cancelled call leaves it running (`CancelCall`).

*Probes* has one operator per registered probe, from the return code and the parsed text
to "healthy", "unhealthy" or "raises". A text is abstracted to what the probe reads in it:
the fields of a JSON object with their absence, the conditions in their order, quantities
with their units, the columns of `df` and `ss`. `DaysLeft` rounds down as `timedelta.days`
does. *Remediations* gives each class its successful return codes, whether it is
destructive, and whether its command is split only when it is applied; `Approves` reads
the last line of a model's answer.

*Patrol* puts these under one target's supervision: the probe calls its command (two in
turn for `resource-usage`), the verdict moves the counter, the ladder selects a step, the
approver answers, the remediation calls its command. The supervision can be cancelled at
each of them. Mode "heal" is `spero heal` (cli.py:384-400), "direct" a caller of the runner
that asks for retries, which no probe does.

*Top* has the worker of the Textual app, which its timer and the refresh key replace
wherever it is (`Replace`), and the loop of the rich.Live fallback with its `wake` and `stop`
events (`Rest`, `WaitEnds`). The engine's steps are those of `Cycle`; the approver looks into
`approved`, which `CycleReturns` prunes. A failing flush ends either dashboard
(`PersistFails`). The history variable `used` holds the names without a click since their
last approved action applied.

*ControlPlane* adds to the ticks of `Audit` what they publish (`Publish` is `_on_outcome`,
after the flush, or at once without a store) and an observer that reads status and events
in two requests. An outcome is abstracted to the number of the latest event its target
had recorded; `view` is what the remote dashboard has painted. The endpoint reads the
targets one after another in a thread while ticks go on; one row, `Row`, stands for any
of them.

*Cycle* adds the lock with its first-come-first-served queue, two callers of
`run_cycle`, one of `apply_policy`, and what `spero top` does to them: `CancelCycle`
(tui.py:183-184, an exclusive worker) and `ToggleFreeze`. A remediation whose
coroutine is cancelled goes on in `orphans`: command.py:153-190 kills its child on
a timeout, not on cancellation.

*Watch* adds the scheduler: `jobs` (the `TargetPolicy` each job was created with),
`StartTick` (guarded by max_instances=1, which APScheduler counts by job id, so by
name), `Reconcile`, and `Stop`. Reload and reconciliation are one step where
`apply_policy` does not suspend after installing the policy, as in the code.

*PolicyReload.* The file has a content and a `stamp` that grows with each write and
stands for (mtime, size, inode): two writes within one clock tick that keep size
and inode are outside the model, as they are invisible to the code. `Replace`
renames or removes, `Truncate`/`WriteSome`/`WriteRest` are a redirection. `Poll` is the loop's turn up
to the stat, `Read` the read and parse, a step of its own since the file may
change between. Contents either load, are rejected by an error the code catches,
or raise something else.

*Audit.* Events are numbered as they are recorded. `SwapBatch` hands the list to
the thread, `Commit`/`RollBack` are `session_scope`, `PersistReturns` is the rest of
`persist`, `Stop` the shutdown that cancels every tick.

*DialHome.* One agent and its queue at the owner; the wire carries one request or
reply, or loses it; a request given up may still arrive (`stray`). `Receive` is the
turn after a 200: orders, the newest push, and, unless a swap suspends, the
forgetting of approvals (`Forget`). The supervisor's ticks run beside it; ladders
are one gated step; of an outcome only "an applied action" matters to the loop.

### Operators marked "mutant"

Some modules define, just before an operator, a variant of it with a plausible
bug. Nothing uses them: putting one in place of its operator must make TLC find
the property named in `PROJECT.json` violated, which shows that the property
depends on that code.

## 3. What is checked

`tlc -config <run>.cfg <module>.tla`:

| Run | Module | Question | Distinct states |
|---|---|---|---|
| `patrol` | `MCPatrol` | From command to verdict to step to command: is everything that is concluded, cleared, approved and left behind in order? | 23k |
| `cycle` | `MCCycle` | Two callers, reloads, failing channel, suspending approver, under the lock: counters, alerts, autonomy, freeze, lock | 256k |
| `top` | `MCTop` | Keys, timers, signals and cancellations over one engine: clicks, refinement of `Cycle`, progress, the end | 186k |
| `watch` | `MCWatch` | Reloads that suspend in a failing channel, no lock: jobs, retired names, end of the reload | 147k |
| `watch_silent` | `MCWatch` | No channel, a provider that may hang: removed state, miscounts, escalation and recovery go on | 3k |
| `policy_reload` | `MCPolicyReload` | Edits and signals between any two steps of the loop | 89k |
| `audit` | `MCAudit` | Failing writes, a shutdown, an observer: store, status and feed agree | 456k |
| `dial_home` | `MCDialHome` | Lost requests and replies, owner restarts, a push that does not load | 100k |

What they show, in the properties' own terms:

* `patrol`: `HealthyOnEvidence` and `NoHiddenFault` tie a healthy verdict to commands that
  ended with status 0 and to every value the probe read; `ClearedOnEvidence` ties a cleared
  counter to a healthy verdict or to a repair that reported success;
  `DestructiveNeedsClearYes` ties a destructive step to a one-word yes on the last line;
  `NothingLeftBehind`, `SlowNotRerun` and `CallReturns` are about the runner;
  `HealStopsAtSuccess` and `ClimbsUnlessRepaired` about the ladder being walked.
* `cycle`, `watch`, `watch_silent`: counters rest on the probes of the current content, alerts
  open and close as `AlertContract` says, retired names stay silent, and what fails is
  acted on for ever.
* `top`: `OneShot` (a click is good for one applied action, unless Textual cancelled the
  cycle it applied in), `ImplementsCycle`, `ApprovalActs`, `QuitEnds`.
* `audit`: `StatusIsAudited` (no outcome on show whose events are not in the store),
  `FeedCoversTable` (the feed a remote dashboard paints is never older than its table),
  `StatusCatchesUp` (once writes succeed, everything recorded is stored and shown), and the
  refinement of `AuditLog`.

Four runs show a disagreement between the code and what it says of itself:

* `top_double_fire` violates `OneRemediationAtATime`. engine.py:156-157: overlapping
  callers "can't double-count failures or double-fire remediations". A cycle
  cancelled by the dashboard leaves the command of a remediation running and gives
  back the lock; the next cycle starts the remediation again beside it.
* `watch_reload_window` violates `RemovedLosesState`. engine.py:127-128: "A removed
  target loses its counter and has its open alert resolved". While `apply_policy`
  awaits `alerter.resolve` for one removed target, none is retired yet, and a
  probe in flight opens an alert for a target that is then gone.
* `policy_reload_odd` violates `KeepsSupervising`. watch.py:136: "A file that fails to
  load never stops supervision". A file that is not UTF-8, or holds a date that
  does not exist, raises an error `poll` does not catch.
* `dial_home_click` violates `SingleClick`. agent.py:37-38: "a single click is a
  single action". Approvals are forgotten once per report turn; until then the
  same click serves again.

Observations of the same kind, made by changing a constant or read in a counterexample
while a property was being stated:

* `watch.cfg` with `ApproverSuspends = TRUE` violates `FreezeHolds`: with `--ai-approve`,
  a policy frozen by a reload while the model is asked does not stop the
  remediation (engine.py:20 says "nothing is applied while it is set").
* `watch_silent.cfg` with `CounterIsEvidence` is violated by a changed target whose
  old probe was in flight; `MiscountsAtMostOnce` bounds the damage.
* `policy_reload.cfg` with `StartupEdits = TRUE` and the condition of `HandledIsRead`
  dropped: an edit between the start of `spero watch` and the construction of the
  reloader is never applied (policy.py:50).
* In `DialHome`, orders whose reply is lost are gone (owner.py:60): `CatchesUp` has to
  exclude them, although owner.py:45 calls orders "delivered on the next report".
* `OneShot` without its exemption is violated: an action applies, Textual cancels the
  cycle before its outcomes are pruned, the approval stays, and the same click acts again
  (tui.py:183-195; dashboard.py:236 calls approvals one-shot).
* `QuitEnds` without its exemption is violated: "p" and "q" pressed during one cycle of the
  rich.Live loop set `wake`, which line 248 clears; paused, the loop then waits for another
  key before it looks at `quit`.
* `ApprovalActs` needs cycles shorter than the interval: otherwise each is cancelled by the
  next, and nothing is ever shown or done (tui.py:180-184).
* A click approves a name, not the step shown: by the next cycle the ladder may have
  selected a deeper, destructive step (tui.py:153-154).
* With `--store` the flush empties the event list before the feed is drained from it
  (tui.py:196-212), so the feed shows only what is recorded during the flush.
* A repair that succeeds without helping clears the counter, so the ladder starts again
  from the bottom and its deeper steps are never reached (engine.py:243-247;
  `ClimbsUnlessRepaired` says so in its premise).
* An SSH channel that closes without an exit status counts as success (host.py:107), and
  a timeout over SSH leaves the remote command running.
* Quantities in units that are not listed (a memory request of "1k" or "128974848m") make
  `resource-usage` raise for ever, which counts no failure; so does a `respawn` command with
  unbalanced quotes, which loads and raises when it is applied.

### Bounds

*Targets.* Two names: one that a reload touches and one it leaves alone, or two
that it removes, which is what the loop of `apply_policy` needs to be caught
between. *Contents.* `MCTargets` gives two contents with different ladders, so that
a change is visible, among them one that ends unattended and one gated and
destructive. *Counters* saturate at `MaxCount` = 2, the highest threshold used, so a
third failure behaves like the second. *Callers.* Two callers and a reloader fill the lock's queue
in every order. *Writes.* Four writes let a truncation be followed by two pieces and a
replacement. *Events, jobs.* Three events over three jobs: one flushes, one waits,
one records, and a batch of two can fail behind one that was stored. *Approvals and pushes.* One approval for each of two targets, so that
one may be mistaken for the other's; two pushes in one reply, one unloadable.
*Patrol.* Ladders have up to two steps and thresholds from below zero to 2, since the
policy model accepts any integer; counters go to 3. Every probe is judged over outputs
on both sides of each of its comparisons, over each runner it is used with, and every
remediation behind the AI approver; retries go to 2. *Dashboards.* Two targets: one climbs
from one gated step to a destructive one, one restarts unattended; both dashboards, with
and without a store.

Runs of `Watch`, `PolicyReload`, `Audit`, `Top` and `DialHome` do not check deadlock: these
processes end on a signal or a key. Nor does `Patrol`, where a direct call is made once
and a command without a timeout may hang. `Cycle` has no such end and does.

### Fairness

Weak fairness only, and only of what the code schedules itself: a due job starts; a
probe, an alert call, an approval or a remediation returns (each has a timeout in
its provider or client, or fails); the lock is handed to the head of its queue; the
reload loop wakes after `poll_interval`; a database write ends one way or the other.
In `Command` only the clock and the kernel are fair: a spawn succeeds or fails, a timeout
that is set expires, a killed child is reaped; whether a command ever ends by itself is
left open. In `Top` timers go off and the runtime runs what is ready; in `ControlPlane`
nothing is asked of the observer.
Nothing is assumed of operators, editors, signals, networks and owners, and a name
in `Hung` may never get an answer. Liveness that needs more says so as a premise
("the target fails every probe from some moment on").

## 4. What is proved

TLAPS checks these for every value of the constants under the assumptions that
the modules state (`EngineAssumption` and so on). Every invariant and every action property
that a passing run checks is among them, and so are the refinements. Where a theorem needs more
than the module assumes, the hypothesis stands in its ASSUME and is discussed here.

* `LadderProofs`: in a ladder that loads, the eligible steps are a prefix
  (`EligibleStepsAreAPrefix`), by the non-decreasing thresholds.
* `PatrolProofs`: the same over any outage (`PrefixAlways`), and that `Patrol` implements
  the counter of `Escalation` (`PatrolCounts`); `TypeOK`, `NothingLeftBehind`, `SlowNotRerun`,
  `HealthyOnEvidence`, `DestructiveNeedsClearYes`, `ClearedOnEvidence` and `HealStopsAtSuccess`,
  for any setups, outputs, answers and numbers of retries. `CInv` is the invariant of a
  command: a result that came without evidence is a timeout or "not found", a process is
  waited for exactly while the call is running or killing, and nothing but a cancellation
  leaves one behind on the local host. `PInv` adds what the supervision relies on: a call
  is open exactly in the phases that wait for one, while a probe waits it is the target's
  own, and the first answer of `resource-usage` has succeeded when the second is asked for.
  What each probe and each class contributes are the lemmas `HealthyVerdict` (no probe
  calls a target healthy unless its commands ended with 0) and `Successes`.
  `NoHiddenFault` (`NoFaultHidden`) has one lemma for each probe that reads several values
  (`CertShows`, `RestartsShow`, `ConditionsShow`, `DiskShows`) and `JudgedInv`: until the verdict
  is read, it still is the verdict on the reply, and the reply is one the command printed.
  `NumbersAssumption` types what the code passes to int() or takes from a timedelta. Its
  hypothesis `OneConditionPerType` is the Kubernetes convention that a status lists a condition
  type once; keda.py:68-77 reads the first condition of a type, so without it a second one
  would go unseen. The outputs of the `patrol` run satisfy both.
* `TopProofs`, of `Cycle`: `TypeOK`, `LockGuards`, `CounterIsEvidence`, `ActsOnlyAsAllowed`,
  `RemovedLosesState`, `FreezeHolds`, `ActsOnEvidence`, `SinkAgrees`, that a cycle starts when
  nothing is in flight (`CyclesSerialize`), and that the engine under the
  lock implements `AlertContract`. None is inductive alone. The inductive `IInv` adds
  what the lock buys: only supervised targets are in flight and no reload has overtaken
  them (`stale` is "no", `InFlightInv`); nobody waits for the approver under a freeze
  (`UnfrozenInv`); what is not supervised has neither counter nor alert, but for the
  removed targets a reload in progress has not reached (`DroppedInv`); and the count a
  supervision carries across an await is no more than its streak (`EvidenceInv`).
  `SinkAgrees` needs `SinkInv` on top: an alert call under way is the one the books ask for
  (no fire for a closed alert, no resolve for an open one, nothing pending outside a reload).
  Its two hypotheses say where it applies: the channel suspends (one that does not,
  `NullAlerter`, has no far end), and nobody cancels a cycle, as under `spero run`; the
  dashboards, which do, have no channel (`TopAssumption`).
* `WatchProofs`: `TypeOK`, `JobsFollowPolicy`, `NobodyUnknown`, `ActsOnlyAsAllowed`,
  `RetiredStaysSilent`, and `FreezeHolds` from the assumption that the approver does not
  suspend, without which it is false. With an alerter that does not suspend (`NullAlerter`, no
  channel configured) also `MiscountsAtMostOnce`, `RemovedLosesState` and `AlertContract`. Their
  strengthening is `SilentInv`: no reload is ever half way, what is not supervised has neither
  counter nor alert, and the counter of a target whose probe a reload has overtaken is 0
  while that probe runs, so the one failure it may add is the only one too many. The hypothesis is
  needed: with a channel that suspends, `watch_reload_window` breaks the second, and TLC also
  finds the first violated.
* `EngineProofs` holds the facts both rest on, one lemma per engine action.
* `TopProofs`, of `Top`: every step of a dashboard is a step of `Cycle` or leaves it alone
  (`TopImplementsCycle`), so `CounterIsEvidence`, `ActsOnEvidence`, `ActsOnlyAsAllowed` and
  `FreezeHolds` carry over; `TopTypeOK`; and `OneShot`, from
  the invariant of `Cycle` and `ClickInv`: what applied is among the results until they are
  collected, while the lock keeps the next supervision away, and a used approval is about
  to be pruned.
* `PolicyReloadProofs`: `TypeOK`, `HangupHonoured`, `SettledBeforeRead`, `HandledIsRead`. The
  strengthening relates the stamps: what was read is no older than what is owed
  unless a request is pending, and what was seen is either handled or a poll old.
* `AuditProofs`: `TypeOK`, and `Audit` implements `AuditLog`. The strengthening `InOrder`
  says that store, batch and list, read in this order, are the events 1, 2, 3, ...;
  a write that fails puts the batch back where it was in that order. `ControlPlane`
  implements `AuditLog` too, and `StatusIsAudited` and `FeedCoversTable` hold of it: `ShownInv`
  says that what is shown is within what `/events` reads, that a tick which flushes has all
  its events in the store or the batch, and that without a store nothing leaves the list.
  With it `PlaneTypeOK` is proved, whose bounds say that nothing on show is ahead of what was
  recorded.
* `DialHomeProofs`: `TypeOK`, `OwnerDecides`, `CatchesUp`, and that an agent never swaps in a
  policy older than the one it runs (`NeverGoesBack`). `ApprovalInv` adds up the approvals of a
  target: those received, in the reply and in the queue are at most those given, and one the
  agent holds has not been spent, which is what makes `OwnerDecides` inductive across lost
  replies, swaps and owner restarts. `OrderInv` says that pushes travel in ascending
  order, the reply ahead of the queue, and all of them ahead of the version in force;
  `NewestInv`, that the newest push is queued, in the reply, pending, in force, lost or
  refused. At the end of a turn with nothing queued only the last three are left.
  `LatestPushFacts`, about the maximum of the positions of the pushes, carries both.

Only model-checked: everything under fairness (`EveryWaiterServed`, `ReloadEnds`,
`FailingTargetIsActedOn`, `RecoveryCloses`, `Converges`, `StatusCatchesUp`, `KeepsSupervising`, the
two `ApprovalActs`, `QuitEnds`, `CallReturns`, `ClimbsUnlessRepaired`) and anything with ENABLED,
which the prover does not support; and what needs induction over data, which its library states
with operator parameters that the back ends cannot instantiate: what the sums of container
requests in `resource-usage` come to (`CpuRequest`, `MemRequest`), and that `json`, `df` and `ss`
outputs are parsed into what `Probes` starts from, is left to the runs and to reading.

## 5. Not modelled, and the plan

Left out for good: message formats and rendering, HTTP and SQL mechanics, the text of
prompts and answers beyond the approver's last line, redaction, the wiring of the CLI,
parsing of provider strings, `kubectl` copy and exec and the interactive shell, log
streaming and inspection (reads with no state of their own), metrics.

Partly modelled, and why:

* Dashboards: drill-down, logs, sorting and what the feed prints are views of state that
  `Top` and `ControlPlane` have; the feed with `--store` is an observation above, not a model.
* Alert channels: only whether a call gets through, is swallowed or raises.
* Prediction (`ai/predict.py`) and diagnosis: text in, text out around a model; the engine
  does not act on them.
* `DialHome`: one agent, no alert channel, so the alerts a swap forgets are not followed to
  the far end; a reply that is not JSON ends the agent and is outside the model.

What remains, in this order:

1. `DialHome` with an alert channel and several agents; the status a fleet view shows.
2. Two overlapping flushes of a Textual worker that was cancelled in `persist` (the
   thread of the first goes on while the second starts).
3. Of the theorems, the alerts of `Watch` with a channel that suspends, up to the window
   that `watch_reload_window` shows: which weaker contract the engine keeps there.
