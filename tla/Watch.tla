-------------------------------- MODULE Watch --------------------------------
(***************************************************************************)
(* The engine driven by core/watch.py: a scheduler runs one job per target *)
(* (max_instances=1), each calling supervise() without the lock, and the   *)
(* watch loop applies reloaded policies under them.  This is how `spero    *)
(* watch' drives it, and, without reloads, `spero serve' and `spero agent'.*)
(***************************************************************************)
EXTENDS Engine

CONSTANTS
  Reloads,  \* whether the watch loop has a reloader
  Hung      \* the names whose provider may never answer a probe

ASSUME WatchAssumption == Reloads \in BOOLEAN /\ Hung \subseteq Names

VARIABLES
  jobs,     \* the scheduler's jobs: the TargetPolicy each name's job holds
  running   \* until watch() has seen the stop event and shut down

vars == <<engineVars, jobs, running>>

TypeOK ==
  /\ EngineTypeOK
  /\ jobs \in [Names -> Specs \cup {NoSpec}]
  /\ running \in BOOLEAN

(* build_scheduler adds the job of every target of the policy.              *)
Init == EngineInit /\ jobs = policy.targets /\ running = TRUE

(* Mutant: the job of a name that is not in the policy runs.                *)
StartTickOfNobody(t) ==
  /\ running /\ tick[t].pc = "idle"
  /\ tick' = [tick EXCEPT ![t] = Started(jobs[t])]
  /\ UNCHANGED <<policy, failures, openAlerts, retired, reload, sink, streak,
                 jobs, running>>

(* A job comes due.  APScheduler counts the running instances of a job by   *)
(* its id, the target's name: a job replaced under the same name waits for  *)
(* the supervision its predecessor started.                                 *)
StartTick(t) ==
  /\ running
  /\ jobs[t] # NoSpec /\ tick[t].pc = "idle"
  /\ tick' = [tick EXCEPT ![t] = Started(jobs[t])]
  /\ UNCHANGED <<policy, failures, openAlerts, retired, reload, sink, streak,
                 jobs, running>>

Supervise(t) == TickStep(t) /\ UNCHANGED <<jobs, running>>

(* Mutant: changed targets keep their old jobs.                             *)
ReconcileKeepsChanged(p) ==
  jobs' = [t \in Names |-> IF t \in Removed(p) THEN NoSpec
                           ELSE IF t \in Added(p) THEN p.targets[t] ELSE jobs[t]]

(* reconcile_scheduler drops the jobs of removed and changed targets and    *)
(* adds those of added and changed ones.                                    *)
Reconcile(p) ==
  LET kept == [t \in Names |->
                 IF t \in Removed(p) \cup Changed(p) THEN NoSpec ELSE jobs[t]]
  IN  jobs' = [t \in Names |-> IF t \in Added(p) \cup Changed(p)
                               THEN p.targets[t] ELSE kept[t]]

(* Nothing suspends between the end of apply_policy and the reconciliation, *)
(* so the step that installs the policy changes the jobs too.               *)
ReconcileWhenDone(p) == IF reload'.pc = "idle" THEN Reconcile(p) ELSE UNCHANGED jobs

StartReload(p) ==
  /\ Reloads /\ running
  /\ BeginReload(p)
  /\ ReconcileWhenDone(p)
  /\ UNCHANGED running

ContinueReload ==
  /\ ReloadStep
  /\ ReconcileWhenDone(reload.new)
  /\ UNCHANGED running

(* The loop reads the stop event between reloads only.  shutdown(wait=False) *)
(* cancels the supervisions in flight.                                      *)
Stop ==
  /\ running /\ reload.pc = "idle"
  /\ running' = FALSE
  /\ tick' = [t \in Names |-> Idle]
  /\ UNCHANGED <<policy, failures, openAlerts, retired, reload, sink, streak, jobs>>

Next ==
  \/ \E t \in Names : StartTick(t) \/ Supervise(t)
  \/ \E p \in Policies : StartReload(p)
  \/ ContinueReload
  \/ Stop

Spec == Init /\ [][Next]_vars

(* The scheduler starts due jobs, and awaits are bounded by timeouts; the   *)
(* probe of a hung target is the exception.                                 *)
Fairness ==
  /\ \A t \in Names : WF_vars(StartTick(t))
  /\ \A t \in Names : WF_vars(Resume(t) /\ UNCHANGED <<jobs, running>>)
  /\ \A t \in Names \ Hung : WF_vars(Probe(t) /\ UNCHANGED <<jobs, running>>)
  /\ WF_vars(ContinueReload)

FairSpec == Spec /\ Fairness

-----------------------------------------------------------------------------
(* After every reload the scheduler runs exactly the targets of the policy  *)
(* in force, each with its current content (watch.py:107-111).              *)
JobsFollowPolicy == jobs = policy.targets

(* Whatever is in flight belongs to a supervised target or to one the       *)
(* engine knows as retired: the test at engine.py:187 misses nobody.        *)
NobodyUnknown ==
  /\ retired \cap Supervised(policy) = {}
  /\ \A t \in Names : tick[t].pc # "idle" => t \in Supervised(policy) \cup retired

(* "A probe already in flight when its target was removed must not write    *)
(* state back for it" (engine.py:104-106): once retired, a name gains       *)
(* neither a failure nor an open alert.                                     *)
RetiredStaysSilent ==
  [][ \A t \in retired \cap retired' :
        failures'[t] <= failures[t] /\ (t \in openAlerts' => t \in openAlerts) ]_vars

(* A supervision that a reload has overtaken adds at most one failure that  *)
(* is not the current target's own: max_instances=1 lets one be in flight,  *)
(* and the next reload that touches the target restarts the counter.        *)
MiscountsAtMostOnce == \A t \in Names : failures[t] <= streak[t] + 1

EndsUnattended(s) ==
  LET ladder == Remediations[s]
  IN  ladder # << >> /\ ladder[Len(ladder)].autonomy = "auto"

(* "a reload never delays an escalation already under way" (engine.py:125): *)
(* a target that fails every probe is acted on, again and again, while the  *)
(* policy keeps describing it the same way, unfrozen, with an unattended    *)
(* last step.  Reloads may go on changing everything else, and the provider *)
(* of another target may hang (engine.py:165-167).  A raising probe may have *)
(* the effect of an unhealthy one, hence the implication.                   *)
FailingTargetIsActedOn ==
  \A t \in Names \ Hung, s \in Specs :
     /\ EndsUnattended(s)
     /\ <>[](running /\ policy.targets[t] = s /\ ~ policy.frozen)
     /\ <>[][ProbeHealthy(t) \/ ProbeRaises(t) => ProbeUnhealthy(t)]_vars
     => []<>(tick[t].pc = "applying")

(* A reload comes to its end though the alert channel fails for every       *)
(* target it drops (engine.py:144), and whatever hangs.                     *)
ReloadEnds == reload.pc # "idle" ~> reload.pc = "idle"

(* A target whose probes are healthy from some moment on ends with no       *)
(* failure counted and no alert open, whatever was in flight when it        *)
(* recovered (engine.py:190-196).                                           *)
RecoveryCloses ==
  \A t \in Names \ Hung :
     /\ <>[](running /\ t \in Supervised(policy))
     /\ <>[][ProbeUnhealthy(t) \/ ProbeRaises(t) => ProbeHealthy(t)]_vars
     => <>[](failures[t] = 0 /\ t \notin openAlerts)
=============================================================================
