---------------------------------- MODULE Top ----------------------------------
(***************************************************************************)
(* `spero top': the two local dashboards over one engine.  The Textual app *)
(* (tui.py) runs a cycle in an exclusive worker, which its timer and the   *)
(* refresh key replace whatever it is doing; the rich.Live fallback        *)
(* (dashboard.py) runs one cycle after another and waits in between for a  *)
(* key, a signal or the interval.  Both show the latest outcomes, hold the *)
(* operator's approvals, which their approver consults, and forget an      *)
(* approval once a cycle has come back with its action applied.            *)
(***************************************************************************)
EXTENDS Cycle

CONSTANTS Uis,     \* of "textual" and "live"
          Stores   \* whether --store is given: a set of BOOLEANs

(* One task calls run_cycle, the approver answers at once, and there is no  *)
(* alert channel and no reload.                                             *)
ASSUME TopAssumption ==
  /\ \A c, d \in Callers : c = d
  /\ Uis \subseteq {"textual", "live"} /\ Stores \subseteq BOOLEAN
  /\ ~ ApproverSuspends /\ ~ AlerterSuspends

VARIABLES
  ui, store,
  phase,     \* of the worker, or of the loop: "idle" (live: waiting), "due",
             \* "cycling", "persisting", "over"
  paused,    \* the pause key
  quit,      \* live: state.quit
  stop,      \* live: a signal has been received
  wake,      \* live: a key has been pressed since the loop last cleared it
  approved,  \* self.approved, state.approved
  latest,    \* the names whose latest outcome awaits approval
  results,   \* the outcomes of the cycle in flight, as far as they matter
  used       \* history: see OneShot

screen == <<ui, store, quit, stop, wake>>
held == <<approved, latest, results, used>>
topVars == <<vars, screen, phase, paused, held>>

ResultsType == [awaiting : SUBSET Names, applied : SUBSET Names]
NoResults == [awaiting |-> {}, applied |-> {}]

TopTypeOK ==
  /\ ui \in Uis /\ store \in Stores
  /\ phase \in {"idle", "due", "cycling", "persisting", "over"}
  /\ {paused, quit, stop, wake} \subseteq BOOLEAN
  /\ approved \subseteq Names /\ latest \subseteq Names /\ used \subseteq Names
  /\ results \in ResultsType

TopInit ==
  /\ Init
  /\ ui \in Uis /\ store \in Stores
  /\ phase = "due"  \* the first cycle starts at once
  /\ paused = FALSE /\ quit = FALSE /\ stop = FALSE /\ wake = FALSE
  /\ approved = {} /\ latest = {} /\ results = NoResults /\ used = Names

-----------------------------------------------------------------------------
(* One cycle.                                                               *)

(* A paused dashboard skips it.                                             *)
StartCycle(c) ==
  /\ phase = "due" /\ ~ quit /\ ~ stop /\ ~ paused
  /\ CallRunCycle(c)
  /\ phase' = "cycling"
  /\ UNCHANGED <<screen, paused, held>>

(* The loop clears `wake' after it has painted, so a key pressed while it   *)
(* was busy no longer ends the wait that follows.                           *)
Rest ==
  /\ phase' = "idle"
  /\ wake' = FALSE
  /\ UNCHANGED <<ui, store, quit, stop>>

SkipCycle ==
  /\ phase = "due" /\ ~ quit /\ ~ stop /\ paused
  /\ Rest
  /\ UNCHANGED <<vars, paused, held>>

BeginTopCycle(c) ==
  /\ phase = "cycling" /\ BeginCycle(c)
  /\ UNCHANGED <<screen, phase, paused, held>>

(* What the approver is asked for a target after an unhealthy probe.        *)
Asks(t) ==
  Decision(Remediations[tick[t].spec], Bump(failures[t]), policy.frozen) = "gated"

Approver(t) == tick'[t].pc = "applying" <=> t \in approved

ProbedDown(t) ==
  /\ ProbeUnhealthy(t)
  /\ Asks(t) => Approver(t)
  /\ results' = IF Asks(t) /\ t \notin approved
                THEN [results EXCEPT !.awaiting = @ \cup {t}] ELSE results
  /\ UNCHANGED used

Remedied(t, success) ==
  /\ ApplyReturns(t, success)
  /\ results' = IF success THEN [results EXCEPT !.applied = @ \cup {t}] ELSE results
  /\ used' = IF success /\ tick[t].approved THEN used \cup {t} ELSE used

SuperviseTop(t) ==
  /\ phase = "cycling"
  /\ \/ (ProbeRaises(t) \/ ProbeHealthy(t)) /\ UNCHANGED <<results, used>>
     \/ ProbedDown(t)
     \/ \E success \in BOOLEAN : Remedied(t, success)
  /\ UNCHANGED <<lock, waiters, next, orphans, screen, phase, paused,
                 approved, latest>>

NothingPruned == approved  \* mutant: an approval outlives its action
Pruned == approved \ results.applied

(* The cycle comes back: its outcomes are shown, the approvals that were    *)
(* acted on are dropped, and the events are flushed if there is a store.    *)
CycleReturns(c) ==
  /\ phase = "cycling" /\ EndCycle(c)
  /\ latest' = results.awaiting
  /\ approved' = Pruned
  /\ results' = NoResults
  /\ IF store THEN phase' = "persisting" /\ UNCHANGED screen ELSE Rest
  /\ UNCHANGED <<paused, used>>

Persisted ==
  /\ phase = "persisting" /\ Rest
  /\ UNCHANGED <<vars, paused, held>>

(* Nothing catches the failure of a flush: it ends the dashboard.           *)
PersistFails ==
  /\ phase = "persisting"
  /\ phase' = "over"
  /\ UNCHANGED <<vars, screen, paused, held>>

-----------------------------------------------------------------------------
(* Textual: the worker is exclusive.                                        *)

StopInFlightKeepsLock(c) ==  \* mutant: a cancelled cycle keeps the lock
  \/ /\ lock = c
     /\ tick' = [t \in Names |-> Idle]
     /\ UNCHANGED <<policy, failures, openAlerts, retired, reload, sink, streak,
                    lock, waiters, next, orphans>>
  \/ \E i \in DOMAIN waiters : CancelWaiting(i)
  \/ lock = Free /\ waiters = << >> /\ UNCHANGED vars

(* The worker is cancelled wherever it is.                                  *)
StopInFlight(c) ==
  \/ CancelCycle(c)
  \/ \E i \in DOMAIN waiters : CancelWaiting(i)
  \/ lock = Free /\ waiters = << >> /\ UNCHANGED vars

(* A cancelled cycle never comes back: what it applied stays approved.      *)
Replace(c, p) ==
  /\ ui = "textual" /\ phase # "over"
  /\ StopInFlight(c)
  /\ phase' = p
  /\ results' = NoResults
  /\ used' = used \ results.applied
  /\ UNCHANGED <<screen, paused, approved, latest>>

(* The timer, and the refresh key.                                          *)
Tick(c) == Replace(c, "due")

QuitTextual(c) == Replace(c, "over")

-----------------------------------------------------------------------------
(* Live: the loop.                                                          *)

LoopEnds ==
  /\ ui = "live" /\ phase = "due" /\ (quit \/ stop)
  /\ phase' = "over"
  /\ UNCHANGED <<vars, screen, paused, held>>

WaitEndsUntimed ==  \* mutant: the wait has no interval
  /\ ui = "live" /\ phase = "idle" /\ (wake \/ stop)
  /\ phase' = "due"
  /\ UNCHANGED <<vars, screen, paused, held>>

WaitEndsOnKeysOnly ==  \* mutant: a signal does not end the wait
  /\ ui = "live" /\ phase = "idle" /\ (wake \/ ~ paused)
  /\ phase' = "due"
  /\ UNCHANGED <<vars, screen, paused, held>>

(* A key, a signal, or the interval, which a paused loop does not set.      *)
WaitEnds ==
  /\ ui = "live" /\ phase = "idle" /\ (wake \/ stop \/ ~ paused)
  /\ phase' = "due"
  /\ UNCHANGED <<vars, screen, paused, held>>

Key == wake' = (ui = "live") /\ UNCHANGED <<ui, store, stop>>

QuitLive ==
  /\ ui = "live" /\ phase # "over"
  /\ quit' = TRUE /\ Key
  /\ UNCHANGED <<vars, phase, paused, held>>

Signal ==
  /\ ui = "live" /\ phase # "over"
  /\ stop' = TRUE
  /\ UNCHANGED <<vars, ui, store, quit, wake, phase, paused, held>>

-----------------------------------------------------------------------------
(* The keys both have.                                                      *)

Pause ==
  /\ phase # "over"
  /\ paused' = ~ paused /\ Key
  /\ UNCHANGED <<vars, quit, phase, held>>

Freeze ==
  /\ phase # "over"
  /\ ToggleFreeze /\ Key
  /\ UNCHANGED <<quit, phase, paused, held>>

(* Textual approves the selected target if its latest outcome awaits it;    *)
(* live approves all that do.                                               *)
Approve(S) ==
  /\ phase # "over"
  /\ IF ui = "live" THEN S = latest ELSE \E t \in latest : S = {t}
  /\ approved' = approved \cup S /\ used' = used \ S
  /\ Key
  /\ UNCHANGED <<vars, quit, phase, paused, latest, results>>

TopNext ==
  \/ \E c \in Callers : \/ StartCycle(c) \/ BeginTopCycle(c) \/ CycleReturns(c)
                        \/ Tick(c) \/ QuitTextual(c)
  \/ \E t \in Names : \/ SuperviseTop(t)
                      \/ OrphanExits(t) /\ UNCHANGED <<screen, phase, paused, held>>
  \/ SkipCycle \/ Persisted \/ PersistFails
  \/ LoopEnds \/ WaitEnds \/ QuitLive \/ Signal
  \/ Pause \/ Freeze \/ \E S \in SUBSET Names : Approve(S)

TopSpec == TopInit /\ [][TopNext]_topVars

(* The timers go off, the runtime runs what is ready, and every probe,      *)
(* remediation and flush comes to an end.  Nobody has to press a key.       *)
TopFairness ==
  /\ \A c \in Callers : /\ WF_topVars(StartCycle(c)) /\ WF_topVars(BeginTopCycle(c))
                        /\ WF_topVars(CycleReturns(c)) /\ WF_topVars(Tick(c))
  /\ \A t \in Names : WF_topVars(SuperviseTop(t))
  /\ WF_topVars(SkipCycle) /\ WF_topVars(Persisted \/ PersistFails)
  /\ WF_topVars(LoopEnds) /\ WF_topVars(WaitEnds)

TopFairSpec == TopSpec /\ TopFairness

-----------------------------------------------------------------------------
(* "One-shot approvals: forget targets whose action just applied"           *)
(* (dashboard.py:236): no approved remediation starts for a target without  *)
(* a click on it since the latest one that applied.  used holds the names   *)
(* without such a click, except those whose remediation applied in a cycle  *)
(* that Textual cancelled, which is where the promise fails.                *)
OneShot ==
  [][ \A t \in Names : StartsApplying(t) /\ tick'[t].approved => t \notin used ]_topVars

(* The dashboards drive the engine as Cycle says: the locks, counters and   *)
(* freeze of Cycle are theirs, however keys, timers and cycles interleave   *)
(* (tui.py:183-213, dashboard.py:233-249).                                  *)
ImplementsCycle == Spec

(* An approved target that stays down is acted on again and again, as long  *)
(* as the operator neither pauses nor freezes and, with Textual, cycles are *)
(* shorter than the interval from some time on (tui.py:180-184): its gated  *)
(* remediation runs, whatever it is in the meantime.                        *)
Interrupts == phase' = "due" /\ phase \in {"cycling", "persisting"}

ApprovalActs ==
  \A t \in Names :
     /\ <>[](t \in approved /\ failures[t] > 0 /\ ~ paused /\ ~ policy.frozen /\ ~ quit
             /\ ~ stop /\ phase # "over")
     /\ <>[][~ Interrupts]_topVars
     => []<>(tick[t].pc = "applying" /\ tick[t].approved)

(* A signal ends the live dashboard, paused or not; the quit key does       *)
(* unless the dashboard is paused, when a key pressed during a cycle can go *)
(* unnoticed (dashboard.py:217 and 248-249).                                *)
QuitEnds ==
  /\ stop ~> phase = "over"
  /\ quit /\ ~ paused ~> phase = "over" \/ paused
=============================================================================
