------------------------------ MODULE ControlPlane ------------------------------
(***************************************************************************)
(* `spero serve' and who watches it: the ticks of Audit publish their      *)
(* outcomes in the supervisor's read model once their events are flushed   *)
(* (core/watch.py _tick, api/supervisor.py), the endpoints /status and     *)
(* /events read it from threads of their own, target by target, and a      *)
(* remote dashboard asks for the one and then for the other (tui.py        *)
(* SperoRemoteApp, dashboard.py run_top_remote).                           *)
(*                                                                         *)
(* What an outcome says is abstracted to the number of the latest event    *)
(* its target had recorded; 0 is a target without an outcome.              *)
(***************************************************************************)
EXTENDS Audit

CONSTANT Row  \* the target whose row of the dashboard is followed: any of
              \* them, since they are all alike

ASSUME PlaneAssumption == Row \in Jobs

VARIABLES
  store,   \* whether the supervisor has a store
  mine,    \* the number of the latest event of each target
  latest,  \* self.latest: the outcome on show for each target
  poll,    \* "none", or what the poll waits for: "status" or "events"
  answer,  \* the outcome that /status has answered for the row
  view     \* what the dashboard shows: the outcome of the row, and the number
           \* of the latest event of its feed

watcher == <<poll, answer, view>>
shown == <<store, mine, latest, watcher>>
planeVars == <<vars, shown>>

NoOutcomes == [j \in Jobs |-> 0]

PlaneTypeOK ==
  /\ TypeOK
  /\ store \in BOOLEAN
  /\ {mine, latest} \subseteq [Jobs -> 0 .. MaxEvents]
  /\ poll \in {"none", "status", "events"}
  /\ {answer, view.outcome, view.newest} \subseteq 0 .. MaxEvents

PlaneInit ==
  /\ Init
  /\ store \in BOOLEAN
  /\ mine = NoOutcomes /\ latest = NoOutcomes
  /\ poll = "none" /\ answer = 0
  /\ view = [outcome |-> 0, newest |-> 0]

-----------------------------------------------------------------------------
(* The supervision.                                                         *)

(* _on_outcome.                                                             *)
Publish(j) ==
  /\ latest' = [latest EXCEPT ![j] = mine[j]]
  /\ UNCHANGED <<store, mine, watcher>>

RecordOf(j) ==
  /\ Record(j)
  /\ mine' = [mine EXCEPT ![j] = recorded']
  /\ UNCHANGED <<store, latest, watcher>>

(* Without a store nothing is flushed, and nothing ever leaves the list.    *)
TickWithoutStore(j) ==
  /\ ~ store /\ pc[j] = "supervising"
  /\ Goto(j, "idle")
  /\ Publish(j)
  /\ UNCHANGED <<recorded, buffer, batch, write, stored, lock, waiters, running>>

FlushNothingQuietly(j) ==  \* mutant: persist's early return ends the tick
  NothingToFlush(j) /\ UNCHANGED shown
FlushNothing(j) == NothingToFlush(j) /\ Publish(j)

FlushedAnyway(j) ==  \* mutant: the failure of a flush is swallowed
  PersistReturns(j) /\ Publish(j)

(* A failing flush ends the tick before its outcome is published.           *)
Flushed(j) ==
  /\ PersistReturns(j)
  /\ IF write = "committed" THEN Publish(j) ELSE UNCHANGED shown

SuperviseNext ==
  \/ \E j \in Jobs : \/ RecordOf(j) \/ TickWithoutStore(j)
                     \/ FlushNothing(j) \/ Flushed(j)
  \/ /\ \/ \E j \in Jobs : \/ StartTick(j) \/ SwapBatch(j)
                           \/ store /\ CallPersist(j)
        \/ Commit \/ RollBack \/ Stop
     /\ UNCHANGED shown

-----------------------------------------------------------------------------
(* The observer.                                                            *)

(* /events: the newest row of the store, or of the engine's list.           *)
Newest == IF store THEN Len(stored) ELSE Len(buffer)

(* The timer or the refresh key: a poll in flight is cancelled.             *)
Poll ==
  /\ poll' = "status"
  /\ UNCHANGED <<vars, store, mine, latest, answer, view>>

(* The handler reads the targets one by one, while ticks go on.             *)
ReadStatus ==
  /\ poll = "status"
  /\ poll' = "events"
  /\ answer' = latest[Row]
  /\ UNCHANGED <<vars, store, mine, latest, view>>

(* Mutant: the feed is the one of an earlier answer.                        *)
ReadEventsFirst ==
  /\ poll = "events"
  /\ poll' = "none"
  /\ view' = [view EXCEPT !.outcome = answer]
  /\ UNCHANGED <<vars, store, mine, latest, answer>>

(* Both answers have arrived: the dashboard is painted.                     *)
ReadEvents ==
  /\ poll = "events"
  /\ poll' = "none"
  /\ view' = [outcome |-> answer, newest |-> Newest]
  /\ UNCHANGED <<vars, store, mine, latest, answer>>

(* Either request fails: the dashboard goes on showing what it has.         *)
PollFails ==
  /\ poll # "none"
  /\ poll' = "none"
  /\ UNCHANGED <<vars, store, mine, latest, answer, view>>

PlaneNext == SuperviseNext \/ Poll \/ ReadStatus \/ ReadEvents \/ PollFails

PlaneSpec == PlaneInit /\ [][PlaneNext]_planeVars

(* As in Audit; nothing is asked of the dashboard.                          *)
PlaneFairness ==
  /\ \A j \in Jobs :
       /\ WF_planeVars(StartTick(j) /\ UNCHANGED shown)
       /\ WF_planeVars(TickWithoutStore(j) \/ (store /\ CallPersist(j) /\ UNCHANGED shown))
       /\ WF_planeVars(FlushNothing(j) \/ (SwapBatch(j) /\ UNCHANGED shown))
       /\ WF_planeVars(Flushed(j))
  /\ WF_planeVars((Commit \/ RollBack) /\ UNCHANGED shown)

PlaneFairSpec == PlaneSpec /\ PlaneFairness

-----------------------------------------------------------------------------
(* What /status says of a target is in the audit trail: an outcome is       *)
(* published only once its events are in the store, whichever tick has      *)
(* flushed them (watch.py:42-46).                                           *)
StatusIsAudited == store => \A j \in Jobs : latest[j] <= Len(stored)

(* The feed of a remote dashboard is never older than its table, though     *)
(* the two come from two requests, the first of which is read target by     *)
(* target while ticks go on (tui.py:430-431, dashboard.py:299-300).         *)
FeedCoversTable == view.outcome <= view.newest

(* Once writes succeed, every event is on show as the outcome of its target *)
(* and, with a store, in the audit trail (engine.py:252, supervisor.py:52): *)
(* a failed flush leaves neither its batch, nor the lock, nor a stale       *)
(* outcome behind for ever.                                                 *)
StatusCatchesUp ==
  <>[]running /\ <>[][~ RollBack]_planeVars
    => <>[](latest = mine /\ (store => Len(stored) = recorded))
=============================================================================
