-------------------------------- MODULE Audit --------------------------------
(***************************************************************************)
(* The audit trail: the engine collects events in a list (_record), and    *)
(* the tick of every target flushes the list to the store when its         *)
(* supervision is over (core/watch.py _tick, Engine.persist).  The write   *)
(* runs in a worker thread, while the event loop lets the other targets    *)
(* record and queue up for their own flush.                                *)
(***************************************************************************)
EXTENDS Integers, Sequences

CONSTANTS
  Jobs,       \* the scheduler's jobs, one per target
  Free,       \* nobody holds the persist lock
  MaxEvents   \* bound on the events recorded

ASSUME AuditAssumption == Free \notin Jobs /\ MaxEvents \in Nat

VARIABLES
  recorded,   \* events are numbered as they are recorded: how many there are
  buffer,     \* self._events
  batch,      \* the events handed to the worker thread
  write,      \* the thread: "none", "running", "committed" or "failed"
  stored,     \* the rows of the events table, in the order of insertion
  lock,       \* self._persist_lock: who holds it
  waiters,    \* who waits for it, first come first served
  pc,         \* where the tick of each job is
  running     \* until watch() shuts the scheduler down

vars == <<recorded, buffer, batch, write, stored, lock, waiters, pc, running>>

Events == 1 .. MaxEvents

TypeOK ==
  /\ recorded \in 0 .. MaxEvents
  /\ buffer \in Seq(Events) /\ batch \in Seq(Events) /\ stored \in Seq(Events)
  /\ write \in {"none", "running", "committed", "failed"}
  /\ write = "none" <=> batch = << >>
  /\ lock \in Jobs \cup {Free} /\ waiters \in Seq(Jobs)
  /\ pc \in [Jobs -> {"idle", "supervising", "waiting", "writing"}]
  /\ running \in BOOLEAN
  /\ \A j \in Jobs : pc[j] = "writing" <=> lock = j

Init ==
  /\ recorded = 0 /\ buffer = << >> /\ batch = << >> /\ write = "none"
  /\ stored = << >> /\ lock = Free /\ waiters = << >>
  /\ pc = [j \in Jobs |-> "idle"] /\ running = TRUE

Goto(j, where) == pc' = [pc EXCEPT ![j] = where]

StartTick(j) ==
  /\ running /\ pc[j] = "idle"
  /\ Goto(j, "supervising")
  /\ UNCHANGED <<recorded, buffer, batch, write, stored, lock, waiters, running>>

(* _record, anywhere in a supervision.                                      *)
Record(j) ==
  /\ pc[j] = "supervising" /\ recorded < MaxEvents
  /\ recorded' = recorded + 1
  /\ buffer' = Append(buffer, recorded + 1)
  /\ UNCHANGED <<batch, write, stored, lock, waiters, pc, running>>

(* The supervision is over; _tick calls persist, which asks for the lock.   *)
CallPersist(j) ==
  /\ pc[j] = "supervising"
  /\ Goto(j, "waiting")
  /\ waiters' = Append(waiters, j)
  /\ UNCHANGED <<recorded, buffer, batch, write, stored, lock, running>>

GetsLock(j) == lock = Free /\ waiters # << >> /\ Head(waiters) = j

(* With the lock, and nothing to write.                                     *)
NothingToFlush(j) ==
  /\ GetsLock(j) /\ buffer = << >>
  /\ waiters' = Tail(waiters)
  /\ Goto(j, "idle")
  /\ UNCHANGED <<recorded, buffer, batch, write, stored, lock, running>>

(* Mutant: the list is handed over without looking whether it is empty.     *)
SwapBatchUnchecked(j) ==
  /\ GetsLock(j)
  /\ lock' = j /\ waiters' = Tail(waiters)
  /\ batch' = buffer /\ buffer' = << >> /\ write' = "running"
  /\ Goto(j, "writing")
  /\ UNCHANGED <<recorded, stored, running>>

(* The batch swap; the thread starts.                                       *)
SwapBatch(j) ==
  /\ GetsLock(j) /\ buffer # << >>
  /\ lock' = j /\ waiters' = Tail(waiters)
  /\ batch' = buffer /\ buffer' = << >> /\ write' = "running"
  /\ Goto(j, "writing")
  /\ UNCHANGED <<recorded, stored, running>>

(* session_scope in the worker thread: all of the batch or nothing.         *)
Commit ==
  /\ write = "running" /\ write' = "committed"
  /\ stored' = stored \o batch
  /\ UNCHANGED <<recorded, buffer, batch, lock, waiters, pc, running>>

RollBack ==
  /\ write = "running" /\ write' = "failed"
  /\ UNCHANGED <<recorded, buffer, batch, stored, lock, waiters, pc, running>>

(* self._events after a write that failed.                                  *)
RestoredBehind == buffer \o batch  \* mutant: appended, not prepended
Restored == batch \o buffer

ReleasedIfWritten == IF write = "failed" THEN lock ELSE Free  \* mutant
Released == Free

(* The event loop resumes persist.  A failure is raised to the scheduler,   *)
(* which logs it; the tick is over either way.                              *)
PersistReturns(j) ==
  /\ pc[j] = "writing" /\ write \in {"committed", "failed"}
  /\ buffer' = IF write = "failed" THEN Restored ELSE buffer
  /\ batch' = << >> /\ write' = "none"
  /\ lock' = Released
  /\ Goto(j, "idle")
  /\ UNCHANGED <<recorded, stored, waiters, running>>

(* watch() ends, and with it every tick at its await.  Cancellation is not  *)
(* an Exception: the batch is not restored.  The thread runs to its end.    *)
Stop ==
  /\ running /\ running' = FALSE
  /\ pc' = [j \in Jobs |-> "idle"]
  /\ lock' = Free /\ waiters' = << >>
  /\ UNCHANGED <<recorded, buffer, batch, write, stored>>

Next ==
  \/ \E j \in Jobs : \/ StartTick(j) \/ Record(j) \/ CallPersist(j)
                     \/ NothingToFlush(j) \/ SwapBatch(j) \/ PersistReturns(j)
  \/ Commit \/ RollBack \/ Stop

Spec == Init /\ [][Next]_vars

(* Jobs come due again and again, supervisions end, the lock is handed on,  *)
(* and a write ends one way or the other.                                   *)
Fairness ==
  /\ \A j \in Jobs : /\ WF_vars(StartTick(j)) /\ WF_vars(CallPersist(j))
                     /\ WF_vars(NothingToFlush(j) \/ SwapBatch(j))
                     /\ WF_vars(PersistReturns(j))
  /\ WF_vars(Commit \/ RollBack)

FairSpec == Spec /\ Fairness

-----------------------------------------------------------------------------
(* Whatever fails, and whoever records meanwhile, the store holds the       *)
(* earliest events, each once and in order: "in-place prepend preserves     *)
(* order" (engine.py:276), and no flush overtakes another (engine.py:254).  *)
(* The rows a shutdown loses are the latest ones.                           *)
Log == INSTANCE AuditLog
ImplementsAuditLog == Log!Spec
=============================================================================
