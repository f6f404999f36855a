----------------------------- MODULE AuditProofs -----------------------------
(***************************************************************************)
(* For every number of jobs and of events, the audit trail is typed and    *)
(* implements AuditLog; and in the control plane around it neither a       *)
(* status nor the table of a dashboard is ahead of the trail.              *)
(***************************************************************************)
EXTENDS ControlPlane, SequenceTheorems, TLAPS

(* The sequence s holds the events after the k-th, in order.                *)
Numbered(s, k) == \A i \in 1 .. Len(s) : s[i] = k + i

(* What the thread has in hand and has not committed.                       *)
Pending == IF write = "committed" THEN << >> ELSE batch

(* Store, thread and list hold the events in the order they were recorded,  *)
(* and, until the shutdown, all of them.                                    *)
InOrder ==
  /\ Numbered(stored, 0)
  /\ Numbered(Pending, Len(stored))
  /\ Len(stored) + Len(Pending) <= recorded
  /\ running => /\ Numbered(buffer, Len(stored) + Len(Pending))
                /\ Len(stored) + Len(Pending) + Len(buffer) = recorded

(* Only the tick that holds the lock has a thread; after the shutdown there *)
(* is no tick.                                                              *)
OneWriter ==
  /\ running /\ write # "none" => lock # Free
  /\ ~ running => \A j \in Jobs : pc[j] = "idle"
  /\ ~ running => waiters = << >>

IInv == TypeOK /\ InOrder /\ OneWriter

(* Numbered sequences compose.                                              *)
LEMMA NumberedConcat ==
  ASSUME NEW s \in Seq(Int), NEW t \in Seq(Int), NEW k \in Int,
         Numbered(s, k), Numbered(t, k + Len(s))
  PROVE  /\ s \o t \in Seq(Int) /\ Len(s \o t) = Len(s) + Len(t)
         /\ Numbered(s \o t, k)
<1>1. /\ s \o t \in Seq(Int)
      /\ Len(s \o t) = Len(s) + Len(t)
      /\ \A i \in 1 .. Len(s) + Len(t) :
           (s \o t)[i] = IF i <= Len(s) THEN s[i] ELSE t[i - Len(s)]
  BY ConcatProperties
<1>2. Len(s) \in Nat /\ Len(t) \in Nat
  BY LenProperties
<1>3. ASSUME NEW i \in 1 .. Len(s) + Len(t) PROVE (s \o t)[i] = k + i
  <2>1. CASE i <= Len(s)
    BY <1>1, <1>2, <2>1 DEF Numbered
  <2>2. CASE ~ (i <= Len(s))
    <3>1. i - Len(s) \in 1 .. Len(t)
      BY <1>2, <2>2
    <3> QED
      BY <1>1, <1>2, <2>2, <3>1 DEF Numbered
  <2> QED
    BY <2>1, <2>2
<1> QED
  BY <1>1, <1>3 DEF Numbered

(* A sequence numbered from the start is FirstEvents of its length.         *)
LEMMA NumberedFromStart ==
  ASSUME NEW s \in Seq(Int), Numbered(s, 0)
  PROVE  s = Log!FirstEvents(Len(s))
<1>1. s = [i \in 1 .. Len(s) |-> s[i]]
  BY LenProperties
<1>2. \A i \in 1 .. Len(s) : s[i] = i
  BY LenProperties DEF Numbered
<1> QED
  BY <1>1, <1>2 DEF Log!FirstEvents

(* Sequences of events are sequences of integers with a length.             *)
LEMMA EventSequences ==
  ASSUME NEW s \in Seq(Events)
  PROVE  s \in Seq(Int) /\ Len(s) \in Nat
BY AuditAssumption, SeqMonotonic, LenProperties DEF Events, AuditAssumption

(* The strengthening holds initially.                                       *)
LEMMA InitIInv == Init => IInv
<1> SUFFICES ASSUME Init PROVE IInv
  OBVIOUS
<1>1. << >> \in Seq(Events) /\ << >> \in Seq(Jobs) /\ Len(<< >>) = 0
  BY EmptySeq
<1>2. TypeOK
  BY <1>1, AuditAssumption DEF Init, TypeOK, AuditAssumption
<1>3. InOrder /\ OneWriter
  BY <1>1 DEF Init, InOrder, OneWriter, Pending, Numbered
<1> QED
  BY <1>2, <1>3 DEF IInv

(* Every step preserves the types.                                          *)
LEMMA StepTypeOK == TypeOK /\ [Next]_vars => TypeOK'
<1> SUFFICES ASSUME TypeOK, [Next]_vars PROVE TypeOK'
  OBVIOUS
<1> USE AuditAssumption DEF AuditAssumption, TypeOK, Goto
<1>1. ASSUME NEW j \in Jobs, StartTick(j) PROVE TypeOK'
  BY <1>1 DEF StartTick
<1>2. ASSUME NEW j \in Jobs, Record(j) PROVE TypeOK'
  <2>1. recorded + 1 \in Events /\ recorded' \in 0 .. MaxEvents
    BY <1>2 DEF Record, Events
  <2>2. buffer' \in Seq(Events)
    BY <1>2, <2>1, AppendProperties DEF Record
  <2> QED
    BY <1>2, <2>1, <2>2 DEF Record
<1>3. ASSUME NEW j \in Jobs, CallPersist(j) PROVE TypeOK'
  <2>1. waiters' \in Seq(Jobs)
    BY <1>3, AppendProperties DEF CallPersist
  <2> QED
    BY <1>3, <2>1 DEF CallPersist
<1>4. ASSUME NEW j \in Jobs, NothingToFlush(j) PROVE TypeOK'
  <2>1. waiters' \in Seq(Jobs)
    BY <1>4, HeadTailProperties DEF NothingToFlush, GetsLock
  <2> QED
    BY <1>4, <2>1 DEF NothingToFlush, GetsLock
<1>5. ASSUME NEW j \in Jobs, SwapBatch(j) PROVE TypeOK'
  <2>1. waiters' \in Seq(Jobs)
    BY <1>5, HeadTailProperties DEF SwapBatch, GetsLock
  <2>2. buffer' \in Seq(Events)
    BY <1>5, EmptySeq DEF SwapBatch
  <2> QED
    BY <1>5, <2>1, <2>2 DEF SwapBatch, GetsLock
<1>6. ASSUME NEW j \in Jobs, PersistReturns(j) PROVE TypeOK'
  <2>1. buffer' \in Seq(Events)
    BY <1>6, ConcatProperties DEF PersistReturns, Restored
  <2>2. batch' \in Seq(Events)
    BY <1>6, EmptySeq DEF PersistReturns
  <2> QED
    BY <1>6, <2>1, <2>2 DEF PersistReturns, Released
<1>7. CASE Commit
  <2>1. stored' \in Seq(Events)
    BY <1>7, ConcatProperties DEF Commit
  <2> QED
    BY <1>7, <2>1 DEF Commit
<1>8. CASE RollBack
  BY <1>8 DEF RollBack
<1>9. CASE Stop
  <2>1. waiters' \in Seq(Jobs)
    BY <1>9, EmptySeq DEF Stop
  <2> QED
    BY <1>9, <2>1 DEF Stop
<1>10. CASE UNCHANGED vars
  BY <1>10 DEF vars
<1> QED
  BY <1>1, <1>2, <1>3, <1>4, <1>5, <1>6, <1>7, <1>8, <1>9, <1>10 DEF Next

(* Every step preserves OneWriter.                                          *)
LEMMA StepOneWriter == IInv /\ TypeOK' /\ [Next]_vars => OneWriter'
<1> SUFFICES ASSUME IInv, TypeOK', [Next]_vars PROVE OneWriter'
  OBVIOUS
<1> USE AuditAssumption DEF AuditAssumption, IInv, TypeOK, OneWriter, Goto
<1>1. ASSUME NEW j \in Jobs, StartTick(j) PROVE OneWriter'
  BY <1>1 DEF StartTick
<1>2. ASSUME NEW j \in Jobs, Record(j) PROVE OneWriter'
  BY <1>2 DEF Record
<1>3. ASSUME NEW j \in Jobs, CallPersist(j) PROVE OneWriter'
  BY <1>3 DEF CallPersist
<1>4. ASSUME NEW j \in Jobs, NothingToFlush(j) PROVE OneWriter'
  BY <1>4 DEF NothingToFlush, GetsLock
<1>5. ASSUME NEW j \in Jobs, SwapBatch(j) PROVE OneWriter'
  BY <1>5 DEF SwapBatch, GetsLock
<1>6. ASSUME NEW j \in Jobs, PersistReturns(j) PROVE OneWriter'
  BY <1>6 DEF PersistReturns
<1>7. CASE Commit
  BY <1>7 DEF Commit
<1>8. CASE RollBack
  BY <1>8 DEF RollBack
<1>9. CASE Stop
  BY <1>9 DEF Stop
<1>10. CASE UNCHANGED vars
  BY <1>10 DEF vars
<1> QED
  BY <1>1, <1>2, <1>3, <1>4, <1>5, <1>6, <1>7, <1>8, <1>9, <1>10 DEF Next

(* Every step preserves the order.                                          *)
LEMMA StepInOrder == IInv /\ TypeOK' /\ [Next]_vars => InOrder'
<1> SUFFICES ASSUME IInv, TypeOK', [Next]_vars PROVE InOrder'
  OBVIOUS
<1>1. /\ TypeOK /\ InOrder /\ OneWriter
      /\ recorded \in Nat
      /\ buffer \in Seq(Int) /\ Len(buffer) \in Nat
      /\ batch \in Seq(Int) /\ Len(batch) \in Nat
      /\ stored \in Seq(Int) /\ Len(stored) \in Nat
      /\ Len(<< >>) = 0
      /\ Len(Pending) \in Nat
  BY EventSequences, EmptySeq, AuditAssumption
     DEF IInv, TypeOK, Pending, AuditAssumption
<1>2. ASSUME UNCHANGED <<recorded, buffer, batch, write, stored, running>>
      PROVE  InOrder'
  BY <1>1, <1>2 DEF InOrder, Pending, Numbered
<1>3. ASSUME NEW j \in Jobs, Record(j) PROVE InOrder'
  <2>1. running
    BY <1>1, <1>3 DEF Record, OneWriter
  <2>2. /\ Len(buffer') = Len(buffer) + 1
        /\ \A i \in 1 .. Len(buffer) : buffer'[i] = buffer[i]
        /\ buffer'[Len(buffer) + 1] = recorded + 1
    BY <1>1, <1>3, AppendProperties DEF Record
  <2>3. Pending' = Pending /\ stored' = stored /\ recorded' = recorded + 1
    BY <1>3 DEF Record, Pending
  <2>4. ASSUME NEW i \in 1 .. Len(buffer')
        PROVE  buffer'[i] = Len(stored) + Len(Pending) + i
    <3>1. CASE i \in 1 .. Len(buffer)
      BY <1>1, <2>1, <2>2, <3>1 DEF InOrder, Numbered
    <3>2. CASE i = Len(buffer) + 1
      <4>1. buffer'[i] = recorded + 1
        BY <2>2, <3>2
      <4>2. recorded = Len(stored) + Len(Pending) + Len(buffer)
        BY <1>1, <2>1 DEF InOrder
      <4> QED
        BY <1>1, <3>2, <4>1, <4>2
    <3> QED
      BY <1>1, <2>2, <3>1, <3>2
  <2> QED
    BY <1>1, <1>3, <2>1, <2>2, <2>3, <2>4 DEF InOrder, Record, Numbered
<1>4. ASSUME NEW j \in Jobs, SwapBatch(j) PROVE InOrder'
  <2>1. running /\ write = "none" /\ batch = << >>
    BY <1>1, <1>4 DEF SwapBatch, GetsLock, OneWriter, TypeOK
  <2>2. Pending = << >> /\ Pending' = buffer /\ buffer' = << >>
    BY <1>4, <2>1 DEF SwapBatch, Pending
  <2> QED
    BY <1>1, <1>4, <2>1, <2>2 DEF InOrder, SwapBatch, Numbered
<1>5. ASSUME NEW j \in Jobs, PersistReturns(j) PROVE InOrder'
  <2>1. running
    BY <1>1, <1>5 DEF PersistReturns, OneWriter
  <2>2. Pending' = << >>
    BY <1>5 DEF PersistReturns, Pending
  <2>3. CASE write = "committed"
    BY <1>1, <1>5, <2>1, <2>2, <2>3 DEF InOrder, PersistReturns, Pending, Numbered
  <2>4. CASE write = "failed"
    <3>1. Pending = batch /\ buffer' = batch \o buffer
      BY <1>5, <2>4 DEF PersistReturns, Pending, Restored
    <3>2. Len(buffer') = Len(batch) + Len(buffer) /\ Numbered(buffer', Len(stored))
      BY <1>1, <2>1, <3>1, NumberedConcat DEF InOrder
    <3>3. /\ stored' = stored /\ recorded' = recorded /\ running' = running
          /\ Len(stored) + Len(batch) + Len(buffer) = recorded
          /\ Numbered(stored, 0)
      BY <1>1, <1>5, <2>1, <3>1 DEF InOrder, PersistReturns
    <3>4. /\ Len(Pending') = 0 /\ Numbered(Pending', Len(stored))
          /\ Len(stored) + 0 = Len(stored)
      BY <1>1, <2>2 DEF Numbered
    <3>5. Numbered(buffer', Len(stored') + Len(Pending'))
      BY <1>1, <3>2, <3>3, <3>4
    <3>6. Numbered(stored', 0) /\ Numbered(Pending', Len(stored'))
      BY <3>3, <3>4
    <3>7. /\ Len(stored') + Len(Pending') <= recorded'
          /\ Len(stored') + Len(Pending') + Len(buffer') = recorded'
      BY <1>1, <3>2, <3>3, <3>4
    <3> QED
      BY <3>5, <3>6, <3>7 DEF InOrder
  <2> QED
    BY <1>5, <2>3, <2>4 DEF PersistReturns
<1>6. CASE Commit
  <2>1. Pending = batch /\ Pending' = << >> /\ stored' = stored \o batch
    BY <1>6 DEF Commit, Pending
  <2>2. Len(stored') = Len(stored) + Len(batch) /\ Numbered(stored', 0)
    BY <1>1, <2>1, NumberedConcat DEF InOrder
  <2> QED
    BY <1>1, <1>6, <2>1, <2>2 DEF InOrder, Commit, Numbered
<1>7. CASE RollBack
  <2>1. Pending' = Pending
    BY <1>7 DEF RollBack, Pending
  <2> QED
    BY <1>1, <1>7, <2>1 DEF InOrder, RollBack, Numbered
<1>8. CASE Stop
  <2>1. Pending' = Pending
    BY <1>8 DEF Stop, Pending
  <2> QED
    BY <1>1, <1>8, <2>1 DEF InOrder, Stop, Numbered
<1> QED
  BY <1>2, <1>3, <1>4, <1>5, <1>6, <1>7, <1>8
     DEF Next, StartTick, CallPersist, NothingToFlush, vars

(* The strengthening is an invariant.                                       *)
LEMMA Inductive == Spec => []IInv
<1>1. IInv /\ [Next]_vars => IInv'
  BY StepTypeOK, StepOneWriter, StepInOrder DEF IInv
<1> QED
  BY InitIInv, <1>1, PTL DEF Spec

(* The persist lock, the batch and the thread agree (engine.py:264-277).    *)
THEOREM TypesAlways == Spec => []TypeOK
<1>1. IInv => TypeOK
  BY DEF IInv
<1> QED
  BY <1>1, Inductive, PTL

(* Every step maps to a step of AuditLog, or to none.                       *)
LEMMA StepRefines ==
  ASSUME IInv, IInv', [Next]_vars
  PROVE  [Log!Next]_(Log!logVars)
<1>1. /\ stored' \in Seq(Int) /\ Len(stored') \in Nat /\ recorded' \in Nat
      /\ stored \in Seq(Int) /\ Len(stored) \in Nat /\ recorded \in Nat
      /\ batch \in Seq(Int) /\ Len(batch) \in Nat
  BY EventSequences, AuditAssumption DEF IInv, TypeOK, AuditAssumption
<1>2. CASE Commit
  <2>1. stored' = Log!FirstEvents(Len(stored'))
    BY <1>1, NumberedFromStart DEF IInv, InOrder
  <2>2. Len(stored') = Len(stored) + Len(batch)
    BY <1>1, <1>2, ConcatProperties DEF Commit
  <2>3. Len(stored) + Len(batch) <= recorded
    BY <1>2 DEF IInv, InOrder, Pending, Commit
  <2>4. Len(stored') \in Len(stored) .. recorded /\ recorded' = recorded
    BY <1>1, <1>2, <2>2, <2>3 DEF Commit
  <2> QED
    BY <2>1, <2>4 DEF Log!Next, Log!Extend
<1>3. ASSUME NEW j \in Jobs, Record(j) PROVE Log!Next
  BY <1>3 DEF Record, Log!Next, Log!Record
<1>4. CASE UNCHANGED <<recorded, stored>>
  BY <1>4 DEF Log!logVars
<1> QED
  BY <1>2, <1>3, <1>4
     DEF Next, vars, StartTick, CallPersist, NothingToFlush, SwapBatch,
         PersistReturns, RollBack, Stop

(* The store holds the earliest events, each once and in order, whatever    *)
(* fails and whoever records meanwhile (engine.py:276).                     *)
THEOREM RefinesAuditLog == Spec => ImplementsAuditLog
<1>1. Init => Log!Init
  BY DEF Init, Log!Init
<1> QED
  BY Inductive, <1>1, StepRefines, PTL DEF Spec, ImplementsAuditLog, Log!Spec

-----------------------------------------------------------------------------
(* The control plane.                                                       *)

(* Every step of the control plane leaves Audit alone, is a step of it, or  *)
(* is the end of a tick that has no store to flush to.                      *)
LEMMA PlaneStepIsStep ==
  ASSUME [PlaneNext]_planeVars
  PROVE  [Next]_vars \/ \E j \in Jobs : TickWithoutStore(j)
<1>1. CASE UNCHANGED vars
  BY <1>1
<1>2. CASE SuperviseNext
  BY <1>2 DEF SuperviseNext, RecordOf, FlushNothing, Flushed, Next
<1> QED
  BY <1>1, <1>2 DEF PlaneNext, planeVars, Poll, ReadStatus, ReadEvents, PollFails

LEMMA TickWithoutStoreIInv ==
  ASSUME IInv, NEW j \in Jobs, TickWithoutStore(j)
  PROVE  IInv'
<1>1. /\ UNCHANGED <<recorded, buffer, batch, write, stored, lock, waiters, running>>
      /\ pc[j] = "supervising" /\ pc' = [pc EXCEPT ![j] = "idle"]
  BY DEF TickWithoutStore, Goto
<1>2. TypeOK' /\ OneWriter'
  BY <1>1 DEF IInv, TypeOK, OneWriter
<1>3. InOrder'
  BY <1>1 DEF IInv, InOrder, Pending, Numbered
<1> QED
  BY <1>2, <1>3 DEF IInv

LEMMA PlaneStepIInv == IInv /\ [PlaneNext]_planeVars => IInv'
BY PlaneStepIsStep, TickWithoutStoreIInv, StepTypeOK, StepOneWriter, StepInOrder DEF IInv

LEMMA PlaneIInv == PlaneSpec => []IInv
<1>1. PlaneInit => Init
  BY DEF PlaneInit
<1> QED
  BY <1>1, InitIInv, PlaneStepIInv, PTL DEF PlaneSpec

(* The audit trail is the same with the control plane around it.            *)
THEOREM PlaneRefinesAuditLog == PlaneSpec => ImplementsAuditLog
<1>1. PlaneInit => Log!Init
  BY DEF PlaneInit, Init, Log!Init
<1>2. ASSUME IInv, IInv', [PlaneNext]_planeVars
      PROVE  [Log!Next]_(Log!logVars)
  <2>1. CASE [Next]_vars
    BY <1>2, <2>1, StepRefines
  <2>2. ASSUME NEW j \in Jobs, TickWithoutStore(j)
        PROVE  UNCHANGED Log!logVars
    BY <2>2 DEF TickWithoutStore, Log!logVars
  <2> QED
    BY <1>2, <2>1, <2>2, PlaneStepIsStep
<1> QED
  BY PlaneIInv, <1>1, <1>2, PTL DEF PlaneSpec, ImplementsAuditLog, Log!Spec

(* What is shown is where /events reads from; what a tick is flushing is in *)
(* the thread's hands; without a store nothing leaves the list.             *)
ShownInv ==
  /\ mine \in [Jobs -> Nat] /\ latest \in [Jobs -> Nat] /\ answer \in Nat
  /\ \A j \in Jobs : mine[j] <= recorded /\ latest[j] <= Newest
  /\ answer <= Newest
  /\ \A j \in Jobs : pc[j] = "writing" => mine[j] <= Len(stored) + Len(Pending)
  /\ ~ store => /\ \A j \in Jobs : pc[j] \in {"idle", "supervising"}
                /\ waiters = << >> /\ write = "none" /\ Len(buffer) = recorded
  /\ view.outcome \in Nat /\ view.newest \in Nat /\ view.outcome <= view.newest

(* The lengths in a state where the audit trail is as it should be.         *)
LEMMA Lengths ==
  ASSUME IInv
  PROVE  /\ recorded \in Nat /\ Len(<< >>) = 0
         /\ Len(buffer) \in Nat /\ Len(batch) \in Nat /\ Len(stored) \in Nat
         /\ Len(Pending) \in Nat /\ Newest \in Nat
         /\ running => Len(stored) + Len(Pending) + Len(buffer) = recorded
BY EventSequences, EmptySeq, AuditAssumption
   DEF IInv, TypeOK, InOrder, Pending, Newest, AuditAssumption

LEMMA LengthsNext == ASSUME IInv' PROVE Newest' \in Nat
BY EventSequences, EmptySeq, AuditAssumption
   DEF IInv, TypeOK, InOrder, Pending, Newest, AuditAssumption

LEMMA InitShownInv == PlaneInit => ShownInv
BY EmptySeq DEF PlaneInit, Init, ShownInv, NoOutcomes, Newest, Pending

(* The observer's steps.                                                    *)
LEMMA WatcherShownInv ==
  ASSUME IInv, ShownInv, Poll \/ ReadStatus \/ ReadEvents \/ PollFails
  PROVE  ShownInv'
<1>1. UNCHANGED <<recorded, buffer, batch, write, stored, waiters, pc, store, mine, latest>>
  BY DEF Poll, ReadStatus, ReadEvents, PollFails, vars
<1>2. Newest' = Newest /\ Pending' = Pending /\ Newest \in Nat
  BY <1>1, Lengths DEF Newest, Pending
<1>3. answer' \in {answer, latest[Row]} /\ view' \in {view, [outcome |-> answer, newest |-> Newest]}
  BY DEF Poll, ReadStatus, ReadEvents, PollFails
<1> QED
  BY <1>1, <1>2, <1>3, PlaneAssumption DEF ShownInv, PlaneAssumption

(* The steps that neither record nor publish, as far as they concern it.    *)
LEMMA QuietShownInv ==
  ASSUME IInv, IInv', ShownInv, UNCHANGED <<shown, recorded>>, Newest <= Newest',
         \A j \in Jobs : pc'[j] = "writing" => mine[j] <= Len(stored') + Len(Pending'),
         ~ store => /\ \A j \in Jobs : pc'[j] \in {"idle", "supervising"}
                    /\ waiters' = << >> /\ write' = "none" /\ buffer' = buffer
  PROVE  ShownInv'
<1>1. Newest \in Nat /\ Newest' \in Nat
  BY Lengths, LengthsNext
<1>2. UNCHANGED <<store, mine, latest, answer, view>>
  BY DEF shown, watcher
<1> QED
  BY <1>1, <1>2 DEF ShownInv

(* A tick that publishes what is in the store, or in the list.              *)
LEMMA PublishShownInv ==
  ASSUME IInv, IInv', ShownInv, NEW j \in Jobs, Publish(j), recorded' = recorded,
         Newest <= Newest', mine[j] <= Newest',
         \A k \in Jobs : pc'[k] = "writing" => mine[k] <= Len(stored') + Len(Pending'),
         ~ store => /\ \A k \in Jobs : pc'[k] \in {"idle", "supervising"}
                    /\ waiters' = << >> /\ write' = "none" /\ buffer' = buffer
  PROVE  ShownInv'
<1>1. Newest \in Nat /\ Newest' \in Nat
  BY Lengths, LengthsNext
<1>2. /\ latest' = [latest EXCEPT ![j] = mine[j]]
      /\ UNCHANGED <<store, mine, answer, view>>
  BY DEF Publish, watcher
<1>3. latest' \in [Jobs -> Nat] /\ \A k \in Jobs : latest'[k] <= Newest'
  BY <1>1, <1>2 DEF ShownInv
<1> QED
  BY <1>1, <1>2, <1>3 DEF ShownInv

LEMMA StepShownInv == IInv /\ IInv' /\ ShownInv /\ [PlaneNext]_planeVars => ShownInv'
<1> SUFFICES ASSUME IInv, IInv', ShownInv, [PlaneNext]_planeVars PROVE ShownInv'
  OBVIOUS
<1>0. /\ recorded \in Nat /\ Len(<< >>) = 0 /\ Newest \in Nat /\ Newest' \in Nat
      /\ Len(buffer) \in Nat /\ Len(batch) \in Nat /\ Len(stored) \in Nat /\ Len(Pending) \in Nat
      /\ running => Len(stored) + Len(Pending) + Len(buffer) = recorded
      /\ \A j \in Jobs : mine[j] \in Nat
      /\ pc \in [Jobs -> {"idle", "supervising", "waiting", "writing"}]
      /\ \A j \in Jobs : pc[j] = "writing" <=> lock = j
      /\ \A j \in Jobs : pc'[j] = "writing" <=> lock' = j
  BY Lengths, LengthsNext DEF IInv, TypeOK, ShownInv
<1>1. CASE UNCHANGED planeVars
  BY <1>0, <1>1, QuietShownInv DEF planeVars, vars, shown, watcher, ShownInv, Newest, Pending
<1>2. CASE Poll \/ ReadStatus \/ ReadEvents \/ PollFails
  BY <1>2, WatcherShownInv
<1>3. ASSUME NEW j \in Jobs, RecordOf(j)
      PROVE  ShownInv'
  <2>1. /\ recorded' = recorded + 1 /\ buffer' = Append(buffer, recorded + 1)
        /\ UNCHANGED <<batch, write, stored, waiters, pc, store, latest, answer, view>>
        /\ mine' = [mine EXCEPT ![j] = recorded + 1]
        /\ pc[j] = "supervising"
    BY <1>3 DEF RecordOf, Record, watcher
  <2>2. Len(buffer') = Len(buffer) + 1
    BY <2>1, AppendProperties, EventSequences DEF IInv, TypeOK
  <2>3. Pending' = Pending /\ Newest <= Newest'
    BY <1>0, <2>1, <2>2 DEF Pending, Newest
  <2>4. mine' \in [Jobs -> Nat] /\ \A k \in Jobs : mine'[k] <= recorded'
    BY <1>0, <2>1 DEF ShownInv
  <2>5. \A k \in Jobs : pc'[k] = "writing" => mine'[k] <= Len(stored') + Len(Pending')
    BY <2>1, <2>3 DEF ShownInv
  <2> QED
    BY <1>0, <2>1, <2>2, <2>3, <2>4, <2>5 DEF ShownInv
<1>4. ASSUME NEW j \in Jobs, TickWithoutStore(j)
      PROVE  ShownInv'
  <2>1. /\ ~ store /\ pc' = [pc EXCEPT ![j] = "idle"] /\ Publish(j)
        /\ UNCHANGED <<recorded, buffer, batch, write, stored, lock, waiters, running>>
    BY <1>4 DEF TickWithoutStore, Goto
  <2>2. Newest' = Newest /\ Newest = Len(buffer) /\ Len(buffer) = recorded
    BY <2>1 DEF Newest, Publish, ShownInv
  <2>3. mine[j] <= Newest' /\ Newest <= Newest'
    BY <1>0, <2>2 DEF ShownInv
  <2>4. \A k \in Jobs : pc'[k] \in {"idle", "supervising"}
    BY <1>0, <2>1 DEF ShownInv
  <2> QED
    BY <2>1, <2>3, <2>4, PublishShownInv DEF ShownInv
<1>5. ASSUME NEW j \in Jobs, FlushNothing(j)
      PROVE  ShownInv'
  <2>1. /\ NothingToFlush(j) /\ Publish(j) /\ lock = Free /\ waiters # << >> /\ buffer = << >>
        /\ pc' = [pc EXCEPT ![j] = "idle"]
        /\ UNCHANGED <<recorded, buffer, batch, write, stored, lock, running>>
    BY <1>5 DEF FlushNothing, NothingToFlush, GetsLock, Goto
  <2>2. store /\ running /\ write = "none" /\ Pending = << >> /\ Pending' = Pending
    BY <2>1 DEF ShownInv, IInv, OneWriter, TypeOK, Pending
  <2>3. Newest' = Newest /\ Newest = Len(stored) /\ Len(stored) = recorded
    BY <1>0, <2>1, <2>2 DEF Newest, Publish
  <2>4. mine[j] <= Newest' /\ Newest <= Newest'
    BY <1>0, <2>3 DEF ShownInv
  <2>5. \A k \in Jobs : pc'[k] # "writing"
    BY <1>0, <2>1, AuditAssumption DEF AuditAssumption
  <2> QED
    BY <2>1, <2>2, <2>4, <2>5, PublishShownInv
<1>6. ASSUME NEW j \in Jobs, Flushed(j)
      PROVE  ShownInv'
  <2>1. /\ PersistReturns(j) /\ pc[j] = "writing" /\ write \in {"committed", "failed"}
        /\ lock' = Free /\ UNCHANGED <<recorded, stored>>
    BY <1>6 DEF Flushed, PersistReturns, Released
  <2>2. store /\ store' = store
    BY <1>6, <2>1 DEF ShownInv, Flushed, Publish, shown
  <2>3. Newest' = Newest /\ Newest = Len(stored)
    BY <2>1, <2>2 DEF Newest
  <2>4. \A k \in Jobs : pc'[k] # "writing"
    BY <1>0, <2>1, AuditAssumption DEF AuditAssumption
  <2>5. CASE write = "committed"
    <3>1. Pending = << >> /\ mine[j] <= Len(stored) + 0
      BY <1>0, <2>1, <2>5 DEF Pending, ShownInv
    <3>2. mine[j] <= Newest' /\ Newest <= Newest' /\ Publish(j)
      BY <1>0, <1>6, <2>3, <2>5, <3>1 DEF Flushed
    <3> QED
      BY <2>1, <2>2, <2>4, <3>2, PublishShownInv
  <2>6. CASE write = "failed"
    BY <1>0, <1>6, <2>1, <2>2, <2>3, <2>4, <2>6, QuietShownInv DEF Flushed
  <2> QED
    BY <2>1, <2>5, <2>6
<1>7. ASSUME NEW j \in Jobs, StartTick(j), UNCHANGED shown
      PROVE  ShownInv'
  <2>1. /\ pc' = [pc EXCEPT ![j] = "supervising"]
        /\ UNCHANGED <<recorded, buffer, batch, write, stored, waiters, store>>
    BY <1>7 DEF StartTick, Goto, shown
  <2>2. Newest' = Newest /\ Pending' = Pending
    BY <2>1 DEF Newest, Pending
  <2>3. \A k \in Jobs : pc'[k] \in {pc[k], "supervising"}
    BY <1>0, <2>1
  <2> QED
    BY <1>0, <1>7, <2>1, <2>2, <2>3, QuietShownInv DEF ShownInv
<1>8. ASSUME NEW j \in Jobs, store, CallPersist(j), UNCHANGED shown
      PROVE  ShownInv'
  <2>1. /\ pc' = [pc EXCEPT ![j] = "waiting"]
        /\ UNCHANGED <<recorded, buffer, batch, write, stored, store>>
    BY <1>8 DEF CallPersist, Goto, shown
  <2>2. Newest' = Newest /\ Pending' = Pending
    BY <2>1 DEF Newest, Pending
  <2>3. \A k \in Jobs : pc'[k] \in {pc[k], "waiting"}
    BY <1>0, <2>1
  <2> QED
    BY <1>0, <1>8, <2>1, <2>2, <2>3, QuietShownInv DEF ShownInv
<1>9. ASSUME NEW j \in Jobs, SwapBatch(j), UNCHANGED shown
      PROVE  ShownInv'
  <2>1. /\ lock = Free /\ lock' = j /\ waiters # << >>
        /\ batch' = buffer /\ buffer' = << >> /\ write' = "running"
        /\ UNCHANGED <<recorded, stored, running, store, mine>>
    BY <1>9 DEF SwapBatch, GetsLock, shown
  <2>2. store /\ running /\ write = "none" /\ Pending = << >> /\ Pending' = buffer
    BY <2>1 DEF ShownInv, IInv, OneWriter, TypeOK, Pending
  <2>3. Newest' = Newest
    BY <2>1, <2>2 DEF Newest
  <2>4. Len(stored') + Len(Pending') = recorded
    BY <1>0, <2>1, <2>2
  <2>5. \A k \in Jobs : mine[k] <= Len(stored') + Len(Pending')
    BY <2>4 DEF ShownInv
  <2> QED
    BY <1>0, <1>9, <2>1, <2>2, <2>3, <2>5, QuietShownInv
<1>10. ASSUME Commit, UNCHANGED shown
       PROVE  ShownInv'
  <2>1. /\ Pending = batch /\ Pending' = << >> /\ stored' = stored \o batch
        /\ UNCHANGED <<recorded, buffer, waiters, pc, store, mine>> /\ write = "running"
    BY <1>10 DEF Commit, Pending, shown
  <2>2. Len(stored') = Len(stored) + Len(batch)
    BY <2>1, ConcatProperties, EventSequences DEF IInv, TypeOK
  <2>3. store
    BY <2>1 DEF ShownInv
  <2>4. Newest <= Newest'
    BY <1>0, <2>1, <2>2, <2>3 DEF Newest
  <2>5. \A k \in Jobs : pc'[k] = "writing" => mine[k] <= Len(stored') + Len(Pending')
    BY <1>0, <2>1, <2>2 DEF ShownInv
  <2> QED
    BY <1>10, <2>1, <2>3, <2>4, <2>5, QuietShownInv
<1>11. ASSUME RollBack, UNCHANGED shown
       PROVE  ShownInv'
  <2>1. /\ Pending' = Pending /\ write = "running"
        /\ UNCHANGED <<recorded, buffer, stored, waiters, pc, store, mine>>
    BY <1>11 DEF RollBack, Pending, shown
  <2>2. store /\ Newest' = Newest
    BY <2>1 DEF ShownInv, Newest
  <2> QED
    BY <1>0, <1>11, <2>1, <2>2, QuietShownInv DEF ShownInv
<1>12. ASSUME Stop, UNCHANGED shown
       PROVE  ShownInv'
  <2>1. /\ pc' = [k \in Jobs |-> "idle"] /\ waiters' = << >>
        /\ UNCHANGED <<recorded, buffer, batch, write, stored, store>>
    BY <1>12 DEF Stop, shown
  <2>2. Newest' = Newest
    BY <2>1 DEF Newest
  <2> QED
    BY <1>0, <1>12, <2>1, <2>2, QuietShownInv DEF ShownInv
<1> QED
  BY <1>1, <1>2, <1>3, <1>4, <1>5, <1>6, <1>7, <1>8, <1>9, <1>10, <1>11, <1>12
     DEF PlaneNext, SuperviseNext

LEMMA PlaneInductive == PlaneSpec => []ShownInv
BY PlaneIInv, InitShownInv, StepShownInv, PTL DEF PlaneSpec

(* No outcome is published before its events are in the store, for any      *)
(* number of jobs, whoever flushes them and whatever fails.                 *)
THEOREM StatusIsAuditedAlways == PlaneSpec => []StatusIsAudited
<1>1. ShownInv => StatusIsAudited
  BY DEF ShownInv, StatusIsAudited, Newest
<1> QED
  BY <1>1, PlaneInductive, PTL

(* A dashboard that asks for the status first never paints a table that is  *)
(* ahead of its feed.                                                       *)
THEOREM FeedCoversTableAlways == PlaneSpec => []FeedCoversTable
<1>1. ShownInv => FeedCoversTable
  BY DEF ShownInv, FeedCoversTable
<1> QED
  BY <1>1, PlaneInductive, PTL

-----------------------------------------------------------------------------
(* What the observer has been shown stays in bounds.                        *)
ScreenInv ==
  /\ store \in BOOLEAN /\ poll \in {"none", "status", "events"}
  /\ view.newest <= MaxEvents

LEMMA NewestBounded ==
  ASSUME IInv, ShownInv, store \in BOOLEAN
  PROVE  Newest \in Nat /\ Newest <= recorded /\ recorded \in Nat /\ recorded <= MaxEvents
<1>1. /\ Len(stored) \in Nat /\ Len(Pending) \in Nat /\ Newest \in Nat
      /\ recorded \in Nat /\ recorded <= MaxEvents
  BY Lengths, AuditAssumption DEF IInv, TypeOK, AuditAssumption
<1>2. Len(stored) + Len(Pending) <= recorded
  BY DEF IInv, InOrder
<1>3. ~ store => Len(buffer) = recorded
  BY DEF ShownInv
<1> QED BY <1>1, <1>2, <1>3 DEF Newest

LEMMA StepScreenInv ==
  ASSUME IInv, ShownInv, ScreenInv, [PlaneNext]_planeVars
  PROVE  ScreenInv'
<1>1. Newest <= MaxEvents
  <2>1. Newest \in Nat /\ Newest <= recorded /\ recorded \in Nat /\ recorded <= MaxEvents
    BY NewestBounded DEF ScreenInv
  <2> QED BY <2>1, AuditAssumption DEF AuditAssumption
<1>2. CASE SuperviseNext \/ UNCHANGED planeVars
  <2>1. UNCHANGED <<store, poll, view>>
    BY <1>2 DEF SuperviseNext, RecordOf, TickWithoutStore, FlushNothing, Flushed, Publish,
                planeVars, shown, watcher
  <2> QED BY <2>1 DEF ScreenInv
<1>3. CASE Poll \/ ReadStatus \/ ReadEvents \/ PollFails
  <2>1. /\ store' = store /\ poll' \in {"none", "status", "events"}
        /\ view' \in {view, [outcome |-> answer, newest |-> Newest]}
    BY <1>3 DEF Poll, ReadStatus, ReadEvents, PollFails
  <2> QED BY <1>1, <2>1 DEF ScreenInv
<1> QED BY <1>2, <1>3 DEF PlaneNext

(* Type correctness of the control plane and its observer: among it that no *)
(* outcome on show speaks of an event that has not been recorded.           *)
THEOREM PlaneTypesAlways == PlaneSpec => []PlaneTypeOK
<1>1. PlaneInit => ScreenInv
  BY AuditAssumption DEF PlaneInit, ScreenInv, AuditAssumption
<1>2. ASSUME IInv, ShownInv, ScreenInv
      PROVE  PlaneTypeOK
  <2>1. Newest \in Nat /\ Newest <= recorded /\ recorded \in Nat /\ recorded <= MaxEvents
    BY <1>2, NewestBounded DEF ScreenInv
  <2>2. \A j \in Jobs : /\ mine[j] \in Nat /\ latest[j] \in Nat
                        /\ mine[j] <= recorded /\ latest[j] <= Newest
    BY <1>2 DEF ShownInv
  <2>3. \A j \in Jobs : mine[j] \in 0 .. MaxEvents /\ latest[j] \in 0 .. MaxEvents
    <3> TAKE j \in Jobs
    <3>1. /\ mine[j] \in Nat /\ mine[j] <= recorded
          /\ latest[j] \in Nat /\ latest[j] <= recorded
      BY <2>1, <2>2
    <3>2. MaxEvents \in Nat
      BY AuditAssumption DEF AuditAssumption
    <3> QED BY <2>1, <3>1, <3>2
  <2>4. mine \in [Jobs -> 0 .. MaxEvents] /\ latest \in [Jobs -> 0 .. MaxEvents]
    BY <1>2, <2>3 DEF ShownInv
  <2>5. {answer, view.outcome, view.newest} \subseteq 0 .. MaxEvents
    BY <1>2, <2>1, AuditAssumption DEF ShownInv, ScreenInv, AuditAssumption
  <2> QED BY <1>2, <2>4, <2>5 DEF PlaneTypeOK, IInv, ScreenInv
<1>3. PlaneSpec => []ScreenInv
  BY <1>1, StepScreenInv, PlaneIInv, PlaneInductive, PTL DEF PlaneSpec
<1> QED BY <1>2, <1>3, PlaneIInv, PlaneInductive, PTL
=============================================================================
