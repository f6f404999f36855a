------------------------- MODULE PolicyReloadProofs -------------------------
(***************************************************************************)
(* The safety of the reload loop, for every set of contents and any number *)
(* of writes.                                                              *)
(***************************************************************************)
EXTENDS PolicyReload, TLAPS

(* What a SIGHUP is owed: it is pending, or the file has been or is about   *)
(* to be read since.                                                        *)
Owed ==
  /\ owed <= stamp /\ fetched <= stamp
  /\ pc \in {"waiting", "applying"} => hup \/ fetched >= owed
  /\ pc = "starting" => owed <= fetched

(* The file in front of the loop was seen by an earlier poll, or handled.   *)
Seen ==
  /\ seen <= stamp /\ loaded <= stamp
  /\ pc \in {"waiting", "reading", "applying"} /\ seen = stamp => seen = loaded \/ age >= 1
  /\ SettledBeforeRead

(* What is handled has been read, or will be by the read that is next; at   *)
(* the start nothing has been written yet.                                  *)
Handled ==
  /\ ~ StartupEdits /\ pc = "starting" => fetched = stamp
  /\ HandledIsRead

IInv == TypeOK /\ Owed /\ Seen /\ Handled

(* The strengthening holds initially.                                       *)
LEMMA InitIInv == Init => IInv
<1> SUFFICES ASSUME Init PROVE IInv
  OBVIOUS
<1> USE PolicyReloadAssumption DEF PolicyReloadAssumption, Init
<1>1. TypeOK
  <2>1. force \in BOOLEAN /\ hup \in BOOLEAN /\ stop \in BOOLEAN
    BY Zenon
  <2> QED
    BY <2>1 DEF TypeOK
<1>2. Owed /\ Seen /\ Handled
  BY DEF Owed, Seen, Handled, SettledBeforeRead, HandledIsRead
<1> QED
  BY <1>1, <1>2 DEF IInv

(* A write of the file, by whichever way, preserves the strengthening.      *)
LEMMA StoreIInv ==
  ASSUME IInv, NEW c \in Contents \cup {Nothing}, Store(c),
         writing' \in Contents \cup {Nothing}
  PROVE  IInv'
BY PolicyReloadAssumption
   DEF PolicyReloadAssumption, Store, IInv, TypeOK, Owed, Seen, Handled, SettledBeforeRead,
       HandledIsRead, readerVars

(* Every step preserves the strengthening.                                  *)
LEMMA StepIInv == IInv /\ [Next]_vars => IInv'
<1> SUFFICES ASSUME IInv, [Next]_vars PROVE IInv'
  OBVIOUS
<1> USE PolicyReloadAssumption DEF PolicyReloadAssumption
<1> USE DEF IInv, TypeOK, Owed, Seen, Handled, SettledBeforeRead, HandledIsRead,
            fileVars, Alive
<1>1. ASSUME NEW c \in Contents \cup {Nothing}, Replace(c) PROVE IInv'
  <2>1. Store(c) /\ writing' = writing
    BY <1>1 DEF Replace
  <2> QED
    BY <2>1, StoreIInv
<1>2. ASSUME NEW c \in Contents, Truncate(c) PROVE IInv'
  <2>1. Store(Empty) /\ writing' = c /\ Empty \in Contents
    BY <1>2 DEF Truncate
  <2> QED
    BY <2>1, StoreIInv
<1>3. ASSUME NEW c \in Contents, WriteSome(c) PROVE IInv'
  <2>1. Store(c) /\ writing' = writing
    BY <1>3 DEF WriteSome
  <2> QED
    BY <2>1, StoreIInv
<1>4. CASE WriteRest
  <2>1. Store(writing) /\ writing' = Nothing
    BY <1>4 DEF WriteRest
  <2> QED
    BY <2>1, StoreIInv
<1>5. CASE Construct
  BY <1>5 DEF Construct, Signature
<1>6. CASE Hangup
  BY <1>6 DEF Hangup, readerVars
<1>7. CASE StopSignal
  BY <1>7 DEF StopSignal, readerVars
<1>8. CASE SeeStop
  BY <1>8 DEF SeeStop
<1>9. CASE Poll
  <2> USE <1>9 DEF Poll, PollReads, Settled, Signature
  <2>1. TypeOK'
    <3>1. force' \in BOOLEAN /\ hup' \in BOOLEAN /\ stop' \in BOOLEAN
      BY Zenon
    <3>2. age' \in 0 .. 2 /\ seen' \in 0 .. MaxStamp + 1 /\ loaded' \in 0 .. MaxStamp + 1
      OBVIOUS
    <3> QED
      BY <3>1, <3>2
  <2>2. Owed'
    OBVIOUS
  <2>3. Seen'
    OBVIOUS
  <2>4. Handled'
    OBVIOUS
  <2> QED
    BY <2>1, <2>2, <2>3, <2>4 DEF IInv
<1>10. CASE Read
  <2> USE <1>10 DEF Read, AfterRead
  <2>1. TypeOK'
    OBVIOUS
  <2>2. Owed'
    OBVIOUS
  <2>3. Seen'
    OBVIOUS
  <2>4. Handled'
    OBVIOUS
  <2> QED
    BY <2>1, <2>2, <2>3, <2>4 DEF IInv
<1>11. CASE ApplyPolicy
  BY <1>11 DEF ApplyPolicy
<1>12. CASE UNCHANGED vars
  BY <1>12 DEF vars, readerVars
<1> QED
  BY <1>1, <1>2, <1>3, <1>4, <1>5, <1>6, <1>7, <1>8, <1>9, <1>10, <1>11, <1>12
     DEF Next

(* The strengthening is an invariant.                                       *)
LEMMA Inductive == Spec => []IInv
BY InitIInv, StepIInv, PTL DEF Spec

(* The reload loop keeps its variables within their types.                  *)
THEOREM TypesAlways == Spec => []TypeOK
<1>1. IInv => TypeOK
  BY DEF IInv
<1> QED
  BY <1>1, Inductive, PTL

(* No SIGHUP is lost, whenever it arrives (watch.py:151-152).               *)
THEOREM HangupHonouredAlways == Spec => []HangupHonoured
<1>1. IInv => HangupHonoured
  BY DEF IInv, Owed, HangupHonoured
<1> QED
  BY <1>1, Inductive, PTL

(* Only a file that has stood for two polls is read on its own account      *)
(* (policy.py:41-42).                                                       *)
THEOREM SettledBeforeReadAlways == Spec => []SettledBeforeRead
<1>1. IInv => SettledBeforeRead
  BY DEF IInv, Seen
<1> QED
  BY <1>1, Inductive, PTL

(* A file taken for handled has been read as it now is (policy.py:50), when *)
(* nothing was written before the reloader existed.                         *)
THEOREM HandledIsReadAlways == Spec => []HandledIsRead
<1>1. IInv => HandledIsRead
  BY DEF IInv, Handled
<1> QED
  BY <1>1, Inductive, PTL
=============================================================================
