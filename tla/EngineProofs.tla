---------------------------- MODULE EngineProofs ----------------------------
(***************************************************************************)
(* What every step of the engine preserves, whoever drives it: its types,  *)
(* and the invariant GateInv from which the autonomy of remediations       *)
(* follows.  TopProofs and WatchProofs build on these lemmas.              *)
(***************************************************************************)
EXTENDS Engine, LadderProofs

(* A supervision that waits for the approver, or applies a remediation,     *)
(* holds the index of a step of its ladder; it waits for gated steps only,  *)
(* and applies a gated one only after a yes.                                *)
GateInv ==
  \A t \in Names :
     LET ladder == Remediations[tick[t].spec]
         i      == tick[t].step
     IN  /\ tick[t].pc = "approving" =>
              i \in DOMAIN ladder /\ ladder[i].autonomy = "gated"
         /\ tick[t].pc = "applying" =>
              /\ i \in DOMAIN ladder
              /\ \/ ladder[i].autonomy = "auto"
                 \/ ladder[i].autonomy = "gated" /\ tick[t].approved

(* The ladder of a content loads, and its selected step is one of it.       *)
LEMMA LadderFacts ==
  ASSUME NEW s \in Specs, NEW k
  PROVE  /\ Remediations[s] \in Seq(StepsOver(0 .. MaxCount))
         /\ ValidLadder(Remediations[s])
         /\ Eligible(Remediations[s], k) # {} =>
              /\ Selected(Remediations[s], k) \in DOMAIN Remediations[s]
              /\ Selected(Remediations[s], k) \in Nat
              /\ k >= Remediations[s][Selected(Remediations[s], k)].max_attempts
<1>1. Remediations[s] \in Seq(StepsOver(0 .. MaxCount)) /\ ValidLadder(Remediations[s])
  BY EngineAssumption
<1>2. ASSUME Eligible(Remediations[s], k) # {}
      PROVE  /\ Selected(Remediations[s], k) \in DOMAIN Remediations[s]
             /\ Selected(Remediations[s], k) \in Nat
             /\ k >= Remediations[s][Selected(Remediations[s], k)].max_attempts
  <2>1. Selected(Remediations[s], k) \in Eligible(Remediations[s], k)
    BY <1>1, <1>2, SelectedIsEligible
  <2>2. DOMAIN Remediations[s] \subseteq Nat
    BY <1>1, LenProperties
  <2> QED BY <2>1, <2>2 DEF Eligible
<1> QED BY <1>1, <1>2

(* SelectAndAct leaves t at rest, or at an approver it may be suspended at, *)
(* or applying; and in the last two cases at a step that the count and the  *)
(* freeze let through.                                                      *)
LEMMA SelectAndActEffect ==
  ASSUME EngineTypeOK, NEW t \in Names, tick[t].pc # "idle",
         NEW k \in 0 .. MaxCount, SelectAndAct(t, k)
  PROVE  \/ tick' = [tick EXCEPT ![t] = Idle]
         \/ \E i \in DOMAIN Remediations[tick[t].spec] :
              /\ i \in Nat /\ ~ policy.frozen
              /\ Remediations[tick[t].spec][i].max_attempts <= k
              /\ \/ /\ Remediations[tick[t].spec][i].autonomy = "gated"
                    /\ ApproverSuspends
                    /\ Suspend(t, "approving", 0, i)
                 \/ /\ Remediations[tick[t].spec][i].autonomy = "gated"
                    /\ Apply(t, i, TRUE)
                 \/ /\ Remediations[tick[t].spec][i].autonomy = "auto"
                    /\ Apply(t, i, FALSE)
<1> DEFINE ladder == Remediations[tick[t].spec]
           i == Selected(ladder, k)
           d == Decision(ladder, k, policy.frozen)
<1>1. tick[t].spec \in Specs
  BY DEF EngineTypeOK
<1>2. Eligible(ladder, k) # {} =>
        i \in DOMAIN ladder /\ i \in Nat /\ ladder[i].max_attempts \in 0 .. MaxCount
        /\ ladder[i].max_attempts <= k
  <2>1. Eligible(ladder, k) # {} =>
          i \in DOMAIN ladder /\ i \in Nat /\ k >= ladder[i].max_attempts
    BY <1>1, LadderFacts
  <2>2. ladder \in Seq(StepsOver(0 .. MaxCount))
    BY <1>1, LadderFacts
  <2>3. i \in DOMAIN ladder => ladder[i] \in StepsOver(0 .. MaxCount)
    BY <2>2, ElementOfSeq, LenProperties
  <2>4. MaxCount \in Nat
    BY EngineAssumption
  <2> HIDE DEF ladder, i
  <2> QED BY <2>1, <2>3, <2>4 DEF StepsOver
<1>3. d \in {"auto", "gated"} =>
        Eligible(ladder, k) # {} /\ ~ policy.frozen /\ ladder[i].autonomy = d
  BY DEF Decision
<1>4. \/ Finish(t)
      \/ d = "auto" /\ Apply(t, i, FALSE)
      \/ d = "gated" /\ ApproverSuspends /\ Suspend(t, "approving", 0, i)
      \/ d = "gated" /\ Apply(t, i, TRUE)
  BY DEF SelectAndAct
<1> HIDE DEF ladder, i, d
<1>5. \/ Finish(t)
      \/ /\ i \in DOMAIN ladder /\ i \in Nat /\ ~ policy.frozen
         /\ ladder[i].max_attempts <= k
         /\ \/ ladder[i].autonomy = "gated" /\ ApproverSuspends /\ Suspend(t, "approving", 0, i)
            \/ ladder[i].autonomy = "gated" /\ Apply(t, i, TRUE)
            \/ ladder[i].autonomy = "auto" /\ Apply(t, i, FALSE)
  BY <1>2, <1>3, <1>4
<1>6. CASE Finish(t)
  BY <1>6 DEF Finish
<1>7. CASE ~ Finish(t)
  BY <1>5, <1>7 DEF ladder
<1> QED BY <1>6, <1>7

LEMMA IdleType == Idle \in TickType /\ Idle.pc = "idle"
BY EngineAssumption DEF Idle, TickType

(* SelectAndAct touches the supervision of t alone, and keeps the types.    *)
LEMMA SelectAndActType ==
  ASSUME EngineTypeOK, NEW t \in Names, tick[t].pc # "idle",
         NEW k \in 0 .. MaxCount, SelectAndAct(t, k)
  PROVE  \E x \in TickType : /\ tick' = [tick EXCEPT ![t] = x]
                             /\ x.pc # "idle" => x.spec \in Specs
<1>1. CASE tick' = [tick EXCEPT ![t] = Idle]
  BY <1>1, IdleType
<1>2. CASE \E i \in Nat : \/ Suspend(t, "approving", 0, i)
                         \/ Apply(t, i, TRUE) \/ Apply(t, i, FALSE)
  <2>1. PICK i \in Nat : \/ Suspend(t, "approving", 0, i)
                        \/ Apply(t, i, TRUE) \/ Apply(t, i, FALSE)
    BY <1>2
  <2>2. tick[t] \in TickType /\ tick[t].spec \in Specs
    BY DEF EngineTypeOK
  <2>3. 0 \in 0 .. MaxCount
    BY EngineAssumption
  <2>4. /\ [tick[t] EXCEPT !.pc = "approving", !.n = 0, !.step = i] \in TickType
        /\ \A yes \in BOOLEAN :
              [tick[t] EXCEPT !.pc = "applying", !.n = 0, !.step = i, !.approved = yes]
                \in TickType
    BY <2>2, <2>3 DEF TickType
  <2>5. /\ [tick[t] EXCEPT !.pc = "approving", !.n = 0, !.step = i].spec \in Specs
        /\ \A yes \in BOOLEAN :
              [tick[t] EXCEPT !.pc = "applying", !.n = 0, !.step = i,
                              !.approved = yes].spec \in Specs
    BY <2>2 DEF TickType
  <2> QED BY <2>1, <2>4, <2>5 DEF Suspend, Apply
<1> QED BY <1>1, <1>2, SelectAndActEffect

LEMMA DeliverType ==
  ASSUME EngineTypeOK, NEW S, NEW outcome, NEW shown \in {"closed", "open"},
         Deliver(S, outcome, shown)
  PROVE  sink' \in SinkType
BY DEF EngineTypeOK, Deliver, SinkType

(* A step of a supervision keeps the types.                                 *)
LEMMA TickStepType ==
  ASSUME EngineTypeOK, NEW t \in Names, TickStep(t)
  PROVE  EngineTypeOK'
<1> DEFINE Good(x) == x \in TickType /\ (x.pc # "idle" => x.spec \in Specs)
<1>0. /\ tick[t].pc # "idle" /\ tick[t] \in TickType /\ tick[t].spec \in Specs
      /\ MaxCount \in Nat \ {0}
  BY EngineAssumption DEF TickStep, Probe, Resume, ProbeOfRetired, ProbeRaises, ProbeHealthy,
     ProbeUnhealthy, FireReturns, ResolveReturns, ApproverAnswers, ApplyReturns, EngineTypeOK
<1>1. Finish(t) => \E x : Good(x) /\ tick' = [tick EXCEPT ![t] = x]
  BY IdleType DEF Finish
<1>2. ASSUME NEW k \in 0 .. MaxCount, SelectAndAct(t, k)
      PROVE  \E x : Good(x) /\ tick' = [tick EXCEPT ![t] = x]
  BY <1>0, <1>2, SelectAndActType
<1>3. ASSUME NEW pc \in {"firing", "resolving"}, NEW k \in 0 .. MaxCount, Suspend(t, pc, k, 0)
      PROVE  \E x : Good(x) /\ tick' = [tick EXCEPT ![t] = x]
  <2>1. Good([tick[t] EXCEPT !.pc = pc, !.n = k, !.step = 0])
    BY <1>0 DEF TickType
  <2> QED BY <1>3, <2>1 DEF Suspend
<1>4. ASSUME Apply(t, tick[t].step, TRUE)
      PROVE  \E x : Good(x) /\ tick' = [tick EXCEPT ![t] = x]
  <2>1. ASSUME NEW i \in Nat
        PROVE  Good([tick[t] EXCEPT !.pc = "applying", !.n = 0, !.step = i, !.approved = TRUE])
    <3>1. 0 \in 0 .. MaxCount
      BY <1>0
    <3> QED BY <1>0, <3>1 DEF TickType
  <2>2. tick[t].step \in Nat
    BY <1>0 DEF TickType
  <2> HIDE DEF Good
  <2> QED BY <1>4, <2>1, <2>2 DEF Apply
<1>5. \A k \in 0 .. MaxCount : Bump(k) \in 0 .. MaxCount
  BY <1>0 DEF Bump
<1>6. failures[t] \in 0 .. MaxCount /\ streak[t] \in 0 .. MaxCount /\ tick[t].n \in 0 .. MaxCount
      /\ 0 \in 0 .. MaxCount
  BY <1>0 DEF EngineTypeOK, TickType
<1>7. ASSUME \E x : Good(x) /\ tick' = [tick EXCEPT ![t] = x]
      PROVE  tick' \in [Names -> TickType]
             /\ \A u \in Names : tick'[u].pc # "idle" => tick'[u].spec \in Specs
  BY <1>7 DEF EngineTypeOK
<1> HIDE DEF Good
<1>8. CASE Probe(t)
  <2>1. CASE ProbeOfRetired(t) \/ ProbeRaises(t)
    BY <1>1, <1>7, <2>1 DEF ProbeOfRetired, ProbeRaises, EngineTypeOK
  <2>2. CASE ProbeHealthy(t)
    <3>1. \E x : Good(x) /\ tick' = [tick EXCEPT ![t] = x]
      BY <1>1, <1>3, <1>6, <2>2 DEF ProbeHealthy
    <3>2. failures' \in [Names -> 0 .. MaxCount] /\ streak' \in [Names -> 0 .. MaxCount]
      BY <1>6, <2>2 DEF ProbeHealthy, EngineTypeOK
    <3> QED BY <1>7, <2>2, <3>1, <3>2 DEF ProbeHealthy, EngineTypeOK
  <2>3. CASE ProbeUnhealthy(t)
    <3>1. \E x : Good(x) /\ tick' = [tick EXCEPT ![t] = x]
      BY <1>2, <1>3, <1>5, <1>6, <2>3 DEF ProbeUnhealthy
    <3>2. failures' \in [Names -> 0 .. MaxCount] /\ streak' \in [Names -> 0 .. MaxCount]
      BY <1>5, <1>6, <2>3 DEF ProbeUnhealthy, EngineTypeOK
    <3> QED BY <1>7, <2>3, <3>1, <3>2 DEF ProbeUnhealthy, EngineTypeOK
  <2> QED BY <1>8, <2>1, <2>2, <2>3 DEF Probe
<1>9. CASE Resume(t)
  <2>1. ASSUME NEW outcome \in ChannelOutcomes, FireReturns(t, outcome)
        PROVE  EngineTypeOK'
    BY <1>1, <1>2, <1>6, <1>7, <2>1, DeliverType DEF FireReturns, EngineTypeOK
  <2>2. ASSUME NEW outcome \in ChannelOutcomes, ResolveReturns(t, outcome)
        PROVE  EngineTypeOK'
    BY <1>1, <1>7, <2>2, DeliverType DEF ResolveReturns, EngineTypeOK
  <2>3. ASSUME NEW yes \in BOOLEAN, ApproverAnswers(t, yes)
        PROVE  EngineTypeOK'
    BY <1>1, <1>4, <1>7, <2>3 DEF ApproverAnswers, EngineTypeOK
  <2>4. ASSUME NEW yes \in BOOLEAN, ApplyReturns(t, yes)
        PROVE  EngineTypeOK'
    BY <1>1, <1>6, <1>7, <2>4 DEF ApplyReturns, EngineTypeOK
  <2> QED BY <1>9, <2>1, <2>2, <2>3, <2>4 DEF Resume
<1> QED BY <1>8, <1>9 DEF TickStep

(* Where a supervision can be after a step of its own: at rest, in an alert *)
(* call, or at a step of its ladder as GateInv asks.                        *)
LEMMA SelectAndActGate ==
  ASSUME EngineTypeOK, GateInv, NEW t \in Names, tick[t].pc # "idle",
         NEW k \in 0 .. MaxCount, SelectAndAct(t, k)
  PROVE  GateInv'
<1> DEFINE ladder == Remediations[tick[t].spec]
<1>0. tick \in [Names -> TickType] /\ tick[t] \in TickType
  BY DEF EngineTypeOK
<1>1. CASE tick' = [tick EXCEPT ![t] = Idle]
  BY <1>0, <1>1, IdleType DEF GateInv
<1>2. ASSUME NEW i \in DOMAIN ladder, ladder[i].autonomy = "gated",
             Suspend(t, "approving", 0, i)
      PROVE  GateInv'
  <2>1. tick'[t].pc = "approving" /\ tick'[t].step = i /\ tick'[t].spec = tick[t].spec
    BY <1>0, <1>2 DEF Suspend, TickType
  <2>2. \A u \in Names \ {t} : tick'[u] = tick[u]
    BY <1>0, <1>2 DEF Suspend
  <2> QED BY <1>2, <2>1, <2>2 DEF GateInv
<1>3. ASSUME NEW i \in DOMAIN ladder, NEW yes \in BOOLEAN, Apply(t, i, yes),
             IF yes THEN ladder[i].autonomy = "gated" ELSE ladder[i].autonomy = "auto"
      PROVE  GateInv'
  <2>1. /\ tick'[t].pc = "applying" /\ tick'[t].step = i /\ tick'[t].spec = tick[t].spec
        /\ tick'[t].approved = yes
    BY <1>0, <1>3 DEF Apply, TickType
  <2>2. \A u \in Names \ {t} : tick'[u] = tick[u]
    BY <1>0, <1>3 DEF Apply
  <2> QED BY <1>3, <2>1, <2>2 DEF GateInv
<1> QED
  <2>1. CASE \E i \in DOMAIN ladder :
               /\ \/ /\ ladder[i].autonomy = "gated"
                     /\ Suspend(t, "approving", 0, i)
                  \/ /\ ladder[i].autonomy = "gated"
                     /\ Apply(t, i, TRUE)
                  \/ /\ ladder[i].autonomy = "auto"
                     /\ Apply(t, i, FALSE)
    BY <1>2, <1>3, <2>1
  <2> QED BY <1>1, <2>1, SelectAndActEffect

(* Every step of a supervision keeps GateInv.                               *)
LEMMA TickStepGate ==
  ASSUME EngineTypeOK, GateInv, NEW t \in Names, TickStep(t)
  PROVE  GateInv'
<1>0. /\ tick \in [Names -> TickType] /\ tick[t] \in TickType /\ tick[t].pc # "idle"
      /\ MaxCount \in Nat \ {0}
  BY EngineAssumption DEF TickStep, Probe, Resume, ProbeOfRetired, ProbeRaises, ProbeHealthy,
     ProbeUnhealthy, FireReturns, ResolveReturns, ApproverAnswers, ApplyReturns, EngineTypeOK
<1>1. ASSUME Finish(t) PROVE GateInv'
  BY <1>0, <1>1, IdleType DEF Finish, GateInv
<1>2. ASSUME NEW pc \in {"firing", "resolving"}, NEW k, Suspend(t, pc, k, 0)
      PROVE  GateInv'
  <2>1. tick'[t].pc = pc /\ \A u \in Names \ {t} : tick'[u] = tick[u]
    BY <1>0, <1>2 DEF Suspend, TickType
  <2> QED BY <2>1 DEF GateInv
<1>3. ASSUME tick[t].pc = "approving", Apply(t, tick[t].step, TRUE)
      PROVE  GateInv'
  <2>1. /\ tick'[t].pc = "applying" /\ tick'[t].step = tick[t].step
        /\ tick'[t].spec = tick[t].spec /\ tick'[t].approved = TRUE
    BY <1>0, <1>3 DEF Apply, TickType
  <2>2. \A u \in Names \ {t} : tick'[u] = tick[u]
    BY <1>0, <1>3 DEF Apply
  <2> QED BY <1>3, <2>1, <2>2 DEF GateInv
<1>4. Bump(failures[t]) \in 0 .. MaxCount /\ tick[t].n \in 0 .. MaxCount
  BY <1>0 DEF Bump, EngineTypeOK, TickType
<1>5. CASE Probe(t)
  BY <1>0, <1>1, <1>2, <1>4, <1>5, SelectAndActGate
     DEF Probe, ProbeOfRetired, ProbeRaises, ProbeHealthy, ProbeUnhealthy
<1>6. CASE Resume(t)
  BY <1>0, <1>1, <1>3, <1>4, <1>6, SelectAndActGate
     DEF Resume, FireReturns, ResolveReturns, ApproverAnswers, ApplyReturns
<1> QED BY <1>5, <1>6 DEF TickStep

(* A remediation that GateInv lets run is an unattended step that is not    *)
(* destructive, or one the approver said yes to.                            *)
LEMMA GateAllows ==
  ASSUME EngineTypeOK, GateInv
  PROVE  ActsOnlyAsAllowed
<1> SUFFICES ASSUME NEW t \in Names, tick[t].pc = "applying"
             PROVE  LET s == Remediations[tick[t].spec][tick[t].step]
                    IN  /\ s.autonomy = "auto" \/ (s.autonomy = "gated" /\ tick[t].approved)
                        /\ s.destructive => tick[t].approved
  BY DEF ActsOnlyAsAllowed
<1>1. tick[t].spec \in Specs
  BY DEF EngineTypeOK
<1>2. ValidLadder(Remediations[tick[t].spec])
  BY <1>1, EngineAssumption
<1> QED BY <1>2 DEF GateInv, ValidLadder

(* A step of a supervision concerns its own target and nothing else.        *)
LEMMA TickStepFrame ==
  ASSUME EngineTypeOK, NEW t \in Names, TickStep(t)
  PROVE  /\ UNCHANGED <<policy, retired, reload>>
         /\ tick[t].pc # "idle"
         /\ \A u \in Names \ {t} :
              /\ tick'[u] = tick[u] /\ failures'[u] = failures[u] /\ streak'[u] = streak[u]
              /\ u \in openAlerts' <=> u \in openAlerts
<1>0. /\ tick \in [Names -> TickType] /\ failures \in [Names -> 0 .. MaxCount]
      /\ streak \in [Names -> 0 .. MaxCount]
  BY DEF EngineTypeOK
<1>1. ASSUME NEW u \in Names \ {t}
      PROVE  /\ Finish(t) => tick'[u] = tick[u]
             /\ \A pc, k, i : Suspend(t, pc, k, i) => tick'[u] = tick[u]
             /\ \A i, yes : Apply(t, i, yes) => tick'[u] = tick[u]
  BY <1>0 DEF Finish, Suspend, Apply
<1>2. ASSUME NEW u \in Names \ {t}, NEW k, SelectAndAct(t, k)
      PROVE  tick'[u] = tick[u]
  BY <1>1, <1>2 DEF SelectAndAct
<1>3. CASE Probe(t)
  <2>1. CASE ProbeOfRetired(t) \/ ProbeRaises(t)
    BY <1>1, <2>1 DEF ProbeOfRetired, ProbeRaises
  <2>2. CASE ProbeHealthy(t)
    BY <1>0, <1>1, <2>2 DEF ProbeHealthy
  <2>3. CASE ProbeUnhealthy(t)
    BY <1>0, <1>1, <1>2, <2>3 DEF ProbeUnhealthy
  <2> QED BY <1>3, <2>1, <2>2, <2>3 DEF Probe
<1>4. CASE Resume(t)
  BY <1>0, <1>1, <1>2, <1>4 DEF Resume, FireReturns, ResolveReturns, ApproverAnswers, ApplyReturns
<1> QED BY <1>3, <1>4 DEF TickStep

(* What a step may start, also when a reload has overtaken its supervision. *)
LEMMA TickStepStarts ==
  ASSUME EngineTypeOK, NEW t \in Names, TickStep(t)
  PROVE  /\ StartsApplying(t) => ~ policy.frozen \/ tick[t].pc = "approving"
         /\ tick'[t].pc = "approving" => ApproverSuspends
<1>0. /\ tick \in [Names -> TickType] /\ tick[t] \in TickType /\ tick[t].pc # "idle"
      /\ tick[t].n \in 0 .. MaxCount /\ failures[t] \in 0 .. MaxCount /\ MaxCount \in Nat \ {0}
  BY EngineAssumption, TickStepFrame DEF EngineTypeOK, TickType
<1>1. Finish(t) => tick'[t].pc = "idle"
  BY <1>0 DEF Finish, Idle
<1>2. ASSUME NEW pc \in {"firing", "resolving"}, NEW k, Suspend(t, pc, k, 0)
      PROVE  tick'[t].pc = pc
  BY <1>0, <1>2 DEF Suspend, TickType
<1>3. ASSUME NEW k \in 0 .. MaxCount, SelectAndAct(t, k)
      PROVE  /\ tick'[t].pc # "idle" => ~ policy.frozen
             /\ tick'[t].pc = "approving" => ApproverSuspends
  <2>1. ASSUME NEW i, Suspend(t, "approving", 0, i) PROVE tick'[t].pc = "approving"
    BY <1>0, <2>1 DEF Suspend, TickType
  <2>2. ASSUME NEW i, NEW yes, Apply(t, i, yes) PROVE tick'[t].pc = "applying"
    BY <1>0, <2>2 DEF Apply, TickType
  <2>3. tick' = [tick EXCEPT ![t] = Idle] => tick'[t].pc = "idle"
    BY <1>0 DEF Idle
  <2> QED BY <1>0, <1>3, <2>1, <2>2, <2>3, SelectAndActEffect
<1>4. Bump(failures[t]) \in 0 .. MaxCount
  BY <1>0 DEF Bump
<1>5. ASSUME NEW i, Apply(t, i, TRUE) PROVE tick'[t].pc = "applying"
  BY <1>0, <1>5 DEF Apply, TickType
<1>6. CASE Probe(t)
  BY <1>1, <1>2, <1>3, <1>4, <1>6
     DEF Probe, ProbeOfRetired, ProbeRaises, ProbeHealthy, ProbeUnhealthy, StartsApplying
<1>7. CASE Resume(t)
  BY <1>0, <1>1, <1>3, <1>5, <1>7
     DEF Resume, FireReturns, ResolveReturns, ApproverAnswers, ApplyReturns, StartsApplying
<1> QED BY <1>6, <1>7 DEF TickStep

(* The evidence behind the counter of t, and behind the count and the       *)
(* threshold that its suspended supervision will go on with.                *)
LocalEvidence(t) ==
  /\ failures[t] <= streak[t]
  /\ tick[t].pc = "firing" => tick[t].n <= streak[t]
  /\ tick[t].pc = "approving" =>
       Remediations[tick[t].spec][tick[t].step].max_attempts <= streak[t]

LEMMA SelectAndActEvidence ==
  ASSUME EngineTypeOK, NEW t \in Names, tick[t].pc # "idle", tick[t].stale = "no",
         NEW k \in 0 .. MaxCount, SelectAndAct(t, k), k <= streak'[t],
         streak'[t] \in 0 .. MaxCount
  PROVE  /\ tick'[t].pc \in {"idle", "approving", "applying"}
         /\ tick'[t].stale = "no"
         /\ tick'[t].pc \in {"approving", "applying"} =>
              /\ Remediations[tick'[t].spec][tick'[t].step].max_attempts <= streak'[t]
              /\ ~ policy.frozen
         /\ tick'[t].pc = "approving" => ApproverSuspends
<1> DEFINE ladder == Remediations[tick[t].spec]
<1>0. tick \in [Names -> TickType] /\ tick[t] \in TickType /\ tick[t].spec \in Specs
  BY DEF EngineTypeOK
<1>1. CASE tick' = [tick EXCEPT ![t] = Idle]
  BY <1>0, <1>1 DEF Idle
<1>2. ASSUME NEW i \in DOMAIN ladder, ladder[i].max_attempts <= k, ~ policy.frozen,
             \/ ApproverSuspends /\ Suspend(t, "approving", 0, i)
             \/ Apply(t, i, TRUE) \/ Apply(t, i, FALSE)
      PROVE  /\ tick'[t].pc \in {"approving", "applying"} /\ tick'[t].stale = "no"
             /\ Remediations[tick'[t].spec][tick'[t].step].max_attempts <= streak'[t]
             /\ tick'[t].pc = "approving" => ApproverSuspends
  <2>1. /\ tick'[t].spec = tick[t].spec /\ tick'[t].step = i /\ tick'[t].stale = "no"
        /\ tick'[t].pc \in {"approving", "applying"}
        /\ tick'[t].pc = "approving" => ApproverSuspends
    <3>1. CASE ApproverSuspends /\ Suspend(t, "approving", 0, i)
      BY <1>0, <3>1 DEF Suspend, TickType
    <3>2. ASSUME NEW yes, Apply(t, i, yes)
          PROVE  /\ tick'[t].spec = tick[t].spec /\ tick'[t].step = i
                 /\ tick'[t].stale = "no" /\ tick'[t].pc = "applying"
      BY <1>0, <3>2 DEF Apply, TickType
    <3> QED BY <1>2, <3>1, <3>2
  <2>2. ladder[i].max_attempts \in 0 .. MaxCount
    <3>1. ladder \in Seq(StepsOver(0 .. MaxCount))
      BY <1>0, LadderFacts
    <3>2. ladder[i] \in StepsOver(0 .. MaxCount)
      BY <3>1, ElementOfSeq, LenProperties
    <3> QED BY <3>2 DEF StepsOver
  <2>3. MaxCount \in Nat
    BY EngineAssumption
  <2>4. ladder[i].max_attempts <= streak'[t]
    <3> HIDE DEF ladder
    <3> QED BY <1>2, <2>2, <2>3
  <2> QED BY <2>1, <2>4
<1> QED
  <2>1. CASE \E i \in DOMAIN ladder :
               /\ ~ policy.frozen /\ ladder[i].max_attempts <= k
               /\ \/ ApproverSuspends /\ Suspend(t, "approving", 0, i)
                  \/ Apply(t, i, TRUE) \/ Apply(t, i, FALSE)
    BY <1>2, <2>1
  <2> QED BY <1>0, <1>1, <2>1, SelectAndActEffect DEF Idle

(* A supervision whose target no reload has touched keeps its evidence,     *)
(* starts a remediation on the evidence its threshold asks for, and, if it  *)
(* has not been waiting under a freeze, never starts one under a freeze.    *)
LEMMA TickStepEvidence ==
  ASSUME EngineTypeOK, NEW t \in Names, TickStep(t), tick[t].stale = "no", LocalEvidence(t)
  PROVE  /\ LocalEvidence(t)' /\ tick'[t].stale = "no"
         /\ StartsApplying(t) =>
              Remediations[tick'[t].spec][tick'[t].step].max_attempts <= streak'[t]
         /\ StartsApplying(t) => ~ policy.frozen \/ tick[t].pc = "approving"
         /\ tick'[t].pc = "approving" => ~ policy.frozen /\ ApproverSuspends
<1>0. /\ tick \in [Names -> TickType] /\ tick[t] \in TickType
      /\ failures \in [Names -> 0 .. MaxCount] /\ streak \in [Names -> 0 .. MaxCount]
      /\ MaxCount \in Nat \ {0} /\ tick[t].n \in 0 .. MaxCount
      /\ failures[t] \in 0 .. MaxCount /\ streak[t] \in 0 .. MaxCount
  BY EngineAssumption DEF EngineTypeOK, TickType
<1>1. Finish(t) => tick'[t].pc = "idle" /\ tick'[t].stale = "no"
  BY <1>0 DEF Finish, Idle
<1>2. CASE ProbeOfRetired(t) \/ ProbeRaises(t)
  BY <1>1, <1>2 DEF ProbeOfRetired, ProbeRaises, LocalEvidence, StartsApplying
<1>3. CASE ProbeHealthy(t)
  <2>1. failures'[t] = 0 /\ streak'[t] = 0
    BY <1>0, <1>3 DEF ProbeHealthy
  <2>2. tick'[t].pc \in {"idle", "resolving"} /\ tick'[t].stale = "no"
    <3>1. Suspend(t, "resolving", 0, 0) => tick'[t].pc = "resolving" /\ tick'[t].stale = "no"
      BY <1>0 DEF Suspend, TickType
    <3> QED BY <1>1, <1>3, <3>1 DEF ProbeHealthy
  <2> QED BY <2>1, <2>2 DEF LocalEvidence, StartsApplying
<1>4. CASE ProbeUnhealthy(t)
  <2> DEFINE k == Bump(failures[t])
  <2>1. /\ k \in 0 .. MaxCount /\ failures'[t] = k /\ streak'[t] = Bump(streak[t])
        /\ streak'[t] \in 0 .. MaxCount /\ k <= streak'[t]
    BY <1>0, <1>4 DEF ProbeUnhealthy, Bump, LocalEvidence
  <2>2. tick[t].pc # "idle" /\ tick[t].pc # "approving"
    BY <1>4 DEF ProbeUnhealthy
  <2>3. CASE SelectAndAct(t, k)
    <3> HIDE DEF k
    <3> QED BY <2>1, <2>2, <2>3, SelectAndActEvidence DEF LocalEvidence, StartsApplying
  <2>4. CASE Suspend(t, "firing", k, 0)
    <3>1. tick'[t].pc = "firing" /\ tick'[t].n = k /\ tick'[t].stale = "no"
      BY <1>0, <2>4 DEF Suspend, TickType
    <3> QED BY <2>1, <3>1 DEF LocalEvidence, StartsApplying
  <2> QED BY <1>4, <2>3, <2>4 DEF ProbeUnhealthy
<1>5. ASSUME NEW outcome, FireReturns(t, outcome)
      PROVE  /\ LocalEvidence(t)' /\ tick'[t].stale = "no"
             /\ StartsApplying(t) =>
                  Remediations[tick'[t].spec][tick'[t].step].max_attempts <= streak'[t]
             /\ StartsApplying(t) => ~ policy.frozen \/ tick[t].pc = "approving"
             /\ tick'[t].pc = "approving" => ~ policy.frozen /\ ApproverSuspends
  <2>1. /\ failures' = failures /\ streak' = streak /\ tick[t].pc = "firing"
        /\ tick[t].n <= streak'[t] /\ streak'[t] \in 0 .. MaxCount
    BY <1>0, <1>5 DEF FireReturns, LocalEvidence
  <2>2. CASE SelectAndAct(t, tick[t].n)
    BY <1>0, <2>1, <2>2, SelectAndActEvidence DEF LocalEvidence, StartsApplying
  <2> QED BY <1>1, <1>5, <2>1, <2>2 DEF FireReturns, LocalEvidence, StartsApplying
<1>6. ASSUME NEW outcome, ResolveReturns(t, outcome)
      PROVE  LocalEvidence(t)' /\ tick'[t].stale = "no" /\ tick'[t].pc = "idle"
  BY <1>1, <1>6 DEF ResolveReturns, LocalEvidence
<1>7. ASSUME NEW yes, ApproverAnswers(t, yes)
      PROVE  /\ LocalEvidence(t)' /\ tick'[t].stale = "no"
             /\ StartsApplying(t) =>
                  Remediations[tick'[t].spec][tick'[t].step].max_attempts <= streak'[t]
             /\ tick[t].pc = "approving" /\ tick'[t].pc # "approving"
  <2>1. Apply(t, tick[t].step, TRUE) =>
          /\ tick'[t].pc = "applying" /\ tick'[t].stale = "no"
          /\ tick'[t].spec = tick[t].spec /\ tick'[t].step = tick[t].step
    BY <1>0 DEF Apply, TickType
  <2> QED BY <1>1, <1>7, <2>1 DEF ApproverAnswers, LocalEvidence, StartsApplying
<1>8. ASSUME NEW yes, ApplyReturns(t, yes)
      PROVE  LocalEvidence(t)' /\ tick'[t].stale = "no" /\ tick'[t].pc = "idle"
  BY <1>0, <1>1, <1>8 DEF ApplyReturns, LocalEvidence
<1>9. CASE Resume(t)
  BY <1>5, <1>6, <1>7, <1>8, <1>9 DEF Resume, StartsApplying
<1> QED BY <1>2, <1>3, <1>4, <1>9 DEF TickStep, Probe

-----------------------------------------------------------------------------
(* The steps of a reload.                                                   *)

LEMMA ReloadType ==
  ASSUME EngineTypeOK, NEW p \in Policies, NEW todo \in SUBSET Names, DropRemoved(p, todo),
         sink' \in SinkType
  PROVE  EngineTypeOK'
<1>0. /\ tick \in [Names -> TickType] /\ p \in PolicyType /\ 0 \in 0 .. MaxCount
      /\ failures \in [Names -> 0 .. MaxCount] /\ streak \in [Names -> 0 .. MaxCount]
  BY EngineAssumption DEF EngineTypeOK
<1>1. \A S : /\ Cleared(failures, S) \in [Names -> 0 .. MaxCount]
             /\ Cleared(streak, S) \in [Names -> 0 .. MaxCount]
  BY <1>0 DEF Cleared
<1>2. CASE \E t \in todo : \E silent \in SUBSET (todo \ openAlerts) : DropUpTo(p, todo, t, silent)
  <2>1. PICK t \in todo, silent \in SUBSET (todo \ openAlerts) : DropUpTo(p, todo, t, silent)
    BY <1>2
  <2>2. /\ reload' \in [pc : {"idle", "resolving"}, new : Policies \cup {NoPolicy},
                        todo : SUBSET Names, at : SUBSET Names]
        /\ reload'.new \in Policies
    BY <2>1 DEF DropUpTo
  <2> QED BY <1>0, <1>1, <2>1, <2>2 DEF DropUpTo, EngineTypeOK
<1>3. CASE DropRestAndInstall(p, todo)
  <2>1. ASSUME NEW t \in Names
        PROVE  tick'[t] \in TickType /\ tick'[t].pc = tick[t].pc /\ tick'[t].spec = tick[t].spec
    <3>1. tick[t] \in TickType
      BY <1>0
    <3>2. \A x \in {"no", "changed", "removed"} :
             /\ [tick[t] EXCEPT !.stale = x] \in TickType
             /\ [tick[t] EXCEPT !.stale = x].pc = tick[t].pc
             /\ [tick[t] EXCEPT !.stale = x].spec = tick[t].spec
      BY <3>1 DEF TickType
    <3>3. tick[t].stale \in {"no", "changed", "removed"}
      BY <3>1 DEF TickType
    <3>4. \/ tick'[t] = tick[t]
          \/ \E x \in {"no", "changed", "removed"} : tick'[t] = [tick[t] EXCEPT !.stale = x]
      BY <1>3, <3>3 DEF DropRestAndInstall
    <3> QED BY <3>1, <3>2, <3>4
  <2>2. tick' \in [Names -> TickType]
        /\ \A t \in Names : tick'[t].pc # "idle" => tick'[t].spec \in Specs
    <3>1. tick' = [t \in Names |-> tick'[t]]
      BY <1>3 DEF DropRestAndInstall
    <3> QED BY <2>1, <3>1 DEF EngineTypeOK
  <2>3. reload' = NoReload /\ NoReload.pc = "idle"
        /\ NoReload \in [pc : {"idle", "resolving"}, new : Policies \cup {NoPolicy},
                         todo : SUBSET Names, at : SUBSET Names]
    BY <1>3 DEF DropRestAndInstall, NoReload
  <2>4. retired' \subseteq Names /\ openAlerts' \subseteq Names
    BY <1>3 DEF DropRestAndInstall, RetiredAfter, EngineTypeOK, Removed, Supervised
  <2> QED BY <1>0, <1>1, <1>3, <2>2, <2>3, <2>4 DEF DropRestAndInstall, EngineTypeOK
<1> QED BY <1>2, <1>3 DEF DropRemoved

(* A reload moves no supervision, it only marks some as stale.              *)
LEMMA ReloadKeepsTicks ==
  ASSUME EngineTypeOK, NEW p, NEW todo, DropRemoved(p, todo), NEW t \in Names
  PROVE  /\ tick'[t].pc = tick[t].pc /\ tick'[t].spec = tick[t].spec
         /\ tick'[t].step = tick[t].step /\ tick'[t].approved = tick[t].approved
         /\ tick'[t].n = tick[t].n
         /\ tick[t].pc = "idle" => tick'[t] = tick[t]
<1>1. tick[t] \in TickType
  BY DEF EngineTypeOK
<1>2. \A x : /\ [tick[t] EXCEPT !.stale = x].pc = tick[t].pc
             /\ [tick[t] EXCEPT !.stale = x].spec = tick[t].spec
             /\ [tick[t] EXCEPT !.stale = x].step = tick[t].step
             /\ [tick[t] EXCEPT !.stale = x].approved = tick[t].approved
             /\ [tick[t] EXCEPT !.stale = x].n = tick[t].n
  BY <1>1 DEF TickType
<1>3. \/ tick'[t] = tick[t]
      \/ tick[t].pc # "idle" /\ \E x : tick'[t] = [tick[t] EXCEPT !.stale = x]
  BY DEF DropRemoved, DropUpTo, DropRestAndInstall
<1> QED BY <1>2, <1>3

LEMMA ReloadGate ==
  ASSUME EngineTypeOK, GateInv, NEW p, NEW todo, DropRemoved(p, todo)
  PROVE  GateInv'
BY ReloadKeepsTicks DEF GateInv
=============================================================================
