--------------------------- MODULE DialHomeProofs ---------------------------
(***************************************************************************)
(* The owner and its agent, for any number of targets, approvals and       *)
(* pushes, and any loss of requests, replies and owner.  IInv is the       *)
(* inductive invariant: how the approvals in the queue, in the reply and   *)
(* in the agent's hands add up, in which order pushes travel, and where    *)
(* the newest of them can be.                                              *)
(***************************************************************************)
EXTENDS DialHome, LadderProofs, FiniteSetTheorems

(* The numbers of the pushes among the orders o.                            *)
Numbers(o) == {o[i].number : i \in Pushes(o)}

(* No approval is handed out twice, and none is held that was forgotten.    *)
ApprovalInv ==
  \A t \in Targets :
    /\ received[t] + Cardinality(Approvals(reply, t)) + Cardinality(Approvals(orders, t))
         <= clicks[t]
    /\ spent[t] <= received[t]
    /\ t \in approved => spent[t] < received[t]

(* A push overtakes no earlier one on its way to the agent.                 *)
Ascending(o) == \A i, j \in Pushes(o) : i < j => o[i].number < o[j].number

OrderInv ==
  /\ Ascending(reply) /\ Ascending(orders)
  /\ \A n \in Numbers(reply), m \in Numbers(orders) : n < m
  /\ \A n \in Numbers(reply) \cup Numbers(orders) :
       version < n /\ pending < n /\ n <= pushed
  /\ version <= pushed /\ pending <= pushed

PhaseInv ==
  /\ wire # "reply" => reply = << >>
  /\ loop \in {"stopping", "starting"} <=> pending # 0
  /\ pending # 0 => version < pending /\ pending \notin Rejected

(* The newest push is under way, in force, lost or refused.                 *)
NewestInv ==
  \/ pushed = 0 \/ lost >= pushed \/ pushed \in Rejected
  \/ pushed \in Numbers(orders) \cup Numbers(reply) \cup {pending, version}

IInv == TypeOK /\ ApprovalInv /\ OrderInv /\ PhaseInv /\ NewestInv

-----------------------------------------------------------------------------
(* Queues of orders.                                                        *)

LEMMA MaxOfBounded ==
  ASSUME NEW k \in Nat, NEW S \in SUBSET (0 .. k), S # {}
  PROVE  Max(S) \in S /\ \A x \in S : x <= Max(S)
<1>1. \E x \in S : \A y \in S : x >= y
  <2>1. CASE S \subseteq {0}
    <3>1. 0 \in S /\ \A y \in S : y = 0
      BY <2>1
    <3> QED BY <3>1
  <2>2. CASE ~ (S \subseteq {0})
    <3>1. S \ {0} \in SUBSET (1 .. k) /\ S \ {0} # {}
      BY <2>2
    <3>2. PICK x \in S \ {0} : \A y \in S \ {0} : y <= x
      BY <3>1, LargestIndex
    <3>3. \A y \in S : x >= y
      BY <3>1, <3>2
    <3> QED BY <3>3
  <2> QED BY <2>1, <2>2
<1> QED BY <1>1 DEF Max

LEMMA QueueFacts ==
  ASSUME NEW o \in Seq(Order)
  PROVE  /\ Len(o) \in Nat /\ Pushes(o) \subseteq 1 .. Len(o)
         /\ \A i \in Pushes(o) : o[i].number \in 1 .. MaxPushes
         /\ Numbers(o) \subseteq 1 .. MaxPushes
         /\ \A t \in Targets : IsFiniteSet(Approvals(o, t)) /\ Cardinality(Approvals(o, t)) \in Nat
<1>1. Len(o) \in Nat /\ DOMAIN o = 1 .. Len(o) /\ \A i \in DOMAIN o : o[i] \in Order
  BY LenProperties, ElementOfSeq
<1>2. \A i \in Pushes(o) : o[i].number \in 1 .. MaxPushes
  <2>1. ASSUME NEW i \in Pushes(o) PROVE o[i].number \in 1 .. MaxPushes
    <3>1. o[i] \in Order /\ o[i].type = "policy"
      BY <1>1 DEF Pushes
    <3>2. \A t \in Targets : o[i] # Approval(t)
      BY <3>1 DEF Approval
    <3>3. PICK n \in 1 .. MaxPushes : o[i] = PolicyPush(n)
      BY <3>1, <3>2 DEF Order
    <3> QED BY <3>3 DEF PolicyPush
  <2> QED BY <2>1
<1>3. ASSUME NEW t \in Targets
      PROVE  IsFiniteSet(Approvals(o, t)) /\ Cardinality(Approvals(o, t)) \in Nat
  <2>1. Approvals(o, t) \in SUBSET (1 .. Len(o))
    BY <1>1 DEF Approvals
  <2>2. IsFiniteSet(1 .. Len(o))
    BY <1>1, FS_Interval
  <2> QED BY <2>1, <2>2, FS_Subset, FS_CardinalityType
<1>4. Pushes(o) \subseteq 1 .. Len(o)
  BY <1>1 DEF Pushes
<1> QED BY <1>1, <1>2, <1>3, <1>4 DEF Numbers

LEMMA EmptyQueue ==
  /\ << >> \in Seq(Order) /\ Pushes(<< >>) = {} /\ Numbers(<< >>) = {} /\ Ascending(<< >>)
  /\ \A t \in Targets : Approvals(<< >>, t) = {} /\ Cardinality(Approvals(<< >>, t)) = 0
<1>1. << >> \in Seq(Order) /\ Pushes(<< >>) = {}
  BY EmptySeq DEF Pushes
<1>2. \A t \in Targets : Approvals(<< >>, t) = {}
  BY DEF Approvals
<1> QED BY <1>1, <1>2, FS_EmptySet DEF Numbers, Ascending

(* An approval at the end of a queue is one more for its own target, and    *)
(* none of the pushes.                                                      *)
LEMMA AppendApproval ==
  ASSUME NEW o \in Seq(Order), NEW t \in Targets
  PROVE  LET q == Append(o, Approval(t))
         IN  /\ q \in Seq(Order)
             /\ Pushes(q) = Pushes(o) /\ Numbers(q) = Numbers(o)
             /\ Ascending(o) => Ascending(q)
             /\ Cardinality(Approvals(q, t)) = Cardinality(Approvals(o, t)) + 1
             /\ \A u \in Targets \ {t} : Approvals(q, u) = Approvals(o, u)
<1> DEFINE q == Append(o, Approval(t))
<1>1. Approval(t) \in Order /\ Approval(t).type = "approve"
  BY DEF Order, Approval
<1>2. /\ q \in Seq(Order) /\ Len(o) \in Nat /\ DOMAIN o = 1 .. Len(o) /\ DOMAIN q = 1 .. Len(o) + 1
      /\ \A i \in 1 .. Len(o) : q[i] = o[i]
      /\ q[Len(o) + 1] = Approval(t)
  BY <1>1, AppendProperties, LenProperties
<1> HIDE DEF q
<1>3. Pushes(q) = Pushes(o)
  BY <1>1, <1>2 DEF Pushes
<1>4. \A i \in Pushes(o) : q[i] = o[i]
  BY <1>2 DEF Pushes
<1>5. Numbers(q) = Numbers(o) /\ (Ascending(o) => Ascending(q))
  BY <1>3, <1>4 DEF Numbers, Ascending
<1>6. ASSUME NEW u \in Targets \ {t} PROVE Approvals(q, u) = Approvals(o, u)
  <2>1. Approval(t) # Approval(u)
    BY DEF Approval
  <2> QED BY <1>2, <2>1 DEF Approvals
<1>7. Cardinality(Approvals(q, t)) = Cardinality(Approvals(o, t)) + 1
  <2>1. Approvals(q, t) = Approvals(o, t) \cup {Len(o) + 1} /\ Len(o) + 1 \notin Approvals(o, t)
    BY <1>2 DEF Approvals
  <2> QED BY <2>1, QueueFacts, FS_AddElement
<1> QED BY <1>2, <1>3, <1>5, <1>6, <1>7 DEF q

(* A push at the end of a queue comes after all others of it.               *)
LEMMA AppendPush ==
  ASSUME NEW o \in Seq(Order), NEW n \in 1 .. MaxPushes
  PROVE  LET q == Append(o, PolicyPush(n))
         IN  /\ q \in Seq(Order)
             /\ Numbers(q) = Numbers(o) \cup {n}
             /\ Ascending(o) /\ (\A m \in Numbers(o) : m < n) => Ascending(q)
             /\ \A u \in Targets : Approvals(q, u) = Approvals(o, u)
<1> DEFINE q == Append(o, PolicyPush(n))
<1>1. PolicyPush(n) \in Order /\ PolicyPush(n).type = "policy" /\ PolicyPush(n).number = n
  BY DEF Order, PolicyPush
<1>2. /\ q \in Seq(Order) /\ Len(o) \in Nat /\ DOMAIN o = 1 .. Len(o) /\ DOMAIN q = 1 .. Len(o) + 1
      /\ \A i \in 1 .. Len(o) : q[i] = o[i]
      /\ q[Len(o) + 1] = PolicyPush(n)
  BY <1>1, AppendProperties, LenProperties
<1> HIDE DEF q
<1>3. Pushes(q) = Pushes(o) \cup {Len(o) + 1} /\ \A i \in Pushes(o) : i \in 1 .. Len(o) /\ q[i] = o[i]
  BY <1>1, <1>2 DEF Pushes
<1>4. q[Len(o) + 1].number = n
  BY <1>1, <1>2
<1>5. Numbers(q) = Numbers(o) \cup {n}
  BY <1>3, <1>4 DEF Numbers
<1>6. ASSUME Ascending(o), \A m \in Numbers(o) : m < n PROVE Ascending(q)
  <2>1. ASSUME NEW i \in Pushes(q), NEW j \in Pushes(q), i < j
        PROVE  q[i].number < q[j].number
    <3>1. CASE j = Len(o) + 1
      <4>1. i \in Pushes(o)
        BY <1>2, <1>3, <2>1, <3>1
      <4>2. q[i].number \in Numbers(o)
        BY <1>3, <4>1 DEF Numbers
      <4> QED BY <1>4, <1>6, <3>1, <4>2
    <3>2. CASE j # Len(o) + 1
      <4>1. j \in Pushes(o) /\ i \in Pushes(o)
        BY <1>2, <1>3, <2>1, <3>2
      <4> QED BY <1>3, <1>6, <2>1, <4>1 DEF Ascending
    <3> QED BY <3>1, <3>2
  <2> QED BY <2>1 DEF Ascending
<1>7. ASSUME NEW u \in Targets PROVE Approvals(q, u) = Approvals(o, u)
  <2>1. PolicyPush(n) # Approval(u)
    BY <1>1 DEF Approval
  <2> QED BY <1>2, <2>1 DEF Approvals
<1> QED BY <1>2, <1>5, <1>6, <1>7 DEF q

(* The loss of a queue covers every push of it, and no earlier loss is      *)
(* forgotten.                                                               *)
LEMMA LoseFacts ==
  ASSUME NEW o \in Seq(Order), lost \in 0 .. MaxPushes, Lose(o)
  PROVE  /\ lost' \in 0 .. MaxPushes /\ lost' >= lost
         /\ \A n \in Numbers(o) : lost' >= n
<1> DEFINE S == {lost} \cup Numbers(o)
<1>1. S \in SUBSET (0 .. MaxPushes) /\ S # {} /\ MaxPushes \in Nat
  BY QueueFacts, DialHomeAssumption
<1>2. lost' = Max(S)
  BY DEF Lose, Numbers
<1>3. lost' \in S /\ \A x \in S : x <= lost'
  <2> HIDE DEF S
  <2> QED BY <1>1, <1>2, MaxOfBounded
<1> QED BY <1>1, <1>3

(* The push the agent picks from a reply is the newest of the reply.        *)
LEMMA LatestPushFacts ==
  ASSUME NEW o \in Seq(Order), Ascending(o)
  PROVE  \/ LatestPush(o) = 0 /\ Numbers(o) = {}
         \/ LatestPush(o) \in Numbers(o) /\ \A n \in Numbers(o) : n <= LatestPush(o)
<1>1. CASE Pushes(o) = {}
  BY <1>1 DEF LatestPush, Numbers
<1>2. CASE Pushes(o) # {}
  <2>1. Pushes(o) \in SUBSET (0 .. Len(o)) /\ Len(o) \in Nat
    BY QueueFacts
  <2>2. Max(Pushes(o)) \in Pushes(o) /\ \A i \in Pushes(o) : i <= Max(Pushes(o))
    BY <1>2, <2>1, MaxOfBounded
  <2>3. LatestPush(o) = o[Max(Pushes(o))].number
    BY <1>2 DEF LatestPush
  <2>4. ASSUME NEW i \in Pushes(o) PROVE o[i].number <= o[Max(Pushes(o))].number
    <3>1. i \in Int /\ Max(Pushes(o)) \in Int /\ i <= Max(Pushes(o))
      BY <2>1, <2>2
    <3>2. o[i].number \in Int /\ o[Max(Pushes(o))].number \in Int
      BY <2>2, QueueFacts
    <3>3. i < Max(Pushes(o)) => o[i].number < o[Max(Pushes(o))].number
      BY <2>2 DEF Ascending
    <3> QED BY <3>1, <3>2, <3>3
  <2> QED BY <2>2, <2>3, <2>4 DEF Numbers
<1> QED BY <1>1, <1>2

-----------------------------------------------------------------------------
(* IInv is inductive.                                                       *)

LEMMA InitIInv == Init => IInv
<1> SUFFICES ASSUME Init PROVE IInv
  OBVIOUS
<1>1. /\ orders = << >> /\ clicks = Nobody /\ pushed = 0
      /\ wire = "idle" /\ reply = << >> /\ stray = FALSE /\ lost = 0
      /\ loop = "ready" /\ approved = {} /\ version = 0 /\ pending = 0
      /\ received = Nobody /\ spent = Nobody
      /\ up = TRUE /\ tick = [t \in Targets |-> "idle"]
      /\ failures = Nobody /\ latest = [t \in Targets |-> "other"]
  BY DEF Init
<1>2. 0 \in 0 .. MaxClicks /\ 0 \in 0 .. MaxPushes /\ 0 \in 0 .. Threshold /\ 0 \in 0 .. 0
  BY DialHomeAssumption
<1>3. TypeOK
  BY <1>1, <1>2, EmptyQueue DEF TypeOK, Nobody
<1>4. ApprovalInv
  BY <1>1, EmptyQueue DEF ApprovalInv, Nobody
<1>5. OrderInv /\ PhaseInv /\ NewestInv
  BY <1>1, EmptyQueue DEF OrderInv, PhaseInv, NewestInv
<1> QED BY <1>3, <1>4, <1>5 DEF IInv

(* The steps of the agent's supervisor, and of its swap, that touch neither *)
(* the queues nor the approvals.                                            *)
LEMMA SupervisorIInv ==
  ASSUME IInv, NEW t \in Targets, StartTick(t) \/ Supervise(t)
  PROVE  IInv'
<1>1. UNCHANGED <<ownerVars, wireVars, loopVars, up>>
  BY DEF StartTick, Supervise, ProbeHealthy, ProbeRaises, ProbeUnhealthy, Applied, ApplyFails
<1>2. /\ tick \in [Targets -> {"idle", "probing", "applying"}]
      /\ failures \in [Targets -> 0 .. Threshold] /\ latest \in [Targets -> {"applied", "other"}]
  BY DEF IInv, TypeOK
<1>3. /\ tick' \in [Targets -> {"idle", "probing", "applying"}]
      /\ latest' \in [Targets -> {"applied", "other"}]
  BY <1>2 DEF StartTick, Supervise, ProbeHealthy, ProbeRaises, ProbeUnhealthy, Applied,
     ApplyFails, EndTick
<1>4. failures' \in [Targets -> 0 .. Threshold]
  <2>1. 0 \in 0 .. Threshold /\ failures[t] \in 0 .. Threshold /\ Threshold \in Nat
        /\ (failures[t] < Threshold => failures[t] + 1 \in 0 .. Threshold)
        /\ Threshold \in 0 .. Threshold
    BY <1>2, DialHomeAssumption
  <2>2. \/ failures' = failures
        \/ \E k \in 0 .. Threshold : failures' = [failures EXCEPT ![t] = k]
    BY <2>1 DEF StartTick, Supervise, ProbeHealthy, ProbeRaises, ProbeUnhealthy, Applied, ApplyFails
  <2> QED BY <1>2, <2>2
<1>5. TypeOK'
  BY <1>1, <1>3, <1>4 DEF IInv, TypeOK, ownerVars, wireVars, loopVars
<1>6. ApprovalInv'
  BY <1>1 DEF IInv, ApprovalInv, ownerVars, wireVars, loopVars
<1>7. OrderInv' /\ PhaseInv' /\ NewestInv'
  BY <1>1 DEF IInv, OrderInv, PhaseInv, NewestInv, ownerVars, wireVars, loopVars
<1> QED BY <1>5, <1>6, <1>7 DEF IInv

(* What the proofs below use of the types.                                  *)
LEMMA Types ==
  ASSUME TypeOK
  PROVE  /\ orders \in Seq(Order) /\ reply \in Seq(Order)
         /\ pushed \in 0 .. MaxPushes /\ lost \in 0 .. MaxPushes /\ pushed \in Nat /\ lost \in Nat
         /\ version \in Nat /\ pending \in Nat /\ MaxPushes \in Nat /\ MaxClicks \in Nat
         /\ Numbers(orders) \subseteq Nat /\ Numbers(reply) \subseteq Nat
         /\ \A t \in Targets :
              /\ clicks[t] \in Nat /\ received[t] \in Nat /\ spent[t] \in Nat
              /\ clicks[t] <= MaxClicks
              /\ Cardinality(Approvals(orders, t)) \in Nat
              /\ Cardinality(Approvals(reply, t)) \in Nat
<1>1. /\ orders \in Seq(Order) /\ reply \in Seq(Order)
      /\ pushed \in 0 .. MaxPushes /\ lost \in 0 .. MaxPushes
      /\ version \in 0 .. pushed /\ pending \in 0 .. pushed
      /\ MaxPushes \in Nat /\ MaxClicks \in Nat
  BY DialHomeAssumption DEF TypeOK
<1>2. \A t \in Targets : clicks[t] \in 0 .. MaxClicks /\ received[t] \in 0 .. MaxClicks
                         /\ spent[t] \in 0 .. MaxClicks
  BY DEF TypeOK
<1>3. Numbers(orders) \subseteq 1 .. MaxPushes /\ Numbers(reply) \subseteq 1 .. MaxPushes
  BY <1>1, QueueFacts
<1>4. \A t \in Targets : /\ Cardinality(Approvals(orders, t)) \in Nat
                         /\ Cardinality(Approvals(reply, t)) \in Nat
  BY <1>1, QueueFacts
<1> QED BY <1>1, <1>2, <1>3, <1>4

-----------------------------------------------------------------------------
(* The owner.                                                               *)

LEMMA ApproveIInv ==
  ASSUME IInv, NEW t \in Targets, Approve(t)
  PROVE  IInv'
<1>0. TypeOK
  BY DEF IInv
<1>1. /\ clicks[t] < MaxClicks /\ clicks' = [clicks EXCEPT ![t] = @ + 1]
      /\ orders' = Append(orders, Approval(t))
      /\ UNCHANGED <<pushed, wireVars, loopVars, supVars>>
      /\ clicks \in [Targets -> 0 .. MaxClicks]
  BY <1>0 DEF Approve, TypeOK
<1>2. /\ orders' \in Seq(Order) /\ Numbers(orders') = Numbers(orders)
      /\ Ascending(orders) => Ascending(orders')
      /\ Cardinality(Approvals(orders', t)) = Cardinality(Approvals(orders, t)) + 1
      /\ \A u \in Targets \ {t} : Approvals(orders', u) = Approvals(orders, u)
  BY <1>0, <1>1, Types, AppendApproval
<1>3. clicks' \in [Targets -> 0 .. MaxClicks]
  <2>1. clicks[t] + 1 \in 0 .. MaxClicks
    BY <1>0, <1>1, Types
  <2> QED BY <1>1, <2>1
<1>4. TypeOK'
  BY <1>0, <1>1, <1>2, <1>3 DEF TypeOK, wireVars, loopVars, supVars
<1>5. ApprovalInv'
  <2>1. /\ clicks'[t] = clicks[t] + 1
        /\ \A u \in Targets \ {t} : clicks'[u] = clicks[u]
    BY <1>1
  <2>2. UNCHANGED <<reply, received, spent, approved>>
    BY <1>1 DEF wireVars, loopVars
  <2>3. ASSUME NEW u \in Targets
        PROVE  received[u] + Cardinality(Approvals(reply, u)) + Cardinality(Approvals(orders', u))
                 <= clicks'[u]
    <3>1. received[u] + Cardinality(Approvals(reply, u)) + Cardinality(Approvals(orders, u)) <= clicks[u]
      BY DEF IInv, ApprovalInv
    <3>2. /\ received[u] \in Nat /\ clicks[u] \in Nat
          /\ Cardinality(Approvals(orders, u)) \in Nat /\ Cardinality(Approvals(reply, u)) \in Nat
      BY <1>0, Types
    <3>3. CASE u = t
      BY <1>2, <2>1, <3>1, <3>2, <3>3
    <3>4. CASE u # t
      BY <1>2, <2>1, <3>1, <3>4
    <3> QED BY <3>3, <3>4
  <2> QED BY <2>2, <2>3 DEF IInv, ApprovalInv
<1>6. OrderInv' /\ PhaseInv' /\ NewestInv'
  BY <1>1, <1>2 DEF IInv, OrderInv, PhaseInv, NewestInv, wireVars, loopVars
<1> QED BY <1>4, <1>5, <1>6 DEF IInv

LEMMA PushPolicyIInv ==
  ASSUME IInv, PushPolicy
  PROVE  IInv'
<1>0. TypeOK
  BY DEF IInv
<1>1. /\ pushed < MaxPushes /\ pushed' = pushed + 1
      /\ orders' = Append(orders, PolicyPush(pushed + 1))
      /\ UNCHANGED <<clicks, wireVars, loopVars, supVars>>
  BY DEF PushPolicy
<1>2. pushed + 1 \in 1 .. MaxPushes
  BY <1>0, <1>1, Types
<1>3. /\ version <= pushed /\ pending <= pushed
      /\ \A n \in Numbers(reply) \cup Numbers(orders) : n <= pushed /\ version < n /\ pending < n
  BY DEF IInv, OrderInv
<1>4. \A m \in Numbers(orders) \cup Numbers(reply) : m \in Nat /\ m < pushed + 1
  BY <1>0, <1>3, Types
<1>5. /\ orders' \in Seq(Order) /\ Numbers(orders') = Numbers(orders) \cup {pushed'}
      /\ Ascending(orders) => Ascending(orders')
      /\ \A u \in Targets : Approvals(orders', u) = Approvals(orders, u)
  BY <1>0, <1>1, <1>2, <1>4, Types, AppendPush
<1>6. TypeOK'
  <2>1. version \in 0 .. pushed' /\ pending \in 0 .. pushed' /\ pushed' \in 0 .. MaxPushes
    BY <1>0, <1>1, <1>3, Types
  <2> QED BY <1>0, <1>1, <1>5, <2>1 DEF TypeOK, wireVars, loopVars, supVars
<1>7. ApprovalInv'
  BY <1>1, <1>5 DEF IInv, ApprovalInv, wireVars, loopVars
<1>8. UNCHANGED <<reply, version, pending, wire, loop, lost>>
  BY <1>1 DEF wireVars, loopVars
<1>9. OrderInv'
  <2>1. ASSUME NEW n \in Numbers(reply) \cup Numbers(orders')
        PROVE  version < n /\ pending < n /\ n <= pushed'
    <3>1. CASE n = pushed'
      BY <1>0, <1>1, <1>3, <3>1, Types
    <3>2. CASE n # pushed'
      <4>1. n \in Numbers(reply) \cup Numbers(orders)
        BY <1>5, <3>2
      <4> QED BY <1>0, <1>1, <1>3, <1>4, <4>1, Types
    <3> QED BY <3>1, <3>2
  <2>2. \A n \in Numbers(reply), m \in Numbers(orders') : n < m
    BY <1>1, <1>4, <1>5 DEF IInv, OrderInv
  <2>3. version <= pushed' /\ pending <= pushed'
    BY <1>0, <1>1, <1>3, Types
  <2> QED BY <1>5, <1>8, <2>1, <2>2, <2>3 DEF IInv, OrderInv
<1>10. PhaseInv' /\ NewestInv'
  BY <1>5, <1>8 DEF IInv, PhaseInv, NewestInv
<1> QED BY <1>6, <1>7, <1>9, <1>10 DEF IInv

(* The queue is lost, by a restart or to an answer nobody reads.            *)
LEMMA LoseQueueIInv ==
  ASSUME IInv, OwnerRestarts \/ AnswerStray
  PROVE  IInv'
<1>0. TypeOK
  BY DEF IInv
<1>1. /\ orders' = << >> /\ Lose(orders) /\ stray' \in BOOLEAN
      /\ UNCHANGED <<clicks, pushed, wire, reply, loopVars, supVars>>
  BY <1>0 DEF OwnerRestarts, AnswerStray, TypeOK
<1>2. lost' \in 0 .. MaxPushes /\ lost' >= lost /\ \A n \in Numbers(orders) : lost' >= n
  BY <1>0, <1>1, Types, LoseFacts
<1>3. TypeOK'
  BY <1>0, <1>1, <1>2, EmptyQueue DEF TypeOK, loopVars, supVars
<1>4. ApprovalInv'
  <2>1. UNCHANGED <<clicks, reply, received, spent, approved>>
    BY <1>1 DEF loopVars
  <2>2. ASSUME NEW u \in Targets
        PROVE  received[u] + Cardinality(Approvals(reply, u)) + Cardinality(Approvals(orders', u))
                 <= clicks[u]
    <3>1. received[u] + Cardinality(Approvals(reply, u)) + Cardinality(Approvals(orders, u)) <= clicks[u]
      BY DEF IInv, ApprovalInv
    <3>2. Cardinality(Approvals(orders', u)) = 0
      BY <1>1, EmptyQueue
    <3> QED BY <1>0, <3>1, <3>2, Types
  <2> QED BY <2>1, <2>2 DEF IInv, ApprovalInv
<1>5. Numbers(orders') = {} /\ Ascending(orders') /\ UNCHANGED <<version, pending, loop>>
  BY <1>1, EmptyQueue DEF loopVars
<1>6. OrderInv' /\ PhaseInv'
  BY <1>1, <1>5 DEF IInv, OrderInv, PhaseInv
<1>7. NewestInv'
  <2>1. lost >= pushed => lost' >= pushed
    BY <1>0, <1>2, Types
  <2> QED BY <1>1, <1>2, <1>5, <2>1 DEF IInv, NewestInv
<1> QED BY <1>3, <1>4, <1>6, <1>7 DEF IInv

LEMMA AnswerIInv ==
  ASSUME IInv, Answer
  PROVE  IInv'
<1>0. TypeOK
  BY DEF IInv
<1>1. /\ wire = "request" /\ wire' = "reply" /\ reply' = orders /\ orders' = << >>
      /\ UNCHANGED <<clicks, pushed, stray, lost, loopVars, supVars>>
  BY DEF Answer
<1>2. reply = << >>
  BY <1>1 DEF IInv, PhaseInv
<1>3. TypeOK'
  BY <1>0, <1>1, EmptyQueue DEF TypeOK, loopVars, supVars
<1>4. ApprovalInv'
  <2>1. UNCHANGED <<clicks, received, spent, approved>>
    BY <1>1 DEF loopVars
  <2>2. ASSUME NEW u \in Targets
        PROVE  received[u] + Cardinality(Approvals(reply', u)) + Cardinality(Approvals(orders', u))
                 <= clicks[u]
    <3>1. received[u] + Cardinality(Approvals(reply, u)) + Cardinality(Approvals(orders, u)) <= clicks[u]
      BY DEF IInv, ApprovalInv
    <3>2. Cardinality(Approvals(orders', u)) = 0 /\ Cardinality(Approvals(reply, u)) = 0
      BY <1>1, <1>2, EmptyQueue
    <3>3. Cardinality(Approvals(reply', u)) = Cardinality(Approvals(orders, u))
      BY <1>1
    <3> QED BY <1>0, <3>1, <3>2, <3>3, Types
  <2> QED BY <2>1, <2>2 DEF IInv, ApprovalInv
<1>5. /\ Numbers(orders') = {} /\ Ascending(orders') /\ Numbers(reply) = {}
      /\ UNCHANGED <<version, pending, loop, pushed, lost>>
  BY <1>1, <1>2, EmptyQueue DEF loopVars
<1>6. OrderInv' /\ PhaseInv' /\ NewestInv'
  BY <1>1, <1>5 DEF IInv, OrderInv, PhaseInv, NewestInv
<1> QED BY <1>3, <1>4, <1>6 DEF IInv

-----------------------------------------------------------------------------
(* The agent.                                                               *)

(* The steps that move neither orders nor approvals nor pushes.             *)
LEMMA PhaseIInv ==
  ASSUME IInv, UNCHANGED <<ownerVars, reply, stray, lost, version, pending,
                           approved, received, spent, failures, latest>>,
         up' \in BOOLEAN, tick' \in [Targets -> {"idle", "probing", "applying"}],
         \/ wire = "request" /\ wire' = "error" /\ loop' = loop
         \/ wire' = "request" /\ loop = "ready" /\ loop' = "posted"
         \/ wire' = wire /\ <<loop, loop'>> \in {<<"stopping", "starting">>, <<"ready", "ended">>}
         \/ wire' = wire /\ loop' = loop
  PROVE  IInv'
<1>1. TypeOK /\ PhaseInv
  BY DEF IInv
<1>2. wire' # "reply" => reply = << >>
  BY <1>1 DEF TypeOK, PhaseInv
<1>3. /\ wire' \in {"idle", "request", "reply", "error"}
      /\ loop' \in {"ready", "posted", "stopping", "starting", "ended"}
      /\ loop' = "posted" <=> wire' # "idle"
      /\ loop' \in {"stopping", "starting"} <=> loop \in {"stopping", "starting"}
  BY <1>1 DEF TypeOK
<1>4. TypeOK'
  BY <1>1, <1>3 DEF TypeOK, ownerVars
<1>5. PhaseInv'
  BY <1>1, <1>2, <1>3 DEF PhaseInv
<1>6. ApprovalInv' /\ OrderInv' /\ NewestInv'
  BY DEF IInv, ApprovalInv, OrderInv, NewestInv, ownerVars
<1> QED BY <1>4, <1>5, <1>6 DEF IInv

(* At the end of a turn no approval is held that is forgotten.              *)
LEMMA ForgetFacts ==
  ASSUME TypeOK, NEW kept \in SUBSET Targets, Forget(kept),
         received' \in [Targets -> 0 .. MaxClicks],
         \A t \in Targets : /\ received[t] <= received'[t] /\ spent[t] <= received[t]
                            /\ t \in kept => spent[t] < received'[t]
  PROVE  /\ approved' \subseteq Targets /\ spent' \in [Targets -> 0 .. MaxClicks]
         /\ \A t \in Targets : /\ spent'[t] <= received'[t]
                               /\ t \in approved' => spent'[t] < received'[t]
<1>1. approved' = kept \ Served
      /\ spent' = [t \in Targets |-> IF latest[t] = "applied" THEN received'[t] ELSE spent[t]]
  BY DEF Forget
<1>2. spent' \in [Targets -> 0 .. MaxClicks]
  BY <1>1 DEF TypeOK
<1>3. ASSUME NEW t \in Targets
      PROVE  spent'[t] <= received'[t] /\ (t \in approved' => spent'[t] < received'[t])
  <2>1. /\ spent[t] \in Nat /\ received[t] \in Nat /\ received'[t] \in Nat
    BY Types, DialHomeAssumption
  <2>2. CASE latest[t] = "applied"
    BY <1>1, <2>1, <2>2 DEF Served
  <2>3. CASE latest[t] # "applied"
    BY <1>1, <2>1, <2>3
  <2> QED BY <2>2, <2>3
<1> QED BY <1>1, <1>2, <1>3

(* A turn without a reply: what was under way to the agent is lost.         *)
LEMMA NoReplyIInv ==
  ASSUME IInv, GiveUp \/ ReceiveError
  PROVE  IInv'
<1>0. TypeOK
  BY DEF IInv
<1>1. /\ loop = "posted" /\ loop' = "ready" /\ wire' = "idle" /\ received' = received
      /\ Forget(approved) /\ stray' \in BOOLEAN
      /\ UNCHANGED <<ownerVars, version, pending, supVars>>
  BY <1>0 DEF GiveUp, ReceiveError, TypeOK
<1>2. /\ reply' = << >> /\ lost' \in 0 .. MaxPushes /\ lost' >= lost
      /\ \A n \in Numbers(reply) : lost' >= n
  <2>1. CASE GiveUp
    <3>1. reply' = << >> /\ Lose(reply)
      BY <2>1 DEF GiveUp
    <3> QED BY <1>0, <3>1, Types, LoseFacts
  <2>2. CASE ReceiveError
    <3>1. reply = << >> /\ reply' = reply /\ lost' = lost
      BY <2>2 DEF ReceiveError, IInv, PhaseInv
    <3> QED BY <1>0, <3>1, Types, EmptyQueue
  <2> QED BY <2>1, <2>2
<1>3. /\ approved' \subseteq Targets /\ spent' \in [Targets -> 0 .. MaxClicks]
      /\ \A t \in Targets : spent'[t] <= received[t] /\ (t \in approved' => spent'[t] < received[t])
  <2>1. approved \in SUBSET Targets /\ received' \in [Targets -> 0 .. MaxClicks]
    BY <1>0, <1>1 DEF TypeOK
  <2>2. \A t \in Targets : /\ received[t] <= received'[t] /\ spent[t] <= received[t]
                           /\ t \in approved => spent[t] < received'[t]
    BY <1>0, <1>1, Types DEF IInv, ApprovalInv
  <2> QED BY <1>0, <1>1, <2>1, <2>2, ForgetFacts
<1>4. TypeOK'
  BY <1>0, <1>1, <1>2, <1>3, EmptyQueue DEF TypeOK, ownerVars, supVars
<1>5. ApprovalInv'
  <2>1. UNCHANGED <<clicks, orders>>
    BY <1>1 DEF ownerVars
  <2>2. ASSUME NEW u \in Targets
        PROVE  received[u] + Cardinality(Approvals(reply', u)) + Cardinality(Approvals(orders, u))
                 <= clicks[u]
    <3>1. received[u] + Cardinality(Approvals(reply, u)) + Cardinality(Approvals(orders, u)) <= clicks[u]
      BY DEF IInv, ApprovalInv
    <3>2. Cardinality(Approvals(reply', u)) = 0
      BY <1>2, EmptyQueue
    <3> QED BY <1>0, <3>1, <3>2, Types
  <2> QED BY <1>1, <1>3, <2>1, <2>2 DEF ApprovalInv
<1>6. Numbers(reply') = {} /\ Ascending(reply') /\ UNCHANGED <<orders, pushed, version, pending>>
  BY <1>1, <1>2, EmptyQueue DEF ownerVars
<1>7. OrderInv' /\ PhaseInv'
  BY <1>1, <1>2, <1>6 DEF IInv, OrderInv, PhaseInv
<1>8. NewestInv'
  <2>1. lost >= pushed => lost' >= pushed
    BY <1>0, <1>2, Types
  <2> QED BY <1>2, <1>6, <2>1 DEF IInv, NewestInv
<1> QED BY <1>4, <1>5, <1>7, <1>8 DEF IInv

LEMMA ReceiveIInv ==
  ASSUME IInv, Receive
  PROVE  IInv'
<1> DEFINE now  == {t \in Targets : Approvals(reply, t) # {}}
           push == LatestPush(reply)
<1>0. TypeOK
  BY DEF IInv
<1>1. /\ loop = "posted" /\ wire = "reply" /\ wire' = "idle" /\ reply' = << >>
      /\ received' = [t \in Targets |-> received[t] + Cardinality(Approvals(reply, t))]
      /\ UNCHANGED <<ownerVars, stray, lost, version, supVars>>
      /\ \/ push \in Rejected \cup {0} /\ loop' = "ready" /\ pending' = pending
            /\ Forget(approved \cup now)
         \/ push \notin Rejected \cup {0} /\ loop' = "stopping" /\ pending' = push
            /\ approved' = approved \cup now /\ spent' = spent
  BY DEF Receive
<1>2. pending = 0 /\ (\A t \in Targets : spent[t] <= received[t])
  BY <1>1 DEF IInv, PhaseInv, ApprovalInv
<1>3. \/ push = 0 /\ Numbers(reply) = {}
      \/ push \in Numbers(reply) /\ \A n \in Numbers(reply) : n <= push
  BY <1>0, Types, LatestPushFacts DEF IInv, OrderInv
<1>4. push # 0 =>
        /\ push \in Nat /\ version < push /\ push <= pushed
        /\ \A m \in Numbers(orders) : push < m
  BY <1>0, <1>3, Types DEF IInv, OrderInv
<1>5. ASSUME NEW t \in Targets
      PROVE  /\ received'[t] + Cardinality(Approvals(orders, t)) <= clicks[t]
             /\ received'[t] \in 0 .. MaxClicks /\ received[t] <= received'[t]
             /\ t \in approved \cup now => spent[t] < received'[t]
  <2>1. /\ received[t] + Cardinality(Approvals(reply, t)) + Cardinality(Approvals(orders, t)) <= clicks[t]
        /\ spent[t] <= received[t] /\ (t \in approved => spent[t] < received[t])
    BY DEF IInv, ApprovalInv
  <2>2. /\ clicks[t] \in Nat /\ received[t] \in Nat /\ spent[t] \in Nat /\ clicks[t] <= MaxClicks
        /\ Cardinality(Approvals(orders, t)) \in Nat /\ Cardinality(Approvals(reply, t)) \in Nat
        /\ MaxClicks \in Nat
    BY <1>0, Types
  <2>3. received'[t] = received[t] + Cardinality(Approvals(reply, t))
    BY <1>1
  <2>4. t \in now => Cardinality(Approvals(reply, t)) # 0
    BY <1>0, Types, QueueFacts, FS_EmptySet
  <2> HIDE DEF now
  <2> QED BY <2>1, <2>2, <2>3, <2>4
<1>6. received' \in [Targets -> 0 .. MaxClicks] /\ approved \cup now \in SUBSET Targets
  BY <1>0, <1>1, <1>5 DEF TypeOK
<1>7. /\ approved' \subseteq Targets /\ spent' \in [Targets -> 0 .. MaxClicks]
      /\ \A t \in Targets : /\ spent'[t] <= received'[t]
                            /\ t \in approved' => spent'[t] < received'[t]
  <2>1. CASE Forget(approved \cup now)
    <3> HIDE DEF now
    <3> QED BY <1>0, <1>2, <1>5, <1>6, <2>1, ForgetFacts
  <2>2. CASE approved' = approved \cup now /\ spent' = spent
    <3>1. \A t \in Targets : spent[t] <= received'[t]
      BY <1>0, <1>2, <1>5, Types, DialHomeAssumption
    <3> QED BY <1>0, <1>5, <1>6, <2>2, <3>1 DEF TypeOK
  <2> QED BY <1>1, <2>1, <2>2
<1> HIDE DEF now, push
<1>8. /\ loop' \in {"ready", "stopping"} /\ pending' \in {0, push} /\ pending' <= pushed /\ pending' \in 0 .. pushed
      /\ (loop' = "stopping" <=> pending' # 0) /\ (pending' # 0 => version < pending' /\ pending' \notin Rejected)
  BY <1>0, <1>1, <1>2, <1>4, Types
<1>9. TypeOK'
  BY <1>0, <1>1, <1>6, <1>7, <1>8, EmptyQueue DEF TypeOK, ownerVars, supVars
<1>10. ApprovalInv'
  <2>1. UNCHANGED <<clicks, orders>>
    BY <1>1 DEF ownerVars
  <2>2. ASSUME NEW u \in Targets
        PROVE  received'[u] + Cardinality(Approvals(reply', u)) + Cardinality(Approvals(orders, u))
                 <= clicks[u]
    <3>1. received'[u] \in Nat /\ Cardinality(Approvals(orders, u)) \in Nat /\ clicks[u] \in Nat
      BY <1>0, <1>5, Types, DialHomeAssumption
    <3>2. Cardinality(Approvals(reply', u)) = 0
      BY <1>1, EmptyQueue
    <3> QED BY <1>5, <3>1, <3>2
  <2> QED BY <1>7, <2>1, <2>2 DEF ApprovalInv
<1>11. Numbers(reply') = {} /\ Ascending(reply') /\ UNCHANGED <<orders, pushed, version, lost>>
  BY <1>1, EmptyQueue DEF ownerVars
<1>12. OrderInv'
  <2>1. \A m \in Numbers(orders) : pending' < m
    BY <1>0, <1>4, <1>8, Types DEF IInv, OrderInv
  <2> QED BY <1>8, <1>11, <2>1 DEF IInv, OrderInv
<1>13. PhaseInv'
  BY <1>1, <1>8, <1>11 DEF PhaseInv
<1>14. NewestInv'
  <2>1. CASE pushed \in Numbers(reply)
    <3>1. push = pushed
      BY <1>0, <1>3, <1>4, <2>1, Types DEF IInv, OrderInv
    <3>2. pushed = 0 \/ pushed \in Rejected \/ pending' = pushed
      BY <1>1, <3>1
    <3> QED BY <1>11, <3>2 DEF NewestInv
  <2>2. CASE pushed \notin Numbers(reply)
    BY <1>2, <1>11, <2>2 DEF IInv, NewestInv
  <2> QED BY <2>1, <2>2
<1> QED BY <1>9, <1>10, <1>12, <1>13, <1>14 DEF IInv

LEMMA StartNewIInv ==
  ASSUME IInv, StartNew
  PROVE  IInv'
<1>0. TypeOK
  BY DEF IInv
<1>1. /\ loop = "starting" /\ loop' = "ready" /\ up' = TRUE /\ version' = pending /\ pending' = 0
      /\ failures' = Nobody /\ latest' = [t \in Targets |-> "other"]
      /\ UNCHANGED <<ownerVars, wireVars, approved, received, spent, tick>>
  BY DEF StartNew
<1>2. reply = << >> /\ pending # 0
  BY <1>0, <1>1 DEF IInv, PhaseInv, TypeOK
<1>3. TypeOK'
  <2>1. 0 \in 0 .. pushed /\ 0 \in 0 .. Threshold
    BY <1>0, Types, DialHomeAssumption
  <2> QED BY <1>0, <1>1, <2>1 DEF TypeOK, ownerVars, wireVars, Nobody
<1>4. ApprovalInv'
  BY <1>1 DEF IInv, ApprovalInv, ownerVars, wireVars
<1>5. OrderInv'
  <2>1. \A n \in Numbers(orders) \cup Numbers(reply) : 0 < n
    BY <1>0, Types DEF IInv, OrderInv
  <2>2. 0 <= pushed
    BY <1>0, Types
  <2> QED BY <1>1, <2>1, <2>2 DEF IInv, OrderInv, ownerVars, wireVars
<1>6. PhaseInv'
  BY <1>1, <1>2 DEF PhaseInv, wireVars
<1>7. NewestInv'
  <2>1. version < pending /\ pending <= pushed
    BY <1>2 DEF IInv, PhaseInv, OrderInv
  <2>2. version # pushed
    BY <1>0, <2>1, Types
  <2>3. UNCHANGED <<orders, reply, pushed, lost>>
    BY <1>1 DEF ownerVars, wireVars
  <2> QED BY <1>1, <2>2, <2>3 DEF IInv, NewestInv
<1> QED BY <1>3, <1>4, <1>5, <1>6, <1>7 DEF IInv

LEMMA NextIInv == IInv /\ [Next]_vars => IInv'
<1> SUFFICES ASSUME IInv, [Next]_vars PROVE IInv'
  OBVIOUS
<1>1. TypeOK
  BY DEF IInv
<1>2. up \in BOOLEAN /\ tick \in [Targets -> {"idle", "probing", "applying"}]
  BY <1>1 DEF TypeOK
<1>3. CASE UNCHANGED vars
  BY <1>2, <1>3, PhaseIInv DEF vars, ownerVars, wireVars, loopVars, supVars
<1>4. CASE Refuse
  BY <1>2, <1>4, PhaseIInv DEF Refuse, loopVars, supVars
<1>5. CASE Report
  BY <1>2, <1>5, PhaseIInv DEF Report, supVars
<1>6. CASE StopOld \/ StopAgent
  <2>1. [t \in Targets |-> "idle"] \in [Targets -> {"idle", "probing", "applying"}]
    OBVIOUS
  <2> QED BY <1>6, <2>1, PhaseIInv DEF StopOld, StopAgent, wireVars
<1> QED
  BY <1>3, <1>4, <1>5, <1>6, SupervisorIInv, ApproveIInv, PushPolicyIInv, LoseQueueIInv,
     AnswerIInv, NoReplyIInv, ReceiveIInv, StartNewIInv DEF Next

LEMMA SpecIInv == Spec => []IInv
BY InitIInv, NextIInv, PTL DEF Spec

-----------------------------------------------------------------------------
(* What follows.                                                            *)

(* Every variable of the owner, the wire and the agent keeps its type; the  *)
(* agent awaits a reply exactly while a request of its own is on the wire.  *)
THEOREM TypesAlways == Spec => []TypeOK
<1>1. IInv => TypeOK
  BY DEF IInv
<1> QED BY <1>1, SpecIInv, PTL

(* A gated step of an agent starts only on an approval that the owner gave  *)
(* for that target and that no report turn has seen applied since, whatever *)
(* the network loses (agent.py:33-39, 120-135).                             *)
THEOREM OwnerDecidesAlways == Spec => OwnerDecides
<1>1. ASSUME IInv, [Next]_vars
      PROVE  [\A t \in Targets : tick[t] # "applying" /\ tick'[t] = "applying"
                => spent[t] < received[t] /\ received[t] <= clicks[t]]_vars
  <2>1. TypeOK /\ tick \in [Targets -> {"idle", "probing", "applying"}]
    BY <1>1 DEF IInv, TypeOK
  <2>2. ASSUME NEW t \in Targets, tick[t] # "applying", tick'[t] = "applying"
        PROVE  t \in approved
    <3>1. ASSUME NEW u \in Targets, Supervise(u) PROVE t \in approved
      BY <2>1, <2>2, <3>1
         DEF Supervise, ProbeHealthy, ProbeRaises, ProbeUnhealthy, Applied, ApplyFails, EndTick, Approved
    <3>2. ASSUME NEW u \in Targets, StartTick(u) PROVE FALSE
      BY <2>1, <2>2, <3>2 DEF StartTick
    <3>3. tick' # tick /\ tick' # [u \in Targets |-> "idle"]
      BY <2>2
    <3> QED
      BY <1>1, <3>1, <3>2, <3>3
         DEF Next, vars, ownerVars, wireVars, loopVars, supVars, Approve, PushPolicy, OwnerRestarts,
             Answer, Refuse, AnswerStray, Report, GiveUp, ReceiveError, Receive, StopOld, StartNew, StopAgent
  <2>3. ASSUME NEW t \in Targets, t \in approved
        PROVE  spent[t] < received[t] /\ received[t] <= clicks[t]
    <3>1. /\ received[t] + Cardinality(Approvals(reply, t)) + Cardinality(Approvals(orders, t)) <= clicks[t]
          /\ spent[t] < received[t]
      BY <1>1, <2>3 DEF IInv, ApprovalInv
    <3> QED BY <2>1, <3>1, Types
  <2> QED BY <2>2, <2>3
<1> QED BY <1>1, SpecIInv, PTL DEF Spec, OwnerDecides

(* However pushes are queued, lost and refused, an agent at the end of its  *)
(* turn, with nothing queued for it and the newest push not lost, runs the  *)
(* newest policy, if it loads it (agent.py:54-63, 76-93).                   *)
THEOREM CatchesUpAlways == Spec => []CatchesUp
<1>1. ASSUME IInv PROVE CatchesUp
  <2>1. SUFFICES ASSUME loop = "ready", Pushes(orders) = {}, lost < pushed, pushed \notin Rejected
                 PROVE  version = pushed
    BY DEF CatchesUp
  <2>2. reply = << >> /\ pending = 0
    BY <1>1, <2>1 DEF IInv, TypeOK, PhaseInv
  <2>3. Numbers(orders) = {} /\ Numbers(reply) = {}
    BY <2>1, <2>2, EmptyQueue DEF Numbers
  <2>4. pushed # 0 /\ ~ (lost >= pushed)
    BY <1>1, <2>1, Types DEF IInv
  <2> QED BY <1>1, <2>1, <2>2, <2>3, <2>4 DEF IInv, NewestInv
<1> QED BY <1>1, SpecIInv, PTL

(* An agent never goes back to a policy older than the one it runs,         *)
(* whatever was queued, lost or answered late in between (agent.py:54-63).  *)
THEOREM NeverGoesBack == Spec => [][version' = version \/ version < version']_vars
<1>1. ASSUME IInv, [Next]_vars
      PROVE  [version' = version \/ version < version']_vars
  <2>1. CASE StartNew
    <3>1. version' = pending /\ pending # 0
      BY <1>1, <2>1 DEF StartNew, IInv, PhaseInv
    <3> QED BY <1>1, <3>1 DEF IInv, PhaseInv
  <2>2. CASE ~ StartNew
    <3>1. version' = version
      BY <1>1, <2>2
         DEF Next, vars, loopVars, Approve, PushPolicy, OwnerRestarts, Answer, Refuse,
             AnswerStray, Report, GiveUp, ReceiveError, Receive, StopOld, StopAgent,
             StartTick, Supervise, ProbeHealthy, ProbeRaises, ProbeUnhealthy, Applied,
             ApplyFails
    <3> QED BY <3>1
  <2> QED BY <2>1, <2>2
<1> QED BY <1>1, SpecIInv, PTL DEF Spec
=============================================================================
