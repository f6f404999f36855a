------------------------------ MODULE MCPatrol ------------------------------
(* Small targets to patrol.  Climbing: every ladder of up to two steps with *)
(* thresholds -1 .. 2, under a probe that is always unhealthy.  Judging:    *)
(* every type of probe, over the runners it is used with.  Acting: every    *)
(* class of remediation behind each kind of approver, supervised or healed. *)
(* Calling: callers that ask for retries.                                   *)
EXTENDS Patrol, SequencesExt

MCExitCodes == {0, 1, 124}

CallBy(runner) == [runner |-> runner, quoted |-> TRUE, retries |-> 0,
                   bounded |-> TRUE, again |-> FALSE]

Local0 == CallBy("local")
Kube == CallBy("k8s")
Ssh == CallBy("ssh")

Step(k, autonomy, class) ==
  [max_attempts |-> k, autonomy |-> autonomy, destructive |-> class.destructive]

MCLadders == BoundedSeq(StepsOver(-1 .. 2), 2)

Kind(class) == [class |-> class, quoted |-> TRUE, requests |-> {"cpu"}]

Target(ladder_, kinds, probe, call_, mode, frozen, approver) ==
  [ladder |-> ladder_, kinds |-> kinds, probe |-> probe, call |-> call_,
   mode |-> mode, frozen |-> frozen, approver |-> approver]

NoExtra == [type |-> "cert-expiry", certs |-> FALSE, days |-> 1]
Process == [type |-> "process"]

Climbing ==
  {Target(l, [i \in DOMAIN l |-> Kind(IF l[i].destructive THEN DeletePod ELSE RolloutRestart)],
          NoExtra, Kube, "patrol", FALSE, "deny_all") : l \in MCLadders}

KubeProbes ==
  {[type |-> "pod", min_ready |-> k] : k \in 0 .. 2}
  \cup {[type |-> "restart-count", max_restarts |-> k] : k \in {0, 2}}
  \cup {[type |-> "cert-expiry", certs |-> TRUE, days |-> k] : k \in {-1, 0, 1}}
  \cup {[type |-> "resource-usage", cpu_threshold |-> 90, mem_threshold |-> 90]}
  \cup {[type |-> t] : t \in {"deployment", "pvc", "knative-service", "keda-scaledobject",
                             "elpio-service", "elpio-function", "elpio-task", "unknown"}}

HostProbes ==
  {[type |-> "port", port |-> 80, host |-> h] : h \in {NoValue, "10.0.0.1"}}
  \cup {[type |-> "disk", threshold_pct |-> 90]}
  \cup {[type |-> "http", expect_status |-> k] : k \in {200, 204}}
  \cup {[type |-> "command", expect_contains |-> c] : c \in {NoValue, "PONG"}}
  \cup {[type |-> t] : t \in {"process", "systemd", "postgres", "kafka", "trino", "clickhouse"}}

Judging ==
  {Target(<< >>, << >>, p, Kube, "patrol", FALSE, "deny_all") : p \in KubeProbes}
  \cup {Target(<< >>, << >>, p, c, "patrol", FALSE, "deny_all") :
          p \in HostProbes, c \in {Local0, Ssh}}
  \cup {Target(<< >>, << >>, [type |-> "command", expect_contains |-> NoValue],
               [c EXCEPT !.quoted = FALSE], "patrol", FALSE, "deny_all") :
          c \in {Local0, Ssh, Kube}}

TwoRungs == <<Step(1, "auto", RestartService), Step(2, "gated", KillProcess)>>

Acting ==
  {Target(TwoRungs, <<Kind(RestartService), Kind(KillProcess)>>, Process, c,
          mode, frozen, approver) :
     c \in {Local0, Ssh}, mode \in {"patrol", "heal"}, frozen \in BOOLEAN,
     approver \in {"deny_all", "ai", "human"}}
  \cup {Target(<<Step(1, "gated", t)>>, <<Kind(t)>>, Process, Local0, "patrol", FALSE, "ai") :
          t \in REMEDIATIONS}
  \cup {Target(<<Step(1, "suggest", PatchRequests)>>,
               <<[Kind(PatchRequests) EXCEPT !.requests = {}]>>, Process, Kube, "patrol",
               FALSE, "human")}
  \cup {Target(<<Step(1, "auto", RespawnProcess)>>,
               <<[Kind(RespawnProcess) EXCEPT !.quoted = FALSE]>>, Process, Local0,
               mode, FALSE, "deny_all") : mode \in {"patrol", "heal"}}

Calling ==
  {Target(<< >>, << >>, Process,
          [runner |-> r, quoted |-> TRUE, retries |-> k, bounded |-> b, again |-> a],
          "direct", FALSE, "deny_all") :
     r \in {"sync", "local", "ssh"}, k \in 0 .. 2, b \in BOOLEAN, a \in BOOLEAN}

MCSetups ==
  Climbing \cup Judging \cup Acting
  \cup {s \in Calling : s.call.again => s.call.runner = "sync"}

-----------------------------------------------------------------------------
Conditions ==
  {<< >>, <<Cond("Ready", "True")>>, <<Cond("Ready", "False")>>,
   <<Cond("Active", "False"), Cond("Ready", "True")>>,
   <<Cond("Ready", "True"), Cond("Paused", "True")>>,
   <<Cond("Paused", "False"), Cond("Ready", "True")>>}

PodsOf(S) == {<< >>} \cup {<<x>> : x \in S} \cup {<<x, y>> : x \in S, y \in S}

Pods == {[phase |-> f, conditions |-> c] :
           f \in {"Running", "Pending"},
           c \in {<< >>, <<Cond("Ready", "True")>>, <<Cond("Ready", "False")>>}}

Container(k, w, t) == [restarts |-> k, waiting |-> w, terminated |-> t]
Looping == Container(1, "CrashLoopBackOff", "")
Crashing ==
  {[containers |-> cs] :
     cs \in {{}, {Container(1, "", "")}, {Container(2, "", "Error")}, {Looping},
             {Container(0, "", ""), Container(0, "", "OOMKilled")}}}

Q(k, unit) == [amount |-> k, unit |-> unit]
Use(c, m) == [cpu |-> c, mem |-> m]
Requests ==
  {<< >>, <<Use(NoValue, NoValue)>>, <<Use(Q(1, ""), Q(2, "Ki"))>>,
   <<Use(Q(500, "m"), NoValue), Use(Q(500, "m"), Q(1, "K"))>>,
   <<Use(Q(0, ""), Q(1, "k"))>>}

Texts == {NotJson, NotObject}

MCBodies ==
  [t \in Types \cup {"usage"} |->
     CASE t = "pod" -> Texts \cup PodsOf(Pods \cup {NotObject})
       [] t = "restart-count" -> Texts \cup PodsOf(Crashing \cup {NotObject})
       [] t = "deployment" ->
            Texts \cup [replicas : {NoValue, 0, 2}, available : {NoValue, 1, 2}]
       [] t = "pvc" -> Texts \cup [phase : {NoValue, "Pending", "Bound"}]
       [] t = "cert-expiry" ->
            Texts \cup [crt : {"no key", "not base64", "no certificate"}, hours : {0}]
              \cup [crt : {"certificate"}, hours : {-25, -1, 0, 1, 23, 24, 25, 49}]
       [] t = "usage" ->
            {[pod \in {} |-> NoValue], [pod \in {"p"} |-> Use(Q(1, "m"), Q(1, "Pi"))]}
              \cup {[pod \in {"p"} |-> Use(c, m)] :
                       c \in {Q(500, "m"), Q(900, "m")}, m \in {Q(1, "Ki"), Q(1, "K")}}
       [] t = "resource-usage" ->
            Texts \cup {[pod \in {} |-> NoValue], [pod \in {"q"} |-> << >>]}
              \cup [{"p"} -> Requests]
       [] t \in {"knative-service", "keda-scaledobject"} -> Texts \cup [conditions : Conditions]
       [] t \in {"elpio-service", "elpio-function", "elpio-task"} ->
            Texts \cup [ready : {NoValue, TRUE, FALSE}, conditions : Conditions]
       [] t = "port" ->
            {<< >>, <<[bind |-> "10.0.0.1", port |-> 80]>>,
             <<[bind |-> "10.0.0.2", port |-> 80]>>, <<[bind |-> "*", port |-> 8080]>>,
             <<[bind |-> "10.0.0.2", port |-> 8080], [bind |-> "[::]", port |-> 80]>>}
       [] t = "disk" ->
            {<< >>, <<<<NoValue>>>>, <<<<NoValue>>, <<NoValue, NoValue>>>>,
             <<<<NoValue>>, <<NoValue, 90, NoValue>>>>, <<<<NoValue>>, <<NoValue, 91, NoValue>>>>}
       [] t = "command" -> {{}, {"PONG"}, {"LOADING"}}
       [] t \in {"http", "trino", "clickhouse"} -> {NotJson, 200, 204, 503}
       [] OTHER -> {NotJson}]

MCAnswers ==
  {NoAnswer, <<<<"yes">>>>, <<<<"no">>>>, <<<<"yes", "but">>>>,
   <<<<"yes">>, <<"no">>>>, <<<<"risky">>, <<"approved">>>>}
=============================================================================
