------------------------------- MODULE Probes -------------------------------
(***************************************************************************)
(* probes/: what each probe makes of the answer of its command.  An answer *)
(* is the return code and the text, abstracted to what the probe reads in  *)
(* it; a verdict is "healthy", "unhealthy", or "raises" where the code     *)
(* lets an exception out, which the engine reports without counting it.    *)
(***************************************************************************)
EXTENDS Integers, Sequences, FiniteSets

LOCAL INSTANCE SequencesExt

CONSTANTS
  NotJson,    \* text that json.loads rejects
  NotObject,  \* JSON, or an element of a list, that is not an object
  NoValue     \* a field that is missing or null, an option that is not set

Judged(b) == IF b THEN "healthy" ELSE "unhealthy"

(* kubectl get ... -o json: the steps all Kubernetes probes share; verdict  *)
(* is what a probe makes of a body that is an object.                       *)
OfJson(r, verdict) ==
  IF r.rc # 0 \/ r.body = NotJson THEN "unhealthy"
  ELSE IF r.body = NotObject THEN "raises"
  ELSE verdict

OrZero(x) == IF x = NoValue THEN 0 ELSE x

Cond(type, status) == [type |-> type, status |-> status]

(* The status of the first condition of a kind, "" if there is none.        *)
StatusOf(conditions, kind) ==
  LET at == {i \in DOMAIN conditions : conditions[i].type = kind}
  IN  IF at = {} THEN ""
      ELSE conditions[CHOOSE i \in at : \A j \in at : i <= j].status

-----------------------------------------------------------------------------
(* Kubernetes.                                                              *)

IsReady(pod) ==
  /\ pod.phase = "Running"
  /\ \E i \in DOMAIN pod.conditions :
       pod.conditions[i] = Cond("Ready", "True")

PodReadyProbe(p, r) ==
  LET pods == r.body
  IN  OfJson(r, IF \E i \in DOMAIN pods : pods[i] = NotObject THEN "raises"
                ELSE Judged(Cardinality({i \in DOMAIN pods : IsReady(pods[i])})
                              >= p.min_ready))

DeploymentProbe(p, r) ==
  OfJson(r, Judged(OrZero(r.body.available) >= OrZero(r.body.replicas)))

PvcProbe(p, r) ==
  OfJson(r, Judged(r.body.phase = "Bound"))

DaysLeftRoundedUp(hours) == (hours + 23) \div 24  \* mutant: rounded up

(* timedelta.days rounds down, below zero too.                              *)
DaysLeft(hours) == hours \div 24

(* The secret holds a certificate with so many hours left, or no key, no    *)
(* base64 or no certificate; without the `certs' extra no command is run.   *)
CertExpiryProbe(p, r) ==
  IF p.certs THEN OfJson(r, Judged(/\ r.body.crt = "certificate"
                                   /\ DaysLeft(r.body.hours) >= 0
                                   /\ DaysLeft(r.body.hours) >= p.days))
  ELSE "unhealthy"

Crashed(c) == c.waiting = "CrashLoopBackOff" \/ c.terminated = "OOMKilled"

(* The walk over the pods stops at the first crash; a pod that is no object *)
(* ends it with an exception, if it is reached.                             *)
RestartCountProbe(p, r) ==
  LET pods    == r.body
      odd     == {i \in DOMAIN pods : pods[i] = NotObject}
      crashed == {i \in DOMAIN pods \ odd : \E c \in pods[i].containers : Crashed(c)}
      worn    == {i \in DOMAIN pods \ odd :
                    \E c \in pods[i].containers : c.restarts >= p.max_restarts}
  IN  OfJson(r, IF \E i \in odd : \A j \in crashed : i < j THEN "raises"
                ELSE Judged(crashed \cup worn = {}))

(* Quantities: what a unit is worth.  One that is not listed, as the "k" and *)
(* the "m" a memory request may have, is left to float(), which raises.     *)
CpuUnits == {"m", ""}
CpuUnit(u) == IF u = "m" THEN 1 ELSE 1000

MemUnits == {"Ki", "Mi", "Gi", "Ti", "K", "M", "G", "T", ""}
MemUnit(u) ==
  CASE u = "Ki" -> 2^10 [] u = "Mi" -> 2^20 [] u = "Gi" -> 2^30 [] u = "Ti" -> 2^40
    [] u = "K"  -> 10^3 [] u = "M"  -> 10^6 [] u = "G"  -> 10^9 [] u = "T"  -> 10^12
    [] u = "" -> 1

Parses(qs) ==
  /\ qs.cpu = NoValue \/ qs.cpu.unit \in CpuUnits
  /\ qs.mem = NoValue \/ qs.mem.unit \in MemUnits

Millicores(q) == q.amount * CpuUnit(q.unit)
Bytes(q) == q.amount * MemUnit(q.unit)

TopParses(usage) == \A pod \in DOMAIN usage : Parses(usage[pod])

(* The requests of a pod, each summed over the containers that declare it.  *)
CpuRequest(containers) ==
  FoldSeq(LAMBDA c, sum : IF c.cpu = NoValue THEN sum ELSE sum + Millicores(c.cpu),
          0, containers)

MemRequest(containers) ==
  FoldSeq(LAMBDA c, sum : IF c.mem = NoValue THEN sum ELSE sum + Bytes(c.mem),
          0, containers)

OverRequest(used, request, threshold) ==
  request # 0 /\ used * 100 >= threshold * request

(* Two commands: the usage of each pod, then the requests of the pods that  *)
(* are there by then.                                                       *)
ResourceUsageProbe(p, r) ==
  LET usage == r.first.body
      requests == r.body
      Hot(pod, containers) ==
        \/ OverRequest(Millicores(usage[pod].cpu), CpuRequest(containers), p.cpu_threshold)
        \/ OverRequest(Bytes(usage[pod].mem), MemRequest(containers), p.mem_threshold)
  IN  IF r.first.rc # 0 THEN "unhealthy"
      ELSE IF ~ TopParses(usage) THEN "raises"
      ELSE IF DOMAIN usage = {} THEN "healthy"
      ELSE OfJson(r, IF \E pod \in DOMAIN requests : \E i \in DOMAIN requests[pod] :
                          ~ Parses(requests[pod][i])
                     THEN "raises"
                     ELSE Judged(\A pod \in DOMAIN usage \cap DOMAIN requests :
                                   ~ Hot(pod, requests[pod])))

KnativeServiceProbe(p, r) ==
  OfJson(r, Judged(StatusOf(r.body.conditions, "Ready") = "True"))

ReadyAndNotPaused(conditions) ==
  StatusOf(conditions, "Ready") = "True" /\ StatusOf(conditions, "Paused") # "True"

KedaScaledObjectProbe(p, r) ==
  OfJson(r, Judged(ReadyAndNotPaused(r.body.conditions)))

(* status.ready is canonical, the Ready condition the fallback.             *)
ElpioReady(status) ==
  Judged(status.ready = TRUE \/ StatusOf(status.conditions, "Ready") = "True")

ElpioServiceProbe(p, r) == OfJson(r, ElpioReady(r.body))
ElpioFunctionProbe(p, r) == OfJson(r, ElpioReady(r.body))
ElpioTaskProbe(p, r) == OfJson(r, ElpioReady(r.body))

-----------------------------------------------------------------------------
(* Hosts and services.                                                      *)

(* Four that look at the exit status alone.                                 *)
ProcessProbe(p, r) == Judged(r.rc = 0)
SystemdProbe(p, r) == Judged(r.rc = 0)
PostgresProbe(p, r) == Judged(r.rc = 0)
KafkaProbe(p, r) == Judged(r.rc = 0)

Wildcards == {"*", "0.0.0.0", "[::]", "::"}

(* Lines of ss: the address and port each socket is bound to.               *)
PortProbe(p, r) ==
  Judged(/\ r.rc = 0
         /\ \E i \in DOMAIN r.body :
              /\ r.body[i].port = p.port
              /\ p.host = NoValue \/ r.body[i].bind \in Wildcards \cup {p.host})

(* The last percentage in the last line of df, whose first line is a header.*)
UsePct(lines) ==
  LET row == lines[Len(lines)]
      at  == {i \in DOMAIN row : row[i] # NoValue}
  IN  IF Len(lines) < 2 \/ at = {} THEN NoValue
      ELSE row[CHOOSE i \in at : \A j \in at : j <= i]

DiskProbe(p, r) ==
  Judged(/\ r.rc = 0 /\ UsePct(r.body) # NoValue
         /\ UsePct(r.body) <= p.threshold_pct)

HttpIgnoresExit(p, r) == Judged(r.body = p.expect_status)  \* mutant: r.ok is dropped

HttpProbe(p, r) == Judged(r.rc = 0 /\ r.body = p.expect_status)

(* HttpProbe at a fixed path, expecting 200.                                *)
TrinoProbe(p, r) == HttpProbe([expect_status |-> 200], r)
ClickHouseProbe(p, r) == HttpProbe([expect_status |-> 200], r)

CommandProbe(p, r) ==
  Judged(r.rc = 0 /\ (p.expect_contains = NoValue \/ p.expect_contains \in r.body))

-----------------------------------------------------------------------------
(* build_probe and the constructors: what a policy that loads may ask for.  *)
Types == {"pod", "deployment", "pvc", "cert-expiry", "restart-count",
          "resource-usage", "knative-service", "keda-scaledobject",
          "elpio-service", "elpio-function", "elpio-task", "process", "systemd",
          "port", "disk", "http", "command", "postgres", "kafka", "trino",
          "clickhouse"}

Buildable(p) ==
  /\ p.type \in Types
  /\ p.type = "pod" => p.min_ready >= 1
  /\ p.type = "restart-count" => p.max_restarts >= 1
  /\ p.type = "cert-expiry" => p.days >= 0

(* Probe.check of each class, once its commands have answered.              *)
Verdict(p, r) ==
  CASE p.type = "pod"               -> PodReadyProbe(p, r)
    [] p.type = "deployment"        -> DeploymentProbe(p, r)
    [] p.type = "pvc"               -> PvcProbe(p, r)
    [] p.type = "cert-expiry"       -> CertExpiryProbe(p, r)
    [] p.type = "restart-count"     -> RestartCountProbe(p, r)
    [] p.type = "resource-usage"    -> ResourceUsageProbe(p, r)
    [] p.type = "knative-service"   -> KnativeServiceProbe(p, r)
    [] p.type = "keda-scaledobject" -> KedaScaledObjectProbe(p, r)
    [] p.type = "elpio-service"     -> ElpioServiceProbe(p, r)
    [] p.type = "elpio-function"    -> ElpioFunctionProbe(p, r)
    [] p.type = "elpio-task"        -> ElpioTaskProbe(p, r)
    [] p.type = "process"           -> ProcessProbe(p, r)
    [] p.type = "systemd"           -> SystemdProbe(p, r)
    [] p.type = "port"              -> PortProbe(p, r)
    [] p.type = "disk"              -> DiskProbe(p, r)
    [] p.type = "http"              -> HttpProbe(p, r)
    [] p.type = "command"           -> CommandProbe(p, r)
    [] p.type = "postgres"          -> PostgresProbe(p, r)
    [] p.type = "kafka"             -> KafkaProbe(p, r)
    [] p.type = "trino"             -> TrinoProbe(p, r)
    [] p.type = "clickhouse"        -> ClickHouseProbe(p, r)
=============================================================================
