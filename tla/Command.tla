------------------------------- MODULE Command -------------------------------
(***************************************************************************)
(* One command run for a probe or a remediation (providers/command.py and  *)
(* the providers' run): attempts, timeouts, the process behind each        *)
(* attempt, and what is left of it when the call is over.                  *)
(***************************************************************************)
EXTENDS Integers

CONSTANT ExitCodes   \* of a command that ends by itself: negative for a signal

ASSUME CommandAssumption == ExitCodes \subseteq Int

VARIABLES
  call,      \* the arguments of the call in progress, or of the latest one
  pc,        \* where it is
  tries,     \* attempts made
  rc,        \* returncode of `result'
  evidence,  \* history: how the latest attempt's return code was obtained
  alive,     \* processes of this call that somebody waits for
  adrift     \* history: why a process of the call may run on with nobody waiting

commandVars == <<call, pc, tries, rc, evidence, alive, adrift>>

TIMEOUT_RC == 124
NOT_FOUND_RC == 127

(* The runner: run_local ("sync"), run_local_async behind the local and the *)
(* Kubernetes provider, or SSHProvider.run.  Only the first takes           *)
(* retry_on_timeout from a caller: no provider passes it on.                *)
Local == {"sync", "local", "k8s"}

CallType ==
  [runner : Local \cup {"ssh"},
   quoted : BOOLEAN,    \* FALSE: a string that shlex.split rejects
   retries : Nat,
   bounded : BOOLEAN,   \* whether there is a timeout
   again : BOOLEAN]     \* retry_on_timeout

CommandTypeOK ==
  /\ call \in CallType
  /\ call.again => call.runner = "sync"
  /\ pc \in {"idle", "starting", "running", "killing", "done", "raised"}
  /\ tries \in 0 .. call.retries + 1
  /\ rc \in ExitCodes \cup {-1, 0, TIMEOUT_RC, NOT_FOUND_RC}
  /\ evidence \in {"none", "exit", "silence"}
  /\ alive \in {0, 1}
  /\ adrift \subseteq {"cancelled", "timed out", "lost"}

NoCall == [runner |-> "local", quoted |-> TRUE, retries |-> 0,
           bounded |-> TRUE, again |-> FALSE]

CommandInit ==
  /\ call = NoCall /\ pc = "idle" /\ tries = 0 /\ rc = -1
  /\ evidence = "none" /\ alive = 0 /\ adrift = {}

(* _prepare_args: a string that cannot be split is an answer of its own;    *)
(* KubernetesProvider splits before it calls, outside any try; SSHProvider  *)
(* hands the string over as it is.                                          *)
BeginCall(c) ==
  /\ pc = "idle"
  /\ call' = c /\ tries' = 0 /\ evidence' = "none" /\ adrift' = {}
  /\ IF c.quoted \/ c.runner = "ssh" THEN pc' = "starting" /\ rc' = -1
     ELSE IF c.runner = "k8s" THEN pc' = "raised" /\ rc' = -1
     ELSE pc' = "done" /\ rc' = NOT_FOUND_RC
  /\ UNCHANGED alive

(* The end of an attempt: for _attempt in range(retries + 1).               *)
AttemptEndsAlwaysRetries(code, how, retried) ==  \* mutant: a timeout is retried
  /\ rc' = code /\ evidence' = how
  /\ tries' = tries + 1
  /\ pc' = IF code # 0 /\ tries + 1 <= call.retries THEN "starting" ELSE "done"

AttemptEndsUncounted(code, how, retried) ==  \* mutant: while not result.ok
  /\ rc' = code /\ evidence' = how
  /\ UNCHANGED tries
  /\ pc' = IF code # 0 /\ retried THEN "starting" ELSE "done"

AttemptEnds(code, how, retried) ==
  /\ rc' = code /\ evidence' = how
  /\ tries' = tries + 1
  /\ pc' = IF code # 0 /\ retried /\ tries + 1 <= call.retries
           THEN "starting" ELSE "done"

(* OSError at spawn, or asyncssh cannot connect.                            *)
SpawnFails ==
  /\ pc = "starting"
  /\ AttemptEnds(NOT_FOUND_RC, "none", TRUE)
  /\ UNCHANGED <<call, alive, adrift>>

Spawn ==
  /\ pc = "starting" /\ pc' = "running"
  /\ alive' = alive + 1
  /\ UNCHANGED <<call, tries, rc, evidence, adrift>>

Exits(code) ==
  /\ pc = "running"
  /\ alive' = alive - 1
  /\ AttemptEnds(code, "exit", TRUE)
  /\ UNCHANGED <<call, adrift>>

(* The connection ends under the command: an asyncssh.Error, or a channel   *)
(* closed without an exit status, which `exit_status or 0' makes a success. *)
ConnectionLost ==
  /\ pc = "running" /\ call.runner = "ssh"
  /\ alive' = alive - 1
  /\ adrift' = adrift \cup {"lost"}
  /\ \/ AttemptEnds(NOT_FOUND_RC, "none", TRUE)
     \/ AttemptEnds(0, "silence", TRUE)
  /\ UNCHANGED call

TimeOutForgetsChild ==  \* mutant: the child is neither killed nor awaited
  /\ pc = "running" /\ call.bounded
  /\ alive' = alive - 1
  /\ adrift' = adrift \cup {"timed out"}
  /\ AttemptEnds(TIMEOUT_RC, "none", call.again)
  /\ UNCHANGED call

(* A local child is killed.  The SSH timeout spans connect and run, and     *)
(* connecting has a timeout of its own; the connection is closed, which is  *)
(* not known to stop the remote command.                                    *)
TimeOut ==
  /\ call.bounded \/ (call.runner = "ssh" /\ pc = "starting")
  /\ \/ /\ call.runner \in Local /\ pc = "running"
        /\ pc' = "killing"
        /\ UNCHANGED <<tries, rc, evidence, alive, adrift>>
     \/ /\ call.runner = "ssh" /\ pc \in {"starting", "running"}
        /\ alive' = 0
        /\ adrift' = IF pc = "running" THEN adrift \cup {"timed out"} ELSE adrift
        /\ AttemptEnds(TIMEOUT_RC, "none", FALSE)
  /\ UNCHANGED call

(* wait() reaps the child, and only then is the attempt over.               *)
Reap ==
  /\ pc = "killing"
  /\ alive' = alive - 1
  /\ AttemptEnds(TIMEOUT_RC, "none", call.again)
  /\ UNCHANGED <<call, adrift>>

(* The task that awaits the call is cancelled: nothing stops the process.   *)
CancelCall ==
  /\ pc \in {"starting", "running", "killing"} /\ call.runner # "sync"
  /\ pc' = "idle" /\ alive' = 0
  /\ adrift' = IF pc = "running" THEN adrift \cup {"cancelled"} ELSE adrift
  /\ UNCHANGED <<call, tries, rc, evidence>>

(* The caller takes the result.                                             *)
CollectResult ==
  /\ pc \in {"done", "raised"} /\ pc' = "idle"
  /\ UNCHANGED <<call, tries, rc, evidence, alive, adrift>>

CommandStep ==
  \/ SpawnFails \/ Spawn \/ ConnectionLost \/ TimeOut \/ Reap
  \/ \E code \in ExitCodes : Exits(code)

(* The clock, the kernel and the network layer; whether a command ever      *)
(* ends by itself is not up to Spero.                                       *)
CommandFairness ==
  /\ WF_commandVars(SpawnFails \/ Spawn)
  /\ WF_commandVars(TimeOut)
  /\ WF_commandVars(Reap)

-----------------------------------------------------------------------------
(* "kill + wait reaps the child" (command.py:181-182): an attempt starts    *)
(* when no process of an earlier one is left, on the local host, and a call *)
(* that comes to its end leaves none behind, however often it timed out.    *)
NothingLeftBehind ==
  call.runner \in Local =>
    /\ pc \in {"starting", "done"} => alive = 0
    /\ adrift \subseteq {"cancelled"}

(* "A timeout is not retried by default (re-running a slow command          *)
(* amplifies load on a struggling host)" and a command "stops on the first  *)
(* success" (command.py:19-21), for all three loops.                        *)
SlowNotRerun ==
  [][ pc' = "starting" /\ pc # "idle"
        => rc' # 0 /\ (rc' = TIMEOUT_RC /\ evidence' = "none" => call.again) ]_commandVars

(* A call with a timeout comes to its end though its command hangs.         *)
CallReturns == pc \in {"starting", "running", "killing"} /\ call.bounded
                 ~> pc \in {"idle", "done", "raised"}
=============================================================================
