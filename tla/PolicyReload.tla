---------------------------- MODULE PolicyReload ----------------------------
(***************************************************************************)
(* How `spero watch' picks up edits of its policy file: core/policy.py     *)
(* PolicyReloader, the reload loop of core/watch.py and its start in       *)
(* cli.py.  An editor, another process, writes the file at any moment, also *)
(* between the stat and the read of one poll; SIGHUP and the stop signals  *)
(* are seen by the event loop while the reload loop waits.                 *)
(***************************************************************************)
EXTENDS Integers

CONSTANTS
  Contents,      \* what the file may hold
  Policies,      \* the contents that load
  Rejected,      \* those whose load ends in OSError, YAMLError or ValidationError;
                 \* any other content raises something else
  Empty,         \* what a shell redirection leaves before it writes
  Nothing,       \* no file; no write or candidate under way
  MaxStamp,      \* bound on the number of writes
  OnChange,      \* --reload-on-change
  StartupEdits   \* whether the file may be written before the reloader exists

ASSUME PolicyReloadAssumption ==
  /\ Policies \subseteq Contents /\ Rejected \subseteq Contents
  /\ Policies \cap Rejected = {}
  /\ Empty \in Rejected /\ Nothing \notin Contents
  /\ MaxStamp \in Nat
  /\ OnChange \in BOOLEAN /\ StartupEdits \in BOOLEAN

VARIABLES
  content,    \* what the file holds, or Nothing
  stamp,      \* grows with every write: it stands for (mtime, size, inode)
  writing,    \* the content a redirection is still writing
  inForce,    \* the policy in force
  loaded,     \* self._loaded
  seen,       \* self._seen
  pc,         \* where the reload loop is
  force,      \* its local variable
  candidate,  \* the policy being applied
  hup,        \* reload_now
  stop,       \* the stop event
  age,        \* history: polls since the last write, up to 2
  fetched,    \* history: the stamp of the file at the latest read
  owed        \* history: the stamp of the file at the latest SIGHUP

fileVars == <<content, stamp, writing>>
readerVars == <<inForce, loaded, seen, pc, force, candidate, fetched>>
vars == <<fileVars, readerVars, hup, stop, age, owed>>

Alive == pc \notin {"dead", "stopped"}

(* stat: a missing file has no signature, here 0.                           *)
Signature == IF content = Nothing THEN 0 ELSE stamp

TypeOK ==
  /\ content \in Contents \cup {Nothing} /\ writing \in Contents \cup {Nothing}
  /\ stamp \in 1 .. MaxStamp + 1
  /\ inForce \in Policies /\ candidate \in Policies \cup {Nothing}
  /\ loaded \in 0 .. MaxStamp + 1 /\ seen \in 0 .. MaxStamp + 1
  /\ pc \in {"starting", "waiting", "reading", "applying", "dead", "stopped"}
  /\ force \in BOOLEAN /\ hup \in BOOLEAN /\ stop \in BOOLEAN
  /\ age \in 0 .. 2
  /\ fetched \in 1 .. MaxStamp + 1
  /\ owed \in 1 .. MaxStamp + 1
  /\ pc = "applying" => candidate \in Policies

(* The command has read the file and found a policy; anything else ends it  *)
(* before there is anything to reload.                                      *)
Init ==
  /\ content \in Policies /\ inForce = content
  /\ stamp = 1 /\ fetched = 1 /\ owed = 1
  /\ writing = Nothing /\ candidate = Nothing
  /\ loaded = 0 /\ seen = 0
  /\ pc = "starting" /\ force = FALSE
  /\ hup = FALSE /\ stop = FALSE /\ age = 0

-----------------------------------------------------------------------------
(* The editor.                                                              *)

Store(c) ==
  /\ stamp <= MaxStamp
  /\ StartupEdits \/ pc # "starting"
  /\ content' = c
  /\ stamp' = stamp + 1
  /\ age' = 0
  /\ UNCHANGED <<readerVars, hup, stop, owed>>

(* An editor that renames a new file into place, or removes the file.       *)
Replace(c) == writing = Nothing /\ Store(c) /\ UNCHANGED writing

(* A redirection truncates, writes some of the lines, then the rest.        *)
Truncate(c) == writing = Nothing /\ Store(Empty) /\ writing' = c

WriteSome(c) == writing # Nothing /\ Store(c) /\ UNCHANGED writing

WriteRest == writing # Nothing /\ Store(writing) /\ writing' = Nothing

-----------------------------------------------------------------------------
(* The daemon.                                                              *)

(* PolicyReloader.__init__, some time after the file was read.              *)
Construct ==
  /\ pc = "starting" /\ pc' = "waiting"
  /\ loaded' = Signature /\ seen' = Signature
  /\ UNCHANGED <<fileVars, inForce, force, candidate, fetched, hup,
                 stop, age, owed>>

Hangup ==
  /\ Alive /\ pc # "starting"
  /\ hup' = TRUE /\ owed' = stamp
  /\ UNCHANGED <<fileVars, readerVars, stop, age>>

StopSignal ==
  /\ Alive
  /\ stop' = TRUE
  /\ UNCHANGED <<fileVars, readerVars, hup, age, owed>>

(* _stop_or_wake returns: a stop goes first, and a pending SIGHUP is taken  *)
(* before the file is looked at.                                            *)
SeeStop ==
  /\ pc = "waiting" /\ stop
  /\ pc' = "stopped"
  /\ UNCHANGED <<fileVars, inForce, loaded, seen, force, candidate,
                 fetched, hup, stop, age, owed>>

(* The rest of the loop's turn and the stat of poll.  A signature that held *)
(* since the previous poll is settled; SIGHUP reads at once.                *)
AlwaysSettled == TRUE                             \* mutant
Settled == Signature = seen

PollReads == hup \/ (OnChange /\ Signature # loaded /\ Settled)

(* Mutant: a signature is handled once seen, settled or not.                *)
PollMarksUnread ==
  /\ pc = "waiting" /\ ~ stop
  /\ force' = hup /\ hup' = FALSE
  /\ seen' = Signature
  /\ pc' = IF PollReads THEN "reading" ELSE "waiting"
  /\ loaded' = Signature
  /\ age' = IF age < 2 THEN age + 1 ELSE 2
  /\ UNCHANGED <<fileVars, inForce, candidate, fetched, stop, owed>>

(* Mutant: only a file that loads is marked as handled.                     *)
PollMarksGood ==
  /\ pc = "waiting" /\ ~ stop
  /\ force' = hup /\ hup' = FALSE
  /\ seen' = Signature
  /\ pc' = IF PollReads THEN "reading" ELSE "waiting"
  /\ loaded' = IF PollReads /\ content \in Policies THEN Signature ELSE loaded
  /\ age' = IF age < 2 THEN age + 1 ELSE 2
  /\ UNCHANGED <<fileVars, inForce, candidate, fetched, stop, owed>>

Poll ==
  /\ pc = "waiting" /\ ~ stop
  /\ force' = hup /\ hup' = FALSE
  /\ seen' = Signature
  /\ pc' = IF PollReads THEN "reading" ELSE "waiting"
  /\ loaded' = IF PollReads THEN Signature ELSE loaded
  /\ age' = IF age < 2 THEN age + 1 ELSE 2
  /\ UNCHANGED <<fileVars, inForce, candidate, fetched, stop, owed>>

(* Mutant: a file left empty loads as a policy, as load_policy would have it. *)
AfterReadTakesEmpty ==
  IF content \in Policies \cup {Empty} THEN "applying"
  ELSE IF content \in Rejected \cup {Nothing} THEN "waiting"
  ELSE "dead"

(* Where reading the file leaves the loop: a policy to apply, an error for  *)
(* on_reload, or an exception nothing catches, which ends watch().          *)
AfterRead ==
  IF content \in Policies THEN "applying"
  ELSE IF content \in Rejected \cup {Nothing} THEN "waiting"
  ELSE "dead"

Read ==
  /\ pc = "reading" /\ pc' = AfterRead
  /\ candidate' = IF content \in Policies THEN content ELSE Nothing
  /\ fetched' = stamp
  /\ UNCHANGED <<fileVars, inForce, loaded, seen, force, hup, stop,
                 age, owed>>

(* Mutant: the request is cleared when it has been served.                  *)
ApplyThenClear ==
  /\ pc = "applying" /\ pc' = "waiting"
  /\ inForce' = candidate
  /\ candidate' = Nothing
  /\ hup' = FALSE
  /\ UNCHANGED <<fileVars, loaded, seen, force, fetched, stop, age, owed>>

(* apply_policy may wait for the lock and the alert channel before this     *)
(* step; the file and the signals go on meanwhile.                          *)
ApplyPolicy ==
  /\ pc = "applying" /\ pc' = "waiting"
  /\ inForce' = candidate
  /\ candidate' = Nothing
  /\ UNCHANGED <<fileVars, loaded, seen, force, fetched, hup, stop, age, owed>>

Next ==
  \/ \E c \in Contents \cup {Nothing} : Replace(c)
  \/ \E c \in Contents : Truncate(c) \/ WriteSome(c)
  \/ WriteRest
  \/ Construct \/ Hangup \/ StopSignal
  \/ SeeStop \/ Poll \/ Read \/ ApplyPolicy

Spec == Init /\ [][Next]_vars

(* The wait ends after poll_interval at the latest, and nothing else in the *)
(* loop waits for ever.  Nothing is assumed of the editor or the operator.  *)
Fairness ==
  /\ WF_vars(Construct) /\ WF_vars(SeeStop) /\ WF_vars(Poll)
  /\ WF_vars(Read) /\ WF_vars(ApplyPolicy)

FairSpec == Spec /\ Fairness

-----------------------------------------------------------------------------
(* A SIGHUP is honoured by a read that begins after it, whenever it comes:  *)
(* the loop is never back in its wait, with no request pending, on a policy *)
(* read before the latest request (watch.py:151-152 clears the event before *)
(* it polls).                                                               *)
HangupHonoured == pc = "waiting" /\ ~ hup => fetched >= owed

(* "only reads once that signature has held for two polls in a row"         *)
(* (policy.py:41-42): unless a SIGHUP asked for it or the file has changed  *)
(* since the stat, what is about to be read has stood for two polls.        *)
SettledBeforeRead ==
  pc = "reading" /\ ~ force /\ loaded = stamp => age = 2

(* _loaded is "what the running policy was read from" (policy.py:50): a     *)
(* file the reloader takes for handled has been read as it now is.  An edit *)
(* between the read at startup and the construction of the reloader is      *)
(* taken for handled unread, hence the condition.                           *)
HandledIsRead ==
  ~ StartupEdits => (pc \in {"waiting", "applying"} /\ loaded = stamp => fetched = stamp)

(* Once requests cease the loop comes to rest, whatever the file holds: it  *)
(* does not report a bad file on every poll (policy.py:67-68), and a file   *)
(* that rests on a policy has that policy in force (policy.py:40).          *)
Converges ==
  OnChange /\ ~ StartupEdits /\ <>[](~ hup) =>
    <>[](Alive => pc = "waiting" /\ (content \in Policies => inForce = content))

(* "A file that fails to load never stops supervision" (watch.py:136).      *)
KeepsSupervising == pc # "dead"
=============================================================================
