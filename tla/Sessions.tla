------------------------------ MODULE Sessions ------------------------------
(* The two tables that keep a session: ConsoleManager.sessions, which holds   *)
(* what exists, and the registry of SessionManager, which supervises it:      *)
(* creation with its retries, one-shot commands, stopping, the resource       *)
(* monitor, pause and resume, the health check, automatic recovery with its   *)
(* two timers, cleanup, and the file the registry is written to and read from *)
(* at start.                                                                  *)
(*                                                                            *)
(* The awaits on the registry's own methods resume in the same turn of the    *)
(* event loop (their bodies are synchronous), so a registry operation is one  *)
(* action; a step ends where a protocol, a timer or error recovery is awaited.*)
EXTENDS Naturals, FiniteSets

CONSTANTS
    Ids,                  \* session ids
    NoId,
    Typings,              \* bound: types the sessions may have, functions from Ids to Types
    MaxConsole,           \* ConsoleManager.maxSessions, 50
    MaxSessions,          \* SessionManagerConfig.maxSessions, 100 by default
    MaxRecoveryAttempts,  \* recoveryOptions.maxRecoveryAttempts, 3 by default
    MaxTries,             \* attempts of executeWithRetry for create_session
    MaxTimers,            \* bound: recovery timers pending when a call changes a status
    MaxRestarts,          \* bound: restarts of the program
    MaxUnsaved            \* bound: sessions the file is behind about when a write fails

ASSUME SessionsAssumption ==
    /\ IsFiniteSet(Ids) /\ NoId \notin Ids
    /\ Typings \subseteq [Ids -> {"local", "ssh", "other"}]
    /\ MaxConsole \in Nat \ {0} /\ MaxSessions \in Nat \ {0}
    /\ MaxRecoveryAttempts \in Nat /\ MaxTries \in Nat \ {0}
    /\ MaxTimers \in Nat /\ MaxRestarts \in Nat /\ MaxUnsaved \in Nat

VARIABLES
    console,   \* ConsoleManager.sessions: the status of each session in it
    call,      \* the createSession or executeCommand call that made the session
    type,      \* the type each session has when it is made
    registry,  \* SessionManager.sessions
    timers,    \* recovery timers of each session, running
    disk,      \* the file at persistencePath; one that cannot be parsed holds no entry
    unsaved,   \* ids whose last write failed: the file may be behind about them
    old,       \* ids that were in the file at the last start, not updated since
    restarts   \* restarts so far

vars == <<console, call, type, registry, timers, disk, unsaved, old, restarts>>

Absent == [status |-> "absent", attempts |-> 0]
NewEntry == [status |-> "initializing", attempts |-> 0]
NoCall == [pc |-> "none", tries |-> 0, oneShot |-> FALSE, parent |-> NoId]
NoTimers == [delay |-> 0, check |-> 0]

Entry == [status : {"absent", "initializing", "running", "paused", "stopped", "failed",
                    "recovering"},
          attempts : 0..MaxRecoveryAttempts]
Call == [pc : {"none", "connecting", "failing", "waiting", "executing"},
         tries : 0..MaxTries, oneShot : BOOLEAN, parent : Ids \cup {NoId}]

(* "ended" is the status stopped of a session whose protocol session is known *)
(* (its process has ended), "stopped" the one of a session without.           *)
TypeOK ==
    /\ console \in [Ids -> {"none", "initializing", "running", "ended", "stopped", "crashed"}]
    /\ call \in [Ids -> Call]
    /\ type \in Typings
    /\ registry \in [Ids -> Entry] /\ disk \in [Ids -> Entry]
    /\ timers \in [Ids -> [delay : Nat, check : Nat]]
    /\ old \subseteq Ids /\ unsaved \subseteq Ids
    /\ restarts \in 0..MaxRestarts

Consoles == {s \in Ids : console[s] # "none"}
Registered == {s \in Ids : registry[s].status # "absent"}

Pending(s) == timers[s].delay + timers[s].check

(* The bound on timers, for calls that can lengthen a chain of recoveries.    *)
FewTimers(s) == s # NoId => Pending(s) < MaxTimers

Init ==
    /\ console = [s \in Ids |-> "none"]
    /\ call = [s \in Ids |-> NoCall]
    /\ type \in Typings
    /\ registry = [s \in Ids |-> Absent] /\ disk = [s \in Ids |-> Absent]
    /\ timers = [s \in Ids |-> NoTimers]
    /\ old = {} /\ unsaved = {} /\ restarts = 0

(* An id nothing refers to stands for one that uuidv4 has yet to return. *)
Fresh(s) ==
    /\ console[s] = "none" /\ call[s] = NoCall /\ timers[s] = NoTimers
    /\ registry[s] = Absent /\ disk[s] = Absent
    /\ \A t \in Ids : call[t].parent # s

(* --------------------------------------------------------------------------*)
(* The registry. tm is what the timers are without the effect of the call.    *)

(* An empty file, or one cut short: loadSessions gets nothing out of it. *)
Unreadable == [s \in Ids |-> Absent]

(* The bounds on failing writes; none fails when the file is not to be read   *)
(* again.                                                                     *)
WritesMayFail == restarts < MaxRestarts /\ Cardinality(unsaved) < MaxUnsaved

(* persistSessions, called after every change but those of the recovery       *)
(* check, by a change to the entries of S. An error of writeFileSync is       *)
(* caught and forgotten: the file is left as it was or, as it is truncated    *)
(* before it is written, without its contents. A process that dies after the  *)
(* change and before the write, or while writing, does the same, and Restart. *)
Persisted(S) ==
    \/ disk' = registry' /\ unsaved' = {}
    \/ WritesMayFail /\ unsaved' = unsaved \cup S /\ UNCHANGED disk
    \/ WritesMayFail /\ unsaved' = Registered' /\ disk' = Unreadable

(* Mutant: one attempt more than there are. *)
FailedPastLimit(e) ==
    IF e.attempts <= MaxRecoveryAttempts
    THEN [status |-> "recovering", attempts |-> e.attempts + 1]
    ELSE [e EXCEPT !.status = "failed"]

(* Mutant: a session is given up one attempt early. *)
FailedOffByOne(e) ==
    IF e.attempts + 1 < MaxRecoveryAttempts
    THEN [status |-> "recovering", attempts |-> e.attempts + 1]
    ELSE [e EXCEPT !.status = "failed"]

(* attemptSessionRecovery, as called by updateSessionStatus(failed): another  *)
(* attempt while there are any left.                                          *)
Failed(e) ==
    IF e.attempts < MaxRecoveryAttempts
    THEN [status |-> "recovering", attempts |-> e.attempts + 1]
    ELSE [e EXCEPT !.status = "failed"]

(* Mutant: no timer is set for the attempt. *)
UpdateSessionStatusUntimed(s, status, tm) ==
    /\ s \in Registered
    /\ registry' = [registry EXCEPT ![s] =
           IF status = "failed" THEN Failed(@) ELSE [@ EXCEPT !.status = status]]
    /\ timers' = tm
    /\ old' = old \ {s} /\ Persisted({s})

(* updateSessionStatus of a session in the registry; for any other it throws. *)
UpdateSessionStatus(s, status, tm) ==
    /\ s \in Registered
    /\ registry' = [registry EXCEPT ![s] =
           IF status = "failed" THEN Failed(@) ELSE [@ EXCEPT !.status = status]]
    /\ timers' = IF status = "failed" /\ registry[s].attempts < MaxRecoveryAttempts
                 THEN [tm EXCEPT ![s].delay = @ + 1] ELSE tm
    /\ old' = old \ {s} /\ Persisted({s})

(* A status for a session that may have left the registry. *)
TellRegistry(s, status, tm) ==
    \/ UpdateSessionStatus(s, status, tm)
    \/ s \notin Registered /\ timers' = tm /\ UNCHANGED <<registry, disk, unsaved, old>>

RegistryFull == Cardinality(Registered) >= MaxSessions

(* registerSession: the entry is made anew, also when the id has one. *)
RegisterSession(s, tm) ==
    /\ ~ RegistryFull
    /\ registry' = [registry EXCEPT ![s] = NewEntry]
    /\ timers' = tm /\ old' = old \ {s} /\ Persisted({s})

(* --------------------------------------------------------------------------*)
(* Creation.                                                                  *)

(* createSessionInternal up to its await on the protocol. A full registry     *)
(* throws; the catch block reports the failure to the registry, which throws  *)
(* too when it has no such session, and the entry in the console's table is   *)
(* left as it is.                                                             *)
CreateSessionInternal(s, made, tm) ==
    \/ /\ RegisterSession(s, tm)
       /\ console' = [console EXCEPT ![s] = "initializing"]
       /\ call' = [call EXCEPT ![s] = [made EXCEPT !.pc = "connecting"]]
    \/ /\ RegistryFull /\ TellRegistry(s, "failed", tm)
       /\ console' = [console EXCEPT ![s] = IF s \in Registered THEN "crashed"
                                            ELSE "initializing"]
       /\ call' = [call EXCEPT ![s] = [made EXCEPT !.pc = "failing"]]

RoomForSession == Cardinality(Consoles) < MaxConsole

(* createSession. *)
CreateSession(s) ==
    /\ Fresh(s) /\ RoomForSession
    /\ CreateSessionInternal(s, [NoCall EXCEPT !.tries = 1], timers)
    /\ UNCHANGED <<type, restarts>>

(* executeCommand: a one-shot session, neither limited nor retried. *)
ExecuteCommand(s) ==
    /\ Fresh(s)
    /\ CreateSessionInternal(s, [NoCall EXCEPT !.tries = 1, !.oneShot = TRUE], timers)
    /\ UNCHANGED <<type, restarts>>

(* The protocol made its session. A call made by a recovery tells the         *)
(* registry that the session it recovers runs.                                *)
Connected(s) ==
    /\ call[s].pc = "connecting" /\ FewTimers(call[s].parent)
    /\ console' = [console EXCEPT ![s] = "running"]
    /\ call' = [call EXCEPT ![s] = IF @.oneShot THEN [@ EXCEPT !.pc = "executing"]
                                   ELSE NoCall]
    /\ IF call[s].parent = NoId THEN UNCHANGED <<registry, timers, disk, unsaved, old>>
       ELSE TellRegistry(call[s].parent, "running", timers)
    /\ UNCHANGED <<type, restarts>>

(* Mutant: the registry is told without writing its file. *)
ConnectFailsUnsaved(s) ==
    /\ call[s].pc = "connecting" /\ FewTimers(s) /\ s \in Registered
    /\ console' = [console EXCEPT ![s] = "crashed"]
    /\ call' = [call EXCEPT ![s].pc = "failing"]
    /\ registry' = [registry EXCEPT ![s] = Failed(@)]
    /\ timers' = IF registry[s].attempts < MaxRecoveryAttempts
                 THEN [timers EXCEPT ![s].delay = @ + 1] ELSE timers
    /\ old' = old \ {s}
    /\ UNCHANGED <<disk, unsaved, type, restarts>>

(* The protocol failed: the registry hears of it, which starts a recovery,    *)
(* and handleSessionError is awaited.                                         *)
ConnectFails(s) ==
    /\ call[s].pc = "connecting" /\ FewTimers(s)
    /\ TellRegistry(s, "failed", timers)
    /\ console' = IF s \in Registered THEN [console EXCEPT ![s] = "crashed"] ELSE console
    /\ call' = [call EXCEPT ![s].pc = "failing"]
    /\ UNCHANGED <<type, restarts>>

(* executeWithRetry: onRetry removes what is left of the session ... *)
Retry(s) ==
    /\ call[s].pc = "failing" /\ ~ call[s].oneShot /\ call[s].tries < MaxTries
    /\ console' = [console EXCEPT ![s] = "none"]
    /\ call' = [call EXCEPT ![s].pc = "waiting"]
    /\ UNCHANGED <<type, registry, timers, disk, unsaved, old, restarts>>

(* ... and after the delay the same id is created again, whatever the limit. *)
RetryStarts(s) ==
    /\ call[s].pc = "waiting" /\ (RegistryFull => FewTimers(s))
    /\ CreateSessionInternal(s, [call[s] EXCEPT !.tries = @ + 1], timers)
    /\ UNCHANGED <<type, restarts>>

(* The error is not retried, or no try is left: the call rejects. A recovery  *)
(* reports it.                                                                *)
GiveUp(s) ==
    /\ call[s].pc = "failing"
    /\ FewTimers(call[s].parent)
    /\ call' = [call EXCEPT ![s] = NoCall]
    /\ IF call[s].parent = NoId THEN UNCHANGED <<registry, timers, disk, unsaved, old>>
       ELSE TellRegistry(call[s].parent, "failed", timers)
    /\ UNCHANGED <<console, type, restarts>>

(* --------------------------------------------------------------------------*)
(* The life of a session.                                                     *)

(* The answer or the timeout of a one-shot command: cleanupSession. *)
OneShotEnds(s) ==
    /\ call[s].pc = "executing"
    /\ console' = [console EXCEPT ![s] = "none"]
    /\ call' = [call EXCEPT ![s] = NoCall]
    /\ UNCHANGED <<type, registry, timers, disk, unsaved, old, restarts>>

(* sendInput rejects: executeCommand throws and leaves the session. *)
OneShotInputFails(s) ==
    /\ call[s].pc = "executing"
    /\ call' = [call EXCEPT ![s] = NoCall]
    /\ UNCHANGED <<console, type, registry, timers, disk, unsaved, old, restarts>>

(* 'session-closed' of the protocol. *)
ProcessEnds(s) ==
    /\ console[s] = "running"
    /\ console' = [console EXCEPT ![s] = "ended"]
    /\ UNCHANGED <<call, type, registry, timers, disk, unsaved, old, restarts>>

(* stopSession: a session with a protocol session is closed and removed, one  *)
(* without is marked. The registry hears of neither.                          *)
StopSession(s) ==
    /\ console[s] # "none"
    /\ console' = [console EXCEPT ![s] = IF @ \in {"running", "ended"} THEN "none"
                                         ELSE "stopped"]
    /\ UNCHANGED <<call, type, registry, timers, disk, unsaved, old, restarts>>

(* startResourceMonitor: what has not run for five minutes is removed. *)
ResourceMonitor(s) ==
    /\ console[s] \notin {"none", "running"}
    /\ console' = [console EXCEPT ![s] = "none"]
    /\ UNCHANGED <<call, type, registry, timers, disk, unsaved, old, restarts>>

(* pauseSession, whatever the status. *)
PauseSession(s) ==
    /\ UpdateSessionStatus(s, "paused", timers)
    /\ UNCHANGED <<console, call, type, restarts>>

ResumeSession(s) ==
    /\ registry[s].status = "paused" /\ FewTimers(s)
    /\ UpdateSessionStatus(s, "running", timers)
    /\ UNCHANGED <<console, call, type, restarts>>

(* performHealthCheck: a running session with a low score fails, one past     *)
(* sessionTimeout is stopped.                                                 *)
HealthCheck(s) ==
    /\ registry[s].status = "running"
    /\ \/ FewTimers(s) /\ UpdateSessionStatus(s, "failed", timers)
       \/ UpdateSessionStatus(s, "stopped", timers)
    /\ UNCHANGED <<console, call, type, restarts>>

(* performCleanup and unregisterSession: an old or inactive entry goes. *)
UnregisterSession(s) ==
    /\ s \in Registered
    /\ registry' = [registry EXCEPT ![s] = Absent]
    /\ old' = old \ {s} /\ Persisted({s})
    /\ UNCHANGED <<console, call, type, timers, restarts>>

(* The persistence timer. *)
PersistSessions ==
    /\ UNCHANGED <<console, call, type, registry, timers, old, restarts>>
    /\ Persisted({})

(* --------------------------------------------------------------------------*)
(* Recovery: two timers, and the handler of 'sessionRecoveryAttempt'.         *)

(* A check fires at most 5 s after it is set and a delay is at least as long: *)
(* checks do not pile up.                                                     *)
AttemptDue(s) == timers[s].delay > 0 /\ timers[s].check < MaxTimers
AttemptMade(s) ==
    [timers EXCEPT ![s] = [delay |-> @.delay - 1, check |-> @.check + 1]]

(* A local session is created again under a new id, also when the old one has *)
(* been stopped, created after all or forgotten meanwhile. *)
RecoverLocalSession(s, n) ==
    /\ AttemptDue(s) /\ type[s] = "local" /\ type[n] = "local"
    /\ Fresh(n) /\ n # s /\ RoomForSession
    /\ CreateSessionInternal(n, [NoCall EXCEPT !.tries = 1, !.parent = s], AttemptMade(s))
    /\ UNCHANGED <<type, restarts>>

(* createSession rejects at once (the limit, an open breaker), or the session *)
(* is an SSH one: the attempt has failed.                                     *)
RecoveryRefused(s) ==
    /\ AttemptDue(s) /\ type[s] # "other"
    /\ TellRegistry(s, "failed", AttemptMade(s))
    /\ UNCHANGED <<console, call, type, restarts>>

(* For other types the handler does nothing. *)
RecoveryIgnored(s) ==
    /\ AttemptDue(s) /\ type[s] = "other"
    /\ timers' = AttemptMade(s)
    /\ UNCHANGED <<console, call, type, registry, disk, unsaved, old, restarts>>

RecoveryAttempt(s) ==
    RecoveryRefused(s) \/ RecoveryIgnored(s) \/ \E n \in Ids : RecoverLocalSession(s, n)

CheckDone(s) == [timers EXCEPT ![s].check = @ - 1]

(* Mutant: an attempt that was not answered is not followed by another. *)
StillRecoveringGivesUp(s) ==
    /\ timers[s].check > 0 /\ registry[s].status = "recovering"
    /\ timers' = CheckDone(s)
    /\ UNCHANGED <<console, call, type, registry, disk, unsaved, old, restarts>>

(* The check finds the session still recovering: failed after the last        *)
(* attempt, another attempt before; the latter is not written to the file.    *)
StillRecovering(s) ==
    /\ timers[s].check > 0 /\ registry[s].status = "recovering"
    /\ IF registry[s].attempts >= MaxRecoveryAttempts
       THEN UpdateSessionStatus(s, "failed", CheckDone(s))
       ELSE /\ registry' = [registry EXCEPT ![s] = Failed(@)]
            /\ timers' = [CheckDone(s) EXCEPT ![s].delay = @ + 1]
            /\ old' = old \ {s} /\ UNCHANGED <<disk, unsaved>>
    /\ UNCHANGED <<console, call, type, restarts>>

(* The check finds it running: its attempts are forgotten. *)
HasRecovered(s) ==
    /\ timers[s].check > 0 /\ registry[s].status = "running"
    /\ registry' = [registry EXCEPT ![s].attempts = 0]
    /\ timers' = CheckDone(s)
    /\ UNCHANGED <<console, call, type, disk, unsaved, old, restarts>>

(* The check finds anything else: this chain of attempts ends. *)
RecoveryOver(s) ==
    /\ timers[s].check > 0 /\ registry[s].status \notin {"recovering", "running"}
    /\ timers' = CheckDone(s)
    /\ UNCHANGED <<console, call, type, registry, disk, unsaved, old, restarts>>

RecoveryCheck(s) == StillRecovering(s) \/ HasRecovered(s) \/ RecoveryOver(s)

(* The program ends at any moment and is started again: loadSessions reads    *)
(* the entries that are not too old, none when the file cannot be parsed, and *)
(* marks the running ones as recovering; no timer is set for them.            *)
Restart ==
    /\ restarts < MaxRestarts
    /\ restarts' = restarts + 1
    /\ \E kept \in SUBSET {s \in Ids : disk[s].status # "absent"} :
           registry' = [s \in Ids |->
               IF s \notin kept THEN Absent
               ELSE IF disk[s].status = "running"
               THEN [status |-> "recovering", attempts |-> 0]
               ELSE disk[s]]
    /\ old' = {s \in Ids : disk[s].status # "absent"} /\ unsaved' = {}
    /\ console' = [s \in Ids |-> "none"]
    /\ call' = [s \in Ids |-> NoCall]
    /\ timers' = [s \in Ids |-> NoTimers]
    /\ UNCHANGED <<type, disk>>

Creation(s) ==
    \/ CreateSession(s) \/ ExecuteCommand(s)
    \/ Connected(s) \/ ConnectFails(s) \/ Retry(s) \/ RetryStarts(s) \/ GiveUp(s)
    \/ OneShotEnds(s) \/ OneShotInputFails(s)
Life(s) ==
    \/ ProcessEnds(s) \/ StopSession(s) \/ ResourceMonitor(s)
    \/ PauseSession(s) \/ ResumeSession(s) \/ HealthCheck(s) \/ UnregisterSession(s)

Next ==
    \/ \E s \in Ids : Creation(s) \/ Life(s) \/ RecoveryAttempt(s) \/ RecoveryCheck(s)
    \/ PersistSessions \/ Restart

Spec == Init /\ [][Next]_vars

(* Timers fire. Nothing is assumed of callers, protocols and processes. *)
Fairness == \A s \in Ids : WF_vars(RecoveryAttempt(s)) /\ WF_vars(RecoveryCheck(s))
FairSpec == Spec /\ Fairness

(* --------------------------------------------------------------------------*)
(* Properties.                                                                *)

(* The registry never holds more than maxSessions entries, whatever the       *)
(* recoveries of its own entries add to it.                                   *)
RegistryBounded == Cardinality(Registered) <= MaxSessions

(* A session is given up (failed) only when its attempts are used up, however *)
(* many chains of attempts, pauses, re-registrations and restarts overlap.    *)
FailedOnlyWhenExhausted ==
    \A s \in Ids : registry[s].status = "failed" => registry[s].attempts >= MaxRecoveryAttempts

(* No recovery is forgotten: a session that is recovering has a timer that    *)
(* will look at it again, unless it is an entry read from the file.           *)
RecoveringIsDriven ==
    \A s \in Ids : registry[s].status = "recovering" => Pending(s) > 0 \/ s \in old

(* The file holds the status of every session touched since the last start,   *)
(* but for those whose own last write failed: no change but the attempt       *)
(* counters is kept from it, and a failed write harms no other session unless *)
(* it cut the file short.                                                     *)
FileIsCurrent == \A s \in Ids \ (old \cup unsaved) : disk[s].status = registry[s].status

(* A restart neither resurrects a session nor gives it a status of the past:  *)
(* whatever moment the program ended at, a session is forgotten or comes back *)
(* as it was, a running one as recovering. Excepted are the sessions whose    *)
(* last write failed or was never made, and those no change was written about *)
(* since the start before.                                                    *)
RestartRestores ==
    [][restarts' # restarts =>
         \A s \in Ids \ (old \cup unsaved) :
             \/ registry'[s].status \in {"absent", registry[s].status}
             \/ registry[s].status = "running" /\ registry'[s].status = "recovering"]_vars

(* Recovery comes to an end: running, given up, or replaced by an operation   *)
(* of a user; an SSH session, a failing command and overlapping chains        *)
(* included.                                                                  *)
RecoveryEnds ==
    \A s \in Ids : registry[s].status = "recovering" /\ s \notin old
                       ~> registry[s].status # "recovering" \/ s \in old
=============================================================================
