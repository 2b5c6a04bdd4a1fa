------------------------------ MODULE Console ------------------------------
(* ConsoleManager's sessions on the protocols that run one child process per  *)
(* session: createSession with its retries, executeCommand on a one-shot      *)
(* session, sendInput, stopSession, the resource monitor, and the events that *)
(* the protocol sends while the process runs, ends and is signalled.          *)
(*                                                                            *)
(* The handlers run one at a time. What is awaited and lets others in is a    *)
(* phase of its own: the registration of the session, the protocol's          *)
(* initialization, the report of a failure, the delay before a retry. From    *)
(* the spawn to the moment the caller has its session, or the one-shot        *)
(* listener is installed, nothing else runs.                                  *)
EXTENDS Naturals, Sequences, FiniteSets, Protocols

CONSTANTS
    Sessions,
    Profiles,      \* the protocols in use
    MaxSessions,   \* maxSessions
    MaxAttempts,   \* maxAttempts of the retry strategy of createSession
    MaxChunks,     \* bound: chunks of output per process
    MaxInputs      \* bound: inputs per session

ASSUME ConsoleAssumption ==
    /\ Profiles \subseteq Profile /\ Profiles # {}
    /\ MaxSessions \in Nat /\ MaxAttempts \in Nat \ {0}
    /\ MaxChunks \in Nat /\ MaxInputs \in Nat

VARIABLES
    profile,     \* the protocol of each session, from the spawn on
    kind,        \* what made the session: createSession or executeCommand
    phase,       \* where that call is
    attempt,     \* attemptNumber of executeWithRetry
    registered,  \* the session has an entry in SessionManager
    status,      \* status of the entry in this.sessions
    mapped,      \* protocolSessions and protocolSessionIdMap have the session
    listening,   \* its handlers are on the protocol
    process,     \* the child process
    killed,      \* process.killed: a signal was sent
    timer,       \* the timer of closeSession
    entry,       \* the protocol's own entries for the session
    said,        \* the chunks of the 'output' events the protocol has emitted
    buffer,      \* outputBuffers; empty when there is none
    heard,       \* outputs of the one-shot listener
    chunks,      \* chunks the process has written
    inputs       \* inputs written to the process

vars == <<profile, kind, phase, attempt, registered, status, mapped, listening, process,
          killed, timer, entry, said, buffer, heard, chunks, inputs>>

call == <<profile, kind, phase, attempt, registered>>
child == <<process, killed, timer, entry, chunks, inputs>>
output == <<said, buffer, heard>>

Chunk == Sessions \X (1..MaxChunks)

TypeOK ==
    /\ profile \in [Sessions -> Profiles]
    /\ kind \in [Sessions -> {"none", "createSession", "executeCommand"}]
    /\ phase \in [Sessions -> {"idle", "registering", "initializing", "reporting", "failing",
                               "backoff", "ready", "waiting", "answered", "timedout", "failed"}]
    /\ attempt \in [Sessions -> 0..MaxAttempts]
    /\ registered \in [Sessions -> BOOLEAN]
    /\ status \in [Sessions -> {"absent", "initializing", "running", "stopped", "crashed"}]
    /\ mapped \in [Sessions -> BOOLEAN] /\ listening \in [Sessions -> BOOLEAN]
    /\ process \in [Sessions -> {"none", "alive", "exited", "closed"}]
    /\ killed \in [Sessions -> BOOLEAN] /\ timer \in [Sessions -> BOOLEAN]
    /\ entry \in [Sessions -> {"absent", "active", "inactive"}]
    /\ said \in [Sessions -> Seq(Chunk)]
    /\ buffer \in [Sessions -> Seq(Chunk)]
    /\ heard \in [Sessions -> Seq(Chunk)]
    /\ chunks \in [Sessions -> 0..MaxChunks]
    /\ inputs \in [Sessions -> 0..MaxInputs]

Init ==
    /\ profile = [s \in Sessions |-> CHOOSE p \in Profiles : TRUE]
    /\ kind = [s \in Sessions |-> "none"]
    /\ phase = [s \in Sessions |-> "idle"]
    /\ attempt = [s \in Sessions |-> 0]
    /\ registered = [s \in Sessions |-> FALSE]
    /\ status = [s \in Sessions |-> "absent"]
    /\ mapped = [s \in Sessions |-> FALSE]
    /\ listening = [s \in Sessions |-> FALSE]
    /\ process = [s \in Sessions |-> "none"]
    /\ killed = [s \in Sessions |-> FALSE]
    /\ timer = [s \in Sessions |-> FALSE]
    /\ entry = [s \in Sessions |-> "absent"]
    /\ said = [s \in Sessions |-> <<>>]
    /\ buffer = [s \in Sessions |-> <<>>]
    /\ heard = [s \in Sessions |-> <<>>]
    /\ chunks = [s \in Sessions |-> 0]
    /\ inputs = [s \in Sessions |-> 0]

----------------------------------------------------------------------------
(* The calls that make a session. *)

(* createSession: the limit is tested here and nowhere else. *)
CreateSession(s) ==
    /\ phase[s] = "idle"
    /\ Cardinality({t \in Sessions : status[t] # "absent"}) < MaxSessions
    /\ kind' = [kind EXCEPT ![s] = "createSession"]
    /\ phase' = [phase EXCEPT ![s] = "registering"]
    /\ attempt' = [attempt EXCEPT ![s] = 1]
    /\ status' = [status EXCEPT ![s] = "initializing"]
    /\ UNCHANGED <<profile, registered, mapped, listening, child, output>>

(* executeCommand makes its session directly, without limit and retries. *)
ExecuteCommand(s) ==
    /\ phase[s] = "idle"
    /\ kind' = [kind EXCEPT ![s] = "executeCommand"]
    /\ phase' = [phase EXCEPT ![s] = "registering"]
    /\ attempt' = [attempt EXCEPT ![s] = 1]
    /\ status' = [status EXCEPT ![s] = "initializing"]
    /\ UNCHANGED <<profile, registered, mapped, listening, child, output>>

(* createSessionInternal: registerSession has returned. *)
Registered(s) ==
    /\ phase[s] = "registering"
    /\ phase' = [phase EXCEPT ![s] = "initializing"]
    /\ registered' = [registered EXCEPT ![s] = TRUE]
    /\ UNCHANGED <<profile, kind, attempt, status, mapped, listening, child, output>>

(* createSessionInternal: registerSession has thrown, or the protocol has. In *)
(* the catch block, updateSessionStatus throws too when the session was never *)
(* registered, and the entry stays as it is.                                  *)
CreationThrows(s) ==
    /\ phase[s] \in {"registering", "initializing"}
    /\ phase' = [phase EXCEPT ![s] = IF registered[s] THEN "reporting" ELSE "failing"]
    /\ UNCHANGED <<profile, kind, attempt, registered, status, mapped, listening, child, output>>

(* createSessionInternal: the failure is reported; the entry is stored again. *)
Reported(s) ==
    /\ phase[s] = "reporting"
    /\ phase' = [phase EXCEPT ![s] = "failing"]
    /\ status' = [status EXCEPT ![s] = "crashed"]
    /\ UNCHANGED <<profile, kind, attempt, registered, mapped, listening, child, output>>

(* The error leaves createSessionInternal for good: it is not retryable, or   *)
(* the attempts are used up; executeCommand has only one.                     *)
CallFails(s) ==
    /\ phase[s] = "failing"
    /\ phase' = [phase EXCEPT ![s] = "failed"]
    /\ UNCHANGED <<profile, kind, attempt, registered, status, mapped, listening, child, output>>

(* executeWithRetry: onRetry, cleanupPartialSession, runs before the delay. *)
PartialSessionCleaned(s) ==
    /\ phase[s] = "failing" /\ kind[s] = "createSession" /\ attempt[s] < MaxAttempts
    /\ phase' = [phase EXCEPT ![s] = "backoff"]
    /\ status' = [status EXCEPT ![s] = "absent"]
    /\ buffer' = [buffer EXCEPT ![s] = <<>>]
    /\ UNCHANGED <<profile, kind, attempt, registered, mapped, listening, child, said, heard>>

(* executeWithRetry: the next attempt. No one has stored the entry meanwhile. *)
Retry(s) ==
    /\ phase[s] = "backoff"
    /\ phase' = [phase EXCEPT ![s] = "registering"]
    /\ attempt' = [attempt EXCEPT ![s] = @ + 1]
    /\ status' = [status EXCEPT ![s] = "initializing"]
    /\ UNCHANGED <<profile, kind, registered, mapped, listening, child, output>>

(* doCreateSession has spawned the process, createSessionInternal stores the  *)
(* mapping, the handlers and the entry, whatever became of the entry in the   *)
(* meantime; executeCommand writes the command and listens.                   *)
Created(s) ==
    /\ phase[s] = "initializing"
    /\ phase' = [phase EXCEPT ![s] = IF kind[s] = "executeCommand" THEN "waiting" ELSE "ready"]
    /\ status' = [status EXCEPT ![s] = "running"]
    /\ mapped' = [mapped EXCEPT ![s] = TRUE]
    /\ listening' = [listening EXCEPT ![s] = TRUE]
    /\ process' = [process EXCEPT ![s] = "alive"]
    /\ entry' = [entry EXCEPT ![s] = "active"]
    /\ \E p \in Profiles : profile' = [profile EXCEPT ![s] = p]
    /\ UNCHANGED <<kind, attempt, registered, killed, timer, chunks, inputs, output>>

----------------------------------------------------------------------------
(* The process and the protocol's events. *)

(* Mutant: a handler takes the events of every session of its protocol. *)
HearsAll(s, p) == listening[s] /\ profile[s] = profile[p]

(* setupProtocolEventHandlers: the handlers of s are on the protocol of p and *)
(* the event names p. Nothing takes the handlers off again.                   *)
Hears(s, p) == listening[s] /\ s = p

(* Mutant: nothing takes the one-shot listener off. *)
OutputAfterAnswer(p, text) ==
    LET piece == [i \in 1..profile[p].copies |-> <<p, chunks[p] + 1>>] IN
    /\ process[p] \in {"alive", "exited"} /\ chunks[p] < MaxChunks
    /\ chunks' = [chunks EXCEPT ![p] = @ + 1]
    /\ said' = [said EXCEPT ![p] = @ \o piece]
    /\ buffer' = [s \in Sessions |-> IF Hears(s, p) THEN buffer[s] \o piece ELSE buffer[s]]
    /\ heard' = [s \in Sessions |->
                    IF Hears(s, p) /\ kind[s] = "executeCommand" THEN heard[s] \o piece ELSE heard[s]]
    /\ status' = [s \in Sessions |->
                    IF Hears(s, p) /\ text = "error" /\ kind[p] = "executeCommand"
                       /\ status[s] # "absent"
                    THEN "stopped" ELSE status[s]]
    /\ UNCHANGED <<call, mapped, listening, process, killed, timer, entry, inputs>>

(* A chunk on stdout or stderr: addToOutputBuffer emits it, LocalProtocol     *)
(* once more. Of a one-shot session, stderr or what reads like an error also  *)
(* completes the session, though the process goes on.                         *)
Output(p, text) ==
    LET piece == [i \in 1..profile[p].copies |-> <<p, chunks[p] + 1>>] IN
    /\ process[p] \in {"alive", "exited"} /\ chunks[p] < MaxChunks
    /\ chunks' = [chunks EXCEPT ![p] = @ + 1]
    /\ said' = [said EXCEPT ![p] = @ \o piece]
    /\ buffer' = [s \in Sessions |-> IF Hears(s, p) THEN buffer[s] \o piece ELSE buffer[s]]
    /\ heard' = [s \in Sessions |->
                    IF Hears(s, p) /\ phase[s] = "waiting" THEN heard[s] \o piece ELSE heard[s]]
    /\ status' = [s \in Sessions |->
                    IF Hears(s, p) /\ text = "error" /\ kind[p] = "executeCommand"
                       /\ status[s] # "absent"
                    THEN "stopped" ELSE status[s]]
    /\ UNCHANGED <<call, mapped, listening, process, killed, timer, entry, inputs>>

(* The process exits, by itself or of a signal; its output is still read. *)
ProcessExits(p) ==
    /\ process[p] = "alive"
    /\ process' = [process EXCEPT ![p] = "exited"]
    /\ UNCHANGED <<call, status, mapped, listening, killed, timer, entry, chunks, inputs, output>>

(* The 'error' event of a process that could not be started. *)
ProcessErrors(p) ==
    /\ process[p] = "alive" /\ chunks[p] = 0 /\ inputs[p] = 0 /\ ~killed[p]
    /\ process' = [process EXCEPT ![p] = "exited"]
    /\ entry' = [entry EXCEPT ![p] =
                    IF @ = "active" /\ profile[p].errors = "deactivate" THEN "inactive" ELSE @]
    /\ UNCHANGED <<call, status, mapped, listening, killed, timer, chunks, inputs, output>>

(* The calls that a 'session-closed' event of p with its id answers. *)
Answers(p) == {s \in Sessions : Hears(s, p) /\ phase[s] = "waiting"}

(* executeCommand's cleanup removes the entry and the buffer of its session. *)
StatusAfter(p, answered) ==
    [s \in Sessions |->
        IF s \in answered \/ status[s] = "absent" THEN "absent"
        ELSE IF Hears(s, p) THEN "stopped" ELSE status[s]]

(* Mutant: the end of a process is told before its output is read. *)
CloseEventEarly(p) ==
    LET tells == profile[p].ends = "session-closed"
        answered == IF tells THEN Answers(p) ELSE {}
    IN
    /\ process[p] \in {"alive", "exited"}
    /\ process' = [process EXCEPT ![p] = "exited"]
    /\ entry' = IF tells THEN [entry EXCEPT ![p] = "absent"] ELSE entry
    /\ phase' = [s \in Sessions |-> IF s \in answered THEN "answered" ELSE phase[s]]
    /\ status' = StatusAfter(p, answered)
    /\ buffer' = [s \in Sessions |-> IF s \in answered THEN <<>> ELSE buffer[s]]
    /\ UNCHANGED <<profile, kind, attempt, registered, mapped, listening, killed, timer,
                   chunks, inputs, said, heard>>

(* The 'close' event of a process whose output is read to its end, and what   *)
(* the protocol's event for it does to the session and to a waiting call.     *)
CloseEvent(p) ==
    LET tells == profile[p].ends = "session-closed"
        answered == IF tells THEN Answers(p) ELSE {}
    IN
    /\ process[p] = "exited"
    /\ process' = [process EXCEPT ![p] = "closed"]
    /\ entry' = IF tells THEN [entry EXCEPT ![p] = "absent"] ELSE entry
    /\ phase' = [s \in Sessions |-> IF s \in answered THEN "answered" ELSE phase[s]]
    /\ status' = StatusAfter(p, answered)
    /\ buffer' = [s \in Sessions |-> IF s \in answered THEN <<>> ELSE buffer[s]]
    /\ UNCHANGED <<profile, kind, attempt, registered, mapped, listening, killed, timer,
                   chunks, inputs, said, heard>>

----------------------------------------------------------------------------
(* The calls on a session, and the timers. *)

(* Mutant: the timeout looks for the session's entry. *)
CallTimeoutOfEntry(s) ==
    /\ phase[s] = "waiting" /\ status[s] # "absent"
    /\ phase' = [phase EXCEPT ![s] = "timedout"]
    /\ status' = [status EXCEPT ![s] = "absent"]
    /\ buffer' = [buffer EXCEPT ![s] = <<>>]
    /\ UNCHANGED <<profile, kind, attempt, registered, mapped, listening, child, said, heard>>

(* executeCommand: the timeout of the call. The process is left alone. *)
CallTimeout(s) ==
    /\ phase[s] = "waiting"
    /\ phase' = [phase EXCEPT ![s] = "timedout"]
    /\ status' = [status EXCEPT ![s] = "absent"]
    /\ buffer' = [buffer EXCEPT ![s] = <<>>]
    /\ UNCHANGED <<profile, kind, attempt, registered, mapped, listening, child, said, heard>>

(* A signal reaches only a process that has not exited. *)
Signalled(s) == [killed EXCEPT ![s] = @ \/ process[s] = "alive"]

(* stopSession of a session with a protocol: closeSession signals the process *)
(* of its entry and tells the handlers, then all entries are deleted.         *)
StopMapped(s) ==
    LET answered == IF profile[s].closed = "record" /\ (entry[s] # "absent" \/ ~profile[s].strict)
                    THEN Answers(s) ELSE {}
    IN
    /\ status[s] # "absent" /\ mapped[s]
    /\ killed' = IF entry[s] # "absent" /\ profile[s].stop # "exit" THEN Signalled(s) ELSE killed
    /\ timer' = [timer EXCEPT ![s] = @ \/ (entry[s] # "absent" /\ profile[s].stop # "term")]
    /\ entry' = [entry EXCEPT ![s] = "absent"]
    /\ phase' = [t \in Sessions |-> IF t \in answered THEN "answered" ELSE phase[t]]
    /\ mapped' = [mapped EXCEPT ![s] = FALSE]
    /\ status' = [status EXCEPT ![s] = "absent"]
    /\ buffer' = [buffer EXCEPT ![s] = <<>>]
    /\ UNCHANGED <<profile, kind, attempt, registered, listening, process, chunks, inputs, said, heard>>

(* stopSession of a session that has no protocol yet, or never got one. *)
StopUnmapped(s) ==
    /\ status[s] # "absent" /\ ~mapped[s]
    /\ status' = [status EXCEPT ![s] = "stopped"]
    /\ UNCHANGED <<call, mapped, listening, child, output>>

(* closeSession's timer signals a process that was not signalled before. *)
KillTimer(s) ==
    /\ timer[s]
    /\ timer' = [timer EXCEPT ![s] = FALSE]
    /\ killed' = Signalled(s)
    /\ UNCHANGED <<call, status, mapped, listening, process, entry, chunks, inputs, output>>

(* Mutant: the monitor looks at the age alone. *)
MonitorCleansAll(s) ==
    /\ status[s] # "absent"
    /\ status' = [status EXCEPT ![s] = "absent"]
    /\ buffer' = [buffer EXCEPT ![s] = <<>>]
    /\ UNCHANGED <<call, mapped, listening, child, said, heard>>

(* The resource monitor's cleanupSession of what has not been running. *)
ResourceMonitor(s) ==
    /\ status[s] \notin {"absent", "running"}
    /\ status' = [status EXCEPT ![s] = "absent"]
    /\ buffer' = [buffer EXCEPT ![s] = <<>>]
    /\ UNCHANGED <<call, mapped, listening, child, said, heard>>

(* validateSessionReady *)
Ready(s) == status[s] \notin {"absent", "stopped", "crashed"}

(* Mutant: the input is written whatever validateSessionReady says. *)
SendInputUnvalidated(s) ==
    /\ status[s] # "absent"
    /\ mapped[s] /\ entry[s] = "active" /\ inputs[s] < MaxInputs
    /\ inputs' = [inputs EXCEPT ![s] = @ + 1]
    /\ UNCHANGED <<call, status, mapped, listening, process, killed, timer, entry, chunks, output>>

(* sendInput: the session is ready, and the protocol has it. *)
SendInput(s) ==
    /\ Ready(s) /\ mapped[s] /\ entry[s] = "active" /\ inputs[s] < MaxInputs
    /\ inputs' = [inputs EXCEPT ![s] = @ + 1]
    /\ UNCHANGED <<call, status, mapped, listening, process, killed, timer, entry, chunks, output>>

Next == \E s \in Sessions :
    \/ CreateSession(s) \/ ExecuteCommand(s) \/ Registered(s) \/ CreationThrows(s)
    \/ Reported(s) \/ CallFails(s) \/ PartialSessionCleaned(s) \/ Retry(s) \/ Created(s)
    \/ \E text \in {"plain", "error"} : Output(s, text)
    \/ ProcessExits(s) \/ ProcessErrors(s) \/ CloseEvent(s)
    \/ CallTimeout(s) \/ StopMapped(s) \/ StopUnmapped(s) \/ KillTimer(s)
    \/ ResourceMonitor(s) \/ SendInput(s)

(* What is awaited comes back and timers fire. Processes owe nothing. *)
Fairness == \A s \in Sessions :
    /\ WF_vars(Registered(s) \/ CreationThrows(s) \/ Created(s))
    /\ WF_vars(Reported(s))
    /\ WF_vars(CallFails(s) \/ PartialSessionCleaned(s))
    /\ WF_vars(Retry(s))
    /\ WF_vars(CallTimeout(s))
    /\ WF_vars(KillTimer(s))

Spec == Init /\ [][Next]_vars /\ Fairness

----------------------------------------------------------------------------
(* Properties. *)

(* What a session's buffer holds is all that its protocol emitted for it, in  *)
(* order and nothing of another session's: createSession, the retries and the *)
(* cleanups never leave a session with a part of its output.                  *)
BufferIsWhole == \A s \in Sessions : status[s] # "absent" => buffer[s] = said[s]

(* A call that ends by its process's end has all the process wrote; only a    *)
(* timeout, or a stop, cuts the output short.                                 *)
AnswerIsWhole == \A s \in Sessions :
    phase[s] = "answered" /\ mapped[s] => heard[s] = said[s] /\ process[s] = "closed"

(* A process is lost by no call of createSession, whatever fails, retries,    *)
(* stops or is cleaned up while it is made: it has exited, or stopSession     *)
(* still finds it, or a signal was sent or is due.                            *)
ProcessIsReachable == \A s \in Sessions :
    process[s] = "alive" /\ kind[s] = "createSession" =>
        (status[s] # "absent" /\ mapped[s] /\ entry[s] # "absent") \/ killed[s] \/ timer[s]

(* Input is written only to a process whose end the session has not been told *)
(* of: a write to a closed pipe would raise an error nobody handles.          *)
InputReachesProcess == [][\A s \in Sessions : inputs'[s] # inputs[s] => process[s] # "closed"]_vars

(* Every call that makes a session returns or throws. *)
CallsEnd == \A s \in Sessions :
    phase[s] = "registering" ~> phase[s] \in {"ready", "answered", "timedout", "failed"}

(* The calls as their callers see them. *)
CallState == [s \in Sessions |->
    CASE phase[s] = "idle" -> "idle"
      [] phase[s] = "failed" -> "failed"
      [] phase[s] \in {"ready", "answered", "timedout"} -> "answered"
      [] OTHER -> "pending"]

PiecesOf(s) == {[i \in 1..n |-> <<s, k>>] : n \in 1..2, k \in 1..MaxChunks}

Calls == INSTANCE CallService WITH
    Calls <- Sessions, Pieces <- [s \in Sessions |-> PiecesOf(s)],
    state <- CallState, said <- said, told <- heard

(* executeCommand and createSession implement the promise of CallService. *)
ImplementsCallService == Calls!Safety

(* The timer of closeSession signals a process that is still running ("Force  *)
(* kill after timeout"): violated, the first signal has set process.killed.   *)
ForceKillAfterTimeout == [][\A s \in Sessions :
    timer[s] /\ ~timer'[s] /\ process[s] = "alive" => killed'[s] # killed[s]]_vars

(* A call leaves no process behind ("Always cleanup one-shot sessions"):      *)
(* violated, the session's entries go and the process stays.                  *)
CallLeavesNoProcess == \A s \in Sessions :
    phase[s] \in {"answered", "timedout"} /\ process[s] = "alive" => killed[s] \/ timer[s]
=============================================================================
