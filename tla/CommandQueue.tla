---------------------------- MODULE CommandQueue ----------------------------
(* The command queue of one SSH session: addCommandToQueue,                 *)
(* processCommandQueue and its awaits, prompt acknowledgement, the timeout    *)
(* recovery of TimeoutRecoveryManager with the reconnection of                *)
(* ConsoleManager, the snapshots of SessionPersistenceManager, and the ways a *)
(* queue is emptied (stop, cleanup, flush).                                   *)
(*                                                                            *)
(* JavaScript runs a processor to its next await before anything else moves:  *)
(* the program counters "loop" and "check" are inside such a run, and every   *)
(* other action waits until no processor is there (Quiet).                    *)
EXTENDS Naturals, Sequences, SequencesExt, FiniteSets

CONSTANTS
    Cmds,                  \* calls of addCommandToQueue
    MaxQueueSize,          \* queueConfig.maxQueueSize
    MaxCommandRetries,     \* maxCommandRetries, 2 in the code
    MaxRecoveryAttempts,   \* TimeoutRecoveryManager.maxRecoveryAttempts
    MaxSnapshots,          \* bound: times the persistence timer takes a snapshot
    Flushes,               \* SessionRecovery asks for a prompt reset in it
    MaxQueues,             \* bound: queue objects made for the session
    MaxCopies,             \* bound: times one command is restored
    MaxChannels            \* bound: SSH channels opened for the session

ASSUME CommandQueueAssumption ==
    /\ MaxQueueSize \in Nat \ {0} /\ MaxCommandRetries \in Nat
    /\ MaxRecoveryAttempts \in Nat /\ MaxQueues \in Nat \ {0}
    /\ MaxCopies \in Nat /\ MaxChannels \in Nat \ {0}
    /\ MaxSnapshots \in Nat /\ Flushes \in BOOLEAN

VARIABLES
    promise,      \* the promise each call returned
    verdict,      \* what error recovery last reported about a command
    obj,          \* QueuedCommand objects: <<c, 0>> the call's own, the others restored copies
    cur,          \* the queue object in commandQueues, 0 when there is none
    made,         \* queue objects made so far
    commands,     \* queue.commands of each queue object
    prompt,       \* expectedPrompt matches queue.outputBuffer
    proc,         \* the run of processCommandQueue on each queue object
    due,          \* a run is scheduled (setImmediate, setTimeout)
    channel,      \* the entry of sshChannels, 0 when there is none
    opened,       \* channels opened so far
    session,      \* "running", "stopped" (still in the map) or "gone"
    attempts,     \* recoveryAttempts of the session
    snapshot,     \* persistentData.pendingCommands
    taken,        \* snapshots taken so far
    outstanding,  \* lines written to the shell, prompt not yet back
    tx            \* times each object was written to a live channel

queueVars == <<cur, made, commands, prompt, obj>>
snapVars == <<snapshot, taken>>
linkVars == <<channel, opened, session, attempts, outstanding>>
vars == <<promise, verdict, queueVars, proc, due, linkVars, snapVars, tx>>

Objs == Cmds \X (0..MaxCopies)
Queues == 1..MaxQueues
NoObj == <<>>
Command == [made : BOOLEAN, sent : BOOLEAN, acknowledged : BOOLEAN,
            late : BOOLEAN, retryCount : 0..(MaxCommandRetries + 1)]
Fresh == [made |-> TRUE, sent |-> FALSE, acknowledged |-> FALSE,
          late |-> FALSE, retryCount |-> 0]
Idle == [pc |-> "idle", on |-> NoObj, ch |-> 0]
PCs == {"idle", "loop", "sending", "spacing", "check", "lastResort", "recovering",
        "reconnecting", "validating", "resuming", "fallback", "backoff"}

TypeOK ==
    /\ promise \in [Cmds -> {"none", "pending", "resolved", "rejected", "terminated"}]
    /\ verdict \in [Cmds -> {"none", "recovered", "notRecovered"}]
    /\ obj \in [Objs -> Command]
    /\ cur \in 0..MaxQueues /\ made \in Queues /\ cur <= made
    /\ commands \in [Queues -> Seq(Objs)]
    /\ prompt \in [Queues -> BOOLEAN]
    /\ proc \in [Queues -> [pc : PCs, on : Objs \cup {NoObj}, ch : 0..MaxChannels]]
    /\ \A q \in Queues : proc[q].pc \in PCs \ {"idle", "loop"} => proc[q].on \in Objs
    /\ due \in BOOLEAN
    /\ channel \in 0..MaxChannels /\ opened \in 0..MaxChannels
    /\ session \in {"running", "stopped", "gone"}
    /\ attempts \in 0..MaxRecoveryAttempts
    /\ outstanding \in Nat
    /\ snapshot \in Seq([of : Cmds, command : Command]) /\ taken \in 0..MaxSnapshots
    /\ tx \in [Objs -> Nat]

(* A session whose first channel is open: setupSSHHandlers has made its       *)
(* queue, and the shell has yet to print its first prompt.                    *)
Init ==
    /\ promise = [c \in Cmds |-> "none"]
    /\ verdict = [c \in Cmds |-> "none"]
    /\ obj = [o \in Objs |-> [Fresh EXCEPT !.made = FALSE]]
    /\ cur = 1 /\ made = 1
    /\ commands = [q \in Queues |-> <<>>]
    /\ prompt = [q \in Queues |-> FALSE]
    /\ proc = [q \in Queues |-> Idle]
    /\ due = FALSE
    /\ channel = 1 /\ opened = 1
    /\ session = "running" /\ attempts = 0
    /\ snapshot = <<>> /\ taken = 0 /\ outstanding = 1
    /\ tx = [o \in Objs |-> 0]

(* --------------------------------------------------------------------------*)

Quiet == \A q \in Queues : proc[q].pc \notin {"loop", "check"}

(* Array.shift: the first element goes, whatever it is. *)
Shift(s) == IF s = <<>> THEN s ELSE Tail(s)

(* resolve and reject act on a promise once; a copy has no promise. *)
Settle(o, how) ==
    IF o[2] = 0 /\ promise[o[1]] = "pending"
    THEN [promise EXCEPT ![o[1]] = how] ELSE promise

Goto(q, pc) == proc' = [proc EXCEPT ![q].pc = pc]

(* finally, and the 100 ms poll when commands are left. *)
EndPass(q) ==
    /\ proc' = [proc EXCEPT ![q] = Idle]
    /\ due' = (due \/ commands[q] # <<>>)

(* The object deserializeCommandQueue makes of the i-th entry of the snapshot. *)
CopiesMade(c) == Cardinality({k \in 1..MaxCopies : obj[<<c, k>>].made})
Copy(i) ==
    LET c == snapshot[i].of
    IN <<c, CopiesMade(c) + Cardinality({j \in 1..i : snapshot[j].of = c})>>
Copies == [i \in DOMAIN snapshot |-> Copy(i)]
RoomForCopies == \A i \in DOMAIN snapshot : Copy(i)[2] <= MaxCopies
ObjWithCopies ==
    [o \in Objs |-> IF \E i \in DOMAIN snapshot : Copy(i) = o
                    THEN snapshot[CHOOSE i \in DOMAIN snapshot : Copy(i) = o].command
                    ELSE obj[o]]

(* initializeCommandQueue, run by setupSSHHandlers for a session still in the  *)
(* map: a missing queue is made with the persisted commands in it; nothing is *)
(* scheduled. InitializedObj is what it leaves of the command objects.        *)
NeedsQueue == cur = 0 /\ session # "gone"
InitializedObj == IF NeedsQueue THEN ObjWithCopies ELSE obj
InitializeCommandQueue ==
    IF NeedsQueue
    THEN /\ made < MaxQueues /\ RoomForCopies
         /\ made' = made + 1 /\ cur' = made + 1
         /\ commands' = [commands EXCEPT ![made + 1] = Copies]
    ELSE UNCHANGED <<cur, made, commands>>

(* --------------------------------------------------------------------------*)
(* Callers.                                                                   *)

(* Mutant: the new command is put in front. *)
AddCommandToQueueFirst(c) ==
    /\ Quiet /\ promise[c] = "none" /\ session = "running" /\ channel # 0 /\ cur # 0
    /\ IF Len(commands[cur]) >= MaxQueueSize
       THEN /\ promise' = [promise EXCEPT ![c] = "rejected"]
            /\ UNCHANGED <<commands, obj, due>>
       ELSE /\ promise' = [promise EXCEPT ![c] = "pending"]
            /\ commands' = [commands EXCEPT ![cur] = <<<<c, 0>>>> \o @]
            /\ obj' = [obj EXCEPT ![<<c, 0>>] = Fresh]
            /\ due' = TRUE
    /\ UNCHANGED <<verdict, cur, made, prompt, proc, linkVars, snapVars, tx>>

(* sendInput reaches addCommandToQueue while the session is ready and has a   *)
(* channel, and a channel comes with its queue.                               *)
AddCommandToQueue(c) ==
    /\ Quiet /\ promise[c] = "none" /\ session = "running" /\ channel # 0 /\ cur # 0
    /\ IF Len(commands[cur]) >= MaxQueueSize
       THEN /\ promise' = [promise EXCEPT ![c] = "rejected"]
            /\ UNCHANGED <<commands, obj, due>>
       ELSE /\ promise' = [promise EXCEPT ![c] = "pending"]
            /\ commands' = [commands EXCEPT ![cur] = Append(@, <<c, 0>>)]
            /\ obj' = [obj EXCEPT ![<<c, 0>>] = Fresh]
            /\ due' = TRUE
    /\ UNCHANGED <<verdict, cur, made, prompt, proc, linkVars, snapVars, tx>>

(* Mutant: the queue is dropped and its callers are told nothing. *)
ClearCommandQueueSilently(kept) ==
    /\ promise' = promise
    /\ cur' = 0
    /\ snapshot' = kept

(* clearCommandQueue: unacknowledged commands are rejected with "Session      *)
(* terminated" and the queue leaves the map; a run in progress is not told.   *)
(* deleteSessionData of the persistence manager empties the snapshot (kept).  *)
ClearCommandQueue(kept) ==
    /\ promise' = [c \in Cmds |->
           IF /\ cur # 0 /\ promise[c] = "pending"
              /\ \E i \in DOMAIN commands[cur] :
                    commands[cur][i] = <<c, 0>> /\ ~ obj[<<c, 0>>].acknowledged
           THEN "terminated" ELSE promise[c]]
    /\ cur' = 0
    /\ snapshot' = kept

(* stopSession: the channel is closed, the session stays in the map. *)
StopSession ==
    /\ Quiet /\ session = "running"
    /\ session' = "stopped" /\ channel' = 0
    /\ ClearCommandQueue(snapshot)
    /\ UNCHANGED <<verdict, made, commands, prompt, obj, proc, due, opened, attempts,
                   outstanding, taken, tx>>

(* cleanupSession: the session and everything kept about it goes. *)
CleanupSession ==
    /\ Quiet /\ session # "gone"
    /\ session' = "gone" /\ channel' = 0
    /\ ClearCommandQueue(<<>>)
    /\ UNCHANGED <<verdict, made, commands, prompt, obj, proc, due, opened, attempts,
                   outstanding, taken, tx>>

(* flushPendingCommands, on a prompt reset requested by SessionRecovery. *)
FlushPendingCommands ==
    /\ Quiet /\ Flushes /\ cur # 0
    /\ commands' = [commands EXCEPT ![cur] = <<>>]
    /\ prompt' = [prompt EXCEPT ![cur] = FALSE]
    /\ UNCHANGED <<promise, verdict, cur, made, obj, proc, due, linkVars, snapVars, tx>>

(* persistAllSessionData, every persistenceInterval. *)
PersistSessionData ==
    /\ Quiet /\ taken < MaxSnapshots /\ cur # 0 /\ session # "gone"
    /\ snapshot' = [i \in DOMAIN commands[cur] |->
                       [of |-> commands[cur][i][1], command |-> obj[commands[cur][i]]]]
    /\ taken' = taken + 1
    /\ UNCHANGED <<promise, verdict, queueVars, proc, due, linkVars, tx>>

(* --------------------------------------------------------------------------*)
(* The shell and the clock.                                                   *)

(* handleSSHOutputForQueue: one more answer arrives with its prompt, or       *)
(* output without one pushes an old prompt out of the 4096 bytes kept. The    *)
(* shell may print, and print what looks like a prompt, without being asked.  *)
Output(matches) ==
    /\ Quiet /\ channel # 0
    /\ outstanding' = IF matches /\ outstanding > 0 THEN outstanding - 1 ELSE outstanding
    /\ IF cur = 0 THEN UNCHANGED <<prompt, due>>
       ELSE /\ prompt' = [prompt EXCEPT ![cur] = matches]
            /\ due' = (due \/ (commands[cur] # <<>> /\ proc[cur].pc = "idle"))
    /\ UNCHANGED <<promise, verdict, cur, made, commands, obj, proc, channel, opened,
                   session, attempts, snapVars, tx>>

(* The acknowledgement timeout of a command on its way has passed; the clock  *)
(* waits for no run.                                                          *)
TimePasses(o) ==
    /\ obj[o].sent /\ ~ obj[o].acknowledged /\ ~ obj[o].late
    /\ \E q \in Queues : \E i \in DOMAIN commands[q] : commands[q][i] = o
    /\ obj' = [obj EXCEPT ![o].late = TRUE]
    /\ UNCHANGED <<promise, verdict, cur, made, commands, prompt, proc, due, linkVars,
                   snapVars, tx>>

(* --------------------------------------------------------------------------*)
(* processCommandQueue.                                                       *)

(* A scheduled run: it returns at once without a queue, a channel or a        *)
(* command, or when a run is in progress.                                     *)
ProcessCommandQueue ==
    /\ Quiet /\ due
    /\ due' = FALSE
    /\ proc' = IF cur = 0 THEN proc
               ELSE IF channel = 0 \/ proc[cur].pc # "idle" \/ commands[cur] = <<>>
               THEN proc
               ELSE [proc EXCEPT ![cur] = [pc |-> "loop", on |-> NoObj, ch |-> channel]]
    /\ UNCHANGED <<promise, verdict, queueVars, linkVars, snapVars, tx>>

AtLoop(q) == proc[q].pc = "loop"
TakeHead(q, pc) ==
    /\ AtLoop(q) /\ commands[q] # <<>>
    /\ proc' = [proc EXCEPT ![q].pc = pc, ![q].on = Head(commands[q])]
    /\ UNCHANGED <<promise, verdict, queueVars, due, linkVars, snapVars, tx>>
InFlight(o) == obj[o].sent /\ ~ obj[o].acknowledged

(* The queue is empty, or its head is still within its timeout (break). *)
LoopEnds(q) ==
    /\ AtLoop(q)
    /\ commands[q] # <<>> => InFlight(Head(commands[q])) /\ ~ obj[Head(commands[q])].late
    /\ EndPass(q)
    /\ UNCHANGED <<promise, verdict, queueVars, linkVars, snapVars, tx>>

(* The head timed out: recovery, or error recovery alone after the last retry. *)
HeadTimedOut(q) ==
    /\ TakeHead(q, IF obj[Head(commands[q])].retryCount >= MaxCommandRetries
                   THEN "lastResort" ELSE "recovering")
    /\ InFlight(Head(commands[q])) /\ obj[Head(commands[q])].late

(* The head has not been sent: sendCommandToSSH is awaited. *)
HeadUnsent(q) == TakeHead(q, "sending") /\ ~ obj[Head(commands[q])].sent

(* An acknowledged head stayed in the queue: its prompt is looked for again. *)
HeadAcknowledged(q) ==
    /\ TakeHead(q, "check")
    /\ obj[Head(commands[q])].sent /\ obj[Head(commands[q])].acknowledged

(* The write is confirmed; with more commands waiting the interCommandDelay   *)
(* comes before the look at the prompt. The bookmark awaited before it is     *)
(* made of data in memory: no timer and no output gets in between.            *)
WriteDone(q) ==
    /\ Quiet /\ proc[q].pc = "sending" /\ proc[q].ch = channel
    /\ LET o == proc[q].on IN
       /\ obj' = [obj EXCEPT ![o].sent = TRUE, ![o].late = FALSE]
       /\ tx' = [tx EXCEPT ![o] = @ + 1]
    /\ outstanding' = outstanding + 1
    /\ Goto(q, IF Len(commands[q]) > 1 THEN "spacing" ELSE "check")
    /\ UNCHANGED <<promise, verdict, cur, made, commands, prompt, due, channel, opened,
                   session, attempts, snapVars>>

(* Mutant: a command whose write failed is resolved. *)
WriteFailsResolves(q, delivered) ==
    /\ Quiet /\ proc[q].pc = "sending" /\ (delivered => proc[q].ch = channel)
    /\ LET o == proc[q].on IN
       /\ promise' = Settle(o, "resolved")
       /\ tx' = IF delivered THEN [tx EXCEPT ![o] = @ + 1] ELSE tx
    /\ commands' = [commands EXCEPT ![q] = Shift(@)]
    /\ outstanding' = IF delivered THEN outstanding + 1 ELSE outstanding
    /\ Goto(q, "loop")
    /\ UNCHANGED <<verdict, cur, made, prompt, obj, due, channel, opened, session,
                   attempts, snapVars>>

(* The write fails or times out (the line may have got through all the same): *)
(* the command is rejected and the head of the queue is dropped.              *)
WriteFails(q, delivered) ==
    /\ Quiet /\ proc[q].pc = "sending" /\ (delivered => proc[q].ch = channel)
    /\ LET o == proc[q].on IN
       /\ promise' = Settle(o, "rejected")
       /\ tx' = IF delivered THEN [tx EXCEPT ![o] = @ + 1] ELSE tx
    /\ commands' = [commands EXCEPT ![q] = Shift(@)]
    /\ outstanding' = IF delivered THEN outstanding + 1 ELSE outstanding
    /\ Goto(q, "loop")
    /\ UNCHANGED <<verdict, cur, made, prompt, obj, due, channel, opened, session,
                   attempts, snapVars>>

SpacingEnds(q) ==
    /\ Quiet /\ proc[q].pc = "spacing"
    /\ Goto(q, "check")
    /\ UNCHANGED <<promise, verdict, queueVars, due, linkVars, snapVars, tx>>

(* Mutant: a pass that breaks off without a prompt schedules no other. *)
CheckPromptAndSleep(q) ==
    /\ proc[q].pc = "check"
    /\ IF prompt[q]
       THEN /\ obj' = [obj EXCEPT ![proc[q].on].acknowledged = TRUE]
            /\ promise' = Settle(proc[q].on, "resolved")
            /\ commands' = [commands EXCEPT ![q] = Shift(@)]
            /\ prompt' = [prompt EXCEPT ![q] = FALSE]
            /\ Goto(q, "loop")
            /\ UNCHANGED due
       ELSE /\ proc' = [proc EXCEPT ![q] = Idle]
            /\ UNCHANGED <<promise, commands, prompt, obj, due>>
    /\ UNCHANGED <<verdict, cur, made, linkVars, snapVars, tx>>

(* The prompt test: a match acknowledges the command, without one the pass    *)
(* ends. initializeCommandQueue gives every queue a prompt pattern; a         *)
(* configuration with prompt detection off is not modelled.                   *)
CheckPrompt(q) ==
    /\ proc[q].pc = "check"
    /\ IF prompt[q]
       THEN /\ obj' = [obj EXCEPT ![proc[q].on].acknowledged = TRUE]
            /\ promise' = Settle(proc[q].on, "resolved")
            /\ commands' = [commands EXCEPT ![q] = Shift(@)]
            /\ prompt' = [prompt EXCEPT ![q] = FALSE]
            /\ Goto(q, "loop")
            /\ UNCHANGED due
       ELSE /\ EndPass(q)
            /\ UNCHANGED <<promise, commands, prompt, obj>>
    /\ UNCHANGED <<verdict, cur, made, linkVars, snapVars, tx>>

(* The last resort of the two timeout branches. ErrorRecovery.attemptRecovery *)
(* returns an object in every case and the code tests the object, not its     *)
(* field "recovered": the command is resolved whatever it says.               *)
ErrorRecoveryEnds(q, recovered) ==
    /\ Quiet /\ proc[q].pc \in {"lastResort", "fallback"}
    /\ LET o == proc[q].on IN
       /\ promise' = Settle(o, "resolved")
       /\ verdict' = IF o[2] = 0
                     THEN [verdict EXCEPT ![o[1]] =
                              IF recovered THEN "recovered" ELSE "notRecovered"]
                     ELSE verdict
    /\ commands' = [commands EXCEPT ![q] = Shift(@)]
    /\ Goto(q, "loop")
    /\ UNCHANGED <<cur, made, prompt, obj, due, linkVars, snapVars, tx>>

BackoffEnds(q) ==
    /\ Quiet /\ proc[q].pc = "backoff"
    /\ Goto(q, "loop")
    /\ UNCHANGED <<promise, verdict, queueVars, due, linkVars, snapVars, tx>>

(* --------------------------------------------------------------------------*)
(* attemptTimeoutRecovery.                                                    *)

(* Mutant: the queue does not count the retry. *)
RecoveredUncounted(q, objs) ==
    /\ obj' = [objs EXCEPT ![proc[q].on].late = FALSE]
    /\ Goto(q, "backoff")

(* The queue's part after a recovery that reports success: objs are the       *)
(* objects the recovery left.                                                 *)
Recovered(q, objs) ==
    /\ obj' = [objs EXCEPT ![proc[q].on].late = FALSE,
                           ![proc[q].on].retryCount = @ + 1]
    /\ Goto(q, "backoff")

(* The client is missing or does not answer: what is left of the connection   *)
(* is removed (which also forgets the attempts) and a new one is opened.      *)
RecoveryReconnects(q) ==
    /\ Quiet /\ proc[q].pc = "recovering" /\ attempts < MaxRecoveryAttempts
    /\ session # "gone"
    /\ channel' = 0 /\ attempts' = 0
    /\ Goto(q, "reconnecting")
    /\ UNCHANGED <<promise, verdict, queueVars, due, opened, session, outstanding,
                   snapVars, tx>>

(* attemptSSHReconnection finds no session any more. *)
RecoveryFindsNoSession(q) ==
    /\ Quiet /\ proc[q].pc = "recovering" /\ attempts < MaxRecoveryAttempts
    /\ session = "gone"
    /\ attempts' = attempts + 1
    /\ Goto(q, "fallback")
    /\ UNCHANGED <<promise, verdict, queueVars, due, channel, opened, session,
                   outstanding, snapVars, tx>>

(* createSSHConnection stores the new channel; the queue is made if it is     *)
(* missing and the new shell will print a prompt.                             *)
Reconnected(q) ==
    /\ Quiet /\ proc[q].pc = "reconnecting" /\ opened < MaxChannels
    /\ opened' = opened + 1 /\ channel' = opened + 1 /\ outstanding' = 1
    /\ InitializeCommandQueue /\ obj' = InitializedObj
    /\ Goto(q, "validating")
    /\ UNCHANGED <<promise, verdict, prompt, due, session, attempts, snapVars, tx>>

ReconnectionValid(q) ==
    /\ Quiet /\ proc[q].pc = "validating"
    /\ Recovered(q, obj)
    /\ UNCHANGED <<promise, verdict, cur, made, commands, prompt, due, linkVars,
                   snapVars, tx>>

(* The new channel does not pass its validation and is removed again; the     *)
(* queue that came with it stays.                                             *)
ReconnectionInvalid(q) ==
    /\ Quiet /\ proc[q].pc = "validating"
    /\ channel' = 0 /\ attempts' = 0
    /\ Goto(q, "fallback")
    /\ UNCHANGED <<promise, verdict, queueVars, due, opened, session, outstanding,
                   snapVars, tx>>

(* No new channel. The object attemptRecovery returns is taken for a success. *)
ReconnectionFails(q) ==
    /\ Quiet /\ proc[q].pc = "reconnecting"
    /\ Recovered(q, obj)
    /\ UNCHANGED <<promise, verdict, cur, made, commands, prompt, due, linkVars,
                   snapVars, tx>>

(* executeWithRetry throws, its breaker being open: as above. *)
RecoveryThrows(q) ==
    /\ Quiet /\ proc[q].pc = "recovering" /\ attempts < MaxRecoveryAttempts
    /\ attempts' = attempts + 1
    /\ Recovered(q, obj)
    /\ UNCHANGED <<promise, verdict, cur, made, commands, prompt, due, channel, opened,
                   session, outstanding, snapVars, tx>>

(* The session answers the test: the stale output is cleared and the command  *)
(* is set up to be sent again, after a delay.                                 *)
RecoveryResponds(q) ==
    /\ Quiet /\ proc[q].pc = "recovering" /\ attempts < MaxRecoveryAttempts
    /\ channel # 0
    /\ attempts' = attempts + 1
    /\ prompt' = IF cur = 0 THEN prompt ELSE [prompt EXCEPT ![cur] = FALSE]
    /\ obj' = [obj EXCEPT ![proc[q].on].sent = FALSE,
                          ![proc[q].on].acknowledged = FALSE,
                          ![proc[q].on].retryCount = @ + 1]
    /\ Goto(q, "resuming")
    /\ UNCHANGED <<promise, verdict, cur, made, commands, due, channel, opened, session,
                   outstanding, snapVars, tx>>

(* validateSessionRecovery succeeds (its echo may leave a prompt behind) and  *)
(* restoreCommandQueueFromPersistence puts the persisted commands back, one   *)
(* unshift each: the first of them ends up behind the others, and the         *)
(* snapshot stays.                                                            *)
ValidationSucceeds(q, leavesPrompt) ==
    /\ Quiet /\ proc[q].pc = "resuming" /\ channel # 0
    /\ attempts' = 0
    /\ prompt' = IF leavesPrompt /\ cur # 0 THEN [prompt EXCEPT ![cur] = TRUE] ELSE prompt
    /\ IF cur = 0 THEN UNCHANGED commands /\ Recovered(q, obj)
       ELSE /\ RoomForCopies
            /\ commands' = [commands EXCEPT ![cur] = Reverse(Copies) \o @]
            /\ Recovered(q, ObjWithCopies)
    /\ UNCHANGED <<promise, verdict, cur, made, due, channel, opened, session,
                   outstanding, snapVars, tx>>

ValidationFails(q) ==
    /\ Quiet /\ proc[q].pc = "resuming"
    /\ Goto(q, "fallback")
    /\ UNCHANGED <<promise, verdict, queueVars, due, linkVars, snapVars, tx>>

(* maxRecoveryAttempts reached: interactive recovery, which may ask for a     *)
(* prompt reset on its way, or error recovery, taken for a success.           *)
InteractiveRecovery(q, flushes) ==
    /\ Quiet /\ proc[q].pc = "recovering" /\ attempts >= MaxRecoveryAttempts
    /\ flushes => Flushes /\ cur # 0
    /\ Recovered(q, obj)
    /\ commands' = IF flushes THEN [commands EXCEPT ![cur] = <<>>] ELSE commands
    /\ prompt' = IF flushes THEN [prompt EXCEPT ![cur] = FALSE] ELSE prompt
    /\ UNCHANGED <<promise, verdict, cur, made, due, linkVars, snapVars, tx>>

(* ... or, when the error counts as unrecoverable, neither. *)
RecoveryGivesUp(q) ==
    /\ Quiet /\ proc[q].pc = "recovering" /\ attempts >= MaxRecoveryAttempts
    /\ Goto(q, "fallback")
    /\ UNCHANGED <<promise, verdict, queueVars, due, linkVars, snapVars, tx>>

(* --------------------------------------------------------------------------*)

Recovery(q) ==
    \/ RecoveryReconnects(q) \/ RecoveryFindsNoSession(q) \/ RecoveryThrows(q)
    \/ RecoveryResponds(q) \/ RecoveryGivesUp(q)
    \/ \E flushes \in BOOLEAN : InteractiveRecovery(q, flushes)
Reconnection(q) ==
    Reconnected(q) \/ ReconnectionValid(q) \/ ReconnectionInvalid(q) \/ ReconnectionFails(q)
Validation(q) ==
    ValidationFails(q) \/ \E leavesPrompt \in BOOLEAN : ValidationSucceeds(q, leavesPrompt)
Send(q) == WriteDone(q) \/ \E delivered \in BOOLEAN : WriteFails(q, delivered)
Loop(q) ==
    LoopEnds(q) \/ HeadTimedOut(q) \/ HeadUnsent(q) \/ HeadAcknowledged(q) \/ CheckPrompt(q)
Timers(q) == SpacingEnds(q) \/ BackoffEnds(q)
ErrorRecovery(q) == \E recovered \in BOOLEAN : ErrorRecoveryEnds(q, recovered)
Processor(q) ==
    \/ Loop(q) \/ Send(q) \/ Timers(q) \/ Recovery(q) \/ Reconnection(q)
    \/ Validation(q) \/ ErrorRecovery(q)

Next ==
    \/ \E c \in Cmds : AddCommandToQueue(c)
    \/ StopSession \/ CleanupSession \/ FlushPendingCommands \/ PersistSessionData
    \/ \E matches \in BOOLEAN : Output(matches)
    \/ \E o \in Objs : TimePasses(o)
    \/ ProcessCommandQueue
    \/ \E q \in Queues : Processor(q)

Spec == Init /\ [][Next]_vars

(* Code runs, timers fire, and every awaited call comes back: writes have a   *)
(* 30 s limit, the tests of the recovery 3 to 5 s, connecting readyTimeout.   *)
(* Nothing is assumed of the shell's output.                                  *)
Fairness ==
    /\ WF_vars(ProcessCommandQueue)
    /\ \A o \in Objs : WF_vars(TimePasses(o))
    /\ \A q \in Queues :
          /\ WF_vars(Loop(q)) /\ WF_vars(Send(q)) /\ WF_vars(Timers(q))
          /\ WF_vars(Recovery(q)) /\ WF_vars(Reconnection(q))
          /\ WF_vars(Validation(q)) /\ WF_vars(ErrorRecovery(q))
FairSpec == Spec /\ Fairness

(* --------------------------------------------------------------------------*)
(* Properties.                                                                *)

(* A caller still waiting finds its command in the queue of the session: the  *)
(* shift() after every await (CommandQueueManager:606, 670, 683, 727) and     *)
(* clearCommandQueue drop only commands they have settled.                    *)
NoCommandLost ==
    \A c \in Cmds : promise[c] = "pending" =>
        /\ cur # 0
        /\ \E i \in DOMAIN commands[cur] : commands[cur][i] = <<c, 0>>

(* One command at a time is on its way, and it is the head: nothing behind it *)
(* was written, acknowledged or marked for recovery before its turn.          *)
OnlyHeadInFlight ==
    \A q \in Queues : \A i \in 2..Len(commands[q]) :
        LET o == commands[q][i] IN
        ~ obj[o].sent /\ ~ obj[o].acknowledged /\ obj[o].retryCount = 0

(* The retry limit bounds how often the shell is sent the line of a call: a    *)
(* recovery that sends a command again uses up two of its retries (one counted *)
(* in TimeoutRecoveryManager:337, one in CommandQueueManager:622). The copies  *)
(* a restoration makes are commands of their own, with retries of their own.   *)
SendsBounded == \A c \in Cmds : 2 * tx[<<c, 0>>] <= MaxCommandRetries + 3

(* A call that was answered as a success had its line written to the shell.   *)
ResolvedWasSent == \A c \in Cmds : promise[c] = "resolved" => tx[<<c, 0>>] > 0

(* The queue never falls asleep on its commands: while the session has a      *)
(* channel and commands wait, a run is in progress or one is scheduled.       *)
NoWakeupLost ==
    cur # 0 /\ channel # 0 /\ commands[cur] # <<>> => due \/ proc[cur].pc # "idle"

(* A queue holds at most maxQueueSize commands ("Command queue full for       *)
(* session", CommandQueueManager:851).                                        *)
QueueBound == \A q \in Queues : Len(commands[q]) <= MaxQueueSize

(* A command is dropped by a processor only from the queue it was taken from  *)
(* and only when it is the one the processor works on.                        *)
DropsOwnCommand ==
    [][\A q \in Queues :
          proc[q].on # NoObj /\ commands[q] # <<>> /\ commands'[q] = Tail(commands[q])
              => Head(commands[q]) = proc[q].on]_vars

(* Every call of addCommandToQueue is answered in the end, or the session has *)
(* lost its channel.                                                          *)
AnsweredOrDisconnected ==
    \A c \in Cmds : promise[c] = "pending" ~> promise[c] # "pending" \/ channel = 0

(* ... and what the class needs: an answer in every case. The poll of line    *)
(* 757 ("Schedule next processing if there are more commands") is not         *)
(* rescheduled by a run that finds no channel.                                *)
Answered == \A c \in Cmds : promise[c] = "pending" ~> promise[c] # "pending"

(* "Commands are properly queued and separated with delays and                *)
(* acknowledgment detection" (examples/ssh-queue-test.ts:12): a line is       *)
(* written when the shell has answered everything before it.                  *)
NoConcatenation == [][outstanding' > outstanding => outstanding = 0]_vars

(* "Attempt error recovery as last resort before failing"                     *)
(* (CommandQueueManager:590): a call succeeds when its command was            *)
(* acknowledged or error recovery did recover it.                             *)
ResolvedMeansDone ==
    \A c \in Cmds : promise[c] = "resolved" =>
        obj[<<c, 0>>].acknowledged \/ verdict[c] = "recovered"

(* "Session terminated" (CommandQueueManager:885): a command rejected for     *)
(* that reason is not written to a shell afterwards.                          *)
TerminatedNotSent ==
    [][\A c \in Cmds : promise[c] = "terminated" =>
          \A k \in 0..MaxCopies : tx'[<<c, k>>] = tx[<<c, k>>]]_vars
=============================================================================
