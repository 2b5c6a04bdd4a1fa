# A formal model of the console-automation server

This directory holds TLA+ modules for the parts of the server in which the order of
events matters, the TLC configurations that check them on small instances, and proofs,
checked by TLAPS, that hold for every size. Paths such as `src/core/SessionManager.ts`
are relative to the root of the repository; `PROJECT.json` names every modelled line.

Contents

1. The system: its components, their state and how they interact
2. The modules and how they correspond to the code
3. The runs: what they check, their bounds and why these are enough
4. Fairness
5. What is proved, from what, and how
6. What is only model-checked
7. Where the code and its documentation disagree
8. What is not modelled, and the plan

## 1. The system

The program is a Model Context Protocol server. A tool call reaches `mcp/server.ts`,
which calls `ConsoleManager` (sessions, commands, output) or `SessionManager` (background
jobs). Everything runs on one Node.js event loop: a callback runs to its end, or to its
next `await`, before another one starts. There are no data races, and yet there is much
concurrency: between an `await` and its continuation any other callback may run, timers
fire late or after their reason is gone, child processes and shells end when they like,
and the process itself may be restarted. The test framework under `src/testing` has worker
threads besides, which share no memory with the main thread.

| Component | State it keeps | Operations | Talks to | What makes it correct |
|---|---|---|---|---|
| Background jobs (`SessionManager`) | map of jobs, queue sorted by priority, set of active jobs, counters; a child process and a timer per running job | submit, process the queue, cancel, clean up, destroy; `close`, `error`, timeout | child processes, `setImmediate` | never more slots than allowed, none lost; no job forgotten; priority order; each job counted once |
| Retry manager (`RetryManager`) | a circuit breaker per key, map of active retries | `executeWithRetry`, resets, destroy | used by `ConsoleManager` for creation and input | breaker and counters agree whatever ends late; attempts bounded; every call ends |
| SSH command queue (`CommandQueueManager`) | per session: list of commands with their promises, output buffer, prompt, "processing" flag | add, process, acknowledge, time out, clear, flush, restore | SSH channel, timeout recovery, persistence, error recovery | no call lost or left waiting, one line at a time, bounded repetition |
| Timeout recovery (`TimeoutRecoveryManager`) | attempts per session | `attemptTimeoutRecovery`: test, reconnect, validate, resume, backoff | queue, `ConsoleManager.createSSHConnection` | attempts bounded, the command resumed or given back |
| Session persistence (`SessionPersistenceManager`) | pending commands of each session, bookmarks | snapshot by timer, restore, delete | queue | a restored command answers no call a second time |
| Session registry (`SessionManager`) | entry per session: status, attempts; recovery timers; a file | register, update, pause, resume, health check, recover, clean up, persist, load | `ConsoleManager` through the event `sessionRecoveryAttempt` | bounded; recovery driven, ended, given up only when exhausted; a restart brings back what was |
| Command execution (`CommandQueueManager`) | an execution record per command, the session's current command, its history | execute and wait, attribute output, complete by a prompt, clean up | queue, output of the session | output goes to the command it belongs to, the session never stays busy for nobody, every call ends |
| Sessions (`ConsoleManager`) | map of sessions, protocol sessions, buffers, resource monitor | create with retries, one-shot command, input, stop, recover | protocols, registry, retry manager | output whole and apart, no process lost, calls answered once; a recovery replaces only what failed |
| Child-process protocols (`protocols/*`, `BaseProtocol`) | a child process per session, the protocol's own entries, a kill timer | spawn, input, close; output, `close`, `error` | events to `ConsoleManager`, child processes | the events of a session come in order and reach that session only |
| Connection pool (`ConnectionPool`) | connections of a host, their session counts and health, a breaker | get, release, reconnect, check, clean up, shut down | SSH clients | no dead connection handed out, none in use dropped |
| Worker pool (`testing/WorkerPool`) | queue of tasks, map of workers, timer per task, heartbeat monitor | submit, assign, message, timeout, error, exit, replace, shut down | worker threads, `ParallelExecutor` | own answers, each task run once, every posted task answered, each end made good for if a worker can be made, shutdown ends |
| Workflow engine (`WorkflowEngine`) | an execution's tasks, approvals, status | execute, approve, retry, cancel, clean up | commands, people who approve | dependencies first, completed means done, the answer ends it |
| Snapshot recovery, health orchestrator, heartbeats, triggers, streams | see section 8 | | | |
| Remote protocols, detection, filters, reports, configuration | adapters and functions over text | | | |

The hard behaviours, each listed at its line under "hazards" in `PROJECT.json`:

- *State read before an `await` and used after it*: the command processor shifts "the
  head" after each of four awaits; the job runner's activation resumes after a
  cancellation has freed its slot; a session is stored as running whatever became of it
  while its protocol was awaited; a health check reports a client that has closed since.
- *Timers that outlive their reason*: task timers of a worker that has exited, recovery
  checks that judge another chain's attempt, reconnections of what the pool has dropped.
- *Somebody must look again*: cancelling a job wakes nobody; a processor that returns
  early must have scheduled the next run; a recovering session must have a timer.
- *Late results*: a success of a call admitted before the breaker opened; a message of
  a terminated worker; a prompt that arrives after the timeout; events of an old session
  on handlers that all sessions of a protocol share.
- *Partial failure*: a registry that refuses the session the console has just made; a
  message that cannot be posted, after the worker was marked busy; a replacement that
  cannot be created, and a file that cannot be written, both only logged.
- *Joins*: the tasks of a workflow's round end in any order, in error or after a retry.
- *Restart*: the registry is read back from its file, with recoveries under way and
  writes behind it that failed.

## 2. The modules

One module per component; an `MC` module next to each fixes instances for TLC, a
`_proofs` module holds its theorems (`Pools_proofs` those of both pools; it extends the
two modules, so the names of `ConnectionPool` that `WorkerPool` has too begin with `CP`:
`CPInit`, `CPNext`, `CPShutdown`, ...).

### BackgroundJobs

`executeBackgroundJob`, `processJobQueue`, `runJob`, `cancelJob`, `cleanupCompletedJobs`
and `destroy` of `SessionManager`. An action is one callback with the promise
continuations that drain before the next one. `backgroundJobs`, `jobQueue` and
`activeJobs` are the fields of those names; `awaiting` stands for the suspended
activations of `processJobQueue`, `wakeups` for the `setImmediate` callbacks scheduled
and not yet run, `proc` for the operating-system process. `ProcessJobQueue(q, s)` is the
synchronous part, up to the `await`; `Settle` is everything after it, the `catch` and the
wake-up included, and does nothing for a promise that is settled already. The sort of the
queue is part of the action: `SortByPriority` gives each position its rank, which is the
stable sort of the language.

A process may ignore SIGTERM for ever: it is spawned with `shell: true`, no other signal is
ever sent, and `close` waits for everybody who holds its output. So nothing is assumed of a
killed process, and what `JobsMoveOn` promises is worded accordingly: a started job is
accounted for, and a queued one leaves the queue, *unless* a job was cancelled whose process
lingers (`Lingers`). A cancellation sets `cancelled`, which the job's timer looks at and
then does nothing, so only the process can give that slot back.

Abstracted: output, exit codes other than zero or not, and time (a timer may fire at any
moment, a cut-off date may separate the finished jobs in any way).

### RetryManager

`executeWithRetry` as a coroutine with a program counter per call: attempting, waiting for
its delay, ended. `isCircuitOpen` has a side effect (an open breaker whose window is over
becomes half-open); it is part of `ExecuteWithRetry`. `RecordSuccess` and `RecordFailure`
are the functions of these names. One breaker key is modelled, because keys do not
interact. `probing` is a history variable, used only by a property.

Abstracted: which errors a strategy retries (either), delays, the clock (kept: whether
`nextAttemptTime` has passed). The failure count is kept up to the threshold, since the
code compares it with nothing else.

### CommandQueue

One SSH session: its queue object, the run of `processCommandQueue` on it and each of its
awaits, with `TimeoutRecoveryManager.attemptTimeoutRecovery` and the reconnection it calls,
the snapshots of `SessionPersistenceManager`, and the four ways a queue is emptied. `proc`
holds the program counter of each run; `loop` and `check` lie inside a synchronous stretch,
and `Quiet` keeps everything else out while a run is there. A queue object survives in a
suspended run after `commandQueues` has a new one, so several may exist; a command
restored from a snapshot is a copy, which has no promise.

The queue is driven only for sessions with an entry in `sshChannels`, which the present
`createSession` does not make: it uses the unified protocol path, and recovery alone
reaches `createSSHConnection`. The class is modelled at its public interface, as the
methods of `ConsoleManager` use it.

Abstracted: text (a prompt is seen or not), delays, which recovery test fails. The shell
may print, and print what reads like a prompt, without having been asked. Every queue has a
prompt pattern from its start; prompt detection switched off (lines 745 to 751 of
`CommandQueueManager.ts`) is not modelled. The bookmark awaited after a write (line 714) is
made of data in memory and gives way to no timer and no input, so no step ends there.

### CommandExecution

`executeCommandInSession` on one session: the send, its failure, the poll every 100 ms and
its time limit; `processOutputForCommandTracking`, which gives every line to the session's
current command and takes a line that looks like a prompt for its end; and the two
cleanups. `shell` is what the shell has received and not finished: it works in order and
knows nothing of who has given up. `prompted` and `robbed` are history variables. `Tracked`
says whether output passes through `addToBuffer`; sessions made by the present
`createSession` do not (`handleProtocolOutput` fills the buffer itself), those of the
methods moved out of it do.

Abstracted: text; how `sendInput` settles, which `CommandQueue` models; `keepLast` is at
least 1, since 0 would drop the command under way (nothing in the program calls it so).

### Protocols, Console, CallService

`Protocols` gives each of 41 protocol classes that run one child process per session as a
record of what its methods do: how often a chunk is emitted, what `close` and `error`
cause, how `closeSession` signals, what its event carries. Most classes repeat one text,
so most records are equal; each is mapped to its own file all the same.

`Console` is `ConsoleManager` on such a protocol: `createSession` with its limit, retries
and failure reports, one-shot `executeCommand` with its listener and timer, `sendInput`,
`stopSession`, the resource monitor, and every event the protocol sends. `phase` is where
the call that made the session is; each await that lets others in is a phase. Between the
spawn and the moment the caller has its session nothing else runs, so that is one action.
`said` is what the protocol emitted, `buffer` and `heard` what the two receivers hold.

`CallService` is the abstract specification: a call is begun once, answered or failed
once, and its answer is all that was said in its name while it was pending, in order, with
nothing of another call's. `Console` implements it (`ImplementsCallService`).

Abstracted: commands and arguments, exit codes, the text of output (a chunk is plain or
reads like an error). What the source does and a reader may not expect: `LocalProtocol`
emits every chunk twice; late output makes a new buffer for a session that was stopped; a
`session-closed` event with a bare id never answers a one-shot call, which then ends by its
timeout; a session stopped while it is created comes back. `Console` and `Sessions` are two
views of one program, each with the other's half as choices: here the registry only
accepts or refuses, there a creation only succeeds or fails.

### ConnectionPool

One host key of the pool. `getConnection` reuses any healthy connection and dials only if
there is none; everything up to the connect is one action. Clients close when they like;
`test` remembers whether the client a health check looked at has lived on, since the check
writes its result later. A check that gives a warning leaves the connection healthy and
counts as a failure with the breaker. A connect that succeeds does not close the breaker,
only health checks do. The program constructs the pool and shuts it down, but
`createPooledSSHSession`, its only user, has no caller: the class is modelled at its public
interface.

### Sessions

Both tables that keep a session. `console` is `ConsoleManager.sessions`, `call` the
`createSession` or `executeCommand` under way, `registry` is `SessionManager.sessions`,
`timers` the pairs of recovery timers (delay, then check), `disk` the file. The awaits on
the registry's own methods resume in the same turn, so a registry operation is one action,
its `persistSessions` included where the code calls it. `RecoveryAttempt` is the timer and
the handler `ConsoleManager` has for its event; `RecoveryCheck` is the look five seconds
later. `Restart` ends the program at any moment and reads the file. `old` is a history
variable: ids read from the file and not touched since.

`persistSessions` catches and logs a write that fails, so `Persisted` has three outcomes:
the file is what the registry is; the write failed and the file is what it was; the write,
or the program within it, was cut short and the file cannot be parsed, which a start takes
for an empty one. `unsaved` is a history variable: the sessions whose own last write
failed (all of them, when the file was cut short). The next write that succeeds writes
everything, and empties it. A program that ends after a change and before its write is
the second outcome followed by `Restart`.

Abstracted: health scores (a running session may fail its check), activity, statistics,
the SSH and container specifics of a session's type. The types are local and "other",
which the recovery ignores; a recovery of an SSH session can only be refused at once, so
what it does is a part of what a local one does.

### WorkerPool, TaskService

The pool of `src/testing/WorkerPool.ts`. `createWorker` is async in name only, so each
handler is one action; `assignTasks` is a part of the handlers that call it, and of no
other, which is what the violated property of section 7 is about. `thread` and `running`
are the worker thread's side: a terminated thread may still deliver the message it has
sent, and exits later. `CreateWorker` may fail (`new Worker` throws): its callers only log
that, the id is used up, and nothing tries again, so the pool stays short until an exit or a
timeout happens to make one more. `Unmade` are the ids of such workers, and `NeverShort`
promises no more than the code does: an open pool is short by at most the replacements that
could not be created. `Hooked` are the tasks of tests with a setup or teardown function,
which structured cloning refuses: `postMessage` throws after the worker was marked busy.

`TaskService` is the abstract specification: tasks are given out in the order in which they
were submitted, each once; a task that waits does not fail; each caller is answered once,
with the result of its own task or an error. It knows neither workers nor timers: `held`
are the current tasks of all workers, and an answer is accepted from whoever holds the
task. `WorkerPool` implements it (`ImplementsTaskService`).

Abstracted: results (a result is the task it is the result of), durations, statistics, an
`initialize` that fails because a first worker cannot be created.

### Workflow

One execution of `executeWorkflow`: rounds of ready tasks, each a promise of `executeTask`,
joined by `Promise.allSettled`. `phase` is how far a task's promise is (approval, body,
retry delay, retry, settled); `RoundEnds` and the four actions after it are the loop.
`leftRunning` are tasks whose record a retry has set to `running`: nothing sets it again.
A round without tasks then follows another without giving up the thread, which is why
`Spinning` disables every other action. The retry counts its attempts in a record that is
made anew in each round, so a task is retried once per round, whatever `maxAttempts` says,
and with an `onError` other than `fail` a failing task is ready again in every round.
A workflow with `state-machine` among its dependencies gets a machine without tasks.

Abstracted: variables, outputs, conditions' values; a body is one step, so the subtask of a
parallel block (`generateParallelSubtasks` gives it one, the task itself), iterations and
subworkflows are not told apart. No entry point of the server constructs the engine.

### Mutants

Next to several definitions stands a variant under a comment "Mutant": the definition with
the mistake that its property guards against (a missing reset, a swapped order, a guard off
by one). `PROJECT.json` pairs each property with one, and TLC finds the property violated
when the variant takes the definition's place. They are used by nothing else.

## 3. The runs

Times are for two TLC workers.

| Run | Instance | What it shows |
|---|---|---|
| `jobs_check` | 3 jobs, 2 priorities, 1 slot; 300 700 states | slots come back, no wake-up is lost, priority order, each job counted once; started jobs are accounted for and queued ones leave the queue unless a cancelled process lingers; 2 min |
| `retry_check` | 3 concurrent calls, 2 attempts, threshold 2, 2 successes to close; 19 353 states | breaker and counters agree whatever ends late; every call ends |
| `queue_check` | 2 commands, queue of 2, 2 retries, 1 recovery, 2 channels, 2 queue objects, stop and cleanup; 171 915 states, 1 min | no call is lost, no wake-up is lost, a run drops only its own command, no line is written more often than the retry limit allows, every call is answered or the session has lost its channel |
| `queue_restore` | 1 command, a snapshot restored up to twice, flushes; 1 449 353 states, 1 min | a success means that the line was written, copies and flushes notwithstanding |
| `commands_check` | 3 commands on one session, cleanups at any moment; 539 575 states, 2 min | the session is busy only for a caller, foreign output has one of three causes, a seen prompt is never a time-out, every call ends |
| `console_check` | 2 sessions, `LocalProtocol` and `PowerShellDirect`, 2 attempts; 355 116 states, 1 min | outputs whole and apart, no created process lost, no input to a closed process, every call ends, `CallService` implemented |
| `sessions_safety` | 2 sessions, local or "other", 2 attempts, 2 tries, 2 timers, at most 3 in all; 1 517 509 states, 2 min | none is given up early, no recovery is forgotten |
| `sessions_restart` | 2 local sessions, registry of 1, writes that fail, a restart at any time; 428 412 states, 3 min | a restart forgets a session or brings it back as it was, but for those whose last write failed; recovery ends |
| `pool_check` | 2 callers, 2 connections, limit 1, threshold 2; 85 084 states | no closed connection is handed out, none in use dropped, a broken one comes back or is given up |
| `workers_check` | 3 tasks, one hooked, 2 workers, 2 failures; 314 112 states, 2 min | `TaskService` implemented, posted tasks answered, short by no more than the replacements that could not be created, shutdown ends |
| `workflow_check` | 3 tasks in 5 shapes, conditions, approvals, retry policies, 3 failures; 29 359 states | dependencies first and nothing twice, completed means done, nothing outlives the answer, an execution without retries ends |
| `console_force_kill` | 1 session of every protocol | violation: the timer that should escalate sends no signal |

Bounds, and why they are enough. Every property is about one or two actors and what
overtakes them, so an instance must have one more actor than there is room for:

- *Jobs*: three jobs on one slot give a running one, one chosen and one passed over, with
  equal and different priorities. The proofs cover every number.
- *Retry*: the threshold and the successes needed are 2, the least at which "one is not
  enough" differs from "one is"; the third call ends late while two others move the
  breaker. `MaxAttempts` 2 has a first, a last and a wait between.
- *Queue*: two commands are a head and one behind it. `MaxCommandRetries` is the code's 2.
  `MaxQueues` and `MaxChannels` 2 let an old run meet a new queue and a new channel. A full
  queue and a refused caller are in `MCCommandQueue_safety.cfg` (below). `MaxSnapshots` and
  `MaxCopies` bound how often the persistence timer and the restoration act;
  `FewOutstanding` (restore run only) stops an instance when the shell is more than one
  line behind: a copy and its original are then already both written.
- *Commands*: a command that is late, one that gets its output, and one that is refused or
  follows.
- *Console*: two sessions may share a protocol object or not, and the two profiles differ
  in every field of the record. One chunk (which may be emitted twice) and one input per
  session; the proofs hold for every number of them and for all protocols. `MaxSessions` 1
  makes the limit bite.
- *Sessions*: one session can be the recovery of the other. `MaxTimers` 2 allows two
  overlapping chains of attempts, the least at which one judges the other's; it bounds
  only calls that lengthen a chain. `MaxRestarts` 1: a second restart starts from states
  the first one reaches. `MaxUnsaved` bounds the sessions the file is behind about when a
  write fails: 1 lets a write fail before or after one that succeeds, and a failed write be
  the last before the end. Writes are only told to fail while a restart is to come, since
  nothing else reads the file; `sessions_safety`, which has no restart, has none fail. It
  also has two constraints: `ThreeTimers`, two chains of attempts on one session and one on
  the other, never two on both; and `OthersAlone`, one session at a time where sessions are
  of a type the recovery ignores, for there none is made as the recovery of another.
  `Typings` says which kinds of sessions occur.
- *Pool*: two callers pass the limit of one together, and one may use what the other
  releases; one reconnection may fail and the next is one too many.
- *Workers*: two workers and three tasks leave one queued; `MaxFailures` 2 are two of
  a thread that fails, a heartbeat missed and a replacement that cannot be created: the
  least with which the replacement of a thread that failed is not made. `WorkerIds` has
  room for every replacement that tasks and failures can cause.
- *Workflow*: the five shapes are a round of all, a round each, a join, a cycle that shows
  after a task and one that is there at once. `MaxFailures` 3 lets every task fail, or one
  in three rounds.

Deadlock is not checked: each of these systems may stop (no caller, nothing running).

Further configurations, for a reader who wants to see a counterexample or a larger
instance. The first one holds, all others end in a violation of the properties they name,
each of which is quoted with its source in the module. Where a configuration names more
than one property, `tlc -continue` reports them all:

| Configuration | Shows |
|---|---|
| `MCCommandQueue_safety.cfg` | three commands on a queue of two, 1 083 123 states: the safety properties hold, `SendsBounded` and `QueueBound` among them |
| `MCBackgroundJobs_cancel.cfg` | a cancelled job ends as `failed` or `completed`; one cancelled while it waits is started all the same; cancelled processes that have not ended come on top of the five; behind a cancelled job whose process ignores the signal, queued jobs wait for ever |
| `MCRetryManager_halfopen.cfg` | a half-open breaker lets any number of calls through |
| `MCCommandQueue_resolved.cfg` | a call succeeds although nothing recovered its command |
| `MCCommandQueue_Answered.cfg` | without a channel the poll stops, and callers wait until the session is cleared |
| `MCCommandQueue_flush.cfg` | flushing for a prompt reset drops commands without settling their promises |
| `MCCommandQueue_concat.cfg` | a line may be written before the shell has answered the one before |
| `MCCommandQueue_terminated.cfg` | a command rejected as terminated may still be written by the suspended run |
| `MCCommandExecution_timeout.cfg` | on a session of `createSession` a prompt completes nothing, and the call times out |
| `MCCommandExecution_late.cfg` | after a timeout the output of one command goes to the next; a late failure of a send makes the session idle under another command |
| `MCConsole_leaves.cfg` | a one-shot call that times out leaves its process running |
| `MCConnectionPool_limit.cfg` | callers that arrive together exceed the limit per host |
| `MCConnectionPool_shutdown.cfg` | a connection is opened after `shutdown` |
| `MCWorkerPool_accepted.cfg` | a queued task is never assigned after a timeout |
| `MCWorkerPool_bounded.cfg` | the timer of an exited worker makes one worker too many |
| `MCWorkflow_ends.cfg` | after a retry the loop turns for ever |
| `MCWorkflow_refused.cfg` | a task whose approval was rejected runs as a retry |

## 4. Fairness

Safety runs use `Spec`. The others assume only what the platform gives: the event loop
runs every immediate and every timer that is due, and an operation with a time limit comes
back.

- *Jobs*: immediates run and `JobTimeout` fires. Nothing makes a process end, whether it
  was sent SIGTERM or not.
- *Retry*: an operation settles, a delay ends, the window passes. Callers need not call.
- *Queue*: the code's own steps and timers, and calls with a limit (writes 30 s, the tests
  of the recovery 3 to 5 s, connecting `readyTimeout`). Nothing is assumed of what the
  shell prints: `AnsweredOrDisconnected` holds for a shell that is silent for ever.
- *Commands*: `sendInput` settles, the poll runs and its time runs out. The shell owes
  nothing.
- *Console*: what is awaited comes back (registration, spawn, reports), delays and the
  timers of calls fire. Processes owe nothing: they may ignore signals and never end.
- *Sessions*: recovery timers fire. Nothing is assumed of callers and protocols.
- *Pool*: reconnection timers fire and a dial, which has a time limit, ends somehow.
- *Workers*: task timers fire, failed threads report, terminated ones exit, the poll of
  `shutdown` runs. A test need not end.
- *Workflow*: bodies end (commands and waits have time limits, requests those of `fetch`),
  retry delays end, the loop goes on;
  an approval is given or refused. Nothing in the code limits an approval, so this last one
  is a condition on people. That failures end is the bound `MaxFailures`.

All fairness is weak: each of these steps, once due, stays due until it is taken or the
code cancels it.

## 5. What is proved

Each theorem holds for every value of the constants, from the assumptions the module
states (`JobsAssumption`, `BoundsAssumption`, `SessionsAssumption`, `ConsoleAssumption`,
`WorkerPoolAssumption`, `PoolAssumption`, ...: finite sets, positive limits, names that
differ). The argument is always the same: `Init => IInv`, one lemma per action (or per
kind of change) for `IInv /\ [Next]_vars => IInv'`, and `IInv => P`. A property of steps
is proved of every step from a state that satisfies `IInv`. Each inductive invariant was
model-checked before it was proved. Every safety property that a run checks, of states or
of steps, is a theorem, and so are the two refinements (of `CallService` its safety part).

| Module | Theorems | The inductive invariant and why it is needed |
|---|---|---|
| `BackgroundJobs_proofs` | `TypeCorrect`, `SlotsAreBounded`, `SlotsComeBack`, `NoWakeupIsLost`, `MetricsAddUp`, `JobsStartInPriorityOrder` | All the invariants at once, with `AwaitedWereStarted` and `UnsubmittedLeavesNoTrace`. `NoLostWakeup` is not inductive alone: a cancellation frees a slot silently, so a free slot is harmless only because its activation is still awaited (`SlotsAreReleasable`); the counters need that a job starting is counted nowhere (`QueueHoldsFreshJobs`). Four lemmas say that the sorted queue is a permutation: ranks differ, so they hit every position. Priority order rests on the same ranks: the head has rank one, so nothing in the queue is more urgent. |
| `RetryManager_proofs` | `BreakerStaysConsistent`, `BudgetIsKept`, `ActiveRetriesDoNotLeak`, `OpenBreakerWaits` | The breaker's and the calls' parts are independent; one lemma per function that writes the breaker. An entry of the map belongs to a call in flight because the call that put it there removes it, or another has before. A late success meets an open breaker in `RecordSuccess`, which leaves it open; that is all `OpenBreakerWaits` needs besides the types. |
| `CommandQueue_proofs` | `SuccessWasSent`, `CommandsAreKept`, `QueueStaysAwake`, `ProcessorDropsItsOwn`, `RunningQueueStaysAwake`, `RunningProcessorDropsItsOwn`, `CallsAreSentBoundedly`, `OnlyTheHeadIsSent`, `QueueStaysWithinItsLimit` | See below. |
| `CommandExecution_proofs` | `TypeCorrect`, `BusySessionHasACaller`, `SeenPromptIsNoTimeout`, `ForeignOutputComesLate` | `BusyForACaller` is not inductive alone: a call must have its record (`CallsHaveRecords`) and the current command must be the last of the history, so that the cleanup, which keeps the last ones, cannot drop it (`CurrentIsLast`). A record that is executing and not current was robbed of the session by a late failure (`OthersWereRobbed`), which leaves the three causes of foreign output. |
| `Console_proofs` | `TypesHold`, `BuffersStayWhole`, `AnswersAreWhole`, `ProcessesStayReachable`, `InputReachesOpenProcess`, `CallServiceImplemented` | `Fine(s)` says of one session what is so before its process is spawned (`Unspawned`) and after (`Spawned`, `Kept`); a step changes one session, and a lemma carries the others. A buffer is whole because a session gets its buffer and its handlers in the same turn in which its process is spawned. The refinement is proved step by step: each action begins, says, answers, fails or stutters. |
| `Sessions_proofs` | `TypeCorrect`, `GivenUpOnlyWhenExhausted`, `RecoveriesAreDriven`, `RegistryStaysBounded`, `FileStaysCurrent`, `RestartsRestore` | The file has to satisfy what the registry does (`FileExhausted`), since a restart reads it back; a call that waits must have a try left. Two lemmas, "one entry changes" and "only timers change", carry every action. The file must agree on the status only, and only about sessions whose last write did not fail: a failed write leaves the file as it was, which is right about every session but the one just changed, or cuts it short, and then all are excepted (`FileHolds`). What `Restart` reads is therefore what was, or nothing. The recovery check that finds a session still recovering, or recovered, does not write the file, but changes only the attempts; and it cannot be the first to touch an entry read at a restart, which may differ in status, because such an entry has no timer (`OldIsUntimed`). |
| `Pools_proofs`, workers | `AnswersStayOwn`, `TasksRunOnce`, `PostedStaysWatched`, `PoolNeverShort`, `TaskServiceImplemented` | `Consistent` relates queue, current tasks, timers, threads and promises, before `assignTasks` and after it, since a handler first changes the one and then calls the other. A message is attributed to the worker's current task, so the proof needs that the thread has that very task (`run[w] = tk[w]`). The size of the pool is a count: ids given out, to workers made or not, and tasks that may still time out are together at most `MaxWorkers` plus tasks plus failures, so a replacement always has an id of its own (`PoolInv`); a creation that fails (`Creation`, `CreationCounts`) takes an id and adds a failure. For the refinement `assignTasks` must give out the first tasks of the queue and no others: the ranks of the idle workers are exactly 1 to their number (`RanksAreAll`), so no task is skipped and none is given out twice. |
| `Pools_proofs`, connections | `CPTypeCorrect`, `HandedOutIsAlive`, `UsedStaysPooled` | A pooled connection counts exactly its users (`UsersAreCounted`: reuse adds one, a release takes one away, a reconnection neither), so the idle cleanup takes none in use. A check that may still succeed looks at a client that has not closed (`TestedHasLived`), and a pooled client is open or closed (`PooledIsOpenOrClosed`), so a late result marks only an open one. A connection under way to its first caller is left alone by all else (`DialsAreAlone`). |
| `Workflow_proofs` | `TypeCorrect`, `AnsweredIsQuiet`, `CompletedIsDone`, `BodiesStartInOrder` | A task outside the round is idle (`OnlyRoundMoves`), and the tasks of a round have their dependencies done and are not done themselves (`RoundIsReady`). The answer comes only after a round has settled, so nothing outlives it, and a body that begins, or begins again, is one of the round. |

`CallServiceImplemented` and `TaskServiceImplemented` are proved step by step: initial
states map to initial states, and every step to a step of the abstract specification or a
stutter. `CallServiceImplemented` states the safety part of `CallService`, whose liveness
stays with TLC.

**The command queue.** Its invariant has three parts. `Written` holds always: a command
that counts as sent was written, and so was one that a pass has behind its write, whatever
its recovery has made of the command since; this is all `SuccessWasSent` needs. `Kept`
holds unless a prompt reset empties the queue (`~ Flushes`): a caller that waits has its
command in the first queue of a running session, and between two awaits the head of that
queue is the command the pass works on. `Awake` holds unless commands are restored from a
snapshot (`MaxSnapshots = 0`, no snapshot has been taken): only the first queue ever has
commands. Hence the hypotheses of three theorems:

- `CommandsAreKept` assumes no flushes, and nothing about snapshots (the run has none).
- `QueueStaysAwake` assumes no snapshots. `ProcessorDropsItsOwn` assumes that there are
  neither flushes nor snapshots.
- `RunningQueueStaysAwake` assumes nothing, and `RunningProcessorDropsItsOwn` no flushes,
  but both speak only of a session that has not been stopped.

Two further invariants are built on it. `WritesInv` counts how often the line of a call is
written. It needs no hypothesis, since a call's own command, unlike a restored copy, is
nowhere but in the first queue: there once, and at the head while the pass works on it
(`Located`). Twice the writes are at most the retries counted plus a credit (`Paid`): 2
for a write whose outcome is open, 1 for one that a recovery has called back and counted
half of. A recovery that lets the command be sent again has counted two retries by then,
one in `TimeoutRecoveryManager` and one in the queue's catch block, and it starts only
below the limit; so `2 * tx` stays within `MaxCommandRetries + 3`, and the code's
limit of 2 allows two writes (`CallsAreSentBoundedly`). Restored copies are commands of
their own, with counters that start anew, and are not bounded so: the suspended pass of an
old queue may put a further copy before the one that the pass of the new queue is writing,
whose write is then charged to the other.

`Orderly` says that what waits behind the head has never been sent and that the first queue
respects its limit. It assumes no snapshots, but allows flushes, and gives
`OnlyTheHeadIsSent` and `QueueStaysWithinItsLimit`: a restoration puts copies before a head
that was sent, and `unshift` does not look at `maxQueueSize`.

None of the hypotheses can be dropped, as TLC shows: a flush drops commands whose callers
wait (`MCCommandQueue_flush.cfg`), and may let a pass drop another command than its own;
and a recovery that reconnects a session stopped meanwhile makes a queue with the restored
commands and schedules nothing for it, and the suspended pass of the old queue restores its
commands before the one that the pass of the new queue is sending.
(`MCCommandQueue_check.cfg` with `MaxSnapshots = 1` and `MaxCopies = 2` shows both, with
`-continue` or one property at a time; so it does of `OnlyHeadInFlight` and `QueueBound`,
added to its invariants.) `SeenPromptIsNoTimeout` has the hypothesis
`Tracked`, for the reason that finding 4 of section 7 gives.

## 6. What is only model-checked

- All liveness properties (`JobsMoveOn`, `CallsEnd` of three modules,
  `AnsweredOrDisconnected`, `RecoveryEnds`, `BrokenIsSettled`, `PostedIsAnswered`,
  `ShutdownEnds`, `WorkflowEnds`): a proof would need `ENABLED` and the rules for
  fairness, which the provers at hand do not have.
- The properties of `Console` with the registry of `Sessions` in full: the two are not
  composed.

## 7. Where the code and its documentation disagree

1. **A process that ignores SIGTERM is never killed** (`src/protocols/LocalProtocol.ts:371`,
   run `console_force_kill`). The timer that should escalate tests `process.killed`, which
   Node sets when the first signal is sent; the comment at line 369 says "Force kill after
   timeout (only if process is still running)". Thirty-three protocols repeat the pattern.

Found on the way and shown by the further configurations of section 3, in the order of
their weight:

2. **A workflow with a successful retry may hang the whole program**
   (`src/core/WorkflowEngine.ts:1228`). The record of the retry stays `running`; when all
   is done the loop waits for it in empty rounds, without giving up the thread.
3. **A refused approval is retried as a failure** (`src/core/WorkflowEngine.ts:369`), and
   the retry runs the body without asking. A cancelled execution goes on, and its end
   overwrites the status (line 982).
4. **On sessions of `createSession` no command completes by its prompt**
   (`src/core/ConsoleManager.ts:596`): output goes past the tracking, and
   `executeCommandInSession` ends by its timeout.
5. **A cancelled job ends as `failed` or `completed`** (`src/core/SessionManager.ts:926`),
   though `docs/TOOLS.md:722` lists `cancelled` as a status a job has. If its process ignores
   the signal, the slot is never given back, and queued jobs may never start
   (`QueuedJobsStart`; its process is sent one signal, at line 842), though
   `docs/RACE_CONDITION_SOLUTION_PLAN.md:84` promises a job's full life cycle.
6. **A command that failed is reported as a success**
   (`src/core/CommandQueueManager.ts:593`). `attemptRecovery` returns an object; the code
   tests the object and not its field, so the last resort never rejects.
7. **Queued tests hang after a timeout** (`src/testing/WorkerPool.ts:316`). A worker that
   replaces another is given nothing from the queue until some task ends or is submitted.
8. **Callers that arrive together exceed the pool's limit per host**
   (`src/core/ConnectionPool.ts:149`), and connections may open after a shutdown.

## 8. What is not modelled, and the plan

Not modelled because there is no control to model: the protocols that are adapters of
libraries, command lines and networks (SSH, telnet, clouds, containers by API, displays,
serial lines) and the session managers of single protocols, prompt and error detection,
output filters and pages, reports, the assertion and snapshot part of the test framework,
configuration and logging, the dispatch in `mcp/server.ts`. What they do to a modelled
component is an input of its module.

Not modelled because nothing comes of it: `SessionRecovery`, `HealthOrchestrator` and
`HeartbeatMonitor`. Only sessions registered with the monitoring take part, and
`createSession` reaches no path that registers one; the orchestrator listens for
`heartbeatMissed` and `sessionUnhealthy` while the monitor emits `session-unhealthy` and
`session-critical`; nobody answers `heartbeat-check-request` or the restart, reconnect,
restore, replicate and migrate requests of a recovery, which count as successes.
`TriggerManager`, `DataPipelineManager` and `PersistentSessionStorage` are constructed or
imported by no entry point.

Not modelled within a modelled component: the legacy creation paths of `ConsoleManager`
that `createSession` does not reach, `destroy` of the manager with `dispose` and `cleanup`
of the protocols, bookmarks, statistics and read-only queries.

To come, in this order:

1. **An abstract specification of `ConnectionPool`**: a connection is lent and given back,
   and while it is lent nobody closes it. Its refinement would say in one theorem what
   `HealthyIsAlive` and `UsedIsKept` say apart.
2. **Composition** of `Console` with `Sessions`, and of `CommandExecution` with
   `CommandQueue`, each of which now has the other as choices.
