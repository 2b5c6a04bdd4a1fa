-------------------------- MODULE CommandExecution --------------------------
(* executeCommandInSession (src/core/CommandQueueManager.ts) on one session:   *)
(* a command is sent, its output is attributed by the session's                *)
(* currentCommandId, a line that looks like a prompt completes it, and a poll  *)
(* answers the caller. The shell works through the lines it receives in order, *)
(* and knows nothing of who has given up waiting.                              *)
EXTENDS Naturals, Sequences, SequencesExt, FiniteSets

CONSTANTS Cmds,     \* command ids; each is used for one call
          NoCmd,    \* currentCommandId is undefined
          Tracked,  \* the output of the session goes through addToBuffer
          KeepLasts \* arguments cleanupSessionCommandHistory is called with

ASSUME CommandsAssumption ==
    /\ IsFiniteSet(Cmds) /\ NoCmd \notin Cmds
    /\ Tracked \in BOOLEAN
    /\ KeepLasts \subseteq Nat \ {0}   \* the default is 10; zero drops the present command

VARIABLES
    alive,    \* ConsoleManager has the session
    current,  \* its currentCommandId; executionState is 'idle' exactly if it is undefined
    exec,     \* status of each execution record
    output,   \* per record: the commands whose output it holds
    history,  \* sessionCommandQueue
    call,     \* the caller of each command
    shell,    \* lines the shell has received and not finished, in order
    prompted, \* history: commands the shell finished with a prompt that was looked for
    robbed    \* history: commands that lost the session to the late failure of another

vars == <<alive, current, exec, output, history, call, shell, prompted, robbed>>

Init ==
    /\ alive = TRUE /\ current = NoCmd
    /\ exec = [c \in Cmds |-> "none"]
    /\ output = [c \in Cmds |-> {}]
    /\ history = <<>> /\ shell = <<>>
    /\ call = [c \in Cmds |-> "none"]
    /\ prompted = {} /\ robbed = {}

(* completeCommandExecution: whatever the status was, and whichever command    *)
(* the session is executing. A record that is gone is not completed.           *)
Complete(c, status) ==
    IF exec[c] = "removed" THEN UNCHANGED <<exec, current, robbed>>
    ELSE /\ exec' = [exec EXCEPT ![c] = status]
         /\ current' = NoCmd
         /\ robbed' = robbed \cup ({current} \ {c, NoCmd})

(* Mutant: the execution state of the session is not looked at. *)
StartWhileBusy(c) ==
    /\ alive /\ call[c] = "none"
    /\ current' = c
    /\ exec' = [exec EXCEPT ![c] = "executing"]
    /\ history' = Append(history, c)
    /\ call' = [call EXCEPT ![c] = "sending"]
    /\ UNCHANGED <<alive, output, shell, prompted, robbed>>

(* executeCommandInSession up to the await of sendInput. A session that is not *)
(* idle rejects, with no change of state.                                      *)
ExecuteCommandInSession(c) ==
    /\ alive /\ call[c] = "none" /\ current = NoCmd
    /\ current' = c
    /\ exec' = [exec EXCEPT ![c] = "executing"]
    /\ history' = Append(history, c)
    /\ call' = [call EXCEPT ![c] = "sending"]
    /\ UNCHANGED <<alive, output, shell, prompted, robbed>>

(* The line reaches the shell; sendInput may take longer. *)
LineArrives(c) ==
    /\ call[c] = "sending"
    /\ call' = [call EXCEPT ![c] = "sent"]
    /\ shell' = Append(shell, c)
    /\ UNCHANGED <<alive, current, exec, output, history, prompted, robbed>>

(* sendInput resolves: for a queued line, when the queue has acknowledged it. *)
InputSent(c) ==
    /\ call[c] = "sent"
    /\ call' = [call EXCEPT ![c] = "waiting"]
    /\ UNCHANGED <<alive, current, exec, output, history, shell, prompted, robbed>>

(* sendInput rejects, before the line was written or after: the catch block. *)
InputFails(c) ==
    /\ call[c] \in {"sending", "sent"}
    /\ Complete(c, "failed")
    /\ call' = [call EXCEPT ![c] = "error"]
    /\ UNCHANGED <<alive, output, history, shell, prompted>>

(* The shell prints for the line it works on, finishing it or not. What it     *)
(* prints may look like a prompt in either case. addToBuffer attributes the    *)
(* text to the current command and completes that one; the handler of protocol *)
(* output does neither.                                                        *)
Output(finishes, looksLikePrompt) ==
    /\ alive /\ shell # <<>>
    /\ shell' = IF finishes THEN Tail(shell) ELSE shell
    /\ prompted' = IF finishes /\ looksLikePrompt /\ current = Head(shell)
                   THEN prompted \cup {current} ELSE prompted
    /\ IF Tracked /\ current # NoCmd /\ exec[current] # "removed"
       THEN /\ output' = [output EXCEPT ![current] = @ \cup {Head(shell)}]
            /\ IF looksLikePrompt THEN Complete(current, "completed")
               ELSE UNCHANGED <<exec, current, robbed>>
       ELSE UNCHANGED <<output, exec, current, robbed>>
    /\ UNCHANGED <<alive, history, call>>

(* checkCompletion of waitForCommandCompletion, on each of its conditions.     *)
PollFindsNothing(c) ==
    /\ call[c] = "waiting" /\ exec[c] = "removed"
    /\ call' = [call EXCEPT ![c] = "error"]
    /\ UNCHANGED <<alive, current, exec, output, history, shell, prompted, robbed>>

PollFindsEnd(c) ==
    /\ call[c] = "waiting" /\ exec[c] \in {"completed", "failed"}
    /\ call' = [call EXCEPT ![c] = exec[c]]
    /\ UNCHANGED <<alive, current, exec, output, history, shell, prompted, robbed>>

(* Mutant: the caller is answered and the command left executing. *)
PollTimesOutSilently(c) ==
    /\ call[c] = "waiting" /\ exec[c] = "executing"
    /\ call' = [call EXCEPT ![c] = "timeout"]
    /\ UNCHANGED <<alive, current, exec, output, history, shell, prompted, robbed>>

(* Mutant: a poll looks at the clock before it looks at the status. *)
PollTimesOutFirst(c) ==
    /\ call[c] = "waiting" /\ exec[c] # "removed"
    /\ Complete(c, "failed")
    /\ call' = [call EXCEPT ![c] = "timeout"]
    /\ UNCHANGED <<alive, output, history, shell, prompted>>

(* The time is up: the session is idle for the next command while the shell    *)
(* still has this one.                                                         *)
PollTimesOut(c) ==
    /\ call[c] = "waiting" /\ exec[c] = "executing"
    /\ Complete(c, "failed")
    /\ call' = [call EXCEPT ![c] = "timeout"]
    /\ UNCHANGED <<alive, output, history, shell, prompted>>

(* cleanupSessionCommandHistory: all but the last few records go. *)
CleanupHistory(keepLast) ==
    /\ Len(history) > keepLast
    /\ LET gone == Range(SubSeq(history, 1, Len(history) - keepLast))
       IN  exec' = [c \in Cmds |-> IF c \in gone THEN "removed" ELSE exec[c]]
    /\ history' = SubSeq(history, Len(history) - keepLast + 1, Len(history))
    /\ UNCHANGED <<alive, current, output, call, shell, prompted, robbed>>

(* Mutant: the records of the session survive it. *)
CleanupSessionKeeps ==
    /\ alive /\ alive' = FALSE
    /\ current' = NoCmd
    /\ history' = <<>> /\ shell' = <<>>
    /\ exec' = [c \in Cmds |-> IF exec[c] = "executing" THEN "lost" ELSE exec[c]]
    /\ UNCHANGED <<output, call, prompted, robbed>>

(* cleanupSession and deleteSessionData. *)
CleanupSession ==
    /\ alive /\ alive' = FALSE
    /\ current' = NoCmd
    /\ history' = <<>> /\ shell' = <<>>
    /\ exec' = [c \in Cmds |-> IF exec[c] = "none" THEN "none" ELSE "removed"]
    /\ UNCHANGED <<output, call, prompted, robbed>>

Command(c) ==
    \/ ExecuteCommandInSession(c) \/ LineArrives(c) \/ InputSent(c) \/ InputFails(c)
    \/ PollFindsNothing(c) \/ PollFindsEnd(c) \/ PollTimesOut(c)
Next ==
    \/ \E c \in Cmds : Command(c)
    \/ \E finishes, looksLikePrompt \in BOOLEAN : Output(finishes, looksLikePrompt)
    \/ \E keepLast \in KeepLasts : CleanupHistory(keepLast)
    \/ CleanupSession

Spec == Init /\ [][Next]_vars

(* sendInput settles (a write has a time limit), the poll runs every 100 ms    *)
(* and its time runs out. Nothing is assumed of the shell.                     *)
Fairness ==
    \A c \in Cmds : /\ WF_vars(LineArrives(c) \/ InputFails(c))
                    /\ WF_vars(InputSent(c) \/ InputFails(c))
                    /\ WF_vars(PollFindsNothing(c) \/ PollFindsEnd(c) \/ PollTimesOut(c))
FairSpec == Spec /\ Fairness

(* --------------------------------------------------------------------------*)
(* Properties.                                                                *)

Calling(c) == call[c] \in {"sending", "sent", "waiting"}

(* Every variable has its type. *)
TypeOK ==
    /\ alive \in BOOLEAN /\ current \in Cmds \cup {NoCmd}
    /\ exec \in [Cmds -> {"none", "executing", "completed", "failed", "removed"}]
    /\ output \in [Cmds -> SUBSET Cmds]
    /\ history \in Seq(Cmds) /\ shell \in Seq(Cmds)
    /\ call \in [Cmds -> {"none", "sending", "sent", "waiting",
                          "completed", "failed", "timeout", "error"}]
    /\ prompted \subseteq Cmds /\ robbed \subseteq Cmds

(* A session that is not idle executes a command whose caller waits: however   *)
(* sends fail, polls time out and records are cleaned up, it cannot stay busy  *)
(* with a command nobody will complete and refuse all others.                  *)
BusyForACaller ==
    current # NoCmd => exec[current] = "executing" /\ Calling(current)

(* Output of one command is attributed to another only after the first was     *)
(* given up, or was taken for finished, while the shell still had it, or lost  *)
(* the session to a late failure.                                              *)
ForeignOutputIsLate ==
    [][\A c, h \in Cmds : h \in output'[c] \ output[c] =>
          h = c \/ exec[h] # "executing" \/ h \in robbed]_vars

(* A command is not reported as timed out if the prompt at its end was seen.   *)
(* Violated where the output is not tracked (Tracked = FALSE), against         *)
(* "Polls every 100ms until command completes or timeout",                     *)
(* docs/RACE_CONDITION_SOLUTION_PLAN.md:59.                                    *)
PromptCompletes == \A c \in Cmds : call[c] = "timeout" => c \notin prompted

(* Every call of executeCommandInSession ends. *)
CallsEnd == \A c \in Cmds : Calling(c) ~> ~Calling(c)

(* "Wait for current command to complete." (line 331). Violated: the catch     *)
(* block completes a command the prompt had completed already, and makes the   *)
(* session idle under the next one.                                            *)
OneCommandExecutes == Cardinality({c \in Cmds : exec[c] = "executing"}) <= 1

(* getCommandOutput: "Return the output that was captured for this command"    *)
(* (line 281). Violated after a timeout: the prompt and the output of the      *)
(* first command go to the second.                                             *)
OutputIsOwn == \A c \in Cmds : output[c] \subseteq {c}
=============================================================================
