--------------------------- MODULE Console_proofs ---------------------------
(* Proofs about Console for any number of sessions and any protocols, limits  *)
(* and bounds.                                                                *)
EXTENDS Console, TLAPS

(* Before its process is spawned a session has no output, no entries with the *)
(* protocol, no handlers, no signal and no timer, and its call is not over.   *)
Unspawned(s) ==
    /\ said[s] = <<>> /\ buffer[s] = <<>> /\ heard[s] = <<>>
    /\ ~mapped[s] /\ ~listening[s] /\ ~killed[s] /\ ~timer[s] /\ chunks[s] = 0
    /\ status[s] # "running"
    /\ phase[s] \notin {"ready", "waiting", "answered", "timedout"}

(* After it the call is over, or a one-shot call waits and has heard all.     *)
Spawned(s) ==
    /\ listening[s]
    /\ phase[s] \in {"ready", "waiting", "answered", "timedout"}
    /\ phase[s] = "ready" => kind[s] = "createSession"
    /\ phase[s] # "ready" => kind[s] = "executeCommand"
    /\ phase[s] = "waiting" => heard[s] = said[s]
    /\ status[s] \in {"absent", "running", "stopped"}
    /\ ~mapped[s] => status[s] = "absent"
    /\ status[s] # "absent" => buffer[s] = said[s]

(* A created session that was not stopped runs until its process's end is     *)
(* told; its process has the entry that stopSession needs.                    *)
Kept(s) ==
    /\ kind[s] = "createSession" /\ mapped[s] /\ process[s] # "closed" =>
          status[s] = "running" /\ entry[s] # "absent"
    /\ kind[s] = "createSession" /\ ~mapped[s] /\ process[s] = "alive" =>
          killed[s] \/ timer[s]
    /\ status[s] = "running" => process[s] # "closed"
    /\ phase[s] = "answered" /\ mapped[s] => heard[s] = said[s] /\ process[s] = "closed"

Fine(s) ==
    /\ process[s] = "none" => Unspawned(s)
    /\ process[s] # "none" => Spawned(s) /\ Kept(s)
    /\ phase[s] \in {"failing", "backoff", "registering", "initializing", "reporting"} =>
          kind[s] # "none"
    /\ phase[s] = "backoff" => attempt[s] < MaxAttempts

IInv == TypeOK /\ \A s \in Sessions : Fine(s)

(* A session that a step leaves alone stays as it is. *)
Same(s) ==
    /\ kind'[s] = kind[s] /\ phase'[s] = phase[s] /\ attempt'[s] = attempt[s]
    /\ status'[s] = status[s] /\ mapped'[s] = mapped[s] /\ listening'[s] = listening[s]
    /\ process'[s] = process[s] /\ killed'[s] = killed[s] /\ timer'[s] = timer[s]
    /\ entry'[s] = entry[s] /\ said'[s] = said[s] /\ buffer'[s] = buffer[s]
    /\ heard'[s] = heard[s] /\ chunks'[s] = chunks[s]

LEMMA SameIsFine == ASSUME NEW s \in Sessions, Fine(s), Same(s) PROVE Fine(s)'
BY DEF Same, Fine, Unspawned, Spawned, Kept

LEMMA InitFine == Init => IInv
<1> SUFFICES ASSUME Init PROVE IInv OBVIOUS
<1>1. TypeOK
  BY ConsoleAssumption DEF Init, TypeOK
<1>2. \A s \in Sessions : Fine(s)
  BY DEF Init, Fine, Unspawned
<1> QED BY <1>1, <1>2 DEF IInv

-----------------------------------------------------------------------------
(* The steps, each of one session. *)

LEMMA CreateSessionFine == ASSUME IInv, NEW s \in Sessions, CreateSession(s) PROVE IInv'
<1>1. TypeOK'
  BY ConsoleAssumption DEF IInv, TypeOK, CreateSession, call, child, output
<1>2. Fine(s)'
  BY DEF IInv, TypeOK, Fine, Unspawned, Spawned, Kept, CreateSession, call, child, output
<1>3. \A t \in Sessions \ {s} : Same(t)
  BY DEF IInv, TypeOK, Same, CreateSession, call, child, output
<1> QED BY <1>1, <1>2, <1>3, SameIsFine DEF IInv

LEMMA ExecuteCommandFine == ASSUME IInv, NEW s \in Sessions, ExecuteCommand(s) PROVE IInv'
<1>1. TypeOK'
  BY ConsoleAssumption DEF IInv, TypeOK, ExecuteCommand, call, child, output
<1>2. Fine(s)'
  BY DEF IInv, TypeOK, Fine, Unspawned, Spawned, Kept, ExecuteCommand, call, child, output
<1>3. \A t \in Sessions \ {s} : Same(t)
  BY DEF IInv, TypeOK, Same, ExecuteCommand, call, child, output
<1> QED BY <1>1, <1>2, <1>3, SameIsFine DEF IInv

LEMMA RegisteredFine == ASSUME IInv, NEW s \in Sessions, Registered(s) PROVE IInv'
<1>1. TypeOK'
  BY ConsoleAssumption DEF IInv, TypeOK, Registered, call, child, output
<1>2. Fine(s)'
  BY DEF IInv, TypeOK, Fine, Unspawned, Spawned, Kept, Registered, call, child, output
<1>3. \A t \in Sessions \ {s} : Same(t)
  BY DEF IInv, TypeOK, Same, Registered, call, child, output
<1> QED BY <1>1, <1>2, <1>3, SameIsFine DEF IInv

LEMMA CreationThrowsFine == ASSUME IInv, NEW s \in Sessions, CreationThrows(s) PROVE IInv'
<1>1. TypeOK'
  BY ConsoleAssumption DEF IInv, TypeOK, CreationThrows, call, child, output
<1>2. Fine(s)'
  BY DEF IInv, TypeOK, Fine, Unspawned, Spawned, Kept, CreationThrows, call, child, output
<1>3. \A t \in Sessions \ {s} : Same(t)
  BY DEF IInv, TypeOK, Same, CreationThrows, call, child, output
<1> QED BY <1>1, <1>2, <1>3, SameIsFine DEF IInv

LEMMA ReportedFine == ASSUME IInv, NEW s \in Sessions, Reported(s) PROVE IInv'
<1>1. TypeOK'
  BY ConsoleAssumption DEF IInv, TypeOK, Reported, call, child, output
<1>2. Fine(s)'
  BY DEF IInv, TypeOK, Fine, Unspawned, Spawned, Kept, Reported, call, child, output
<1>3. \A t \in Sessions \ {s} : Same(t)
  BY DEF IInv, TypeOK, Same, Reported, call, child, output
<1> QED BY <1>1, <1>2, <1>3, SameIsFine DEF IInv

LEMMA CallFailsFine == ASSUME IInv, NEW s \in Sessions, CallFails(s) PROVE IInv'
<1>1. TypeOK'
  BY ConsoleAssumption DEF IInv, TypeOK, CallFails, call, child, output
<1>2. Fine(s)'
  BY DEF IInv, TypeOK, Fine, Unspawned, Spawned, Kept, CallFails, call, child, output
<1>3. \A t \in Sessions \ {s} : Same(t)
  BY DEF IInv, TypeOK, Same, CallFails, call, child, output
<1> QED BY <1>1, <1>2, <1>3, SameIsFine DEF IInv

LEMMA PartialSessionCleanedFine == ASSUME IInv, NEW s \in Sessions, PartialSessionCleaned(s) PROVE IInv'
<1>1. TypeOK'
  BY ConsoleAssumption DEF IInv, TypeOK, PartialSessionCleaned, call, child, output
<1>2. Fine(s)'
  <2>1. process[s] = "none" /\ Unspawned(s)
    BY DEF IInv, Fine, Spawned, PartialSessionCleaned
  <2>2. Unspawned(s)' /\ process'[s] = "none"
    BY <2>1 DEF IInv, TypeOK, Unspawned, PartialSessionCleaned, child
  <2>3. kind'[s] = "createSession" /\ attempt'[s] < MaxAttempts
    BY DEF PartialSessionCleaned
  <2> QED BY <2>2, <2>3 DEF Fine
<1>3. \A t \in Sessions \ {s} : Same(t)
  BY DEF IInv, TypeOK, Same, PartialSessionCleaned, call, child, output
<1> QED BY <1>1, <1>2, <1>3, SameIsFine DEF IInv

LEMMA RetryFine == ASSUME IInv, NEW s \in Sessions, Retry(s) PROVE IInv'
<1>1. TypeOK'
  <2>1. attempt[s] + 1 \in 0..MaxAttempts
    BY ConsoleAssumption DEF IInv, TypeOK, Fine, Retry
  <2> QED BY <2>1 DEF IInv, TypeOK, Retry, child, output
<1>2. Fine(s)'
  BY DEF IInv, TypeOK, Fine, Unspawned, Spawned, Kept, Retry, call, child, output
<1>3. \A t \in Sessions \ {s} : Same(t)
  BY DEF IInv, TypeOK, Same, Retry, call, child, output
<1> QED BY <1>1, <1>2, <1>3, SameIsFine DEF IInv

LEMMA CreatedFine == ASSUME IInv, NEW s \in Sessions, Created(s) PROVE IInv'
<1>1. TypeOK'
  BY ConsoleAssumption DEF IInv, TypeOK, Created, call, child, output
<1>2. Fine(s)'
  BY DEF IInv, TypeOK, Fine, Unspawned, Spawned, Kept, Created, call, child, output
<1>3. \A t \in Sessions \ {s} : Same(t)
  BY DEF IInv, TypeOK, Same, Created, call, child, output
<1> QED BY <1>1, <1>2, <1>3, SameIsFine DEF IInv

LEMMA ProcessExitsFine == ASSUME IInv, NEW s \in Sessions, ProcessExits(s) PROVE IInv'
<1>1. TypeOK'
  BY ConsoleAssumption DEF IInv, TypeOK, ProcessExits, call, child, output
<1>2. Fine(s)'
  BY DEF IInv, TypeOK, Fine, Unspawned, Spawned, Kept, ProcessExits, call, child, output
<1>3. \A t \in Sessions \ {s} : Same(t)
  BY DEF IInv, TypeOK, Same, ProcessExits, call, child, output
<1> QED BY <1>1, <1>2, <1>3, SameIsFine DEF IInv

LEMMA ProcessErrorsFine == ASSUME IInv, NEW s \in Sessions, ProcessErrors(s) PROVE IInv'
<1>1. TypeOK'
  BY ConsoleAssumption DEF IInv, TypeOK, ProcessErrors, call, child, output
<1>2. Fine(s)'
  BY DEF IInv, TypeOK, Fine, Unspawned, Spawned, Kept, ProcessErrors, call, child, output
<1>3. \A t \in Sessions \ {s} : Same(t)
  BY DEF IInv, TypeOK, Same, ProcessErrors, call, child, output
<1> QED BY <1>1, <1>2, <1>3, SameIsFine DEF IInv

LEMMA CallTimeoutFine == ASSUME IInv, NEW s \in Sessions, CallTimeout(s) PROVE IInv'
<1>1. TypeOK'
  BY ConsoleAssumption DEF IInv, TypeOK, CallTimeout, call, child, output
<1>2. Fine(s)'
  BY DEF IInv, TypeOK, Fine, Unspawned, Spawned, Kept, CallTimeout, call, child, output
<1>3. \A t \in Sessions \ {s} : Same(t)
  BY DEF IInv, TypeOK, Same, CallTimeout, call, child, output
<1> QED BY <1>1, <1>2, <1>3, SameIsFine DEF IInv

LEMMA StopUnmappedFine == ASSUME IInv, NEW s \in Sessions, StopUnmapped(s) PROVE IInv'
<1>1. TypeOK'
  BY ConsoleAssumption DEF IInv, TypeOK, StopUnmapped, call, child, output
<1>2. Fine(s)'
  BY DEF IInv, TypeOK, Fine, Unspawned, Spawned, Kept, StopUnmapped, call, child, output
<1>3. \A t \in Sessions \ {s} : Same(t)
  BY DEF IInv, TypeOK, Same, StopUnmapped, call, child, output
<1> QED BY <1>1, <1>2, <1>3, SameIsFine DEF IInv

LEMMA KillTimerFine == ASSUME IInv, NEW s \in Sessions, KillTimer(s) PROVE IInv'
<1>1. TypeOK'
  BY ConsoleAssumption DEF IInv, TypeOK, KillTimer, call, child, output, Signalled
<1>2. Fine(s)'
  BY DEF IInv, TypeOK, Fine, Unspawned, Spawned, Kept, KillTimer, call, child, output, Signalled
<1>3. \A t \in Sessions \ {s} : Same(t)
  BY DEF IInv, TypeOK, Same, KillTimer, call, child, output, Signalled
<1> QED BY <1>1, <1>2, <1>3, SameIsFine DEF IInv

LEMMA ResourceMonitorFine == ASSUME IInv, NEW s \in Sessions, ResourceMonitor(s) PROVE IInv'
<1>1. TypeOK'
  BY ConsoleAssumption DEF IInv, TypeOK, ResourceMonitor, call, child, output
<1>2. Fine(s)'
  BY DEF IInv, TypeOK, Fine, Unspawned, Spawned, Kept, ResourceMonitor, call, child, output
<1>3. \A t \in Sessions \ {s} : Same(t)
  BY DEF IInv, TypeOK, Same, ResourceMonitor, call, child, output
<1> QED BY <1>1, <1>2, <1>3, SameIsFine DEF IInv

LEMMA SendInputFine == ASSUME IInv, NEW s \in Sessions, SendInput(s) PROVE IInv'
<1>1. TypeOK'
  BY ConsoleAssumption DEF IInv, TypeOK, SendInput, call, child, output, Ready
<1>2. Fine(s)'
  BY DEF IInv, TypeOK, Fine, Unspawned, Spawned, Kept, SendInput, call, child, output, Ready
<1>3. \A t \in Sessions \ {s} : Same(t)
  BY DEF IInv, TypeOK, Same, SendInput, call, child, output, Ready
<1> QED BY <1>1, <1>2, <1>3, SameIsFine DEF IInv

(* What the protocol emits for one chunk is a sequence of chunks. *)
Piece(p) == [i \in 1..profile[p].copies |-> <<p, chunks[p] + 1>>]

LEMMA PieceType ==
    ASSUME TypeOK, NEW p \in Sessions, chunks[p] < MaxChunks
    PROVE  /\ Piece(p) \in Seq(Chunk)
           /\ profile[p].copies \in 1..2
           /\ chunks[p] + 1 \in 1..MaxChunks
<1>1. profile[p].copies \in 1..2
  BY ConsoleAssumption DEF TypeOK, Profile
<1>2. chunks[p] + 1 \in 1..MaxChunks
  BY ConsoleAssumption DEF TypeOK
<1>3. <<p, chunks[p] + 1>> \in Chunk
  BY <1>2 DEF Chunk
<1>4. profile[p].copies \in Nat
  BY <1>1
<1>5. Piece(p) \in [1..profile[p].copies -> Chunk]
  BY <1>3 DEF Piece
<1> QED BY <1>1, <1>2, <1>4, <1>5

(* Output reaches the session of its process alone. *)
LEMMA OutputFine ==
    ASSUME IInv, NEW p \in Sessions, NEW text \in {"plain", "error"}, Output(p, text)
    PROVE  IInv'
<1>1. /\ Piece(p) \in Seq(Chunk)
      /\ chunks[p] + 1 \in 0..MaxChunks
  BY PieceType, ConsoleAssumption DEF IInv, Output
<1>2. /\ chunks' = [chunks EXCEPT ![p] = @ + 1]
      /\ said' = [said EXCEPT ![p] = @ \o Piece(p)]
      /\ buffer' = [s \in Sessions |-> IF Hears(s, p) THEN buffer[s] \o Piece(p) ELSE buffer[s]]
      /\ heard' = [s \in Sessions |-> IF Hears(s, p) /\ phase[s] = "waiting"
                                      THEN heard[s] \o Piece(p) ELSE heard[s]]
  BY DEF Output, Piece
<1>3. \A s \in Sessions : /\ said[s] \o Piece(p) \in Seq(Chunk)
                          /\ buffer[s] \o Piece(p) \in Seq(Chunk)
                          /\ heard[s] \o Piece(p) \in Seq(Chunk)
  BY <1>1 DEF IInv, TypeOK
<1>4. TypeOK'
  <2>1. said' \in [Sessions -> Seq(Chunk)] /\ chunks' \in [Sessions -> 0..MaxChunks]
    BY <1>1, <1>2, <1>3 DEF IInv, TypeOK
  <2>2. buffer' \in [Sessions -> Seq(Chunk)] /\ heard' \in [Sessions -> Seq(Chunk)]
    BY <1>2, <1>3 DEF IInv, TypeOK
  <2>3. status' \in [Sessions -> {"absent", "initializing", "running", "stopped", "crashed"}]
    BY DEF IInv, TypeOK, Output
  <2> QED BY <2>1, <2>2, <2>3 DEF IInv, TypeOK, Output, call
<1>5. Fine(p)'
  <2>1. process[p] \in {"alive", "exited"} /\ Spawned(p) /\ Kept(p)
    BY DEF IInv, Fine, Output
  <2>2. /\ said'[p] = said[p] \o Piece(p)
        /\ buffer'[p] = buffer[p] \o Piece(p)
        /\ phase[p] = "waiting" => heard'[p] = heard[p] \o Piece(p)
    BY <1>2, <2>1 DEF IInv, TypeOK, Hears, Spawned
  <2>3. /\ status'[p] = "absent" <=> status[p] = "absent"
        /\ status'[p] \in {status[p], "stopped"}
        /\ kind[p] = "createSession" => status'[p] = status[p]
    BY DEF Output, IInv, TypeOK
  <2>4. /\ UNCHANGED <<kind, phase, attempt, mapped, listening, process, killed, timer, entry>>
    BY DEF Output, call
  <2>5. Spawned(p)'
    BY <2>1, <2>2, <2>3, <2>4 DEF Spawned
  <2>6. Kept(p)'
    BY <2>1, <2>3, <2>4 DEF Kept, Spawned
  <2>7. process'[p] # "none" /\ phase'[p] \in {"ready", "waiting", "answered", "timedout"}
    BY <2>1, <2>4 DEF Spawned
  <2> QED BY <2>5, <2>6, <2>7 DEF Fine
<1>6. \A t \in Sessions \ {p} : Same(t)
  BY DEF IInv, TypeOK, Same, Output, Hears, call
<1> QED BY <1>4, <1>5, <1>6, SameIsFine DEF IInv

(* The end of a process answers the call of its session alone. *)
LEMMA AnswersOwn ==
    ASSUME NEW p \in Sessions
    PROVE  Answers(p) = IF listening[p] /\ phase[p] = "waiting" THEN {p} ELSE {}
BY DEF Answers, Hears

LEMMA CloseEventFine == ASSUME IInv, NEW p \in Sessions, CloseEvent(p) PROVE IInv'
<1>2. TypeOK'
  BY DEF IInv, TypeOK, CloseEvent, StatusAfter
<1>3. Fine(p)'
  BY DEF IInv, TypeOK, Fine, Unspawned, Spawned, Kept, CloseEvent, StatusAfter, Hears, Answers
<1>4. \A t \in Sessions \ {p} : Same(t)
  BY DEF IInv, TypeOK, Same, CloseEvent, StatusAfter, Hears, Answers
<1> QED BY <1>2, <1>3, <1>4, SameIsFine DEF IInv

LEMMA StopMappedFine == ASSUME IInv, NEW s \in Sessions, StopMapped(s) PROVE IInv'
<1>1. TypeOK'
  BY DEF IInv, TypeOK, StopMapped, Signalled
<1>2. Fine(s)'
  BY DEF IInv, TypeOK, Fine, Unspawned, Spawned, Kept, StopMapped, Signalled, Hears, Answers
<1>3. \A t \in Sessions \ {s} : Same(t)
  BY DEF IInv, TypeOK, Same, StopMapped, Signalled, Hears, Answers
<1> QED BY <1>1, <1>2, <1>3, SameIsFine DEF IInv

(* No step is left. *)
LEMMA StepFine == ASSUME IInv, [Next]_vars PROVE IInv'
<1>1. CASE UNCHANGED vars
  BY <1>1 DEF IInv, TypeOK, Fine, Unspawned, Spawned, Kept, vars
<1>2. ASSUME NEW s \in Sessions, CreateSession(s) PROVE IInv'
  BY <1>2, CreateSessionFine
<1>3. ASSUME NEW s \in Sessions, ExecuteCommand(s) PROVE IInv'
  BY <1>3, ExecuteCommandFine
<1>4. ASSUME NEW s \in Sessions, Registered(s) PROVE IInv'
  BY <1>4, RegisteredFine
<1>5. ASSUME NEW s \in Sessions, CreationThrows(s) PROVE IInv'
  BY <1>5, CreationThrowsFine
<1>6. ASSUME NEW s \in Sessions, Reported(s) PROVE IInv'
  BY <1>6, ReportedFine
<1>7. ASSUME NEW s \in Sessions, CallFails(s) PROVE IInv'
  BY <1>7, CallFailsFine
<1>8. ASSUME NEW s \in Sessions, PartialSessionCleaned(s) PROVE IInv'
  BY <1>8, PartialSessionCleanedFine
<1>9. ASSUME NEW s \in Sessions, Retry(s) PROVE IInv'
  BY <1>9, RetryFine
<1>10. ASSUME NEW s \in Sessions, Created(s) PROVE IInv'
  BY <1>10, CreatedFine
<1>11. ASSUME NEW s \in Sessions, ProcessExits(s) PROVE IInv'
  BY <1>11, ProcessExitsFine
<1>12. ASSUME NEW s \in Sessions, ProcessErrors(s) PROVE IInv'
  BY <1>12, ProcessErrorsFine
<1>13. ASSUME NEW s \in Sessions, CloseEvent(s) PROVE IInv'
  BY <1>13, CloseEventFine
<1>14. ASSUME NEW s \in Sessions, CallTimeout(s) PROVE IInv'
  BY <1>14, CallTimeoutFine
<1>15. ASSUME NEW s \in Sessions, StopMapped(s) PROVE IInv'
  BY <1>15, StopMappedFine
<1>16. ASSUME NEW s \in Sessions, StopUnmapped(s) PROVE IInv'
  BY <1>16, StopUnmappedFine
<1>17. ASSUME NEW s \in Sessions, KillTimer(s) PROVE IInv'
  BY <1>17, KillTimerFine
<1>18. ASSUME NEW s \in Sessions, ResourceMonitor(s) PROVE IInv'
  BY <1>18, ResourceMonitorFine
<1>19. ASSUME NEW s \in Sessions, SendInput(s) PROVE IInv'
  BY <1>19, SendInputFine
<1>20. ASSUME NEW s \in Sessions, NEW text \in {"plain", "error"}, Output(s, text) PROVE IInv'
  BY <1>20, OutputFine
<1> QED BY <1>1, <1>2, <1>3, <1>4, <1>5, <1>6, <1>7, <1>8, <1>9, <1>10, <1>11, <1>12, <1>13, <1>14, <1>15, <1>16, <1>17, <1>18, <1>19, <1>20 DEF Next

(* The inductive invariant of sessions, processes and outputs. *)
THEOREM InductiveInvariant == Spec => []IInv
<1> QED BY InitFine, StepFine, PTL DEF Spec

(* Variables keep their types. *)
THEOREM TypesHold == Spec => []TypeOK
<1>1. IInv => TypeOK BY DEF IInv
<1> QED BY <1>1, InductiveInvariant, PTL

(* A session that has an entry has its output whole and no other's.           *)
THEOREM BuffersStayWhole == Spec => []BufferIsWhole
<1>1. IInv => BufferIsWhole BY DEF IInv, Fine, Unspawned, Spawned, BufferIsWhole
<1> QED BY <1>1, InductiveInvariant, PTL

(* An answer that no timeout and no stop has cut is whole.                    *)
THEOREM AnswersAreWhole == Spec => []AnswerIsWhole
<1>1. IInv => AnswerIsWhole BY DEF IInv, Fine, Unspawned, Kept, AnswerIsWhole
<1> QED BY <1>1, InductiveInvariant, PTL

(* No process of createSession is lost.                                       *)
THEOREM ProcessesStayReachable == Spec => []ProcessIsReachable
<1>1. IInv => ProcessIsReachable BY DEF IInv, TypeOK, Fine, Kept, ProcessIsReachable
<1> QED BY <1>1, InductiveInvariant, PTL

-----------------------------------------------------------------------------
(* Input. *)

(* Only SendInput writes, to a session that counts as running.                *)
LEMMA InputStep ==
    ASSUME IInv, [Next]_vars, NEW s \in Sessions, inputs'[s] # inputs[s]
    PROVE  process[s] # "closed"
<1>1. PICK t \in Sessions : SendInput(t)
  BY DEF Next, vars, CreateSession, ExecuteCommand, Registered, CreationThrows, Reported,
         CallFails, PartialSessionCleaned, Retry, Created, Output, ProcessExits, ProcessErrors,
         CloseEvent, CallTimeout, StopMapped, StopUnmapped, KillTimer, ResourceMonitor, child
<1>2. t = s
  BY <1>1 DEF SendInput, IInv, TypeOK
<1>3. status[s] \notin {"absent", "stopped", "crashed"} /\ mapped[s]
  BY <1>1, <1>2 DEF SendInput, Ready
<1>4. process[s] # "none"
  BY <1>3 DEF IInv, Fine, Unspawned
<1>5. status[s] = "running"
  BY <1>3, <1>4 DEF IInv, Fine, Spawned
<1> QED BY <1>4, <1>5 DEF IInv, Fine, Kept

(* Input never goes to a process whose end was told.                          *)
THEOREM InputReachesOpenProcess == Spec => InputReachesProcess
<1>1. IInv /\ [Next]_vars =>
        [\A s \in Sessions : inputs'[s] # inputs[s] => process[s] # "closed"]_vars
  BY InputStep
<1> QED BY <1>1, InductiveInvariant, PTL DEF Spec, InputReachesProcess

-----------------------------------------------------------------------------
(* The calls implement the promise of CallService. *)

(* What a step of one session does to the calls, as CallService sees it.      *)
Kind(c, from, to) ==
    /\ CallState[c] = from
    /\ CallState' = [CallState EXCEPT ![c] = to]
    /\ UNCHANGED <<said, heard>>

LEMMA StateOf ==
    ASSUME NEW s \in Sessions
    PROVE  /\ phase[s] = "idle" => CallState[s] = "idle"
           /\ phase[s] = "failed" => CallState[s] = "failed"
           /\ phase[s] \in {"ready", "answered", "timedout"} => CallState[s] = "answered"
           /\ phase[s] \in {"registering", "initializing", "reporting", "failing", "backoff",
                            "waiting"} => CallState[s] = "pending"
BY DEF CallState

(* A step that moves no phase moves no call. *)
LEMMA PhaseStays == ASSUME phase' = phase PROVE CallState' = CallState
BY DEF CallState

LEMMA InitImplements == Init => Calls!Init
BY DEF Init, Calls!Init, CallState

(* The steps in which no call begins, ends or hears.                          *)
LEMMA QuietStep ==
    ASSUME UNCHANGED <<said, heard>>, CallState' = CallState
    PROVE  [Calls!Next]_(Calls!vars)
BY DEF Calls!vars

LEMMA BeginStep ==
    ASSUME NEW s \in Sessions, Kind(s, "idle", "pending") PROVE Calls!Next
BY DEF Kind, Calls!Next, Calls!Begin

LEMMA AnswerStep ==
    ASSUME NEW s \in Sessions, Kind(s, "pending", "answered") PROVE Calls!Next
BY DEF Kind, Calls!Next, Calls!Answer

LEMMA FailStep ==
    ASSUME NEW s \in Sessions, Kind(s, "pending", "failed"), said[s] = <<>> PROVE Calls!Next
BY DEF Kind, Calls!Next, Calls!Fail

(* Output is said in the name of its session's call, and heard while it waits. *)
LEMMA SayStep ==
    ASSUME IInv, NEW p \in Sessions, NEW text \in {"plain", "error"}, Output(p, text)
    PROVE  Calls!Next
<1>1. /\ profile[p].copies \in 1..2
      /\ chunks[p] + 1 \in 1..MaxChunks
  BY PieceType DEF IInv, Output
<1>2. Piece(p) \in PiecesOf(p)
  BY <1>1 DEF Piece, PiecesOf
<1>3. said' = [said EXCEPT ![p] = @ \o Piece(p)]
  BY DEF Output, Piece
<1>4. phase[p] \in {"ready", "waiting", "answered", "timedout"} /\ listening[p]
  BY DEF Output, IInv, Fine, Spawned
<1>5. CallState[p] # "idle" /\ (CallState[p] = "pending" <=> phase[p] = "waiting")
  BY <1>4, StateOf
<1>6. heard' = IF CallState[p] = "pending" THEN [heard EXCEPT ![p] = @ \o Piece(p)] ELSE heard
  BY <1>4, <1>5 DEF Output, Piece, Hears, IInv, TypeOK
<1>7. CallState' = CallState
  BY PhaseStays DEF Output, call
<1>8. Calls!Say(p)
  BY <1>2, <1>3, <1>5, <1>6, <1>7 DEF Calls!Say
<1> QED BY <1>8 DEF Calls!Next

(* One lemma per step that is not quiet.                                      *)
LEMMA BeginImplements ==
    ASSUME IInv, NEW s \in Sessions, CreateSession(s) \/ ExecuteCommand(s)
    PROVE  Calls!Next
<1>1. phase[s] = "idle" /\ phase' = [phase EXCEPT ![s] = "registering"]
  BY DEF CreateSession, ExecuteCommand
<1>2. CallState' = [CallState EXCEPT ![s] = "pending"]
  BY <1>1 DEF IInv, TypeOK, CallState
<1>3. UNCHANGED <<said, heard>>
  BY DEF CreateSession, ExecuteCommand, output
<1> QED BY <1>1, <1>2, <1>3, StateOf, BeginStep DEF Kind

LEMMA FailImplements ==
    ASSUME IInv, NEW s \in Sessions, CallFails(s) PROVE Calls!Next
<1>1. phase[s] = "failing" /\ phase' = [phase EXCEPT ![s] = "failed"]
  BY DEF CallFails
<1>2. CallState' = [CallState EXCEPT ![s] = "failed"]
  BY <1>1 DEF IInv, TypeOK, CallState
<1>3. UNCHANGED <<said, heard>>
  BY DEF CallFails, output
<1>4. said[s] = <<>>
  BY <1>1 DEF IInv, Fine, Unspawned, Spawned
<1> QED BY <1>1, <1>2, <1>3, <1>4, StateOf, FailStep DEF Kind

LEMMA TimeoutImplements ==
    ASSUME IInv, NEW s \in Sessions, CallTimeout(s) PROVE Calls!Next
<1>1. phase[s] = "waiting" /\ phase' = [phase EXCEPT ![s] = "timedout"]
  BY DEF CallTimeout
<1>2. CallState' = [CallState EXCEPT ![s] = "answered"]
  BY <1>1 DEF IInv, TypeOK, CallState
<1>3. UNCHANGED <<said, heard>>
  BY DEF CallTimeout
<1> QED BY <1>1, <1>2, <1>3, StateOf, AnswerStep DEF Kind

(* The spawn answers createSession and leaves executeCommand pending.         *)
LEMMA CreatedImplements ==
    ASSUME IInv, NEW s \in Sessions, Created(s) PROVE [Calls!Next]_(Calls!vars)
<1>1. /\ phase[s] = "initializing"
      /\ phase' = [phase EXCEPT ![s] = IF kind[s] = "executeCommand" THEN "waiting" ELSE "ready"]
  BY DEF Created
<1>2. UNCHANGED <<said, heard>>
  BY DEF Created, output
<1>3. CASE kind[s] = "executeCommand"
  <2>1. CallState' = CallState
    BY <1>1, <1>3 DEF IInv, TypeOK, CallState
  <2> QED BY <2>1, <1>2, QuietStep
<1>4. CASE kind[s] # "executeCommand"
  <2>1. CallState' = [CallState EXCEPT ![s] = "answered"]
    BY <1>1, <1>4 DEF IInv, TypeOK, CallState
  <2> QED BY <2>1, <1>1, <1>2, StateOf, AnswerStep DEF Kind
<1> QED BY <1>3, <1>4

(* The end of a process, or a stop, answers at most the call of its session.  *)
LEMMA EndImplements ==
    ASSUME IInv, NEW s \in Sessions, NEW answered,
           answered = {} \/ answered = Answers(s),
           phase' = [t \in Sessions |-> IF t \in answered THEN "answered" ELSE phase[t]],
           UNCHANGED <<said, heard>>
    PROVE  [Calls!Next]_(Calls!vars)
<1>1. CASE s \notin answered
  <2>1. answered = {}
    BY <1>1, AnswersOwn
  <2>2. phase' = phase
    BY <2>1 DEF IInv, TypeOK
  <2> QED BY <2>2, PhaseStays, QuietStep
<1>2. CASE s \in answered
  <2>1. answered = {s} /\ phase[s] = "waiting"
    BY <1>2, AnswersOwn
  <2>2. CallState' = [CallState EXCEPT ![s] = "answered"]
    BY <2>1 DEF IInv, TypeOK, CallState
  <2> QED BY <2>1, <2>2, StateOf, AnswerStep DEF Kind
<1> QED BY <1>1, <1>2

LEMMA CloseEventImplements ==
    ASSUME IInv, NEW s \in Sessions, CloseEvent(s) PROVE [Calls!Next]_(Calls!vars)
<1> DEFINE answered == IF profile[s].ends = "session-closed" THEN Answers(s) ELSE {}
<1>1. /\ answered = {} \/ answered = Answers(s)
      /\ phase' = [t \in Sessions |-> IF t \in answered THEN "answered" ELSE phase[t]]
      /\ UNCHANGED <<said, heard>>
  BY DEF CloseEvent
<1> HIDE DEF answered
<1> QED BY <1>1, EndImplements

LEMMA StopImplements ==
    ASSUME IInv, NEW s \in Sessions, StopMapped(s) PROVE [Calls!Next]_(Calls!vars)
<1> DEFINE answered ==
        IF profile[s].closed = "record" /\ (entry[s] # "absent" \/ ~profile[s].strict)
        THEN Answers(s) ELSE {}
<1>1. /\ answered = {} \/ answered = Answers(s)
      /\ phase' = [t \in Sessions |-> IF t \in answered THEN "answered" ELSE phase[t]]
      /\ UNCHANGED <<said, heard>>
  BY DEF StopMapped
<1> HIDE DEF answered
<1> QED BY <1>1, EndImplements

(* The phases within a creation are one pending call.                         *)
LEMMA CreationImplements ==
    ASSUME IInv, NEW s \in Sessions,
           \/ Registered(s) \/ CreationThrows(s) \/ Reported(s)
           \/ PartialSessionCleaned(s) \/ Retry(s)
    PROVE  [Calls!Next]_(Calls!vars)
<1>1. UNCHANGED <<said, heard>>
  BY DEF Registered, CreationThrows, Reported, PartialSessionCleaned, Retry, output
<1>2. PICK ph \in {"initializing", "reporting", "failing", "backoff", "registering"} :
        phase' = [phase EXCEPT ![s] = ph]
  BY DEF Registered, CreationThrows, Reported, PartialSessionCleaned, Retry
<1>3. phase[s] \in {"initializing", "reporting", "failing", "backoff", "registering"}
  BY DEF Registered, CreationThrows, Reported, PartialSessionCleaned, Retry
<1>4. CallState' = CallState
  BY <1>2, <1>3 DEF IInv, TypeOK, CallState
<1> QED BY <1>1, <1>4, QuietStep

LEMMA OtherImplements ==
    ASSUME NEW s \in Sessions,
           \/ ProcessExits(s) \/ ProcessErrors(s) \/ StopUnmapped(s) \/ KillTimer(s)
           \/ ResourceMonitor(s) \/ SendInput(s)
    PROVE  [Calls!Next]_(Calls!vars)
<1>1. UNCHANGED <<phase, said, heard>>
  BY DEF ProcessExits, ProcessErrors, StopUnmapped, KillTimer, ResourceMonitor, SendInput,
         call, output
<1> QED BY <1>1, PhaseStays, QuietStep

LEMMA StepImplements == ASSUME IInv, [Next]_vars PROVE [Calls!Next]_(Calls!vars)
<1>1. CASE UNCHANGED vars
  BY <1>1, PhaseStays, QuietStep DEF vars
<1>2. ASSUME NEW s \in Sessions, CreateSession(s) \/ ExecuteCommand(s)
      PROVE  [Calls!Next]_(Calls!vars)
  BY <1>2, BeginImplements
<1>3. ASSUME NEW s \in Sessions,
             \/ Registered(s) \/ CreationThrows(s) \/ Reported(s)
             \/ PartialSessionCleaned(s) \/ Retry(s)
      PROVE  [Calls!Next]_(Calls!vars)
  BY <1>3, CreationImplements
<1>4. ASSUME NEW s \in Sessions, Created(s) PROVE [Calls!Next]_(Calls!vars)
  BY <1>4, CreatedImplements
<1>5. ASSUME NEW s \in Sessions, CallFails(s) PROVE [Calls!Next]_(Calls!vars)
  BY <1>5, FailImplements
<1>6. ASSUME NEW s \in Sessions, CallTimeout(s) PROVE [Calls!Next]_(Calls!vars)
  BY <1>6, TimeoutImplements
<1>7. ASSUME NEW s \in Sessions, NEW text \in {"plain", "error"}, Output(s, text)
      PROVE  [Calls!Next]_(Calls!vars)
  BY <1>7, SayStep
<1>8. ASSUME NEW s \in Sessions, CloseEvent(s) PROVE [Calls!Next]_(Calls!vars)
  BY <1>8, CloseEventImplements
<1>9. ASSUME NEW s \in Sessions, StopMapped(s) PROVE [Calls!Next]_(Calls!vars)
  BY <1>9, StopImplements
<1>10. ASSUME NEW s \in Sessions,
              \/ ProcessExits(s) \/ ProcessErrors(s) \/ StopUnmapped(s) \/ KillTimer(s)
              \/ ResourceMonitor(s) \/ SendInput(s)
       PROVE  [Calls!Next]_(Calls!vars)
  BY <1>10, OtherImplements
<1> QED BY <1>1, <1>2, <1>3, <1>4, <1>5, <1>6, <1>7, <1>8, <1>9, <1>10 DEF Next

(* Sessions and one-shot calls keep the promise of CallService, whatever the  *)
(* protocols, the processes, the timers and the stops do.                     *)
THEOREM CallServiceImplemented == Spec => ImplementsCallService
<1> QED BY InitImplements, StepImplements, InductiveInvariant, PTL
        DEF Spec, ImplementsCallService, Calls!Safety
=============================================================================
