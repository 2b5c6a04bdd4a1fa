----------------------- MODULE CommandExecution_proofs -----------------------
(* Proofs about CommandExecution for any finite set of commands and any        *)
(* arguments of the cleanup of the history.                                    *)
EXTENDS CommandExecution, TLAPS

(* A command has a record from its call on.                                    *)
CallsHaveRecords == \A c \in Cmds : call[c] = "none" <=> exec[c] = "none"

(* The history has each command that was called at most once, and the one the  *)
(* session executes is its last: a cleanup that keeps one keeps that one.      *)
CurrentIsLast ==
    /\ \A i, k \in DOMAIN history : history[i] = history[k] => i = k
    /\ \A i \in DOMAIN history : call[history[i]] # "none"
    /\ current # NoCmd => history # <<>> /\ history[Len(history)] = current

(* A record that is executing is that of the current command, unless another   *)
(* command took the session from it.                                           *)
OthersWereRobbed ==
    \A c \in Cmds : exec[c] = "executing" => c = current \/ c \in robbed

IInv == TypeOK /\ BusyForACaller /\ CallsHaveRecords /\ CurrentIsLast /\ OthersWereRobbed

Ended == {"completed", "failed", "removed"}

(* A command whose prompt was seen has ended and did not time out.             *)
PromptedHaveEnded ==
    \A c \in prompted : exec[c] \in Ended /\ call[c] # "timeout"

CallStates == {"none", "sending", "sent", "waiting", "completed", "failed", "timeout", "error"}

-------------------------------------------------------------------------------
(* What several actions have in common. *)

LEMMA NoCmdIsNone == NoCmd \notin Cmds /\ KeepLasts \subseteq Nat \ {0}
BY CommandsAssumption

(* Only one entry of the calls changes, and that call stays made.              *)
LEMMA CallMoves ==
    ASSUME IInv, NEW c \in Cmds, NEW s \in CallStates \ {"none"}, call[c] # "none",
           call' = [call EXCEPT ![c] = s]
    PROVE  /\ call' \in [Cmds -> CallStates]
           /\ \A d \in Cmds : call'[d] = "none" <=> call[d] = "none"
           /\ call'[c] = s
           /\ \A d \in Cmds \ {c} : call'[d] = call[d]
BY DEF IInv, TypeOK, CallStates

(* The history stays, and so do the calls made.                                *)
LEMMA HistoryStays ==
    ASSUME IInv, UNCHANGED history, current' \in {current, NoCmd},
           \A d \in Cmds : call'[d] = "none" <=> call[d] = "none"
    PROVE  CurrentIsLast'
<1>1. \A i \in DOMAIN history : history[i] \in Cmds
  BY DEF IInv, TypeOK
<1> QED BY <1>1 DEF IInv, CurrentIsLast

(* completeCommandExecution, with the change of its caller's state.            *)
LEMMA CompleteKeeps ==
    ASSUME IInv, NEW c \in Cmds, NEW status \in {"completed", "failed"},
           exec[c] # "none", Complete(c, status), UNCHANGED history,
           call' \in [Cmds -> CallStates],
           \A d \in Cmds : call'[d] = "none" <=> call[d] = "none",
           \A d \in Cmds \ {c} : call'[d] = call[d],
           exec[c] = "removed" => ~ (c = current)
    PROVE  /\ exec' \in [Cmds -> {"none", "executing"} \cup Ended]
           /\ current' \in Cmds \cup {NoCmd} /\ robbed' \subseteq Cmds
           /\ BusyForACaller' /\ CallsHaveRecords' /\ CurrentIsLast' /\ OthersWereRobbed'
<1>t. /\ exec \in [Cmds -> {"none", "executing"} \cup Ended]
      /\ current \in Cmds \cup {NoCmd} /\ robbed \subseteq Cmds
  BY DEF IInv, TypeOK, Ended
<1>1. CASE exec[c] = "removed"
  <2>1. UNCHANGED <<exec, current, robbed>>
    BY <1>1 DEF Complete
  <2>2. BusyForACaller'
    BY <1>1, <1>t, <2>1 DEF IInv, BusyForACaller, Calling
  <2>3. CallsHaveRecords' /\ OthersWereRobbed'
    BY <2>1 DEF IInv, CallsHaveRecords, OthersWereRobbed
  <2> QED BY <1>t, <2>1, <2>2, <2>3, HistoryStays
<1>2. CASE exec[c] # "removed"
  <2>1. /\ exec' = [exec EXCEPT ![c] = status]
        /\ current' = NoCmd
        /\ robbed' = robbed \cup ({current} \ {c, NoCmd})
    BY <1>2 DEF Complete
  <2>2. BusyForACaller'
    BY <2>1 DEF BusyForACaller
  <2>3. CallsHaveRecords'
    BY <1>t, <2>1 DEF IInv, CallsHaveRecords
  <2>4. OthersWereRobbed'
    BY <1>t, <2>1, NoCmdIsNone DEF IInv, OthersWereRobbed
  <2>5. exec' \in [Cmds -> {"none", "executing"} \cup Ended]
    BY <1>t, <2>1 DEF Ended
  <2> QED BY <1>t, <2>1, <2>2, <2>3, <2>4, <2>5, HistoryStays
<1> QED BY <1>1, <1>2

(* The records, the session and its history stay; a call moves on.             *)
LEMMA RecordsStay ==
    ASSUME IInv, UNCHANGED <<current, exec, robbed, history>>,
           call' \in [Cmds -> CallStates],
           \A d \in Cmds : call'[d] = "none" <=> call[d] = "none",
           current # NoCmd => Calling(current)'
    PROVE  /\ exec' \in [Cmds -> {"none", "executing"} \cup Ended]
           /\ current' \in Cmds \cup {NoCmd} /\ robbed' \subseteq Cmds
           /\ BusyForACaller' /\ CallsHaveRecords' /\ CurrentIsLast' /\ OthersWereRobbed'
<1>1. CallsHaveRecords' /\ OthersWereRobbed'
  BY DEF IInv, CallsHaveRecords, OthersWereRobbed
<1>2. BusyForACaller'
  BY DEF IInv, BusyForACaller
<1>3. CurrentIsLast'
  BY HistoryStays
<1> QED BY <1>1, <1>2, <1>3 DEF IInv, TypeOK, Ended

(* IInv from what the lemmas above conclude and the types of the rest.         *)
LEMMA Together ==
    ASSUME /\ exec' \in [Cmds -> {"none", "executing"} \cup Ended]
           /\ current' \in Cmds \cup {NoCmd} /\ robbed' \subseteq Cmds
           /\ BusyForACaller' /\ CallsHaveRecords' /\ CurrentIsLast' /\ OthersWereRobbed',
           call' \in [Cmds -> CallStates],
           alive' \in BOOLEAN, output' \in [Cmds -> SUBSET Cmds],
           history' \in Seq(Cmds), shell' \in Seq(Cmds), prompted' \subseteq Cmds
    PROVE  IInv'
BY DEF IInv, TypeOK, Ended, CallStates

LEMMA Types ==
    ASSUME IInv
    PROVE  /\ call \in [Cmds -> CallStates]
           /\ exec \in [Cmds -> {"none", "executing"} \cup Ended]
           /\ current \in Cmds \cup {NoCmd} /\ robbed \subseteq Cmds
           /\ alive \in BOOLEAN /\ output \in [Cmds -> SUBSET Cmds]
           /\ history \in Seq(Cmds) /\ shell \in Seq(Cmds) /\ prompted \subseteq Cmds
BY DEF IInv, TypeOK, Ended, CallStates

-------------------------------------------------------------------------------
(* Each action. *)

LEMMA InitHolds == Init => IInv
BY NoCmdIsNone
   DEF Init, IInv, TypeOK, BusyForACaller, CallsHaveRecords, CurrentIsLast, OthersWereRobbed

LEMMA ExecuteHolds ==
    ASSUME IInv, NEW c \in Cmds, ExecuteCommandInSession(c)
    PROVE  IInv'
<1>1. /\ call[c] = "none" /\ exec[c] = "none" /\ current = NoCmd
      /\ current' = c
      /\ exec' = [exec EXCEPT ![c] = "executing"]
      /\ history' = Append(history, c)
      /\ call' = [call EXCEPT ![c] = "sending"]
      /\ UNCHANGED <<alive, output, shell, prompted, robbed>>
  BY DEF ExecuteCommandInSession, IInv, CallsHaveRecords
<1>2. /\ call' \in [Cmds -> CallStates]
      /\ exec' \in [Cmds -> {"none", "executing"} \cup Ended]
      /\ history' \in Seq(Cmds)
  BY <1>1, Types DEF CallStates
<1>3. BusyForACaller'
  BY <1>1, Types DEF BusyForACaller, Calling
<1>4. CallsHaveRecords' /\ OthersWereRobbed'
  <2>1. CallsHaveRecords'
    BY <1>1, Types DEF IInv, CallsHaveRecords
  <2>2. \A d \in Cmds : exec'[d] = "executing" => d = c \/ exec[d] = "executing"
    BY <1>1, Types
  <2> QED BY <1>1, <2>1, <2>2, NoCmdIsNone DEF IInv, OthersWereRobbed
<1>5. CurrentIsLast'
  <2>1. /\ Len(history) \in Nat /\ DOMAIN history = 1..Len(history)
        /\ DOMAIN history' = 1..(Len(history) + 1) /\ Len(history') = Len(history) + 1
        /\ \A i \in 1..Len(history) : history'[i] = history[i] /\ history[i] \in Cmds
        /\ history'[Len(history) + 1] = c
    BY <1>1, Types
  <2>2. \A i \in 1..Len(history) : history[i] # c /\ call[history[i]] # "none"
    BY <1>1, <2>1 DEF IInv, CurrentIsLast
  <2>3. \A i \in DOMAIN history' : i \in 1..Len(history) \/ i = Len(history) + 1
    BY <2>1
  <2>4. \A i \in DOMAIN history' : call'[history'[i]] # "none"
    BY <1>1, <2>1, <2>2, <2>3, Types
  <2>5. \A i, k \in 1..Len(history) : history[i] = history[k] => i = k
    BY <2>1 DEF IInv, CurrentIsLast
  <2>6. \A i, k \in DOMAIN history' : history'[i] = history'[k] => i = k
    BY <2>1, <2>2, <2>3, <2>5
  <2>7. history' # <<>>
    BY <1>1, Types
  <2> QED BY <1>1, <2>1, <2>4, <2>6, <2>7 DEF CurrentIsLast
<1> QED BY <1>1, <1>2, <1>3, <1>4, <1>5, Types, Together

LEMMA SendingHolds ==
    ASSUME IInv, NEW c \in Cmds, LineArrives(c) \/ InputSent(c)
    PROVE  IInv'
<1>1. /\ \E s \in {"sent", "waiting"} : call' = [call EXCEPT ![c] = s]
      /\ call[c] # "none"
      /\ UNCHANGED <<alive, current, exec, output, history, prompted, robbed>>
      /\ shell' \in Seq(Cmds)
  <2>1. CASE LineArrives(c)
    BY <2>1, Types DEF LineArrives
  <2>2. CASE InputSent(c)
    BY <2>2, Types DEF InputSent
  <2> QED BY <2>1, <2>2
<1>2. /\ call' \in [Cmds -> CallStates]
      /\ \A d \in Cmds : call'[d] = "none" <=> call[d] = "none"
      /\ \A d \in Cmds : Calling(d) => Calling(d)'
  BY <1>1, Types DEF CallStates, Calling
<1>3. current # NoCmd => Calling(current)'
  <2>1. current # NoCmd => current \in Cmds /\ Calling(current)
    BY Types DEF IInv, BusyForACaller
  <2>2. current # NoCmd => call'[current] \in {"sending", "sent", "waiting"}
    BY <1>2, <2>1 DEF Calling
  <2> QED BY <1>1, <2>2 DEF Calling
<1> QED BY <1>1, <1>2, <1>3, Types, RecordsStay, Together

(* A call ends without touching the records: it is not that of the current     *)
(* command.                                                                    *)
LEMMA PollFindsHolds ==
    ASSUME IInv, NEW c \in Cmds, PollFindsNothing(c) \/ PollFindsEnd(c)
    PROVE  IInv'
<1>1. /\ call[c] = "waiting" /\ exec[c] # "executing"
      /\ \E s \in {"error", "completed", "failed"} : call' = [call EXCEPT ![c] = s]
      /\ UNCHANGED <<alive, current, exec, output, history, shell, prompted, robbed>>
  BY DEF PollFindsNothing, PollFindsEnd
<1>2. /\ call' \in [Cmds -> CallStates]
      /\ \A d \in Cmds : call'[d] = "none" <=> call[d] = "none"
      /\ \A d \in Cmds \ {c} : call'[d] = call[d]
  BY <1>1, Types DEF CallStates
<1>3. current # NoCmd => current # c /\ Calling(current)'
  BY <1>1, <1>2, Types DEF IInv, BusyForACaller, Calling
<1> QED BY <1>1, <1>2, <1>3, Types, RecordsStay, Together

LEMMA FailureHolds ==
    ASSUME IInv, NEW c \in Cmds, InputFails(c) \/ PollTimesOut(c)
    PROVE  IInv'
<1>1. /\ call[c] # "none" /\ Complete(c, "failed")
      /\ \E s \in {"error", "timeout"} : call' = [call EXCEPT ![c] = s]
      /\ UNCHANGED <<alive, output, history, shell, prompted>>
  BY DEF InputFails, PollTimesOut
<1>2. /\ call' \in [Cmds -> CallStates]
      /\ \A d \in Cmds : call'[d] = "none" <=> call[d] = "none"
      /\ \A d \in Cmds \ {c} : call'[d] = call[d]
  BY <1>1, Types DEF CallStates
<1>3. exec[c] # "none" /\ (exec[c] = "removed" => ~ (c = current))
  BY <1>1, NoCmdIsNone DEF IInv, CallsHaveRecords, BusyForACaller
<1> QED BY <1>1, <1>2, <1>3, Types, CompleteKeeps, Together

LEMMA OutputHolds ==
    ASSUME IInv, NEW finishes \in BOOLEAN, NEW looksLikePrompt \in BOOLEAN,
           Output(finishes, looksLikePrompt)
    PROVE  IInv'
<1>1. /\ shell # <<>> /\ Head(shell) \in Cmds
      /\ shell' \in Seq(Cmds)
      /\ UNCHANGED <<alive, history, call>>
  BY Types DEF Output
<1>2. prompted' \subseteq Cmds
  BY <1>1, Types DEF Output
<1>3. output' \in [Cmds -> SUBSET Cmds]
  BY <1>1, Types DEF Output
<1>4. /\ call' \in [Cmds -> CallStates]
      /\ \A d \in Cmds : call'[d] = call[d]
  BY <1>1, Types
<1>5. CASE UNCHANGED <<exec, current, robbed>>
  <2>1. current # NoCmd => Calling(current)'
    BY <1>1, <1>5 DEF IInv, BusyForACaller, Calling
  <2> QED BY <1>1, <1>2, <1>3, <1>4, <1>5, <2>1, Types, RecordsStay, Together
<1>6. CASE current # NoCmd /\ exec[current] # "removed" /\ Complete(current, "completed")
  <2>1. current \in Cmds /\ exec[current] # "none"
    BY <1>6, Types DEF IInv, BusyForACaller
  <2> QED BY <1>1, <1>2, <1>3, <1>4, <1>6, <2>1, Types, CompleteKeeps, Together
<1> QED BY <1>5, <1>6 DEF Output

(* What a cleanup of the history removes and what it keeps.                    *)
LEMMA HistoryCut ==
    ASSUME NEW h \in Seq(Cmds), NEW n \in Nat \ {0}, Len(h) > n,
           \A i, k \in DOMAIN h : h[i] = h[k] => i = k
    PROVE  LET gone == Range(SubSeq(h, 1, Len(h) - n))
               kept == SubSeq(h, Len(h) - n + 1, Len(h))
           IN  /\ kept \in Seq(Cmds) /\ kept # <<>>
               /\ kept[Len(kept)] = h[Len(h)]
               /\ h[Len(h)] \notin gone
               /\ \A c \in gone : \E i \in DOMAIN h : h[i] = c
               /\ \A i \in DOMAIN kept : \E k \in DOMAIN h : kept[i] = h[k]
               /\ \A i, k \in DOMAIN kept : kept[i] = kept[k] => i = k
<1> DEFINE gone == Range(SubSeq(h, 1, Len(h) - n))
           kept == SubSeq(h, Len(h) - n + 1, Len(h))
           m == Len(h)
<1>1. m \in Nat /\ m - n \in Nat \ {0} /\ DOMAIN h = 1..m /\ n \in 1..m
  OBVIOUS
<1>2. /\ kept \in Seq(Cmds) /\ Len(kept) = n /\ DOMAIN kept = 1..n
      /\ \A i \in 1..n : kept[i] = h[m - n + i]
  OBVIOUS
<1>3. gone = {h[i] : i \in 1..(m - n)}
  <2> DEFINE cut == m - n
  <2>1. cut \in Nat /\ \A i \in 1..cut : h[i] \in Cmds
    <3> HIDE DEF m
    <3>1. cut \in Nat
      BY <1>1
    <3>2. \A i \in 1..cut : i \in 1..m
      BY <1>1
    <3> QED BY <1>1, <3>1, <3>2
  <2> HIDE DEF cut
  <2>2. /\ SubSeq(h, 1, cut) \in Seq(Cmds) /\ Len(SubSeq(h, 1, cut)) = cut
        /\ \A i \in 1..cut : SubSeq(h, 1, cut)[i] = h[i]
    BY <2>1
  <2>3. DOMAIN SubSeq(h, 1, cut) = 1..cut
    BY <2>2
  <2> QED BY <2>2, <2>3 DEF Range, cut
<1> HIDE DEF gone, kept, m
<1>4. kept # <<>> /\ kept[Len(kept)] = h[m]
  <2>1. n \in 1..n /\ m - n + n = m
    BY <1>1
  <2> QED BY <1>2, <2>1
<1>5. h[m] \notin gone
  <2>1. m \in DOMAIN h /\ \A i \in 1..(m - n) : i \in DOMAIN h /\ i # m
    BY <1>1
  <2> QED BY <1>3, <2>1
<1>6. \A c \in gone : \E i \in DOMAIN h : h[i] = c
  BY <1>1, <1>3
<1>7. \A i \in 1..n : m - n + i \in DOMAIN h
  BY <1>1
<1>8. \A i, k \in 1..n : kept[i] = kept[k] => i = k
  <2> SUFFICES ASSUME NEW i \in 1..n, NEW k \in 1..n, kept[i] = kept[k]
               PROVE  i = k
    OBVIOUS
  <2>1. m - n + i = m - n + k
    BY <1>2, <1>7
  <2> QED BY <1>1, <2>1
<1> QED BY <1>2, <1>4, <1>5, <1>6, <1>7, <1>8 DEF gone, kept, m

LEMMA CleanupHistoryHolds ==
    ASSUME IInv, NEW keepLast \in KeepLasts, CleanupHistory(keepLast)
    PROVE  IInv'
<1> DEFINE gone == Range(SubSeq(history, 1, Len(history) - keepLast))
           kept == SubSeq(history, Len(history) - keepLast + 1, Len(history))
<1>1. /\ exec' = [c \in Cmds |-> IF c \in gone THEN "removed" ELSE exec[c]]
      /\ history' = kept
      /\ UNCHANGED <<alive, current, output, call, shell, prompted, robbed>>
  BY DEF CleanupHistory
<1>2. /\ kept \in Seq(Cmds) /\ kept # <<>>
      /\ kept[Len(kept)] = history[Len(history)]
      /\ history[Len(history)] \notin gone
      /\ \A c \in gone : \E i \in DOMAIN history : history[i] = c
      /\ \A i \in DOMAIN kept : \E k \in DOMAIN history : kept[i] = history[k]
      /\ \A i, k \in DOMAIN kept : kept[i] = kept[k] => i = k
  <2>1. /\ keepLast \in Nat \ {0} /\ Len(history) > keepLast /\ history \in Seq(Cmds)
        /\ \A i, k \in DOMAIN history : history[i] = history[k] => i = k
    BY NoCmdIsNone, Types DEF CleanupHistory, IInv, CurrentIsLast
  <2> QED BY <2>1, HistoryCut
<1> HIDE DEF gone, kept
<1>3. exec' \in [Cmds -> {"none", "executing"} \cup Ended]
  BY <1>1, Types DEF Ended
<1>4. BusyForACaller'
  <2>1. current # NoCmd => current \in Cmds /\ current \notin gone
    BY <1>2, Types DEF IInv, CurrentIsLast
  <2> QED BY <1>1, <2>1 DEF IInv, BusyForACaller, Calling
<1>5. CallsHaveRecords'
  <2>1. \A c \in gone : call[c] # "none"
    BY <1>2 DEF IInv, CurrentIsLast
  <2> QED BY <1>1, <2>1 DEF IInv, CallsHaveRecords
<1>6. CurrentIsLast'
  BY <1>1, <1>2 DEF IInv, CurrentIsLast
<1>7. OthersWereRobbed'
  BY <1>1 DEF IInv, OthersWereRobbed
<1> QED BY <1>1, <1>2, <1>3, <1>4, <1>5, <1>6, <1>7, Types, Together

LEMMA CleanupSessionHolds ==
    ASSUME IInv, CleanupSession
    PROVE  IInv'
<1>1. /\ alive' = FALSE /\ current' = NoCmd
      /\ history' = <<>> /\ shell' = <<>>
      /\ exec' = [c \in Cmds |-> IF exec[c] = "none" THEN "none" ELSE "removed"]
      /\ UNCHANGED <<output, call, prompted, robbed>>
  BY DEF CleanupSession
<1>2. exec' \in [Cmds -> {"none", "executing"} \cup Ended]
  BY <1>1 DEF Ended
<1>3. BusyForACaller' /\ CallsHaveRecords' /\ CurrentIsLast' /\ OthersWereRobbed'
  BY <1>1 DEF IInv, BusyForACaller, CallsHaveRecords, CurrentIsLast, OthersWereRobbed
<1>3a. <<>> \in Seq(Cmds) /\ FALSE \in BOOLEAN
  OBVIOUS
<1> QED BY <1>1, <1>2, <1>3, <1>3a, Types, Together

LEMMA NextHolds == IInv /\ [Next]_vars => IInv'
<1> SUFFICES ASSUME IInv, [Next]_vars PROVE IInv'
  OBVIOUS
<1>1. ASSUME NEW c \in Cmds, Command(c)
      PROVE  IInv'
  BY <1>1, ExecuteHolds, SendingHolds, PollFindsHolds, FailureHolds DEF Command
<1>2. ASSUME NEW finishes \in BOOLEAN, NEW looksLikePrompt \in BOOLEAN,
             Output(finishes, looksLikePrompt)
      PROVE  IInv'
  BY <1>2, OutputHolds
<1>3. ASSUME NEW keepLast \in KeepLasts, CleanupHistory(keepLast)
      PROVE  IInv'
  BY <1>3, CleanupHistoryHolds
<1>4. CASE CleanupSession
  BY <1>4, CleanupSessionHolds
<1>5. CASE UNCHANGED vars
  <2>1. UNCHANGED <<alive, current, exec, output, history, call, shell, prompted, robbed>>
    BY <1>5 DEF vars
  <2>2. current # NoCmd => Calling(current)'
    BY <2>1 DEF IInv, BusyForACaller, Calling
  <2> QED BY <2>1, <2>2, Types, RecordsStay, Together
<1> QED BY <1>1, <1>2, <1>3, <1>4, <1>5 DEF Next

(* A step that ends a command completes it or removes its record for good, and *)
(* only a command that is executing can time out.                              *)
LEMMA NextPrompted ==
    ASSUME Tracked, IInv, PromptedHaveEnded, [Next]_vars
    PROVE  PromptedHaveEnded'
<1>0. \A c \in prompted : /\ c \in Cmds
                          /\ exec[c] \in Ended /\ call[c] \notin {"none", "timeout"}
  BY Types DEF PromptedHaveEnded, IInv, CallsHaveRecords, Ended
<1>c. ASSUME NEW c \in Cmds, NEW status \in {"completed", "failed"}, Complete(c, status)
      PROVE  \A d \in prompted : exec'[d] \in Ended
  BY <1>0, <1>c, Types DEF Complete, Ended
<1>1. ASSUME NEW c \in Cmds, Command(c)
      PROVE  PromptedHaveEnded'
  <2>1. CASE ExecuteCommandInSession(c)
    BY <1>0, <2>1, Types DEF ExecuteCommandInSession, PromptedHaveEnded
  <2>2. CASE LineArrives(c) \/ InputSent(c) \/ PollFindsNothing(c) \/ PollFindsEnd(c)
    BY <1>0, <2>2, Types
       DEF LineArrives, InputSent, PollFindsNothing, PollFindsEnd, PromptedHaveEnded
  <2>3. CASE InputFails(c)
    BY <1>0, <1>c, <2>3, Types DEF InputFails, PromptedHaveEnded
  <2>4. CASE PollTimesOut(c)
    <3>1. c \notin prompted
      BY <1>0, <2>4 DEF PollTimesOut, Ended
    <3> QED BY <1>0, <1>c, <2>4, <3>1, Types DEF PollTimesOut, PromptedHaveEnded
  <2> QED BY <1>1, <2>1, <2>2, <2>3, <2>4 DEF Command
<1>2. ASSUME NEW finishes \in BOOLEAN, NEW looksLikePrompt \in BOOLEAN,
             Output(finishes, looksLikePrompt)
      PROVE  PromptedHaveEnded'
  <2>1. Head(shell) \in Cmds /\ call' = call
    BY <1>2, Types DEF Output
  <2>2. \A d \in prompted : exec'[d] \in Ended
    BY <1>0, <1>2, <1>c, Types DEF Output
  <2>3. CASE prompted' = prompted
    BY <1>0, <2>1, <2>2, <2>3 DEF PromptedHaveEnded
  <2>4. CASE looksLikePrompt /\ current = Head(shell) /\ prompted' = prompted \cup {current}
    <3>1. current \in Cmds /\ exec[current] = "executing" /\ Calling(current)
      BY <2>1, <2>4, NoCmdIsNone DEF IInv, BusyForACaller
    <3>2. Complete(current, "completed")
      BY <1>2, <2>4, <3>1, NoCmdIsNone DEF Output
    <3>3. exec'[current] = "completed" /\ call'[current] # "timeout"
      BY <2>1, <3>1, <3>2, Types DEF Complete, Calling
    <3> QED BY <1>0, <2>1, <2>2, <2>4, <3>3 DEF PromptedHaveEnded, Ended
  <2> QED BY <1>2, <2>3, <2>4 DEF Output
<1>3. ASSUME NEW keepLast \in KeepLasts, CleanupHistory(keepLast)
      PROVE  PromptedHaveEnded'
  BY <1>0, <1>3 DEF CleanupHistory, PromptedHaveEnded, Ended
<1>4. CASE CleanupSession
  BY <1>0, <1>4 DEF CleanupSession, PromptedHaveEnded, Ended
<1>5. CASE UNCHANGED vars
  BY <1>5 DEF vars, PromptedHaveEnded
<1> QED BY <1>1, <1>2, <1>3, <1>4, <1>5 DEF Next

-------------------------------------------------------------------------------
(* The theorems. *)

(* Every reachable state satisfies the inductive invariant.                    *)
THEOREM InductiveInvariant == Spec => []IInv
BY InitHolds, NextHolds, PTL DEF Spec

(* Every variable keeps its type.                                              *)
THEOREM TypeCorrect == Spec => []TypeOK
<1>1. IInv => TypeOK
  BY DEF IInv
<1> QED BY <1>1, InductiveInvariant, PTL

(* A session that is not idle executes a command whose caller waits: no        *)
(* failing send, late failure, timeout or cleanup of the history leaves it     *)
(* busy with a command nobody will complete (executeCommandInSession,          *)
(* completeCommandExecution, cleanupSessionCommandHistory).                    *)
THEOREM BusySessionHasACaller == Spec => []BusyForACaller
<1>1. IInv => BusyForACaller
  BY DEF IInv
<1> QED BY <1>1, InductiveInvariant, PTL

(* Where the output goes through addToBuffer, a command whose prompt was seen  *)
(* at its end is not reported as timed out, whatever the polls, the cleanups   *)
(* and the other commands do (waitForCommandCompletion).                       *)
THEOREM SeenPromptIsNoTimeout ==
    ASSUME Tracked
    PROVE  Spec => []PromptCompletes
<1>1. Init => PromptedHaveEnded
  BY DEF Init, PromptedHaveEnded
<1>2. IInv /\ PromptedHaveEnded /\ [Next]_vars => PromptedHaveEnded'
  BY NextPrompted
<1>3. PromptedHaveEnded => PromptCompletes
  BY DEF PromptedHaveEnded, PromptCompletes
<1> QED BY <1>1, <1>2, <1>3, InductiveInvariant, PTL DEF Spec

(* Output of one command is attributed to another only if the first was given  *)
(* up or taken for finished while the shell still had it, or lost the session  *)
(* to a late failure (addToBuffer).                                            *)
THEOREM ForeignOutputComesLate == Spec => ForeignOutputIsLate
<1>1. ASSUME IInv, [Next]_vars, NEW c \in Cmds, NEW h \in Cmds, h \in output'[c] \ output[c]
      PROVE  h = c \/ exec[h] # "executing" \/ h \in robbed
  <2>1. output' # output
    BY <1>1
  <2>2. PICK finishes \in BOOLEAN, looksLikePrompt \in BOOLEAN :
            Output(finishes, looksLikePrompt)
    BY <1>1, <2>1
       DEF Next, vars, Command, ExecuteCommandInSession, LineArrives, InputSent, InputFails,
           PollFindsNothing, PollFindsEnd, PollTimesOut, CleanupHistory, CleanupSession
  <2>3. current \in Cmds /\ output' = [output EXCEPT ![current] = @ \cup {Head(shell)}]
    BY <1>1, <2>1, <2>2, Types DEF Output
  <2>4. c = current
    BY <1>1, <2>3, Types
  <2> QED BY <1>1, <2>4 DEF IInv, OthersWereRobbed
<1>2. IInv /\ [Next]_vars =>
          [\A c, h \in Cmds : h \in output'[c] \ output[c] =>
              h = c \/ exec[h] # "executing" \/ h \in robbed]_vars
  BY <1>1
<1> QED BY <1>2, InductiveInvariant, PTL DEF Spec, ForeignOutputIsLate
===============================================================================
