------------------------- MODULE CommandQueue_proofs -------------------------
(* Proofs about CommandQueue for any commands, limits, queues and channels.    *)
EXTENDS CommandQueue, FiniteSetTheorems, TLAPS

Promises == {"none", "pending", "resolved", "rejected", "terminated"}

(* A command without the bound on its retries. *)
Counted == [made : BOOLEAN, sent : BOOLEAN, acknowledged : BOOLEAN,
            late : BOOLEAN, retryCount : Nat]
Procs == [pc : PCs, on : Objs \cup {NoObj}, ch : Nat]
Entries == [of : Cmds, command : Counted]

Typed ==
    /\ promise \in [Cmds -> Promises]
    /\ obj \in [Objs -> Counted]
    /\ cur \in 0..MaxQueues /\ made \in Queues /\ cur <= made
    /\ commands \in [Queues -> Seq(Objs)]
    /\ proc \in [Queues -> Procs]
    /\ \A q \in Queues : proc[q].pc \notin {"idle", "loop"} => proc[q].on \in Objs
    /\ channel \in Nat /\ opened \in Nat
    /\ snapshot \in Seq(Entries) /\ taken \in Nat
    /\ tx \in [Objs -> Nat]

(* A caller's command that counts as sent was written. *)
SentIsWritten == \A c \in Cmds : obj[<<c, 0>>].sent => tx[<<c, 0>>] > 0

(* ... and so was one whose write a processor has behind it, whatever its      *)
(* recovery has made of the command since.                                     *)
WorkedOnWasSent ==
    \A q \in Queues :
        proc[q].pc \notin {"idle", "loop", "sending"} /\ proc[q].on[2] = 0
            => tx[proc[q].on] > 0

(* A running session has its first queue, a stopped one never has it again.    *)
OneQueueRuns ==
    /\ session = "running" => cur = 1 /\ made = 1
    /\ session # "running" => cur # 1
    /\ \A q \in Queues : q > made => commands[q] = <<>> /\ proc[q].pc = "idle"

Written ==
    Typed /\ SentIsWritten /\ WorkedOnWasSent /\ ResolvedWasSent /\ OneQueueRuns

(* Without prompt resets: what the processor of the first queue works on is at *)
(* its head, but for the delay in which the persisted commands were put before *)
(* it; and a caller that waits has its command there.                          *)
HeadIsWorkedOn ==
    proc[1].pc \notin {"idle", "loop", "backoff"} =>
        commands[1] # <<>> /\ Head(commands[1]) = proc[1].on

PendingIsQueued ==
    \A c \in Cmds : promise[c] = "pending" =>
        /\ session = "running" /\ ~ obj[<<c, 0>>].acknowledged
        /\ \E i \in DOMAIN commands[1] : commands[1][i] = <<c, 0>>

Kept == HeadIsWorkedOn /\ PendingIsQueued

(* Without snapshots: only the first queue ever has commands.                  *)
NothingRestored ==
    /\ snapshot = <<>>
    /\ \A q \in Queues : q # 1 => commands[q] = <<>> /\ proc[q].pc = "idle"

Awake == NothingRestored /\ NoWakeupLost

(* The inductive invariant. *)
IInv == Written /\ (~ Flushes => Kept) /\ (MaxSnapshots = 0 => Awake)

-------------------------------------------------------------------------------
(* Objects, queues and processors. *)

LEMMA Constants ==
    /\ 1 \in Queues /\ Queues \subseteq Nat /\ MaxQueues \in Nat
    /\ \A c \in Cmds : <<c, 0>> \in Objs /\ <<c, 0>>[1] = c /\ <<c, 0>>[2] = 0
    /\ \A o \in Objs : o[1] \in Cmds /\ o[2] \in Nat /\ o = <<o[1], o[2]>>
    /\ \A o \in Objs, c \in Cmds : o[2] = 0 /\ o[1] = c <=> o = <<c, 0>>
<1>1. 0 \in 0..MaxCopies /\ 1 \in Queues /\ Queues \subseteq Nat /\ MaxQueues \in Nat
  BY CommandQueueAssumption DEF Queues
<1>2. \A c \in Cmds : <<c, 0>> \in Objs /\ <<c, 0>>[1] = c /\ <<c, 0>>[2] = 0
  BY <1>1 DEF Objs
<1>3. \A o \in Objs : o[1] \in Cmds /\ o[2] \in Nat /\ o = <<o[1], o[2]>>
  BY CommandQueueAssumption DEF Objs
<1>4. \A o \in Objs, c \in Cmds : o[2] = 0 /\ o[1] = c <=> o = <<c, 0>>
  BY <1>2, <1>3
<1> QED BY <1>1, <1>2, <1>3, <1>4

LEMMA GotoMoves ==
    ASSUME Typed, NEW q \in Queues, NEW pc \in PCs, Goto(q, pc)
    PROVE  /\ proc' \in [Queues -> Procs]
           /\ proc'[q].pc = pc /\ proc'[q].on = proc[q].on
           /\ \A r \in Queues : r # q => proc'[r] = proc[r]
BY DEF Typed, Goto, Procs

LEMMA ShiftTypes ==
    ASSUME NEW s \in Seq(Objs)
    PROVE  Shift(s) \in Seq(Objs)
BY DEF Shift

(* A restored command is a copy, never the object of a caller.                 *)
LEMMA CopiesAreCopies ==
    ASSUME Typed, RoomForCopies
    PROVE  /\ Copies \in Seq(Objs) /\ \A i \in DOMAIN Copies : Copies[i][2] # 0
           /\ ObjWithCopies \in [Objs -> Counted]
           /\ \A c \in Cmds : ObjWithCopies[<<c, 0>>] = obj[<<c, 0>>]
<1>0. /\ Len(snapshot) \in Nat /\ DOMAIN snapshot = 1..Len(snapshot)
      /\ \A i \in DOMAIN snapshot : /\ snapshot[i].of \in Cmds
                                    /\ snapshot[i].command \in Counted
  <2>1. snapshot \in Seq(Entries)
    BY DEF Typed
  <2>2. /\ Len(snapshot) \in Nat /\ DOMAIN snapshot = 1..Len(snapshot)
        /\ \A i \in DOMAIN snapshot : snapshot[i] \in Entries
    BY <2>1
  <2>3. \A e \in Entries : e.of \in Cmds /\ e.command \in Counted
    BY DEF Entries
  <2> QED BY <2>2, <2>3
<1>1. ASSUME NEW i \in DOMAIN snapshot
      PROVE  Copy(i) \in Objs /\ Copy(i)[2] # 0
  <2> DEFINE c == snapshot[i].of
             K == {k \in 1..MaxCopies : obj[<<c, k>>].made}
             J == {j \in 1..i : snapshot[j].of = c}
  <2>1. Copy(i) = <<c, Cardinality(K) + Cardinality(J)>>
    BY DEF Copy, CopiesMade
  <2>2. IsFiniteSet(K) /\ Cardinality(K) \in Nat
    <3>1. MaxCopies \in Int /\ 1 \in Int
      BY CommandQueueAssumption
    <3>2. IsFiniteSet(1..MaxCopies)
      BY <3>1, FS_Interval
    <3> QED BY <3>2, FS_Subset, FS_CardinalityType
  <2>3. IsFiniteSet(J) /\ i \in J
    <3>1. i \in Int /\ 1 \in Int /\ i \in 1..i
      BY <1>0
    <3>2. IsFiniteSet(1..i)
      BY <3>1, FS_Interval
    <3>3. IsFiniteSet(J)
      BY <3>2, FS_Subset
    <3> QED BY <3>1, <3>3
  <2>4. Cardinality(J) \in Nat /\ Cardinality(J) # 0
    <3> HIDE DEF J
    <3> QED BY <2>3, FS_CardinalityType, FS_EmptySet
  <2>5. Copy(i)[2] <= MaxCopies
    BY DEF RoomForCopies
  <2> HIDE DEF K, J
  <2>6. Copy(i)[2] \in Nat \ {0} /\ Copy(i)[2] \in 0..MaxCopies
    BY <2>1, <2>2, <2>4, <2>5, CommandQueueAssumption
  <2> QED BY <1>0, <2>1, <2>6 DEF Objs
<1>2. Copies \in Seq(Objs) /\ \A i \in DOMAIN Copies : Copies[i][2] # 0
  BY <1>0, <1>1 DEF Copies
<1>3. ASSUME NEW o \in Objs, \E i \in DOMAIN snapshot : Copy(i) = o
      PROVE  snapshot[CHOOSE i \in DOMAIN snapshot : Copy(i) = o].command \in Counted
  <2> DEFINE i == CHOOSE i \in DOMAIN snapshot : Copy(i) = o
  <2>1. i \in DOMAIN snapshot
    BY <1>3
  <2> HIDE DEF i
  <2>2. snapshot[i].command \in Counted
    BY <1>0, <2>1
  <2> QED BY <2>2 DEF i
<1>4. ObjWithCopies \in [Objs -> Counted]
  BY <1>3 DEF ObjWithCopies, Typed
<1>5. \A c \in Cmds : ObjWithCopies[<<c, 0>>] = obj[<<c, 0>>]
  <2> SUFFICES ASSUME NEW c \in Cmds PROVE ObjWithCopies[<<c, 0>>] = obj[<<c, 0>>]
    OBVIOUS
  <2>1. <<c, 0>> \in Objs /\ <<c, 0>>[2] = 0
    BY Constants
  <2>2. ~ \E i \in DOMAIN snapshot : Copy(i) = <<c, 0>>
    BY <1>1, <2>1
  <2> QED BY <2>1, <2>2 DEF ObjWithCopies
<1> QED BY <1>2, <1>4, <1>5

(* Without a snapshot nothing is restored. *)
LEMMA NothingToRestore ==
    ASSUME Typed, snapshot = <<>>
    PROVE  Copies = <<>> /\ ObjWithCopies = obj
BY DEF Copies, ObjWithCopies, Typed

(* Recovered leaves a command whose clock starts anew. *)
LEMMA RecoveredObj ==
    ASSUME Typed, NEW q \in Queues, proc[q].on \in Objs, NEW objs \in [Objs -> Counted],
           Recovered(q, objs)
    PROVE  /\ obj' \in [Objs -> Counted]
           /\ \A o \in Objs : /\ obj'[o].sent = objs[o].sent
                              /\ obj'[o].acknowledged = objs[o].acknowledged
           /\ Goto(q, "backoff")
<1> DEFINE o == proc[q].on
           r == objs[o].retryCount
<1>1. obj' = [objs EXCEPT ![o] = [objs[o] EXCEPT !.late = FALSE, !.retryCount = @ + 1]]
  BY DEF Recovered, Counted
<1> QED BY <1>1 DEF Recovered, Counted

-------------------------------------------------------------------------------
(* What several actions have in common. *)

(* The processor of q goes from one await to the next: it may touch the        *)
(* command it works on and lose the channel, and drops nothing.                *)
GoesOn(q) ==
    /\ proc[q].pc \notin {"idle", "loop", "sending"}
    /\ \E pc \in PCs \ {"idle", "sending"} :
          /\ Goto(q, pc)
          /\ proc[q].pc = "backoff" => pc = "loop"
    /\ UNCHANGED <<promise, tx, cur, made, commands, session, snapshot, taken, opened, due>>
    /\ channel' \in {channel, 0}
    /\ obj' \in [Objs -> Counted]
    /\ \A o \in Objs : /\ obj'[o].sent => obj[o].sent
                       /\ obj'[o].acknowledged => obj[o].acknowledged

(* The processor of q settles the command it works on and drops the head.      *)
Drops(q) ==
    /\ proc[q].pc \notin {"idle", "loop", "backoff"}
    /\ Goto(q, "loop")
    /\ commands' = [commands EXCEPT ![q] = Shift(@)]
    /\ \E how \in {"resolved", "rejected"} :
          /\ promise' = Settle(proc[q].on, how)
          /\ how = "resolved" => proc[q].pc # "sending"
    /\ UNCHANGED <<cur, made, session, snapshot, taken, channel, opened, due>>
    /\ tx' \in [Objs -> Nat] /\ \A o \in Objs : tx'[o] >= tx[o]
    /\ obj' \in [Objs -> Counted]
    /\ \A o \in Objs : /\ obj'[o].sent => obj[o].sent
                       /\ obj'[o].acknowledged => obj[o].acknowledged \/ o = proc[q].on

(* What is left to show of what was written, when types are kept.              *)
LEMMA WritingHolds ==
    ASSUME Written, Typed', OneQueueRuns',
           \A o \in Objs : tx'[o] >= tx[o],
           \A c \in Cmds : obj'[<<c, 0>>].sent =>
               obj[<<c, 0>>].sent \/ tx'[<<c, 0>>] > 0,
           \A c \in Cmds : promise'[c] = "resolved" =>
               promise[c] = "resolved" \/ tx'[<<c, 0>>] > 0,
           \A q \in Queues : proc'[q].pc \notin {"idle", "loop", "sending"} =>
               \/ proc[q].pc \notin {"idle", "loop", "sending"} /\ proc'[q].on = proc[q].on
               \/ proc'[q].on[2] = 0 => tx'[proc'[q].on] > 0
    PROVE  Written'
<1>1. \A o \in Objs : tx[o] \in Nat /\ tx'[o] \in Nat /\ (tx[o] > 0 => tx'[o] > 0)
  BY DEF Written, Typed
<1>2. SentIsWritten' /\ ResolvedWasSent'
  BY <1>1, Constants DEF Written, SentIsWritten, ResolvedWasSent
<1>3. WorkedOnWasSent'
  <2> SUFFICES ASSUME NEW q \in Queues,
                      proc'[q].pc \notin {"idle", "loop", "sending"}, proc'[q].on[2] = 0
               PROVE  tx'[proc'[q].on] > 0
    BY DEF WorkedOnWasSent
  <2>1. CASE proc[q].pc \notin {"idle", "loop", "sending"} /\ proc'[q].on = proc[q].on
    <3>1. proc[q].on \in Objs /\ tx[proc[q].on] > 0
      BY <2>1 DEF Written, Typed, WorkedOnWasSent
    <3> QED BY <1>1, <2>1, <3>1
  <2>2. CASE ~ (proc[q].pc \notin {"idle", "loop", "sending"} /\ proc'[q].on = proc[q].on)
    BY <2>2
  <2> QED BY <2>1, <2>2
<1> QED BY <1>2, <1>3 DEF Written

(* Which queues run, when neither the session nor its queue changes.           *)
LEMMA QueuesStay ==
    ASSUME OneQueueRuns, UNCHANGED <<session, cur, made>>,
           \A q \in Queues : q > made => commands'[q] = commands[q] /\ proc'[q].pc = "idle"
    PROVE  OneQueueRuns'
BY DEF OneQueueRuns

LEMMA GoesOnHolds ==
    ASSUME IInv, NEW q \in Queues, GoesOn(q)
    PROVE  IInv'
<1>0. PICK pc \in PCs \ {"idle", "sending"} :
          Goto(q, pc) /\ (proc[q].pc = "backoff" => pc = "loop")
  BY DEF GoesOn
<1>1. /\ proc' \in [Queues -> Procs]
      /\ proc'[q].pc = pc /\ proc'[q].on = proc[q].on
      /\ \A r \in Queues : r # q => proc'[r] = proc[r]
  BY <1>0, GotoMoves DEF IInv, Written
<1>2. q <= made /\ q \in Nat /\ made \in Nat
  BY Constants DEF IInv, Written, OneQueueRuns, GoesOn, Typed
<1>3. Typed'
  <2>1. \A r \in Queues : proc'[r].pc \notin {"idle", "loop"} => proc'[r].on \in Objs
    BY <1>1 DEF IInv, Written, Typed, GoesOn
  <2> QED BY <1>1, <2>1 DEF IInv, Written, Typed, GoesOn
<1>4. OneQueueRuns'
  <2>1. \A r \in Queues : r > made => r # q
    BY <1>2
  <2> QED BY <1>1, <2>1, QueuesStay DEF IInv, Written, GoesOn, OneQueueRuns
<1>5. Written'
  <2>1. \A o \in Objs : tx'[o] >= tx[o]
    BY DEF IInv, Written, Typed, GoesOn
  <2>2. \A c \in Cmds : obj'[<<c, 0>>].sent => obj[<<c, 0>>].sent
    BY Constants DEF GoesOn
  <2>3. \A r \in Queues : proc'[r].pc \notin {"idle", "loop", "sending"} =>
            proc[r].pc \notin {"idle", "loop", "sending"} /\ proc'[r].on = proc[r].on
    BY <1>1 DEF GoesOn
  <2> QED BY <1>3, <1>4, <2>1, <2>2, <2>3, WritingHolds DEF IInv, GoesOn
<1>6. ASSUME Kept PROVE Kept'
  <2>1. HeadIsWorkedOn'
    BY <1>0, <1>1, <1>6, Constants DEF Kept, HeadIsWorkedOn, GoesOn
  <2>2. PendingIsQueued'
    BY <1>6, Constants DEF Kept, PendingIsQueued, GoesOn
  <2> QED BY <2>1, <2>2 DEF Kept
<1>7. ASSUME Awake PROVE Awake'
  <2>1. NothingRestored'
    BY <1>1, <1>7 DEF Awake, NothingRestored, GoesOn
  <2>2. NoWakeupLost'
    <3>1. cur \in Queues => proc'[cur].pc = proc[cur].pc \/ proc'[cur].pc # "idle"
      BY <1>0, <1>1
    <3>2. cur # 0 => cur \in Queues
      BY CommandQueueAssumption DEF IInv, Written, Typed, Queues
    <3> QED BY <1>7, <3>1, <3>2 DEF Awake, NoWakeupLost, GoesOn
  <2> QED BY <2>1, <2>2 DEF Awake
<1> QED BY <1>5, <1>6, <1>7 DEF IInv

LEMMA SettleIs ==
    ASSUME Typed, NEW o \in Objs, NEW how \in {"resolved", "rejected"},
           promise' = Settle(o, how)
    PROVE  /\ promise' \in [Cmds -> Promises]
           /\ \A c \in Cmds : /\ promise'[c] = "pending" => promise[c] = "pending" /\ o # <<c, 0>>
                              /\ promise'[c] = "resolved" =>
                                    \/ promise[c] = "resolved"
                                    \/ o = <<c, 0>> /\ how = "resolved"
<1>1. o[1] \in Cmds /\ \A c \in Cmds : o[2] = 0 /\ o[1] = c <=> o = <<c, 0>>
  BY Constants
<1>2. CASE o[2] = 0 /\ promise[o[1]] = "pending"
  BY <1>1, <1>2 DEF Typed, Settle, Promises
<1>3. CASE ~ (o[2] = 0 /\ promise[o[1]] = "pending")
  BY <1>1, <1>3 DEF Typed, Settle
<1> QED BY <1>2, <1>3

LEMMA DropsHolds ==
    ASSUME IInv, NEW q \in Queues, Drops(q)
    PROVE  IInv'
<1> DEFINE o == proc[q].on
<1>0. o \in Objs
  BY DEF IInv, Written, Typed, Drops
<1>1. /\ proc' \in [Queues -> Procs]
      /\ proc'[q].pc = "loop" /\ \A r \in Queues : r # q => proc'[r] = proc[r]
  BY GotoMoves DEF IInv, Written, Drops, PCs
<1>2. q <= made /\ q \in Nat /\ made \in Nat
  BY Constants DEF IInv, Written, OneQueueRuns, Drops, Typed
<1>3. PICK how \in {"resolved", "rejected"} :
          promise' = Settle(o, how) /\ (how = "resolved" => proc[q].pc # "sending")
  BY DEF Drops
<1>4. /\ promise' \in [Cmds -> Promises]
      /\ \A c \in Cmds : /\ promise'[c] = "pending" => promise[c] = "pending" /\ o # <<c, 0>>
                         /\ promise'[c] = "resolved" =>
                               \/ promise[c] = "resolved"
                               \/ o = <<c, 0>> /\ how = "resolved"
  BY <1>0, <1>3, SettleIs DEF IInv, Written
<1>5. /\ commands' \in [Queues -> Seq(Objs)]
      /\ commands'[q] = Shift(commands[q])
      /\ \A r \in Queues : r # q => commands'[r] = commands[r]
  BY ShiftTypes DEF IInv, Written, Typed, Drops
<1>6. Typed'
  <2>1. \A r \in Queues : proc'[r].pc \notin {"idle", "loop"} => proc'[r].on \in Objs
    BY <1>1 DEF IInv, Written, Typed
  <2> QED BY <1>1, <1>4, <1>5, <2>1 DEF IInv, Written, Typed, Drops
<1>7. OneQueueRuns'
  <2>1. \A r \in Queues : r > made => r # q
    BY <1>2
  <2> QED BY <1>1, <1>5, <2>1, QueuesStay DEF IInv, Written, Drops, OneQueueRuns
<1>8. Written'
  <2>1. \A x \in Objs : tx'[x] >= tx[x]
    BY DEF Drops
  <2>2. \A c \in Cmds : obj'[<<c, 0>>].sent => obj[<<c, 0>>].sent
    BY Constants DEF Drops
  <2>3. \A r \in Queues : proc'[r].pc \notin {"idle", "loop", "sending"} =>
            proc[r].pc \notin {"idle", "loop", "sending"} /\ proc'[r].on = proc[r].on
    BY <1>1
  <2>4. how = "resolved" /\ o[2] = 0 => tx'[o] > 0
    <3>1. how = "resolved" /\ o[2] = 0 => tx[o] > 0
      BY <1>3 DEF IInv, Written, WorkedOnWasSent, Drops
    <3>2. tx[o] \in Nat /\ tx'[o] \in Nat /\ tx'[o] >= tx[o]
      BY <1>0, <2>1, <1>6 DEF IInv, Written, Typed
    <3> QED BY <3>1, <3>2
  <2>5. \A c \in Cmds : promise'[c] = "resolved" =>
            promise[c] = "resolved" \/ tx'[<<c, 0>>] > 0
    BY <1>0, <1>4, <2>4, Constants
  <2> QED BY <1>6, <1>7, <2>1, <2>2, <2>3, <2>5, WritingHolds DEF IInv
<1>9. ASSUME Kept PROVE Kept'
  <2>1. HeadIsWorkedOn'
    BY <1>1, <1>5, <1>9, Constants DEF Kept, HeadIsWorkedOn
  <2>2. PendingIsQueued'
    <3> SUFFICES ASSUME NEW c \in Cmds, promise'[c] = "pending"
                 PROVE  /\ session' = "running" /\ ~ obj'[<<c, 0>>].acknowledged
                        /\ \E i \in DOMAIN commands'[1] : commands'[1][i] = <<c, 0>>
      BY DEF PendingIsQueued
    <3>1. promise[c] = "pending" /\ o # <<c, 0>>
      BY <1>4
    <3>2. session' = "running" /\ ~ obj'[<<c, 0>>].acknowledged
      BY <1>9, <3>1, Constants DEF Kept, PendingIsQueued, Drops
    <3>3. PICK i \in DOMAIN commands[1] : commands[1][i] = <<c, 0>>
      BY <1>9, <3>1 DEF Kept, PendingIsQueued
    <3>4. CASE q # 1
      BY <1>5, <3>2, <3>3, <3>4, Constants
    <3>5. CASE q = 1
      <4>1. commands[1] \in Seq(Objs) /\ commands[1] # <<>> /\ Head(commands[1]) = o
        BY <1>9, <3>5, Constants DEF Kept, HeadIsWorkedOn, Drops, IInv, Written, Typed
      <4>2. commands'[1] = Tail(commands[1])
        BY <1>5, <3>5, <4>1 DEF Shift
      <4>3. i # 1 /\ i \in 1..Len(commands[1]) /\ Len(commands[1]) \in Nat
        BY <3>1, <3>3, <4>1
      <4>4. i - 1 \in DOMAIN commands'[1] /\ commands'[1][i - 1] = <<c, 0>>
        BY <3>3, <4>1, <4>2, <4>3
      <4> QED BY <3>2, <4>4
    <3> QED BY <3>4, <3>5
  <2> QED BY <2>1, <2>2 DEF Kept
<1>10. ASSUME Awake PROVE Awake'
  <2>1. NothingRestored'
    <3>1. commands[q] = <<>> => commands'[q] = <<>>
      BY <1>5 DEF Shift
    <3> QED BY <1>1, <1>5, <1>10, <3>1 DEF Awake, NothingRestored, Drops
  <2>2. NoWakeupLost'
    <3>1. cur \in Queues => (proc'[cur] = proc[cur] /\ commands'[cur] = commands[cur])
                              \/ proc'[cur].pc # "idle"
      BY <1>1, <1>5
    <3>2. cur # 0 => cur \in Queues
      BY CommandQueueAssumption DEF IInv, Written, Typed, Queues
    <3> QED BY <1>10, <3>1, <3>2 DEF Awake, NoWakeupLost, Drops
  <2> QED BY <2>1, <2>2 DEF Awake
<1> QED BY <1>8, <1>9, <1>10 DEF IInv

(* A processor takes the head of its queue.                                    *)
LEMMA TakeHeadHolds ==
    ASSUME IInv, NEW q \in Queues,
           NEW pc \in {"sending", "check", "lastResort", "recovering"}, TakeHead(q, pc),
           pc # "sending" => obj[Head(commands[q])].sent
    PROVE  IInv'
<1>0. /\ commands[q] # <<>> /\ commands[q] \in Seq(Objs) /\ Head(commands[q]) \in Objs
      /\ proc[q].pc = "loop" /\ proc[q] \in Procs
  BY DEF TakeHead, AtLoop, IInv, Written, Typed
<1>1. /\ proc' \in [Queues -> Procs]
      /\ proc'[q].pc = pc /\ proc'[q].on = Head(commands[q])
      /\ \A r \in Queues : r # q => proc'[r] = proc[r]
  BY <1>0 DEF TakeHead, IInv, Written, Typed, Procs, PCs
<1>2. UNCHANGED <<promise, obj, cur, made, commands, due, channel, opened, session, snapshot, taken, tx>>
  BY DEF TakeHead, queueVars, linkVars, snapVars
<1>3. Typed'
  <2>1. \A r \in Queues : proc'[r].pc \notin {"idle", "loop"} => proc'[r].on \in Objs
    BY <1>0, <1>1 DEF IInv, Written, Typed
  <2> QED BY <1>1, <1>2, <2>1 DEF IInv, Written, Typed
<1>4. OneQueueRuns'
  <2>1. \A r \in Queues : r > made => r # q
    BY <1>0 DEF IInv, Written, OneQueueRuns
  <2> QED BY <1>1, <1>2, <2>1, QueuesStay DEF IInv, Written, OneQueueRuns
<1>5. Written'
  <2>1. \A o \in Objs : tx'[o] >= tx[o]
    BY <1>2 DEF IInv, Written, Typed
  <2>2. pc # "sending" /\ Head(commands[q])[2] = 0 => tx'[Head(commands[q])] > 0
    <3> DEFINE o == Head(commands[q])
    <3>1. o \in Objs /\ (pc # "sending" => obj[o].sent)
      BY <1>0
    <3> HIDE DEF o
    <3>2. o[2] = 0 => o = <<o[1], 0>> /\ o[1] \in Cmds
      BY <3>1, Constants
    <3>3. pc # "sending" /\ o[2] = 0 => tx'[o] > 0
      BY <1>2, <3>1, <3>2 DEF IInv, Written, SentIsWritten
    <3> QED BY <3>3 DEF o
  <2>3. \A r \in Queues : proc'[r].pc \notin {"idle", "loop", "sending"} =>
            \/ proc[r].pc \notin {"idle", "loop", "sending"} /\ proc'[r].on = proc[r].on
            \/ proc'[r].on[2] = 0 => tx'[proc'[r].on] > 0
    BY <1>1, <2>2
  <2> QED BY <1>2, <1>3, <1>4, <2>1, <2>3, WritingHolds DEF IInv
<1>6. ASSUME Kept PROVE Kept'
  BY <1>0, <1>1, <1>2, <1>6, Constants DEF Kept, HeadIsWorkedOn, PendingIsQueued
<1>7. ASSUME Awake PROVE Awake'
  <2>1. NothingRestored'
    BY <1>0, <1>1, <1>2, <1>7 DEF Awake, NothingRestored
  <2>2. cur \in Queues => proc'[cur] = proc[cur] \/ proc'[cur].pc # "idle"
    BY <1>1
  <2>3. cur # 0 => cur \in Queues
    BY CommandQueueAssumption DEF IInv, Written, Typed, Queues
  <2> QED BY <1>2, <1>7, <2>1, <2>2, <2>3 DEF Awake, NoWakeupLost
<1> QED BY <1>5, <1>6, <1>7 DEF IInv

(* A pass ends, and another is scheduled if the queue has commands.            *)
LEMMA EndPassHolds ==
    ASSUME IInv, NEW q \in Queues, proc[q].pc # "idle", EndPass(q),
           UNCHANGED <<promise, obj, cur, made, commands, channel, opened, session, snapshot, taken, tx>>
    PROVE  IInv'
<1>1. /\ proc' \in [Queues -> Procs] /\ proc'[q].pc = "idle"
      /\ \A r \in Queues : r # q => proc'[r] = proc[r]
  <2>1. Idle \in Procs /\ Idle.pc = "idle"
    BY DEF Idle, Procs, PCs
  <2> QED BY <2>1 DEF EndPass, IInv, Written, Typed
<1>2. Typed'
  <2>1. \A r \in Queues : proc'[r].pc \notin {"idle", "loop"} => proc'[r].on \in Objs
    BY <1>1 DEF IInv, Written, Typed
  <2> QED BY <1>1, <2>1 DEF IInv, Written, Typed
<1>3. OneQueueRuns'
  <2>1. \A r \in Queues : r > made => r # q
    BY DEF IInv, Written, OneQueueRuns
  <2> QED BY <1>1, <2>1, QueuesStay DEF IInv, Written, OneQueueRuns
<1>4. Written'
  <2>1. \A o \in Objs : tx'[o] >= tx[o]
    BY DEF IInv, Written, Typed
  <2>2. \A r \in Queues : proc'[r].pc \notin {"idle", "loop", "sending"} =>
            proc[r].pc \notin {"idle", "loop", "sending"} /\ proc'[r].on = proc[r].on
    BY <1>1
  <2> QED BY <1>2, <1>3, <2>1, <2>2, WritingHolds DEF IInv
<1>5. ASSUME Kept PROVE Kept'
  BY <1>1, <1>5, Constants DEF Kept, HeadIsWorkedOn, PendingIsQueued
<1>6. ASSUME Awake PROVE Awake'
  <2>1. NothingRestored'
    BY <1>1, <1>6 DEF Awake, NothingRestored
  <2>2. cur \in Queues => \/ proc'[cur] = proc[cur] /\ (due => due')
                          \/ commands[cur] # <<>> => due'
    BY <1>1 DEF EndPass
  <2>3. cur # 0 => cur \in Queues
    BY CommandQueueAssumption DEF IInv, Written, Typed, Queues
  <2> QED BY <1>6, <2>1, <2>2, <2>3 DEF Awake, NoWakeupLost
<1> QED BY <1>4, <1>5, <1>6 DEF IInv

LEMMA WriteDoneHolds ==
    ASSUME IInv, NEW q \in Queues, WriteDone(q)
    PROVE  IInv'
<1> DEFINE o == proc[q].on
<1>0. /\ proc[q].pc = "sending" /\ o \in Objs
      /\ UNCHANGED <<promise, cur, made, commands, due, channel, opened, session, snapshot, taken>>
  BY DEF WriteDone, snapVars, IInv, Written, Typed
<1>1. PICK pc \in {"spacing", "check"} : Goto(q, pc)
  BY DEF WriteDone
<1>2. /\ proc' \in [Queues -> Procs]
      /\ proc'[q].pc = pc /\ proc'[q].on = o
      /\ \A r \in Queues : r # q => proc'[r] = proc[r]
  BY <1>1, GotoMoves DEF IInv, Written, PCs
<1>3. /\ tx' \in [Objs -> Nat] /\ tx'[o] > 0
      /\ \A x \in Objs : tx'[x] >= tx[x]
  BY <1>0 DEF WriteDone, IInv, Written, Typed
<1>4. /\ obj' \in [Objs -> Counted]
      /\ \A x \in Objs : /\ obj'[x].sent => obj[x].sent \/ x = o
                         /\ obj'[x].acknowledged = obj[x].acknowledged
  <2>1. obj' = [obj EXCEPT ![o] = [obj[o] EXCEPT !.sent = TRUE, !.late = FALSE]]
    BY <1>0 DEF WriteDone, IInv, Written, Typed, Counted
  <2> DEFINE r == [obj[o] EXCEPT !.sent = TRUE, !.late = FALSE]
  <2>2. obj \in [Objs -> Counted]
    BY DEF IInv, Written, Typed
  <2>3. r \in Counted /\ r.acknowledged = obj[o].acknowledged
    BY <1>0, <2>2 DEF Counted
  <2> HIDE DEF r, o
  <2>4. /\ obj' \in [Objs -> Counted] /\ obj'[o] = r
        /\ \A x \in Objs : x # o => obj'[x] = obj[x]
    BY <1>0, <2>1, <2>2, <2>3 DEF r
  <2> QED BY <2>3, <2>4
<1>5. Typed'
  <2>1. \A r \in Queues : proc'[r].pc \notin {"idle", "loop"} => proc'[r].on \in Objs
    BY <1>0, <1>2 DEF IInv, Written, Typed
  <2> QED BY <1>0, <1>2, <1>3, <1>4, <2>1 DEF IInv, Written, Typed
<1>6. OneQueueRuns'
  <2>1. \A r \in Queues : r > made => r # q
    BY <1>0 DEF IInv, Written, OneQueueRuns
  <2> QED BY <1>0, <1>2, <2>1, QueuesStay DEF IInv, Written, OneQueueRuns
<1>7. Written'
  <2>1. \A c \in Cmds : obj'[<<c, 0>>].sent => obj[<<c, 0>>].sent \/ tx'[<<c, 0>>] > 0
    BY <1>3, <1>4, Constants
  <2>2. \A r \in Queues : proc'[r].pc \notin {"idle", "loop", "sending"} =>
            \/ proc[r].pc \notin {"idle", "loop", "sending"} /\ proc'[r].on = proc[r].on
            \/ proc'[r].on[2] = 0 => tx'[proc'[r].on] > 0
    BY <1>2, <1>3
  <2> QED BY <1>0, <1>3, <1>5, <1>6, <2>1, <2>2, WritingHolds DEF IInv
<1>8. ASSUME Kept PROVE Kept'
  <2>1. HeadIsWorkedOn'
    BY <1>0, <1>2, <1>8, Constants DEF Kept, HeadIsWorkedOn
  <2>2. PendingIsQueued'
    BY <1>0, <1>4, <1>8, Constants DEF Kept, PendingIsQueued
  <2> QED BY <2>1, <2>2 DEF Kept
<1>9. ASSUME Awake PROVE Awake'
  <2>1. NothingRestored'
    BY <1>0, <1>2, <1>9 DEF Awake, NothingRestored
  <2>2. cur \in Queues => proc'[cur] = proc[cur] \/ proc'[cur].pc # "idle"
    BY <1>2
  <2>3. cur # 0 => cur \in Queues
    BY CommandQueueAssumption DEF IInv, Written, Typed, Queues
  <2> QED BY <1>0, <1>9, <2>1, <2>2, <2>3 DEF Awake, NoWakeupLost
<1> QED BY <1>7, <1>8, <1>9 DEF IInv

(* A new channel, with its queue when the session has none.                    *)
LEMMA ReconnectedHolds ==
    ASSUME IInv, NEW q \in Queues, Reconnected(q)
    PROVE  IInv'
<1>0. /\ proc[q].pc = "reconnecting" /\ proc[q].on \in Objs
      /\ UNCHANGED <<promise, due, session, snapshot, taken, tx>>
      /\ opened' \in Nat /\ channel' \in Nat
  <2>1. /\ proc[q].pc = "reconnecting" /\ UNCHANGED <<promise, due, session, snapshot, taken, tx>>
        /\ opened' = opened + 1 /\ channel' = opened + 1
    BY DEF Reconnected, snapVars
  <2>2. opened \in Nat
    BY DEF IInv, Written, Typed
  <2>3. proc[q].on \in Objs
    BY <2>1 DEF IInv, Written, Typed
  <2> QED BY <2>1, <2>2, <2>3
<1>1. /\ proc' \in [Queues -> Procs]
      /\ proc'[q].pc = "validating" /\ proc'[q].on = proc[q].on
      /\ \A r \in Queues : r # q => proc'[r] = proc[r]
  BY GotoMoves DEF IInv, Written, Reconnected, PCs
<1>2. q <= made /\ q \in Nat /\ made \in Nat /\ MaxQueues \in Nat
  <2>1. q \in Nat /\ made \in Nat /\ MaxQueues \in Nat
    BY Constants DEF IInv, Written, Typed
  <2>2. ~ (q > made)
    BY <1>0 DEF IInv, Written, OneQueueRuns
  <2> QED BY <2>1, <2>2
<1>3. CASE ~ NeedsQueue
  <2>1. UNCHANGED <<cur, made, commands, obj>>
    BY <1>3 DEF Reconnected, InitializeCommandQueue, InitializedObj
  <2>2. Typed'
    <3>1. \A r \in Queues : proc'[r].pc \notin {"idle", "loop"} => proc'[r].on \in Objs
      BY <1>0, <1>1 DEF IInv, Written, Typed
    <3> QED BY <1>0, <1>1, <2>1, <3>1 DEF IInv, Written, Typed
  <2>3. OneQueueRuns'
    <3>1. \A r \in Queues : r > made => r # q
      BY <1>2
    <3> QED BY <1>0, <1>1, <2>1, <3>1, QueuesStay DEF IInv, Written, OneQueueRuns
  <2>4. Written'
    <3>1. \A o \in Objs : tx'[o] >= tx[o]
      BY <1>0 DEF IInv, Written, Typed
    <3>2. \A r \in Queues : proc'[r].pc \notin {"idle", "loop", "sending"} =>
              proc[r].pc \notin {"idle", "loop", "sending"} /\ proc'[r].on = proc[r].on
      BY <1>0, <1>1
    <3> QED BY <1>0, <2>1, <2>2, <2>3, <3>1, <3>2, WritingHolds DEF IInv
  <2>5. ASSUME Kept PROVE Kept'
    BY <1>0, <1>1, <2>1, <2>5, Constants DEF Kept, HeadIsWorkedOn, PendingIsQueued
  <2>6. ASSUME Awake PROVE Awake'
    <3>1. NothingRestored'
      BY <1>0, <1>1, <2>1, <2>6 DEF Awake, NothingRestored
    <3>2. q = 1
      BY <1>0, <2>6 DEF Awake, NothingRestored
    <3>3. cur \in Queues /\ commands[cur] # <<>> => cur = 1
      BY <2>6 DEF Awake, NothingRestored
    <3>4. cur # 0 => cur \in Queues
      BY CommandQueueAssumption DEF IInv, Written, Typed, Queues
    <3> QED BY <1>1, <2>1, <3>1, <3>2, <3>3, <3>4 DEF Awake, NoWakeupLost
  <2> QED BY <2>4, <2>5, <2>6 DEF IInv
<1>4. CASE NeedsQueue
  <2>1. /\ made < MaxQueues /\ RoomForCopies /\ session # "running"
        /\ made' = made + 1 /\ cur' = made + 1
        /\ commands' = [commands EXCEPT ![made + 1] = Copies]
        /\ obj' = ObjWithCopies
    BY <1>4 DEF Reconnected, InitializeCommandQueue, InitializedObj, NeedsQueue, IInv,
                Written, OneQueueRuns
  <2>2. made + 1 \in Queues /\ made + 1 # 1 /\ made' \in 0..MaxQueues
    BY <1>2, <2>1 DEF Queues, IInv, Written, Typed
  <2>3. /\ Copies \in Seq(Objs) /\ obj' \in [Objs -> Counted]
        /\ \A c \in Cmds : obj'[<<c, 0>>] = obj[<<c, 0>>]
    BY <2>1, CopiesAreCopies DEF IInv, Written
  <2>4. /\ commands' \in [Queues -> Seq(Objs)] /\ commands'[made + 1] = Copies
        /\ \A r \in Queues : r # made + 1 => commands'[r] = commands[r]
    BY <2>1, <2>2, <2>3 DEF IInv, Written, Typed
  <2>5. Typed'
    <3>1. \A r \in Queues : proc'[r].pc \notin {"idle", "loop"} => proc'[r].on \in Objs
      BY <1>0, <1>1 DEF IInv, Written, Typed
    <3> QED BY <1>0, <1>1, <1>2, <2>1, <2>2, <2>3, <2>4, <3>1 DEF IInv, Written, Typed
  <2>6. OneQueueRuns'
    <3>1. \A r \in Queues : r > made' => r > made /\ r # made + 1 /\ r # q
      BY <1>2, <2>1, Constants
    <3>2. \A r \in Queues : r > made' => commands'[r] = <<>> /\ proc'[r].pc = "idle"
      BY <1>1, <2>4, <3>1 DEF IInv, Written, OneQueueRuns
    <3> QED BY <1>0, <1>2, <2>1, <2>2, <3>2 DEF OneQueueRuns
  <2>7. Written'
    <3>1. \A o \in Objs : tx'[o] >= tx[o]
      BY <1>0 DEF IInv, Written, Typed
    <3>2. \A r \in Queues : proc'[r].pc \notin {"idle", "loop", "sending"} =>
              proc[r].pc \notin {"idle", "loop", "sending"} /\ proc'[r].on = proc[r].on
      BY <1>0, <1>1
    <3> QED BY <1>0, <2>3, <2>5, <2>6, <3>1, <3>2, WritingHolds DEF IInv
  <2>8. ASSUME Kept PROVE Kept'
    <3>1. commands'[1] = commands[1]
      BY <2>2, <2>4, Constants
    <3> QED BY <1>0, <1>1, <2>1, <2>8, <3>1, Constants DEF Kept, HeadIsWorkedOn, PendingIsQueued
  <2>9. ASSUME Awake PROVE Awake'
    <3>1. Copies = <<>> /\ q = 1
      BY <1>0, <2>9, NothingToRestore DEF Awake, NothingRestored, IInv, Written
    <3>2. NothingRestored'
      BY <1>0, <1>1, <2>2, <2>4, <2>9, <3>1 DEF Awake, NothingRestored
    <3> QED BY <2>1, <2>4, <3>1, <3>2 DEF Awake, NoWakeupLost
  <2> QED BY <2>7, <2>8, <2>9 DEF IInv
<1> QED BY <1>3, <1>4

LEMMA ReverseTypes ==
    ASSUME NEW s \in Seq(Objs)
    PROVE  Reverse(s) \in Seq(Objs) /\ Len(Reverse(s)) = Len(s)
<1>1. Len(s) \in Nat
  OBVIOUS
<1>2. \A i \in 1..Len(s) : Len(s) - i + 1 \in 1..Len(s)
  BY <1>1
<1>3. Reverse(s) = [i \in 1..Len(s) |-> s[Len(s) - i + 1]]
  BY DEF Reverse
<1>4. \A i \in 1..Len(s) : s[Len(s) - i + 1] \in Objs
  BY <1>2
<1> QED BY <1>1, <1>3, <1>4

(* The persisted commands are put before the others, and the processor waits   *)
(* before it looks at the head again.                                          *)
LEMMA RestoredHolds ==
    ASSUME IInv, NEW q \in Queues, NEW leavesPrompt \in BOOLEAN,
           ValidationSucceeds(q, leavesPrompt), cur # 0
    PROVE  IInv'
<1>0. /\ proc[q].pc = "resuming" /\ proc[q].on \in Objs /\ cur \in Queues
      /\ UNCHANGED <<promise, cur, made, due, channel, opened, session, snapshot, taken, tx>>
      /\ RoomForCopies /\ Recovered(q, ObjWithCopies)
      /\ commands' = [commands EXCEPT ![cur] = Reverse(Copies) \o @]
  <2>1. /\ proc[q].pc = "resuming"
        /\ UNCHANGED <<promise, cur, made, due, channel, opened, session, snapshot, taken, tx>>
        /\ RoomForCopies /\ Recovered(q, ObjWithCopies)
        /\ commands' = [commands EXCEPT ![cur] = Reverse(Copies) \o @]
    BY DEF ValidationSucceeds, snapVars
  <2>2. proc[q].on \in Objs
    BY <2>1 DEF IInv, Written, Typed
  <2>3. cur \in Queues
    BY CommandQueueAssumption DEF IInv, Written, Typed, Queues
  <2> QED BY <2>1, <2>2, <2>3
<1>1. /\ Copies \in Seq(Objs) /\ ObjWithCopies \in [Objs -> Counted]
      /\ \A c \in Cmds : ObjWithCopies[<<c, 0>>] = obj[<<c, 0>>]
  BY <1>0, CopiesAreCopies DEF IInv, Written
<1>2. /\ obj' \in [Objs -> Counted]
      /\ \A o \in Objs : /\ obj'[o].sent = ObjWithCopies[o].sent
                         /\ obj'[o].acknowledged = ObjWithCopies[o].acknowledged
      /\ Goto(q, "backoff")
  BY <1>0, <1>1, RecoveredObj DEF IInv, Written
<1>3. \A c \in Cmds : /\ obj'[<<c, 0>>].sent = obj[<<c, 0>>].sent
                      /\ obj'[<<c, 0>>].acknowledged = obj[<<c, 0>>].acknowledged
  BY <1>1, <1>2, Constants
<1>4. /\ proc' \in [Queues -> Procs]
      /\ proc'[q].pc = "backoff" /\ proc'[q].on = proc[q].on
      /\ \A r \in Queues : r # q => proc'[r] = proc[r]
  BY <1>2, GotoMoves DEF IInv, Written, PCs
<1>5. q <= made /\ cur <= made /\ q \in Nat /\ made \in Nat /\ cur \in Nat
  <2>1. q \in Nat /\ made \in Nat /\ cur \in Nat /\ cur <= made
    BY Constants DEF IInv, Written, Typed
  <2>2. ~ (q > made)
    BY <1>0 DEF IInv, Written, OneQueueRuns
  <2> QED BY <2>1, <2>2
<1> DEFINE front == Reverse(Copies)
<1>6. front \in Seq(Objs) /\ Len(front) = Len(Copies)
  BY <1>1, ReverseTypes
<1> HIDE DEF front
<1>7. /\ commands' \in [Queues -> Seq(Objs)] /\ commands'[cur] = front \o commands[cur]
      /\ \A r \in Queues : r # cur => commands'[r] = commands[r]
  BY <1>0, <1>6 DEF IInv, Written, Typed, front
<1>8. Typed'
  <2>1. \A r \in Queues : proc'[r].pc \notin {"idle", "loop"} => proc'[r].on \in Objs
    BY <1>0, <1>4 DEF IInv, Written, Typed
  <2> QED BY <1>0, <1>2, <1>4, <1>7, <2>1 DEF IInv, Written, Typed
<1>9. OneQueueRuns'
  <2>1. \A r \in Queues : r > made => r # q /\ r # cur
    BY <1>5
  <2> QED BY <1>0, <1>4, <1>7, <2>1, QueuesStay DEF IInv, Written, OneQueueRuns
<1>10. Written'
  <2>1. \A o \in Objs : tx'[o] >= tx[o]
    BY <1>0 DEF IInv, Written, Typed
  <2>2. \A r \in Queues : proc'[r].pc \notin {"idle", "loop", "sending"} =>
            proc[r].pc \notin {"idle", "loop", "sending"} /\ proc'[r].on = proc[r].on
    BY <1>0, <1>4
  <2> QED BY <1>0, <1>3, <1>8, <1>9, <2>1, <2>2, WritingHolds DEF IInv
<1>11. ASSUME Kept PROVE Kept'
  <2>1. cur = 1 => q = 1
    <3>1. cur = 1 => made = 1
      BY DEF IInv, Written, OneQueueRuns
    <3> QED BY <1>5, <3>1, Constants DEF Queues
  <2>2. HeadIsWorkedOn'
    BY <1>4, <1>7, <1>11, <2>1, Constants DEF Kept, HeadIsWorkedOn
  <2>3. PendingIsQueued'
    <3> SUFFICES ASSUME NEW c \in Cmds, promise'[c] = "pending"
                 PROVE  /\ session' = "running" /\ ~ obj'[<<c, 0>>].acknowledged
                        /\ \E i \in DOMAIN commands'[1] : commands'[1][i] = <<c, 0>>
      BY DEF PendingIsQueued
    <3>1. session' = "running" /\ ~ obj'[<<c, 0>>].acknowledged
      BY <1>0, <1>3, <1>11 DEF Kept, PendingIsQueued
    <3>2. PICK i \in DOMAIN commands[1] : commands[1][i] = <<c, 0>>
      BY <1>0, <1>11 DEF Kept, PendingIsQueued
    <3>3. cur = 1
      BY <1>0, <3>1 DEF IInv, Written, OneQueueRuns
    <3>4. commands[1] \in Seq(Objs) /\ commands'[1] = front \o commands[1]
      BY <1>7, <3>3, Constants DEF IInv, Written, Typed
    <3>5. i + Len(front) \in DOMAIN commands'[1] /\ commands'[1][i + Len(front)] = <<c, 0>>
      BY <1>6, <3>2, <3>4
    <3> QED BY <3>1, <3>5
  <2> QED BY <2>2, <2>3 DEF Kept
<1>12. ASSUME Awake PROVE Awake'
  <2>1. front = <<>> /\ q = 1
    <3>1. Copies = <<>> /\ q = 1
      BY <1>0, <1>12, NothingToRestore DEF Awake, NothingRestored, IInv, Written
    <3> QED BY <1>6, <3>1
  <2>2. \A r \in Queues : commands'[r] = commands[r]
    BY <1>7, <2>1 DEF IInv, Written, Typed
  <2>3. NothingRestored'
    <3>1. \A r \in Queues : r # 1 => proc'[r].pc = "idle"
      BY <1>4, <1>12, <2>1 DEF Awake, NothingRestored
    <3>2. \A r \in Queues : r # 1 => commands'[r] = <<>>
      BY <1>12, <2>2 DEF Awake, NothingRestored
    <3> QED BY <1>0, <1>12, <3>1, <3>2 DEF Awake, NothingRestored
  <2>4. proc'[cur] = proc[cur] \/ proc'[cur].pc # "idle"
    BY <1>0, <1>4
  <2> QED BY <1>0, <1>12, <2>2, <2>3, <2>4 DEF Awake, NoWakeupLost
<1> QED BY <1>10, <1>11, <1>12 DEF IInv

(* The queue of the session is emptied, by the processor that recovers or      *)
(* beside it.                                                                  *)
LEMMA FlushHolds ==
    ASSUME IInv, Flushes, cur # 0, commands' = [commands EXCEPT ![cur] = <<>>],
           UNCHANGED <<promise, cur, made, due, channel, opened, session, snapshot, taken, tx>>,
           obj' \in [Objs -> Counted],
           \A o \in Objs : obj'[o].sent = obj[o].sent,
           proc' \in [Queues -> Procs],
           \A r \in Queues :
               \/ proc'[r] = proc[r]
               \/ /\ proc[r].pc \notin {"idle", "loop", "sending"}
                  /\ proc'[r].pc = "backoff" /\ proc'[r].on = proc[r].on
    PROVE  IInv'
<1>1. cur \in Queues
  BY CommandQueueAssumption DEF IInv, Written, Typed, Queues
<1>2. /\ commands' \in [Queues -> Seq(Objs)] /\ commands'[cur] = <<>>
      /\ \A r \in Queues : commands'[r] = commands[r] \/ commands'[r] = <<>>
  <2>1. <<>> \in Seq(Objs)
    OBVIOUS
  <2> QED BY <1>1, <2>1 DEF IInv, Written, Typed
<1>3. Typed'
  <2>1. \A r \in Queues : proc'[r].pc \notin {"idle", "loop"} => proc'[r].on \in Objs
    BY DEF IInv, Written, Typed
  <2> QED BY <1>2, <2>1 DEF IInv, Written, Typed
<1>4. OneQueueRuns'
  BY <1>2 DEF IInv, Written, OneQueueRuns
<1>5. Written'
  <2>1. \A o \in Objs : tx'[o] >= tx[o]
    BY DEF IInv, Written, Typed
  <2>2. \A r \in Queues : proc'[r].pc \notin {"idle", "loop", "sending"} =>
            proc[r].pc \notin {"idle", "loop", "sending"} /\ proc'[r].on = proc[r].on
    OBVIOUS
  <2> QED BY <1>3, <1>4, <2>1, <2>2, Constants, WritingHolds DEF IInv
<1>6. ASSUME Awake PROVE Awake'
  <2>1. NothingRestored'
    <3>1. \A r \in Queues : r # 1 => proc'[r].pc = "idle"
      BY <1>6 DEF Awake, NothingRestored
    <3>2. \A r \in Queues : r # 1 => commands'[r] = <<>>
      BY <1>2, <1>6 DEF Awake, NothingRestored
    <3> QED BY <1>6, <3>1, <3>2 DEF Awake, NothingRestored
  <2> QED BY <1>2, <2>1 DEF Awake, NoWakeupLost
<1> QED BY <1>5, <1>6 DEF IInv

LEMMA AddHolds ==
    ASSUME IInv, NEW c \in Cmds, AddCommandToQueue(c)
    PROVE  IInv'
<1> DEFINE o == <<c, 0>>
<1>0. /\ promise[c] = "none" /\ session = "running" /\ cur = 1 /\ 1 \in Queues
      /\ UNCHANGED <<cur, made, proc, channel, opened, session, snapshot, taken, tx>>
      /\ o \in Objs /\ commands[1] \in Seq(Objs) /\ made = 1
  <2>1. session = "running"
    BY DEF AddCommandToQueue
  <2> QED BY <2>1, Constants DEF AddCommandToQueue, linkVars, snapVars, IInv, Written, Typed,
                                 OneQueueRuns
<1>1. /\ promise' \in [Cmds -> Promises] /\ promise'[c] # "resolved"
      /\ \A d \in Cmds : d # c => promise'[d] = promise[d]
  BY DEF AddCommandToQueue, IInv, Written, Typed, Promises
<1>2. CASE Len(commands[cur]) >= MaxQueueSize
  <2>1. UNCHANGED <<commands, obj, due>> /\ promise'[c] = "rejected"
    BY <1>2 DEF AddCommandToQueue, IInv, Written, Typed
  <2>2. Typed' /\ OneQueueRuns'
    BY <1>0, <1>1, <2>1 DEF IInv, Written, Typed, OneQueueRuns
  <2>3. Written'
    <3>1. \A x \in Objs : tx'[x] >= tx[x]
      BY <1>0 DEF IInv, Written, Typed
    <3> QED BY <1>0, <1>1, <2>1, <2>2, <3>1, WritingHolds DEF IInv
  <2>4. Kept => Kept'
    BY <1>0, <1>1, <2>1 DEF Kept, HeadIsWorkedOn, PendingIsQueued
  <2>5. Awake => Awake'
    BY <1>0, <2>1 DEF Awake, NothingRestored, NoWakeupLost
  <2> QED BY <2>3, <2>4, <2>5 DEF IInv
<1>3. CASE ~ (Len(commands[cur]) >= MaxQueueSize)
  <2>1. /\ commands' = [commands EXCEPT ![1] = Append(@, o)]
        /\ obj' = [obj EXCEPT ![o] = Fresh] /\ due' = TRUE
    BY <1>0, <1>3 DEF AddCommandToQueue
  <2>2. /\ commands' \in [Queues -> Seq(Objs)] /\ commands'[1] = Append(commands[1], o)
        /\ \A r \in Queues : r # 1 => commands'[r] = commands[r]
    BY <1>0, <2>1 DEF IInv, Written, Typed
  <2>3. /\ obj' \in [Objs -> Counted] /\ ~ obj'[o].sent /\ ~ obj'[o].acknowledged
        /\ \A x \in Objs : x # o => obj'[x] = obj[x]
    <3>1. Fresh \in Counted /\ ~ Fresh.sent /\ ~ Fresh.acknowledged
      BY DEF Fresh, Counted
    <3> QED BY <1>0, <2>1, <3>1 DEF IInv, Written, Typed
  <2>4. Typed'
    BY <1>0, <1>1, <2>2, <2>3 DEF IInv, Written, Typed
  <2>5. OneQueueRuns'
    <3>1. \A r \in Queues : r > made => r # 1
      BY <1>0
    <3> QED BY <1>0, <2>2, <3>1, QueuesStay DEF IInv, Written, OneQueueRuns
  <2>6. Written'
    <3>1. \A x \in Objs : tx'[x] >= tx[x]
      BY <1>0 DEF IInv, Written, Typed
    <3>2. \A d \in Cmds : obj'[<<d, 0>>].sent => obj[<<d, 0>>].sent
      BY <2>3, Constants
    <3> QED BY <1>0, <1>1, <2>4, <2>5, <3>1, <3>2, WritingHolds DEF IInv
  <2>7. ASSUME Kept PROVE Kept'
    <3>1. HeadIsWorkedOn'
      <4>1. commands[1] # <<>> => commands'[1] # <<>> /\ Head(commands'[1]) = Head(commands[1])
        <5> DEFINE s == commands[1]
        <5>1. s \in Seq(Objs) /\ commands'[1] = Append(s, o) /\ o \in Objs
          BY <1>0, <2>2
        <5> HIDE DEF s, o
        <5>2. s # <<>> => Append(s, o) # <<>> /\ Head(Append(s, o)) = Head(s)
          BY <5>1
        <5> QED BY <5>1, <5>2 DEF s
      <4> QED BY <1>0, <2>7, <4>1 DEF Kept, HeadIsWorkedOn
    <3>2. PendingIsQueued'
      <4> SUFFICES ASSUME NEW d \in Cmds, promise'[d] = "pending"
                   PROVE  /\ session' = "running" /\ ~ obj'[<<d, 0>>].acknowledged
                          /\ \E i \in DOMAIN commands'[1] : commands'[1][i] = <<d, 0>>
        BY DEF PendingIsQueued
      <4>1. CASE d = c
        <5>1. Len(commands[1]) + 1 \in DOMAIN commands'[1]
              /\ commands'[1][Len(commands[1]) + 1] = o
          BY <1>0, <2>2
        <5> QED BY <1>0, <2>3, <4>1, <5>1
      <4>2. CASE d # c
        <5>1. PICK i \in DOMAIN commands[1] : commands[1][i] = <<d, 0>>
          BY <1>1, <2>7, <4>2 DEF Kept, PendingIsQueued
        <5>2. i \in DOMAIN commands'[1] /\ commands'[1][i] = <<d, 0>>
          BY <1>0, <2>2, <5>1
        <5>3. ~ obj'[<<d, 0>>].acknowledged
          BY <1>1, <2>3, <2>7, <4>2, Constants DEF Kept, PendingIsQueued
        <5> QED BY <1>0, <5>2, <5>3
      <4> QED BY <4>1, <4>2
    <3> QED BY <3>1, <3>2 DEF Kept
  <2>8. ASSUME Awake PROVE Awake'
    BY <1>0, <2>1, <2>2, <2>8 DEF Awake, NothingRestored, NoWakeupLost
  <2> QED BY <2>6, <2>7, <2>8 DEF IInv
<1> QED BY <1>2, <1>3

(* The session stops: whoever waits is told.                                   *)
LEMMA ClearHolds ==
    ASSUME IInv, NEW kept \in {snapshot, <<>>}, ClearCommandQueue(kept),
           session' \in {"stopped", "gone"}, channel' = 0,
           UNCHANGED <<made, commands, obj, proc, due, opened, taken, tx>>
    PROVE  IInv'
<1>1. /\ promise' \in [Cmds -> Promises]
      /\ \A c \in Cmds : promise'[c] # "terminated" => promise'[c] = promise[c]
      /\ \A c \in Cmds :
            /\ cur # 0 /\ promise[c] = "pending"
            /\ \E i \in DOMAIN commands[cur] : commands[cur][i] = <<c, 0>>
            /\ ~ obj[<<c, 0>>].acknowledged
            => promise'[c] = "terminated"
  BY DEF ClearCommandQueue, IInv, Written, Typed, Promises
<1>2. cur' = 0 /\ snapshot' = kept /\ cur' # 1
  BY DEF ClearCommandQueue
<1>3. Typed'
  <2>1. snapshot' \in Seq(Entries)
    <3>1. <<>> \in Seq(Entries)
      OBVIOUS
    <3> QED BY <1>2, <3>1 DEF IInv, Written, Typed
  <2>2. cur' \in 0..MaxQueues /\ cur' <= made
    BY <1>2, Constants DEF IInv, Written, Typed
  <2> QED BY <1>1, <2>1, <2>2 DEF IInv, Written, Typed
<1>4. OneQueueRuns'
  BY <1>2 DEF IInv, Written, OneQueueRuns
<1>5. Written'
  <2>1. \A o \in Objs : tx'[o] >= tx[o]
    BY DEF IInv, Written, Typed
  <2> QED BY <1>1, <1>3, <1>4, <2>1, WritingHolds DEF IInv
<1>6. ASSUME Kept PROVE Kept'
  <2>1. HeadIsWorkedOn'
    BY <1>6 DEF Kept, HeadIsWorkedOn
  <2>2. \A c \in Cmds : promise'[c] # "pending"
    <3> SUFFICES ASSUME NEW c \in Cmds, promise'[c] = "pending" PROVE FALSE
      OBVIOUS
    <3>1. promise[c] = "pending"
      BY <1>1
    <3>2. /\ session = "running" /\ ~ obj[<<c, 0>>].acknowledged
          /\ \E i \in DOMAIN commands[1] : commands[1][i] = <<c, 0>>
      BY <1>6, <3>1 DEF Kept, PendingIsQueued
    <3>3. cur = 1
      BY <3>2 DEF IInv, Written, OneQueueRuns
    <3> QED BY <1>1, <3>1, <3>2, <3>3
  <2> QED BY <2>1, <2>2 DEF Kept, PendingIsQueued
<1>7. ASSUME Awake PROVE Awake'
  BY <1>2, <1>7 DEF Awake, NothingRestored, NoWakeupLost
<1> QED BY <1>5, <1>6, <1>7 DEF IInv

LEMMA PersistHolds ==
    ASSUME IInv, PersistSessionData
    PROVE  IInv'
<1>1. /\ UNCHANGED <<promise, obj, cur, made, commands, proc, due, channel, opened, session, tx>>
      /\ taken < MaxSnapshots /\ taken' = taken + 1 /\ taken \in Nat
      /\ cur \in Queues /\ commands[cur] \in Seq(Objs)
      /\ snapshot' = [i \in DOMAIN commands[cur] |->
                         [of |-> commands[cur][i][1], command |-> obj[commands[cur][i]]]]
  BY CommandQueueAssumption DEF PersistSessionData, queueVars, linkVars, IInv, Written, Typed,
                                Queues
<1>2. snapshot' \in Seq(Entries)
  <2>1. /\ Len(commands[cur]) \in Nat /\ DOMAIN commands[cur] = 1..Len(commands[cur])
        /\ \A i \in DOMAIN commands[cur] : commands[cur][i] \in Objs
    BY <1>1
  <2>2. \A i \in DOMAIN commands[cur] :
            [of |-> commands[cur][i][1], command |-> obj[commands[cur][i]]] \in Entries
    BY <2>1, Constants DEF IInv, Written, Typed, Entries
  <2> QED BY <1>1, <2>1, <2>2
<1>3. Typed' /\ OneQueueRuns'
  BY <1>1, <1>2 DEF IInv, Written, Typed, OneQueueRuns
<1>4. Written'
  <2>1. \A o \in Objs : tx'[o] >= tx[o]
    BY <1>1 DEF IInv, Written, Typed
  <2> QED BY <1>1, <1>3, <2>1, WritingHolds DEF IInv
<1>5. Kept => Kept'
  BY <1>1 DEF Kept, HeadIsWorkedOn, PendingIsQueued
<1>6. MaxSnapshots # 0
  BY <1>1, CommandQueueAssumption
<1> QED BY <1>4, <1>5, <1>6 DEF IInv

(* Output arrives, time passes, or nothing moves at all.                       *)
LEMMA OthersHold ==
    ASSUME IInv, UNCHANGED <<promise, cur, made, commands, proc, channel, opened,
                             session, snapshot, taken, tx>>,
           due => due', obj' \in [Objs -> Counted],
           \A o \in Objs : /\ obj'[o].sent = obj[o].sent
                           /\ obj'[o].acknowledged = obj[o].acknowledged
    PROVE  IInv'
<1>1. Typed' /\ OneQueueRuns'
  BY DEF IInv, Written, Typed, OneQueueRuns
<1>2. Written'
  <2>1. \A o \in Objs : tx'[o] >= tx[o]
    BY DEF IInv, Written, Typed
  <2> QED BY <1>1, <2>1, Constants, WritingHolds DEF IInv
<1>3. Kept => Kept'
  BY Constants DEF Kept, HeadIsWorkedOn, PendingIsQueued
<1>4. Awake => Awake'
  BY DEF Awake, NothingRestored, NoWakeupLost
<1> QED BY <1>2, <1>3, <1>4 DEF IInv

LEMMA ProcessHolds ==
    ASSUME IInv, ProcessCommandQueue
    PROVE  IInv'
<1>0. UNCHANGED <<promise, obj, cur, made, commands, channel, opened, session, snapshot, taken, tx>>
  BY DEF ProcessCommandQueue, queueVars, linkVars, snapVars
<1>1. CASE cur = 0 \/ channel = 0 \/ proc[cur].pc # "idle" \/ commands[cur] = <<>>
  <2>1. proc' = proc
    BY <1>1 DEF ProcessCommandQueue
  <2>2. Typed' /\ OneQueueRuns'
    BY <1>0, <2>1 DEF IInv, Written, Typed, OneQueueRuns
  <2>3. Written'
    <3>1. \A o \in Objs : tx'[o] >= tx[o]
      BY <1>0 DEF IInv, Written, Typed
    <3> QED BY <1>0, <2>1, <2>2, <3>1, WritingHolds DEF IInv
  <2>4. Kept => Kept'
    BY <1>0, <2>1 DEF Kept, HeadIsWorkedOn, PendingIsQueued
  <2>5. Awake => Awake'
    BY <1>0, <1>1, <2>1 DEF Awake, NothingRestored, NoWakeupLost
  <2> QED BY <2>3, <2>4, <2>5 DEF IInv
<1>2. CASE ~ (cur = 0 \/ channel = 0 \/ proc[cur].pc # "idle" \/ commands[cur] = <<>>)
  <2>0. cur \in Queues /\ commands[cur] # <<>> /\ proc[cur].pc = "idle"
    BY <1>2, CommandQueueAssumption DEF IInv, Written, Typed, Queues
  <2>1. /\ proc' \in [Queues -> Procs] /\ proc'[cur].pc = "loop"
        /\ \A r \in Queues : r # cur => proc'[r] = proc[r]
    <3>1. proc' = [proc EXCEPT ![cur] = [pc |-> "loop", on |-> NoObj, ch |-> channel]]
      BY <1>2 DEF ProcessCommandQueue
    <3>2. [pc |-> "loop", on |-> NoObj, ch |-> channel] \in Procs
      BY DEF Procs, PCs, IInv, Written, Typed
    <3> QED BY <2>0, <3>1, <3>2 DEF IInv, Written, Typed
  <2>2. Typed'
    <3>1. \A r \in Queues : proc'[r].pc \notin {"idle", "loop"} => proc'[r].on \in Objs
      BY <2>1 DEF IInv, Written, Typed
    <3> QED BY <1>0, <2>1, <3>1 DEF IInv, Written, Typed
  <2>3. OneQueueRuns'
    <3>1. \A r \in Queues : r > made => r # cur
      BY <2>0 DEF IInv, Written, OneQueueRuns
    <3> QED BY <1>0, <2>1, <3>1, QueuesStay DEF IInv, Written, OneQueueRuns
  <2>4. Written'
    <3>1. \A o \in Objs : tx'[o] >= tx[o]
      BY <1>0 DEF IInv, Written, Typed
    <3>2. \A r \in Queues : proc'[r].pc \notin {"idle", "loop", "sending"} =>
              proc[r].pc \notin {"idle", "loop", "sending"} /\ proc'[r].on = proc[r].on
      BY <2>1
    <3> QED BY <1>0, <2>2, <2>3, <3>1, <3>2, WritingHolds DEF IInv
  <2>5. Kept => Kept'
    BY <1>0, <2>1, Constants DEF Kept, HeadIsWorkedOn, PendingIsQueued
  <2>6. ASSUME Awake PROVE Awake'
    <3>1. NothingRestored'
      BY <1>0, <2>0, <2>1, <2>6 DEF Awake, NothingRestored
    <3> QED BY <1>0, <2>1, <3>1 DEF Awake, NoWakeupLost
  <2> QED BY <2>4, <2>5, <2>6 DEF IInv
<1> QED BY <1>1, <1>2

-------------------------------------------------------------------------------
(* The actions of a processor. *)

LEMMA GotoGoesOn ==
    ASSUME IInv, NEW q \in Queues, proc[q].pc \notin {"idle", "loop", "sending"},
           NEW pc \in PCs \ {"idle", "sending"}, Goto(q, pc),
           proc[q].pc = "backoff" => pc = "loop",
           UNCHANGED <<promise, tx, cur, made, commands, session, snapshot, taken, opened,
                       due, obj>>,
           channel' \in {channel, 0}
    PROVE  IInv'
<1>1. obj' \in [Objs -> Counted]
  BY DEF IInv, Written, Typed
<1>2. GoesOn(q)
  BY <1>1 DEF GoesOn
<1> QED BY <1>2, GoesOnHolds

LEMMA RecoveredGoesOn ==
    ASSUME IInv, NEW q \in Queues,
           proc[q].pc \in {"recovering", "reconnecting", "validating", "resuming"},
           Recovered(q, obj),
           UNCHANGED <<promise, tx, cur, made, commands, session, snapshot, taken, opened, due>>,
           channel' \in {channel, 0}
    PROVE  IInv'
<1>1. proc[q].on \in Objs /\ obj \in [Objs -> Counted]
  BY DEF IInv, Written, Typed
<1>2. /\ obj' \in [Objs -> Counted]
      /\ \A o \in Objs : /\ obj'[o].sent = obj[o].sent
                         /\ obj'[o].acknowledged = obj[o].acknowledged
      /\ Goto(q, "backoff")
  BY <1>1, RecoveredObj DEF IInv, Written
<1>3. GoesOn(q)
  BY <1>2 DEF GoesOn, PCs
<1> QED BY <1>3, GoesOnHolds

LEMMA LoopHolds ==
    ASSUME IInv, NEW q \in Queues, Loop(q)
    PROVE  IInv'
<1>1. CASE LoopEnds(q)
  BY <1>1, EndPassHolds DEF LoopEnds, AtLoop, queueVars, linkVars, snapVars
<1>2. CASE HeadTimedOut(q)
  BY <1>2, TakeHeadHolds DEF HeadTimedOut, InFlight
<1>3. CASE HeadUnsent(q)
  BY <1>3, TakeHeadHolds DEF HeadUnsent
<1>4. CASE HeadAcknowledged(q)
  BY <1>4, TakeHeadHolds DEF HeadAcknowledged
<1>5. CASE CheckPrompt(q) /\ prompt[q]
  <2>1. /\ proc[q].pc = "check" /\ Goto(q, "loop")
        /\ obj' = [obj EXCEPT ![proc[q].on].acknowledged = TRUE]
        /\ promise' = Settle(proc[q].on, "resolved")
        /\ commands' = [commands EXCEPT ![q] = Shift(@)]
        /\ UNCHANGED <<cur, made, session, snapshot, taken, channel, opened, due, tx>>
    BY <1>5 DEF CheckPrompt, linkVars, snapVars
  <2>2. /\ obj' \in [Objs -> Counted]
        /\ \A o \in Objs : /\ obj'[o].sent => obj[o].sent
                           /\ obj'[o].acknowledged => obj[o].acknowledged \/ o = proc[q].on
    BY <2>1 DEF IInv, Written, Typed, Counted
  <2>3. tx' \in [Objs -> Nat] /\ \A o \in Objs : tx'[o] >= tx[o]
    BY <2>1 DEF IInv, Written, Typed
  <2>4. Drops(q)
    BY <2>1, <2>2, <2>3 DEF Drops
  <2> QED BY <2>4, DropsHolds
<1>6. CASE CheckPrompt(q) /\ ~ prompt[q]
  BY <1>6, EndPassHolds DEF CheckPrompt, linkVars, snapVars
<1> QED BY <1>1, <1>2, <1>3, <1>4, <1>5, <1>6 DEF Loop

LEMMA SendHolds ==
    ASSUME IInv, NEW q \in Queues, Send(q)
    PROVE  IInv'
<1>1. CASE WriteDone(q)
  BY <1>1, WriteDoneHolds
<1>2. ASSUME NEW delivered \in BOOLEAN, WriteFails(q, delivered) PROVE IInv'
  <2>1. /\ proc[q].pc = "sending" /\ Goto(q, "loop")
        /\ promise' = Settle(proc[q].on, "rejected")
        /\ commands' = [commands EXCEPT ![q] = Shift(@)]
        /\ UNCHANGED <<obj, cur, made, session, snapshot, taken, channel, opened, due>>
    BY <1>2 DEF WriteFails, snapVars
  <2>2. proc[q].on \in Objs /\ tx \in [Objs -> Nat] /\ obj \in [Objs -> Counted]
    BY <2>1 DEF IInv, Written, Typed
  <2>3. tx' \in [Objs -> Nat] /\ \A o \in Objs : tx'[o] >= tx[o]
    BY <1>2, <2>2 DEF WriteFails
  <2>4. Drops(q)
    BY <2>1, <2>2, <2>3 DEF Drops
  <2> QED BY <2>4, DropsHolds
<1> QED BY <1>1, <1>2 DEF Send

LEMMA ErrorRecoveryHolds ==
    ASSUME IInv, NEW q \in Queues, ErrorRecovery(q)
    PROVE  IInv'
<1>1. /\ proc[q].pc \in {"lastResort", "fallback"} /\ Goto(q, "loop")
      /\ promise' = Settle(proc[q].on, "resolved")
      /\ commands' = [commands EXCEPT ![q] = Shift(@)]
      /\ UNCHANGED <<obj, cur, made, session, snapshot, taken, channel, opened, due, tx>>
  BY DEF ErrorRecovery, ErrorRecoveryEnds, linkVars, snapVars
<1>2. /\ tx' \in [Objs -> Nat] /\ \A o \in Objs : tx'[o] >= tx[o]
      /\ obj' \in [Objs -> Counted]
  BY <1>1 DEF IInv, Written, Typed
<1>3. Drops(q)
  BY <1>1, <1>2 DEF Drops
<1> QED BY <1>3, DropsHolds

LEMMA RecoveryHolds ==
    ASSUME IInv, NEW q \in Queues, Recovery(q)
    PROVE  IInv'
<1>1. CASE RecoveryReconnects(q) \/ RecoveryFindsNoSession(q) \/ RecoveryGivesUp(q)
  BY <1>1, GotoGoesOn DEF RecoveryReconnects, RecoveryFindsNoSession, RecoveryGivesUp, PCs,
                          queueVars, linkVars, snapVars
<1>2. CASE RecoveryThrows(q)
  BY <1>2, RecoveredGoesOn DEF RecoveryThrows, snapVars
<1>3. CASE RecoveryResponds(q)
  <2>1. /\ proc[q].pc = "recovering" /\ Goto(q, "resuming")
        /\ obj' = [obj EXCEPT ![proc[q].on].sent = FALSE,
                              ![proc[q].on].acknowledged = FALSE,
                              ![proc[q].on].retryCount = @ + 1]
        /\ UNCHANGED <<promise, tx, cur, made, commands, session, snapshot, taken, opened, due,
                       channel>>
    BY <1>3 DEF RecoveryResponds, snapVars
  <2>2. proc[q].on \in Objs /\ obj \in [Objs -> Counted]
    BY <2>1 DEF IInv, Written, Typed
  <2>3. /\ obj' \in [Objs -> Counted]
        /\ \A o \in Objs : /\ obj'[o].sent => obj[o].sent
                           /\ obj'[o].acknowledged => obj[o].acknowledged
    BY <2>1, <2>2 DEF Counted
  <2>4. GoesOn(q)
    BY <2>1, <2>3 DEF GoesOn, PCs
  <2> QED BY <2>4, GoesOnHolds
<1>4. CASE InteractiveRecovery(q, FALSE)
  BY <1>4, RecoveredGoesOn DEF InteractiveRecovery, linkVars, snapVars
<1>5. CASE InteractiveRecovery(q, TRUE)
  <2>1. /\ proc[q].pc = "recovering" /\ Flushes /\ cur # 0 /\ Recovered(q, obj)
        /\ commands' = [commands EXCEPT ![cur] = <<>>]
        /\ UNCHANGED <<promise, cur, made, due, channel, opened, session, snapshot, taken, tx>>
    BY <1>5 DEF InteractiveRecovery, linkVars, snapVars
  <2>2. proc[q].on \in Objs /\ obj \in [Objs -> Counted]
    BY <2>1 DEF IInv, Written, Typed
  <2>3. /\ obj' \in [Objs -> Counted] /\ \A o \in Objs : obj'[o].sent = obj[o].sent
        /\ Goto(q, "backoff")
    BY <2>1, <2>2, RecoveredObj DEF IInv, Written
  <2>4. /\ proc' \in [Queues -> Procs]
        /\ \A r \in Queues :
              \/ proc'[r] = proc[r]
              \/ /\ proc[r].pc \notin {"idle", "loop", "sending"}
                 /\ proc'[r].pc = "backoff" /\ proc'[r].on = proc[r].on
    BY <2>1, <2>3, GotoMoves DEF IInv, Written, PCs
  <2> QED BY <2>1, <2>3, <2>4, FlushHolds
<1> QED BY <1>1, <1>2, <1>3, <1>4, <1>5 DEF Recovery

LEMMA ConnectionHolds ==
    ASSUME IInv, NEW q \in Queues, Reconnection(q) \/ Validation(q) \/ Timers(q)
    PROVE  IInv'
<1>1. CASE Reconnected(q)
  BY <1>1, ReconnectedHolds
<1>2. CASE ReconnectionValid(q) \/ ReconnectionFails(q)
  BY <1>2, RecoveredGoesOn DEF ReconnectionValid, ReconnectionFails, linkVars, snapVars
<1>3. CASE ReconnectionInvalid(q) \/ ValidationFails(q) \/ SpacingEnds(q) \/ BackoffEnds(q)
  BY <1>3, GotoGoesOn DEF ReconnectionInvalid, ValidationFails, SpacingEnds, BackoffEnds, PCs,
                          queueVars, linkVars, snapVars
<1>4. ASSUME NEW leavesPrompt \in BOOLEAN, ValidationSucceeds(q, leavesPrompt) PROVE IInv'
  <2>1. CASE cur = 0
    BY <1>4, <2>1, RecoveredGoesOn DEF ValidationSucceeds, snapVars
  <2>2. CASE cur # 0
    BY <1>4, <2>2, RestoredHolds
  <2> QED BY <2>1, <2>2
<1> QED BY <1>1, <1>2, <1>3, <1>4 DEF Reconnection, Validation, Timers

-------------------------------------------------------------------------------
(* Initial states and steps. *)

LEMMA InitHolds == Init => IInv
<1> SUFFICES ASSUME Init PROVE IInv
  OBVIOUS
<1>1. /\ \A o \in Objs : obj[o] \in Counted /\ ~ obj[o].sent
      /\ obj \in [Objs -> Counted]
  <2>1. [Fresh EXCEPT !.made = FALSE] \in Counted /\ ~ [Fresh EXCEPT !.made = FALSE].sent
    BY DEF Fresh, Counted
  <2> QED BY <2>1 DEF Init
<1>2. /\ proc \in [Queues -> Procs] /\ \A q \in Queues : proc[q].pc = "idle"
      /\ commands \in [Queues -> Seq(Objs)] /\ \A q \in Queues : commands[q] = <<>>
  <2>1. Idle \in Procs /\ Idle.pc = "idle" /\ <<>> \in Seq(Objs)
    BY DEF Idle, Procs, PCs
  <2> QED BY <2>1 DEF Init
<1>3. Typed
  <2>1. cur \in 0..MaxQueues /\ made \in Queues /\ cur <= made
    BY CommandQueueAssumption DEF Init, Queues
  <2>2. promise \in [Cmds -> Promises] /\ tx \in [Objs -> Nat]
    BY DEF Init, Promises
  <2>3. snapshot \in Seq(Entries) /\ taken \in Nat /\ channel \in Nat /\ opened \in Nat
    BY DEF Init
  <2> QED BY <1>1, <1>2, <2>1, <2>2, <2>3 DEF Typed
<1>4. SentIsWritten /\ WorkedOnWasSent /\ ResolvedWasSent
  BY <1>1, <1>2, Constants DEF SentIsWritten, WorkedOnWasSent, ResolvedWasSent, Init
<1>5. OneQueueRuns
  BY <1>2 DEF OneQueueRuns, Init
<1>6. Kept
  BY <1>2, Constants DEF Kept, HeadIsWorkedOn, PendingIsQueued, Init
<1>7. Awake
  BY <1>2, Constants DEF Awake, NothingRestored, NoWakeupLost, Init
<1> QED BY <1>3, <1>4, <1>5, <1>6, <1>7 DEF IInv, Written

LEMMA NextHolds == IInv /\ [Next]_vars => IInv'
<1> SUFFICES ASSUME IInv, [Next]_vars PROVE IInv'
  OBVIOUS
<1>1. ASSUME NEW c \in Cmds, AddCommandToQueue(c) PROVE IInv'
  BY <1>1, AddHolds
<1>2. CASE StopSession
  BY <1>2, ClearHolds DEF StopSession
<1>3. CASE CleanupSession
  BY <1>3, ClearHolds DEF CleanupSession
<1>4. CASE FlushPendingCommands
  <2>1. obj \in [Objs -> Counted] /\ proc \in [Queues -> Procs]
    BY DEF IInv, Written, Typed
  <2> QED BY <1>4, <2>1, FlushHolds DEF FlushPendingCommands, linkVars, snapVars
<1>5. CASE PersistSessionData
  BY <1>5, PersistHolds
<1>6. ASSUME NEW matches \in BOOLEAN, Output(matches) PROVE IInv'
  <2>1. obj \in [Objs -> Counted] /\ (due => due')
    BY <1>6 DEF IInv, Written, Typed, Output
  <2> QED BY <1>6, <2>1, OthersHold DEF Output, snapVars
<1>7. ASSUME NEW o \in Objs, TimePasses(o) PROVE IInv'
  <2>1. /\ obj' \in [Objs -> Counted]
        /\ \A x \in Objs : /\ obj'[x].sent = obj[x].sent
                           /\ obj'[x].acknowledged = obj[x].acknowledged
    BY <1>7 DEF IInv, Written, Typed, TimePasses, Counted
  <2> QED BY <1>7, <2>1, OthersHold DEF TimePasses, linkVars, snapVars
<1>8. CASE ProcessCommandQueue
  BY <1>8, ProcessHolds
<1>9. ASSUME NEW q \in Queues, Processor(q) PROVE IInv'
  BY <1>9, LoopHolds, SendHolds, ErrorRecoveryHolds, RecoveryHolds, ConnectionHolds
     DEF Processor
<1>10. CASE UNCHANGED vars
  <2>1. obj \in [Objs -> Counted]
    BY DEF IInv, Written, Typed
  <2> QED BY <1>10, <2>1, OthersHold DEF vars, queueVars, linkVars, snapVars
<1> QED BY <1>1, <1>2, <1>3, <1>4, <1>5, <1>6, <1>7, <1>8, <1>9, <1>10 DEF Next

(* Which steps take the head of the first queue away.                          *)
LEMMA DropIsOwn ==
    ASSUME IInv, [Next]_vars, ~ Flushes,
           commands[1] # <<>>, commands'[1] = Tail(commands[1])
    PROVE  Head(commands[1]) = proc[1].on
<1>1. /\ commands \in [Queues -> Seq(Objs)] /\ 1 \in Queues /\ Queues \subseteq Nat
      /\ commands[1] \in Seq(Objs) /\ commands'[1] # commands[1]
      /\ Len(commands'[1]) < Len(commands[1])
  <2>1. commands \in [Queues -> Seq(Objs)] /\ 1 \in Queues /\ Queues \subseteq Nat
    BY Constants DEF IInv, Written, Typed
  <2>2. commands[1] \in Seq(Objs)
    BY <2>1
  <2>3. Len(commands'[1]) < Len(commands[1])
    BY <2>2
  <2> QED BY <2>1, <2>2, <2>3
<1>2. Kept
  BY DEF IInv
<1>3. ASSUME NEW c \in Cmds, AddCommandToQueue(c) PROVE FALSE
  <2>1. \/ commands' = commands
        \/ commands' = [commands EXCEPT ![cur] = Append(@, <<c, 0>>)]
    BY <1>3 DEF AddCommandToQueue
  <2>2. commands'[1] = commands[1] \/ commands'[1] = Append(commands[1], <<c, 0>>)
    BY <1>1, <2>1
  <2>3. Len(Append(commands[1], <<c, 0>>)) > Len(commands[1])
    BY <1>1, Constants
  <2> QED BY <1>1, <2>2, <2>3
<1>4. ASSUME NEW q \in Queues, commands' = [commands EXCEPT ![q] = Shift(@)],
             proc[q].pc \notin {"idle", "loop", "backoff"}
      PROVE  Head(commands[1]) = proc[1].on
  <2>1. q = 1
    BY <1>1, <1>4
  <2> QED BY <1>2, <1>4, <2>1 DEF Kept, HeadIsWorkedOn
<1>5. ASSUME NEW q \in Queues, Reconnected(q) PROVE FALSE
  <2>1. commands' = commands \/ commands' = [commands EXCEPT ![made + 1] = Copies]
    BY <1>5 DEF Reconnected, InitializeCommandQueue
  <2>2. made + 1 # 1
    BY Constants DEF IInv, Written, Typed, Queues
  <2> QED BY <1>1, <2>1, <2>2
<1>6. ASSUME NEW q \in Queues, NEW leavesPrompt \in BOOLEAN,
             ValidationSucceeds(q, leavesPrompt)
      PROVE  FALSE
  <2>1. \/ commands' = commands
        \/ RoomForCopies /\ commands' = [commands EXCEPT ![cur] = Reverse(Copies) \o @]
    BY <1>6 DEF ValidationSucceeds
  <2>2. ASSUME RoomForCopies
        PROVE  Len(Reverse(Copies) \o commands[1]) >= Len(commands[1])
    <3>1. Reverse(Copies) \in Seq(Objs)
      BY <2>2, CopiesAreCopies, ReverseTypes DEF IInv, Written
    <3> QED BY <1>1, <3>1
  <2>3. commands'[1] = commands[1] \/ (RoomForCopies /\ commands'[1] = Reverse(Copies) \o commands[1])
    BY <1>1, <2>1
  <2> QED BY <1>1, <2>2, <2>3
<1>7. ASSUME NEW q \in Queues, Processor(q)
      PROVE  \/ commands' = commands
             \/ /\ commands' = [commands EXCEPT ![q] = Shift(@)]
                /\ proc[q].pc \notin {"idle", "loop", "backoff"}
  <2>1. CASE Loop(q)
    BY <2>1 DEF Loop, LoopEnds, HeadTimedOut, HeadUnsent, HeadAcknowledged, CheckPrompt, TakeHead,
                queueVars
  <2>2. CASE Send(q) \/ ErrorRecovery(q)
    BY <2>2 DEF Send, WriteDone, WriteFails, ErrorRecovery, ErrorRecoveryEnds
  <2>3. CASE Timers(q)
    BY <2>3 DEF Timers, SpacingEnds, BackoffEnds, queueVars
  <2>4. CASE Recovery(q)
    BY <2>4 DEF Recovery, RecoveryReconnects, RecoveryFindsNoSession, RecoveryThrows,
                RecoveryResponds, RecoveryGivesUp, InteractiveRecovery, queueVars
  <2>5. CASE Reconnection(q)
    BY <1>5, <2>5 DEF Reconnection, ReconnectionValid, ReconnectionInvalid, ReconnectionFails,
                queueVars
  <2>6. CASE Validation(q)
    BY <1>6, <2>6 DEF Validation, ValidationFails, queueVars
  <2> QED BY <1>7, <2>1, <2>2, <2>3, <2>4, <2>5, <2>6 DEF Processor
<1>8. CASE StopSession \/ CleanupSession \/ FlushPendingCommands \/ PersistSessionData
           \/ ProcessCommandQueue \/ UNCHANGED vars
  BY <1>1, <1>8 DEF StopSession, CleanupSession, FlushPendingCommands, PersistSessionData,
                    ProcessCommandQueue, vars, queueVars
<1>9. ASSUME NEW matches \in BOOLEAN, Output(matches) PROVE FALSE
  BY <1>1, <1>9 DEF Output
<1>10. ASSUME NEW o \in Objs, TimePasses(o) PROVE FALSE
  BY <1>1, <1>10 DEF TimePasses
<1> QED BY <1>1, <1>3, <1>4, <1>7, <1>8, <1>9, <1>10 DEF Next

(* A pass goes on, or it ends and leaves a wake-up behind for what is queued.  *)
LEMMA PassGoesOn ==
    ASSUME Typed, NEW q \in Queues, Processor(q)
    PROVE  /\ proc[q].pc # "idle" /\ session' = session
           /\ proc'[q].pc # "idle" \/ (due' = (due \/ commands[q] # <<>>) /\ commands' = commands)
<1>1. ASSUME NEW pc, proc' = [proc EXCEPT ![q].pc = pc]
      PROVE  proc'[q].pc = pc
  BY <1>1 DEF Typed, Procs
<1>2. CASE Loop(q)
  <2>1. ASSUME NEW pc, pc # "idle", TakeHead(q, pc)
        PROVE  /\ proc[q].pc # "idle" /\ session' = session /\ proc'[q].pc # "idle"
    BY <2>1 DEF TakeHead, AtLoop, Typed, Procs, linkVars
  <2>2. CASE LoopEnds(q)
    BY <2>2 DEF LoopEnds, EndPass, AtLoop, queueVars, linkVars
  <2>3. CASE CheckPrompt(q)
    BY <1>1, <2>3 DEF CheckPrompt, Goto, EndPass, linkVars
  <2> QED BY <1>2, <2>1, <2>2, <2>3 DEF Loop, HeadTimedOut, HeadUnsent, HeadAcknowledged
<1>3. CASE Send(q) \/ Timers(q) \/ ErrorRecovery(q)
  BY <1>1, <1>3 DEF Send, Timers, ErrorRecovery, WriteDone, WriteFails, SpacingEnds, BackoffEnds,
                    ErrorRecoveryEnds, Goto, linkVars
<1>4. CASE Recovery(q)
  BY <1>1, <1>4 DEF Recovery, RecoveryReconnects, RecoveryFindsNoSession, RecoveryThrows,
                    RecoveryResponds, RecoveryGivesUp, InteractiveRecovery, Recovered, Goto, linkVars
<1>5. CASE Reconnection(q)
  BY <1>1, <1>5 DEF Reconnection, Reconnected, ReconnectionValid, ReconnectionInvalid,
                    ReconnectionFails, Recovered, Goto, linkVars
<1>6. CASE Validation(q)
  BY <1>1, <1>6 DEF Validation, ValidationSucceeds, ValidationFails, Recovered, Goto, linkVars
<1> QED BY <1>2, <1>3, <1>4, <1>5, <1>6 DEF Processor

(* While the session runs, restored commands are put where a pass is under way. *)
AwakeWhileRunning == session = "running" => NoWakeupLost

LEMMA RunningStaysAwake == IInv /\ AwakeWhileRunning /\ [Next]_vars => AwakeWhileRunning'
<1> SUFFICES ASSUME IInv, AwakeWhileRunning, [Next]_vars, session' = "running",
                    channel' # 0, commands'[1] # <<>>
             PROVE  due' \/ proc'[1].pc # "idle"
  <2>1. IInv /\ [Next]_vars /\ session' = "running" => cur' = 1
    BY NextHolds DEF IInv, Written, OneQueueRuns
  <2> QED BY <2>1 DEF AwakeWhileRunning, NoWakeupLost
<1>1. Typed /\ Queues \subseteq Nat /\ 1 \in Queues
  BY Constants DEF IInv, Written
<1>2. ASSUME session = "running"
      PROVE  /\ cur = 1 /\ \A q \in Queues : proc[q].pc # "idle" => q = 1
             /\ channel # 0 /\ commands[1] # <<>> => due \/ proc[1].pc # "idle"
  <2>1. cur = 1 /\ \A q \in Queues : q > 1 => proc[q].pc = "idle"
    BY <1>2 DEF IInv, Written, OneQueueRuns
  <2>2. \A q \in Queues : q > 1 \/ q = 1
    BY DEF Queues
  <2> QED BY <1>2, <2>1, <2>2 DEF AwakeWhileRunning, NoWakeupLost
<1>3. ASSUME NEW c \in Cmds, AddCommandToQueue(c) PROVE due' \/ proc'[1].pc # "idle"
  BY <1>2, <1>3 DEF AddCommandToQueue, linkVars
<1>4. CASE StopSession \/ CleanupSession
  BY <1>4 DEF StopSession, CleanupSession
<1>5. CASE FlushPendingCommands
  BY <1>1, <1>2, <1>5 DEF FlushPendingCommands, linkVars, Typed
<1>6. CASE PersistSessionData \/ UNCHANGED vars
  BY <1>2, <1>6 DEF PersistSessionData, vars, queueVars, linkVars
<1>7. ASSUME NEW matches \in BOOLEAN, Output(matches) PROVE due' \/ proc'[1].pc # "idle"
  BY <1>2, <1>7 DEF Output
<1>8. ASSUME NEW o \in Objs, TimePasses(o) PROVE due' \/ proc'[1].pc # "idle"
  BY <1>2, <1>8 DEF TimePasses, linkVars
<1>9. CASE ProcessCommandQueue
  BY <1>1, <1>2, <1>9 DEF ProcessCommandQueue, queueVars, linkVars, Typed
<1>10. ASSUME NEW q \in Queues, Processor(q) PROVE due' \/ proc'[1].pc # "idle"
  <2>1. /\ proc[q].pc # "idle" /\ session' = session
        /\ proc'[q].pc # "idle" \/ (due' = (due \/ commands[q] # <<>>) /\ commands' = commands)
    BY <1>1, <1>10, PassGoesOn
  <2>2. q = 1
    BY <1>2, <2>1
  <2> QED BY <2>1, <2>2
<1> QED BY <1>3, <1>4, <1>5, <1>6, <1>7, <1>8, <1>9, <1>10 DEF Next

-------------------------------------------------------------------------------
(* How often the line of a call is written: its own object is in the first     *)
(* queue only, once, and nobody but the processor of that queue writes it.     *)

Rest == {"idle", "loop"}

(* The positions of the command of a call, and what the processor does with it.*)
Places(c) == {i \in DOMAIN commands[1] : commands[1][i] = <<c, 0>>}
Stage(c) == IF proc[1].on = <<c, 0>> THEN proc[1].pc ELSE "idle"
Live(c) == Places(c) # {} \/ Stage(c) \notin Rest

(* It is in the queue once, and at its head while it is worked on, but for the *)
(* delay in which persisted commands were put before it.                       *)
Located(c) ==
    /\ promise[c] = "none" => ~ Live(c)
    /\ Stage(c) \notin Rest \cup {"backoff"} => Places(c) \subseteq {1}
    /\ \A i, j \in Places(c) : i = j

(* Every second retry pays for a write. The write that is on its way is not    *)
(* yet paid for; one that a recovery has called back is paid for by halves.    *)
Credit(c) == IF obj[<<c, 0>>].sent THEN 2
             ELSE IF Stage(c) \in {"resuming", "fallback"} THEN 1 ELSE 0

Paid(c) ==
    /\ 2 * tx[<<c, 0>>] <= MaxCommandRetries + 3
    /\ obj[<<c, 0>>].retryCount <= MaxCommandRetries + 1
    /\ promise[c] = "none" => tx[<<c, 0>>] = 0
    /\ Live(c) => 2 * tx[<<c, 0>>] <= obj[<<c, 0>>].retryCount + Credit(c)
    /\ Stage(c) = "sending" => ~ obj[<<c, 0>>].sent
    /\ Stage(c) \in {"recovering", "reconnecting", "validating"} =>
           obj[<<c, 0>>].retryCount < MaxCommandRetries
    /\ Stage(c) = "resuming" => obj[<<c, 0>>].retryCount <= MaxCommandRetries

(* The other queues have copies only. *)
Elsewhere ==
    \A q \in Queues \ {1} :
        /\ \A i \in DOMAIN commands[q] : commands[q][i][2] # 0
        /\ proc[q].pc \notin Rest => proc[q].on[2] # 0

WritesInv == Elsewhere /\ \A c \in Cmds : Located(c) /\ Paid(c)

(* The numbers in it. *)
LEMMA Amounts ==
    ASSUME Typed, NEW c \in Cmds
    PROVE  /\ <<c, 0>> \in Objs /\ tx[<<c, 0>>] \in Nat
           /\ obj[<<c, 0>>] \in Counted /\ obj[<<c, 0>>].retryCount \in Nat
           /\ obj[<<c, 0>>].sent \in BOOLEAN
           /\ MaxCommandRetries \in Nat /\ Places(c) \subseteq Nat \ {0}
           /\ Credit(c) \in 0..2 /\ Stage(c) \in PCs
<1>1. <<c, 0>> \in Objs /\ MaxCommandRetries \in Nat /\ 1 \in Queues
  BY Constants, CommandQueueAssumption
<1>2. tx[<<c, 0>>] \in Nat /\ obj[<<c, 0>>] \in Counted /\ proc[1] \in Procs
      /\ commands[1] \in Seq(Objs)
  BY <1>1 DEF Typed
<1>3. obj[<<c, 0>>].retryCount \in Nat /\ obj[<<c, 0>>].sent \in BOOLEAN
  BY <1>2 DEF Counted
<1>4. Places(c) \subseteq Nat \ {0}
  BY <1>2 DEF Places
<1>5. Credit(c) \in 0..2
  BY DEF Credit
<1>6. Stage(c) \in PCs
  BY <1>2 DEF Stage, PCs, Procs
<1> QED BY <1>1, <1>2, <1>3, <1>4, <1>5, <1>6

(* A step that moves the command by d places at most. *)
LEMMA LocatedMoves ==
    ASSUME Typed, Typed', NEW c \in Cmds, Located(c), NEW d \in Int,
           \A i \in Places(c)' : i + d \in Places(c),
           promise'[c] = "none" => promise[c] = "none",
           Stage(c)' \notin Rest => Stage(c) \notin Rest,
           Stage(c)' \notin Rest \cup {"backoff"} =>
               Stage(c) \notin Rest \cup {"backoff"} /\ d = 0
    PROVE  Located(c)' /\ (Live(c)' => Live(c))
<1>1. Places(c)' \subseteq Nat \ {0} /\ Places(c) \subseteq Nat \ {0}
  <2>1. commands'[1] \in Seq(Objs)
    BY Constants DEF Typed
  <2>2. Places(c)' \subseteq Nat \ {0}
    BY <2>1 DEF Places
  <2> QED BY <2>2, Amounts
<1>2. Live(c)' => Live(c)
  BY DEF Live
<1>3. \A i, j \in Places(c)' : i = j
  <2> SUFFICES ASSUME NEW i \in Places(c)', NEW j \in Places(c)' PROVE i = j
    OBVIOUS
  <2>1. i + d = j + d
    BY DEF Located
  <2> QED BY <1>1, <2>1
<1>4. Stage(c)' \notin Rest \cup {"backoff"} => Places(c)' \subseteq {1}
  <2> SUFFICES ASSUME Stage(c)' \notin Rest \cup {"backoff"}, NEW i \in Places(c)'
               PROVE  i = 1
    OBVIOUS
  <2>1. i + d = 1 /\ d = 0
    BY DEF Located
  <2> QED BY <1>1, <2>1
<1> QED BY <1>2, <1>3, <1>4 DEF Located

(* A step that writes no line and counts no retry. *)
LEMMA PaidStays ==
    ASSUME Typed, NEW c \in Cmds, Paid(c),
           UNCHANGED <<tx[<<c, 0>>], obj[<<c, 0>>].sent, obj[<<c, 0>>].retryCount>>,
           promise'[c] = "none" => promise[c] = "none",
           Live(c)' => /\ Live(c)
                       /\ Stage(c) \in {"resuming", "fallback"} =>
                              Stage(c)' \in {"resuming", "fallback"},
           Stage(c)' = "sending" => Stage(c) = "sending" \/ ~ obj[<<c, 0>>].sent,
           Stage(c)' \in {"recovering", "reconnecting", "validating"} =>
               \/ Stage(c) \in {"recovering", "reconnecting", "validating"}
               \/ obj[<<c, 0>>].retryCount < MaxCommandRetries,
           Stage(c)' = "resuming" => Stage(c) = "resuming"
    PROVE  Paid(c)'
<1>1. /\ tx[<<c, 0>>] \in Nat /\ obj[<<c, 0>>].retryCount \in Nat
      /\ MaxCommandRetries \in Nat /\ Credit(c) \in 0..2
  BY Amounts
<1>2. Live(c)' => Credit(c)' >= Credit(c) /\ Credit(c)' \in 0..2
  BY DEF Credit
<1>3. Live(c)' => 2 * tx'[<<c, 0>>] <= obj'[<<c, 0>>].retryCount + Credit(c)'
  BY <1>1, <1>2 DEF Paid
<1> QED BY <1>1, <1>3 DEF Paid

(* The object of a call changes with the command that is worked on. *)
LEMMA RecoveredCount ==
    ASSUME Typed, NEW q \in Queues, proc[q].on \in Objs, NEW objs \in [Objs -> Counted],
           Recovered(q, objs)
    PROVE  \A o \in Objs :
              /\ obj'[o].sent = objs[o].sent
              /\ obj'[o].acknowledged = objs[o].acknowledged
              /\ obj'[o].retryCount =
                     IF o = proc[q].on THEN objs[o].retryCount + 1 ELSE objs[o].retryCount
<1> DEFINE o == proc[q].on
<1>1. obj' = [objs EXCEPT ![o] = [objs[o] EXCEPT !.late = FALSE, !.retryCount = @ + 1]]
  BY DEF Recovered, Counted
<1> DEFINE r == [objs[o] EXCEPT !.late = FALSE, !.retryCount = @ + 1]
<1>2. /\ r.sent = objs[o].sent /\ r.acknowledged = objs[o].acknowledged
      /\ r.retryCount = objs[o].retryCount + 1
  BY DEF Counted
<1>3. obj'[o] = r /\ \A x \in Objs : x # o => obj'[x] = objs[x]
  BY <1>1
<1> QED BY <1>2, <1>3

(* What a call is not told and not counted for: nothing of it changes. *)
Untouched(c) ==
    /\ tx'[<<c, 0>>] = tx[<<c, 0>>]
    /\ obj'[<<c, 0>>].sent = obj[<<c, 0>>].sent
    /\ obj'[<<c, 0>>].retryCount = obj[<<c, 0>>].retryCount
    /\ promise'[c] = "none" => promise[c] = "none"

(* ... nor is it acknowledged. *)
Aside(c) == Untouched(c) /\ obj'[<<c, 0>>].acknowledged = obj[<<c, 0>>].acknowledged

(* The processor of the first queue rests, or stays where it is, and the       *)
(* command of the call stays where it is, or goes.                             *)
LEMMA CallStays ==
    ASSUME Typed, Typed', NEW c \in Cmds, Located(c), Paid(c), Untouched(c),
           Places(c)' \subseteq Places(c),
           \/ Stage(c)' = Stage(c)
           \/ Stage(c)' \in Rest /\ (Stage(c) \in {"resuming", "fallback"} => Places(c)' = {})
           \/ Stage(c)' = "fallback" /\ Stage(c) \notin Rest \cup {"backoff"}
           \/ /\ Stage(c)' \in {"check", "reconnecting", "validating"}
              /\ Stage(c) \in {"spacing", "recovering", "reconnecting", "validating"}
              /\ Stage(c)' = "check" <=> Stage(c) = "spacing"
    PROVE  Located(c)' /\ Paid(c)'
<1>1. Places(c) \subseteq Nat \ {0} /\ Stage(c) \in PCs
  BY Amounts
<1>2. 0 \in Int /\ \A i \in Places(c)' : i + 0 \in Places(c)
  BY <1>1
<1>3. Located(c)' /\ (Live(c)' => Live(c))
  BY <1>2, LocatedMoves DEF Untouched, Rest
<1>4. Paid(c)'
  BY <1>3, PaidStays DEF Untouched, Rest, Live
<1> QED BY <1>3, <1>4

(* Steps of callers, of the shell and of the clock leave the calls alone, and  *)
(* the queues but for emptying one.                                            *)
LEMMA EnvironmentWrites ==
    ASSUME Typed, Typed', WritesInv,
           \A c \in Cmds : Untouched(c),
           \A q \in Queues : commands'[q] = commands[q] \/ commands'[q] = <<>>,
           \A q \in Queues : \/ proc'[q] = proc[q]
                             \/ proc[q].pc \in Rest /\ proc'[q].pc \in Rest
    PROVE  WritesInv'
<1>1. Elsewhere'
  BY DEF WritesInv, Elsewhere, Rest
<1>2. ASSUME NEW c \in Cmds PROVE Located(c)' /\ Paid(c)'
  <2>1. Places(c)' \subseteq Places(c)
    BY Constants DEF Places
  <2>2. CASE proc'[1] = proc[1]
    <3>1. Stage(c)' = Stage(c)
      BY <2>2 DEF Stage
    <3> QED BY <2>1, <3>1, CallStays DEF WritesInv
  <2>3. CASE proc[1].pc \in Rest /\ proc'[1].pc \in Rest
    <3>1. Stage(c) \in Rest /\ Stage(c)' \in Rest
      BY <2>3 DEF Stage, Rest
    <3>2. Stage(c) \notin {"resuming", "fallback"}
      BY <3>1 DEF Rest
    <3> QED BY <2>1, <3>1, <3>2, CallStays DEF WritesInv
  <2> QED BY <2>2, <2>3, Constants
<1> QED BY <1>1, <1>2 DEF WritesInv

LEMMA OthersWrite ==
    ASSUME IInv, Typed', WritesInv,
           \/ StopSession \/ CleanupSession \/ FlushPendingCommands \/ PersistSessionData
           \/ ProcessCommandQueue \/ UNCHANGED vars
           \/ \E matches \in BOOLEAN : Output(matches)
           \/ \E o \in Objs : TimePasses(o)
    PROVE  WritesInv'
<1>1. Typed
  BY DEF IInv, Written
<1>2. \A c \in Cmds : <<c, 0>> \in Objs
  BY Constants
<1>3. CASE StopSession \/ CleanupSession
  <2>1. /\ UNCHANGED <<commands, obj, proc, tx>>
        /\ \A c \in Cmds : promise'[c] = "none" => promise[c] = "none"
    BY <1>3 DEF StopSession, CleanupSession, ClearCommandQueue
  <2> QED BY <1>1, <2>1, EnvironmentWrites DEF Untouched
<1>4. CASE FlushPendingCommands
  <2>1. /\ UNCHANGED <<promise, obj, proc, tx>>
        /\ commands' = [commands EXCEPT ![cur] = <<>>]
    BY <1>4 DEF FlushPendingCommands
  <2>2. \A q \in Queues : commands'[q] = commands[q] \/ commands'[q] = <<>>
    BY <1>1, <2>1 DEF Typed
  <2> QED BY <1>1, <2>1, <2>2, EnvironmentWrites DEF Untouched
<1>5. CASE PersistSessionData \/ UNCHANGED vars \/ \E matches \in BOOLEAN : Output(matches)
  <2>1. UNCHANGED <<promise, commands, obj, proc, tx>>
    BY <1>5 DEF PersistSessionData, Output, vars, queueVars
  <2> QED BY <1>1, <2>1, EnvironmentWrites DEF Untouched
<1>6. CASE ProcessCommandQueue
  <2>1. /\ UNCHANGED <<promise, commands, obj, tx>>
        /\ \/ proc' = proc
           \/ /\ proc[cur].pc = "idle"
              /\ proc' = [proc EXCEPT ![cur] = [pc |-> "loop", on |-> NoObj, ch |-> channel]]
    BY <1>6 DEF ProcessCommandQueue, queueVars
  <2>2. \A q \in Queues : \/ proc'[q] = proc[q]
                          \/ proc[q].pc \in Rest /\ proc'[q].pc \in Rest
    BY <1>1, <2>1 DEF Typed, Rest
  <2> QED BY <1>1, <2>1, <2>2, EnvironmentWrites DEF Untouched
<1>7. ASSUME NEW o \in Objs, TimePasses(o) PROVE WritesInv'
  <2>1. /\ UNCHANGED <<promise, commands, proc, tx>>
        /\ obj' = [obj EXCEPT ![o].late = TRUE]
    BY <1>7 DEF TimePasses
  <2>2. \A x \in Objs : obj'[x].sent = obj[x].sent /\ obj'[x].retryCount = obj[x].retryCount
    BY <1>1, <2>1 DEF Typed, Counted
  <2> QED BY <1>1, <1>2, <2>1, <2>2, EnvironmentWrites DEF Untouched
<1> QED BY <1>3, <1>4, <1>5, <1>6, <1>7

(* A new command comes in behind the others. *)
LEMMA AddWrites ==
    ASSUME IInv, Typed', WritesInv, NEW a \in Cmds, AddCommandToQueue(a)
    PROVE  WritesInv'
<1>1. /\ Typed /\ cur = 1 /\ 1 \in Queues /\ promise[a] = "none" /\ <<a, 0>> \in Objs
      /\ UNCHANGED <<proc, tx>>
      /\ commands[1] \in Seq(Objs) /\ obj \in [Objs -> Counted] /\ promise \in [Cmds -> Promises]
  BY Constants DEF AddCommandToQueue, IInv, Written, OneQueueRuns, Typed
<1>2. \/ promise' = [promise EXCEPT ![a] = "rejected"] /\ UNCHANGED <<commands, obj>>
      \/ /\ promise' = [promise EXCEPT ![a] = "pending"]
         /\ commands' = [commands EXCEPT ![1] = Append(@, <<a, 0>>)]
         /\ obj' = [obj EXCEPT ![<<a, 0>>] = Fresh]
  BY <1>1 DEF AddCommandToQueue
<1>3. CASE UNCHANGED <<commands, obj>>
  <2>1. \A c \in Cmds : promise'[c] = "none" => promise[c] = "none"
    BY <1>1, <1>2
  <2> QED BY <1>1, <1>3, <2>1, EnvironmentWrites DEF Untouched
<1>4. CASE /\ promise' = [promise EXCEPT ![a] = "pending"]
           /\ commands' = [commands EXCEPT ![1] = Append(@, <<a, 0>>)]
           /\ obj' = [obj EXCEPT ![<<a, 0>>] = Fresh]
  <2>1. /\ commands'[1] = Append(commands[1], <<a, 0>>)
        /\ \A q \in Queues \ {1} : commands'[q] = commands[q]
    BY <1>1, <1>4 DEF Typed
  <2>2. Elsewhere'
    BY <1>1, <2>1 DEF WritesInv, Elsewhere
  <2>3. \A c \in Cmds : Stage(c)' = Stage(c)
    BY <1>1 DEF Stage
  <2>4. ASSUME NEW c \in Cmds, c # a PROVE Located(c)' /\ Paid(c)'
    <3>1. <<c, 0>> # <<a, 0>> /\ <<c, 0>> \in Objs
      BY <2>4, Constants
    <3>2. Places(c)' \subseteq Places(c)
      <4> SUFFICES ASSUME NEW i \in DOMAIN commands'[1], commands'[1][i] = <<c, 0>>
                   PROVE  i \in DOMAIN commands[1] /\ commands[1][i] = <<c, 0>>
        BY DEF Places
      <4>1. i \in 1..(Len(commands[1]) + 1)
        BY <1>1, <2>1
      <4>2. i # Len(commands[1]) + 1
        BY <1>1, <2>1, <3>1
      <4> QED BY <1>1, <2>1, <4>1, <4>2
    <3>3. Untouched(c)
      BY <1>1, <1>4, <2>4, <3>1 DEF Untouched
    <3> QED BY <1>1, <2>3, <3>2, <3>3, CallStays DEF WritesInv
  <2>5. Located(a)' /\ Paid(a)'
    <3>1. /\ tx'[<<a, 0>>] = 0 /\ promise'[a] = "pending" /\ obj'[<<a, 0>>] = Fresh
          /\ Stage(a)' \in Rest
      BY <1>1, <1>4, <2>3 DEF WritesInv, Located, Paid, Live
    <3>2. \A i \in Places(a)' : i = Len(commands[1]) + 1
      <4> SUFFICES ASSUME NEW i \in DOMAIN commands'[1], commands'[1][i] = <<a, 0>>
                   PROVE  i = Len(commands[1]) + 1
        BY DEF Places
      <4>1. Places(a) = {} /\ i \in 1..(Len(commands[1]) + 1)
        BY <1>1, <2>1 DEF WritesInv, Located, Live
      <4>2. i \in DOMAIN commands[1] => commands[1][i] = <<a, 0>>
        BY <1>1, <2>1
      <4>3. i \notin DOMAIN commands[1]
        BY <4>1, <4>2 DEF Places
      <4> QED BY <1>1, <4>1, <4>3
    <3>3. Located(a)'
      BY <3>1, <3>2 DEF Located
    <3>4. Paid(a)'
      BY <3>1, CommandQueueAssumption DEF Paid, Credit, Fresh, Rest
    <3> QED BY <3>3, <3>4
  <2> QED BY <2>2, <2>4, <2>5 DEF WritesInv
<1> QED BY <1>2, <1>3, <1>4

(* Only what a processor works on changes. *)
LEMMA SettleAsked ==
    ASSUME Typed, NEW o, NEW how \in {"resolved", "rejected"}, promise' = Settle(o, how)
    PROVE  \A c \in Cmds : promise'[c] = "none" => promise[c] = "none"
BY DEF Typed, Settle

LEMMA ProcessorTouches ==
    ASSUME Typed, NEW q \in Queues, Processor(q), NEW c \in Cmds,
           proc[q].pc = "loop" \/ proc[q].on # <<c, 0>>
    PROVE  Aside(c)
<1> DEFINE o == proc[q].on
<1>0. /\ <<c, 0>> \in Objs /\ obj \in [Objs -> Counted] /\ tx \in [Objs -> Nat]
      /\ obj[<<c, 0>>] \in Counted
  BY Constants DEF Typed
<1>1. ASSUME UNCHANGED <<promise, obj, tx>> PROVE Aside(c)
  BY <1>1 DEF Untouched, Aside
<1>2. ASSUME NEW objs \in [Objs -> Counted], objs[<<c, 0>>] = obj[<<c, 0>>],
             proc[q].pc \notin {"idle", "loop"}, Recovered(q, objs), UNCHANGED <<promise, tx>>
      PROVE  Aside(c)
  <2>1. o \in Objs
    BY <1>2 DEF Typed
  <2>2. /\ obj'[<<c, 0>>].sent = objs[<<c, 0>>].sent
        /\ obj'[<<c, 0>>].acknowledged = objs[<<c, 0>>].acknowledged
        /\ obj'[<<c, 0>>].retryCount = objs[<<c, 0>>].retryCount
    BY <1>0, <1>2, <2>1, RecoveredCount
  <2> QED BY <1>2, <2>2 DEF Untouched, Aside
<1>3. CASE Loop(q)
  <2>1. CASE LoopEnds(q) \/ HeadTimedOut(q) \/ HeadUnsent(q) \/ HeadAcknowledged(q)
    BY <1>1, <2>1 DEF LoopEnds, HeadTimedOut, HeadUnsent, HeadAcknowledged, TakeHead, queueVars
  <2>2. CASE CheckPrompt(q) /\ prompt[q]
    <3>1. /\ proc[q].pc = "check" /\ promise' = Settle(o, "resolved") /\ UNCHANGED tx
          /\ obj' = [obj EXCEPT ![o].acknowledged = TRUE]
      BY <2>2 DEF CheckPrompt
    <3>2. o # <<c, 0>>
      BY <3>1
    <3>3. obj'[<<c, 0>>] = obj[<<c, 0>>]
      BY <1>0, <3>1, <3>2
    <3> QED BY <3>1, <3>3, SettleAsked DEF Untouched, Aside
  <2>3. CASE CheckPrompt(q) /\ ~ prompt[q]
    BY <1>1, <2>3 DEF CheckPrompt
  <2> QED BY <1>3, <2>1, <2>2, <2>3 DEF Loop
<1>4. CASE WriteDone(q)
  <2>1. /\ proc[q].pc = "sending" /\ UNCHANGED promise
        /\ obj' = [obj EXCEPT ![o].sent = TRUE, ![o].late = FALSE]
        /\ tx' = [tx EXCEPT ![o] = @ + 1]
    BY <1>4 DEF WriteDone
  <2>2. o # <<c, 0>>
    BY <2>1
  <2> QED BY <1>0, <2>1, <2>2 DEF Untouched, Aside
<1>5. ASSUME NEW delivered \in BOOLEAN, WriteFails(q, delivered) PROVE Aside(c)
  <2>1. /\ proc[q].pc = "sending" /\ promise' = Settle(o, "rejected") /\ UNCHANGED obj
        /\ tx' = [tx EXCEPT ![o] = @ + 1] \/ tx' = tx
    BY <1>5 DEF WriteFails
  <2>2. tx'[<<c, 0>>] = tx[<<c, 0>>]
    BY <1>0, <2>1
  <2> QED BY <2>1, <2>2, SettleAsked DEF Untouched, Aside
<1>6. CASE Timers(q)
  BY <1>1, <1>6 DEF Timers, SpacingEnds, BackoffEnds, queueVars
<1>7. CASE ErrorRecovery(q)
  <2>1. promise' = Settle(o, "resolved") /\ UNCHANGED <<obj, tx>>
    BY <1>7 DEF ErrorRecovery, ErrorRecoveryEnds
  <2> QED BY <2>1, SettleAsked DEF Untouched, Aside
<1>8. CASE Recovery(q)
  <2>1. CASE RecoveryReconnects(q) \/ RecoveryFindsNoSession(q) \/ RecoveryGivesUp(q)
    BY <1>1, <2>1 DEF RecoveryReconnects, RecoveryFindsNoSession, RecoveryGivesUp, queueVars
  <2>2. CASE RecoveryThrows(q) \/ \E flushes \in BOOLEAN : InteractiveRecovery(q, flushes)
    <3>1. proc[q].pc = "recovering" /\ Recovered(q, obj) /\ UNCHANGED <<promise, tx>>
      BY <2>2 DEF RecoveryThrows, InteractiveRecovery
    <3> QED BY <1>0, <1>2, <3>1
  <2>3. CASE RecoveryResponds(q)
    <3>1. /\ proc[q].pc = "recovering" /\ UNCHANGED <<promise, tx>>
          /\ obj' = [obj EXCEPT ![o].sent = FALSE, ![o].acknowledged = FALSE,
                                ![o].retryCount = @ + 1]
      BY <2>3 DEF RecoveryResponds
    <3>2. o # <<c, 0>>
      BY <3>1
    <3>3. obj'[<<c, 0>>] = obj[<<c, 0>>]
      BY <1>0, <3>1, <3>2
    <3> QED BY <3>1, <3>3 DEF Untouched, Aside
  <2> QED BY <1>8, <2>1, <2>2, <2>3 DEF Recovery
<1>9. CASE Reconnected(q)
  <2>1. UNCHANGED <<promise, tx>> /\ (obj' = obj \/ (RoomForCopies /\ obj' = ObjWithCopies))
    <3>1. CASE NeedsQueue
      BY <1>9, <3>1 DEF Reconnected, InitializeCommandQueue, InitializedObj, snapVars
    <3>2. CASE ~ NeedsQueue
      BY <1>9, <3>2 DEF Reconnected, InitializeCommandQueue, InitializedObj, snapVars
    <3> QED BY <3>1, <3>2
  <2>2. obj'[<<c, 0>>] = obj[<<c, 0>>]
    BY <2>1, CopiesAreCopies
  <2> QED BY <2>1, <2>2 DEF Untouched, Aside
<1>10. CASE ReconnectionValid(q) \/ ReconnectionFails(q)
  <2>1. /\ proc[q].pc \in {"validating", "reconnecting"} /\ Recovered(q, obj)
        /\ UNCHANGED <<promise, tx>>
    BY <1>10 DEF ReconnectionValid, ReconnectionFails
  <2> QED BY <1>0, <1>2, <2>1
<1>11. CASE ReconnectionInvalid(q) \/ ValidationFails(q)
  BY <1>1, <1>11 DEF ReconnectionInvalid, ValidationFails, queueVars
<1>12. ASSUME NEW leavesPrompt \in BOOLEAN, ValidationSucceeds(q, leavesPrompt)
       PROVE  Aside(c)
  <2>1. /\ proc[q].pc = "resuming" /\ UNCHANGED <<promise, tx>>
        /\ Recovered(q, obj) \/ (RoomForCopies /\ Recovered(q, ObjWithCopies))
    <3>1. CASE cur = 0
      BY <1>12, <3>1 DEF ValidationSucceeds, snapVars
    <3>2. CASE cur # 0
      BY <1>12, <3>2 DEF ValidationSucceeds, snapVars
    <3> QED BY <3>1, <3>2
  <2> QED BY <1>0, <1>2, <2>1, CopiesAreCopies
<1> QED BY <1>3, <1>4, <1>5, <1>6, <1>7, <1>8, <1>9, <1>10, <1>11, <1>12
        DEF Processor, Send, Reconnection, Validation

(* What a processor does to the queues and to itself. *)
LEMMA ProcessorMoves ==
    ASSUME Typed, NEW q \in Queues, Processor(q)
    PROVE  /\ proc[q].pc # "idle"
           /\ \A r \in Queues : r # q => proc'[r] = proc[r]
           /\ \/ proc'[q].pc \in Rest
              \/ proc[q].pc \notin Rest /\ proc'[q].on = proc[q].on
              \/ /\ proc[q].pc = "loop" /\ commands[q] # <<>> /\ commands' = commands
                 /\ proc'[q].on = Head(commands[q])
<1>1. ASSUME NEW pc \in PCs, Goto(q, pc), proc[q].pc \notin Rest
      PROVE  /\ proc[q].pc # "idle"
             /\ \A r \in Queues : r # q => proc'[r] = proc[r]
             /\ proc[q].pc \notin Rest /\ proc'[q].on = proc[q].on
  BY <1>1, GotoMoves DEF Rest
<1>2. ASSUME NEW pc, TakeHead(q, pc)
      PROVE  /\ proc[q].pc = "loop" /\ commands[q] # <<>> /\ commands' = commands
             /\ \A r \in Queues : r # q => proc'[r] = proc[r]
             /\ proc'[q].on = Head(commands[q])
  BY <1>2 DEF TakeHead, AtLoop, queueVars, Typed, Procs
<1>3. ASSUME proc[q].pc # "idle", EndPass(q)
      PROVE  /\ \A r \in Queues : r # q => proc'[r] = proc[r]
             /\ proc'[q].pc \in Rest
  BY <1>3 DEF EndPass, Idle, Typed, Rest
<1>4. CASE Loop(q)
  <2>1. CASE LoopEnds(q)
    BY <1>3, <2>1 DEF LoopEnds, AtLoop
  <2>2. CASE HeadTimedOut(q) \/ HeadUnsent(q) \/ HeadAcknowledged(q)
    BY <1>2, <2>2 DEF HeadTimedOut, HeadUnsent, HeadAcknowledged
  <2>3. CASE CheckPrompt(q) /\ prompt[q]
    BY <1>1, <2>3 DEF CheckPrompt, PCs, Rest
  <2>4. CASE CheckPrompt(q) /\ ~ prompt[q]
    BY <1>3, <2>4 DEF CheckPrompt
  <2> QED BY <1>4, <2>1, <2>2, <2>3, <2>4 DEF Loop
<1>5. CASE Send(q) \/ Timers(q) \/ ErrorRecovery(q)
  BY <1>1, <1>5 DEF Send, Timers, ErrorRecovery, WriteDone, WriteFails, SpacingEnds, BackoffEnds,
                    ErrorRecoveryEnds, PCs, Rest
<1>6. CASE Recovery(q)
  BY <1>1, <1>6 DEF Recovery, RecoveryReconnects, RecoveryFindsNoSession, RecoveryThrows,
                    RecoveryResponds, RecoveryGivesUp, InteractiveRecovery, Recovered, PCs, Rest
<1>7. CASE Reconnection(q)
  BY <1>1, <1>7 DEF Reconnection, Reconnected, ReconnectionValid, ReconnectionInvalid,
                    ReconnectionFails, Recovered, PCs, Rest
<1>8. CASE Validation(q)
  BY <1>1, <1>8 DEF Validation, ValidationSucceeds, ValidationFails, Recovered, PCs, Rest
<1> QED BY <1>4, <1>5, <1>6, <1>7, <1>8 DEF Processor

(* Every queue keeps what it had, loses some of it, or has copies added.       *)
LEMMA ProcessorQueues ==
    ASSUME Typed, NEW q \in Queues, Processor(q)
    PROVE  \/ commands' = commands
           \/ /\ commands' = [commands EXCEPT ![q] = Shift(@)]
              /\ proc[q].pc \notin Rest \cup {"backoff"} /\ proc'[q].pc \in Rest
           \/ cur \in Queues /\ commands' = [commands EXCEPT ![cur] = <<>>]
           \/ /\ RoomForCopies /\ made + 1 \in Queues
              /\ commands' = [commands EXCEPT ![made + 1] = Copies]
           \/ /\ cur \in Queues /\ RoomForCopies
              /\ commands' = [commands EXCEPT ![cur] = Reverse(Copies) \o @]
              /\ proc'[q].pc = "backoff"
<1>0. cur # 0 => cur \in Queues
  BY CommandQueueAssumption DEF Typed, Queues
<1>1. CASE Loop(q)
  <2>1. CASE LoopEnds(q) \/ HeadTimedOut(q) \/ HeadUnsent(q) \/ HeadAcknowledged(q)
    BY <2>1 DEF LoopEnds, HeadTimedOut, HeadUnsent, HeadAcknowledged, TakeHead, queueVars
  <2>2. CASE CheckPrompt(q) /\ prompt[q]
    BY <2>2, GotoMoves DEF CheckPrompt, PCs, Rest
  <2>3. CASE CheckPrompt(q) /\ ~ prompt[q]
    BY <2>3 DEF CheckPrompt
  <2> QED BY <1>1, <2>1, <2>2, <2>3 DEF Loop
<1>2. CASE WriteDone(q) \/ Timers(q)
  BY <1>2 DEF WriteDone, Timers, SpacingEnds, BackoffEnds, queueVars
<1>3. CASE (\E delivered \in BOOLEAN : WriteFails(q, delivered)) \/ ErrorRecovery(q)
  BY <1>3, GotoMoves DEF WriteFails, ErrorRecovery, ErrorRecoveryEnds, PCs, Rest
<1>4. CASE Recovery(q)
  BY <1>0, <1>4 DEF Recovery, RecoveryReconnects, RecoveryFindsNoSession, RecoveryThrows,
                    RecoveryResponds, RecoveryGivesUp, InteractiveRecovery, queueVars
<1>5. CASE Reconnected(q)
  <2>1. CASE NeedsQueue
    <3>1. /\ RoomForCopies /\ made < MaxQueues
          /\ commands' = [commands EXCEPT ![made + 1] = Copies]
      BY <1>5, <2>1 DEF Reconnected, InitializeCommandQueue
    <3>2. made + 1 \in Queues
      BY <3>1, CommandQueueAssumption DEF Typed, Queues
    <3> QED BY <3>1, <3>2
  <2>2. CASE ~ NeedsQueue
    BY <1>5, <2>2 DEF Reconnected, InitializeCommandQueue
  <2> QED BY <2>1, <2>2
<1>6. CASE ReconnectionValid(q) \/ ReconnectionInvalid(q) \/ ReconnectionFails(q) \/ ValidationFails(q)
  BY <1>6 DEF ReconnectionValid, ReconnectionInvalid, ReconnectionFails, ValidationFails, queueVars
<1>7. ASSUME NEW leavesPrompt \in BOOLEAN, ValidationSucceeds(q, leavesPrompt), cur = 0
      PROVE  commands' = commands
  BY <1>7 DEF ValidationSucceeds
<1>8. ASSUME NEW leavesPrompt \in BOOLEAN, ValidationSucceeds(q, leavesPrompt), cur # 0
      PROVE  /\ cur \in Queues /\ RoomForCopies
             /\ commands' = [commands EXCEPT ![cur] = Reverse(Copies) \o @]
             /\ proc'[q].pc = "backoff"
  <2>1. /\ RoomForCopies /\ commands' = [commands EXCEPT ![cur] = Reverse(Copies) \o @]
        /\ Goto(q, "backoff")
    BY <1>8 DEF ValidationSucceeds, Recovered
  <2> QED BY <1>0, <1>8, <2>1, GotoMoves DEF PCs
<1> QED BY <1>1, <1>2, <1>3, <1>4, <1>5, <1>6, <1>7, <1>8
        DEF Processor, Send, Reconnection, Validation

(* While the session runs only the first queue is there and has a processor.   *)
LEMMA FirstQueueRuns ==
    ASSUME IInv, NEW q \in Queues, proc[q].pc # "idle"
    PROVE  made + 1 # 1 /\ (q # 1 => cur # 1)
<1>1. q \in Nat /\ q >= 1 /\ made \in Nat /\ made >= 1
  BY Constants DEF IInv, Written, Typed, Queues
<1>2. q # 1 => made # 1
  BY <1>1 DEF IInv, Written, OneQueueRuns
<1> QED BY <1>1, <1>2 DEF IInv, Written, OneQueueRuns

LEMMA ReverseElements ==
    ASSUME NEW s \in Seq(Objs), \A i \in DOMAIN s : s[i][2] # 0
    PROVE  \A i \in DOMAIN Reverse(s) : Reverse(s)[i][2] # 0
<1>1. Len(s) \in Nat /\ DOMAIN s = 1..Len(s)
  OBVIOUS
<1>2. Reverse(s) = [i \in 1..Len(s) |-> s[Len(s) - i + 1]]
  BY DEF Reverse
<1>3. \A i \in 1..Len(s) : Len(s) - i + 1 \in DOMAIN s
  BY <1>1
<1> QED BY <1>2, <1>3

(* The other queues are given copies only, and their processors take those.    *)
LEMMA ElsewhereHolds ==
    ASSUME IInv, Elsewhere, NEW q \in Queues, Processor(q)
    PROVE  Elsewhere'
<1>0. Typed
  BY DEF IInv, Written
<1>1. ASSUME NEW r \in Queues \ {1} PROVE \A i \in DOMAIN commands'[r] : commands'[r][i][2] # 0
  <2>1. /\ commands[r] \in Seq(Objs) /\ commands \in [Queues -> Seq(Objs)]
        /\ \A i \in DOMAIN commands[r] : commands[r][i][2] # 0
    BY <1>0, <1>1 DEF Typed, Elsewhere
  <2>2. CASE commands'[r] = commands[r] \/ commands'[r] = <<>>
    BY <2>1, <2>2
  <2>3. CASE commands'[r] = Shift(commands[r])
    BY <2>1, <2>3 DEF Shift
  <2>4. CASE RoomForCopies /\ commands'[r] = Copies
    BY <1>0, <2>4, CopiesAreCopies
  <2>5. CASE RoomForCopies /\ commands'[r] = Reverse(Copies) \o commands[r]
    <3> DEFINE p == Reverse(Copies)
    <3>1. p \in Seq(Objs) /\ \A i \in DOMAIN p : p[i][2] # 0
      BY <1>0, <2>5, CopiesAreCopies, ReverseTypes, ReverseElements
    <3> HIDE DEF p
    <3>2. \A i \in DOMAIN (p \o commands[r]) : (p \o commands[r])[i][2] # 0
      <4> SUFFICES ASSUME NEW i \in DOMAIN (p \o commands[r])
                   PROVE  (p \o commands[r])[i][2] # 0
        OBVIOUS
      <4>1. /\ i \in 1..(Len(p) + Len(commands[r])) /\ Len(p) \in Nat /\ Len(commands[r]) \in Nat
            /\ (p \o commands[r])[i] =
                   IF i <= Len(p) THEN p[i] ELSE commands[r][i - Len(p)]
        BY <2>1, <3>1
      <4>2. i <= Len(p) => i \in DOMAIN p
        BY <3>1, <4>1
      <4>3. ~ (i <= Len(p)) => i - Len(p) \in DOMAIN commands[r]
        BY <2>1, <4>1
      <4> QED BY <2>1, <3>1, <4>1, <4>2, <4>3
    <3> QED BY <2>5, <3>2 DEF p
  <2>6. \/ commands'[r] = commands[r] \/ commands'[r] = <<>> \/ commands'[r] = Shift(commands[r])
        \/ RoomForCopies /\ commands'[r] = Copies
        \/ RoomForCopies /\ commands'[r] = Reverse(Copies) \o commands[r]
    <3> HIDE DEF Elsewhere
    <3> QED BY <1>0, <2>1, ProcessorQueues
  <2> QED BY <2>2, <2>3, <2>4, <2>5, <2>6
<1>2. ASSUME NEW r \in Queues \ {1}, proc'[r].pc \notin Rest PROVE proc'[r].on[2] # 0
  <2>1. CASE r # q
    BY <1>0, <1>2, <2>1, ProcessorMoves DEF Elsewhere
  <2>2. CASE r = q /\ proc[q].pc \notin Rest /\ proc'[q].on = proc[q].on
    BY <1>2, <2>2 DEF Elsewhere
  <2>3. CASE r = q /\ commands[q] # <<>> /\ proc'[q].on = Head(commands[q])
    <3>1. commands[q] \in Seq(Objs)
      BY <1>0 DEF Typed
    <3>2. 1 \in DOMAIN commands[q] /\ Head(commands[q]) = commands[q][1]
      BY <2>3, <3>1
    <3> QED BY <1>2, <2>3, <3>2 DEF Elsewhere
  <2> QED BY <1>0, <1>2, <2>1, <2>2, <2>3, ProcessorMoves
<1> QED BY <1>1, <1>2 DEF Elsewhere

(* The processor of another queue leaves the calls where they are. *)
LEMMA OtherProcessorWrites ==
    ASSUME IInv, Typed', WritesInv, NEW q \in Queues, q # 1, Processor(q)
    PROVE  WritesInv'
<1>0. Typed /\ 1 \in Queues
  BY Constants DEF IInv, Written
<1>1. proc'[1] = proc[1] /\ proc[q].pc # "idle" /\ cur # 1 /\ made + 1 # 1
  BY <1>0, ProcessorMoves, FirstQueueRuns
<1>2. commands'[1] = commands[1]
  BY <1>0, <1>1, ProcessorQueues DEF Typed
<1>3. ASSUME NEW c \in Cmds PROVE Located(c)' /\ Paid(c)'
  <2>1. proc[q].pc = "loop" \/ proc[q].on # <<c, 0>>
    BY <1>1, Constants DEF WritesInv, Elsewhere, Rest
  <2>2. Untouched(c)
    BY <1>0, <2>1, ProcessorTouches DEF Aside
  <2>3. Places(c)' = Places(c) /\ Stage(c)' = Stage(c)
    BY <1>1, <1>2 DEF Places, Stage
  <2> QED BY <1>0, <2>2, <2>3, CallStays DEF WritesInv
<1> QED BY <1>3, ElsewhereHolds DEF WritesInv

(* How the first processor moves the command of a call in its queue.           *)
LEMMA DropShifts ==
    ASSUME Typed, NEW c \in Cmds, commands'[1] = Shift(commands[1])
    PROVE  \A i \in Places(c)' : i + 1 \in Places(c)
<1>1. commands[1] \in Seq(Objs)
  BY Constants DEF Typed
<1>2. CASE commands[1] = <<>>
  BY <1>2 DEF Places, Shift
<1>3. CASE commands[1] # <<>>
  <2>1. commands'[1] = Tail(commands[1])
    BY <1>3 DEF Shift
  <2>2. \A i \in DOMAIN commands'[1] :
            i + 1 \in DOMAIN commands[1] /\ commands'[1][i] = commands[1][i + 1]
    BY <1>1, <1>3, <2>1
  <2> QED BY <2>2 DEF Places
<1> QED BY <1>2, <1>3

LEMMA PushShifts ==
    ASSUME Typed, NEW c \in Cmds, RoomForCopies, commands'[1] = Reverse(Copies) \o commands[1]
    PROVE  \A i \in Places(c)' : i + (- Len(Copies)) \in Places(c)
<1> DEFINE p == Reverse(Copies)
<1>1. /\ p \in Seq(Objs) /\ \A i \in DOMAIN p : p[i][2] # 0
      /\ Len(p) = Len(Copies) /\ Len(p) \in Nat
  BY CopiesAreCopies, ReverseTypes, ReverseElements
<1>2. commands[1] \in Seq(Objs)
  BY Constants DEF Typed
<1> SUFFICES ASSUME NEW i \in DOMAIN commands'[1], commands'[1][i] = <<c, 0>>
             PROVE  i - Len(p) \in DOMAIN commands[1] /\ commands[1][i - Len(p)] = <<c, 0>>
  BY <1>1 DEF Places
<1> HIDE DEF p
<1>3. commands'[1] = p \o commands[1]
  BY DEF p
<1>4. /\ i \in 1..(Len(p) + Len(commands[1])) /\ Len(commands[1]) \in Nat
      /\ commands'[1][i] = IF i <= Len(p) THEN p[i] ELSE commands[1][i - Len(p)]
  BY <1>1, <1>2, <1>3
<1>5. ~ (i <= Len(p))
  <2> SUFFICES ASSUME i <= Len(p) PROVE FALSE
    OBVIOUS
  <2>1. i \in DOMAIN p /\ p[i] = <<c, 0>>
    BY <1>1, <1>4
  <2> QED BY <1>1, <2>1, Constants
<1> QED BY <1>2, <1>4, <1>5

(* It moves by some places, or stays. *)
LEMMA FirstPlaces ==
    ASSUME Typed, made + 1 # 1, Processor(1), NEW c \in Cmds
    PROVE  \E d \in Int : /\ \A i \in Places(c)' : i + d \in Places(c)
                          /\ d = 0 \/ proc'[1].pc \in Rest \cup {"backoff"}
<1>0. /\ 1 \in Queues /\ commands \in [Queues -> Seq(Objs)] /\ commands[1] \in Seq(Objs)
      /\ Places(c) \subseteq Nat
  BY Constants, Amounts DEF Typed
<1>1. CASE commands'[1] = commands[1] \/ commands'[1] = <<>>
  <2>1. \A i \in Places(c)' : i + 0 \in Places(c)
    <3>1. Places(c)' \subseteq Places(c)
      BY <1>1 DEF Places
    <3> QED BY <1>0, <3>1
  <2> QED BY <2>1
<1>2. CASE commands'[1] = Shift(commands[1]) /\ proc'[1].pc \in Rest
  <2>1. 1 \in Int /\ \A i \in Places(c)' : i + 1 \in Places(c)
    BY <1>2, DropShifts
  <2> QED BY <1>2, <2>1
<1>3. CASE RoomForCopies /\ commands'[1] = Reverse(Copies) \o commands[1] /\ proc'[1].pc = "backoff"
  <2>1. \A i \in Places(c)' : i + (- Len(Copies)) \in Places(c)
    BY <1>3, PushShifts
  <2>2. - Len(Copies) \in Int
    BY <1>3, CopiesAreCopies
  <2> QED BY <1>3, <2>1, <2>2
<1> QED BY <1>0, <1>1, <1>2, <1>3, ProcessorQueues

(* A call whose command the processor does not work on. *)
LEMMA BystanderWrites ==
    ASSUME IInv, Typed', WritesInv, Processor(1), NEW c \in Cmds,
           proc[1].pc = "loop" \/ proc[1].on # <<c, 0>>,
           ~ (proc[1].pc = "loop" /\ commands[1] # <<>> /\ Head(commands[1]) = <<c, 0>>
                  /\ proc'[1].pc \notin Rest)
    PROVE  Located(c)' /\ Paid(c)'
<1>0. Typed /\ 1 \in Queues /\ Located(c) /\ Paid(c)
  BY Constants DEF IInv, Written, WritesInv
<1>1. Stage(c) \in Rest /\ Stage(c)' \in Rest
  <2>1. Stage(c) \in Rest
    BY DEF Stage, Rest
  <2>2. CASE proc'[1].pc \in Rest
    BY <2>2 DEF Stage, Rest
  <2>3. CASE proc[1].pc \notin Rest /\ proc'[1].on = proc[1].on
    BY <2>3 DEF Stage, Rest
  <2>4. CASE /\ proc[1].pc = "loop" /\ commands[1] # <<>> /\ proc'[1].on = Head(commands[1])
             /\ proc'[1].pc \notin Rest
    BY <2>4 DEF Stage, Rest
  <2> QED BY <1>0, <2>1, <2>2, <2>3, <2>4, ProcessorMoves
<1>2. Untouched(c)
  BY <1>0, ProcessorTouches DEF Aside
<1>3. made + 1 # 1
  BY <1>0, ProcessorMoves, FirstQueueRuns
<1>4. PICK d \in Int : \A i \in Places(c)' : i + d \in Places(c)
  BY <1>0, <1>3, FirstPlaces
<1>5. Located(c)' /\ (Live(c)' => Live(c))
  BY <1>0, <1>1, <1>2, <1>4, LocatedMoves DEF Untouched
<1>6. Paid(c)'
  BY <1>0, <1>1, <1>2, <1>5, PaidStays DEF Untouched, Rest
<1> QED BY <1>5, <1>6

(* The call whose command the first processor works on. *)
WorkedOn(c) == proc[1].on = <<c, 0>> /\ proc[1].pc \notin Rest

LEMMA StageMoves ==
    ASSUME Typed, NEW c \in Cmds, WorkedOn(c)
    PROVE  /\ Stage(c) = proc[1].pc /\ Live(c) /\ Stage(c) \notin Rest
           /\ \A pc \in PCs : Goto(1, pc) => Stage(c)' = pc
           /\ EndPass(1) => Stage(c)' = "idle"
<1>1. 1 \in Queues
  BY Constants
<1>2. Stage(c) = proc[1].pc /\ Live(c) /\ Stage(c) \notin Rest
  BY DEF WorkedOn, Stage, Live
<1>3. ASSUME NEW pc \in PCs, Goto(1, pc) PROVE Stage(c)' = pc
  <2>1. proc'[1].pc = pc /\ proc'[1].on = <<c, 0>>
    BY <1>1, <1>3, GotoMoves DEF WorkedOn
  <2> QED BY <2>1 DEF Stage
<1>4. ASSUME EndPass(1) PROVE Stage(c)' = "idle"
  <2>1. proc'[1].pc = "idle"
    BY <1>1, <1>4 DEF EndPass, Idle, Typed
  <2> QED BY <2>1 DEF Stage
<1> QED BY <1>2, <1>3, <1>4

(* It is the one that goes when the head goes. *)
LEMMA DropEmpties ==
    ASSUME Typed, Typed', NEW c \in Cmds, Located(c), WorkedOn(c), proc[1].pc # "backoff",
           commands'[1] = Shift(commands[1])
    PROVE  Places(c)' = {}
<1>1. Places(c) \subseteq {1}
  BY DEF Located, Stage, WorkedOn
<1>2. Places(c)' \subseteq Nat \ {0}
  <2>1. commands'[1] \in Seq(Objs)
    BY Constants DEF Typed
  <2> QED BY <2>1 DEF Places
<1>3. \A i \in Places(c)' : i + 1 \in Places(c)
  BY DropShifts
<1> QED BY <1>1, <1>2, <1>3

(* It is told, or goes on without a line or a retry. *)
LEMMA SettledWrites ==
    ASSUME Typed, Typed', NEW c \in Cmds, Located(c), Paid(c), WorkedOn(c),
           \/ CheckPrompt(1) \/ ErrorRecovery(1) \/ Timers(1)
           \/ RecoveryReconnects(1) \/ RecoveryFindsNoSession(1) \/ RecoveryGivesUp(1)
           \/ ReconnectionInvalid(1) \/ ValidationFails(1)
    PROVE  Located(c)' /\ Paid(c)'
<1>0. /\ 1 \in Queues /\ <<c, 0>> \in Objs /\ obj \in [Objs -> Counted]
      /\ obj[<<c, 0>>] \in Counted /\ commands \in [Queues -> Seq(Objs)]
  BY Constants DEF Typed
<1>a. /\ Stage(c) = proc[1].pc /\ Stage(c) \notin Rest
      /\ \A pc \in PCs : Goto(1, pc) => Stage(c)' = pc
      /\ EndPass(1) => Stage(c)' = "idle"
  BY StageMoves
<1>1. ASSUME promise' = Settle(<<c, 0>>, "resolved"), UNCHANGED tx,
             obj' = obj \/ obj' = [obj EXCEPT ![<<c, 0>>].acknowledged = TRUE],
             commands' = [commands EXCEPT ![1] = Shift(@)], Goto(1, "loop"),
             proc[1].pc # "backoff"
      PROVE  Located(c)' /\ Paid(c)'
  <2>1. Stage(c)' = "loop"
    BY <1>a, <1>1 DEF PCs
  <2>2. commands'[1] = Shift(commands[1])
    BY <1>0, <1>1
  <2>3. Places(c)' = {}
    BY <1>1, <2>2, DropEmpties
  <2>4. obj'[<<c, 0>>].sent = obj[<<c, 0>>].sent /\
        obj'[<<c, 0>>].retryCount = obj[<<c, 0>>].retryCount
    BY <1>0, <1>1 DEF Counted
  <2>5. Untouched(c)
    BY <1>1, <2>4, SettleAsked DEF Untouched
  <2> QED BY <2>1, <2>3, <2>5, CallStays DEF Rest
<1>2. ASSUME UNCHANGED <<promise, tx, obj, commands>>,
             \/ Stage(c)' \in Rest /\ Stage(c) \notin {"resuming", "fallback"}
             \/ Stage(c)' = "fallback" /\ Stage(c) \notin Rest \cup {"backoff"}
             \/ Stage(c)' = "check" /\ Stage(c) = "spacing"
             \/ Stage(c)' = "reconnecting" /\ Stage(c) = "recovering"
      PROVE  Located(c)' /\ Paid(c)'
  <2>1. Untouched(c) /\ Places(c)' = Places(c)
    BY <1>2 DEF Untouched, Places
  <2> QED BY <1>2, <2>1, CallStays
<1>3. CASE CheckPrompt(1) /\ prompt[1]
  <2>1. /\ promise' = Settle(<<c, 0>>, "resolved") /\ UNCHANGED tx
        /\ obj' = [obj EXCEPT ![<<c, 0>>].acknowledged = TRUE]
        /\ commands' = [commands EXCEPT ![1] = Shift(@)] /\ Goto(1, "loop")
        /\ proc[1].pc # "backoff"
    BY <1>3 DEF CheckPrompt, WorkedOn
  <2> QED BY <1>1, <2>1
<1>4. CASE ErrorRecovery(1)
  <2>1. /\ promise' = Settle(<<c, 0>>, "resolved") /\ UNCHANGED <<obj, tx>>
        /\ commands' = [commands EXCEPT ![1] = Shift(@)] /\ Goto(1, "loop")
        /\ proc[1].pc # "backoff"
    BY <1>4 DEF ErrorRecovery, ErrorRecoveryEnds, WorkedOn
  <2> QED BY <1>1, <2>1
<1>5. CASE CheckPrompt(1) /\ ~ prompt[1]
  <2>1. /\ UNCHANGED <<promise, tx, obj, commands>> /\ EndPass(1) /\ proc[1].pc = "check"
    BY <1>5 DEF CheckPrompt
  <2> QED BY <1>a, <1>2, <2>1 DEF Rest
<1>6. CASE Timers(1)
  <2>1. /\ UNCHANGED <<promise, tx, obj, commands>>
        /\ \/ proc[1].pc = "spacing" /\ Goto(1, "check")
           \/ proc[1].pc = "backoff" /\ Goto(1, "loop")
    BY <1>6 DEF Timers, SpacingEnds, BackoffEnds, queueVars
  <2> QED BY <1>a, <1>2, <2>1 DEF Rest, PCs
<1>7. CASE RecoveryReconnects(1)
  <2>1. /\ UNCHANGED <<promise, tx, obj, commands>>
        /\ proc[1].pc = "recovering" /\ Goto(1, "reconnecting")
    BY <1>7 DEF RecoveryReconnects, queueVars
  <2> QED BY <1>a, <1>2, <2>1 DEF PCs
<1>8. CASE RecoveryFindsNoSession(1) \/ RecoveryGivesUp(1) \/ ReconnectionInvalid(1) \/ ValidationFails(1)
  <2>1. /\ UNCHANGED <<promise, tx, obj, commands>> /\ Goto(1, "fallback")
        /\ proc[1].pc \notin Rest \cup {"backoff"}
    BY <1>8 DEF RecoveryFindsNoSession, RecoveryGivesUp, ReconnectionInvalid, ValidationFails,
                queueVars, Rest
  <2> QED BY <1>a, <1>2, <2>1 DEF PCs
<1> QED BY <1>3, <1>4, <1>5, <1>6, <1>7, <1>8

LEMMA ReconnectedWrites ==
    ASSUME IInv, Typed', NEW c \in Cmds, Located(c), Paid(c), WorkedOn(c), Reconnected(1)
    PROVE  Located(c)' /\ Paid(c)'
<1>0. /\ Typed /\ 1 \in Queues /\ commands \in [Queues -> Seq(Objs)]
      /\ made + 1 # 1
  <2>1. Typed /\ 1 \in Queues /\ commands \in [Queues -> Seq(Objs)]
    BY Constants DEF IInv, Written, Typed
  <2> QED BY <2>1, FirstQueueRuns DEF Reconnected
<1>1. /\ UNCHANGED <<promise, tx>> /\ Goto(1, "validating") /\ proc[1].pc = "reconnecting"
      /\ commands'[1] = commands[1] /\ obj'[<<c, 0>>] = obj[<<c, 0>>]
  <2>1. CASE NeedsQueue
    <3>1. /\ UNCHANGED <<promise, tx>> /\ Goto(1, "validating") /\ proc[1].pc = "reconnecting"
          /\ commands' = [commands EXCEPT ![made + 1] = Copies]
          /\ RoomForCopies /\ obj' = ObjWithCopies
      BY <2>1 DEF Reconnected, InitializeCommandQueue, InitializedObj, snapVars
    <3>2. commands'[1] = commands[1]
      BY <1>0, <3>1
    <3> QED BY <1>0, <3>1, <3>2, CopiesAreCopies
  <2>2. CASE ~ NeedsQueue
    BY <2>2 DEF Reconnected, InitializeCommandQueue, InitializedObj, snapVars
  <2> QED BY <2>1, <2>2
<1>2. Stage(c) = "reconnecting" /\ Stage(c)' = "validating"
  BY <1>0, <1>1, StageMoves DEF PCs
<1>3. Untouched(c) /\ Places(c)' = Places(c)
  BY <1>1 DEF Untouched, Places
<1> QED BY <1>0, <1>2, <1>3, CallStays

(* Its line is written, or the write fails. *)
LEMMA SendWrites ==
    ASSUME Typed, Typed', NEW c \in Cmds, Located(c), Paid(c), WorkedOn(c), Send(1)
    PROVE  Located(c)' /\ Paid(c)'
<1> DEFINE o == <<c, 0>>
<1>0. /\ o \in Objs /\ obj \in [Objs -> Counted] /\ tx \in [Objs -> Nat] /\ 1 \in Queues
      /\ obj[o] \in Counted /\ commands \in [Queues -> Seq(Objs)]
  BY Constants DEF Typed
<1>1. /\ Stage(c) = proc[1].pc /\ Live(c) /\ Stage(c) \notin Rest /\ proc[1].on = o
      /\ \A pc \in PCs : Goto(1, pc) => Stage(c)' = pc
  BY StageMoves DEF WorkedOn
<1>2. proc[1].pc = "sending"
  BY DEF Send, WriteDone, WriteFails
<1>3. /\ ~ obj[o].sent /\ Credit(c) = 0 /\ 2 * tx[o] <= obj[o].retryCount
      /\ obj[o].retryCount <= MaxCommandRetries + 1 /\ promise[c] # "none"
      /\ tx[o] \in Nat /\ obj[o].retryCount \in Nat /\ MaxCommandRetries \in Nat
      /\ Places(c) \subseteq {1}
  <2>1. ~ obj[o].sent /\ Credit(c) = 0
    BY <1>1, <1>2 DEF Paid, Credit
  <2>2. tx[o] \in Nat /\ obj[o].retryCount \in Nat /\ MaxCommandRetries \in Nat
    BY Amounts
  <2>3. 2 * tx[o] <= obj[o].retryCount + 0
    BY <1>1, <2>1 DEF Paid
  <2>4. Places(c) \subseteq {1}
    BY <1>1, <1>2 DEF Located, Rest
  <2> QED BY <1>1, <2>1, <2>2, <2>3, <2>4 DEF Paid, Located
<1>4. CASE WriteDone(1)
  <2>1. /\ UNCHANGED <<promise, commands>>
        /\ obj' = [obj EXCEPT ![o].sent = TRUE, ![o].late = FALSE]
        /\ tx' = [tx EXCEPT ![o] = @ + 1]
        /\ Goto(1, "spacing") \/ Goto(1, "check")
    BY <1>1, <1>4 DEF WriteDone
  <2>2. /\ tx'[o] = tx[o] + 1 /\ obj'[o].sent
        /\ obj'[o].retryCount = obj[o].retryCount
    BY <1>0, <2>1 DEF Counted
  <2>3. Stage(c)' \in {"spacing", "check"} /\ Places(c)' = Places(c) /\ promise'[c] # "none"
    BY <1>1, <1>3, <2>1 DEF PCs, Places
  <2>4. Located(c)'
    BY <1>3, <2>3 DEF Located
  <2>5. Credit(c)' = 2
    BY <2>2 DEF Credit
  <2>6. /\ 2 * tx'[o] <= MaxCommandRetries + 3
        /\ 2 * tx'[o] <= obj'[o].retryCount + Credit(c)'
        /\ obj'[o].retryCount <= MaxCommandRetries + 1
    BY <1>3, <2>2, <2>5
  <2>7. Paid(c)'
    BY <2>3, <2>6 DEF Paid
  <2> QED BY <2>4, <2>7
<1>5. ASSUME NEW delivered \in BOOLEAN, WriteFails(1, delivered)
      PROVE  Located(c)' /\ Paid(c)'
  <2>1. /\ promise' = Settle(o, "rejected") /\ UNCHANGED obj
        /\ tx' = [tx EXCEPT ![o] = @ + 1] \/ tx' = tx
        /\ commands' = [commands EXCEPT ![1] = Shift(@)] /\ Goto(1, "loop")
    BY <1>1, <1>5 DEF WriteFails
  <2>2. tx'[o] \in {tx[o], tx[o] + 1}
    BY <1>0, <2>1
  <2>3. Places(c)' = {}
    <3>1. commands'[1] = Shift(commands[1])
      BY <1>0, <2>1
    <3> QED BY <1>2, <3>1, DropEmpties
  <2>4. Stage(c)' = "loop" /\ promise'[c] # "none"
    BY <1>1, <1>3, <2>1, SettleAsked DEF PCs
  <2>5. Located(c)' /\ ~ Live(c)'
    BY <2>3, <2>4 DEF Located, Live, Rest
  <2>6. 2 * tx'[o] <= MaxCommandRetries + 3 /\ obj'[o].retryCount <= MaxCommandRetries + 1
    BY <1>3, <2>1, <2>2
  <2> QED BY <2>4, <2>5, <2>6 DEF Paid
<1> QED BY <1>4, <1>5 DEF Send

(* A recovery counts a retry and lets the command wait. *)
LEMMA RecoveredWrites ==
    ASSUME IInv, Typed', NEW c \in Cmds, Located(c), Paid(c), WorkedOn(c), Processor(1),
           NEW objs \in [Objs -> Counted], objs[<<c, 0>>] = obj[<<c, 0>>],
           Recovered(1, objs), UNCHANGED <<promise, tx>>,
           proc[1].pc \in {"recovering", "reconnecting", "validating", "resuming"}
    PROVE  Located(c)' /\ Paid(c)'
<1> DEFINE o == <<c, 0>>
<1>0. /\ Typed /\ o \in Objs /\ 1 \in Queues
  BY Constants DEF IInv, Written
<1>1. /\ Stage(c) = proc[1].pc /\ Live(c) /\ Stage(c) \notin Rest /\ proc[1].on = o
      /\ Stage(c)' = "backoff"
  BY <1>0, StageMoves DEF WorkedOn, Recovered, PCs
<1>2. obj'[o].sent = obj[o].sent /\ obj'[o].retryCount = obj[o].retryCount + 1
  BY <1>0, <1>1, RecoveredCount
<1>3. Located(c)'
  <2>1. made + 1 # 1
    BY <1>0, FirstQueueRuns
  <2>2. PICK d \in Int : \A i \in Places(c)' : i + d \in Places(c)
    BY <1>0, <2>1, FirstPlaces
  <2> QED BY <1>0, <1>1, <2>2, LocatedMoves DEF Rest
<1>4. Paid(c)'
  <2>1. /\ tx[o] \in Nat /\ obj[o].retryCount \in Nat /\ MaxCommandRetries \in Nat
        /\ Credit(c) \in 0..2 /\ tx'[o] = tx[o] /\ promise'[c] = promise[c]
    BY <1>0, Amounts
  <2>2. Credit(c)' \in 0..2 /\ Credit(c)' + 1 >= Credit(c)
    BY <1>1, <1>2 DEF Credit
  <2>3. obj[o].retryCount <= MaxCommandRetries
    BY <1>1, <2>1 DEF Paid
  <2>4. 2 * tx[o] <= obj[o].retryCount + Credit(c) /\ 2 * tx[o] <= MaxCommandRetries + 3
    BY <1>1 DEF Paid
  <2>5. 2 * tx'[o] <= obj'[o].retryCount + Credit(c)' /\ 2 * tx'[o] <= MaxCommandRetries + 3
        /\ obj'[o].retryCount <= MaxCommandRetries + 1
    BY <1>2, <2>1, <2>2, <2>3, <2>4
  <2>6. promise'[c] # "none"
    BY <1>1, <2>1 DEF Located
  <2> QED BY <1>1, <2>5, <2>6 DEF Paid
<1> QED BY <1>3, <1>4

(* The session answers: the command is to be sent again, and the half of a     *)
(* write that this retry has paid for is kept.                                 *)
LEMMA RespondsWrites ==
    ASSUME Typed, Typed', NEW c \in Cmds, Located(c), Paid(c), WorkedOn(c), RecoveryResponds(1)
    PROVE  Located(c)' /\ Paid(c)'
<1> DEFINE o == <<c, 0>>
<1>0. /\ o \in Objs /\ obj \in [Objs -> Counted] /\ obj[o] \in Counted /\ 1 \in Queues
  BY Constants DEF Typed
<1>1. /\ Stage(c) = "recovering" /\ Live(c) /\ proc[1].on = o /\ Stage(c)' = "resuming"
      /\ UNCHANGED <<promise, commands, tx>>
      /\ obj' = [obj EXCEPT ![o].sent = FALSE, ![o].acknowledged = FALSE, ![o].retryCount = @ + 1]
  BY StageMoves DEF WorkedOn, RecoveryResponds, PCs
<1>2. ~ obj'[o].sent /\ obj'[o].retryCount = obj[o].retryCount + 1
  BY <1>0, <1>1 DEF Counted
<1>3. Located(c)'
  <2>1. Places(c)' = Places(c)
    BY <1>1 DEF Places
  <2> QED BY <1>1, <2>1 DEF Located, Rest
<1>4. Paid(c)'
  <2>1. /\ tx[o] \in Nat /\ obj[o].retryCount \in Nat /\ MaxCommandRetries \in Nat
        /\ Credit(c) \in 0..2 /\ Credit(c)' = 1
    BY <1>1, <1>2, Amounts DEF Credit
  <2>2. /\ 2 * tx[o] <= obj[o].retryCount + Credit(c) /\ 2 * tx[o] <= MaxCommandRetries + 3
        /\ obj[o].retryCount < MaxCommandRetries /\ promise'[c] # "none"
    BY <1>1 DEF Paid, Located
  <2>3. /\ 2 * tx'[o] <= obj'[o].retryCount + Credit(c)' /\ 2 * tx'[o] <= MaxCommandRetries + 3
        /\ obj'[o].retryCount <= MaxCommandRetries
    BY <1>1, <1>2, <2>1, <2>2
  <2>4. obj'[o].retryCount <= MaxCommandRetries + 1
    BY <1>2, <2>1, <2>3
  <2> QED BY <1>1, <2>2, <2>3, <2>4 DEF Paid
<1> QED BY <1>3, <1>4

(* The processor takes the command of a call from the head of the queue. *)
LEMMA BeginWrites ==
    ASSUME Typed, Typed', NEW c \in Cmds, Located(c), Paid(c), Processor(1),
           proc[1].pc = "loop", commands[1] # <<>>, Head(commands[1]) = <<c, 0>>,
           proc'[1].pc \notin Rest
    PROVE  Located(c)' /\ Paid(c)'
<1> DEFINE o == <<c, 0>>
<1>0. /\ 1 \in Queues /\ commands[1] \in Seq(Objs) /\ proc \in [Queues -> Procs]
  BY Constants DEF Typed
<1>1. HeadTimedOut(1) \/ HeadUnsent(1) \/ HeadAcknowledged(1)
  <2>1. Loop(1)
    BY DEF Processor, Send, WriteDone, WriteFails, Timers, SpacingEnds, BackoffEnds, Recovery,
           RecoveryReconnects, RecoveryFindsNoSession, RecoveryThrows, RecoveryResponds,
           RecoveryGivesUp, InteractiveRecovery, Reconnection, Reconnected, ReconnectionValid,
           ReconnectionInvalid, ReconnectionFails, Validation, ValidationFails,
           ValidationSucceeds, ErrorRecovery, ErrorRecoveryEnds
  <2>2. ~ CheckPrompt(1)
    BY DEF CheckPrompt
  <2>3. ~ LoopEnds(1)
    <3> SUFFICES ASSUME EndPass(1) PROVE proc'[1].pc \in Rest
      BY DEF LoopEnds
    <3> QED BY <1>0 DEF EndPass, Idle, Rest
  <2> QED BY <2>1, <2>2, <2>3 DEF Loop
<1>2. PICK pc \in {"sending", "check", "lastResort", "recovering"} :
          /\ TakeHead(1, pc)
          /\ pc = "sending" => ~ obj[o].sent
          /\ pc = "recovering" => ~ (obj[o].retryCount >= MaxCommandRetries)
  BY <1>1 DEF HeadTimedOut, HeadUnsent, HeadAcknowledged
<1>3. /\ Stage(c) \in Rest /\ Stage(c)' = pc /\ pc \notin Rest
      /\ UNCHANGED <<promise, commands, obj, tx>>
  <2>1. Stage(c) \in Rest
    BY DEF Stage, Rest
  <2>2. proc'[1].pc = pc /\ proc'[1].on = o
    BY <1>0, <1>2 DEF TakeHead, Procs
  <2> QED BY <1>2, <2>1, <2>2 DEF Stage, Rest, TakeHead, queueVars
<1>4. 1 \in Places(c) /\ Places(c)' = Places(c) /\ Live(c) /\ promise[c] # "none"
  <2>1. 1 \in DOMAIN commands[1] /\ commands[1][1] = o
    BY <1>0
  <2> QED BY <1>3, <2>1 DEF Places, Live, Located
<1>5. Located(c)'
  BY <1>3, <1>4 DEF Located
<1>6. Paid(c)'
  <2>1. obj[o].retryCount \in Nat /\ MaxCommandRetries \in Nat
    BY Amounts
  <2>2. Stage(c) \notin {"resuming", "fallback"} /\ Stage(c)' # "resuming"
    BY <1>3 DEF Rest
  <2> QED BY <1>2, <1>3, <1>4, <2>1, <2>2, PaidStays
<1> QED BY <1>5, <1>6

LEMMA WorkedOnWrites ==
    ASSUME IInv, Typed', NEW c \in Cmds, Located(c), Paid(c), WorkedOn(c), Processor(1)
    PROVE  Located(c)' /\ Paid(c)'
<1>0. /\ Typed /\ 1 \in Queues /\ proc[1].pc # "loop" /\ obj \in [Objs -> Counted]
  BY Constants DEF IInv, Written, WorkedOn, Rest, Typed
<1>1. CASE Loop(1)
  <2>1. CheckPrompt(1)
    BY <1>0, <1>1 DEF Loop, LoopEnds, HeadTimedOut, HeadUnsent, HeadAcknowledged, TakeHead, AtLoop
  <2> QED BY <1>0, <2>1, SettledWrites
<1>2. CASE Send(1)
  BY <1>0, <1>2, SendWrites
<1>3. CASE Timers(1) \/ ErrorRecovery(1)
  BY <1>0, <1>3, SettledWrites
<1>4. CASE Recovery(1)
  <2>1. CASE RecoveryReconnects(1) \/ RecoveryFindsNoSession(1) \/ RecoveryGivesUp(1)
    BY <1>0, <2>1, SettledWrites
  <2>2. CASE RecoveryResponds(1)
    BY <1>0, <2>2, RespondsWrites
  <2>3. CASE RecoveryThrows(1) \/ \E flushes \in BOOLEAN : InteractiveRecovery(1, flushes)
    <3>1. proc[1].pc = "recovering" /\ Recovered(1, obj) /\ UNCHANGED <<promise, tx>>
      BY <2>3 DEF RecoveryThrows, InteractiveRecovery
    <3> QED BY <1>0, <3>1, RecoveredWrites
  <2> QED BY <1>4, <2>1, <2>2, <2>3 DEF Recovery
<1>5. CASE Reconnection(1)
  <2>1. CASE Reconnected(1)
    BY <2>1, ReconnectedWrites
  <2>2. CASE ReconnectionInvalid(1)
    BY <1>0, <2>2, SettledWrites
  <2>3. CASE ReconnectionValid(1) \/ ReconnectionFails(1)
    <3>1. /\ proc[1].pc \in {"validating", "reconnecting"} /\ Recovered(1, obj)
          /\ UNCHANGED <<promise, tx>>
      BY <2>3 DEF ReconnectionValid, ReconnectionFails
    <3> QED BY <1>0, <3>1, RecoveredWrites
  <2> QED BY <1>5, <2>1, <2>2, <2>3 DEF Reconnection
<1>6. CASE ValidationFails(1)
  BY <1>0, <1>6, SettledWrites
<1>7. ASSUME NEW leavesPrompt \in BOOLEAN, ValidationSucceeds(1, leavesPrompt)
      PROVE  Located(c)' /\ Paid(c)'
  <2>1. /\ proc[1].pc = "resuming" /\ UNCHANGED <<promise, tx>>
        /\ \/ Recovered(1, obj)
           \/ (RoomForCopies /\ Recovered(1, ObjWithCopies))
    <3>1. CASE cur = 0
      BY <1>7, <3>1 DEF ValidationSucceeds, snapVars
    <3>2. CASE cur # 0
      BY <1>7, <3>2 DEF ValidationSucceeds, snapVars
    <3> QED BY <3>1, <3>2
  <2>2. RoomForCopies => /\ ObjWithCopies \in [Objs -> Counted]
                         /\ ObjWithCopies[<<c, 0>>] = obj[<<c, 0>>]
    BY <1>0, CopiesAreCopies
  <2> QED BY <1>0, <2>1, <2>2, RecoveredWrites
<1> QED BY <1>1, <1>2, <1>3, <1>4, <1>5, <1>6, <1>7 DEF Processor, Validation

LEMMA NextWrites == IInv /\ WritesInv /\ [Next]_vars => WritesInv'
<1> SUFFICES ASSUME IInv, WritesInv, [Next]_vars PROVE WritesInv'
  OBVIOUS
<1>0. Typed /\ Typed'
  BY NextHolds DEF IInv, Written
<1>1. CASE \E a \in Cmds : AddCommandToQueue(a)
  BY <1>0, <1>1, AddWrites
<1>2. CASE \/ StopSession \/ CleanupSession \/ FlushPendingCommands \/ PersistSessionData
           \/ ProcessCommandQueue \/ UNCHANGED vars
           \/ \E matches \in BOOLEAN : Output(matches)
           \/ \E o \in Objs : TimePasses(o)
  BY <1>0, <1>2, OthersWrite
<1>3. ASSUME NEW q \in Queues, q # 1, Processor(q) PROVE WritesInv'
  BY <1>0, <1>3, OtherProcessorWrites
<1>4. CASE Processor(1)
  <2>1. Elsewhere'
    BY <1>4, ElsewhereHolds, Constants DEF WritesInv
  <2>2. ASSUME NEW c \in Cmds PROVE Located(c)' /\ Paid(c)'
    <3>0. Located(c) /\ Paid(c)
      BY DEF WritesInv
    <3>1. CASE WorkedOn(c)
      BY <1>0, <1>4, <3>0, <3>1, WorkedOnWrites
    <3>2. CASE /\ proc[1].pc = "loop" /\ commands[1] # <<>> /\ Head(commands[1]) = <<c, 0>>
               /\ proc'[1].pc \notin Rest
      BY <1>0, <1>4, <3>0, <3>2, BeginWrites
    <3>3. CASE /\ ~ WorkedOn(c)
               /\ ~ (/\ proc[1].pc = "loop" /\ commands[1] # <<>> /\ Head(commands[1]) = <<c, 0>>
                     /\ proc'[1].pc \notin Rest)
      <4>1. proc[1].pc # "idle"
        BY <1>0, <1>4, ProcessorMoves, Constants
      <4>2. proc[1].pc = "loop" \/ proc[1].on # <<c, 0>>
        BY <3>3, <4>1 DEF WorkedOn, Rest
      <4> QED BY <1>0, <1>4, <3>3, <4>2, BystanderWrites
    <3> QED BY <3>1, <3>2, <3>3
  <2> QED BY <2>1, <2>2 DEF WritesInv
<1> QED BY <1>1, <1>2, <1>3, <1>4, Constants DEF Next

LEMMA InitWrites == Init => WritesInv
<1> SUFFICES ASSUME Init PROVE WritesInv
  OBVIOUS
<1>1. /\ \A q \in Queues : commands[q] = <<>> /\ proc[q] = Idle
      /\ commands[1] = <<>> /\ proc[1] = Idle
  BY Constants DEF Init
<1>2. Elsewhere
  BY <1>1 DEF Elsewhere, Idle, Rest
<1>3. ASSUME NEW c \in Cmds PROVE Located(c) /\ Paid(c)
  <2>1. Places(c) = {} /\ Stage(c) = "idle"
    BY <1>1 DEF Places, Stage, Idle
  <2>2. tx[<<c, 0>>] = 0 /\ obj[<<c, 0>>].retryCount = 0
    BY <1>3, Constants DEF Init, Fresh
  <2>3. MaxCommandRetries \in Nat
    BY CommandQueueAssumption
  <2> QED BY <2>1, <2>2, <2>3 DEF Located, Paid, Live, Rest
<1> QED BY <1>2, <1>3 DEF WritesInv

-------------------------------------------------------------------------------
(* What waits behind the head, when nothing is restored. *)

Unsent(o) == ~ obj[o].sent /\ ~ obj[o].acknowledged /\ obj[o].retryCount = 0

Orderly ==
    /\ QueueBound
    /\ \A i \in DOMAIN commands[1] : commands[1][i][2] = 0
    /\ \A i \in DOMAIN commands[1] : i # 1 => Unsent(commands[1][i])

(* The first queue loses commands at its head at most, and those that stay     *)
(* behind its head are left alone.                                             *)
LEMMA OrderlyStays ==
    ASSUME Typed, Orderly,
           \A q \in Queues : commands'[q] \in {commands[q], Shift(commands[q]), <<>>},
           \A i \in DOMAIN commands[1], c \in Cmds :
               i # 1 /\ commands[1][i] = <<c, 0>> => Aside(c)
    PROVE  Orderly'
<1>1. \A q \in Queues : commands[q] \in Seq(Objs)
  BY DEF Typed
<1>2. ASSUME NEW q \in Queues
      PROVE  \A i \in DOMAIN commands'[q] :
                 \E j \in DOMAIN commands[q] :
                     commands'[q][i] = commands[q][j] /\ (i # 1 => j # 1)
  <2>1. CASE commands'[q] = commands[q] \/ commands'[q] = <<>>
    BY <2>1
  <2>2. CASE commands'[q] = Shift(commands[q]) /\ commands[q] # <<>>
    <3>1. \A i \in DOMAIN commands'[q] : /\ i + 1 \in DOMAIN commands[q] /\ i + 1 # 1
                                         /\ commands'[q][i] = commands[q][i + 1]
      BY <1>1, <2>2 DEF Shift
    <3> QED BY <3>1
  <2> QED BY <2>1, <2>2 DEF Shift
<1>3. QueueBound'
  <2>1. ASSUME NEW q \in Queues PROVE Len(commands'[q]) <= Len(commands[q])
    BY <1>1 DEF Shift
  <2>2. \A q \in Queues : Len(commands'[q]) \in Nat
    BY <1>1 DEF Shift
  <2> QED BY <1>1, <2>1, <2>2, CommandQueueAssumption DEF Orderly, QueueBound
<1>4. \A i \in DOMAIN commands'[1] : commands'[1][i][2] = 0
  BY <1>2, Constants DEF Orderly
<1>5. ASSUME NEW i \in DOMAIN commands'[1], i # 1 PROVE Unsent(commands[1][i])'
  <2>1. PICK j \in DOMAIN commands[1] : commands'[1][i] = commands[1][j] /\ j # 1
    BY <1>2, <1>5, Constants
  <2>2. commands[1][j] \in Objs /\ commands[1][j][2] = 0 /\ Unsent(commands[1][j])
    BY <1>1, <2>1, Constants DEF Orderly
  <2>3. PICK c \in Cmds : commands[1][j] = <<c, 0>>
    BY <2>2, Constants
  <2>4. Aside(c)
    BY <2>1, <2>3
  <2> QED BY <2>1, <2>2, <2>3, <2>4 DEF Aside, Untouched, Unsent
<1> QED BY <1>3, <1>4, <1>5 DEF Orderly

LEMMA OthersOrderly ==
    ASSUME IInv, Orderly,
           \/ StopSession \/ CleanupSession \/ FlushPendingCommands \/ PersistSessionData
           \/ ProcessCommandQueue \/ UNCHANGED vars
           \/ \E matches \in BOOLEAN : Output(matches)
           \/ \E o \in Objs : TimePasses(o)
    PROVE  Orderly'
<1>0. Typed
  BY DEF IInv, Written
<1>1. \A q \in Queues : commands'[q] \in {commands[q], Shift(commands[q]), <<>>}
  <2>1. CASE FlushPendingCommands
    <3>1. commands' = [commands EXCEPT ![cur] = <<>>]
      BY <2>1 DEF FlushPendingCommands
    <3> QED BY <1>0, <3>1 DEF Typed
  <2>2. CASE ~ FlushPendingCommands
    BY <2>2 DEF StopSession, CleanupSession, PersistSessionData, ProcessCommandQueue, Output,
                TimePasses, vars, queueVars
  <2> QED BY <2>1, <2>2
<1>2. ASSUME NEW c \in Cmds PROVE Aside(c)
  <2>1. <<c, 0>> \in Objs /\ obj[<<c, 0>>] \in Counted /\ obj \in [Objs -> Counted]
    BY <1>0, Amounts DEF Typed
  <2>2. /\ tx' = tx
        /\ promise'[c] = "none" => promise[c] = "none"
        /\ obj' = obj \/ \E o \in Objs : obj' = [obj EXCEPT ![o].late = TRUE]
    BY DEF StopSession, CleanupSession, ClearCommandQueue, FlushPendingCommands,
           PersistSessionData, ProcessCommandQueue, Output, TimePasses, vars, queueVars
  <2>3. /\ obj'[<<c, 0>>].sent = obj[<<c, 0>>].sent
        /\ obj'[<<c, 0>>].acknowledged = obj[<<c, 0>>].acknowledged
        /\ obj'[<<c, 0>>].retryCount = obj[<<c, 0>>].retryCount
    BY <2>1, <2>2 DEF Counted
  <2> QED BY <2>2, <2>3 DEF Aside, Untouched
<1> QED BY <1>0, <1>1, <1>2, OrderlyStays

(* A new command is behind the others, in a queue that has room for it. *)
LEMMA AddOrderly ==
    ASSUME IInv, WritesInv, Orderly, NEW a \in Cmds, AddCommandToQueue(a)
    PROVE  Orderly'
<1>1. /\ Typed /\ cur = 1 /\ 1 \in Queues /\ promise[a] = "none" /\ <<a, 0>> \in Objs
      /\ commands[1] \in Seq(Objs) /\ obj \in [Objs -> Counted] /\ tx' = tx
      /\ commands \in [Queues -> Seq(Objs)] /\ promise \in [Cmds -> Promises]
      /\ MaxQueueSize \in Nat
  BY Constants, CommandQueueAssumption DEF AddCommandToQueue, IInv, Written, OneQueueRuns, Typed
<1>2. CASE Len(commands[1]) >= MaxQueueSize
  <2>1. promise' = [promise EXCEPT ![a] = "rejected"] /\ UNCHANGED <<commands, obj>>
    BY <1>1, <1>2 DEF AddCommandToQueue
  <2>2. \A c \in Cmds : Aside(c)
    BY <1>1, <2>1 DEF Aside, Untouched
  <2> QED BY <1>1, <2>1, <2>2, OrderlyStays
<1>3. CASE ~ (Len(commands[1]) >= MaxQueueSize)
  <2>1. /\ commands' = [commands EXCEPT ![1] = Append(@, <<a, 0>>)]
        /\ obj' = [obj EXCEPT ![<<a, 0>>] = Fresh]
    BY <1>1, <1>3 DEF AddCommandToQueue
  <2>2. /\ commands'[1] = Append(commands[1], <<a, 0>>) /\ Len(commands[1]) \in Nat
        /\ Len(commands'[1]) = Len(commands[1]) + 1
        /\ \A q \in Queues : q # 1 => commands'[q] = commands[q]
    BY <1>1, <2>1
  <2>3. QueueBound'
    BY <1>1, <1>3, <2>2 DEF Orderly, QueueBound
  <2>4. \A i \in DOMAIN commands'[1] :
            \/ i \in DOMAIN commands[1] /\ commands'[1][i] = commands[1][i]
            \/ commands'[1][i] = <<a, 0>>
    BY <1>1, <2>2
  <2>5. obj'[<<a, 0>>] = Fresh /\ Unsent(<<a, 0>>)'
    BY <1>1, <2>1 DEF Fresh, Unsent
  <2>6. \A o \in Objs : o # <<a, 0>> => obj'[o] = obj[o]
    BY <1>1, <2>1
  <2>7. \A i \in DOMAIN commands'[1] : commands'[1][i][2] = 0
    BY <2>4 DEF Orderly
  <2>8. ASSUME NEW i \in DOMAIN commands'[1], i # 1 PROVE Unsent(commands[1][i])'
    <3>1. CASE commands'[1][i] = <<a, 0>>
      BY <2>5, <3>1 DEF Unsent
    <3>2. CASE commands'[1][i] # <<a, 0>>
      <4>1. /\ i \in DOMAIN commands[1] /\ commands'[1][i] = commands[1][i]
            /\ commands[1][i] \in Objs /\ Unsent(commands[1][i])
        BY <1>1, <2>4, <2>8, <3>2 DEF Orderly
      <4>2. obj'[commands[1][i]] = obj[commands[1][i]]
        BY <2>6, <3>2, <4>1
      <4> QED BY <4>1, <4>2 DEF Unsent
    <3> QED BY <3>1, <3>2
  <2> QED BY <2>3, <2>7, <2>8 DEF Orderly
<1> QED BY <1>2, <1>3

LEMMA BackoffTouches ==
    ASSUME NEW q \in Queues, Processor(q), proc[q].pc = "backoff"
    PROVE  UNCHANGED <<promise, obj, tx>>
BY DEF Processor, Loop, LoopEnds, HeadTimedOut, HeadUnsent, HeadAcknowledged, TakeHead, AtLoop,
       CheckPrompt, Send, WriteDone, WriteFails, Timers, SpacingEnds, BackoffEnds, queueVars,
       Recovery, RecoveryReconnects, RecoveryFindsNoSession, RecoveryThrows, RecoveryResponds,
       RecoveryGivesUp, InteractiveRecovery, Reconnection, Reconnected, ReconnectionValid,
       ReconnectionInvalid, ReconnectionFails, Validation, ValidationFails,
       ValidationSucceeds, ErrorRecovery, ErrorRecoveryEnds

(* The processor changes the command at the head only. *)
LEMMA ProcessorOrderly ==
    ASSUME IInv, WritesInv, NothingRestored, Orderly, NEW q \in Queues, Processor(q)
    PROVE  Orderly'
<1>0. Typed /\ snapshot = <<>>
  BY DEF IInv, Written, NothingRestored
<1>1. q = 1 /\ proc[q].pc # "idle"
  BY <1>0, ProcessorMoves DEF NothingRestored
<1>2. \A r \in Queues : commands'[r] \in {commands[r], Shift(commands[r]), <<>>}
  <2>1. commands \in [Queues -> Seq(Objs)] /\ Copies = <<>>
    BY <1>0, NothingToRestore DEF Typed
  <2>2. \A s \in Seq(Objs) : Reverse(<<>>) \o s = s
    <3>1. Reverse(<<>>) = <<>>
      BY DEF Reverse
    <3> QED BY <3>1
  <2> QED BY <1>0, <2>1, <2>2, ProcessorQueues
<1>3. ASSUME NEW i \in DOMAIN commands[1], NEW c \in Cmds, i # 1, commands[1][i] = <<c, 0>>
      PROVE  Aside(c)
  <2>1. Located(c) /\ i \in Places(c)
    BY <1>3 DEF WritesInv, Places
  <2>2. CASE proc[1].pc = "loop" \/ proc[1].on # <<c, 0>>
    BY <1>0, <1>1, <2>2, ProcessorTouches
  <2>3. CASE proc[1].pc = "backoff"
    <3>1. UNCHANGED <<promise, obj, tx>>
      BY <1>1, <2>3, BackoffTouches
    <3> QED BY <3>1 DEF Aside, Untouched
  <2>4. CASE proc[1].pc \notin {"loop", "backoff"} /\ proc[1].on = <<c, 0>>
    <3>1. Stage(c) \notin Rest \cup {"backoff"}
      BY <1>1, <2>4 DEF Stage, Rest
    <3> QED BY <1>3, <2>1, <3>1 DEF Located
  <2> QED BY <2>2, <2>3, <2>4
<1> QED BY <1>0, <1>2, <1>3, OrderlyStays

LEMMA NextOrderly ==
    IInv /\ WritesInv /\ NothingRestored /\ Orderly /\ [Next]_vars => Orderly'
<1> SUFFICES ASSUME IInv, WritesInv, NothingRestored, Orderly, [Next]_vars PROVE Orderly'
  OBVIOUS
<1>1. CASE \E a \in Cmds : AddCommandToQueue(a)
  BY <1>1, AddOrderly
<1>2. CASE \/ StopSession \/ CleanupSession \/ FlushPendingCommands \/ PersistSessionData
           \/ ProcessCommandQueue \/ UNCHANGED vars
           \/ \E matches \in BOOLEAN : Output(matches)
           \/ \E o \in Objs : TimePasses(o)
  BY <1>2, OthersOrderly
<1>3. CASE \E q \in Queues : Processor(q)
  BY <1>3, ProcessorOrderly
<1> QED BY <1>1, <1>2, <1>3 DEF Next

-------------------------------------------------------------------------------
(* The theorems. *)

(* Every reachable state satisfies the inductive invariant: what was written   *)
(* whatever is restored or emptied, what is queued when nothing is emptied,    *)
(* and who is awake when nothing is restored.                                  *)
THEOREM InductiveInvariant == Spec => []IInv
BY InitHolds, NextHolds, PTL DEF Spec

(* A call that was answered as a success had its line written to the shell:    *)
(* with recoveries, restored copies, prompt resets and reconnections, and also *)
(* when error recovery is the one that reports the success.                    *)
THEOREM SuccessWasSent == Spec => []ResolvedWasSent
<1>1. IInv => ResolvedWasSent
  BY DEF IInv, Written
<1> QED BY <1>1, InductiveInvariant, PTL

(* Unless a prompt reset empties its queue, the command of a caller that waits *)
(* is in the queue of the session, whatever awaits, failing writes, recoveries *)
(* and restored copies come between.                                           *)
THEOREM CommandsAreKept ==
    ASSUME ~ Flushes
    PROVE  Spec => []NoCommandLost
<1>1. IInv => NoCommandLost
  <2> SUFFICES ASSUME IInv, NEW c \in Cmds, promise[c] = "pending"
               PROVE  cur # 0 /\ \E i \in DOMAIN commands[cur] : commands[cur][i] = <<c, 0>>
    BY DEF NoCommandLost
  <2>1. session = "running" /\ \E i \in DOMAIN commands[1] : commands[1][i] = <<c, 0>>
    BY DEF IInv, Kept, PendingIsQueued
  <2>2. cur = 1
    BY <2>1 DEF IInv, Written, OneQueueRuns
  <2> QED BY <2>1, <2>2
<1> QED BY <1>1, InductiveInvariant, PTL

(* Unless persisted commands are restored (into a queue for which nothing is   *)
(* scheduled), commands that wait for a session with a channel have a pass in  *)
(* progress or one scheduled.                                                  *)
THEOREM QueueStaysAwake ==
    ASSUME MaxSnapshots = 0
    PROVE  Spec => []NoWakeupLost
<1>1. IInv => NoWakeupLost
  BY DEF IInv, Awake
<1> QED BY <1>1, InductiveInvariant, PTL

(* With neither, the shift() after an await drops the command that was         *)
(* awaited: the head has not changed under the processor.                      *)
THEOREM ProcessorDropsItsOwn ==
    ASSUME MaxSnapshots = 0, ~ Flushes
    PROVE  Spec => DropsOwnCommand
<1>1. ASSUME IInv, [Next]_vars, NEW q \in Queues,
             commands[q] # <<>>, commands'[q] = Tail(commands[q])
      PROVE  Head(commands[q]) = proc[q].on
  <2>1. q = 1
    BY <1>1 DEF IInv, Awake, NothingRestored
  <2> QED BY <1>1, <2>1, DropIsOwn
<1>2. IInv /\ [Next]_vars =>
          [\A q \in Queues :
              proc[q].on # NoObj /\ commands[q] # <<>> /\ commands'[q] = Tail(commands[q])
                  => Head(commands[q]) = proc[q].on]_vars
  BY <1>1
<1> QED BY <1>2, InductiveInvariant, PTL DEF Spec, DropsOwnCommand

(* While the session runs, nothing needs to be assumed for the queue to stay   *)
(* awake: persisted commands are put back only into the queue of a pass that   *)
(* is under way (restoreCommandQueueFromPersistence).                          *)
THEOREM RunningQueueStaysAwake == Spec => [](session = "running" => NoWakeupLost)
<1>1. Init => AwakeWhileRunning
  BY Constants DEF Init, AwakeWhileRunning, NoWakeupLost
<1> QED BY <1>1, RunningStaysAwake, InductiveInvariant, PTL DEF Spec, AwakeWhileRunning

(* Nor does a pass of a running session drop a command but its own when        *)
(* commands are restored: they are put before the head only for the time of    *)
(* the backoff, after which the pass looks at the head anew.                   *)
THEOREM RunningProcessorDropsItsOwn ==
    ASSUME ~ Flushes
    PROVE  Spec => [][session = "running" =>
                         \A q \in Queues :
                            commands[q] # <<>> /\ commands'[q] = Tail(commands[q])
                                => Head(commands[q]) = proc[q].on]_vars
<1>1. ASSUME IInv, [Next]_vars, session = "running", NEW q \in Queues,
             commands[q] # <<>>, commands'[q] = Tail(commands[q])
      PROVE  Head(commands[q]) = proc[q].on
  <2>1. \A r \in Queues : r > 1 \/ r = 1
    BY DEF Queues
  <2>2. q = 1
    BY <1>1, <2>1 DEF IInv, Written, OneQueueRuns
  <2> QED BY <1>1, <2>2, DropIsOwn
<1>2. IInv /\ [Next]_vars =>
          [session = "running" =>
              \A q \in Queues :
                  commands[q] # <<>> /\ commands'[q] = Tail(commands[q])
                      => Head(commands[q]) = proc[q].on]_vars
  BY <1>1
<1> QED BY <1>2, InductiveInvariant, PTL DEF Spec

(* The line of a call reaches a live channel a bounded number of times, for    *)
(* any number of recoveries, reconnections, prompt resets and restored copies  *)
(* before, beside and after it: every second retry of its command pays for one *)
(* write (TimeoutRecoveryManager:337 and CommandQueueManager:622 count one     *)
(* retry each for a recovery that lets the command be sent again).             *)
THEOREM CallsAreSentBoundedly == Spec => []SendsBounded
<1>1. WritesInv => SendsBounded
  BY DEF WritesInv, Paid, SendsBounded
<1> QED BY <1>1, InitHolds, NextHolds, InitWrites, NextWrites, PTL DEF Spec

LEMMA SpecOrderly ==
    ASSUME MaxSnapshots = 0
    PROVE  Spec => [](IInv /\ NothingRestored /\ Orderly)
<1>1. Init => Orderly
  <2> SUFFICES ASSUME Init PROVE Orderly
    OBVIOUS
  <2>1. \A q \in Queues : commands[q] = <<>>
    BY DEF Init
  <2>2. MaxQueueSize \in Nat /\ Len(<<>>) = 0
    BY CommandQueueAssumption
  <2> QED BY <2>1, <2>2, Constants DEF Orderly, QueueBound
<1>2. IInv => NothingRestored
  BY DEF IInv, Awake
<1> QED BY <1>1, <1>2, InitHolds, NextHolds, InitWrites, NextWrites, NextOrderly, PTL DEF Spec

(* Unless persisted commands are restored, nothing behind the head of a queue  *)
(* was ever written, acknowledged or counted a retry, prompt resets or not: a  *)
(* command that passes its turn on has left the queue.                         *)
THEOREM OnlyTheHeadIsSent ==
    ASSUME MaxSnapshots = 0
    PROVE  Spec => []OnlyHeadInFlight
<1>1. IInv /\ NothingRestored /\ Orderly => OnlyHeadInFlight
  <2> SUFFICES ASSUME IInv, NothingRestored, Orderly,
                      NEW q \in Queues, NEW i \in 2..Len(commands[q])
               PROVE  Unsent(commands[q][i])
    BY DEF OnlyHeadInFlight, Unsent
  <2>1. commands[q] \in Seq(Objs)
    BY DEF IInv, Written, Typed
  <2>2. i \in DOMAIN commands[q] /\ i # 1 /\ q = 1
    BY <2>1 DEF NothingRestored
  <2> QED BY <2>2 DEF Orderly
<1> QED BY <1>1, SpecOrderly, PTL

(* ... and the queue holds what maxQueueSize allows: only a restoration, which *)
(* unshifts without looking at the limit, could exceed it.                     *)
THEOREM QueueStaysWithinItsLimit ==
    ASSUME MaxSnapshots = 0
    PROVE  Spec => []QueueBound
<1>1. Orderly => QueueBound
  BY DEF Orderly
<1> QED BY <1>1, SpecOrderly, PTL
==============================================================================
