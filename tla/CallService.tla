---------------------------- MODULE CallService ----------------------------
(* What a caller is promised: a call is begun once, answered or failed once,  *)
(* and the answer is all that was said in its name while it was pending, in   *)
(* order and with nothing of another call's.                                  *)
EXTENDS Sequences

CONSTANTS
    Calls,
    Pieces      \* for each call, the sequences that may be said at once in its name

VARIABLES
    state,   \* of each call
    said,    \* all that was said in its name
    told     \* what its caller has, or would get now

vars == <<state, said, told>>

Init ==
    /\ state = [c \in Calls |-> "idle"]
    /\ said = [c \in Calls |-> <<>>]
    /\ told = [c \in Calls |-> <<>>]

Begin(c) ==
    /\ state[c] = "idle"
    /\ state' = [state EXCEPT ![c] = "pending"]
    /\ UNCHANGED <<said, told>>

(* What is said after the answer is lost to the caller. *)
Say(c) ==
    /\ state[c] # "idle"
    /\ \E piece \in Pieces[c] :
        /\ said' = [said EXCEPT ![c] = @ \o piece]
        /\ told' = IF state[c] = "pending" THEN [told EXCEPT ![c] = @ \o piece] ELSE told
    /\ UNCHANGED state

Answer(c) ==
    /\ state[c] = "pending"
    /\ state' = [state EXCEPT ![c] = "answered"]
    /\ UNCHANGED <<said, told>>

(* Nothing was said in the name of a call that fails. *)
Fail(c) ==
    /\ state[c] = "pending" /\ said[c] = <<>>
    /\ state' = [state EXCEPT ![c] = "failed"]
    /\ UNCHANGED <<said, told>>

Next == \E c \in Calls : Begin(c) \/ Say(c) \/ Answer(c) \/ Fail(c)

Safety == Init /\ [][Next]_vars

Fairness == \A c \in Calls : WF_vars(Answer(c) \/ Fail(c))

Spec == Safety /\ Fairness
=============================================================================
