----------------------------- MODULE ReplySlots -----------------------------
(***************************************************************************)
(* What the chat ledger promises, with nothing of how: every conversation  *)
(* has one reply slot; an attempt enters an idle slot, is never replaced   *)
(* in place, and never comes back once a later attempt of its Turn exists. *)
(***************************************************************************)
EXTENDS Integers

CONSTANTS Conversations, Turns

VARIABLES
  slot,   \* Conversations -> <<>> when idle, else <<turn, attempt>>
  last    \* Turns -> the latest attempt made, 0 before the first

Init == /\ slot = [v \in Conversations |-> <<>>]
        /\ last = [t \in Turns |-> 0]

\* The next attempt of a Turn takes an idle conversation.
Open(v, t) ==
  /\ slot[v] = <<>>
  /\ slot' = [slot EXCEPT ![v] = <<t, last[t] + 1>>]
  /\ last' = [last EXCEPT ![t] = @ + 1]

\* Replies end; clearing a Character's memory ends those of several chats.
Close(V) ==
  /\ slot' = [v \in Conversations |-> IF v \in V THEN <<>> ELSE slot[v]]
  /\ UNCHANGED last

\* An attempt that moderation refused consumes its number and never runs.
Skip(t) ==
  /\ \A v \in Conversations : slot[v] # <<t, last[t]>>
  /\ last' = [last EXCEPT ![t] = @ + 1]
  /\ UNCHANGED slot

Next == \/ \E V \in SUBSET Conversations : Close(V)
        \/ \E v \in Conversations, t \in Turns : Open(v, t)
        \/ \E t \in Turns : Skip(t)

Spec == Init /\ [][Next]_<<slot, last>>
=============================================================================
