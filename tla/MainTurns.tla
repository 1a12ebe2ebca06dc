----------------------------- MODULE MainTurns -----------------------------
(***************************************************************************)
(* What Main shows Chat of its Turns: which attempt of each may run, which *)
(* snapshots it has posted, which terminals it accepted and which attempts *)
(* it ordered stopped.  ChatTurns implements it; AgentRuns runs against it.*)
(***************************************************************************)
EXTENDS Integers

CONSTANTS Turns, MaxAttempt,
          Terminals            \* what Chat may report of an attempt

VARIABLES
  attempt,   \* Turns -> the latest attempt, 0 before the first
  state,     \* Turns -> "none" | "active" | "ended" | "deleted"
  posted,    \* attempts whose snapshot may have reached Chat
  acked,     \* <<turn, attempt, terminal>> that Main accepted
  stops      \* attempts with a durable cancel event

mainVars == <<attempt, state, posted, acked, stops>>

Attempts == 1..MaxAttempt
Live(t, a) == attempt[t] = a /\ state[t] = "active"

Init == /\ attempt = [t \in Turns |-> 0]
        /\ state = [t \in Turns |-> "none"]
        /\ posted = {}
        /\ acked = {}
        /\ stops = {}

\* The next attempt of a Turn runs, or is refused by moderation and never runs.
Begin(t) ==
  /\ state[t] \notin {"active", "deleted"}
  /\ attempt[t] < MaxAttempt
  /\ attempt' = [attempt EXCEPT ![t] = @ + 1]
  /\ \E s \in {"active", "ended"} : state' = [state EXCEPT ![t] = s]
  /\ UNCHANGED <<posted, acked, stops>>

Post(t) ==
  /\ state[t] = "active"
  /\ posted' = posted \cup {<<t, attempt[t]>>}
  /\ UNCHANGED <<attempt, state, acked, stops>>

Accept(t, a, terminal) ==
  /\ Live(t, a)
  /\ <<t, a>> \in posted
  /\ state' = [state EXCEPT ![t] = "ended"]
  /\ acked' = acked \cup {<<t, a, terminal>>}
  /\ UNCHANGED <<attempt, posted, stops>>

\* Stop, the reaper or a memory clear, which ends several at once.
Stop(T) ==
  /\ \A t \in T : state[t] = "active"
  /\ state' = [t \in Turns |-> IF t \in T THEN "ended" ELSE state[t]]
  /\ stops' = stops \cup {<<t, attempt[t]>> : t \in T}
  /\ UNCHANGED <<attempt, posted, acked>>

Delete(T) ==
  /\ \A t \in T : state[t] = "ended"
  /\ state' = [t \in Turns |-> IF t \in T THEN "deleted" ELSE state[t]]
  /\ UNCHANGED <<attempt, posted, acked, stops>>

Next == \/ \E T \in SUBSET Turns : Stop(T) \/ Delete(T)
        \/ \E t \in Turns : \/ Begin(t) \/ Post(t)
                            \/ \E a \in Attempts, x \in Terminals : Accept(t, a, x)

Spec == Init /\ [][Next]_mainVars
=============================================================================
