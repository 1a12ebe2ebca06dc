----------------------------- MODULE PaidRequest -----------------------------
(***************************************************************************)
(* What a user is promised for a price paid in advance: outputs, or the    *)
(* money back, and for missing outputs their share of it.  Generation      *)
(* implements it.                                                          *)
(***************************************************************************)
EXTENDS Integers

CONSTANT Outputs    \* outputs the price is for

VARIABLES
  price,
  phase,   \* "open" | "delivered" | "returned" | "closed"
  goods,   \* outputs delivered
  given    \* coins given back

promise == <<price, phase, goods, given>>

\* What is given back for missing outputs, rounded up, within the price.
ShareOf(missing) == (price * missing + Outputs - 1) \div Outputs
Within(amount) == IF amount < price THEN amount ELSE price

Init == /\ price \in Nat
        /\ phase = "open" /\ goods = 0 /\ given = 0

\* A failure that cost nothing may turn out to have been a success.
Deliver(n) ==
  /\ phase = "open" \/ (phase = "returned" /\ price = 0)
  /\ phase' = "delivered"
  /\ goods' = n
  /\ given' = Within(given + ShareOf(Outputs - n))
  /\ UNCHANGED price

\* A failure may be retried, a cancellation or a refusal may not.
Return ==
  /\ phase = "open"
  /\ phase' \in {"returned", "closed"}
  /\ given' = price
  /\ UNCHANGED <<price, goods>>

\* A retry charges nothing: what was given back stays given back.
Reopen ==
  /\ phase = "returned"
  /\ phase' = "open"
  /\ UNCHANGED <<price, goods, given>>

\* An operator makes up for an incident at any time.
Compensate ==
  /\ given' = price
  /\ UNCHANGED <<price, phase, goods>>

Next == \/ \E n \in 1..Outputs : Deliver(n)
        \/ Return \/ Reopen \/ Compensate

Spec == Init /\ [][Next]_promise
=============================================================================
