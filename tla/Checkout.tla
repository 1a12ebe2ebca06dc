------------------------------- MODULE Checkout -------------------------------
(***************************************************************************)
(* One user's purchases: checkouts that open an invoice at the payment     *)
(* provider, the settlement of those invoices into coins and paid access,  *)
(* and the refund of a subscription.                                       *)
(*                                                                         *)
(* Main's transactions lock the checkout and then the user, so each is one *)
(* action; the provider is asked outside of them, so its answer may be old *)
(* when it is used.  A request may stop between any two of its steps, its  *)
(* POST may reach the provider after its deadline, and a settlement event  *)
(* is delivered until it is processed.                                     *)
(*                                                                         *)
(* Clocks: a dispatch lease, the reconciliation window and a paid period   *)
(* may be over at any time after they began.  Not modelled: the mock       *)
(* provider's automatic confirmation, cash receipts, analytics, how long a *)
(* period is, and refund commands of two operators at once.                *)
(***************************************************************************)
EXTENDS Integers, FiniteSets

CONSTANTS
  LastCheckout,  \* bound of the model: checkouts, numbered in the order they are made
  Baskets,       \* what may be bought: functions from checkouts to products
  CoinOffer,     \* the product that is coins; any other is a plan
  Convertible,   \* can the value of one plan be turned into days of another?
  LastRequest,   \* the user's calls of POST /checkout that go on at once
  Overlapping,   \* bound of the model: checkouts there may be while calls overlap
  MinMisses,     \* lookups without an invoice before a checkout is given up
  MaxRefunds,    \* bound of the model: refund commands
  Unlucky        \* bound of the model: checkouts whose invoice may not be paid in time

Checkouts == 1..LastCheckout
Requests == 1..LastRequest
Commands == 1..MaxRefunds
Statuses == {"none", "provider_pending", "provider_dispatching", "provider_unknown",
             "created", "provider_settled", "completed", "expired", "canceled",
             "refund_pending", "refunded"}
Invoices == {"none", "new", "settled", "expired", "paid_late", "invalid"}
RefundStates == {"provider_dispatching", "provider_unknown", "claimable", "completed", "canceled"}
NoRefund == [cmd |-> 0, state |-> "none", known |-> FALSE]

ASSUME CheckoutAssumption ==
  /\ LastCheckout \in Nat \ {0}
  /\ \A b \in Baskets : DOMAIN b = Checkouts
  /\ Convertible \in BOOLEAN
  /\ LastRequest \in Nat /\ Overlapping \in Nat
  /\ MinMisses \in Nat \ {0} /\ MaxRefunds \in Nat /\ Unlucky \subseteq Checkouts

VARIABLES
  basket,     \* Checkouts -> product
  row,        \* Checkouts -> the checkout_sessions row
  refund,     \* Checkouts -> the refund in its reconciliationEvidence
  sub,        \* Checkouts -> status of the subscription its invoice paid for
  ended,      \* subscriptions whose period is over
  entitled,   \* subscription the user's entitlements come from, or 0
  ledger,     \* idempotency keys posted: <<kind, checkout, command>>
  call,       \* Requests -> [on, at, mine, seen]
  job,        \* the refund work going on: [at, on, cmd, seen, may it POST]
  commands,   \* refund commands so far
  invoice,    \* Checkouts -> state of the invoice at the provider
  flying,     \* checkouts whose POST is on its way to the provider
  payback,    \* Commands -> state of the refund at the provider
  coming,     \* commands whose refund POST is on its way
  referred,   \* checkouts with a settlement event processed without a grant
  posted,     \* Checkouts -> times an invoice was asked for (history)
  abandoned   \* checkouts that were once given up (history)

access   == <<sub, ended, entitled, ledger>>
local    == <<row, refund, access>>
provider == <<invoice, flying, payback, coming>>
history  == <<posted, abandoned>>
vars == <<basket, local, call, job, commands, provider, referred, history>>
-----------------------------------------------------------------------------
NoRow == [status |-> "none", bound |-> FALSE, paid |-> FALSE, token |-> FALSE, lease |-> FALSE,
          attempted |-> FALSE, code |-> "none", misses |-> 0, recon |-> FALSE]
NoCall == [on |-> 0, at |-> "idle", mine |-> FALSE, seen |-> "none"]
NoJob == [at |-> "idle", on |-> 0, cmd |-> 0, seen |-> "none", may |-> FALSE]

Init ==
  /\ basket \in Baskets
  /\ row = [c \in Checkouts |-> NoRow]
  /\ refund = [c \in Checkouts |-> NoRefund]
  /\ sub = [c \in Checkouts |-> "none"]
  /\ ended = {} /\ entitled = 0 /\ ledger = {}
  /\ call = [r \in Requests |-> NoCall]
  /\ job = NoJob /\ commands = 0
  /\ invoice = [c \in Checkouts |-> "none"]
  /\ flying = {} /\ coming = {}
  /\ payback = [k \in Commands |-> "none"]
  /\ referred = {}
  /\ posted = [c \in Checkouts |-> 0]
  /\ abandoned = {}
-----------------------------------------------------------------------------
(* Access and coins.                                                       *)

IsPlan(c) == basket[c] # CoinOffer

Key(kind, c, k) == <<kind, c, k>>
Grant(c) == Key("grant", c, 0)

PendingRefund == \E c \in Checkouts : sub[c] = "refund_pending"

Live == {c \in Checkouts : sub[c] = "active" /\ c \notin ended}

Lapsed == {c \in Checkouts : sub[c] = "active" /\ c \in ended}

\* expireEndedSubscriptionsInTx: whoever touches the user's access first.
AfterExpiry == [c \in Checkouts |-> IF c \in Lapsed THEN "expired" ELSE sub[c]]
StillEntitled == IF entitled \in Lapsed THEN 0 ELSE entitled

SamePlanIsLive(c) == \E d \in Live : basket[d] = basket[c]

\* Mutant of Competes: a dispatch competes for ever.
CompetesForEver(c) ==
  \E d \in Checkouts \ {c} :
    /\ basket[d] = basket[c]
    /\ row[d].status = "provider_dispatching" /\ ~row[d].bound
    /\ row[d].attempted /\ row[d].token

\* Another checkout of the plan may be at the provider.
Competes(c) ==
  \E d \in Checkouts \ {c} :
    /\ basket[d] = basket[c]
    /\ row[d].status = "provider_dispatching" /\ ~row[d].bound
    /\ row[d].attempted /\ row[d].token /\ row[d].lease
-----------------------------------------------------------------------------
(* The user's request.                                                     *)

At(r) == row[call[r].on]
Goes(r, stage) == call' = [call EXCEPT ![r].at = stage]
Returns(r) == call' = [call EXCEPT ![r] = NoCall]

\* What the caller does with the row it is given.
Continues(r, status) == IF status = "provider_settled"
                        THEN call' = [call EXCEPT ![r] = [NoCall EXCEPT !.on = call[r].on, !.at = "complete"]]
                        ELSE Returns(r)

\* Requests are alike, so the first that is idle starts.  Bound of the model:
\* calls overlap while there are few checkouts.
MayStart(r, c) ==
  /\ \A q \in Requests : q < r => call[q].at # "idle"
  /\ \/ \A q \in Requests \ {r} : call[q].at = "idle"
     \/ \A d \in Checkouts : d = c \/ row[d].status # "none" => d <= Overlapping

\* A new Idempotency-Key.
Create(r, c) ==
  /\ call[r].at = "idle" /\ row[c].status = "none" /\ MayStart(r, c)
  /\ \A d \in Checkouts : d < c => row[d].status # "none"
  /\ IsPlan(c) => ~PendingRefund /\ ~SamePlanIsLive(c)
  /\ IF IsPlan(c) THEN sub' = AfterExpiry /\ entitled' = StillEntitled
                  ELSE UNCHANGED <<sub, entitled>>
  /\ row' = [row EXCEPT ![c].status = "provider_pending"]
  /\ call' = [call EXCEPT ![r] = [NoCall EXCEPT !.on = c, !.at = "claim"]]
  /\ UNCHANGED <<basket, refund, ended, ledger, job, commands, provider, referred, history>>

\* findInvoiceByOrderId: the answer is used in a later transaction.
Looks(r, c) ==
  call' = [call EXCEPT ![r] =
    [@ EXCEPT !.on = c, !.at = IF invoice[c] = "none" THEN "miss" ELSE "save", !.seen = invoice[c]]]

\* The same key again: what ensureCheckoutInvoice reads, and looks up.
Call(r, c) ==
  /\ call[r].at = "idle" /\ row[c].status \notin {"none", "completed"} /\ MayStart(r, c)
  /\ row[c].code \notin {"missing", "late"}
  /\ LET Waits == [NoCall EXCEPT !.on = c, !.at = "wait"]
         Asks  == [NoCall EXCEPT !.on = c, !.at = "claim"]
     IN  IF row[c].token /\ row[c].lease THEN call' = [call EXCEPT ![r] = Waits]
         ELSE IF row[c].attempted \/ row[c].bound \/ row[c].recon THEN Looks(r, c)
         ELSE call' = [call EXCEPT ![r] = Asks]
  /\ UNCHANGED <<basket, local, job, commands, provider, referred, history>>

\* waitForCheckoutDispatch is over.
Waited(r) ==
  /\ call[r].at \in {"wait", "busy"}
  /\ IF At(r).bound THEN Continues(r, At(r).status)
     ELSE IF At(r).lease \/ call[r].at = "busy" THEN Returns(r)
     ELSE Looks(r, call[r].on)
  /\ UNCHANGED <<basket, local, job, commands, provider, referred, history>>

Claimable(c) ==
  /\ ~row[c].attempted /\ ~row[c].bound /\ ~row[c].recon /\ ~row[c].lease
  /\ row[c].status \in {"provider_pending", "provider_dispatching"}

\* Mutant of Claimed: the claim does not outlive its lease.
ClaimedUnmarked(w) == [w EXCEPT !.status = "provider_dispatching", !.token = TRUE,
                                !.lease = TRUE, !.code = "none"]

\* The marker is committed before the provider is contacted.
Claimed(w) == [w EXCEPT !.status = "provider_dispatching", !.token = TRUE, !.lease = TRUE,
                        !.attempted = TRUE, !.code = "none"]

Claim(r) ==
  LET c == call[r].on IN
  /\ call[r].at = "claim" /\ Claimable(c)
  /\ IsPlan(c) => ~PendingRefund /\ ~SamePlanIsLive(c) /\ ~Competes(c)
  /\ IF IsPlan(c) THEN sub' = AfterExpiry /\ entitled' = StillEntitled
                  ELSE UNCHANGED <<sub, entitled>>
  /\ row' = [row EXCEPT ![c] = Claimed(@)]
  /\ call' = [call EXCEPT ![r].at = "ask", ![r].mine = TRUE]
  /\ UNCHANGED <<basket, refund, ended, ledger, job, commands, provider, referred, history>>

ClaimIsBusy(r) ==
  /\ call[r].at = "claim" /\ ~Claimable(call[r].on)
  /\ Goes(r, "busy")
  /\ UNCHANGED <<basket, local, job, commands, provider, referred, history>>

\* The claimant looks for an invoice, finds none and asks for one.
Post(r) ==
  /\ call[r].at = "ask" /\ invoice[call[r].on] = "none"
  /\ flying' = flying \cup {call[r].on}
  /\ posted' = [posted EXCEPT ![call[r].on] = @ + 1]
  /\ Goes(r, "posted")
  /\ UNCHANGED <<basket, local, job, commands, invoice, payback, coming, referred, abandoned>>

\* It finds one before it asks; or the POST failed, or its deadline passed
\* while it goes on, and it looks again.
Finds(r) ==
  /\ \/ call[r].at = "ask" /\ invoice[call[r].on] # "none"
     \/ call[r].at = "posted"
  /\ Looks(r, call[r].on)
  /\ UNCHANGED <<basket, local, job, commands, provider, referred, history>>

LookupFails(r) ==
  /\ call[r].at \in {"ask", "posted"}
  /\ Goes(r, "miss")
  /\ UNCHANGED <<basket, local, job, commands, provider, referred, history>>

PostAnswered(r) ==
  /\ call[r].at = "posted" /\ invoice[call[r].on] # "none"
  /\ call' = [call EXCEPT ![r].at = "save", ![r].seen = "new"]
  /\ UNCHANGED <<basket, local, job, commands, provider, referred, history>>
-----------------------------------------------------------------------------
(* What an invoice says of its checkout.                                   *)

Disposition(i) == CASE i = "settled"   -> "provider_settled"
                    [] i = "paid_late" -> "provider_unknown"
                    [] i = "expired"   -> "expired"
                    [] i = "invalid"   -> "canceled"
                    [] OTHER           -> "created"

GivenUp(w) == w.status \in {"canceled", "expired"}

\* Money came in after the checkout was given up: an operator must look.
LateSettled(w) == [w EXCEPT !.bound = TRUE, !.paid = TRUE, !.status = "provider_unknown",
                            !.token = FALSE, !.lease = FALSE, !.code = "late",
                            !.recon = TRUE, !.misses = 0]

\* Mutant of Saved: a checkout that was given up is taken up again.
SavedAgain(w, i, mine) ==
  IF w.code = "acknowledged" \/ (mine /\ ~w.token) \/ (w.paid /\ i # "settled") THEN w
  ELSE [w EXCEPT !.bound = TRUE, !.paid = i = "settled", !.status = Disposition(i),
                 !.token = FALSE, !.lease = FALSE, !.code = "none",
                 !.recon = i = "paid_late", !.misses = 0]

\* persistCheckoutInvoiceAuthorityInTx.
Saved(w, i, mine) ==
  IF w.code = "acknowledged" THEN w
  ELSE IF w.code = "late" \/ GivenUp(w) THEN IF i = "settled" THEN LateSettled(w) ELSE w
  ELSE IF w.status = "completed"
       THEN [w EXCEPT !.bound = TRUE, !.paid = TRUE, !.token = FALSE, !.lease = FALSE, !.misses = 0]
  ELSE IF (mine /\ ~w.token) \/ (w.paid /\ i # "settled") THEN w
  ELSE [w EXCEPT !.bound = TRUE, !.paid = i = "settled", !.status = Disposition(i),
                 !.token = FALSE, !.lease = FALSE, !.code = "none",
                 !.recon = i = "paid_late", !.misses = 0]

\* History: which checkouts have been given up by now.
Notes == abandoned' = abandoned \cup {c \in Checkouts : GivenUp(row'[c])}

Save(r) ==
  LET c == call[r].on IN
  /\ call[r].at = "save"
  /\ row' = [row EXCEPT ![c] = Saved(@, call[r].seen, call[r].mine)]
  /\ Continues(r, row'[c].status)
  /\ Notes
  /\ UNCHANGED <<basket, refund, access, job, commands, provider, referred, posted>>

\* recordCheckoutInvoiceMissing: what was decided meanwhile stands.
MissKeeps(w, mine) ==
  w.status = "completed" \/ w.bound \/ GivenUp(w) \/ w.code = "late" \/ (mine /\ ~w.token)

Missed(w, over) ==
  [w EXCEPT !.status = IF over THEN "canceled" ELSE "provider_unknown",
            !.code = IF over THEN "missing" ELSE "none", !.recon = ~over,
            !.token = FALSE, !.lease = FALSE,
            !.misses = IF @ < MinMisses THEN @ + 1 ELSE @]

Miss(r) ==
  LET c == call[r].on IN
  /\ call[r].at = "miss"
  /\ IF MissKeeps(row[c], call[r].mine)
     THEN /\ UNCHANGED row
          /\ IF call[r].mine THEN Returns(r) ELSE Continues(r, row[c].status)
     ELSE /\ \E over \in BOOLEAN :
               /\ over => row[c].attempted /\ row[c].misses + 1 >= MinMisses
               /\ row' = [row EXCEPT ![c] = Missed(@, over)]
          /\ Returns(r)
  /\ Notes
  /\ UNCHANGED <<basket, refund, access, job, commands, provider, referred, posted>>

\* The request's process ends, or the provider cannot be looked up.
Drop(r) ==
  /\ call[r].at # "idle"
  /\ Returns(r)
  /\ UNCHANGED <<basket, local, job, commands, provider, referred, history>>
-----------------------------------------------------------------------------
(* Settlement: w is the checkout's row as the transaction has it.          *)

Completes(c, w) ==
  /\ row' = [row EXCEPT ![c] = [w EXCEPT !.status = "completed", !.paid = TRUE,
                                         !.code = "none", !.recon = FALSE]]
  /\ UNCHANGED refund

\* checkoutSettlementReconciliationData: an operator must look.
Reconciles(c, w) ==
  /\ row' = [row EXCEPT ![c] = [w EXCEPT !.status = "provider_unknown", !.paid = TRUE,
                                         !.code = "none", !.recon = TRUE]]
  /\ refund' = [refund EXCEPT ![c] = NoRefund]

\* The invoice was applied before.
Replays(c, w) ==
  /\ sub[c] # "none"
  /\ entitled' = IF sub[c] = "active" THEN c ELSE entitled
  /\ Completes(c, w)
  /\ UNCHANGED <<sub, ended, ledger>>

\* A later purchase is what gives access: this one makes it last longer.
Extends(c, w) ==
  /\ sub' = [AfterExpiry EXCEPT ![c] = "checkout_completed"]
  /\ entitled' = StillEntitled
  /\ Completes(c, w)

\* Mutant of Supersedes: the access it replaces goes on.
SupersedesNothing(c, w) ==
  /\ sub' = [AfterExpiry EXCEPT ![c] = "active"]
  /\ entitled' = c
  /\ Completes(c, w)

\* This purchase is the access now.
Supersedes(c, w) ==
  /\ sub' = [d \in Checkouts |-> IF d = c THEN "active"
                                 ELSE IF d \in Live THEN "canceled" ELSE AfterExpiry[d]]
  /\ entitled' = c
  /\ Completes(c, w)

\* activateSubscriptionInTx and what its caller makes of the result.
Activates(c, w) ==
  LET newer == {d \in Live : d > c} IN
  \/ /\ PendingRefund
     /\ Reconciles(c, w) /\ UNCHANGED access
  \/ /\ ~PendingRefund /\ ~Competes(c)
     /\ Replays(c, w)
  \/ /\ ~PendingRefund /\ ~Competes(c) /\ sub[c] = "none"
     /\ (\E d \in Live : row[d].status # "completed") \/ (newer # {} /\ ~Convertible)
     /\ sub' = AfterExpiry /\ entitled' = StillEntitled
     /\ Reconciles(c, w) /\ UNCHANGED <<ended, ledger>>
  \/ /\ ~PendingRefund /\ ~Competes(c) /\ sub[c] = "none"
     /\ \A d \in Live : row[d].status = "completed"
     /\ \/ newer # {} /\ Convertible /\ Extends(c, w)
        \/ newer = {} /\ Supersedes(c, w)
     /\ ledger' = ledger \cup {Grant(c)}
     /\ UNCHANGED ended

\* settleCoinPurchaseInTx.
SettlesCoins(c, w) ==
  /\ Completes(c, w)
  /\ ledger' = ledger \cup {Grant(c)}
  /\ UNCHANGED <<sub, ended, entitled>>

\* completeCheckoutIntent, after the request was told of a settlement.
Complete(r) ==
  LET c == call[r].on IN
  /\ call[r].at = "complete" /\ row[c].status # "completed"
  /\ IF IsPlan(c) THEN Activates(c, row[c])
     ELSE row[c].paid /\ ~row[c].recon /\ SettlesCoins(c, row[c])
  /\ Returns(r)
  /\ UNCHANGED <<basket, job, commands, provider, referred, history>>

\* The webhook binds the invoice it has verified.
BoundBySettlement(w) ==
  IF w.bound THEN w
  ELSE [w EXCEPT !.bound = TRUE, !.paid = TRUE, !.status = "provider_settled",
                 !.code = "none", !.recon = FALSE, !.misses = 0]

\* The event is done with: its checkout is paid for, or before an operator.
Processes(c) == referred' = IF Grant(c) \in ledger' THEN referred ELSE referred \cup {c}

Quarantined(w) == GivenUp(w) \/ w.code \in {"late", "acknowledged"}

\* billingWebhook, invoice.confirmed.
Webhook(c) ==
  LET w == BoundBySettlement(row[c]) IN
  /\ invoice[c] = "settled"
  /\ \/ /\ Quarantined(row[c]) \/ row[c].status = "completed"
        /\ row' = [row EXCEPT ![c] = IF GivenUp(@) /\ @.code # "acknowledged" THEN LateSettled(@) ELSE @]
        /\ UNCHANGED <<refund, access>>
        /\ Processes(c)
     \/ /\ ~Quarantined(row[c]) /\ row[c].status # "completed" /\ ~IsPlan(c)
        /\ SettlesCoins(c, w)
        /\ Processes(c)
     \/ /\ ~Quarantined(row[c]) /\ row[c].status # "completed" /\ IsPlan(c)
        /\ Activates(c, w)
        /\ Processes(c)
     \* Deferred: the provider delivers the event again.
     \/ /\ ~Quarantined(row[c]) /\ ~row[c].bound /\ IsPlan(c) /\ ~PendingRefund /\ Competes(c)
        /\ row' = [row EXCEPT ![c] = w]
        /\ UNCHANGED <<refund, access, referred>>
  /\ UNCHANGED <<basket, call, job, commands, provider, history>>

\* An operator has returned the money of a late settlement.
Acknowledge(c) ==
  /\ row[c].code = "late" /\ row[c].status = "provider_unknown" /\ row[c].recon
  /\ row' = [row EXCEPT ![c].status = "canceled", ![c].code = "acknowledged", ![c].recon = FALSE]
  /\ UNCHANGED <<basket, refund, access, call, job, commands, provider, referred, history>>
-----------------------------------------------------------------------------
(* Refunds.  One command of a subscription is at work at a time.           *)

Terminal(e) == e.state \in {"completed", "canceled"}

\* prepareRefund.
PrepareRefund(c) ==
  /\ job.at = "idle" /\ commands < MaxRefunds
  /\ sub[c] = "active" /\ row[c].status = "completed" /\ row[c].paid /\ row[c].bound
  /\ refund[c].state \in {"none", "canceled"}
  /\ Grant(c) \in ledger
  /\ commands' = commands + 1
  /\ ledger' = ledger \cup {Key("reversal", c, commands + 1)}
  /\ refund' = [refund EXCEPT ![c] = [cmd |-> commands + 1, state |-> "provider_dispatching", known |-> FALSE]]
  /\ sub' = [sub EXCEPT ![c] = "refund_pending"]
  /\ entitled' = 0
  /\ row' = [row EXCEPT ![c].status = "refund_pending", ![c].code = "none", ![c].recon = TRUE]
  /\ job' = [NoJob EXCEPT !.at = "find", !.on = c, !.cmd = commands + 1, !.may = TRUE]
  /\ UNCHANGED <<basket, ended, call, provider, referred, history>>

\* failRefundCommand.
Fails(c, k) ==
  /\ IF refund[c].cmd = k /\ ~Terminal(refund[c])
     THEN /\ row' = [row EXCEPT ![c].status = "provider_unknown", ![c].code = "none", ![c].recon = TRUE]
          /\ refund' = [refund EXCEPT ![c].state = "provider_unknown"]
     ELSE UNCHANGED <<row, refund>>
  /\ job' = NoJob
  /\ UNCHANGED access

\* reconcileSubscriptionRefund: looks the refund up, and never asks for one.
ReconcileRefund(c) ==
  LET k == refund[c].cmd IN
  /\ job.at = "idle" /\ k # 0 /\ ~Terminal(refund[c])
  /\ \/ /\ payback[k] # "none"
        /\ job' = [at |-> "save", on |-> c, cmd |-> k, seen |-> payback[k], may |-> FALSE]
        /\ UNCHANGED local
     \/ Fails(c, k)
  /\ UNCHANGED <<basket, call, commands, provider, referred, history>>

FindRefund ==
  /\ job.at = "find" /\ payback[job.cmd] # "none"
  /\ job' = [job EXCEPT !.at = "save", !.seen = payback[job.cmd]]
  /\ UNCHANGED <<basket, local, call, commands, provider, referred, history>>

\* The command finds no refund and asks for one.
PostRefund ==
  /\ job.at = "find" /\ payback[job.cmd] = "none"
  /\ coming' = coming \cup {job.cmd}
  /\ job' = [job EXCEPT !.at = "posted"]
  /\ UNCHANGED <<basket, local, call, commands, invoice, flying, payback, referred, history>>

RefundAnswered ==
  /\ job.at = "posted" /\ payback[job.cmd] # "none"
  /\ job' = [job EXCEPT !.at = "save", !.seen = "claimable"]
  /\ UNCHANGED <<basket, local, call, commands, provider, referred, history>>

\* The lookup or the POST failed.
RefundFails ==
  /\ job.at \in {"find", "posted"}
  /\ Fails(job.on, job.cmd)
  /\ UNCHANGED <<basket, call, commands, provider, referred, history>>

\* Mutant of Settled: an answer that is older reopens the refund.
NeverSettled(e) == FALSE

\* The first terminal evidence stands.
Settled(e) == Terminal(e)

\* projectSubscriptionRefundInTx, with what the provider said.
Projects(c, state) ==
  \/ /\ Settled(refund[c]) /\ UNCHANGED local
  \/ /\ ~Settled(refund[c]) /\ state = "canceled" /\ Live \ {c} = {}
     /\ refund' = [refund EXCEPT ![c].state = state, ![c].known = TRUE]
     /\ ledger' = ledger \cup {Key("restore", c, refund[c].cmd)}
     /\ sub' = [sub EXCEPT ![c] = IF c \in ended THEN "expired" ELSE "active"]
     /\ entitled' = IF c \in ended THEN entitled ELSE c
     /\ row' = [row EXCEPT ![c].status = "completed", ![c].code = "none", ![c].recon = FALSE]
     /\ UNCHANGED ended
  \/ /\ ~Settled(refund[c]) /\ state # "canceled"
     /\ refund' = [refund EXCEPT ![c].state = state, ![c].known = TRUE]
     /\ sub' = [sub EXCEPT ![c] = IF state = "completed" THEN "refunded" ELSE "refund_pending"]
     /\ row' = [row EXCEPT ![c].status = IF state = "completed" THEN "refunded" ELSE "refund_pending",
                           ![c].code = "none", ![c].recon = state # "completed"]
     /\ UNCHANGED <<ended, entitled, ledger>>

\* convergeProviderRefund.
SaveRefund ==
  LET c == job.on IN
  /\ job.at = "save" /\ refund[c].cmd = job.cmd
  /\ Projects(c, job.seen)
  /\ job' = NoJob
  /\ UNCHANGED <<basket, call, commands, provider, referred, history>>

\* The command fails for good: its authority is gone, or its process.
EndRefund ==
  /\ job.at # "idle"
  /\ job' = NoJob
  /\ UNCHANGED <<basket, local, call, commands, provider, referred, history>>

\* The process stops; its lease lapses and the command is run again.
RestartRefund ==
  /\ job.at # "idle" /\ job.may
  /\ refund[job.on].cmd = job.cmd
  /\ job' = [job EXCEPT !.at = "find", !.seen = "none"]
  /\ UNCHANGED <<basket, local, call, commands, provider, referred, history>>

\* convergeRefundWebhook: the answer it looked up may be an old one.
RefundWebhook(c) ==
  /\ refund[c].known /\ payback[refund[c].cmd] # "none"
  /\ row[c].status \in {"refund_pending", "provider_unknown"} /\ row[c].recon
  /\ \E seen \in {"claimable", payback[refund[c].cmd]} : Projects(c, seen)
  /\ UNCHANGED <<basket, call, job, commands, provider, referred, history>>
-----------------------------------------------------------------------------
(* The provider, and time.                                                 *)

PostLands(c) ==
  /\ c \in flying
  /\ flying' = flying \ {c}
  /\ invoice' = [invoice EXCEPT ![c] = IF @ = "none" THEN "new" ELSE @]
  /\ UNCHANGED <<basket, local, call, job, commands, payback, coming, referred, history>>

InvoiceMoves(c) ==
  /\ \/ invoice[c] = "new" /\ invoice' = [invoice EXCEPT ![c] = "settled"]
     \/ /\ invoice[c] = "new" /\ c \in Unlucky
        /\ invoice' \in {[invoice EXCEPT ![c] = s] : s \in {"expired", "invalid"}}
     \/ invoice[c] = "expired" /\ invoice' = [invoice EXCEPT ![c] = "paid_late"]
     \/ invoice[c] \in {"expired", "paid_late", "invalid"} /\ invoice' = [invoice EXCEPT ![c] = "settled"]
  /\ UNCHANGED <<basket, local, call, job, commands, flying, payback, coming, referred, history>>

RefundLands(k) ==
  /\ k \in coming
  /\ coming' = coming \ {k}
  /\ payback' = [payback EXCEPT ![k] = IF @ = "none" THEN "claimable" ELSE @]
  /\ UNCHANGED <<basket, local, call, job, commands, invoice, flying, referred, history>>

RefundMoves(k) ==
  /\ payback[k] = "claimable"
  /\ payback' \in {[payback EXCEPT ![k] = s] : s \in {"completed", "canceled"}}
  /\ UNCHANGED <<basket, local, call, job, commands, invoice, flying, coming, referred, history>>

LeaseEnds(c) ==
  /\ row[c].lease
  /\ row' = [row EXCEPT ![c].lease = FALSE]
  /\ UNCHANGED <<basket, refund, access, call, job, commands, provider, referred, history>>

PeriodEnds(c) ==
  /\ sub[c] \in {"active", "refund_pending"} /\ c \notin ended
  /\ ended' = ended \cup {c}
  /\ UNCHANGED <<basket, row, refund, sub, entitled, ledger, call, job, commands, provider, referred, history>>
-----------------------------------------------------------------------------
Calls(r) ==
  \/ \E c \in Checkouts : Create(r, c) \/ Call(r, c)
  \/ Waited(r) \/ Claim(r) \/ ClaimIsBusy(r)
  \/ Post(r) \/ PostAnswered(r) \/ Finds(r) \/ LookupFails(r)
  \/ Save(r) \/ Miss(r) \/ Complete(r) \/ Drop(r)

Operator ==
  \/ \E c \in Checkouts : PrepareRefund(c) \/ ReconcileRefund(c) \/ Acknowledge(c)
  \/ FindRefund \/ PostRefund \/ RefundAnswered \/ RefundFails
  \/ SaveRefund \/ EndRefund \/ RestartRefund

Environment ==
  \/ \E c \in Checkouts : PostLands(c) \/ InvoiceMoves(c) \/ LeaseEnds(c) \/ PeriodEnds(c)
  \/ \E k \in Commands : RefundLands(k) \/ RefundMoves(k)

Next == \/ \E r \in Requests : Calls(r)
        \/ \E c \in Checkouts : Webhook(c) \/ RefundWebhook(c)
        \/ Operator \/ Environment

Spec == Init /\ [][Next]_vars

\* The provider delivers an event until it is processed; leases lapse.  What
\* users, operators and invoices do is up to them.
Processed(c) == Grant(c) \in ledger \/ c \in referred

FairSpec ==
  /\ Spec
  /\ \A c \in Checkouts : WF_vars(~Processed(c) /\ Webhook(c)) /\ WF_vars(LeaseEnds(c))
-----------------------------------------------------------------------------
PurchaseTypeOK ==
  /\ basket \in Baskets
  /\ row \in [Checkouts -> [status : Statuses, bound : BOOLEAN, paid : BOOLEAN, token : BOOLEAN,
                            lease : BOOLEAN, attempted : BOOLEAN,
                            code : {"none", "missing", "late", "acknowledged"},
                            misses : 0..MinMisses, recon : BOOLEAN]]
  /\ refund \in [Checkouts -> [cmd : 0..MaxRefunds, state : RefundStates \cup {"none"}, known : BOOLEAN]]
  /\ sub \in [Checkouts -> {"none", "active", "checkout_completed", "canceled", "expired",
                            "refund_pending", "refunded"}]
  /\ ended \subseteq Checkouts /\ entitled \in 0..LastCheckout
  /\ ledger \subseteq {"grant", "reversal", "restore"} \X Checkouts \X (0..MaxRefunds)
  /\ call \in [Requests -> [on : 0..LastCheckout, mine : BOOLEAN, seen : Invoices,
       at : {"idle", "claim", "wait", "busy", "ask", "posted", "save", "miss", "complete"}]]
  /\ job \in [at : {"idle", "find", "posted", "save"}, on : 0..LastCheckout,
              cmd : 0..MaxRefunds, seen : {"none", "claimable", "completed", "canceled"}, may : BOOLEAN]
  /\ commands \in 0..MaxRefunds
  /\ invoice \in [Checkouts -> Invoices] /\ flying \subseteq Checkouts
  /\ payback \in [Commands -> {"none", "claimable", "completed", "canceled"}]
  /\ coming \subseteq Commands
  /\ posted \in [Checkouts -> Nat] /\ abandoned \subseteq Checkouts /\ referred \subseteq Checkouts

\* A checkout's invoice is asked for at most once, whatever requests with its
\* key crash, time out or compete (dispatchCheckoutInvoiceWithAccessExclusion:
\* "every retry ... can never issue a second POST").
InvoicePostedOnce == \A c \in Checkouts : posted[c] <= 1

\* Coins a purchase has brought by now.
Net(c) == Cardinality({e \in ledger : e[2] = c /\ e[1] # "reversal"})
            - Cardinality({e \in ledger : e[2] = c /\ e[1] = "reversal"})

\* A user has one access, its entitlements are what is in force, and the coins
\* of a purchase are there exactly while it is not being refunded, however
\* settlements, expiry, refunds and restorations follow one another.
AccessAndCoinsAgree ==
  /\ \A c \in Live : entitled = c
  /\ entitled # 0 => sub[entitled] = "active"
  /\ \A c \in Checkouts :
       /\ IsPlan(c) => (sub[c] # "none" <=> Grant(c) \in ledger)
       /\ Net(c) = IF Grant(c) \in ledger /\ sub[c] \notin {"refund_pending", "refunded"} THEN 1 ELSE 0

\* Money that arrives after a checkout was given up never grants anything: the
\* user has been told to start another (lateSettledCheckoutData).
AbandonedIsNotGranted == \A c \in abandoned : Grant(c) \notin ledger

\* A completed refund is final: no late answer of the provider, event or replay
\* gives the access back or reopens it (applyProviderRefundEvidence: "an older
\* response cannot reopen a settled refund").
RefundIsFinal ==
  [][\A c \in Checkouts :
       /\ sub[c] = "refunded" => sub'[c] = "refunded"
       /\ Terminal(refund[c]) /\ refund'[c].cmd = refund[c].cmd => refund'[c].state = refund[c].state]_vars

\* A settlement is not put off for ever: a dispatch that competes with it loses
\* its lease, whatever else is bought meanwhile (billingWebhook answers 503
\* "while another checkout may be at the provider" and waits for a redelivery).
SettlementIsProcessed == \A c \in Checkouts : invoice[c] = "settled" ~> Processed(c)
=============================================================================
