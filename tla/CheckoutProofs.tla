---------------------------- MODULE CheckoutProofs ----------------------------
(***************************************************************************)
(* Proofs about one user's purchases, for any number of checkouts, plans,  *)
(* requests, lookups and refund commands.                                  *)
(***************************************************************************)
EXTENDS Checkout, FiniteSetTheorems, TLAPS

(***************************************************************************)
(* What the parts of the state can be.                                     *)
(***************************************************************************)
CheckoutRows == [status : Statuses, bound : BOOLEAN, paid : BOOLEAN, token : BOOLEAN,
                 lease : BOOLEAN, attempted : BOOLEAN,
                 code : {"none", "missing", "late", "acknowledged"},
                 misses : 0..MinMisses, recon : BOOLEAN]

\* What is known of a refund, or over, belongs to a command.
RefundRows ==
  {e \in [cmd : 0..MaxRefunds, state : RefundStates \cup {"none"}, known : BOOLEAN] :
     e.known \/ Terminal(e) => e.cmd # 0}

\* A call that is not idle has a checkout in hand.
CallRows ==
  {k \in [on : 0..LastCheckout, mine : BOOLEAN, seen : Invoices,
          at : {"idle", "claim", "wait", "busy", "ask", "posted", "save", "miss", "complete"}] :
     k.at # "idle" => k.on \in Checkouts}

\* Refund work has a checkout and a command in hand, and saves an answer.
JobRows ==
  {j \in [at : {"idle", "find", "posted", "save"}, on : 0..LastCheckout, cmd : 0..MaxRefunds,
          seen : {"none", "claimable", "completed", "canceled"}, may : BOOLEAN] :
     /\ j.at # "idle" => j.on \in Checkouts /\ j.cmd \in Commands
     /\ j.at = "save" => j.seen # "none"}

SubStates == {"none", "active", "checkout_completed", "canceled", "expired",
              "refund_pending", "refunded"}
Keys == {"grant", "reversal", "restore"} \X Checkouts \X (0..MaxRefunds)

DeskTypes ==
  /\ row \in [Checkouts -> CheckoutRows]
  /\ call \in [Requests -> CallRows]
  /\ posted \in [Checkouts -> Nat] /\ abandoned \subseteq Checkouts

AccessTypes ==
  /\ basket \in Baskets
  /\ refund \in [Checkouts -> RefundRows]
  /\ sub \in [Checkouts -> SubStates]
  /\ ended \subseteq Checkouts /\ entitled \in 0..LastCheckout
  /\ ledger \subseteq Keys
  /\ commands \in 0..MaxRefunds

OutsideTypes ==
  /\ job \in JobRows
  /\ invoice \in [Checkouts -> Invoices] /\ flying \subseteq Checkouts
  /\ payback \in [Commands -> {"none", "claimable", "completed", "canceled"}]
  /\ coming \subseteq Commands
  /\ referred \subseteq Checkouts

TypeInv == DeskTypes /\ AccessTypes /\ OutsideTypes
-----------------------------------------------------------------------------
(***************************************************************************)
(* Access, coins and refunds.                                              *)
(***************************************************************************)
InForce == {"active", "refund_pending"}

\* A user has one subscription in force, and it is what the entitlements are of.
OneAccess ==
  /\ \A c, d \in Checkouts : sub[c] \in InForce /\ sub[d] \in InForce => c = d
  /\ \A c \in Checkouts : sub[c] = "active" => entitled = c
  /\ entitled # 0 => sub[entitled] = "active"

\* A plan's subscription and its coins are granted together.
GrantedTogether ==
  \A c \in Checkouts :
    /\ sub[c] # "none" => Grant(c) \in ledger
    /\ IsPlan(c) /\ Grant(c) \in ledger => sub[c] # "none"

\* A refund that is open holds its subscription, and was not restored.
RefundsHold ==
  /\ \A e \in ledger : e[3] <= commands
  /\ \A c \in Checkouts :
       /\ refund[c].cmd <= commands
       /\ refund[c].cmd # 0 /\ ~Terminal(refund[c]) =>
            sub[c] = "refund_pending" /\ Key("restore", c, refund[c].cmd) \notin ledger
       /\ sub[c] = "refunded" => Terminal(refund[c]) \/ refund[c].cmd = 0

CoinsOf(c) == IF Grant(c) \in ledger /\ sub[c] \notin {"refund_pending", "refunded"} THEN 1 ELSE 0

CoinsAgree == IsFiniteSet(ledger) /\ \A c \in Checkouts : Net(c) = CoinsOf(c)

AccessInv == OneAccess /\ GrantedTogether /\ RefundsHold /\ CoinsAgree
-----------------------------------------------------------------------------
(***************************************************************************)
(* The checkout's own row.                                                 *)
(***************************************************************************)

\* Bound to an invoice that was paid, and not given up.
Paying(w) == w.bound /\ w.paid /\ ~GivenUp(w) /\ w.code \notin {"late", "acknowledged"}

\* Given up, money that arrived later included.
Dead(w) == GivenUp(w) \/ (w.code = "late" /\ w.status = "provider_unknown")

\* The mark comes before the POST, and one request holds it.
PostOK ==
  /\ \A c \in Checkouts : posted[c] <= 1 /\ (posted[c] # 0 => row[c].attempted)
  /\ \A r \in Requests : call[r].at = "ask" => row[call[r].on].attempted /\ posted[call[r].on] = 0
  /\ \A r, q \in Requests : call[r].at = "ask" /\ call[q].at = "ask" /\ call[r].on = call[q].on => r = q

\* What settles or is settled was paid for; an acknowledged checkout is canceled.
PaidOK ==
  /\ \A c \in Checkouts :
       /\ row[c].status = "provider_settled" \/ Grant(c) \in ledger \/ refund[c].cmd # 0
            => Paying(row[c])
       /\ row[c].code = "acknowledged" => row[c].status = "canceled"
  /\ \A r \in Requests : call[r].at = "complete" => Paying(row[call[r].on])

GoneOK == \A c \in abandoned : Dead(row[c])

DeskInv == PostOK /\ PaidOK /\ GoneOK
-----------------------------------------------------------------------------
(* Access: how it can move *)

\* Lemmas about counting: a key that is new counts once, for its own checkout.
Paid(c, L) == {e \in L : e[2] = c /\ e[1] # "reversal"}
Taken(c, L) == {e \in L : e[2] = c /\ e[1] = "reversal"}

LEMMA Posting ==
  ASSUME NEW L, IsFiniteSet(L), NEW e, e \notin L, NEW c
  PROVE  /\ IsFiniteSet(L \cup {e})
         /\ Cardinality(Paid(c, L)) \in Nat /\ Cardinality(Taken(c, L)) \in Nat
         /\ Cardinality(Paid(c, L \cup {e})) =
              Cardinality(Paid(c, L)) + (IF e[2] = c /\ e[1] # "reversal" THEN 1 ELSE 0)
         /\ Cardinality(Taken(c, L \cup {e})) =
              Cardinality(Taken(c, L)) + (IF e[2] = c /\ e[1] = "reversal" THEN 1 ELSE 0)
<1>1. IsFiniteSet(Paid(c, L)) /\ IsFiniteSet(Taken(c, L))
  <2>1. Paid(c, L) \in SUBSET L /\ Taken(c, L) \in SUBSET L
    BY DEF Paid, Taken
  <2> QED BY <2>1, FS_Subset
<1>2. Cardinality(Paid(c, L)) \in Nat /\ Cardinality(Taken(c, L)) \in Nat
  BY <1>1, FS_CardinalityType
<1>3. e \notin Paid(c, L) /\ e \notin Taken(c, L)
  BY DEF Paid, Taken
<1>4. Paid(c, L \cup {e}) = IF e[2] = c /\ e[1] # "reversal" THEN Paid(c, L) \cup {e} ELSE Paid(c, L)
  BY DEF Paid
<1>5. Taken(c, L \cup {e}) = IF e[2] = c /\ e[1] = "reversal" THEN Taken(c, L) \cup {e} ELSE Taken(c, L)
  BY DEF Taken
<1>6. /\ Cardinality(Paid(c, L) \cup {e}) = Cardinality(Paid(c, L)) + 1
      /\ Cardinality(Taken(c, L) \cup {e}) = Cardinality(Taken(c, L)) + 1
  BY <1>1, <1>3, FS_AddElement
<1>7. IsFiniteSet(L \cup {e})
  BY FS_AddElement
<1> QED BY <1>2, <1>4, <1>5, <1>6, <1>7

LEMMA NetIs == \A c : Net(c) = Cardinality(Paid(c, ledger)) - Cardinality(Taken(c, ledger))
  BY DEF Net, Paid, Taken

\* The coins of every checkout after one new key.
LEMMA NetMoves ==
  ASSUME IsFiniteSet(ledger), NEW e, e \notin ledger, ledger' = ledger \cup {e}, NEW c
  PROVE  /\ IsFiniteSet(ledger')
         /\ Net(c) \in Int
         /\ Net(c)' = IF e[2] # c THEN Net(c) ELSE IF e[1] = "reversal" THEN Net(c) - 1 ELSE Net(c) + 1
<1>1. /\ Net(c) = Cardinality(Paid(c, ledger)) - Cardinality(Taken(c, ledger))
      /\ Net(c)' = Cardinality(Paid(c, ledger \cup {e})) - Cardinality(Taken(c, ledger \cup {e}))
  BY DEF Net, Paid, Taken
<1>2. /\ Cardinality(Paid(c, ledger)) \in Nat /\ Cardinality(Taken(c, ledger)) \in Nat
      /\ Cardinality(Paid(c, ledger \cup {e})) =
           Cardinality(Paid(c, ledger)) + (IF e[2] = c /\ e[1] # "reversal" THEN 1 ELSE 0)
      /\ Cardinality(Taken(c, ledger \cup {e})) =
           Cardinality(Taken(c, ledger)) + (IF e[2] = c /\ e[1] = "reversal" THEN 1 ELSE 0)
      /\ IsFiniteSet(ledger')
  BY Posting
<1> QED BY <1>1, <1>2
-----------------------------------------------------------------------------
\* Keys that are not posted yet.
LEMMA KeyParts ==
  ASSUME NEW kind, NEW c, NEW k
  PROVE  Key(kind, c, k)[1] = kind /\ Key(kind, c, k)[2] = c /\ Key(kind, c, k)[3] = k
  BY DEF Key

\* No coins move.
LEMMA SameCoins ==
  ASSUME CoinsAgree, ledger' = ledger,
         \A c \in Checkouts : sub'[c] \in {"refund_pending", "refunded"}
                                <=> sub[c] \in {"refund_pending", "refunded"}
  PROVE  CoinsAgree'
<1>1. \A c \in Checkouts : Net(c)' = Net(c) /\ CoinsOf(c)' = CoinsOf(c)
  BY DEF Net, CoinsOf, Grant, Key
<1> QED BY <1>1 DEF CoinsAgree

AccessVars == <<basket, refund, sub, ended, entitled, ledger, commands>>

LEMMA AccessKept ==
  ASSUME AccessTypes, AccessInv, UNCHANGED <<basket, refund, sub, entitled, ledger, commands>>,
         ended' \subseteq Checkouts
  PROVE  AccessTypes' /\ AccessInv'
<1>1. CoinsAgree'
  BY SameCoins DEF AccessInv
<1>2. AccessTypes'
  BY DEF AccessTypes
<1> QED BY <1>1, <1>2 DEF AccessInv, OneAccess, GrantedTogether, RefundsHold, IsPlan

\* What has ended is noticed.
LEMMA ExpiryTypes ==
  ASSUME AccessTypes
  PROVE  AfterExpiry \in [Checkouts -> SubStates] /\ StillEntitled \in 0..LastCheckout
  BY CheckoutAssumption DEF CheckoutAssumption, AccessTypes, AfterExpiry, SubStates, StillEntitled

LEMMA Expiry ==
  ASSUME AccessTypes, AccessInv, sub' = AfterExpiry, entitled' = StillEntitled,
         UNCHANGED <<basket, refund, ended, ledger, commands>>
  PROVE  AccessTypes' /\ AccessInv'
<1>0. \A c \in Checkouts : sub'[c] = IF c \in Lapsed THEN "expired" ELSE sub[c]
  BY DEF AfterExpiry
<1>1. AccessTypes'
  BY ExpiryTypes DEF AccessTypes
<1>2. OneAccess'
  BY <1>0 DEF AccessInv, OneAccess, AccessTypes, StillEntitled, Lapsed, InForce, Checkouts
<1>3. GrantedTogether'
  BY <1>0 DEF AccessInv, GrantedTogether, Lapsed, Grant, Key, IsPlan
<1>4. RefundsHold'
  BY <1>0 DEF AccessInv, RefundsHold, Lapsed
<1>5. CoinsAgree'
  BY <1>0, SameCoins DEF AccessInv, Lapsed
<1> QED BY <1>1, <1>2, <1>3, <1>4, <1>5 DEF AccessInv

\* An operator must look: the refund that was noted is forgotten.
LEMMA NoRefundTypes == NoRefund \in [cmd : 0..MaxRefunds, state : RefundStates \cup {"none"}, known : BOOLEAN]
                       /\ NoRefund \in RefundRows /\ NoRefund.cmd = 0
  BY CheckoutAssumption DEF CheckoutAssumption, NoRefund, RefundRows, RefundStates, Terminal

LEMMA Forgetting ==
  ASSUME AccessTypes, AccessInv, NEW c \in Checkouts, refund' = [refund EXCEPT ![c] = NoRefund],
         UNCHANGED <<basket, sub, ended, entitled, ledger, commands>>
  PROVE  AccessTypes' /\ AccessInv'
<1>0. \A d \in Checkouts : refund'[d] = IF d = c THEN NoRefund ELSE refund[d]
  BY DEF AccessTypes
<1>1. AccessTypes'
  BY NoRefundTypes DEF AccessTypes
<1>2. RefundsHold'
  BY <1>0, NoRefundTypes, CheckoutAssumption DEF AccessInv, RefundsHold, AccessTypes, CheckoutAssumption
<1>3. CoinsAgree'
  BY SameCoins DEF AccessInv
<1> QED BY <1>1, <1>2, <1>3 DEF AccessInv, OneAccess, GrantedTogether, IsPlan, Grant, Key

\* What has ended is noticed, and an operator must look.
LEMMA ExpiryForgetting ==
  ASSUME AccessTypes, AccessInv, NEW c \in Checkouts, sub' = AfterExpiry, entitled' = StillEntitled,
         refund' = [refund EXCEPT ![c] = NoRefund], UNCHANGED <<basket, ended, ledger, commands>>
  PROVE  AccessTypes' /\ AccessInv'
<1>0. /\ \A d \in Checkouts : refund'[d] = IF d = c THEN NoRefund ELSE refund[d]
      /\ \A d \in Checkouts : sub'[d] = IF d \in Lapsed THEN "expired" ELSE sub[d]
  BY DEF AccessTypes, AfterExpiry
<1>1. AccessTypes'
  BY NoRefundTypes, ExpiryTypes DEF AccessTypes
<1>2. OneAccess'
  BY <1>0 DEF AccessInv, OneAccess, AccessTypes, StillEntitled, Lapsed, InForce, Checkouts
<1>3. GrantedTogether'
  BY <1>0 DEF AccessInv, GrantedTogether, Lapsed, Grant, Key, IsPlan
<1>4. RefundsHold'
  BY <1>0, NoRefundTypes, CheckoutAssumption
  DEF AccessInv, RefundsHold, Lapsed, AccessTypes, CheckoutAssumption
<1>5. CoinsAgree'
  BY <1>0, SameCoins DEF AccessInv, Lapsed
<1> QED BY <1>1, <1>2, <1>3, <1>4, <1>5 DEF AccessInv

\* A grant that is new brings its coins.
LEMMA GrantCoins ==
  ASSUME AccessTypes, CoinsAgree, NEW c \in Checkouts, Grant(c) \notin ledger,
         ledger' = ledger \cup {Grant(c)}, sub'[c] \notin {"refund_pending", "refunded"},
         \A d \in Checkouts : d # c => (sub'[d] \in {"refund_pending", "refunded"}
                                          <=> sub[d] \in {"refund_pending", "refunded"})
  PROVE  CoinsAgree'
<1>1. Grant(c)[1] = "grant" /\ Grant(c)[2] = c
  BY KeyParts DEF Grant
<1>2. IsFiniteSet(ledger') /\ \A d : Net(d) \in Int /\ Net(d)' = IF d # c THEN Net(d) ELSE Net(d) + 1
  <2>1. \A d : /\ IsFiniteSet(ledger') /\ Net(d) \in Int
               /\ Net(d)' = IF Grant(c)[2] # d THEN Net(d)
                            ELSE IF Grant(c)[1] = "reversal" THEN Net(d) - 1 ELSE Net(d) + 1
    BY NetMoves DEF CoinsAgree
  <2> QED BY <1>1, <2>1
<1>3. \A d \in Checkouts : d # c => CoinsOf(d)' = CoinsOf(d)
  BY DEF CoinsOf, Grant, Key
<1>4. CoinsOf(c) = 0 /\ CoinsOf(c)' = 1
  BY DEF CoinsOf, Grant, Key
<1> QED BY <1>2, <1>3, <1>4 DEF CoinsAgree

LEMMA GrantIsKey == \A c \in Checkouts : Grant(c) \in Keys /\ Grant(c)[3] = 0
  BY CheckoutAssumption DEF CheckoutAssumption, Grant, Key, Keys

\* A plan's settlement.
LEMMA Activation ==
  ASSUME AccessTypes, AccessInv, NEW c \in Checkouts, NEW w, IsPlan(c), Activates(c, w),
         UNCHANGED <<basket, commands>>
  PROVE  AccessTypes' /\ AccessInv'
<1>1. CASE Reconciles(c, w) /\ UNCHANGED access
  BY <1>1, Forgetting DEF Reconciles, access
<1>2. CASE Replays(c, w)
  <2>1. entitled' = entitled
    BY <1>2 DEF Replays, AccessInv, OneAccess
  <2> QED BY <1>2, <2>1, AccessKept DEF Replays, Completes, AccessTypes
<1>3. CASE sub' = AfterExpiry /\ entitled' = StillEntitled /\ Reconciles(c, w) /\ UNCHANGED <<ended, ledger>>
  BY <1>3, ExpiryForgetting DEF Reconciles
<1>4. CASE /\ ~PendingRefund /\ sub[c] = "none"
           /\ Extends(c, w) \/ Supersedes(c, w)
           /\ ledger' = ledger \cup {Grant(c)} /\ UNCHANGED ended
  <2>1. UNCHANGED refund
    BY <1>4 DEF Extends, Supersedes, Completes
  <2>2. Grant(c) \notin ledger
    BY <1>4 DEF AccessInv, GrantedTogether
  <2>3. /\ sub'[c] \in {"active", "checkout_completed"} /\ sub' \in [Checkouts -> SubStates]
        /\ \A d \in Checkouts : d # c =>
             /\ sub'[d] = "active" => sub[d] = "active" /\ d \notin Lapsed
             /\ sub[d] = "none" <=> sub'[d] = "none"
             /\ sub'[d] = sub[d] \/ (sub[d] = "active" /\ sub'[d] \in {"expired", "canceled"})
    <3>1. CASE Extends(c, w)
      BY <3>1, ExpiryTypes DEF Extends, AfterExpiry, Lapsed, SubStates
    <3>2. CASE Supersedes(c, w)
      BY <3>2, ExpiryTypes DEF Supersedes, AfterExpiry, Lapsed, SubStates, Live
    <3> QED BY <1>4, <3>1, <3>2
  <2>4. AccessTypes'
    BY <1>4, <2>1, <2>3, GrantIsKey, ExpiryTypes, CheckoutAssumption
    DEF AccessTypes, Extends, Supersedes, Checkouts, CheckoutAssumption
  <2>5. OneAccess'
    <3>1. \A d \in Checkouts : sub[d] # "refund_pending"
      BY <1>4 DEF PendingRefund
    <3>2. CASE Extends(c, w)
      <4>1. /\ sub'[c] = "checkout_completed" /\ entitled' = StillEntitled
            /\ \A d \in Checkouts : d # c => sub'[d] = IF d \in Lapsed THEN "expired" ELSE sub[d]
        BY <3>2 DEF Extends, AfterExpiry
      <4> QED BY <1>4, <3>1, <4>1, <2>3
          DEF AccessInv, OneAccess, AccessTypes, StillEntitled, Lapsed, InForce, Checkouts
    <3>3. CASE Supersedes(c, w)
      <4>1. /\ sub'[c] = "active" /\ entitled' = c
            /\ \A d \in Checkouts : d # c => sub'[d] # "active"
        BY <3>3, <2>3 DEF Supersedes, AfterExpiry, Lapsed, Live
      <4> QED BY <3>1, <4>1, <2>3 DEF OneAccess, InForce
    <3> QED BY <1>4, <3>2, <3>3
  <2>6. GrantedTogether'
    <3>1. \A d \in Checkouts : d # c => Grant(d) # Grant(c)
      BY DEF Grant, Key
    <3> QED BY <1>4, <2>3, <3>1 DEF AccessInv, GrantedTogether, IsPlan, Grant, Key
  <2>7. RefundsHold'
    <3>1. Grant(c)[3] = 0
      BY GrantIsKey
    <3>2. \A d \in Checkouts : \A k : Key("restore", d, k) # Grant(c)
      BY DEF Grant, Key
    <3>3. \A d \in Checkouts : sub'[d] = "refunded" => sub[d] = "refunded"
      BY <2>3
    <3>4. \A d \in Checkouts : sub[d] # "refund_pending"
      BY <1>4 DEF PendingRefund
    <3>5. commands \in Nat
      BY CheckoutAssumption DEF AccessTypes, CheckoutAssumption
    <3>6. \A e \in ledger' : e[3] <= commands
      BY <1>4, <3>1, <3>5 DEF AccessInv, RefundsHold
    <3> QED BY <2>1, <3>3, <3>4, <3>6 DEF AccessInv, RefundsHold
  <2>8. CoinsAgree'
    <3>1. /\ sub'[c] \notin {"refund_pending", "refunded"}
          /\ \A d \in Checkouts : d # c => (sub'[d] \in {"refund_pending", "refunded"}
                                              <=> sub[d] \in {"refund_pending", "refunded"})
      BY <2>3
    <3> QED BY <1>4, <2>2, <3>1, GrantCoins DEF AccessInv
  <2> QED BY <2>4, <2>5, <2>6, <2>7, <2>8 DEF AccessInv
<1> QED BY <1>1, <1>2, <1>3, <1>4 DEF Activates

\* A coin purchase, settled once or again.
LEMMA CoinPurchase ==
  ASSUME AccessTypes, AccessInv, NEW c \in Checkouts, NEW w, ~IsPlan(c), SettlesCoins(c, w),
         UNCHANGED <<basket, commands>>
  PROVE  AccessTypes' /\ AccessInv'
<1>1. UNCHANGED <<refund, sub, ended, entitled>> /\ ledger' = ledger \cup {Grant(c)}
  BY DEF SettlesCoins, Completes
<1>2. CASE Grant(c) \in ledger
  <2>1. ledger' = ledger
    BY <1>1, <1>2
  <2> QED BY <1>1, <2>1, AccessKept DEF AccessTypes
<1>3. CASE Grant(c) \notin ledger
  <2>1. sub[c] = "none"
    BY <1>3 DEF AccessInv, GrantedTogether
  <2>2. AccessTypes'
    BY <1>1, GrantIsKey DEF AccessTypes
  <2>3. GrantedTogether'
    <3>1. \A d \in Checkouts : d # c => Grant(d) # Grant(c)
      BY DEF Grant, Key
    <3> QED BY <1>1, <3>1 DEF AccessInv, GrantedTogether, IsPlan, Grant, Key
  <2>4. RefundsHold'
    <3>1. Grant(c)[3] = 0
      BY GrantIsKey
    <3>2. \A d \in Checkouts : \A k : Key("restore", d, k) # Grant(c)
      BY DEF Grant, Key
    <3>3. commands \in Nat
      BY CheckoutAssumption DEF AccessTypes, CheckoutAssumption
    <3>4. \A e \in ledger' : e[3] <= commands
      BY <1>1, <3>1, <3>3 DEF AccessInv, RefundsHold
    <3>5. \A d \in Checkouts : \A k : Key("restore", d, k) \in ledger' => Key("restore", d, k) \in ledger
      BY <1>1, <3>2
    <3> QED BY <1>1, <3>4, <3>5 DEF AccessInv, RefundsHold, Key
  <2>5. CoinsAgree'
    BY <1>1, <1>3, <2>1, GrantCoins DEF AccessInv
  <2> QED BY <1>1, <2>2, <2>3, <2>4, <2>5 DEF AccessInv, OneAccess
<1> QED BY <1>2, <1>3
-----------------------------------------------------------------------------
(* Refunds *)

LEMMA CommandTypes ==
  ASSUME AccessTypes
  PROVE  /\ commands \in Nat /\ MaxRefunds \in Nat
         /\ \A c \in Checkouts : refund[c] \in RefundRows /\ refund[c].cmd \in Nat
  BY CheckoutAssumption DEF AccessTypes, CheckoutAssumption, RefundRows

\* What a new refund command writes.
PreparedRefund(k) == [cmd |-> k, state |-> "provider_dispatching", known |-> FALSE]

LEMMA PreparedTypes ==
  ASSUME NEW k \in Commands
  PROVE  /\ PreparedRefund(k) \in RefundRows /\ PreparedRefund(k).cmd = k
         /\ ~Terminal(PreparedRefund(k))
  BY CheckoutAssumption
  DEF CheckoutAssumption, Commands, PreparedRefund, RefundRows, RefundStates, Terminal

LEMMA Preparation ==
  ASSUME AccessTypes, AccessInv, NEW c \in Checkouts, PrepareRefund(c)
  PROVE  AccessTypes' /\ AccessInv' /\ commands + 1 \in Commands
<1> DEFINE k == commands + 1
           e == Key("reversal", c, k)
<1>1. k \in Commands /\ k \in 0..MaxRefunds /\ ~(k <= commands)
  BY CommandTypes DEF PrepareRefund, AccessTypes, Commands
<1>2. /\ \A d \in Checkouts : refund'[d] = IF d = c THEN PreparedRefund(k) ELSE refund[d]
      /\ \A d \in Checkouts : sub'[d] = IF d = c THEN "refund_pending" ELSE sub[d]
      /\ sub[c] = "active" /\ Grant(c) \in ledger
      /\ entitled' = 0 /\ commands' = k /\ ledger' = ledger \cup {e}
      /\ UNCHANGED <<basket, ended>>
  BY DEF PrepareRefund, AccessTypes, PreparedRefund
<1>3. /\ e[1] = "reversal" /\ e[2] = c /\ e[3] = k /\ e \in Keys
      /\ \A d \in Checkouts : e # Grant(d)
      /\ \A d \in Checkouts : \A j : e # Key("restore", d, j)
  BY <1>1 DEF Key, Grant, Keys
<1>4. e \notin ledger
  BY <1>1, <1>3 DEF AccessInv, RefundsHold
<1>5. AccessTypes'
  <2>1. refund' \in [Checkouts -> RefundRows]
    BY <1>1, PreparedTypes DEF AccessTypes, PrepareRefund, PreparedRefund
  <2>2. sub' \in [Checkouts -> SubStates]
    BY DEF AccessTypes, PrepareRefund, SubStates
  <2> QED BY <1>1, <1>2, <1>3, <2>1, <2>2, CheckoutAssumption DEF AccessTypes, CheckoutAssumption
<1>6. OneAccess'
  BY <1>2 DEF AccessInv, OneAccess, InForce
<1>7. GrantedTogether'
  BY <1>2, <1>3 DEF AccessInv, GrantedTogether, IsPlan, Grant, Key
<1>8. RefundsHold'
  <2>1. \A x \in ledger' : x[3] <= commands'
    <3>1. \A x \in ledger : x[3] \in Nat
      BY CommandTypes DEF AccessTypes, Keys
    <3> QED BY <1>1, <1>2, <1>3, <3>1, CommandTypes DEF AccessInv, RefundsHold
  <2>2. \A d \in Checkouts : refund'[d].cmd <= commands'
    BY <1>1, <1>2, PreparedTypes, CommandTypes DEF AccessInv, RefundsHold
  <2>3. Key("restore", c, k) \notin ledger'
    BY <1>1, <1>2, <1>3, KeyParts DEF AccessInv, RefundsHold
  <2>4. \A d \in Checkouts : d # c => \A j : Key("restore", d, j) \in ledger' => Key("restore", d, j) \in ledger
    BY <1>2, <1>3
  <2>5. \A d \in Checkouts : d # c => sub[d] # "refund_pending"
    BY <1>2 DEF AccessInv, OneAccess, InForce
  <2> QED BY <1>1, <1>2, <2>1, <2>2, <2>3, <2>5, PreparedTypes DEF AccessInv, RefundsHold
<1>9. CoinsAgree'
  <2>1. \A d \in Checkouts : /\ IsFiniteSet(ledger') /\ Net(d) \in Int
                             /\ Net(d)' = IF e[2] # d THEN Net(d)
                                          ELSE IF e[1] = "reversal" THEN Net(d) - 1 ELSE Net(d) + 1
    BY <1>2, <1>4, NetMoves DEF AccessInv, CoinsAgree
  <2>2. IsFiniteSet(ledger')
    BY <1>2, FS_AddElement DEF AccessInv, CoinsAgree
  <2>3. \A d \in Checkouts : d # c => CoinsOf(d)' = CoinsOf(d)
    BY <1>2, <1>3 DEF CoinsOf, Grant, Key
  <2>4. CoinsOf(c) = 1 /\ CoinsOf(c)' = 0
    BY <1>2 DEF CoinsOf
  <2> QED BY <1>3, <2>1, <2>2, <2>3, <2>4 DEF AccessInv, CoinsAgree
<1> QED BY <1>1, <1>5, <1>6, <1>7, <1>8, <1>9 DEF AccessInv

\* A refund that failed, or whose state at the provider is known, stays its command's.
LEMMA Restated ==
  ASSUME AccessTypes, NEW c \in Checkouts, refund[c].cmd # 0, NEW s \in RefundStates, NEW b \in BOOLEAN
  PROVE  [refund[c] EXCEPT !.state = s, !.known = b] \in RefundRows
<1>1. refund[c] \in [cmd : 0..MaxRefunds, state : RefundStates \cup {"none"}, known : BOOLEAN]
  BY CommandTypes DEF RefundRows
<1> QED BY <1>1 DEF RefundRows

LEMMA Failing ==
  ASSUME AccessTypes, AccessInv, NEW c \in Checkouts, NEW k \in Commands, Fails(c, k),
         UNCHANGED <<basket, commands>>
  PROVE  AccessTypes' /\ AccessInv'
<1>0. UNCHANGED <<basket, sub, ended, entitled, ledger, commands>> /\ k # 0
  BY DEF Fails, access, Commands
<1>1. CASE ~(refund[c].cmd = k /\ ~Terminal(refund[c]))
  BY <1>0, <1>1, AccessKept DEF Fails, AccessTypes
<1>2. CASE refund[c].cmd = k /\ ~Terminal(refund[c])
  <2>1. refund[c] \in [cmd : 0..MaxRefunds, state : RefundStates \cup {"none"}, known : BOOLEAN]
    BY CommandTypes DEF RefundRows
  <2>2. refund' = [refund EXCEPT ![c] = [refund[c] EXCEPT !.state = "provider_unknown"]]
    BY <1>2 DEF Fails, AccessTypes
  <2>3. [refund[c] EXCEPT !.state = "provider_unknown"] \in RefundRows
    BY <1>0, <1>2, <2>1 DEF RefundRows, RefundStates
  <2>4. \A d \in Checkouts : refund'[d] = IF d = c THEN [refund[c] EXCEPT !.state = "provider_unknown"] ELSE refund[d]
    BY <2>2 DEF AccessTypes
  <2>5. AccessTypes'
    BY <1>0, <2>2, <2>3 DEF AccessTypes
  <2>6. refund'[c].cmd = refund[c].cmd
    BY <2>1, <2>4
  <2>7. RefundsHold'
    BY <1>0, <1>2, <2>4, <2>6 DEF AccessInv, RefundsHold, Key
  <2>8. CoinsAgree'
    BY <1>0, SameCoins DEF AccessInv
  <2> QED BY <1>0, <2>5, <2>7, <2>8 DEF AccessInv, OneAccess, GrantedTogether, IsPlan, Grant, Key
<1> QED BY <1>1, <1>2

LEMMA Projection ==
  ASSUME AccessTypes, AccessInv, NEW c \in Checkouts, refund[c].cmd # 0,
         NEW s \in {"claimable", "completed", "canceled"}, Projects(c, s),
         UNCHANGED <<basket, commands>>
  PROVE  AccessTypes' /\ AccessInv'
<1> DEFINE new == [refund[c] EXCEPT !.state = s, !.known = TRUE]
           e == Key("restore", c, refund[c].cmd)
<1>0. refund[c] \in [cmd : 0..MaxRefunds, state : RefundStates \cup {"none"}, known : BOOLEAN]
  BY CommandTypes DEF RefundRows
<1>1. CASE UNCHANGED local
  BY <1>1, AccessKept DEF local, access, AccessTypes
<1>2. ~UNCHANGED local => /\ ~Terminal(refund[c])
                          /\ refund' = [refund EXCEPT ![c] = new]
                          /\ ended' = ended
  BY DEF Projects, Settled, AccessTypes
<1>3. new \in RefundRows /\ new.cmd = refund[c].cmd /\ (s # "claimable" => Terminal(new))
  BY <1>0, Restated DEF RefundStates, Terminal
<1>4. ~UNCHANGED local => /\ sub[c] = "refund_pending" /\ e \notin ledger
                          /\ \A d \in Checkouts : refund'[d] = IF d = c THEN new ELSE refund[d]
                          /\ refund' \in [Checkouts -> RefundRows]
  BY <1>2, <1>3 DEF AccessInv, RefundsHold, AccessTypes
<1>5. CASE ~UNCHANGED local /\ s = "canceled"
  <2>1. /\ \A d \in Checkouts : sub'[d] = IF d # c THEN sub[d] ELSE IF c \in ended THEN "expired" ELSE "active"
        /\ sub' \in [Checkouts -> SubStates]
        /\ ledger' = ledger \cup {e} /\ entitled' = IF c \in ended THEN entitled ELSE c
    BY <1>5 DEF Projects, AccessTypes, SubStates
  <2>2. /\ e[1] = "restore" /\ e[2] = c /\ e[3] = refund[c].cmd /\ e \in Keys
        /\ \A d \in Checkouts : e # Grant(d)
        /\ \A d \in Checkouts : d # c => \A j : e # Key("restore", d, j)
    BY <1>0 DEF Key, Grant, Keys
  <2>3. AccessTypes'
    BY <1>2, <1>4, <1>5, <2>1, <2>2, CheckoutAssumption DEF AccessTypes, Checkouts, CheckoutAssumption
  <2>4. OneAccess'
    <3>1. \A d \in Checkouts : d # c => sub[d] \notin InForce
      BY <1>4, <1>5 DEF AccessInv, OneAccess, InForce
    <3>2. entitled = 0
      BY <1>4, <1>5, <3>1 DEF AccessInv, OneAccess, InForce, AccessTypes, Checkouts
    <3> QED BY <2>1, <3>1, <3>2 DEF OneAccess, InForce
  <2>5. GrantedTogether'
    BY <1>4, <1>5, <2>1, <2>2 DEF AccessInv, GrantedTogether, IsPlan, Grant, Key
  <2>6. RefundsHold'
    <3>1. \A x \in ledger' : x[3] <= commands
      BY <2>1, <2>2 DEF AccessInv, RefundsHold
    <3>2. \A d \in Checkouts : d # c => \A j : Key("restore", d, j) \in ledger' => Key("restore", d, j) \in ledger
      BY <2>1, <2>2
    <3>3. \A d \in Checkouts : refund'[d].cmd = refund[d].cmd
      BY <1>3, <1>4, <1>5
    <3>5. Terminal(refund'[c])
      BY <1>3, <1>4, <1>5
    <3>6. \A d \in Checkouts : d # c => refund'[d] = refund[d] /\ sub'[d] = sub[d]
      BY <1>4, <1>5, <2>1
    <3>7. sub'[c] # "refunded"
      BY <2>1
    <3>8. \A d \in Checkouts : refund'[d].cmd # 0 /\ ~Terminal(refund'[d]) =>
            sub'[d] = "refund_pending" /\ Key("restore", d, refund'[d].cmd) \notin ledger'
      BY <3>2, <3>5, <3>6 DEF AccessInv, RefundsHold
    <3>9. \A d \in Checkouts : sub'[d] = "refunded" => Terminal(refund'[d]) \/ refund'[d].cmd = 0
      BY <3>6, <3>7 DEF AccessInv, RefundsHold
    <3>10. \A d \in Checkouts : refund'[d].cmd <= commands
      BY <3>3 DEF AccessInv, RefundsHold
    <3> QED BY <3>1, <3>8, <3>9, <3>10 DEF RefundsHold
  <2>7. CoinsAgree'
    <3>1. \A d \in Checkouts : /\ IsFiniteSet(ledger') /\ Net(d) \in Int
                               /\ Net(d)' = IF e[2] # d THEN Net(d)
                                            ELSE IF e[1] = "reversal" THEN Net(d) - 1 ELSE Net(d) + 1
      <4>1. e \notin ledger /\ ledger' = ledger \cup {e} /\ IsFiniteSet(ledger)
        BY <1>4, <1>5, <2>1 DEF AccessInv, CoinsAgree
      <4> HIDE DEF e
      <4> QED BY <4>1, NetMoves
    <3>2. IsFiniteSet(ledger')
      BY <2>1, FS_AddElement DEF AccessInv, CoinsAgree
    <3>3. \A d \in Checkouts : d # c => CoinsOf(d)' = CoinsOf(d)
      BY <2>1, <2>2 DEF CoinsOf, Grant, Key
    <3>4. Grant(c) \in ledger
      BY <1>4, <1>5 DEF AccessInv, GrantedTogether
    <3>5. CoinsOf(c) = 0 /\ CoinsOf(c)' = 1
      BY <1>4, <1>5, <2>1, <3>4 DEF CoinsOf, Grant, Key
    <3> QED BY <2>2, <3>1, <3>2, <3>3, <3>5 DEF AccessInv, CoinsAgree
  <2> QED BY <2>3, <2>4, <2>5, <2>6, <2>7 DEF AccessInv
<1>6. CASE ~UNCHANGED local /\ s # "canceled"
  <2>1. /\ \A d \in Checkouts : sub'[d] = IF d # c THEN sub[d]
                                          ELSE IF s = "completed" THEN "refunded" ELSE "refund_pending"
        /\ sub' \in [Checkouts -> SubStates]
        /\ UNCHANGED <<ended, entitled, ledger>>
    BY <1>6 DEF Projects, AccessTypes, SubStates
  <2>2. AccessTypes'
    BY <1>4, <1>6, <2>1 DEF AccessTypes
  <2>3. OneAccess'
    BY <1>4, <1>6, <2>1 DEF AccessInv, OneAccess, InForce, AccessTypes, Checkouts
  <2>4. GrantedTogether'
    BY <1>4, <1>6, <2>1 DEF AccessInv, GrantedTogether, IsPlan, Grant, Key
  <2>5. RefundsHold'
    <3>1. \A d \in Checkouts : refund'[d].cmd = refund[d].cmd
      BY <1>3, <1>4, <1>6
    <3>2. s = "completed" => Terminal(refund[c])'
      BY <1>3, <1>4, <1>6 DEF Terminal
    <3>3. \A d \in Checkouts : d # c => refund'[d] = refund[d] /\ sub'[d] = sub[d]
      BY <1>4, <1>6, <2>1
    <3> QED BY <1>4, <1>6, <2>1, <3>1, <3>2, <3>3 DEF AccessInv, RefundsHold, Key, Terminal
  <2>6. CoinsAgree'
    BY <1>4, <1>6, <2>1, SameCoins DEF AccessInv
  <2> QED BY <2>2, <2>3, <2>4, <2>5, <2>6 DEF AccessInv
<1> QED BY <1>1, <1>5, <1>6
-----------------------------------------------------------------------------
(* The checkout's row: what one write makes of it *)

Good(w) == /\ w \in CheckoutRows
           /\ w.status = "provider_settled" => Paying(w)
           /\ w.code = "acknowledged" => w.status = "canceled"

\* The mark, a payment and an end are never taken back.
Follows(w, v) == /\ Good(v)
                 /\ w.attempted => v.attempted
                 /\ Paying(w) => Paying(v)
                 /\ Dead(w) => Dead(v)

LEMMA RowParts ==
  ASSUME NEW w \in CheckoutRows
  PROVE  /\ w.status \in Statuses /\ w.bound \in BOOLEAN /\ w.paid \in BOOLEAN
         /\ w.token \in BOOLEAN /\ w.lease \in BOOLEAN /\ w.attempted \in BOOLEAN
         /\ w.code \in {"none", "missing", "late", "acknowledged"}
         /\ w.misses \in 0..MinMisses /\ w.recon \in BOOLEAN
  BY DEF CheckoutRows

LEMMA CreatedFollows ==
  ASSUME NEW w, Good(w), w.status = "none"
  PROVE  Follows(w, [w EXCEPT !.status = "provider_pending"])
  BY DEF Follows, Good, Paying, Dead, GivenUp, CheckoutRows, Statuses

LEMMA ClaimedFollows ==
  ASSUME NEW w, Good(w), ~w.bound, w.status \in {"provider_pending", "provider_dispatching"}
  PROVE  Follows(w, Claimed(w)) /\ Claimed(w).attempted
  BY DEF Follows, Good, Paying, Dead, GivenUp, CheckoutRows, Statuses, Claimed

LEMMA NoMisses == 0 \in 0..MinMisses
  BY CheckoutAssumption DEF CheckoutAssumption

LEMMA LateFollows ==
  ASSUME NEW w, Good(w), GivenUp(w) \/ w.code = "late"
  PROVE  Follows(w, LateSettled(w))
<1>1. LateSettled(w) \in CheckoutRows
  BY NoMisses DEF Good, CheckoutRows, Statuses, LateSettled
<1>2. /\ LateSettled(w).status = "provider_unknown" /\ LateSettled(w).code = "late"
      /\ LateSettled(w).attempted = w.attempted
  BY DEF Good, CheckoutRows, LateSettled
<1> QED BY <1>1, <1>2 DEF Follows, Good, Paying, Dead, GivenUp

LEMMA SameFollows == \A w : Good(w) => Follows(w, w)
  BY DEF Follows

LEMMA SavedFollows ==
  ASSUME NEW w, Good(w), NEW i \in Invoices, NEW mine \in BOOLEAN
  PROVE  Follows(w, Saved(w, i, mine))
<1> DEFINE bound == [w EXCEPT !.bound = TRUE, !.paid = TRUE, !.token = FALSE, !.lease = FALSE, !.misses = 0]
           saved == [w EXCEPT !.bound = TRUE, !.paid = i = "settled", !.status = Disposition(i),
                              !.token = FALSE, !.lease = FALSE, !.code = "none",
                              !.recon = i = "paid_late", !.misses = 0]
<1>1. CASE Saved(w, i, mine) = w
  BY <1>1, SameFollows
<1>2. CASE (w.code = "late" \/ GivenUp(w)) /\ Saved(w, i, mine) = LateSettled(w)
  BY <1>2, LateFollows
<1>3. ASSUME w.status = "completed", w.code \notin {"late", "acknowledged"} PROVE Follows(w, bound)
  <2>1. bound \in CheckoutRows
    BY NoMisses DEF Good, CheckoutRows
  <2>2. /\ bound.status = w.status /\ bound.code = w.code /\ bound.attempted = w.attempted
        /\ bound.bound /\ bound.paid
    BY DEF Good, CheckoutRows
  <2> HIDE DEF bound
  <2> QED BY <1>3, <2>1, <2>2 DEF Follows, Good, Paying, Dead, GivenUp
<1>4. ASSUME w.code \notin {"late", "acknowledged"}, ~GivenUp(w), w.paid => i = "settled"
      PROVE  Follows(w, saved)
  <2>1. Disposition(i) \in Statuses /\ (Disposition(i) = "provider_settled" <=> i = "settled")
        /\ (i = "settled" => ~(Disposition(i) \in {"canceled", "expired"}))
    BY DEF Disposition, Statuses, Invoices
  <2>2. saved \in CheckoutRows
    BY <2>1, NoMisses DEF Good, CheckoutRows
  <2>3. /\ saved.bound /\ saved.paid = (i = "settled") /\ saved.status = Disposition(i)
        /\ saved.code = "none" /\ saved.attempted = w.attempted
    BY DEF Good, CheckoutRows
  <2> HIDE DEF saved
  <2> QED BY <1>4, <2>1, <2>2, <2>3 DEF Follows, Good, Paying, Dead, GivenUp
<1>5. \/ Saved(w, i, mine) = w
      \/ (w.code = "late" \/ GivenUp(w)) /\ Saved(w, i, mine) = LateSettled(w)
      \/ w.status = "completed" /\ w.code \notin {"late", "acknowledged"} /\ Saved(w, i, mine) = bound
      \/ /\ w.code \notin {"late", "acknowledged"} /\ ~GivenUp(w) /\ (w.paid => i = "settled")
         /\ Saved(w, i, mine) = saved
  BY DEF Saved
<1> HIDE DEF bound, saved
<1> QED BY <1>1, <1>2, <1>3, <1>4, <1>5

LEMMA MissedFollows ==
  ASSUME NEW w, Good(w), NEW mine, ~MissKeeps(w, mine), NEW over \in BOOLEAN
  PROVE  Follows(w, Missed(w, over))
<1>1. (IF w.misses < MinMisses THEN w.misses + 1 ELSE w.misses) \in 0..MinMisses
  BY CheckoutAssumption DEF CheckoutAssumption, Good, CheckoutRows
<1>2. Missed(w, over) \in CheckoutRows
  BY <1>1 DEF Missed, Good, CheckoutRows, Statuses
<1>3. /\ Missed(w, over).status = IF over THEN "canceled" ELSE "provider_unknown"
      /\ Missed(w, over).code = IF over THEN "missing" ELSE "none"
      /\ Missed(w, over).attempted = w.attempted
  BY DEF Missed, Good, CheckoutRows
<1> QED BY <1>2, <1>3 DEF MissKeeps, Follows, Good, Paying, Dead, GivenUp

\* A settlement, or a step of a refund, whose checkout was paid for.
Restatus(w, s, r) == [w EXCEPT !.status = s, !.code = "none", !.recon = r]

LEMMA RestatusFollows ==
  ASSUME NEW w, Good(w), Paying(w), NEW r \in BOOLEAN,
         NEW s \in Statuses \ {"provider_settled", "canceled", "expired"}
  PROVE  Follows(w, Restatus(w, s, r)) /\ Paying(Restatus(w, s, r))
  BY DEF Follows, Good, Paying, Dead, GivenUp, CheckoutRows, Restatus

Settling(w, s, r) == [w EXCEPT !.status = s, !.paid = TRUE, !.code = "none", !.recon = r]

LEMMA BoundFollows ==
  ASSUME NEW w, Good(w), ~Quarantined(w)
  PROVE  /\ Follows(w, BoundBySettlement(w)) /\ BoundBySettlement(w).bound
         /\ ~w.bound => Paying(BoundBySettlement(w))
<1>1. CASE w.bound
  BY <1>1, SameFollows DEF BoundBySettlement
<1>2. CASE ~w.bound
  <2> DEFINE v == BoundBySettlement(w)
  <2>1. v \in CheckoutRows
    BY <1>2, NoMisses DEF Good, CheckoutRows, Statuses, BoundBySettlement
  <2>2. /\ v.status = "provider_settled" /\ v.code = "none" /\ v.bound /\ v.paid
        /\ v.attempted = w.attempted
    BY <1>2 DEF Good, CheckoutRows, BoundBySettlement
  <2> HIDE DEF v
  <2>3. Follows(w, v) /\ v.bound /\ Paying(v)
    BY <2>1, <2>2 DEF Follows, Good, Paying, Dead, GivenUp, Quarantined
  <2> QED BY <2>3 DEF v
<1> QED BY <1>1, <1>2

LEMMA SettlingFollows ==
  ASSUME NEW w, Good(w), NEW v, Good(v), v.bound, w.attempted => v.attempted, ~Dead(w),
         NEW r \in BOOLEAN, NEW s \in {"completed", "provider_unknown"}
  PROVE  Follows(w, Settling(v, s, r)) /\ Paying(Settling(v, s, r))
<1>1. Settling(v, s, r) \in CheckoutRows
  BY DEF Good, CheckoutRows, Settling, Statuses
<1>2. /\ Settling(v, s, r).status = s /\ Settling(v, s, r).paid /\ Settling(v, s, r).code = "none"
      /\ Settling(v, s, r).bound /\ Settling(v, s, r).attempted = v.attempted
  BY DEF Good, CheckoutRows, Settling
<1> QED BY <1>1, <1>2 DEF Follows, Good, Paying, GivenUp

LEMMA AcknowledgedFollows ==
  ASSUME NEW w, Good(w), w.code = "late"
  PROVE  Follows(w, [w EXCEPT !.status = "canceled", !.code = "acknowledged", !.recon = FALSE])
  BY DEF Follows, Good, Paying, Dead, GivenUp, CheckoutRows, Statuses

LEMMA LeaseFollows ==
  ASSUME NEW w, Good(w)
  PROVE  Follows(w, [w EXCEPT !.lease = FALSE])
  BY DEF Follows, Good, Paying, Dead, GivenUp, CheckoutRows
-----------------------------------------------------------------------------
(* The checkout's row and the calls: what one step makes of them *)

IInv == TypeInv /\ AccessInv /\ DeskInv

RowsMove ==
  /\ row' \in [Checkouts -> CheckoutRows] /\ call' \in [Requests -> CallRows]
  /\ \A c \in Checkouts : Follows(row[c], row'[c])
  /\ \A c \in Checkouts : Grant(c) \in ledger' \/ refund'[c].cmd # 0 =>
       Grant(c) \in ledger \/ refund[c].cmd # 0 \/ Paying(row'[c])
  /\ \A r \in Requests : call'[r].at = "complete" =>
       (call[r].at = "complete" /\ call'[r].on = call[r].on) \/ Paying(row'[call'[r].on])
  /\ posted' \in [Checkouts -> Nat]
  /\ abandoned' \subseteq Checkouts
  /\ \A c \in abandoned' : c \in abandoned \/ Dead(row'[c])

NobodyAsks ==
  /\ posted' = posted
  /\ \A r \in Requests : call'[r].at = "ask" => call[r].at = "ask" /\ call'[r].on = call[r].on

DeskMove == RowsMove /\ NobodyAsks

LEMMA RowsAreGood ==
  ASSUME DeskTypes, DeskInv
  PROVE  \A c \in Checkouts : Good(row[c])
  BY DEF DeskTypes, DeskInv, PaidOK, Good

LEMMA CallsOn ==
  ASSUME DeskTypes
  PROVE  \A r \in Requests : /\ call[r] \in CallRows
                             /\ call[r].at # "idle" => call[r].on \in Checkouts
  BY DEF DeskTypes, CallRows

LEMMA RowsMoves ==
  ASSUME DeskTypes, DeskInv, RowsMove
  PROVE  DeskTypes' /\ PaidOK' /\ GoneOK'
<1>1. DeskTypes'
  BY DEF DeskTypes, RowsMove
<1>2. PaidOK'
  <2>1. \A c \in Checkouts : Good(row'[c]) /\ (Paying(row[c]) => Paying(row'[c]))
    BY DEF RowsMove, Follows
  <2>2. \A c \in Checkouts : row'[c].status = "provider_settled" => Paying(row'[c])
    BY <2>1 DEF Good
  <2>3. \A c \in Checkouts : Grant(c) \in ledger' \/ refund'[c].cmd # 0 => Paying(row'[c])
    BY <2>1 DEF DeskInv, PaidOK, RowsMove
  <2>4. \A c \in Checkouts : row'[c].code = "acknowledged" => row'[c].status = "canceled"
    BY <2>1 DEF Good
  <2>5. \A r \in Requests : call'[r].at = "complete" => Paying(row'[call'[r].on])
    BY <2>1, CallsOn DEF DeskInv, PaidOK, RowsMove
  <2> QED BY <2>2, <2>3, <2>4, <2>5 DEF PaidOK, Grant, Key
<1>3. GoneOK'
  BY DEF DeskInv, GoneOK, RowsMove, Follows, DeskTypes
<1> QED BY <1>1, <1>2, <1>3

LEMMA DeskMoves ==
  ASSUME DeskTypes, DeskInv, DeskMove
  PROVE  DeskTypes' /\ DeskInv'
<1>1. PostOK'
  BY CallsOn DEF DeskInv, PostOK, DeskMove, RowsMove, NobodyAsks, Follows
<1> QED BY <1>1, RowsMoves DEF DeskInv, DeskMove

\* A step of a call alone.
LEMMA CallMoves ==
  ASSUME DeskTypes, DeskInv, NEW r \in Requests, NEW k \in CallRows, k.at # "ask",
         k.at = "complete" => Paying(row[k.on]),
         call' = [call EXCEPT ![r] = k],
         UNCHANGED <<row, refund, ledger, posted, abandoned>>
  PROVE  DeskMove
<1>1. \A q \in Requests : call'[q] = IF q = r THEN k ELSE call[q]
  BY DEF DeskTypes
<1>2. \A c \in Checkouts : Follows(row[c], row'[c])
  BY RowsAreGood, SameFollows
<1> QED BY <1>1, <1>2 DEF DeskTypes, DeskMove, RowsMove, NobodyAsks

\* A step of a checkout's row alone.
LEMMA RowMoves ==
  ASSUME DeskTypes, DeskInv, NEW c \in Checkouts, NEW v, Follows(row[c], v),
         row' = [row EXCEPT ![c] = v],
         \A d \in Checkouts : Grant(d) \in ledger' \/ refund'[d].cmd # 0 =>
           Grant(d) \in ledger \/ refund[d].cmd # 0 \/ (d = c /\ Paying(v)),
         UNCHANGED <<call, posted, abandoned>>
  PROVE  DeskMove
<1>1. \A d \in Checkouts : row'[d] = IF d = c THEN v ELSE row[d]
  BY DEF DeskTypes
<1>2. \A d \in Checkouts : Follows(row[d], row'[d])
  BY <1>1, RowsAreGood, SameFollows
<1>3. v \in CheckoutRows
  BY DEF Follows, Good
<1>4. row' \in [Checkouts -> CheckoutRows]
  BY <1>3 DEF DeskTypes
<1> QED BY <1>1, <1>2, <1>4 DEF DeskTypes, DeskMove, RowsMove, NobodyAsks

\* A step of a call and of a row.
LEMMA CallRowMoves ==
  ASSUME DeskTypes, DeskInv, NEW c \in Checkouts, NEW v, Follows(row[c], v),
         row' = [row EXCEPT ![c] = v],
         NEW r \in Requests, NEW k \in CallRows, call' = [call EXCEPT ![r] = k],
         k.at = "complete" => k.on = c /\ Paying(v),
         \A d \in Checkouts : Grant(d) \in ledger' \/ refund'[d].cmd # 0 =>
           Grant(d) \in ledger \/ refund[d].cmd # 0 \/ (d = c /\ Paying(v)),
         posted' = posted, abandoned' \subseteq Checkouts,
         \A d \in abandoned' : d \in abandoned \/ Dead(row'[d])
  PROVE  /\ RowsMove
         /\ k.at # "ask" => DeskMove
<1>1. /\ \A d \in Checkouts : row'[d] = IF d = c THEN v ELSE row[d]
      /\ \A q \in Requests : call'[q] = IF q = r THEN k ELSE call[q]
  BY DEF DeskTypes
<1>2. \A d \in Checkouts : Follows(row[d], row'[d])
  BY <1>1, RowsAreGood, SameFollows
<1>3. v \in CheckoutRows
  BY DEF Follows, Good
<1>4. row' \in [Checkouts -> CheckoutRows] /\ call' \in [Requests -> CallRows]
  BY <1>3 DEF DeskTypes
<1>5. RowsMove
  BY <1>1, <1>2, <1>4 DEF DeskTypes, RowsMove
<1> QED BY <1>1, <1>5 DEF DeskMove, NobodyAsks

\* Nothing of them changes.
LEMMA DeskKept ==
  ASSUME DeskTypes, DeskInv, UNCHANGED <<row, call, posted, abandoned, ledger, refund>>
  PROVE  DeskTypes' /\ DeskInv'
  BY DEF DeskTypes, DeskInv, PostOK, PaidOK, GoneOK, Grant, Key
-----------------------------------------------------------------------------
(* Calls: what a call can be *)

Stages == {"idle", "claim", "wait", "busy", "ask", "posted", "save", "miss", "complete"}

LEMMA StageRow ==
  ASSUME NEW k \in CallRows, k.on \in Checkouts, NEW s \in Stages
  PROVE  [k EXCEPT !.at = s] \in CallRows /\ [k EXCEPT !.at = s].at = s /\ [k EXCEPT !.at = s].on = k.on
  BY DEF CallRows, Stages

NewCall(c, s) == [NoCall EXCEPT !.on = c, !.at = s]

LEMMA IdleRow == NoCall \in CallRows /\ NoCall.at = "idle"
  BY CheckoutAssumption DEF CheckoutAssumption, NoCall, CallRows, Invoices

LEMMA NewCallRow ==
  ASSUME NEW c \in Checkouts, NEW s \in Stages
  PROVE  NewCall(c, s) \in CallRows /\ NewCall(c, s).at = s /\ NewCall(c, s).on = c
<1>1. c \in 0..LastCheckout
  BY CheckoutAssumption DEF CheckoutAssumption, Checkouts
<1> QED BY <1>1, IdleRow DEF NewCall, CallRows, Stages

\* A call that has looked its invoice up.
Looked(k, c, i) == [k EXCEPT !.on = c, !.at = IF i = "none" THEN "miss" ELSE "save", !.seen = i]

LEMMA LookRow ==
  ASSUME NEW k \in CallRows, NEW c \in Checkouts, NEW i \in Invoices
  PROVE  Looked(k, c, i) \in CallRows /\ Looked(k, c, i).at \in {"miss", "save"}
<1>1. c \in 0..LastCheckout
  BY CheckoutAssumption DEF CheckoutAssumption, Checkouts
<1> QED BY <1>1 DEF CallRows, Looked
-----------------------------------------------------------------------------
(* Steps of a call *)

LEMMA OutsideKept ==
  ASSUME OutsideTypes, UNCHANGED <<job, provider, referred>>
  PROVE  OutsideTypes'
  BY DEF OutsideTypes, provider

\* A step of a call alone keeps the invariant.
LEMMA CallStep ==
  ASSUME IInv, NEW r \in Requests, NEW k \in CallRows, k.at # "ask",
         k.at = "complete" => Paying(row[k.on]),
         call' = [call EXCEPT ![r] = k],
         UNCHANGED <<basket, local, job, commands, provider, referred, history>>
  PROVE  IInv'
<1>1. DeskTypes' /\ DeskInv'
  BY CallMoves, DeskMoves DEF IInv, TypeInv, local, access, history
<1>2. AccessTypes' /\ AccessInv'
  BY AccessKept DEF IInv, TypeInv, local, access, AccessTypes
<1>3. OutsideTypes'
  BY OutsideKept DEF IInv, TypeInv
<1> QED BY <1>1, <1>2, <1>3 DEF IInv, TypeInv

LEMMA InvTypes ==
  ASSUME IInv
  PROVE  /\ \A c \in Checkouts : row[c] \in CheckoutRows /\ Good(row[c]) /\ invoice[c] \in Invoices
         /\ \A r \in Requests : /\ call[r] \in CallRows
                                /\ call[r].at # "idle" => call[r].on \in Checkouts
<1>1. DeskTypes /\ DeskInv /\ OutsideTypes
  BY DEF IInv, TypeInv
<1>2. \A c \in Checkouts : row[c] \in CheckoutRows /\ invoice[c] \in Invoices
  BY <1>1 DEF DeskTypes, OutsideTypes
<1> QED BY <1>1, <1>2, RowsAreGood, CallsOn

LEMMA LooksStep ==
  ASSUME IInv, NEW r \in Requests, NEW c \in Checkouts, Looks(r, c),
         UNCHANGED <<basket, local, job, commands, provider, referred, history>>
  PROVE  IInv'
<1> DEFINE k == Looked(call[r], c, invoice[c])
<1>1. call' = [call EXCEPT ![r] = k]
  BY DEF Looks, Looked, IInv, TypeInv, DeskTypes
<1>2. k \in CallRows /\ k.at \in {"miss", "save"}
  BY InvTypes, LookRow
<1> HIDE DEF k
<1> QED BY <1>1, <1>2, CallStep

LEMMA GoesStep ==
  ASSUME IInv, NEW r \in Requests, NEW s \in Stages \ {"ask", "complete"}, call[r].at # "idle",
         Goes(r, s), UNCHANGED <<basket, local, job, commands, provider, referred, history>>
  PROVE  IInv'
<1> DEFINE k == [call[r] EXCEPT !.at = s]
<1>1. k \in CallRows /\ k.at = s
  BY StageRow, InvTypes
<1>2. call' = [call EXCEPT ![r] = k]
  BY DEF Goes, IInv, TypeInv, DeskTypes
<1> HIDE DEF k
<1> QED BY <1>1, <1>2, CallStep

LEMMA ReturnsStep ==
  ASSUME IInv, NEW r \in Requests,
         Returns(r), UNCHANGED <<basket, local, job, commands, provider, referred, history>>
  PROVE  IInv'
<1> QED BY IdleRow, CallStep DEF Returns

\* What the caller does with a row that is good.
ContinuedCall(c, status) ==
  IF status = "provider_settled" THEN NewCall(c, "complete") ELSE NoCall

LEMMA ContinuedRow ==
  ASSUME NEW c \in Checkouts, NEW status
  PROVE  /\ ContinuedCall(c, status) \in CallRows /\ ContinuedCall(c, status).at # "ask"
         /\ ContinuedCall(c, status).at = "complete" =>
              ContinuedCall(c, status).on = c /\ status = "provider_settled"
<1>1. "complete" \in Stages
  BY DEF Stages
<1> QED BY <1>1, IdleRow, NewCallRow DEF ContinuedCall

LEMMA ContinuesIs ==
  ASSUME NEW r \in Requests, NEW status, Continues(r, status)
  PROVE  call' = [call EXCEPT ![r] = ContinuedCall(call[r].on, status)]
  BY DEF Continues, Returns, ContinuedCall, NewCall

LEMMA ContinuesStep ==
  ASSUME IInv, NEW r \in Requests, call[r].at # "idle",
         Continues(r, row[call[r].on].status),
         UNCHANGED <<basket, local, job, commands, provider, referred, history>>
  PROVE  IInv'
<1> DEFINE c == call[r].on
           k == ContinuedCall(c, row[c].status)
<1>1. c \in Checkouts
  BY InvTypes
<1>2. k \in CallRows /\ k.at # "ask" /\ (k.at = "complete" => k.on = c /\ row[c].status = "provider_settled")
  BY <1>1, ContinuedRow
<1>3. call' = [call EXCEPT ![r] = k]
  BY ContinuesIs
<1>4. k.at = "complete" => Paying(row[k.on])
  BY <1>1, <1>2, InvTypes DEF Good
<1> HIDE DEF k
<1> QED BY <1>2, <1>3, <1>4, CallStep

\* A new call that is not claiming the dispatch yet.
LEMMA NewCallStep ==
  ASSUME IInv, NEW r \in Requests, NEW c \in Checkouts, NEW s \in {"wait", "claim"},
         call' = [call EXCEPT ![r] = NewCall(c, s)],
         UNCHANGED <<basket, local, job, commands, provider, referred, history>>
  PROVE  IInv'
<1>1. s \in Stages
  BY DEF Stages
<1>2. NewCall(c, s) \in CallRows /\ NewCall(c, s).at = s
  BY <1>1, NewCallRow
<1> QED BY <1>2, CallStep

LEMMA CallInv == ASSUME IInv, NEW r \in Requests, NEW c \in Checkouts, Call(r, c) PROVE IInv'
<1>1. UNCHANGED <<basket, local, job, commands, provider, referred, history>>
  BY DEF Call
<1>2. \/ Looks(r, c)
      \/ call' = [call EXCEPT ![r] = NewCall(c, "wait")]
      \/ call' = [call EXCEPT ![r] = NewCall(c, "claim")]
  BY DEF Call, NewCall
<1> QED BY <1>1, <1>2, LooksStep, NewCallStep

LEMMA WaitedInv == ASSUME IInv, NEW r \in Requests, Waited(r) PROVE IInv'
<1>1. CASE Continues(r, At(r).status)
  BY <1>1, ContinuesStep DEF Waited, At
<1>2. CASE Returns(r)
  BY <1>2, ReturnsStep DEF Waited
<1>3. CASE Looks(r, call[r].on)
  BY <1>3, LooksStep, InvTypes DEF Waited
<1> QED BY <1>1, <1>2, <1>3 DEF Waited

LEMMA LookingInv ==
  ASSUME IInv, NEW r \in Requests, ClaimIsBusy(r) \/ Finds(r) \/ LookupFails(r) \/ PostAnswered(r) \/ Drop(r)
  PROVE  IInv'
<1>1. CASE ClaimIsBusy(r)
  BY <1>1, GoesStep DEF ClaimIsBusy, Stages
<1>2. CASE Finds(r)
  BY <1>2, LooksStep, InvTypes DEF Finds
<1>3. CASE LookupFails(r)
  BY <1>3, GoesStep DEF LookupFails, Stages
<1>4. CASE Drop(r)
  BY <1>4, ReturnsStep DEF Drop
<1>5. CASE PostAnswered(r)
  <2> DEFINE k == [call[r] EXCEPT !.at = "save", !.seen = "new"]
  <2>1. call[r] \in CallRows /\ call[r].on \in Checkouts
    BY <1>5, InvTypes DEF PostAnswered
  <2>2. k \in CallRows /\ k.at = "save"
    BY <2>1 DEF CallRows, Invoices
  <2>3. call' = [call EXCEPT ![r] = k]
    BY <1>5 DEF PostAnswered, IInv, TypeInv, DeskTypes
  <2> HIDE DEF k
  <2> QED BY <1>5, <2>2, <2>3, CallStep DEF PostAnswered
<1> QED BY <1>1, <1>2, <1>3, <1>4, <1>5
-----------------------------------------------------------------------------
(* Steps of a call that write a checkout's row *)

\* Whoever touches a plan notices what has ended.
LEMMA LapsesKept ==
  ASSUME IInv, NEW c \in Checkouts,
         IF IsPlan(c) THEN sub' = AfterExpiry /\ entitled' = StillEntitled ELSE UNCHANGED <<sub, entitled>>,
         UNCHANGED <<basket, refund, ended, ledger, commands>>
  PROVE  AccessTypes' /\ AccessInv'
<1>1. CASE IsPlan(c)
  BY <1>1, Expiry DEF IInv, TypeInv
<1>2. CASE ~IsPlan(c)
  BY <1>2, AccessKept DEF IInv, TypeInv, AccessTypes
<1> QED BY <1>1, <1>2

LEMMA CreateInv == ASSUME IInv, NEW r \in Requests, NEW c \in Checkouts, Create(r, c) PROVE IInv'
<1> DEFINE v == [row[c] EXCEPT !.status = "provider_pending"]
           k == NewCall(c, "claim")
<1>0. DeskTypes /\ DeskInv /\ OutsideTypes
  BY DEF IInv, TypeInv
<1>1. AccessTypes' /\ AccessInv'
  BY LapsesKept DEF Create
<1>2. OutsideTypes'
  BY <1>0, OutsideKept DEF Create
<1>3. Follows(row[c], v)
  BY InvTypes, CreatedFollows DEF Create
<1>4. row' = [row EXCEPT ![c] = v] /\ call' = [call EXCEPT ![r] = k]
  BY <1>0 DEF Create, DeskTypes, NewCall
<1>5. k \in CallRows /\ k.at = "claim"
  BY NewCallRow DEF Stages
<1>6. UNCHANGED <<refund, ledger, posted, abandoned>> /\ abandoned \subseteq Checkouts
  BY <1>0 DEF Create, history, DeskTypes
<1> HIDE DEF v, k
<1>7. DeskMove
  BY <1>0, <1>3, <1>4, <1>5, <1>6, CallRowMoves
<1> QED BY <1>0, <1>1, <1>2, <1>7, DeskMoves DEF IInv, TypeInv

LEMMA ClaimInv == ASSUME IInv, NEW r \in Requests, Claim(r) PROVE IInv'
<1> DEFINE c == call[r].on
           v == Claimed(row[c])
           k == [call[r] EXCEPT !.at = "ask", !.mine = TRUE]
<1>0. DeskTypes /\ DeskInv /\ OutsideTypes /\ c \in Checkouts /\ call[r] \in CallRows /\ Good(row[c])
  BY InvTypes DEF IInv, TypeInv, Claim
<1>1. AccessTypes' /\ AccessInv'
  BY <1>0, LapsesKept DEF Claim
<1>2. OutsideTypes'
  BY <1>0, OutsideKept DEF Claim
<1>3. Follows(row[c], v) /\ v.attempted /\ ~row[c].attempted
  BY <1>0, ClaimedFollows DEF Claim, Claimable
<1>4. row' = [row EXCEPT ![c] = v] /\ call' = [call EXCEPT ![r] = k]
  BY <1>0 DEF Claim, DeskTypes
<1>5. k \in CallRows /\ k.at = "ask" /\ k.on = c
  BY <1>0 DEF CallRows
<1>6. UNCHANGED <<refund, ledger, posted, abandoned>> /\ abandoned \subseteq Checkouts
  BY <1>0 DEF Claim, history, DeskTypes
<1> HIDE DEF v, k
<1>7. RowsMove
  BY <1>0, <1>3, <1>4, <1>5, <1>6, CallRowMoves
<1>8. PostOK'
  <2>1. /\ \A d \in Checkouts : row'[d] = IF d = c THEN v ELSE row[d]
        /\ \A q \in Requests : call'[q] = IF q = r THEN k ELSE call[q]
    BY <1>0, <1>4 DEF DeskTypes
  <2>2. posted[c] = 0
    BY <1>0, <1>3 DEF DeskInv, PostOK
  <2>3. \A q \in Requests : call[q].at = "ask" => call[q].on # c
    BY <1>3, <1>0 DEF DeskInv, PostOK
  <2>4. \A q \in Requests : call[q].at = "ask" => call[q].on \in Checkouts
    BY <1>0, CallsOn
  <2> QED BY <1>0, <1>3, <1>5, <1>6, <2>1, <2>2, <2>3, <2>4 DEF DeskInv, PostOK
<1> QED BY <1>0, <1>1, <1>2, <1>7, <1>8, RowsMoves DEF IInv, TypeInv, DeskInv

LEMMA PostInv == ASSUME IInv, NEW r \in Requests, Post(r) PROVE IInv'
<1> DEFINE c == call[r].on
           k == [call[r] EXCEPT !.at = "posted"]
<1>0. /\ DeskTypes /\ DeskInv /\ AccessTypes /\ AccessInv /\ OutsideTypes
      /\ call[r].at = "ask" /\ c \in Checkouts /\ call[r] \in CallRows
  BY InvTypes DEF IInv, TypeInv, Post
<1>1. AccessTypes' /\ AccessInv'
  BY <1>0, AccessKept DEF Post, local, access, AccessTypes
<1>2. OutsideTypes'
  BY <1>0 DEF Post, OutsideTypes
<1>3. k \in CallRows /\ k.at = "posted"
  BY <1>0, StageRow DEF Stages
<1>4. /\ \A q \in Requests : call'[q] = IF q = r THEN k ELSE call[q]
      /\ call' \in [Requests -> CallRows]
  BY <1>0, <1>3 DEF Post, Goes, DeskTypes
<1>5. /\ \A d \in Checkouts : posted'[d] = IF d = c THEN posted[c] + 1 ELSE posted[d]
      /\ posted' \in [Checkouts -> Nat]
  BY <1>0 DEF Post, DeskTypes
<1>6. UNCHANGED <<row, refund, ledger, abandoned>>
  BY DEF Post, local, access
<1> HIDE DEF k
<1>7. \A d \in Checkouts : Follows(row[d], row'[d])
  BY <1>0, <1>6, RowsAreGood, SameFollows
<1>8. RowsMove
  BY <1>0, <1>3, <1>4, <1>5, <1>6, <1>7 DEF RowsMove, DeskTypes
<1>9. PostOK'
  <2>1. posted[c] = 0 /\ row[c].attempted
    BY <1>0 DEF DeskInv, PostOK
  <2>2. \A q \in Requests : call[q].at = "ask" /\ q # r => call[q].on # c /\ call[q].on \in Checkouts
    BY <1>0, CallsOn DEF DeskInv, PostOK
  <2> QED BY <1>0, <1>3, <1>4, <1>5, <1>6, <2>1, <2>2 DEF DeskInv, PostOK
<1> QED BY <1>0, <1>1, <1>2, <1>8, <1>9, RowsMoves DEF IInv, TypeInv, DeskInv
\* A request writes what it has learnt.
LEMMA WriteStep ==
  ASSUME IInv, NEW c \in Checkouts, NEW v, Follows(row[c], v), row' = [row EXCEPT ![c] = v],
         NEW r \in Requests, NEW k \in CallRows, k.at # "ask", call' = [call EXCEPT ![r] = k],
         k.at = "complete" => k.on = c /\ Paying(v), Notes,
         UNCHANGED <<basket, refund, access, job, commands, provider, referred, posted>>
  PROVE  IInv'
<1>0. DeskTypes /\ DeskInv /\ AccessTypes /\ AccessInv /\ OutsideTypes
  BY DEF IInv, TypeInv
<1>1. AccessTypes' /\ AccessInv'
  BY <1>0, AccessKept DEF access, AccessTypes
<1>2. OutsideTypes'
  BY <1>0, OutsideKept
<1>3. abandoned' \subseteq Checkouts /\ \A d \in abandoned' : d \in abandoned \/ Dead(row'[d])
  BY <1>0 DEF Notes, Dead, DeskTypes
<1>4. UNCHANGED <<refund, ledger, posted>>
  BY DEF access
<1>5. DeskMove
  BY <1>0, <1>3, <1>4, CallRowMoves
<1> QED BY <1>0, <1>1, <1>2, <1>5, DeskMoves DEF IInv, TypeInv

LEMMA SaveInv == ASSUME IInv, NEW r \in Requests, Save(r) PROVE IInv'
<1> DEFINE c == call[r].on
           v == Saved(row[c], call[r].seen, call[r].mine)
           k == ContinuedCall(c, row'[c].status)
<1>1. c \in Checkouts /\ Good(row[c]) /\ call[r].seen \in Invoices /\ call[r].mine \in BOOLEAN
  BY InvTypes DEF Save, CallRows
<1>2. Follows(row[c], v)
  BY <1>1, SavedFollows
<1>3. row' = [row EXCEPT ![c] = v] /\ row'[c] = v /\ call' = [call EXCEPT ![r] = k]
  BY <1>1, ContinuesIs DEF Save, IInv, TypeInv, DeskTypes
<1>4. /\ k \in CallRows /\ k.at # "ask"
      /\ k.at = "complete" => k.on = c /\ row'[c].status = "provider_settled"
  BY <1>1, ContinuedRow
<1>5. k.at = "complete" => k.on = c /\ Paying(v)
  BY <1>2, <1>3, <1>4 DEF Follows, Good
<1>6. Notes /\ UNCHANGED <<basket, refund, access, job, commands, provider, referred, posted>>
  BY DEF Save
<1> HIDE DEF v, k
<1> QED BY <1>1, <1>2, <1>3, <1>4, <1>5, <1>6, WriteStep

LEMMA MissInv == ASSUME IInv, NEW r \in Requests, Miss(r) PROVE IInv'
<1> DEFINE c == call[r].on
           w == row[c]
<1>1. c \in Checkouts /\ Good(w) /\ call[r].mine \in BOOLEAN
  BY InvTypes DEF Miss, CallRows
<1>2. Notes /\ UNCHANGED <<basket, refund, access, job, commands, provider, referred, posted>>
  BY DEF Miss
<1>3. CASE MissKeeps(w, call[r].mine)
  <2>1. row' = [row EXCEPT ![c] = w] /\ Follows(w, w)
    BY <1>1, <1>3, SameFollows DEF Miss, IInv, TypeInv, DeskTypes
  <2>2. CASE Returns(r)
    BY <1>1, <1>2, <2>1, <2>2, IdleRow, WriteStep DEF Returns
  <2>3. CASE Continues(r, w.status)
    <3> DEFINE k == ContinuedCall(c, w.status)
    <3>1. /\ k \in CallRows /\ k.at # "ask"
          /\ k.at = "complete" => k.on = c /\ w.status = "provider_settled"
      BY <1>1, ContinuedRow
    <3>2. call' = [call EXCEPT ![r] = k]
      BY <2>3, ContinuesIs
    <3>3. k.at = "complete" => k.on = c /\ Paying(w)
      BY <1>1, <3>1 DEF Good
    <3> HIDE DEF k
    <3> QED BY <1>1, <1>2, <2>1, <3>1, <3>2, <3>3, WriteStep
  <2> QED BY <1>3, <2>2, <2>3 DEF Miss
<1>4. CASE ~MissKeeps(w, call[r].mine)
  <2>1. Returns(r) /\ \E over \in BOOLEAN : row' = [row EXCEPT ![c] = Missed(@, over)]
    BY <1>4 DEF Miss
  <2>2. PICK over \in BOOLEAN : row' = [row EXCEPT ![c] = Missed(row[c], over)]
    BY <2>1
  <2>3. Follows(w, Missed(w, over))
    BY <1>1, <1>4, MissedFollows
  <2> QED BY <1>1, <1>2, <2>1, <2>2, <2>3, IdleRow, WriteStep DEF Returns
<1> QED BY <1>3, <1>4
-----------------------------------------------------------------------------
(* Settlement *)

\* What a settlement writes: its checkout's row, its refund, and its grant.
Settles(c, v) ==
  /\ \E s \in {"completed", "provider_unknown"}, f \in BOOLEAN :
       row' = [row EXCEPT ![c] = Settling(v, s, f)]
  /\ \A d \in Checkouts : refund'[d].cmd # 0 => refund[d].cmd # 0
  /\ \A d \in Checkouts : Grant(d) \in ledger' => Grant(d) \in ledger \/ d = c

LEMMA CompletesSettles ==
  ASSUME AccessTypes, NEW c \in Checkouts, NEW v, Completes(c, v) \/ Reconciles(c, v)
  PROVE  /\ \E s \in {"completed", "provider_unknown"}, f \in BOOLEAN :
              row' = [row EXCEPT ![c] = Settling(v, s, f)]
         /\ \A d \in Checkouts : refund'[d].cmd # 0 => refund[d].cmd # 0
<1>1. CASE Completes(c, v)
  <2>1. row' = [row EXCEPT ![c] = Settling(v, "completed", FALSE)] /\ refund' = refund
    BY <1>1 DEF Completes, Settling
  <2> QED BY <2>1
<1>2. CASE Reconciles(c, v)
  <2>1. row' = [row EXCEPT ![c] = Settling(v, "provider_unknown", TRUE)]
    BY <1>2 DEF Reconciles, Settling
  <2>2. \A d \in Checkouts : refund'[d] = IF d = c THEN NoRefund ELSE refund[d]
    BY <1>2 DEF Reconciles, AccessTypes
  <2> QED BY <2>1, <2>2, NoRefundTypes
<1> QED BY <1>1, <1>2

LEMMA ActivatesSettles ==
  ASSUME AccessTypes, NEW c \in Checkouts, NEW v, Activates(c, v) \/ SettlesCoins(c, v)
  PROVE  Settles(c, v)
<1>1. Completes(c, v) \/ Reconciles(c, v)
  BY DEF Activates, SettlesCoins, Replays, Extends, Supersedes
<1>2. ledger' = ledger \/ ledger' = ledger \cup {Grant(c)}
  BY DEF Activates, SettlesCoins, Replays, access
<1>3. \A d \in Checkouts : Grant(d) \in ledger' => Grant(d) \in ledger \/ d = c
  BY <1>2 DEF Grant, Key
<1> QED BY <1>1, <1>3, CompletesSettles DEF Settles

\* Its checkout was paid for and not given up.
LEMMA SettlesFollows ==
  ASSUME IInv, NEW c \in Checkouts, NEW v, Good(v), v.bound, row[c].attempted => v.attempted, ~Dead(row[c]),
         Settles(c, v)
  PROVE  \E u : /\ Follows(row[c], u) /\ Paying(u) /\ row' = [row EXCEPT ![c] = u]
                /\ \A d \in Checkouts : Grant(d) \in ledger' \/ refund'[d].cmd # 0 =>
                     Grant(d) \in ledger \/ refund[d].cmd # 0 \/ (d = c /\ Paying(u))
<1>1. PICK s \in {"completed", "provider_unknown"}, f \in BOOLEAN : row' = [row EXCEPT ![c] = Settling(v, s, f)]
  BY DEF Settles
<1>2. Follows(row[c], Settling(v, s, f)) /\ Paying(Settling(v, s, f))
  BY InvTypes, SettlingFollows
<1>3. \A d \in Checkouts : Grant(d) \in ledger' \/ refund'[d].cmd # 0 =>
        Grant(d) \in ledger \/ refund[d].cmd # 0 \/ (d = c /\ Paying(Settling(v, s, f)))
  BY <1>2 DEF Settles
<1> QED BY <1>1, <1>2, <1>3
LEMMA CompleteInv == ASSUME IInv, NEW r \in Requests, Complete(r) PROVE IInv'
<1> DEFINE c == call[r].on
<1>0. /\ DeskTypes /\ DeskInv /\ AccessTypes /\ AccessInv /\ OutsideTypes
      /\ c \in Checkouts /\ Good(row[c]) /\ Paying(row[c])
  BY InvTypes DEF IInv, TypeInv, Complete, DeskInv, PaidOK
<1>1. AccessTypes' /\ AccessInv'
  BY <1>0, Activation, CoinPurchase DEF Complete
<1>2. OutsideTypes'
  BY <1>0, OutsideKept DEF Complete
<1>3. Settles(c, row[c])
  BY <1>0, ActivatesSettles DEF Complete
<1>4. PICK u : /\ Follows(row[c], u) /\ Paying(u) /\ row' = [row EXCEPT ![c] = u]
               /\ \A d \in Checkouts : Grant(d) \in ledger' \/ refund'[d].cmd # 0 =>
                    Grant(d) \in ledger \/ refund[d].cmd # 0 \/ (d = c /\ Paying(u))
  BY <1>0, <1>3, SettlesFollows DEF Paying, Dead
<1>5. call' = [call EXCEPT ![r] = NoCall] /\ UNCHANGED <<posted, abandoned>> /\ abandoned \subseteq Checkouts
  BY <1>0 DEF Complete, Returns, history, DeskTypes
<1> HIDE DEF c
<1>6. DeskMove
  BY <1>0, <1>4, <1>5, IdleRow, CallRowMoves
<1> QED BY <1>0, <1>1, <1>2, <1>6, DeskMoves DEF IInv, TypeInv

LEMMA WebhookInv == ASSUME IInv, NEW c \in Checkouts, Webhook(c) PROVE IInv'
<1> DEFINE w == BoundBySettlement(row[c])
<1>0. DeskTypes /\ DeskInv /\ AccessTypes /\ AccessInv /\ OutsideTypes /\ Good(row[c])
  BY InvTypes DEF IInv, TypeInv
<1>1. /\ UNCHANGED <<basket, call, job, commands, provider, history>>
      /\ UNCHANGED <<call, posted, abandoned>>
  BY DEF Webhook, history
<1>2. OutsideTypes'
  <2>1. referred' \subseteq Checkouts
    BY <1>0 DEF Webhook, Processes, OutsideTypes
  <2> QED BY <1>0, <1>1, <2>1 DEF OutsideTypes, provider
<1>3. ~Quarantined(row[c]) => Follows(row[c], w) /\ w.bound /\ ~Dead(row[c])
  BY <1>0, BoundFollows DEF Quarantined, Dead
<1>4. CASE /\ row' = [row EXCEPT ![c] = IF GivenUp(@) /\ @.code # "acknowledged" THEN LateSettled(@) ELSE @]
           /\ UNCHANGED <<refund, access>>
  <2> DEFINE v == IF GivenUp(row[c]) /\ row[c].code # "acknowledged" THEN LateSettled(row[c]) ELSE row[c]
  <2>1. row' = [row EXCEPT ![c] = v] /\ UNCHANGED <<refund, ledger>>
    BY <1>0, <1>4 DEF DeskTypes, access
  <2>2. Follows(row[c], v)
    BY <1>0, LateFollows, SameFollows
  <2> HIDE DEF v
  <2>3. DeskMove
    BY <1>0, <1>1, <2>1, <2>2, RowMoves
  <2>4. AccessTypes' /\ AccessInv'
    BY <1>0, <1>1, <1>4, AccessKept DEF access, AccessTypes
  <2> QED BY <1>0, <1>2, <2>3, <2>4, DeskMoves DEF IInv, TypeInv
<1>5. CASE ~Quarantined(row[c]) /\ row' = [row EXCEPT ![c] = w] /\ UNCHANGED <<refund, access>>
  <2>1. UNCHANGED <<refund, ledger>>
    BY <1>5 DEF access
  <2> HIDE DEF w
  <2>2. DeskMove
    BY <1>0, <1>1, <1>3, <1>5, <2>1, RowMoves
  <2>3. AccessTypes' /\ AccessInv'
    BY <1>0, <1>1, <1>5, AccessKept DEF access, AccessTypes
  <2> QED BY <1>0, <1>2, <2>2, <2>3, DeskMoves DEF IInv, TypeInv
<1>6. CASE ~Quarantined(row[c]) /\ ((~IsPlan(c) /\ SettlesCoins(c, w)) \/ (IsPlan(c) /\ Activates(c, w)))
  <2>1. AccessTypes' /\ AccessInv'
    BY <1>0, <1>1, <1>6, Activation, CoinPurchase
  <2>2. Settles(c, w)
    BY <1>0, <1>6, ActivatesSettles
  <2>3. Good(w) /\ (row[c].attempted => w.attempted)
    BY <1>3, <1>6 DEF Follows
  <2> HIDE DEF w
  <2>4. PICK u : /\ Follows(row[c], u) /\ Paying(u) /\ row' = [row EXCEPT ![c] = u]
                 /\ \A d \in Checkouts : Grant(d) \in ledger' \/ refund'[d].cmd # 0 =>
                      Grant(d) \in ledger \/ refund[d].cmd # 0 \/ (d = c /\ Paying(u))
    BY <1>3, <1>6, <2>2, <2>3, SettlesFollows
  <2>5. DeskMove
    BY <1>0, <1>1, <2>4, RowMoves
  <2> QED BY <1>0, <1>2, <2>1, <2>5, DeskMoves DEF IInv, TypeInv
<1> QED BY <1>4, <1>5, <1>6 DEF Webhook

\* A step that writes a row, and nothing else that the invariant is about.
LEMMA RowStep ==
  ASSUME IInv, NEW c \in Checkouts, NEW v, Follows(row[c], v), row' = [row EXCEPT ![c] = v],
         UNCHANGED <<basket, refund, access, call, job, commands, provider, referred, history>>
  PROVE  IInv'
<1>0. DeskTypes /\ DeskInv /\ AccessTypes /\ AccessInv /\ OutsideTypes
  BY DEF IInv, TypeInv
<1>1. AccessTypes' /\ AccessInv'
  BY <1>0, AccessKept DEF access, AccessTypes
<1>2. OutsideTypes'
  BY <1>0, OutsideKept
<1>3. UNCHANGED <<refund, ledger, call, posted, abandoned>>
  BY DEF access, history
<1>4. DeskMove
  BY <1>0, <1>3, RowMoves
<1> QED BY <1>0, <1>1, <1>2, <1>4, DeskMoves DEF IInv, TypeInv

LEMMA AcknowledgeInv == ASSUME IInv, NEW c \in Checkouts, Acknowledge(c) PROVE IInv'
<1> DEFINE v == [row[c] EXCEPT !.status = "canceled", !.code = "acknowledged", !.recon = FALSE]
<1>1. Follows(row[c], v)
  BY InvTypes, AcknowledgedFollows DEF Acknowledge
<1>2. row' = [row EXCEPT ![c] = v]
  BY DEF Acknowledge, IInv, TypeInv, DeskTypes
<1> HIDE DEF v
<1> QED BY <1>1, <1>2, RowStep DEF Acknowledge

LEMMA LeaseEndsInv == ASSUME IInv, NEW c \in Checkouts, LeaseEnds(c) PROVE IInv'
<1> DEFINE v == [row[c] EXCEPT !.lease = FALSE]
<1>1. Follows(row[c], v)
  BY InvTypes, LeaseFollows
<1>2. row' = [row EXCEPT ![c] = v]
  BY DEF LeaseEnds, IInv, TypeInv, DeskTypes
<1> HIDE DEF v
<1> QED BY <1>1, <1>2, RowStep DEF LeaseEnds
-----------------------------------------------------------------------------
(* Refunds, the provider and time *)

Answers == {"claimable", "completed", "canceled"}

\* A step of the refund work or of the world alone.
LEMMA OutsideStep ==
  ASSUME IInv, OutsideTypes', ended' \subseteq Checkouts,
         UNCHANGED <<basket, row, refund, sub, entitled, ledger, call, commands, history>>
  PROVE  IInv'
<1>1. AccessTypes' /\ AccessInv'
  BY AccessKept DEF IInv, TypeInv
<1>2. DeskTypes' /\ DeskInv'
  BY DeskKept DEF IInv, TypeInv, history
<1> QED BY <1>1, <1>2 DEF IInv, TypeInv

LEMMA JobStep ==
  ASSUME IInv, job' \in JobRows, coming' \subseteq Commands,
         UNCHANGED <<basket, local, call, commands, invoice, flying, payback, referred, history>>
  PROVE  IInv'
<1>1. OutsideTypes'
  BY DEF IInv, TypeInv, OutsideTypes
<1> QED BY <1>1, OutsideStep DEF IInv, TypeInv, AccessTypes, local, access

LEMMA NoJobRow == NoJob \in JobRows
  BY CheckoutAssumption DEF CheckoutAssumption, NoJob, JobRows

\* A checkout's row in a step of its refund.
LEMMA RefundRowMoves ==
  ASSUME IInv, NEW c \in Checkouts, Paying(row[c]), NEW f \in BOOLEAN,
         NEW s \in Statuses \ {"provider_settled", "canceled", "expired"},
         row' = [row EXCEPT ![c] = Restatus(row[c], s, f)],
         \A d \in Checkouts : Grant(d) \in ledger' => Grant(d) \in ledger,
         \A d \in Checkouts : d # c /\ refund'[d].cmd # 0 => refund[d].cmd # 0,
         UNCHANGED <<call, history>>
  PROVE  DeskTypes' /\ DeskInv'
<1> DEFINE v == Restatus(row[c], s, f)
<1>1. Follows(row[c], v) /\ Paying(v) /\ row' = [row EXCEPT ![c] = v]
  BY InvTypes, RestatusFollows
<1>2. UNCHANGED <<call, posted, abandoned>>
  BY DEF history
<1> HIDE DEF v
<1>3. DeskMove
  BY <1>1, <1>2, RowMoves DEF IInv, TypeInv
<1> QED BY <1>3, DeskMoves DEF IInv, TypeInv

LEMMA PrepareRefundInv == ASSUME IInv, NEW c \in Checkouts, PrepareRefund(c) PROVE IInv'
<1>0. DeskInv /\ AccessTypes /\ AccessInv /\ OutsideTypes
  BY DEF IInv, TypeInv
<1>1. AccessTypes' /\ AccessInv' /\ commands + 1 \in Commands
  BY <1>0, Preparation
<1>2. OutsideTypes'
  <2>1. job' = [at |-> "find", on |-> c, cmd |-> commands + 1, seen |-> "none", may |-> TRUE]
    BY DEF PrepareRefund, NoJob
  <2>2. commands + 1 \in 0..MaxRefunds /\ c \in 0..LastCheckout
    BY <1>1, CheckoutAssumption DEF Commands, Checkouts, CheckoutAssumption
  <2>3. job' \in JobRows
    BY <1>1, <2>1, <2>2 DEF JobRows
  <2> QED BY <1>0, <2>3 DEF PrepareRefund, OutsideTypes, provider
<1>3. DeskTypes' /\ DeskInv'
  <2>1. Paying(row[c])
    BY <1>0 DEF PrepareRefund, DeskInv, PaidOK
  <2>2. \A d \in Checkouts : Grant(d) \in ledger' => Grant(d) \in ledger
    BY DEF PrepareRefund, Grant, Key
  <2>3. \A d \in Checkouts : d # c => refund'[d] = refund[d]
    BY <1>0 DEF PrepareRefund, AccessTypes
  <2>4. row' = [row EXCEPT ![c] = Restatus(row[c], "refund_pending", TRUE)]
    BY DEF PrepareRefund, IInv, TypeInv, DeskTypes, Restatus
  <2>5. "refund_pending" \in Statuses \ {"provider_settled", "canceled", "expired"} /\ UNCHANGED <<call, history>>
    BY DEF PrepareRefund, Statuses
  <2> QED BY <2>1, <2>2, <2>3, <2>4, <2>5, RefundRowMoves
<1> QED BY <1>1, <1>2, <1>3 DEF IInv, TypeInv

LEMMA FailsStep ==
  ASSUME IInv, NEW c \in Checkouts, NEW k \in Commands, Fails(c, k),
         UNCHANGED <<basket, call, commands, provider, referred, history>>
  PROVE  IInv'
<1>0. DeskTypes /\ DeskInv /\ AccessTypes /\ AccessInv /\ OutsideTypes
  BY DEF IInv, TypeInv
<1>1. AccessTypes' /\ AccessInv'
  BY <1>0, Failing
<1>2. OutsideTypes'
  BY <1>0, NoJobRow DEF Fails, OutsideTypes, provider
<1>3. CASE UNCHANGED <<row, refund>>
  <2>1. DeskTypes' /\ DeskInv'
    BY <1>0, <1>3, DeskKept DEF Fails, access, history
  <2> QED BY <1>1, <1>2, <2>1 DEF IInv, TypeInv
<1>4. CASE /\ refund[c].cmd = k
           /\ row' = [row EXCEPT ![c].status = "provider_unknown", ![c].code = "none", ![c].recon = TRUE]
           /\ refund' = [refund EXCEPT ![c].state = "provider_unknown"]
  <2>1. Paying(row[c])
    BY <1>0, <1>4 DEF DeskInv, PaidOK, Commands
  <2>2. ledger' = ledger /\ \A d \in Checkouts : d # c => refund'[d] = refund[d]
    BY <1>0, <1>4 DEF Fails, access, AccessTypes
  <2>3. row' = [row EXCEPT ![c] = Restatus(row[c], "provider_unknown", TRUE)]
    BY <1>0, <1>4 DEF DeskTypes, Restatus
  <2>4. "provider_unknown" \in Statuses \ {"provider_settled", "canceled", "expired"}
    BY DEF Statuses
  <2>5. DeskTypes' /\ DeskInv'
    BY <2>1, <2>2, <2>3, <2>4, RefundRowMoves
  <2> QED BY <1>1, <1>2, <2>5 DEF IInv, TypeInv
<1> QED BY <1>3, <1>4 DEF Fails

LEMMA ProjectsStep ==
  ASSUME IInv, NEW c \in Checkouts, refund[c].cmd # 0, NEW s \in Answers, Projects(c, s),
         OutsideTypes', UNCHANGED <<basket, call, commands, history>>
  PROVE  IInv'
<1>0. DeskTypes /\ DeskInv /\ AccessTypes /\ AccessInv
  BY DEF IInv, TypeInv
<1>1. AccessTypes' /\ AccessInv'
  BY <1>0, Projection DEF Answers
<1>2. CASE UNCHANGED local
  <2>1. DeskTypes' /\ DeskInv'
    BY <1>0, <1>2, DeskKept DEF local, access, history
  <2> QED BY <1>1, <2>1 DEF IInv, TypeInv
<1>3. CASE ~UNCHANGED local
  <2>1. Paying(row[c])
    BY <1>0 DEF DeskInv, PaidOK
  <2>2. \A d \in Checkouts : Grant(d) \in ledger' => Grant(d) \in ledger
    BY <1>3 DEF Projects, Grant, Key
  <2>3. \A d \in Checkouts : d # c => refund'[d] = refund[d]
    BY <1>0, <1>3 DEF Projects, AccessTypes
  <2>4. \E st \in {"completed", "refunded", "refund_pending"}, f \in BOOLEAN :
          row' = [row EXCEPT ![c] = Restatus(row[c], st, f)]
    BY <1>0, <1>3 DEF Projects, DeskTypes, Restatus
  <2>5. DeskTypes' /\ DeskInv'
    BY <2>1, <2>2, <2>3, <2>4, RefundRowMoves DEF Statuses
  <2> QED BY <1>1, <2>5 DEF IInv, TypeInv
<1> QED BY <1>2, <1>3
LEMMA ReconcileRefundInv == ASSUME IInv, NEW c \in Checkouts, ReconcileRefund(c) PROVE IInv'
<1> DEFINE k == refund[c].cmd
<1>1. k \in Commands /\ c \in 0..LastCheckout /\ k \in 0..MaxRefunds
  BY CheckoutAssumption
  DEF ReconcileRefund, IInv, TypeInv, AccessTypes, RefundRows, Commands, Checkouts, CheckoutAssumption
<1>2. UNCHANGED <<basket, call, commands, provider, referred, history>>
  BY DEF ReconcileRefund
<1>3. CASE Fails(c, k)
  BY <1>1, <1>2, <1>3, FailsStep
<1>4. CASE /\ payback[k] # "none" /\ UNCHANGED local
           /\ job' = [at |-> "save", on |-> c, cmd |-> k, seen |-> payback[k], may |-> FALSE]
  <2>1. payback[k] \in {"none", "claimable", "completed", "canceled"} /\ coming \subseteq Commands
    BY <1>1 DEF IInv, TypeInv, OutsideTypes
  <2>2. job' \in JobRows
    BY <1>1, <1>4, <2>1 DEF JobRows
  <2> QED BY <1>2, <1>4, <2>1, <2>2, JobStep DEF provider
<1> QED BY <1>3, <1>4 DEF ReconcileRefund

\* What the refund work has in hand.
LEMMA JobHas ==
  ASSUME IInv
  PROVE  /\ job.at # "idle" => job.on \in Checkouts /\ job.cmd \in Commands
         /\ job.at = "save" => job.seen \in Answers
         /\ \A k \in Commands : payback[k] # "none" => payback[k] \in Answers
         /\ coming \subseteq Commands
  BY DEF IInv, TypeInv, OutsideTypes, JobRows, Answers

LEMMA RefundWorkInv ==
  ASSUME IInv, FindRefund \/ PostRefund \/ RefundAnswered \/ EndRefund \/ RestartRefund
  PROVE  IInv'
<1>1. UNCHANGED <<basket, local, call, commands, invoice, flying, payback, referred, history>>
  BY DEF FindRefund, PostRefund, RefundAnswered, EndRefund, RestartRefund, provider
<1>2. coming' \subseteq Commands
  BY JobHas DEF FindRefund, PostRefund, RefundAnswered, EndRefund, RestartRefund, provider
<1>3. job \in JobRows
  BY DEF IInv, TypeInv, OutsideTypes
<1>4. CASE FindRefund
  <2>1. payback[job.cmd] \in Answers
    BY <1>4, JobHas DEF FindRefund
  <2>2. job' \in JobRows
    BY <1>3, <1>4, <2>1 DEF FindRefund, JobRows, Answers
  <2> QED BY <1>1, <1>2, <2>2, JobStep
<1>5. CASE PostRefund \/ RefundAnswered \/ RestartRefund
  <2>1. job' \in JobRows
    BY <1>3, <1>5 DEF PostRefund, RefundAnswered, RestartRefund, JobRows
  <2> QED BY <1>1, <1>2, <2>1, JobStep
<1>6. CASE EndRefund
  BY <1>1, <1>2, <1>6, NoJobRow, JobStep DEF EndRefund
<1> QED BY <1>4, <1>5, <1>6

LEMMA RefundFailsInv == ASSUME IInv, RefundFails PROVE IInv'
  BY JobHas, FailsStep DEF RefundFails

LEMMA SaveRefundInv == ASSUME IInv, SaveRefund PROVE IInv'
<1>1. job.on \in Checkouts /\ refund[job.on].cmd # 0 /\ job.seen \in Answers
  BY JobHas DEF SaveRefund, Commands
<1>2. OutsideTypes'
  BY NoJobRow DEF SaveRefund, IInv, TypeInv, OutsideTypes, provider
<1> QED BY <1>1, <1>2, ProjectsStep DEF SaveRefund

LEMMA RefundWebhookInv == ASSUME IInv, NEW c \in Checkouts, RefundWebhook(c) PROVE IInv'
<1>1. refund[c].cmd # 0 /\ refund[c].cmd \in Commands
  BY CheckoutAssumption
  DEF RefundWebhook, IInv, TypeInv, AccessTypes, RefundRows, Commands, CheckoutAssumption
<1>2. PICK s \in {"claimable", payback[refund[c].cmd]} : Projects(c, s)
  BY DEF RefundWebhook
<1>3. s \in Answers
  BY <1>1, JobHas DEF RefundWebhook, Answers
<1>4. OutsideTypes'
  BY OutsideKept DEF RefundWebhook, IInv, TypeInv
<1> QED BY <1>1, <1>2, <1>3, <1>4, ProjectsStep DEF RefundWebhook

LEMMA ProviderInv ==
  ASSUME IInv, \/ \E c \in Checkouts : PostLands(c) \/ InvoiceMoves(c)
               \/ \E k \in Commands : RefundLands(k) \/ RefundMoves(k)
  PROVE  IInv'
<1>1. OutsideTypes /\ ended \subseteq Checkouts
  BY DEF IInv, TypeInv, AccessTypes
<1>2. UNCHANGED <<basket, local, call, job, commands, referred, history>>
  BY DEF PostLands, InvoiceMoves, RefundLands, RefundMoves
<1>3. ASSUME NEW c \in Checkouts, PostLands(c) \/ InvoiceMoves(c) PROVE OutsideTypes'
  <2>1. invoice' \in [Checkouts -> Invoices] /\ flying' \subseteq Checkouts /\ UNCHANGED <<payback, coming>>
    BY <1>1, <1>3 DEF PostLands, InvoiceMoves, OutsideTypes, Invoices
  <2> QED BY <1>1, <1>2, <2>1 DEF OutsideTypes
<1>4. ASSUME NEW k \in Commands, RefundLands(k) \/ RefundMoves(k) PROVE OutsideTypes'
  <2>1. /\ payback' \in [Commands -> {"none", "claimable", "completed", "canceled"}]
        /\ coming' \subseteq Commands /\ UNCHANGED <<invoice, flying>>
    BY <1>1, <1>4 DEF RefundLands, RefundMoves, OutsideTypes
  <2> QED BY <1>1, <1>2, <2>1 DEF OutsideTypes
<1> QED BY <1>1, <1>2, <1>3, <1>4, OutsideStep DEF local, access

LEMMA PeriodEndsInv == ASSUME IInv, NEW c \in Checkouts, PeriodEnds(c) PROVE IInv'
<1>1. OutsideTypes' /\ ended' \subseteq Checkouts
  BY OutsideKept DEF PeriodEnds, IInv, TypeInv, AccessTypes
<1> QED BY <1>1, OutsideStep DEF PeriodEnds
-----------------------------------------------------------------------------
(* The theorems *)

LEMMA InitInv == ASSUME Init PROVE IInv
<1>1. /\ NoRow \in CheckoutRows /\ NoRow.status = "none" /\ NoRow.code = "none"
      /\ NoRefund \in RefundRows /\ NoRefund.cmd = 0
  BY NoMisses, NoRefundTypes DEF NoRow, CheckoutRows, Statuses
<1>2. DeskTypes
  BY <1>1, IdleRow DEF Init, DeskTypes
<1>3. AccessTypes
  BY <1>1, CheckoutAssumption DEF Init, AccessTypes, SubStates, CheckoutAssumption
<1>4. OutsideTypes
  BY NoJobRow DEF Init, OutsideTypes, Invoices
<1>5. DeskInv
  BY <1>1, IdleRow DEF Init, DeskInv, PostOK, PaidOK, GoneOK
<1>6. OneAccess /\ GrantedTogether /\ RefundsHold
  BY <1>1, CheckoutAssumption DEF Init, OneAccess, GrantedTogether, RefundsHold, InForce, CheckoutAssumption
<1>7. CoinsAgree
  <2>1. \A c \in Checkouts : Paid(c, ledger) = {} /\ Taken(c, ledger) = {}
    BY DEF Init, Paid, Taken
  <2>2. \A c \in Checkouts : Net(c) = 0 /\ CoinsOf(c) = 0
    BY <2>1, NetIs, FS_EmptySet DEF Init, CoinsOf
  <2> QED BY <2>2, FS_EmptySet DEF Init, CoinsAgree
<1> QED BY <1>2, <1>3, <1>4, <1>5, <1>6, <1>7 DEF IInv, TypeInv, AccessInv

LEMMA NextInv == ASSUME IInv, [Next]_vars PROVE IInv'
<1>1. CASE UNCHANGED vars
  BY <1>1, OutsideStep, OutsideKept DEF vars, local, access, provider, IInv, TypeInv, AccessTypes
<1>2. ASSUME NEW r \in Requests, Calls(r) PROVE IInv'
  BY <1>2, CreateInv, CallInv, WaitedInv, ClaimInv, PostInv, LookingInv, SaveInv, MissInv, CompleteInv
  DEF Calls
<1>3. CASE Operator
  BY <1>3, PrepareRefundInv, ReconcileRefundInv, AcknowledgeInv, RefundWorkInv, RefundFailsInv, SaveRefundInv
  DEF Operator
<1>4. CASE Environment
  BY <1>4, ProviderInv, LeaseEndsInv, PeriodEndsInv DEF Environment
<1> QED BY <1>1, <1>2, <1>3, <1>4, WebhookInv, RefundWebhookInv DEF Next

\* A refund that is over stays as it is.
RefundStays(c) ==
  /\ sub[c] = "refunded" => sub'[c] = "refunded"
  /\ Terminal(refund[c]) /\ refund'[c].cmd = refund[c].cmd => refund'[c].state = refund[c].state

LEMMA RefundUntouched ==
  ASSUME UNCHANGED refund, UNCHANGED sub \/ sub' = AfterExpiry, NEW c \in Checkouts
  PROVE  RefundStays(c)
  BY DEF RefundStays, AfterExpiry, Lapsed

LEMMA SettlementStays ==
  ASSUME IInv, NEW d \in Checkouts, NEW w, Activates(d, w) \/ SettlesCoins(d, w), NEW c \in Checkouts
  PROVE  RefundStays(c)
<1>1. /\ Terminal(refund[c]) => refund[c].cmd # 0
      /\ refund \in [Checkouts -> RefundRows]
  BY DEF IInv, TypeInv, AccessTypes, RefundRows
<1>2. CASE Reconciles(d, w) /\ (UNCHANGED sub \/ sub' = AfterExpiry)
  BY <1>1, <1>2, NoRefundTypes DEF Reconciles, RefundStays, AfterExpiry, Lapsed
<1>3. CASE UNCHANGED <<refund, sub>>
  BY <1>3, RefundUntouched
<1>4. CASE UNCHANGED refund /\ sub[d] = "none" /\ (Extends(d, w) \/ Supersedes(d, w))
  BY <1>4 DEF Extends, Supersedes, RefundStays, AfterExpiry, Lapsed, Live
<1> QED BY <1>2, <1>3, <1>4
    DEF Activates, SettlesCoins, Replays, Extends, Supersedes, Completes, access

LEMMA ProjectionStays ==
  ASSUME IInv, NEW d \in Checkouts, refund[d].cmd # 0, NEW s, Projects(d, s), NEW c \in Checkouts
  PROVE  RefundStays(c)
<1>1. CASE UNCHANGED local
  BY <1>1, RefundUntouched DEF local, access
<1>2. CASE ~UNCHANGED local
  <2>1. ~Terminal(refund[d])
    BY <1>2 DEF Projects, Settled
  <2>2. sub[d] # "refunded"
    BY <2>1 DEF IInv, AccessInv, RefundsHold
  <2>3. c # d => refund'[c] = refund[c] /\ sub'[c] = sub[c]
    BY <1>2 DEF Projects, IInv, TypeInv, AccessTypes
  <2> QED BY <2>1, <2>2, <2>3 DEF RefundStays
<1> QED BY <1>1, <1>2

LEMMA FailureStays ==
  ASSUME IInv, NEW d \in Checkouts, NEW k, Fails(d, k), NEW c \in Checkouts
  PROVE  RefundStays(c)
<1>1. UNCHANGED sub
  BY DEF Fails, access
<1>2. CASE UNCHANGED refund
  BY <1>1, <1>2, RefundUntouched
<1>3. CASE ~UNCHANGED refund
  BY <1>1, <1>3 DEF Fails, RefundStays, IInv, TypeInv, AccessTypes
<1> QED BY <1>2, <1>3

LEMMA PreparationStays ==
  ASSUME IInv, NEW d \in Checkouts, PrepareRefund(d), NEW c \in Checkouts
  PROVE  RefundStays(c)
<1>1. commands \in Nat /\ refund[d].cmd \in Nat /\ refund[d].cmd <= commands
  BY CommandTypes DEF IInv, TypeInv, AccessInv, RefundsHold
<1>2. /\ c # d => refund'[c] = refund[c] /\ sub'[c] = sub[c]
      /\ refund'[d].cmd = commands + 1 /\ sub[d] = "active"
  BY DEF PrepareRefund, IInv, TypeInv, AccessTypes
<1> QED BY <1>1, <1>2 DEF RefundStays

LEMMA NextStays == ASSUME IInv, [Next]_vars, NEW c \in Checkouts PROVE RefundStays(c)
<1>1. CASE UNCHANGED vars
  BY <1>1, RefundUntouched DEF vars, local, access
<1>2. ASSUME NEW r \in Requests, Calls(r) PROVE RefundStays(c)
  <2>1. CASE Complete(r)
    BY <2>1, SettlementStays, InvTypes DEF Complete
  <2>2. CASE Claim(r) \/ \E d \in Checkouts : Create(r, d)
    BY <2>2, RefundUntouched DEF Claim, Create
  <2>3. CASE Post(r) \/ Save(r) \/ Miss(r)
    BY <2>3, RefundUntouched DEF Post, Save, Miss, local, access
  <2>4. CASE \/ \E d \in Checkouts : Call(r, d)
             \/ Waited(r) \/ ClaimIsBusy(r) \/ PostAnswered(r) \/ Finds(r) \/ LookupFails(r) \/ Drop(r)
    BY <2>4, RefundUntouched
    DEF Call, Waited, ClaimIsBusy, PostAnswered, Finds, LookupFails, Drop, local, access
  <2> QED BY <1>2, <2>1, <2>2, <2>3, <2>4 DEF Calls
<1>3. ASSUME NEW d \in Checkouts, Webhook(d) PROVE RefundStays(c)
  <2>1. CASE UNCHANGED <<refund, access>>
    BY <2>1, RefundUntouched DEF access
  <2>2. CASE ~UNCHANGED <<refund, access>>
    BY <1>3, <2>2, SettlementStays DEF Webhook
  <2> QED BY <2>1, <2>2
<1>4. ASSUME NEW d \in Checkouts, RefundWebhook(d) PROVE RefundStays(c)
  <2>1. refund[d].cmd # 0
    BY <1>4 DEF RefundWebhook, IInv, TypeInv, AccessTypes, RefundRows
  <2> QED BY <1>4, <2>1, ProjectionStays DEF RefundWebhook
<1>5. CASE Operator
  <2>1. ASSUME NEW d \in Checkouts, PrepareRefund(d) \/ ReconcileRefund(d) \/ Acknowledge(d)
        PROVE  RefundStays(c)
    <3>1. CASE PrepareRefund(d)
      BY <3>1, PreparationStays
    <3>2. CASE ReconcileRefund(d)
      BY <3>2, FailureStays, RefundUntouched DEF ReconcileRefund, local, access
    <3>3. CASE Acknowledge(d)
      BY <3>3, RefundUntouched DEF Acknowledge, access
    <3> QED BY <2>1, <3>1, <3>2, <3>3
  <2>2. CASE FindRefund \/ PostRefund \/ RefundAnswered \/ EndRefund \/ RestartRefund
    BY <2>2, RefundUntouched
    DEF FindRefund, PostRefund, RefundAnswered, EndRefund, RestartRefund, local, access
  <2>3. CASE RefundFails
    BY <2>3, JobHas, FailureStays DEF RefundFails
  <2>4. CASE SaveRefund
    BY <2>4, JobHas, ProjectionStays DEF SaveRefund, Commands
  <2> QED BY <1>5, <2>1, <2>2, <2>3, <2>4 DEF Operator
<1>6. CASE Environment
  BY <1>6, RefundUntouched
  DEF Environment, PostLands, InvoiceMoves, LeaseEnds, PeriodEnds, RefundLands, RefundMoves, local, access
<1> QED BY <1>1, <1>2, <1>3, <1>4, <1>5, <1>6 DEF Next

\* Every reachable state satisfies the inductive invariant, whatever requests
\* crash or compete and however late the provider answers: a mark before every
\* POST, a payment behind every grant, one access, and coins that agree with it.
THEOREM PurchaseInvariance == Spec => []IInv
<1>1. Init => IInv
  BY InitInv
<1>2. IInv /\ [Next]_vars => IInv'
  BY NextInv
<1> QED BY <1>1, <1>2, PTL DEF Spec

\* The state stays what the rows in billing-checkout.ts and their columns allow.
THEOREM PurchaseTypes == Spec => []PurchaseTypeOK
<1>1. TypeInv => PurchaseTypeOK
  <2>1. /\ CheckoutRows = [status : Statuses, bound : BOOLEAN, paid : BOOLEAN, token : BOOLEAN,
                           lease : BOOLEAN, attempted : BOOLEAN,
                           code : {"none", "missing", "late", "acknowledged"},
                           misses : 0..MinMisses, recon : BOOLEAN]
        /\ CallRows \subseteq
             [on : 0..LastCheckout, mine : BOOLEAN, seen : Invoices,
              at : {"idle", "claim", "wait", "busy", "ask", "posted", "save", "miss", "complete"}]
        /\ RefundRows \subseteq [cmd : 0..MaxRefunds, state : RefundStates \cup {"none"}, known : BOOLEAN]
        /\ JobRows \subseteq
             [at : {"idle", "find", "posted", "save"}, on : 0..LastCheckout, cmd : 0..MaxRefunds,
              seen : {"none", "claimable", "completed", "canceled"}, may : BOOLEAN]
    BY DEF CheckoutRows, CallRows, RefundRows, JobRows
  <2> HIDE DEF CheckoutRows, CallRows, RefundRows, JobRows
  <2> QED BY <2>1 DEF TypeInv, DeskTypes, AccessTypes, OutsideTypes, PurchaseTypeOK, SubStates, Keys
<1> QED BY <1>1, PurchaseInvariance, PTL DEF IInv

\* No crash, timeout, retry or second request makes the provider be asked twice
\* for one checkout's invoice (dispatchCheckoutInvoiceWithAccessExclusion): the
\* mark is committed before the POST, and one request holds it.
THEOREM PostedOnce == Spec => []InvoicePostedOnce
<1>1. IInv => InvoicePostedOnce
  BY DEF IInv, DeskInv, PostOK, InvoicePostedOnce
<1> QED BY <1>1, PurchaseInvariance, PTL

\* A user has one access, its entitlements are what is in force, and a purchase's
\* coins are there exactly while it is not being refunded
\* (activateSubscriptionInTx, prepareRefund, projectSubscriptionRefundInTx).
THEOREM AccessAgrees == Spec => []AccessAndCoinsAgree
<1>1. AccessInv => AccessAndCoinsAgree
  BY DEF AccessInv, OneAccess, GrantedTogether, CoinsAgree, CoinsOf, AccessAndCoinsAgree, Live
<1> QED BY <1>1, PurchaseInvariance, PTL DEF IInv

\* What has been given up is never granted, however late its money comes in
\* (lateSettledCheckoutData): a grant needs a checkout that was not given up.
THEOREM NothingForTheAbandoned == Spec => []AbandonedIsNotGranted
<1>1. TypeInv /\ DeskInv => AbandonedIsNotGranted
  BY DEF TypeInv, DeskTypes, DeskInv, PaidOK, GoneOK, Paying, Dead, AbandonedIsNotGranted
<1> QED BY <1>1, PurchaseInvariance, PTL DEF IInv

\* A completed refund is final: no older answer, event, replayed settlement or
\* second command reopens it or gives the access back (applyProviderRefundEvidence).
THEOREM RefundsAreFinal == Spec => RefundIsFinal
<1>1. IInv /\ [Next]_vars => (\A c \in Checkouts : RefundStays(c))
  BY NextStays
<1> QED BY <1>1, PurchaseInvariance, PTL DEF Spec, RefundIsFinal, RefundStays
=============================================================================
