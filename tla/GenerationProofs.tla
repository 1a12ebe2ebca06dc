--------------------------- MODULE GenerationProofs ---------------------------
(***************************************************************************)
(* Proofs about one paid Generation Request, for any number of attempts,   *)
(* runs, workers, finalizers and dispatchers, any price and any number of  *)
(* stops.                                                                  *)
(***************************************************************************)
EXTENDS Generation, TLAPS

(***************************************************************************)
(* The inductive invariant, by the part of the state it is about.          *)
(***************************************************************************)
RequestOK ==
  /\ order \in [cost : Costs, replayable : BOOLEAN]
  /\ request \in [status : Active \cup {"completed", "failed", "blocked", "cancelled"},
                  confirmed : BOOLEAN, delivered : 0..Outputs]
  /\ refunds \in [Causes -> Nat]
  /\ last \in Attempts
  /\ decision \in [Attempts -> {"none", "failed", "automatic", "adopted"}]
  /\ assets \in Nat
  /\ withdrawn \in BOOLEAN
  /\ stops \in 0..MaxStops

AttemptRows == [status : Over \cup {"none", "queued", "running"}, ref : BOOLEAN, again : BOOLEAN]
TransportRows == [Transports -> {"none", "running", "failed", "unknown", "succeeded"}]

AttemptOK ==
  /\ attempt \in [Attempts -> AttemptRows]
  /\ transport \in [Attempts -> TransportRows]

DispatchRows == [state : {"none", "pending", "dispatched", "delivered", "cancelled", "rejected"},
                 touched : BOOLEAN, lease : Dispatchers \cup {Nobody}]

\* A dispatcher that is not idle has an attempt in hand.
DispatchOK ==
  /\ dispatch \in [Attempts -> DispatchRows]
  /\ dispatcher \in [Dispatchers -> [attempt : Attempts \cup {0},
                                     stage : {"idle", "claimed", "checked", "enqueued"}]]
  /\ \A d \in Dispatchers : dispatcher[d].stage # "idle" => dispatcher[d].attempt \in Attempts

\* A job that waits or runs has runs left; only a job that runs is locked.
Jobs ==
  {job \in [state : {"none", "waiting", "active", "completed", "failed"}, made : 0..MaxTransports,
            stalled : BOOLEAN, lock : Workers \cup {Nobody}, replaced : BOOLEAN] :
     /\ job.state \in {"waiting", "active"} => job.made < MaxTransports
     /\ job.state = "none" => job.made = 0
     /\ job.lock # Nobody => job.state = "active"}

\* A worker that is not idle has a run in hand.
WorkRows ==
  {run \in [attempt : Attempts \cup {0}, no : Transports \cup {0},
            stage : {"idle", "prepare", "authorized", "invoking", "persisted"}] :
     run.stage # "idle" => run.attempt \in Attempts /\ run.no \in Transports}

WorkOK ==
  /\ source \in [Attempts -> Jobs]
  /\ worker \in [Workers -> WorkRows]

\* What is relayed, taken in or finalized has a record, and only an attempt
\* whose record is a success is moderated or filed as recovered.
RecordOK ==
  /\ guard \in [Attempts -> Transports \cup {0}]
  /\ record \in [Attempts -> Records \cup {NoRecord}]
  /\ relay \in [Attempts -> {"none", "waiting", "done"}]
  /\ asked \in [Attempts -> Nat]
  /\ receipt \subseteq Attempts /\ recovered \subseteq Attempts
  /\ final \in [Attempts -> {"none", "pending", "queued", "done"}]
  /\ finalizer \in [Finalizers -> [attempt : Attempts \cup {0}, existing : Nat,
       stage : {"idle", "moderate", "moderated", "commit", "failed", "blocked", "hold"}]]
  /\ \A w \in Workers : worker[w].stage = "persisted" => record[worker[w].attempt] # NoRecord
  /\ \A a \in Attempts :
       /\ relay[a] # "none" \/ final[a] # "none" \/ a \in recovered => record[a] # NoRecord
       /\ record[a] # NoRecord /\ record[a].outcome = "succeeded" => record[a].outputs > 0
       /\ a \in recovered => record[a].outcome = "succeeded"
  /\ \A f \in Finalizers : finalizer[f].stage # "idle" =>
       /\ finalizer[f].attempt \in Attempts
       /\ record[finalizer[f].attempt] # NoRecord
       /\ finalizer[f].stage \in {"moderate", "moderated", "commit"} =>
            record[finalizer[f].attempt].outcome = "succeeded"

\* Every cause but a partial delivery gives back all there is left.
MoneyOK ==
  /\ Refunded <= order.cost
  /\ \A c \in Causes \ {"partial"} : refunds[c] > 0 => Refunded = order.cost
  /\ refunds["partial"] > 0 => request.status = "completed"
  /\ request.status \in {"failed", "blocked", "cancelled"} => Refunded = order.cost
  /\ request.status = "completed" => Refunded >= Share(Outputs - request.delivered)

\* What a finalizer counted is what a completed Request has.
GoodsOK ==
  /\ assets = request.delivered
  /\ request.status = "completed" <=> assets > 0
  /\ \A f \in Finalizers : finalizer[f].existing > 0 => request.status = "completed"

TypeInv == RequestOK /\ AttemptOK /\ DispatchOK /\ WorkOK /\ RecordOK
IInv == TypeInv /\ MoneyOK /\ GoodsOK
-----------------------------------------------------------------------------
(* Arithmetic of a refund *)

LEMMA ProductNat == ASSUME NEW x \in Nat, NEW y \in Nat PROVE (x * y) \in Nat
  OBVIOUS

LEMMA QuotientNat == ASSUME NEW x \in Nat, NEW y \in Nat \ {0} PROVE (x \div y) \in Nat
  OBVIOUS

LEMMA CostNat == ASSUME RequestOK PROVE order.cost \in Nat /\ Refunded \in Nat
<1>1. order.cost \in Nat
  BY GenerationAssumption DEF GenerationAssumption, RequestOK
<1>2. \A c \in Causes : refunds[c] \in Nat
  BY DEF RequestOK
<1>3. Refunded \in Nat
  BY <1>2 DEF Refunded, Causes
<1> QED BY <1>1, <1>3

\* The share of missing outputs is an amount of coins.
LEMMA ShareNat ==
  ASSUME RequestOK, NEW missing \in 0..Outputs
  PROVE  Share(missing) \in Nat
<1>1. order.cost \in Nat /\ Outputs \in Nat \ {0} /\ missing \in Nat
  BY CostNat, GenerationAssumption DEF GenerationAssumption
<1>2. order.cost * missing \in Nat
  BY <1>1, ProductNat
<1>3. (order.cost * missing + Outputs - 1) \in Nat
  BY <1>1, <1>2
<1> QED BY <1>1, <1>3, QuotientNat DEF Share

LEMMA ProductGrows == ASSUME NEW x \in Nat, NEW y \in Nat, NEW z \in Nat, y <= z PROVE x * y <= x * z
  OBVIOUS

LEMMA QuotientWithin ==
  ASSUME NEW x \in Nat, NEW y \in Nat \ {0}, NEW c \in Nat, x <= c * y + y - 1
  PROVE  x \div y <= c
  OBVIOUS

\* The share of missing outputs is never more than the price.
LEMMA ShareWithin ==
  ASSUME RequestOK, NEW missing \in 0..Outputs
  PROVE  Share(missing) <= order.cost
<1>1. order.cost \in Nat /\ Outputs \in Nat \ {0} /\ missing \in Nat /\ missing <= Outputs
  BY CostNat, GenerationAssumption DEF GenerationAssumption
<1>2. order.cost * missing <= order.cost * Outputs
  BY <1>1, ProductGrows
<1>3. order.cost * missing \in Nat /\ order.cost * Outputs \in Nat
  BY <1>1, ProductNat
<1>4. /\ (order.cost * missing + Outputs - 1) \in Nat
      /\ order.cost * missing + Outputs - 1 <= order.cost * Outputs + Outputs - 1
  BY <1>1, <1>2, <1>3
<1> QED BY <1>1, <1>4, QuotientWithin DEF Share

\* A refund gives what was asked for, or all that is left; a key that was used
\* before belongs to a Request with nothing left.
LEMMA RefundGives ==
  ASSUME RequestOK, MoneyOK, UNCHANGED order,
         NEW cause \in Causes, NEW requested \in Nat,
         cause = "partial" => refunds["partial"] = 0,
         Refund(cause, requested)
  PROVE  /\ refunds' \in [Causes -> Nat]
         /\ \A c \in Causes \ {cause} : refunds'[c] = refunds[c]
         /\ Refunded' = IF Refunded + requested < order.cost THEN Refunded + requested
                        ELSE order.cost
<1>1. order.cost \in Nat /\ Refunded \in Nat /\ Refunded <= order.cost
  BY CostNat DEF MoneyOK
<1>2. refunds \in [Causes -> Nat]
  BY DEF RequestOK
<1>3. Refundable = order.cost - Refunded /\ Clamped(requested) \in Nat
  BY <1>1 DEF Refundable, Clamped
<1>4. CASE Clamped(requested) = 0
  <2>1. refunds' = refunds /\ Refunded' = Refunded
    BY <1>4 DEF Refund, Refunded
  <2> QED BY <1>1, <1>2, <1>3, <1>4, <2>1 DEF Clamped
<1>5. CASE Clamped(requested) # 0
  <2>1. refunds[cause] = 0
    <3>1. refunds[cause] \in {0, Clamped(requested)}
      BY <1>5 DEF Refund
    <3>2. Refunded # order.cost
      BY <1>1, <1>3, <1>5 DEF Clamped
    <3> QED BY <1>2, <1>3, <1>5, <3>1, <3>2 DEF MoneyOK
  <2>2. refunds' = [refunds EXCEPT ![cause] = Clamped(requested)]
    BY <1>5 DEF Refund
  <2>3. Refunded' = Refunded + Clamped(requested)
    BY <1>2, <1>3, <2>1, <2>2 DEF Refunded, Causes
  <2>4. refunds' \in [Causes -> Nat] /\ \A c \in Causes \ {cause} : refunds'[c] = refunds[c]
    BY <1>2, <1>3, <2>2
  <2> QED BY <1>1, <1>3, <2>3, <2>4 DEF Clamped
<1> QED BY <1>4, <1>5

\* With nothing left, another full refund changes nothing.
LEMMA FullRefund ==
  ASSUME RequestOK, MoneyOK, UNCHANGED order,
         NEW cause \in Causes \ {"partial"}, Refund(cause, order.cost)
  PROVE  /\ refunds' \in [Causes -> Nat]
         /\ refunds'["partial"] = refunds["partial"]
         /\ Refunded' = order.cost
<1>1. order.cost \in Nat /\ Refunded \in Nat
  BY CostNat
<1> QED BY <1>1, RefundGives DEF Causes
-----------------------------------------------------------------------------
(* What each process leaves alone *)

LEMMA DispatchFrame ==
  ASSUME NEW d \in Dispatchers, Dispatches(d) \/ DispatchFails(d)
  PROVE  UNCHANGED <<order, refunds, request, last, decision, assets, withdrawn, attempt,
                     transport, receipt, recovered, final, finalizer, guard, record, worker,
                     relay, asked>>
  BY DEF Dispatches, DispatchFails, ClaimDispatch, CheckDispatch, EnqueueSource,
         AcknowledgeDispatch, DispatchUnchanged, money, product, ingest, blob

LEMMA WorkFrame ==
  ASSUME NEW w \in Workers, Works(w) \/ SafeRetry(w) \/ LoseLock(w)
  PROVE  UNCHANGED <<order, refunds, request, last, decision, assets, withdrawn, dispatch,
                     dispatcher, receipt, recovered, final, finalizer>>
  BY DEF Works, SafeRetry, LoseLock, TakeSource, StopPreparation, Authorize, AskProvider,
         FindsEarlierCall, ProviderAnswers, CannotPersist, RunFails, AcknowledgeRecord,
         WorkUnchanged, money, product, queues, ingest

LEMMA IngestFrame ==
  ASSUME NEW a \in Attempts, Ingests(a)
  PROVE  UNCHANGED <<order, refunds, request, last, decision, assets, withdrawn, dispatch,
                     dispatcher, finalizer, guard, record, worker, asked>>
  BY DEF Ingests, RecoverFailedSource, DispatchFinal, IngestRecord, IngestLate,
         IngestResolution, IngestDuplicate, IngestUnchanged, WorkUnchanged, money, product,
         queues, blob, gen

LEMMA FinalFrame ==
  ASSUME NEW f \in Finalizers, Finalizes(f)
  PROVE  UNCHANGED <<order, last, decision, withdrawn, dispatch, dispatcher, transport,
                     receipt, recovered, guard, record, worker, relay, asked>>
  BY DEF Finalizes, StartFinal, MarkModerating, ModerateOutput, CompleteRequest,
         ReturnRequest, HoldRequest, FinalFails, FinalUnchanged, queues, blob

LEMMA StaleFrame ==
  ASSUME RedispatchStale \/ QuarantineStale
  PROVE  UNCHANGED <<order, refunds, request, last, decision, assets, withdrawn, dispatcher,
                     receipt, recovered, final, finalizer, guard, record, worker, relay, asked>>
  BY DEF RedispatchStale, QuarantineStale, StaleUnchanged, money, product, ingest, blob

\* A cancellation, a retry or a decision stays away from the processes.
LEMMA DecisionFrame ==
  ASSUME \/ CancelBeforeDispatch \/ OperatorCancel \/ Retry \/ AdoptSuccess
         \/ \E by \in {"operator", "automatic"} : ConfirmFailed(by)
         \/ \E cause \in {"operator_manual", "incident"} : OperatorRefund(cause)
  PROVE  UNCHANGED <<order, dispatcher, transport, receipt, recovered, final, finalizer,
                     guard, record, worker, relay, asked, stops>>
  BY DEF CancelBeforeDispatch, OperatorCancel, Cancel, Retry, AdoptSuccess, ConfirmFailed,
         OperatorRefund, DecisionUnchanged, money, queues, ingest, blob, gen
-----------------------------------------------------------------------------
(* Initial states *)

LEMMA InitInv == Init => IInv
<1> SUFFICES ASSUME Init PROVE IInv
  OBVIOUS
<1> USE GenerationAssumption DEF GenerationAssumption, Init
<1>1. 1 \in Attempts /\ 0 \in 0..MaxStops /\ 0 \in 0..Outputs /\ 0 \in 0..MaxTransports
  BY DEF Attempts
<1>2. order.cost \in Nat
  OBVIOUS
<1>3. RequestOK
  BY <1>1 DEF RequestOK, Active, Causes
<1>4. AttemptOK
  BY DEF AttemptOK, AttemptRows, TransportRows, NewAttempt, NoAttempt, Over
<1>5. DispatchOK
  BY DEF DispatchOK, DispatchRows, NewRow, NoRow, NoDispatch
<1>6. WorkOK
  BY <1>1 DEF WorkOK, Jobs, WorkRows, NoJob, NoWork
<1>7. RecordOK
  BY DEF RecordOK, NoWork, NoFinal
<1>8. Refunded = 0
  BY DEF Refunded, Causes
<1>9. MoneyOK
  BY <1>2, <1>8 DEF MoneyOK, Causes
<1>10. GoodsOK
  BY DEF GoodsOK, NoFinal
<1> QED BY <1>3, <1>4, <1>5, <1>6, <1>7, <1>9, <1>10 DEF IInv, TypeInv
-----------------------------------------------------------------------------
(* Attempts and their runs *)

LEMMA EvidenceType ==
  ASSUME AttemptOK, NEW a \in Attempts, NEW r \in Records, Evidence(a, r) \/ EvidenceOfUnknown(a, r)
  PROVE  transport' \in [Attempts -> TransportRows]
<1>1. CASE r.invoked
  <2>1. PICK n \in Transports, s \in {"failed", "unknown", "succeeded"} :
          transport' = [transport EXCEPT ![a][n] = s]
    BY <1>1 DEF Evidence, EvidenceOfUnknown, Records, TransportOf
  <2> QED BY <2>1 DEF AttemptOK, TransportRows
<1>2. CASE ~r.invoked
  BY <1>2 DEF Evidence, EvidenceOfUnknown, AttemptOK
<1> QED BY <1>1, <1>2

LEMMA AttemptStep ==
  ASSUME IInv, Next
  PROVE  AttemptOK'
<1>0. AttemptOK /\ RequestOK /\ WorkOK /\ RecordOK
  BY DEF IInv, TypeInv
<1>1. CASE CancelBeforeDispatch \/ OperatorCancel
  <2>1. UNCHANGED transport
    BY <1>1, DecisionFrame
  <2>2. \/ UNCHANGED attempt
        \/ attempt' = [attempt EXCEPT ![last].status = "cancelled", ![last].again = FALSE]
    BY <1>1 DEF CancelBeforeDispatch, OperatorCancel, Cancel
  <2>3. last \in Attempts
    BY <1>0 DEF RequestOK
  <2>4. attempt' \in [Attempts -> AttemptRows]
    BY <1>0, <2>2, <2>3 DEF AttemptOK, AttemptRows, Over
  <2> QED BY <1>0, <2>1, <2>4 DEF AttemptOK
<1>2. CASE Retry
  BY <1>0, <1>2 DEF Retry, NewAttempt, AttemptOK, AttemptRows
<1>3. ASSUME NEW d \in Dispatchers, Dispatches(d) \/ DispatchFails(d) PROVE AttemptOK'
  BY <1>0, <1>3, DispatchFrame DEF AttemptOK
<1>4. ASSUME NEW w \in Workers, Works(w) \/ SafeRetry(w) \/ LoseLock(w) PROVE AttemptOK'
  <2> DEFINE a == worker[w].attempt
             n == worker[w].no
  <2>1. CASE \E b \in Attempts : TakeSource(w, b)
    BY <1>0, <2>1 DEF TakeSource, AttemptOK
  <2>2. CASE StopPreparation(w) \/ AskProvider(w) \/ FindsEarlierCall(w) \/ ProviderAnswers(w)
             \/ RunFails(w) \/ AcknowledgeRecord(w) \/ LoseLock(w)
    BY <1>0, <2>2 DEF StopPreparation, AskProvider, FindsEarlierCall, ProviderAnswers, RunFails,
                      AcknowledgeRecord, LoseLock, AttemptOK
  <2>3. CASE Authorize(w) \/ CannotPersist(w) \/ SafeRetry(w)
    <3>1. a \in Attempts /\ n \in Transports
      BY <1>0, <2>3 DEF Authorize, CannotPersist, SafeRetry, At, WorkOK, WorkRows
    <3>2. \/ UNCHANGED attempt
          \/ attempt' = [attempt EXCEPT ![a].status = "running"]
          \/ attempt' = [attempt EXCEPT ![a].status = "unknown", ![a].again = FALSE]
      BY <2>3 DEF Authorize, CannotPersist, PersistenceUnknown, Unknown, SafeRetry
    <3>3. \/ UNCHANGED transport
          \/ \E s \in {"running", "unknown", "failed"} :
               transport' = [transport EXCEPT ![a][n] = s]
      BY <2>3 DEF Authorize, CannotPersist, PersistenceUnknown, SafeRetry
    <3>4. attempt' \in [Attempts -> AttemptRows]
      BY <1>0, <3>1, <3>2 DEF AttemptOK, AttemptRows, Over
    <3>5. transport' \in [Attempts -> TransportRows]
      BY <1>0, <3>1, <3>3 DEF AttemptOK, TransportRows
    <3> QED BY <3>4, <3>5 DEF AttemptOK
  <2> QED BY <1>4, <2>1, <2>2, <2>3 DEF Works
<1>5. ASSUME NEW a \in Attempts, Ingests(a) PROVE AttemptOK'
  <2>1. CASE RecoverFailedSource(a) \/ DispatchFinal(a) \/ IngestResolution(a) \/ IngestDuplicate(a)
    BY <1>0, <2>1 DEF RecoverFailedSource, DispatchFinal, IngestResolution, IngestDuplicate, AttemptOK
  <2>2. CASE IngestRecord(a) \/ IngestLate(a)
    <3>1. record[a] \in Records
      BY <1>0, <2>2 DEF IngestRecord, IngestLate, RecordOK
    <3>2. transport' \in [Attempts -> TransportRows]
      BY <1>0, <2>2, <3>1, EvidenceType DEF IngestRecord, IngestLate
    <3>3. \/ UNCHANGED attempt
          \/ attempt' = [attempt EXCEPT ![a].status = "running", ![a].ref = TRUE]
          \/ attempt' = [attempt EXCEPT ![a].ref = TRUE]
      BY <2>2 DEF IngestRecord, IngestLate
    <3>4. attempt' \in [Attempts -> AttemptRows]
      <4>1. attempt \in [Attempts -> AttemptRows]
        BY <1>0 DEF AttemptOK
      <4>2. CASE UNCHANGED attempt
        BY <4>1, <4>2
      <4>3. CASE attempt' = [attempt EXCEPT ![a].status = "running", ![a].ref = TRUE]
        BY <4>1, <4>3 DEF AttemptRows
      <4>4. CASE attempt' = [attempt EXCEPT ![a].ref = TRUE]
        BY <4>1, <4>4 DEF AttemptRows
      <4> QED BY <3>3, <4>2, <4>3, <4>4
    <3> QED BY <3>2, <3>4 DEF AttemptOK
  <2> QED BY <1>5, <2>1, <2>2 DEF Ingests
<1>6. ASSUME NEW f \in Finalizers, Finalizes(f) PROVE AttemptOK'
  <2> DEFINE a == finalizer[f].attempt
  <2>1. UNCHANGED transport
    BY <1>6, FinalFrame
  <2>2. CASE \E b \in Attempts : StartFinal(f, b)
    BY <1>0, <2>1, <2>2 DEF StartFinal, AttemptOK
  <2>3. CASE MarkModerating(f) \/ ModerateOutput(f) \/ FinalFails(f)
    BY <1>0, <2>1, <2>3 DEF MarkModerating, ModerateOutput, FinalFails, AttemptOK
  <2>4. CASE CompleteRequest(f) \/ ReturnRequest(f) \/ HoldRequest(f)
    <3>1. a \in Attempts /\ record[a].again \in BOOLEAN
      BY <1>0, <2>4 DEF CompleteRequest, ReturnRequest, HoldRequest, RecordOK, Records
    <3>2. \/ UNCHANGED attempt
          \/ attempt' = [attempt EXCEPT ![a].status = "succeeded"]
          \/ \E s \in Over, b \in BOOLEAN :
               attempt' = [attempt EXCEPT ![a].status = s, ![a].again = b]
      <4>1. CASE CompleteRequest(f)
        BY <4>1 DEF CompleteRequest
      <4>2. CASE ReturnRequest(f)
        BY <3>1, <4>2 DEF ReturnRequest, Over
      <4>3. CASE HoldRequest(f)
        BY <4>3 DEF HoldRequest, Unknown, Over
      <4> QED BY <2>4, <4>1, <4>2, <4>3
    <3>3. attempt' \in [Attempts -> AttemptRows]
      <4>1. CASE UNCHANGED attempt \/ attempt' = [attempt EXCEPT ![a].status = "succeeded"]
        BY <1>0, <3>1, <4>1 DEF AttemptOK, AttemptRows, Over
      <4>2. ASSUME NEW s \in Over, NEW b \in BOOLEAN,
                   attempt' = [attempt EXCEPT ![a].status = s, ![a].again = b]
            PROVE  attempt' \in [Attempts -> AttemptRows]
        BY <1>0, <3>1, <4>2 DEF AttemptOK, AttemptRows
      <4> QED BY <3>2, <4>1, <4>2
    <3> QED BY <1>0, <2>1, <3>3 DEF AttemptOK
  <2> QED BY <1>6, <2>2, <2>3, <2>4 DEF Finalizes
<1>7. CASE RedispatchStale
  BY <1>0, <1>7 DEF RedispatchStale, AttemptOK
<1>8. CASE QuarantineStale
  <2> DEFINE n == LatestRun(last)
  <2>1. last \in Attempts
    BY <1>0 DEF RequestOK
  <2>2. attempt' \in [Attempts -> AttemptRows]
    BY <1>0, <1>8, <2>1 DEF QuarantineStale, Unknown, AttemptOK, AttemptRows, Over
  <2>3. transport' \in [Attempts -> TransportRows]
    BY <1>0, <1>8, <2>1 DEF QuarantineStale, AttemptOK, TransportRows
  <2> QED BY <2>2, <2>3 DEF AttemptOK
<1>9. ASSUME \/ AdoptSuccess \/ \E by \in {"operator", "automatic"} : ConfirmFailed(by)
             \/ \E cause \in {"operator_manual", "incident"} : OperatorRefund(cause)
      PROVE  AttemptOK'
  BY <1>0, <1>9 DEF AdoptSuccess, ConfirmFailed, OperatorRefund, DecisionUnchanged, AttemptOK
<1> QED BY <1>1, <1>2, <1>3, <1>4, <1>5, <1>6, <1>7, <1>8, <1>9 DEF Next
-----------------------------------------------------------------------------
(* The outbox row and the dispatchers *)

LEMMA DispatchStep ==
  ASSUME IInv, Next
  PROVE  DispatchOK'
<1>0. DispatchOK /\ RequestOK
  BY DEF IInv, TypeInv
<1>1. CASE CancelBeforeDispatch \/ OperatorCancel
  <2>1. UNCHANGED dispatcher
    BY <1>1, DecisionFrame
  <2>2. last \in Attempts
    BY <1>0 DEF RequestOK
  <2>3. UNCHANGED dispatch \/ dispatch' = [dispatch EXCEPT ![last].state = "cancelled"]
    BY <1>1 DEF CancelBeforeDispatch, OperatorCancel, Cancel
  <2> QED BY <1>0, <2>1, <2>2, <2>3 DEF DispatchOK, DispatchRows
<1>2. CASE Retry
  BY <1>0, <1>2 DEF Retry, NewRow, DispatchOK, DispatchRows
<1>3. ASSUME NEW d \in Dispatchers, Dispatches(d) \/ DispatchFails(d) PROVE DispatchOK'
  <2>1. CASE \E a \in Attempts : ClaimDispatch(d, a)
    <3>1. PICK a \in Attempts : ClaimDispatch(d, a)
      BY <2>1
    <3>2. CASE MayRun(a)
      <4>1. dispatch' = [dispatch EXCEPT ![a] = [state |-> "dispatched", touched |-> TRUE, lease |-> d]]
        BY <3>1, <3>2 DEF ClaimDispatch
      <4>2. [state |-> "dispatched", touched |-> TRUE, lease |-> d] \in DispatchRows
        BY DEF DispatchRows
      <4>3. dispatch' \in [Attempts -> DispatchRows]
        BY <1>0, <4>1, <4>2 DEF DispatchOK
      <4>4. dispatcher' = [dispatcher EXCEPT ![d] = [attempt |-> a, stage |-> "claimed"]]
        BY <3>1, <3>2 DEF ClaimDispatch
      <4> QED BY <1>0, <4>3, <4>4 DEF DispatchOK
    <3>3. CASE ~MayRun(a)
      <4>1. UNCHANGED dispatcher
        BY <3>1, <3>3 DEF ClaimDispatch
      <4>2. dispatch' = Suppressed(a)
        BY <3>1, <3>3 DEF ClaimDispatch
      <4>3. PICK s \in {"cancelled", "rejected"} :
              dispatch' = [dispatch EXCEPT ![a].state = s, ![a].lease = Nobody]
        BY <4>2 DEF Suppressed
      <4>31. dispatch \in [Attempts -> DispatchRows]
        BY <1>0 DEF DispatchOK
      <4>4. dispatch' \in [Attempts -> DispatchRows]
        BY <4>3, <4>31 DEF DispatchRows
      <4> QED BY <1>0, <4>1, <4>4 DEF DispatchOK
    <3> QED BY <3>2, <3>3
  <2>2. CASE CheckDispatch(d) \/ EnqueueSource(d) \/ AcknowledgeDispatch(d) \/ DispatchFails(d)
    <3> DEFINE a == dispatcher[d].attempt
    <3>1. a \in Attempts
      BY <1>0, <2>2 DEF CheckDispatch, EnqueueSource, AcknowledgeDispatch, DispatchFails, DispatchOK
    <3>2. \/ dispatcher' = [dispatcher EXCEPT ![d] = NoDispatch]
          \/ dispatcher' = [dispatcher EXCEPT ![d].stage = "checked"]
          \/ dispatcher' = [dispatcher EXCEPT ![d].stage = "enqueued"]
      BY <2>2 DEF CheckDispatch, EnqueueSource, AcknowledgeDispatch, DispatchFails
    <3>3. \/ UNCHANGED dispatch
          \/ dispatch' = Suppressed(a)
          \/ \E s \in {"delivered", "pending"} :
               dispatch' = [dispatch EXCEPT ![a].state = s, ![a].lease = Nobody]
      BY <2>2 DEF CheckDispatch, EnqueueSource, AcknowledgeDispatch, DispatchFails
    <3>4. dispatch' \in [Attempts -> DispatchRows]
      BY <1>0, <3>1, <3>3 DEF Suppressed, DispatchOK, DispatchRows
    <3> QED BY <1>0, <3>1, <3>2, <3>4 DEF NoDispatch, DispatchOK
  <2> QED BY <1>3, <2>1, <2>2 DEF Dispatches
<1>4. ASSUME NEW w \in Workers, Works(w) \/ SafeRetry(w) \/ LoseLock(w) PROVE DispatchOK'
  BY <1>0, <1>4, WorkFrame DEF DispatchOK
<1>5. ASSUME NEW a \in Attempts, Ingests(a) PROVE DispatchOK'
  BY <1>0, <1>5, IngestFrame DEF DispatchOK
<1>6. ASSUME NEW f \in Finalizers, Finalizes(f) PROVE DispatchOK'
  BY <1>0, <1>6, FinalFrame DEF DispatchOK
<1>7. CASE RedispatchStale \/ QuarantineStale
  <2>1. UNCHANGED dispatcher
    BY <1>7, StaleFrame
  <2>2. last \in Attempts
    BY <1>0 DEF RequestOK
  <2>3. \/ UNCHANGED dispatch
        \/ dispatch' = [dispatch EXCEPT ![last].state = "pending", ![last].lease = Nobody]
    BY <1>7 DEF RedispatchStale, QuarantineStale
  <2> QED BY <1>0, <2>1, <2>2, <2>3 DEF DispatchOK, DispatchRows
<1>8. ASSUME \/ AdoptSuccess \/ \E by \in {"operator", "automatic"} : ConfirmFailed(by)
             \/ \E cause \in {"operator_manual", "incident"} : OperatorRefund(cause)
      PROVE  DispatchOK'
  BY <1>0, <1>8 DEF AdoptSuccess, ConfirmFailed, OperatorRefund, DecisionUnchanged, queues, DispatchOK
<1> QED BY <1>1, <1>2, <1>3, <1>4, <1>5, <1>6, <1>7, <1>8 DEF Next
-----------------------------------------------------------------------------
(* The worker's queue and its workers *)

\* Removing a job leaves a job that was never run.
LEMMA WithoutType ==
  ASSUME WorkOK, NEW a \in Attempts
  PROVE  Without(a) \in [Attempts -> Jobs]
<1>1. CASE source[a].state = "active"
  BY <1>1 DEF Without, WorkOK
<1>2. CASE source[a].state # "active"
  <2> DEFINE job == [source[a] EXCEPT !.state = "none", !.made = 0, !.stalled = FALSE]
  <2>0. source[a] \in Jobs /\ 0 \in 0..MaxTransports
    BY GenerationAssumption DEF WorkOK, GenerationAssumption
  <2>1. job \in Jobs
    BY <1>2, <2>0 DEF Jobs
  <2>2. Without(a) = [source EXCEPT ![a] = job]
    BY <1>2 DEF Without
  <2> QED BY <2>1, <2>2 DEF WorkOK
<1> QED BY <1>1, <1>2

\* A run that ends, well or badly, leaves a job and an idle worker.
LEMMA RunEnds ==
  ASSUME WorkOK, NEW w \in Workers, worker[w].attempt \in Attempts,
         Thrown(w) \/ Completed(w)
  PROVE  WorkOK'
<1> DEFINE a == worker[w].attempt
<1>1. worker' = [worker EXCEPT ![w] = NoWork] /\ NoWork \in WorkRows
  BY DEF Thrown, Completed, NoWork, WorkRows
<1>2. CASE source[a].lock # w
  BY <1>1, <1>2 DEF Thrown, Completed, WorkOK
<1>3. CASE source[a].lock = w
  <2>1. source[a] \in Jobs /\ source[a].state = "active" /\ source[a].made + 1 \in 0..MaxTransports
    BY <1>3, GenerationAssumption DEF WorkOK, Jobs, GenerationAssumption
  <2>2. PICK s \in {"waiting", "completed", "failed"}, m \in {source[a].made, source[a].made + 1} :
          /\ s = "waiting" => m < MaxTransports
          /\ source' = [source EXCEPT ![a].state = s, ![a].made = m, ![a].lock = Nobody]
    <3>1. CASE Thrown(w)
      <4> DEFINE s == IF source[a].made + 1 < MaxTransports THEN "waiting" ELSE "failed"
      <4>1. source' = [source EXCEPT ![a].state = s, ![a].made = source[a].made + 1, ![a].lock = Nobody]
        BY <1>3, <3>1 DEF Thrown, WorkOK
      <4> QED BY <4>1
    <3>2. CASE Completed(w)
      <4>1. source' = [source EXCEPT ![a].state = "completed", ![a].made = source[a].made, ![a].lock = Nobody]
        BY <1>3, <2>1, <3>2 DEF Completed, WorkOK, Jobs
      <4> QED BY <4>1
    <3> QED BY <3>1, <3>2
  <2> DEFINE job == [source[a] EXCEPT !.state = s, !.made = m, !.lock = Nobody]
  <2>3. job \in Jobs
    BY <2>1, <2>2 DEF Jobs
  <2>4. source' = [source EXCEPT ![a] = job]
    BY <2>2 DEF WorkOK
  <2> QED BY <1>1, <2>3, <2>4 DEF WorkOK
<1> QED BY <1>2, <1>3

LEMMA WorkerTypes ==
  ASSUME WorkOK, NEW w \in Workers, worker[w].stage # "idle"
  PROVE  worker[w].attempt \in Attempts /\ worker[w].no \in Transports
  BY DEF WorkOK, WorkRows

LEMMA WorkStep ==
  ASSUME IInv, Next
  PROVE  WorkOK'
<1>0. WorkOK /\ DispatchOK /\ RequestOK /\ RecordOK /\ last \in Attempts
  BY DEF IInv, TypeInv, RequestOK
<1>a. ASSUME NEW a \in Attempts, UNCHANGED worker, source' = source \/ source' = Without(a)
      PROVE  WorkOK'
  BY <1>0, <1>a, WithoutType DEF WorkOK
<1>1. CASE CancelBeforeDispatch \/ Retry \/ AdoptSuccess
           \/ \E cause \in {"operator_manual", "incident"} : OperatorRefund(cause)
  BY <1>0, <1>1 DEF CancelBeforeDispatch, Cancel, Retry, AdoptSuccess, OperatorRefund,
                    DecisionUnchanged, gen, WorkOK
<1>2. CASE OperatorCancel \/ \E by \in {"operator", "automatic"} : ConfirmFailed(by)
  <2>1. UNCHANGED worker /\ MaybeRemoved(last)
    BY <1>2 DEF OperatorCancel, Cancel, ConfirmFailed, DecisionUnchanged
  <2> QED BY <1>0, <1>a, <2>1 DEF MaybeRemoved
<1>3. ASSUME NEW d \in Dispatchers, Dispatches(d) \/ DispatchFails(d) PROVE WorkOK'
  <2> DEFINE a == dispatcher[d].attempt
  <2>0. UNCHANGED worker
    BY <1>3, DispatchFrame
  <2>1. CASE (\E b \in Attempts : ClaimDispatch(d, b)) \/ CheckDispatch(d)
    BY <1>0, <2>0, <2>1 DEF ClaimDispatch, CheckDispatch, WorkOK
  <2>2. CASE EnqueueSource(d)
    <3>1. a \in Attempts
      BY <1>0, <2>2 DEF EnqueueSource, DispatchOK
    <3>2. CASE source[a].state = "none"
      <4> DEFINE job == [source[a] EXCEPT !.state = "waiting"]
      <4>1. source[a] \in Jobs
        BY <1>0, <3>1 DEF WorkOK
      <4>2. job \in Jobs
        BY <3>2, <4>1, GenerationAssumption DEF Jobs, GenerationAssumption
      <4>3. source' = [source EXCEPT ![a] = job]
        BY <1>0, <2>2, <3>1, <3>2 DEF EnqueueSource, WorkOK
      <4> QED BY <1>0, <2>0, <4>2, <4>3 DEF WorkOK
    <3>3. CASE source[a].state # "none"
      BY <1>0, <2>0, <2>2, <3>3 DEF EnqueueSource, WorkOK
    <3> QED BY <3>2, <3>3
  <2>3. CASE AcknowledgeDispatch(d) \/ DispatchFails(d)
    <3>1. a \in Attempts
      BY <1>0, <2>3 DEF AcknowledgeDispatch, DispatchFails, DispatchOK
    <3>2. source' = source \/ source' = Without(a)
      BY <2>3 DEF AcknowledgeDispatch, DispatchFails
    <3> QED BY <1>a, <2>0, <3>1, <3>2
  <2> QED BY <1>3, <2>1, <2>2, <2>3 DEF Dispatches
<1>4. ASSUME NEW w \in Workers, Works(w) \/ SafeRetry(w) \/ LoseLock(w) PROVE WorkOK'
  <2>1. CASE \E a \in Attempts : TakeSource(w, a)
    <3>1. PICK a \in Attempts : TakeSource(w, a)
      BY <2>1
    <3> DEFINE job == [source[a] EXCEPT !.state = "active", !.lock = w]
               stage == IF record[a] = NoRecord THEN "prepare" ELSE "persisted"
               run == [attempt |-> a, no |-> source[a].made + 1, stage |-> stage]
    <3>2. source[a] \in Jobs /\ source[a].state = "waiting"
      BY <1>0, <3>1 DEF TakeSource, WorkOK
    <3>3. job \in Jobs
      BY <3>2 DEF Jobs
    <3>4. source[a].made + 1 \in Transports
      BY <3>2, GenerationAssumption DEF Jobs, Transports, GenerationAssumption
    <3>5. run \in WorkRows
      BY <3>4 DEF WorkRows
    <3>6. source' = [source EXCEPT ![a] = job] /\ worker' = [worker EXCEPT ![w] = run]
      BY <1>0, <3>1 DEF TakeSource, WorkOK
    <3> QED BY <1>0, <3>3, <3>5, <3>6 DEF WorkOK
  <2>2. CASE \/ StopPreparation(w) \/ Authorize(w) \/ AskProvider(w) \/ FindsEarlierCall(w)
             \/ ProviderAnswers(w)
    <3>1. worker[w].stage # "idle"
      BY <2>2 DEF StopPreparation, Authorize, AskProvider, FindsEarlierCall, ProviderAnswers, At
    <3>2. UNCHANGED source
      BY <2>2 DEF StopPreparation, Authorize, AskProvider, FindsEarlierCall, ProviderAnswers, Persist
    <3>3. \E s \in {"authorized", "invoking", "persisted"} : worker' = [worker EXCEPT ![w].stage = s]
      BY <2>2 DEF StopPreparation, Authorize, AskProvider, FindsEarlierCall, ProviderAnswers, Persist,
                  Becomes
    <3>4. PICK s \in {"authorized", "invoking", "persisted"} : worker' = [worker EXCEPT ![w].stage = s]
      BY <3>3
    <3> DEFINE run == [worker[w] EXCEPT !.stage = s]
    <3>5. run \in WorkRows
      BY <1>0, <3>1 DEF WorkOK, WorkRows
    <3>6. worker' = [worker EXCEPT ![w] = run]
      BY <1>0, <3>4 DEF WorkOK
    <3> QED BY <1>0, <3>2, <3>5, <3>6 DEF WorkOK
  <2>3. CASE CannotPersist(w) \/ RunFails(w) \/ AcknowledgeRecord(w) \/ SafeRetry(w)
    <3>1. worker[w].stage # "idle"
      BY <2>3 DEF CannotPersist, RunFails, AcknowledgeRecord, SafeRetry, At
    <3>2. Thrown(w) \/ Completed(w)
      BY <2>3 DEF CannotPersist, PersistenceUnknown, RunFails, AcknowledgeRecord, SafeRetry
    <3> QED BY <1>0, <3>1, <3>2, WorkerTypes, RunEnds
  <2>4. CASE LoseLock(w)
    <3> DEFINE a == worker[w].attempt
    <3>1. a \in Attempts /\ source[a].lock = w
      BY <1>0, <2>4, WorkerTypes DEF LoseLock, At
    <3>2. source[a] \in Jobs /\ source[a].state = "active"
      BY <1>0, <3>1, GenerationAssumption DEF WorkOK, Jobs, GenerationAssumption
    <3>3. PICK s \in {"waiting", "failed"} :
            source' = [source EXCEPT ![a].lock = Nobody, ![a].stalled = TRUE, ![a].state = s]
      BY <2>4 DEF LoseLock
    <3> DEFINE job == [source[a] EXCEPT !.lock = Nobody, !.stalled = TRUE, !.state = s]
    <3>4. job \in Jobs
      BY <3>2 DEF Jobs
    <3>5. source' = [source EXCEPT ![a] = job]
      BY <1>0, <3>3 DEF WorkOK
    <3>6. worker' \in [Workers -> WorkRows]
      BY <1>0, <2>4 DEF LoseLock, NoWork, WorkOK, WorkRows
    <3> QED BY <1>0, <3>4, <3>5, <3>6 DEF WorkOK
  <2> QED BY <1>4, <2>1, <2>2, <2>3, <2>4 DEF Works
<1>5. ASSUME NEW a \in Attempts, Ingests(a) PROVE WorkOK'
  <2>1. UNCHANGED worker
    BY <1>5, IngestFrame
  <2>2. CASE RecoverFailedSource(a)
    <3> DEFINE job == [source[a] EXCEPT !.state = "waiting", !.made = 0]
    <3>1. source[a] \in Jobs /\ source[a].state = "failed"
      BY <1>0, <2>2 DEF RecoverFailedSource, WorkOK
    <3>2. 0 \in 0..MaxTransports /\ 0 < MaxTransports
      BY GenerationAssumption DEF GenerationAssumption
    <3>3. job \in Jobs
      BY <3>1, <3>2 DEF Jobs
    <3>4. source' = [source EXCEPT ![a] = job]
      BY <1>0, <2>2 DEF RecoverFailedSource, WorkOK
    <3> QED BY <1>0, <2>1, <3>3, <3>4 DEF WorkOK
  <2>3. CASE ~RecoverFailedSource(a)
    BY <1>0, <1>5, <2>1, <2>3 DEF Ingests, DispatchFinal, IngestRecord, IngestLate,
         IngestResolution, IngestDuplicate, IngestUnchanged, gen, WorkOK
  <2> QED BY <2>2, <2>3
<1>6. ASSUME NEW f \in Finalizers, Finalizes(f) PROVE WorkOK'
  <2>1. UNCHANGED worker
    BY <1>6, FinalFrame
  <2>2. UNCHANGED source \/ \E a \in Attempts : source' = Without(a)
    BY <1>6 DEF Finalizes, StartFinal, MarkModerating, ModerateOutput, CompleteRequest,
                ReturnRequest, HoldRequest, FinalFails
  <2> QED BY <1>0, <1>a, <2>1, <2>2
<1>7. CASE RedispatchStale
  <2>1. UNCHANGED worker
    BY <1>7, StaleFrame
  <2>2. \/ UNCHANGED source
        \/ source[last].state = "failed" /\ source' = [source EXCEPT ![last].replaced = TRUE]
        \/ \E b \in BOOLEAN : source' = [source EXCEPT ![last] = [NoJob EXCEPT !.replaced = b]]
    <3>1. source[last].replaced \in BOOLEAN
      BY <1>0 DEF WorkOK, Jobs
    <3> QED BY <1>7, <3>1 DEF RedispatchStale
  <2>3. CASE UNCHANGED source
    BY <1>0, <2>1, <2>3 DEF WorkOK
  <2>4. CASE source[last].state = "failed" /\ source' = [source EXCEPT ![last].replaced = TRUE]
    <3> DEFINE job == [source[last] EXCEPT !.replaced = TRUE]
    <3>1. job \in Jobs
      BY <1>0, <2>4 DEF WorkOK, Jobs
    <3>2. source' = [source EXCEPT ![last] = job]
      BY <1>0, <2>4 DEF WorkOK
    <3> QED BY <1>0, <2>1, <3>1, <3>2 DEF WorkOK
  <2>5. ASSUME NEW b \in BOOLEAN, source' = [source EXCEPT ![last] = [NoJob EXCEPT !.replaced = b]]
        PROVE  WorkOK'
    <3>1. [NoJob EXCEPT !.replaced = b] \in Jobs
      <4>1. 0 \in 0..MaxTransports
        BY GenerationAssumption DEF GenerationAssumption
      <4>2. NoJob \in Jobs
        BY <4>1 DEF NoJob, Jobs
      <4>3. \A job \in Jobs : [job EXCEPT !.replaced = b] \in Jobs
        BY DEF Jobs
      <4> QED BY <4>2, <4>3
    <3> QED BY <1>0, <2>1, <2>5, <3>1 DEF WorkOK
  <2> QED BY <2>2, <2>3, <2>4, <2>5
<1>8. CASE QuarantineStale
  <2>1. UNCHANGED worker
    BY <1>8, StaleFrame
  <2>2. source' = source \/ source' = Without(last)
    BY <1>8 DEF QuarantineStale, MaybeRemoved
  <2> QED BY <1>0, <1>a, <2>1, <2>2
<1> QED BY <1>1, <1>2, <1>3, <1>4, <1>5, <1>6, <1>7, <1>8 DEF Next
-----------------------------------------------------------------------------
(* Records, and what follows from them *)

\* A record is written once, by a run in hand, and is what the provider may answer.
LEMMA PersistType ==
  ASSUME RecordOK, NEW a \in Attempts, NEW n \in Transports, NEW o \in Outcomes,
         NEW k \in 0..Outputs, NEW again \in BOOLEAN, NEW invoked \in BOOLEAN,
         o = "succeeded" => k > 0,
         record' = [record EXCEPT ![a] = [outcome |-> o, outputs |-> k, again |-> again,
                                          no |-> n, invoked |-> invoked]]
  PROVE  /\ record' \in [Attempts -> Records \cup {NoRecord}]
         /\ record'[a] # NoRecord
         /\ \A b \in Attempts : record'[b] # NoRecord /\ record'[b].outcome = "succeeded"
                                  => record'[b].outputs > 0
         /\ \A b \in Attempts \ {a} : record'[b] = record[b]
<1> DEFINE r == [outcome |-> o, outputs |-> k, again |-> again, no |-> n, invoked |-> invoked]
<1>1. r \in Records /\ r # NoRecord
  <2>1. r \in Records
    BY DEF Records
  <2> QED BY <2>1, GenerationAssumption DEF GenerationAssumption
<1>2. record' = [record EXCEPT ![a] = r] /\ r.outcome = o /\ r.outputs = k
  OBVIOUS
<1> HIDE DEF r
<1>3. \A b \in Attempts : record'[b] = IF b = a THEN r ELSE record[b]
  BY <1>2 DEF RecordOK
<1> QED BY <1>1, <1>2, <1>3 DEF RecordOK

\* What a worker may write down.
LEMMA WorkerPersists ==
  ASSUME WorkOK, NEW w \in Workers,
         StopPreparation(w) \/ FindsEarlierCall(w) \/ ProviderAnswers(w)
  PROVE  /\ worker[w].attempt \in Attempts /\ worker[w].no \in Transports
         /\ record[worker[w].attempt] = NoRecord
         /\ UNCHANGED <<guard, asked, relay>>
         /\ worker' = [worker EXCEPT ![w].stage = "persisted"]
         /\ \E o \in Outcomes, k \in 0..Outputs, again, invoked \in BOOLEAN :
              /\ o = "succeeded" => k > 0
              /\ record' = [record EXCEPT ![worker[w].attempt] =
                              [outcome |-> o, outputs |-> k, again |-> again,
                               no |-> worker[w].no, invoked |-> invoked]]
<1>1. worker[w].stage # "idle"
  BY DEF StopPreparation, FindsEarlierCall, ProviderAnswers, At
<1>2. 0 \in 0..Outputs /\ \A k \in 1..Outputs : k \in 0..Outputs /\ k > 0
  BY GenerationAssumption DEF GenerationAssumption
<1>3. \E o \in Outcomes, k \in 0..Outputs, again, invoked \in BOOLEAN :
        (o = "succeeded" => k > 0) /\ Persist(w, o, k, again, invoked)
  <2>1. CASE StopPreparation(w)
    <3>1. \E o \in Outcomes \ {"succeeded"}, again, invoked \in BOOLEAN : Persist(w, o, 0, again, invoked)
      BY <2>1 DEF StopPreparation, Outcomes
    <3> QED BY <1>2, <3>1
  <2>2. CASE FindsEarlierCall(w)
    <3>1. Persist(w, "unknown", 0, FALSE, TRUE)
      BY <2>2 DEF FindsEarlierCall
    <3> QED BY <1>2, <3>1 DEF Outcomes
  <2>3. CASE ProviderAnswers(w)
    <3>1. \/ \E k \in 1..Outputs : Persist(w, "succeeded", k, FALSE, TRUE)
          \/ \E o \in Outcomes \ {"succeeded"}, again \in BOOLEAN : Persist(w, o, 0, again, TRUE)
      BY <2>3 DEF ProviderAnswers, Outcomes
    <3> QED BY <1>2, <3>1 DEF Outcomes
  <2> QED BY <2>1, <2>2, <2>3
<1>4. UNCHANGED <<guard, asked, relay>>
  BY DEF StopPreparation, FindsEarlierCall, ProviderAnswers
<1>5. worker[w].attempt \in Attempts /\ worker[w].no \in Transports
  BY <1>1, WorkerTypes
<1>6. PICK o \in Outcomes, k \in 0..Outputs, again \in BOOLEAN, invoked \in BOOLEAN :
        (o = "succeeded" => k > 0) /\ Persist(w, o, k, again, invoked)
  BY <1>3
<1>7. /\ record[worker[w].attempt] = NoRecord
      /\ worker' = [worker EXCEPT ![w].stage = "persisted"]
      /\ record' = [record EXCEPT ![worker[w].attempt] =
                      [outcome |-> o, outputs |-> k, again |-> again,
                       no |-> worker[w].no, invoked |-> invoked]]
  BY <1>6 DEF Persist, Becomes
<1>8. \E o1 \in Outcomes, k1 \in 0..Outputs, again1, invoked1 \in BOOLEAN :
        /\ o1 = "succeeded" => k1 > 0
        /\ record' = [record EXCEPT ![worker[w].attempt] =
                        [outcome |-> o1, outputs |-> k1, again |-> again1,
                         no |-> worker[w].no, invoked |-> invoked1]]
  BY <1>6, <1>7
<1> QED BY <1>4, <1>5, <1>7, <1>8

\* A finalizer that takes a job up, goes on with it or puts it down.
FinalRow(row) ==
  row.stage # "idle" =>
    /\ row.attempt \in Attempts
    /\ record[row.attempt] # NoRecord
    /\ row.stage \in {"moderate", "moderated", "commit"} => record[row.attempt].outcome = "succeeded"

FinalRows == [attempt : Attempts \cup {0}, existing : Nat,
  stage : {"idle", "moderate", "moderated", "commit", "failed", "blocked", "hold"}]

LEMMA FinalizerMoves ==
  ASSUME RecordOK, NEW f \in Finalizers, NEW a \in Attempts, NEW row \in FinalRows,
         record[a] # NoRecord, FinalRow(row),
         finalizer' = [finalizer EXCEPT ![f] = row],
         final' = final \/ final' = [final EXCEPT ![a] = "done"],
         UNCHANGED <<guard, record, relay, asked, receipt, recovered, worker>>
  PROVE  RecordOK'
<1>1. final' \in [Attempts -> {"none", "pending", "queued", "done"}]
  BY DEF RecordOK
<1>2. finalizer' \in [Finalizers -> FinalRows]
  BY DEF RecordOK, FinalRows
<1>3. \A b \in Attempts : final'[b] # "none" => final[b] # "none" \/ b = a
  BY DEF RecordOK
<1>4. \A g \in Finalizers : finalizer'[g] = IF g = f THEN row ELSE finalizer[g]
  BY DEF RecordOK
<1>5. \A g \in Finalizers : FinalRow(finalizer[g])
  BY DEF RecordOK, FinalRow
<1>6. \A g \in Finalizers : FinalRow(finalizer'[g])
  BY <1>4, <1>5
<1>7. \A b \in Attempts : relay[b] # "none" \/ final'[b] # "none" \/ b \in recovered => record[b] # NoRecord
  BY <1>3 DEF RecordOK
<1> QED BY <1>1, <1>2, <1>6, <1>7 DEF RecordOK, FinalRow, FinalRows

LEMMA FinalStep ==
  ASSUME TypeInv, NEW f \in Finalizers, Finalizes(f)
  PROVE  RecordOK'
<1>0. RecordOK /\ RequestOK
  BY DEF TypeInv
<1>1. UNCHANGED <<guard, record, relay, asked, receipt, recovered, worker>>
  BY FinalFrame
<1>2. NoFinal \in FinalRows /\ FinalRow(NoFinal)
  BY DEF NoFinal, FinalRow, FinalRows
<1>3. finalizer \in [Finalizers -> FinalRows]
  BY <1>0 DEF RecordOK, FinalRows
<1>4. CASE \E a \in Attempts : StartFinal(f, a)
  <2>1. PICK a \in Attempts : StartFinal(f, a)
    BY <1>4
  <2>2. record[a] # NoRecord /\ record[a] \in Records
    BY <1>0, <2>1 DEF StartFinal, RecordOK
  <2>3. CASE Ends(f, a)
    BY <1>0, <1>1, <1>2, <2>2, <2>3, FinalizerMoves DEF Ends
  <2>4. CASE ~Ends(f, a)
    <3> DEFINE row == [finalizer[f] EXCEPT !.attempt = a, !.stage = FirstStage(record[a].outcome)]
    <3>1. finalizer' = [finalizer EXCEPT ![f] = row] /\ UNCHANGED final
      BY <1>3, <2>1, <2>4 DEF StartFinal
    <3>2. record[a].outcome \in Outcomes
      BY <2>2 DEF Records
    <3>3. /\ FirstStage(record[a].outcome) \in {"moderate", "hold", "failed", "blocked"}
          /\ FirstStage(record[a].outcome) = "moderate" => record[a].outcome = "succeeded"
      BY <3>2 DEF FirstStage, Outcomes
    <3>4. row.attempt = a /\ row.stage = FirstStage(record[a].outcome) /\ row \in FinalRows
      BY <1>3, <3>3 DEF FinalRows
    <3>5. FinalRow(row)
      BY <2>2, <3>3, <3>4 DEF FinalRow
    <3> QED BY <1>0, <1>1, <2>2, <3>1, <3>4, <3>5, FinalizerMoves
  <2> QED BY <2>3, <2>4
<1>5. CASE finalizer[f].stage # "idle"
  <2> DEFINE a == finalizer[f].attempt
  <2>1. a \in Attempts /\ record[a] # NoRecord /\ FinalRow(finalizer[f]) /\ finalizer[f] \in FinalRows
    BY <1>0, <1>3, <1>5 DEF RecordOK, FinalRow
  <2>2. CASE Ends(f, a)
    BY <1>0, <1>1, <1>2, <2>1, <2>2, FinalizerMoves DEF Ends
  <2>3. CASE MarkModerating(f) /\ ~Ends(f, a)
    <3> DEFINE row == [finalizer[f] EXCEPT !.stage = "moderated"]
    <3>1. finalizer' = [finalizer EXCEPT ![f] = row] /\ UNCHANGED final /\ finalizer[f].stage = "moderate"
      BY <1>3, <2>3 DEF MarkModerating
    <3>2. row.stage = "moderated" /\ row.attempt = a /\ row \in FinalRows
      BY <2>1 DEF FinalRows
    <3>3. FinalRow(row)
      BY <2>1, <3>1, <3>2 DEF FinalRow
    <3> QED BY <1>0, <1>1, <2>1, <3>1, <3>2, <3>3, FinalizerMoves
  <2>4. CASE ModerateOutput(f)
    <3>1. PICK s \in {"commit", "blocked"}, k \in {assets, finalizer[f].existing} :
            finalizer' = [finalizer EXCEPT ![f].stage = s, ![f].existing = k]
      <4>1. CASE finalizer' = [finalizer EXCEPT ![f].stage = "blocked"]
        <5>1. finalizer' = [finalizer EXCEPT ![f].stage = "blocked", ![f].existing = finalizer[f].existing]
          BY <1>3, <4>1 DEF FinalRows
        <5> QED BY <5>1
      <4> QED BY <2>4, <4>1 DEF ModerateOutput
    <3> DEFINE row == [finalizer[f] EXCEPT !.stage = s, !.existing = k]
    <3>2. finalizer' = [finalizer EXCEPT ![f] = row] /\ UNCHANGED final /\ finalizer[f].stage = "moderated"
      BY <1>3, <2>4, <3>1 DEF ModerateOutput
    <3>3. k \in Nat
      BY <1>0, <2>1, <3>1 DEF RequestOK, FinalRows
    <3>4. row.stage = s /\ row.attempt = a /\ row \in FinalRows
      BY <2>1, <3>3 DEF FinalRows
    <3>5. FinalRow(row)
      BY <2>1, <3>2, <3>4 DEF FinalRow
    <3> QED BY <1>0, <1>1, <2>1, <3>2, <3>4, <3>5, FinalizerMoves
  <2>5. CASE FinalFails(f)
    BY <1>0, <1>1, <1>2, <2>1, <2>5, FinalizerMoves DEF FinalFails
  <2>6. CASE CompleteRequest(f) \/ ReturnRequest(f) \/ HoldRequest(f)
    BY <2>2, <2>6 DEF CompleteRequest, ReturnRequest, HoldRequest
  <2>7. CASE \E b \in Attempts : StartFinal(f, b)
    BY <1>4, <2>7
  <2> QED BY <2>2, <2>3, <2>4, <2>5, <2>6, <2>7 DEF Finalizes
<1>6. CASE finalizer[f].stage = "idle"
  BY <1>4, <1>6 DEF Finalizes, MarkModerating, ModerateOutput, CompleteRequest, ReturnRequest,
                    HoldRequest, FinalFails
<1> QED BY <1>5, <1>6

LEMMA IngestStep ==
  ASSUME TypeInv, NEW a \in Attempts, Ingests(a)
  PROVE  RecordOK'
<1>0. RecordOK
  BY DEF TypeInv
<1>1. UNCHANGED <<finalizer, guard, record, worker, asked>>
  BY IngestFrame
<1>2. CASE RecoverFailedSource(a)
  BY <1>0, <1>1, <1>2 DEF RecoverFailedSource, WorkUnchanged, ingest, RecordOK
<1>3. CASE DispatchFinal(a)
  <2>1. final' = [final EXCEPT ![a] = "queued"] /\ final[a] # "none" /\ UNCHANGED <<relay, receipt, recovered>>
    BY <1>3 DEF DispatchFinal, gen
  <2> QED BY <1>0, <1>1, <2>1 DEF RecordOK
<1>4. CASE IngestRecord(a) \/ IngestLate(a) \/ IngestResolution(a) \/ IngestDuplicate(a)
  <2>1. relay[a] = "waiting" /\ record[a] # NoRecord
    BY <1>0, <1>4 DEF IngestRecord, IngestLate, IngestResolution, IngestDuplicate, RecordOK
  <2>2. relay' = relay \/ relay' = [relay EXCEPT ![a] = "done"]
    BY <1>4 DEF IngestRecord, IngestLate, IngestResolution, IngestDuplicate, RelayEnds
  <2>3. receipt' \subseteq receipt \cup {a}
    BY <1>4 DEF IngestRecord, IngestLate, IngestResolution, IngestDuplicate, ingest
  <2>4. \/ recovered' = recovered
        \/ recovered' = recovered \cup {a} /\ record[a].outcome = "succeeded"
    BY <1>4 DEF IngestRecord, IngestLate, IngestResolution, IngestDuplicate, ingest
  <2>5. final' = final \/ final' = [final EXCEPT ![a] = "pending"]
    BY <1>4 DEF IngestRecord, IngestLate, IngestResolution, IngestDuplicate, ingest
  <2>6. relay' \in [Attempts -> {"none", "waiting", "done"}]
    BY <1>0, <2>2 DEF RecordOK
  <2>7. final' \in [Attempts -> {"none", "pending", "queued", "done"}]
    BY <1>0, <2>5 DEF RecordOK
  <2>8. receipt' \subseteq Attempts /\ recovered' \subseteq Attempts
    BY <1>0, <2>3, <2>4 DEF RecordOK
  <2>9. \A b \in Attempts :
          relay'[b] # "none" \/ final'[b] # "none" \/ b \in recovered' => record[b] # NoRecord
    BY <1>0, <2>1, <2>2, <2>4, <2>5 DEF RecordOK
  <2>10. \A b \in Attempts : b \in recovered' => record[b].outcome = "succeeded"
    BY <1>0, <2>4 DEF RecordOK
  <2> QED BY <1>0, <1>1, <2>6, <2>7, <2>8, <2>9, <2>10 DEF RecordOK
<1> QED BY <1>2, <1>3, <1>4 DEF Ingests

LEMMA WorkerStep ==
  ASSUME TypeInv, NEW w \in Workers, Works(w) \/ SafeRetry(w) \/ LoseLock(w)
  PROVE  RecordOK'
<1>0. RecordOK /\ WorkOK
  BY DEF TypeInv
<1>1. UNCHANGED <<receipt, recovered, final, finalizer>>
  BY WorkFrame
<1> DEFINE a == worker[w].attempt
<1>2. CASE \E b \in Attempts : TakeSource(w, b)
  <2>1. PICK b \in Attempts : TakeSource(w, b)
    BY <1>2
  <2>2. UNCHANGED <<guard, record, relay, asked>>
    BY <2>1 DEF TakeSource, blob
  <2>3. \A v \in Workers : worker'[v].stage = "persisted" => record[worker'[v].attempt] # NoRecord
    BY <1>0, <2>1 DEF TakeSource, WorkOK, RecordOK
  <2> QED BY <1>0, <1>1, <2>2, <2>3 DEF RecordOK
<1>3. CASE StopPreparation(w) \/ FindsEarlierCall(w) \/ ProviderAnswers(w)
  <2>1. /\ a \in Attempts /\ worker[w].no \in Transports
        /\ record[a] = NoRecord
        /\ UNCHANGED <<guard, asked, relay>>
        /\ worker' = [worker EXCEPT ![w].stage = "persisted"]
    BY <1>0, <1>3, WorkerPersists
  <2>2. PICK o \in Outcomes, k \in 0..Outputs, again \in BOOLEAN, invoked \in BOOLEAN :
          /\ o = "succeeded" => k > 0
          /\ record' = [record EXCEPT ![a] = [outcome |-> o, outputs |-> k, again |-> again,
                                              no |-> worker[w].no, invoked |-> invoked]]
    BY <1>0, <1>3, WorkerPersists
  <2>3. /\ record' \in [Attempts -> Records \cup {NoRecord}]
        /\ record'[a] # NoRecord
        /\ \A b \in Attempts : record'[b] # NoRecord /\ record'[b].outcome = "succeeded"
                                 => record'[b].outputs > 0
        /\ \A b \in Attempts \ {a} : record'[b] = record[b]
    BY <1>0, <2>1, <2>2, PersistType
  <2>4. \A v \in Workers : worker'[v].stage = "persisted" => record'[worker'[v].attempt] # NoRecord
    <3>1. \A v \in Workers : worker[v].stage = "persisted" => worker[v].attempt \in Attempts
      BY <1>0 DEF WorkOK, WorkRows
    <3>2. \A v \in Workers : worker'[v].attempt = worker[v].attempt
                             /\ (v # w => worker'[v].stage = worker[v].stage)
      BY <1>0, <2>1 DEF WorkOK, WorkRows
    <3> QED BY <1>0, <2>1, <2>3, <3>1, <3>2 DEF RecordOK
  <2>5. \A b \in Attempts :
          /\ relay[b] # "none" \/ final[b] # "none" \/ b \in recovered => record'[b] # NoRecord
          /\ b \in recovered => record'[b].outcome = "succeeded"
    BY <1>0, <2>1, <2>3 DEF RecordOK
  <2>6. \A f \in Finalizers : finalizer[f].stage # "idle" =>
          /\ finalizer[f].attempt \in Attempts
          /\ record'[finalizer[f].attempt] # NoRecord
          /\ finalizer[f].stage \in {"moderate", "moderated", "commit"} =>
               record'[finalizer[f].attempt].outcome = "succeeded"
    BY <1>0, <2>1, <2>3 DEF RecordOK
  <2> QED BY <1>0, <1>1, <2>1, <2>3, <2>4, <2>5, <2>6 DEF RecordOK
<1>4. CASE Authorize(w) \/ AskProvider(w)
  <2>1. a \in Attempts /\ worker[w].no \in Transports
    BY <1>0, <1>4, WorkerTypes DEF Authorize, AskProvider, At
  <2>2. UNCHANGED <<record, relay>>
    BY <1>4 DEF Authorize, AskProvider, blob
  <2>3. guard' \in [Attempts -> Transports \cup {0}] /\ asked' \in [Attempts -> Nat]
    BY <1>0, <1>4, <2>1 DEF Authorize, AskProvider, blob, RecordOK
  <2>4. \E s \in {"authorized", "invoking"} : worker' = [worker EXCEPT ![w].stage = s]
    BY <1>4 DEF Authorize, AskProvider, Becomes
  <2>5. \A v \in Workers : worker'[v].stage = "persisted" => record[worker'[v].attempt] # NoRecord
    BY <1>0, <2>4 DEF WorkOK, WorkRows, RecordOK
  <2> QED BY <1>0, <1>1, <2>2, <2>3, <2>5 DEF RecordOK
<1>5. CASE CannotPersist(w) \/ RunFails(w) \/ AcknowledgeRecord(w) \/ SafeRetry(w) \/ LoseLock(w)
  <2>1. UNCHANGED <<guard, record, asked>>
    BY <1>5 DEF CannotPersist, RunFails, AcknowledgeRecord, SafeRetry, LoseLock, blob
  <2>2. worker' = worker \/ worker' = [worker EXCEPT ![w] = NoWork]
    BY <1>5 DEF CannotPersist, PersistenceUnknown, RunFails, AcknowledgeRecord, SafeRetry, LoseLock,
                Thrown, Completed
  <2>3. \A v \in Workers : worker'[v].stage = "persisted" => record[worker'[v].attempt] # NoRecord
    BY <1>0, <2>2 DEF WorkOK, WorkRows, RecordOK, NoWork
  <2>4. relay' = relay \/ (record[a] # NoRecord /\ relay' = [relay EXCEPT ![a] = "waiting"])
    BY <1>0, <1>5 DEF CannotPersist, RunFails, AcknowledgeRecord, SafeRetry, LoseLock, At, RecordOK
  <2>5. relay' \in [Attempts -> {"none", "waiting", "done"}]
    BY <1>0, <2>4 DEF RecordOK
  <2>6. \A b \in Attempts : relay'[b] # "none" => record[b] # NoRecord
    BY <1>0, <2>4 DEF RecordOK
  <2> QED BY <1>0, <1>1, <2>1, <2>3, <2>5, <2>6 DEF RecordOK
<1> QED BY <1>2, <1>3, <1>4, <1>5 DEF Works

LEMMA RecordStep ==
  ASSUME IInv, Next
  PROVE  RecordOK'
<1>0. TypeInv /\ RecordOK
  BY DEF IInv, TypeInv
<1>1. CASE \/ CancelBeforeDispatch \/ OperatorCancel \/ Retry \/ AdoptSuccess
           \/ \E by \in {"operator", "automatic"} : ConfirmFailed(by)
           \/ \E cause \in {"operator_manual", "incident"} : OperatorRefund(cause)
  BY <1>0, <1>1, DecisionFrame DEF RecordOK
<1>2. ASSUME NEW d \in Dispatchers, Dispatches(d) \/ DispatchFails(d) PROVE RecordOK'
  BY <1>0, <1>2, DispatchFrame DEF RecordOK
<1>3. CASE RedispatchStale \/ QuarantineStale
  BY <1>0, <1>3, StaleFrame DEF RecordOK
<1> QED BY <1>0, <1>1, <1>2, <1>3, WorkerStep, IngestStep, FinalStep DEF Next
-----------------------------------------------------------------------------
(* The Request, its refunds and its assets *)

\* The bound on stops, stalls and repeated deliveries is kept.
LEMMA StopsStep ==
  ASSUME RequestOK, Next
  PROVE  stops' \in 0..MaxStops
<1>1. stops' = stops \/ (stops < MaxStops /\ stops' = stops + 1)
  <2>1. CASE \/ CancelBeforeDispatch \/ OperatorCancel \/ Retry \/ AdoptSuccess
             \/ \E by \in {"operator", "automatic"} : ConfirmFailed(by)
             \/ \E cause \in {"operator_manual", "incident"} : OperatorRefund(cause)
    BY <2>1, DecisionFrame
  <2>2. ASSUME NEW d \in Dispatchers, Dispatches(d) \/ DispatchFails(d)
        PROVE  stops' = stops \/ (stops < MaxStops /\ stops' = stops + 1)
    BY <2>2 DEF Dispatches, DispatchFails, ClaimDispatch, CheckDispatch, EnqueueSource,
                AcknowledgeDispatch
  <2>3. ASSUME NEW w \in Workers, Works(w) \/ SafeRetry(w) \/ LoseLock(w)
        PROVE  stops' = stops \/ (stops < MaxStops /\ stops' = stops + 1)
    BY <2>3 DEF Works, SafeRetry, LoseLock, TakeSource, StopPreparation, Authorize, AskProvider,
                FindsEarlierCall, ProviderAnswers, CannotPersist, RunFails, AcknowledgeRecord
  <2>4. ASSUME NEW a \in Attempts, Ingests(a)
        PROVE  stops' = stops \/ (stops < MaxStops /\ stops' = stops + 1)
    BY <2>4 DEF Ingests, RecoverFailedSource, DispatchFinal, IngestRecord, IngestLate,
                IngestResolution, IngestDuplicate, RelayEnds
  <2>5. ASSUME NEW f \in Finalizers, Finalizes(f)
        PROVE  stops' = stops \/ (stops < MaxStops /\ stops' = stops + 1)
    BY <2>5 DEF Finalizes, StartFinal, MarkModerating, ModerateOutput, CompleteRequest,
                ReturnRequest, HoldRequest, FinalFails
  <2>6. CASE RedispatchStale \/ QuarantineStale
    BY <2>6 DEF RedispatchStale, QuarantineStale
  <2> QED BY <2>1, <2>2, <2>3, <2>4, <2>5, <2>6 DEF Next
<1> QED BY <1>1, GenerationAssumption DEF RequestOK, GenerationAssumption

\* What a step may do to the Request, its refunds and its assets.
Stays ==
  /\ UNCHANGED <<refunds, assets>>
  /\ \/ UNCHANGED request
     \/ request.status \in Active /\ request' = [request EXCEPT !.status = "moderating_output"]

GivesBack ==
  /\ request.status \in Active \cup {"failed"}
  /\ \E s \in {"failed", "blocked", "cancelled"}, b \in BOOLEAN :
       /\ request.status = "failed" => s = "failed"
       /\ request' = [status |-> s, confirmed |-> b, delivered |-> 0]
  /\ refunds' \in [Causes -> Nat] /\ refunds'["partial"] = refunds["partial"]
  /\ Refunded' = order.cost
  /\ UNCHANGED assets

Reopens ==
  /\ request.status = "failed"
  /\ request' = [status |-> "queued", confirmed |-> FALSE, delivered |-> 0]
  /\ UNCHANGED <<refunds, assets>>

Delivers(n) ==
  /\ request.status \in Active \/ (request.status = "failed" /\ order.cost = 0)
  /\ request' = [status |-> "completed", confirmed |-> FALSE, delivered |-> n]
  /\ assets' = n
  /\ refunds' \in [Causes -> Nat] /\ \A c \in Causes \ {"partial"} : refunds'[c] = refunds[c]
  /\ Refunded' = IF Refunded + Share(Outputs - n) < order.cost THEN Refunded + Share(Outputs - n)
                 ELSE order.cost

Compensates ==
  /\ UNCHANGED <<request, assets>>
  /\ refunds' \in [Causes -> Nat] /\ refunds'["partial"] = refunds["partial"]
  /\ Refunded' = order.cost

Moves == Stays \/ GivesBack \/ Reopens \/ Compensates \/ \E n \in 1..Outputs : Delivers(n)

\* A refund for missing outputs is the first of its kind.
LEMMA PartialRefund ==
  ASSUME RequestOK, MoneyOK, UNCHANGED order, request.status # "completed",
         NEW n \in 1..Outputs, Refund("partial", Share(Outputs - n))
  PROVE  /\ refunds' \in [Causes -> Nat] /\ \A c \in Causes \ {"partial"} : refunds'[c] = refunds[c]
         /\ Refunded' = IF Refunded + Share(Outputs - n) < order.cost
                        THEN Refunded + Share(Outputs - n) ELSE order.cost
<1>1. refunds["partial"] = 0
  BY DEF RequestOK, MoneyOK, Causes
<1>2. Outputs - n \in 0..Outputs
  BY GenerationAssumption DEF GenerationAssumption
<1>3. Share(Outputs - n) \in Nat /\ "partial" \in Causes
  BY <1>2, ShareNat DEF Causes
<1> QED BY <1>1, <1>3, RefundGives

LEMMA MovesStep ==
  ASSUME IInv, Next
  PROVE  UNCHANGED order /\ Moves
<1>0. RequestOK /\ RecordOK /\ MoneyOK /\ GoodsOK /\ last \in Attempts
  BY DEF IInv, TypeInv, RequestOK
<1>f. {"cancel", "failed", "unknown_confirmed", "operator_manual", "incident"} = Causes \ {"partial"}
  BY DEF Causes
<1>1. CASE CancelBeforeDispatch \/ OperatorCancel
  <2>1. UNCHANGED <<order, assets>> /\ request.status \in Active /\ Refund("cancel", order.cost)
    BY <1>1 DEF CancelBeforeDispatch, OperatorCancel, Cancel, Active
  <2>2. request' = [status |-> "cancelled", confirmed |-> request.confirmed, delivered |-> 0]
        /\ request.confirmed \in BOOLEAN
    BY <1>0, <1>1 DEF CancelBeforeDispatch, OperatorCancel, Cancel, RequestOK
  <2>3. refunds' \in [Causes -> Nat] /\ refunds'["partial"] = refunds["partial"] /\ Refunded' = order.cost
    BY <1>0, <1>f, <2>1, FullRefund
  <2>4. GivesBack
    BY <2>1, <2>2, <2>3 DEF GivesBack, Active
  <2> QED BY <2>1, <2>4 DEF Moves
<1>2. CASE Retry
  BY <1>2 DEF Retry, MayRetry, money, Moves, Reopens
<1>3. ASSUME NEW d \in Dispatchers, Dispatches(d) \/ DispatchFails(d) PROVE UNCHANGED order /\ Moves
  BY <1>3, DispatchFrame DEF Moves, Stays
<1>4. ASSUME NEW w \in Workers, Works(w) \/ SafeRetry(w) \/ LoseLock(w) PROVE UNCHANGED order /\ Moves
  BY <1>4, WorkFrame DEF Moves, Stays
<1>5. ASSUME NEW a \in Attempts, Ingests(a) PROVE UNCHANGED order /\ Moves
  BY <1>5, IngestFrame DEF Moves, Stays
<1>6. ASSUME NEW f \in Finalizers, Finalizes(f) PROVE UNCHANGED order /\ Moves
  <2> DEFINE a == finalizer[f].attempt
  <2>0. UNCHANGED order
    BY <1>6, FinalFrame
  <2>1. CASE \/ \E b \in Attempts : StartFinal(f, b)
             \/ MarkModerating(f) \/ ModerateOutput(f) \/ HoldRequest(f) \/ FinalFails(f)
    <3>1. Stays
      BY <2>1 DEF StartFinal, MarkModerating, ModerateOutput, HoldRequest, FinalFails, Stays
    <3> QED BY <2>0, <3>1 DEF Moves
  <2>2. CASE CompleteRequest(f)
    <3> DEFINE n == record[a].outputs
    <3>1. request.status = "moderating_output" /\ finalizer[f].stage = "commit"
      BY <2>2 DEF CompleteRequest, CanComplete
    <3>2. a \in Attempts /\ record[a] \in Records /\ record[a].outputs > 0
      BY <1>0, <3>1 DEF RecordOK
    <3>3. n \in 1..Outputs
      BY <3>2, GenerationAssumption DEF Records, GenerationAssumption
    <3>4. assets = 0 /\ finalizer[f].existing = 0
      BY <1>0, <3>1 DEF GoodsOK, RequestOK, RecordOK
    <3>5. assets' = n
      BY <2>2, <3>3, <3>4 DEF CompleteRequest
    <3>6. /\ request' = [status |-> "completed", confirmed |-> FALSE, delivered |-> n]
          /\ Refund("partial", Share(Outputs - n))
      BY <2>2 DEF CompleteRequest
    <3> HIDE DEF n
    <3>7. /\ refunds' \in [Causes -> Nat] /\ \A c \in Causes \ {"partial"} : refunds'[c] = refunds[c]
          /\ Refunded' = IF Refunded + Share(Outputs - n) < order.cost
                         THEN Refunded + Share(Outputs - n) ELSE order.cost
      BY <1>0, <2>0, <3>1, <3>3, <3>6, PartialRefund
    <3>8. Delivers(n)
      BY <3>1, <3>5, <3>6, <3>7 DEF Delivers, Active
    <3> QED BY <2>0, <3>3, <3>8 DEF Moves
  <2>3. CASE ReturnRequest(f)
    <3>1. CASE a = last /\ request.status \in Active
      <4>1. /\ UNCHANGED assets /\ Refund("failed", order.cost)
            /\ \E s \in {"failed", "blocked"} :
                 request' = [status |-> s, confirmed |-> FALSE, delivered |-> 0]
        BY <2>3, <3>1 DEF ReturnRequest
      <4>2. refunds' \in [Causes -> Nat] /\ refunds'["partial"] = refunds["partial"] /\ Refunded' = order.cost
        BY <1>0, <1>f, <2>0, <4>1, FullRefund
      <4>3. GivesBack
        BY <3>1, <4>1, <4>2 DEF GivesBack, Active
      <4> QED BY <2>0, <4>3 DEF Moves
    <3>2. CASE ~(a = last /\ request.status \in Active)
      BY <2>0, <2>3, <3>2 DEF ReturnRequest, Moves, Stays
    <3> QED BY <3>1, <3>2
  <2> QED BY <1>6, <2>1, <2>2, <2>3 DEF Finalizes
<1>7. CASE RedispatchStale \/ QuarantineStale
  BY <1>7, StaleFrame DEF Moves, Stays
<1>8. CASE \E by \in {"operator", "automatic"} : ConfirmFailed(by)
  <2>1. /\ UNCHANGED <<order, assets>> /\ Refund("unknown_confirmed", order.cost)
        /\ request.status \in Active \cup {"failed"}
        /\ request' = [status |-> "failed", confirmed |-> TRUE, delivered |-> 0]
    BY <1>8 DEF ConfirmFailed, MayConfirmFailed, DecisionUnchanged
  <2>2. refunds' \in [Causes -> Nat] /\ refunds'["partial"] = refunds["partial"] /\ Refunded' = order.cost
    BY <1>0, <1>f, <2>1, FullRefund
  <2>3. GivesBack
    BY <2>1, <2>2 DEF GivesBack
  <2> QED BY <2>1, <2>3 DEF Moves
<1>9. CASE AdoptSuccess
  <2> DEFINE n == record[last].outputs
  <2>1. /\ UNCHANGED order /\ last \in recovered /\ Refunded = 0 /\ assets = 0
        /\ request.status \in Active \cup {"failed"}
        /\ assets' = assets + n
        /\ request' = [status |-> "completed", confirmed |-> FALSE, delivered |-> n]
        /\ Refund("partial", Share(Outputs - n))
    BY <1>9 DEF AdoptSuccess, MayAdopt, Correctable, DecisionUnchanged
  <2>2. record[last] \in Records /\ record[last].outputs > 0
    BY <1>0, <2>1 DEF RecordOK
  <2>3. n \in 1..Outputs
    BY <2>2, GenerationAssumption DEF Records, GenerationAssumption
  <2> HIDE DEF n
  <2>4. assets' = n
    BY <2>1, <2>3
  <2>5. request.status = "failed" => order.cost = 0
    BY <1>0, <2>1 DEF MoneyOK
  <2>6. request.status # "completed"
    BY <2>1 DEF Active
  <2>7. /\ refunds' \in [Causes -> Nat] /\ \A c \in Causes \ {"partial"} : refunds'[c] = refunds[c]
        /\ Refunded' = IF Refunded + Share(Outputs - n) < order.cost
                       THEN Refunded + Share(Outputs - n) ELSE order.cost
    BY <1>0, <2>1, <2>3, <2>6, PartialRefund
  <2>8. Delivers(n)
    BY <2>1, <2>4, <2>5, <2>7 DEF Delivers
  <2> QED BY <2>1, <2>3, <2>8 DEF Moves
<1>10. ASSUME NEW cause \in {"operator_manual", "incident"}, OperatorRefund(cause)
       PROVE  UNCHANGED order /\ Moves
  <2>1. UNCHANGED <<order, request, assets>> /\ Refund(cause, order.cost)
    BY <1>10 DEF OperatorRefund, DecisionUnchanged
  <2>2. refunds' \in [Causes -> Nat] /\ refunds'["partial"] = refunds["partial"] /\ Refunded' = order.cost
    BY <1>0, <1>f, <2>1, FullRefund
  <2> QED BY <2>1, <2>2 DEF Moves, Compensates
<1> QED BY <1>1, <1>2, <1>3, <1>4, <1>5, <1>6, <1>7, <1>8, <1>9, <1>10 DEF Next

LEMMA RequestStep ==
  ASSUME IInv, Next
  PROVE  RequestOK'
<1>0. RequestOK /\ UNCHANGED order /\ Moves /\ 0 \in 0..Outputs
  BY MovesStep, GenerationAssumption DEF IInv, TypeInv, GenerationAssumption
<1>1. request' \in [status : Active \cup {"completed", "failed", "blocked", "cancelled"},
                    confirmed : BOOLEAN, delivered : 0..Outputs]
  <2>1. CASE Stays
    BY <1>0, <2>1 DEF Stays, RequestOK, Active
  <2>2. CASE GivesBack
    BY <1>0, <2>2 DEF GivesBack
  <2>3. CASE Reopens
    BY <1>0, <2>3 DEF Reopens, Active
  <2>4. CASE Compensates
    BY <1>0, <2>4 DEF Compensates, RequestOK
  <2>5. ASSUME NEW n \in 1..Outputs, Delivers(n)
        PROVE  request' \in [status : Active \cup {"completed", "failed", "blocked", "cancelled"},
                             confirmed : BOOLEAN, delivered : 0..Outputs]
    <3>1. n \in 0..Outputs
      BY GenerationAssumption DEF GenerationAssumption
    <3> QED BY <2>5, <3>1 DEF Delivers
  <2> QED BY <1>0, <2>1, <2>2, <2>3, <2>4, <2>5 DEF Moves
<1>2. refunds' \in [Causes -> Nat] /\ assets' \in Nat
  BY <1>0 DEF Moves, Stays, GivesBack, Reopens, Compensates, Delivers, RequestOK
<1>3. /\ last' \in Attempts /\ withdrawn' \in BOOLEAN
      /\ decision' \in [Attempts -> {"none", "failed", "automatic", "adopted"}]
  <2>1. CASE CancelBeforeDispatch \/ OperatorCancel
    BY <1>0, <2>1 DEF CancelBeforeDispatch, OperatorCancel, Cancel, RequestOK
  <2>2. CASE Retry
    <3>1. last + 1 \in Attempts
      BY <1>0, <2>2, GenerationAssumption DEF Retry, RequestOK, Attempts, GenerationAssumption
    <3> QED BY <1>0, <2>2, <3>1 DEF Retry, RequestOK
  <2>3. CASE \E d \in Dispatchers : Dispatches(d) \/ DispatchFails(d)
    BY <1>0, <2>3, DispatchFrame DEF RequestOK
  <2>4. CASE \E w \in Workers : Works(w) \/ SafeRetry(w) \/ LoseLock(w)
    BY <1>0, <2>4, WorkFrame DEF RequestOK
  <2>5. CASE \E a \in Attempts : Ingests(a)
    BY <1>0, <2>5, IngestFrame DEF RequestOK
  <2>6. CASE \E f \in Finalizers : Finalizes(f)
    BY <1>0, <2>6, FinalFrame DEF RequestOK
  <2>7. CASE RedispatchStale \/ QuarantineStale
    BY <1>0, <2>7, StaleFrame DEF RequestOK
  <2>8. CASE \/ \E by \in {"operator", "automatic"} : ConfirmFailed(by)
             \/ AdoptSuccess \/ \E cause \in {"operator_manual", "incident"} : OperatorRefund(cause)
    <3>1. UNCHANGED <<last, withdrawn>>
      BY <2>8 DEF ConfirmFailed, AdoptSuccess, OperatorRefund, DecisionUnchanged
    <3>2. \E s \in {"failed", "automatic", "adopted"} :
            decision' = decision \/ decision' = [decision EXCEPT ![last] = s]
      BY <2>8 DEF ConfirmFailed, AdoptSuccess, OperatorRefund
    <3> QED BY <1>0, <3>1, <3>2 DEF RequestOK
  <2> QED BY <2>1, <2>2, <2>3, <2>4, <2>5, <2>6, <2>7, <2>8 DEF Next
<1>4. stops' \in 0..MaxStops
  BY <1>0, StopsStep
<1> QED BY <1>0, <1>1, <1>2, <1>3, <1>4 DEF RequestOK

LEMMA MoneyStep ==
  ASSUME IInv, Next
  PROVE  MoneyOK'
<1>0. RequestOK /\ MoneyOK /\ UNCHANGED order /\ Moves
  BY MovesStep DEF IInv, TypeInv
<1>1. order.cost \in Nat /\ Refunded \in Nat /\ order'.cost = order.cost
  BY <1>0, CostNat
<1>2. \A m \in 0..Outputs : Share(m) \in Nat /\ Share(m) <= order.cost
  BY <1>0, ShareNat, ShareWithin
<1>3. CASE Stays \/ Reopens
  <2>1. Refunded' = Refunded
    BY <1>3 DEF Stays, Reopens, Refunded
  <2>2. request'.status = "completed" => request'.delivered = request.delivered /\ request.status = "completed"
    BY <1>0, <1>3 DEF Stays, Reopens, RequestOK
  <2>3. refunds' = refunds
    BY <1>3 DEF Stays, Reopens
  <2>4. request'.status \in {"failed", "blocked", "cancelled"} => request.status = request'.status
    BY <1>0, <1>3 DEF Stays, Reopens, RequestOK
  <2>5. request.status = "completed" => request'.status = "completed"
    BY <1>3 DEF Stays, Reopens, Active
  <2> QED BY <1>0, <1>1, <2>1, <2>2, <2>3, <2>4, <2>5 DEF MoneyOK, Share
<1>4. CASE GivesBack
  <2>1. request'.status # "completed" /\ request.status # "completed"
    BY <1>4 DEF GivesBack, Active
  <2>2. refunds' \in [Causes -> Nat] /\ refunds'["partial"] = refunds["partial"] /\ Refunded' = order.cost
    BY <1>4 DEF GivesBack
  <2> QED BY <1>0, <1>1, <2>1, <2>2 DEF MoneyOK
<1>5. CASE Compensates
  <2>1. request' = request /\ refunds'["partial"] = refunds["partial"] /\ Refunded' = order.cost
    BY <1>5 DEF Compensates
  <2>2. request.status = "completed" => Share(Outputs - request.delivered) <= order.cost
    <3>1. Outputs - request.delivered \in 0..Outputs
      BY <1>0, GenerationAssumption DEF RequestOK, GenerationAssumption
    <3> QED BY <1>2, <3>1
  <2>3. Share(Outputs - request.delivered)' = Share(Outputs - request.delivered)
    BY <1>0, <2>1 DEF Share
  <2> QED BY <1>0, <1>1, <2>1, <2>2, <2>3 DEF MoneyOK
<1>6. ASSUME NEW n \in 1..Outputs, Delivers(n) PROVE MoneyOK'
  <2>1. /\ request'.status = "completed" /\ request'.delivered = n
        /\ \A c \in Causes \ {"partial"} : refunds'[c] = refunds[c]
        /\ Refunded' = IF Refunded + Share(Outputs - n) < order.cost
                       THEN Refunded + Share(Outputs - n) ELSE order.cost
    BY <1>6 DEF Delivers
  <2>2. Outputs - n \in 0..Outputs
    BY GenerationAssumption DEF GenerationAssumption
  <2>3. Share(Outputs - n) \in Nat /\ Share(Outputs - n) <= order.cost
    BY <1>2, <2>2
  <2>4. Refunded' <= order.cost /\ Refunded' >= Share(Outputs - n) /\ Refunded' >= Refunded
    BY <1>0, <1>1, <2>1, <2>3 DEF MoneyOK
  <2>5. \A c \in Causes \ {"partial"} : refunds'[c] > 0 => Refunded' = order.cost
    <3>1. Refunded = order.cost => Refunded' = order.cost
      BY <1>1, <2>1, <2>3
    <3> QED BY <1>0, <2>1, <3>1 DEF MoneyOK
  <2>6. Share(Outputs - request.delivered)' = Share(Outputs - n)
    BY <1>0, <2>1 DEF Share
  <2> QED BY <1>0, <1>1, <2>1, <2>4, <2>5, <2>6 DEF MoneyOK
<1> QED BY <1>0, <1>3, <1>4, <1>5, <1>6 DEF Moves

LEMMA GoodsStep ==
  ASSUME IInv, Next
  PROVE  GoodsOK'
<1>0. RequestOK /\ GoodsOK /\ Moves
  BY MovesStep DEF IInv, TypeInv
<1>1. /\ assets' = request'.delivered
      /\ request'.status = "completed" <=> assets' > 0
      /\ request.status = "completed" => request'.status = "completed"
  <2>1. CASE Stays
    BY <1>0, <2>1 DEF Stays, GoodsOK, RequestOK, Active
  <2>2. CASE GivesBack \/ Reopens
    <3>1. /\ request.status \notin {"completed"} /\ request'.status # "completed"
          /\ request'.delivered = 0 /\ UNCHANGED assets
      BY <2>2 DEF GivesBack, Reopens, Active
    <3> QED BY <1>0, <3>1 DEF GoodsOK, RequestOK
  <2>3. CASE Compensates
    BY <1>0, <2>3 DEF Compensates, GoodsOK
  <2>4. CASE \E n \in 1..Outputs : Delivers(n)
    BY <2>4 DEF Delivers
  <2> QED BY <1>0, <2>1, <2>2, <2>3, <2>4 DEF Moves
<1>2. \A f \in Finalizers : finalizer'[f].existing \in {0, assets, finalizer[f].existing}
  <2>1. CASE UNCHANGED finalizer
    BY <2>1
  <2>2. ASSUME NEW f \in Finalizers, Finalizes(f)
        PROVE  \A g \in Finalizers : finalizer'[g].existing \in {0, assets, finalizer[g].existing}
    <3>1. finalizer \in [Finalizers -> FinalRows]
      BY DEF IInv, TypeInv, RecordOK, FinalRows
    <3>2. \/ finalizer' = [finalizer EXCEPT ![f] = NoFinal]
          \/ \E b \in Attempts, s \in {"moderate", "hold", "failed", "blocked"} :
               finalizer' = [finalizer EXCEPT ![f].attempt = b, ![f].stage = s]
          \/ finalizer' = [finalizer EXCEPT ![f].stage = "moderated"]
          \/ finalizer' = [finalizer EXCEPT ![f].stage = "commit", ![f].existing = assets]
          \/ finalizer' = [finalizer EXCEPT ![f].stage = "blocked"]
      <4>1. CASE \E b \in Attempts : StartFinal(f, b)
        <5>1. PICK b \in Attempts : StartFinal(f, b)
          BY <4>1
        <5>2. CASE Ends(f, b)
          BY <5>2 DEF Ends
        <5>3. CASE ~Ends(f, b)
          <6>0. record[b] # NoRecord
            BY <5>1 DEF StartFinal, IInv, TypeInv, RecordOK
          <6>1. finalizer' = [finalizer EXCEPT ![f].attempt = b, ![f].stage = FirstStage(record[b].outcome)]
                /\ record[b] \in Records
            BY <5>1, <5>3, <6>0 DEF StartFinal, IInv, TypeInv, RecordOK
          <6>2. record[b].outcome \in Outcomes
            BY <6>1 DEF Records
          <6>3. FirstStage(record[b].outcome) \in {"moderate", "hold", "failed", "blocked"}
            BY <6>2 DEF FirstStage, Outcomes
          <6> QED BY <6>1, <6>3
        <5> QED BY <5>2, <5>3
      <4>2. CASE ~ \E b \in Attempts : StartFinal(f, b)
        BY <2>2, <4>2 DEF Finalizes, MarkModerating, ModerateOutput, CompleteRequest, ReturnRequest,
                          HoldRequest, FinalFails, Ends
      <4> QED BY <4>1, <4>2
    <3>3. CASE finalizer' = [finalizer EXCEPT ![f] = NoFinal]
      BY <3>1, <3>3 DEF NoFinal
    <3>4. ASSUME NEW b \in Attempts, NEW s \in {"moderate", "hold", "failed", "blocked"},
                 finalizer' = [finalizer EXCEPT ![f].attempt = b, ![f].stage = s]
          PROVE  \A g \in Finalizers : finalizer'[g].existing = finalizer[g].existing
      BY <3>1, <3>4 DEF FinalRows
    <3>5. CASE \/ finalizer' = [finalizer EXCEPT ![f].stage = "moderated"]
               \/ finalizer' = [finalizer EXCEPT ![f].stage = "blocked"]
      BY <3>1, <3>5 DEF FinalRows
    <3>6. CASE finalizer' = [finalizer EXCEPT ![f].stage = "commit", ![f].existing = assets]
      BY <3>1, <3>6 DEF FinalRows
    <3> QED BY <3>2, <3>3, <3>4, <3>5, <3>6
  <2> QED BY <2>1, <2>2, DecisionFrame, DispatchFrame, WorkFrame, IngestFrame, StaleFrame DEF Next
<1> QED BY <1>0, <1>1, <1>2 DEF GoodsOK
-----------------------------------------------------------------------------
(* The invariant, and what it says *)

LEMMA StutterInv == IInv /\ UNCHANGED vars => IInv'
<1> SUFFICES ASSUME IInv, UNCHANGED vars PROVE IInv'
  OBVIOUS
<1> USE DEF IInv, TypeInv, vars, money, product, queues, ingest, blob, gen
<1>1. RequestOK' /\ AttemptOK' /\ DispatchOK'
  BY DEF RequestOK, AttemptOK, DispatchOK
<1>2. WorkOK' /\ RecordOK'
  BY DEF WorkOK, RecordOK
<1>3. MoneyOK' /\ GoodsOK'
  BY DEF MoneyOK, GoodsOK, Refunded, Share
<1> QED BY <1>1, <1>2, <1>3

\* The inductive invariant holds of every behaviour.
THEOREM Invariance == Spec => []IInv
<1>1. IInv /\ [Next]_vars => IInv'
  <2> SUFFICES ASSUME IInv, [Next]_vars PROVE IInv'
    OBVIOUS
  <2>1. CASE Next
    BY <2>1, RequestStep, AttemptStep, DispatchStep, WorkStep, RecordStep, MoneyStep, GoodsStep
       DEF IInv, TypeInv
  <2>2. CASE UNCHANGED vars
    BY <2>2, StutterInv
  <2> QED BY <2>1, <2>2
<1> QED BY <1>1, InitInv, PTL DEF Spec

\* Every variable keeps its type, whatever the processes, the queues and the
\* operators do.
THEOREM GenTypeCorrect == Spec => []GenTypeOK
<1>1. IInv => GenTypeOK
  <2> SUFFICES ASSUME IInv PROVE GenTypeOK
    OBVIOUS
  <2>1. RequestOK /\ AttemptOK /\ DispatchOK /\ WorkOK /\ RecordOK
    BY DEF IInv, TypeInv
  <2>2. /\ source \in [Attempts -> [state : {"none", "waiting", "active", "completed", "failed"},
                              made : 0..MaxTransports, stalled : BOOLEAN,
                              lock : Workers \cup {Nobody}, replaced : BOOLEAN]]
        /\ worker \in [Workers -> [attempt : Attempts \cup {0}, no : Transports \cup {0},
                              stage : {"idle", "prepare", "authorized", "invoking", "persisted"}]]
    BY <2>1 DEF WorkOK, Jobs, WorkRows
  <2> QED BY <2>1, <2>2 DEF GenTypeOK, RequestOK, AttemptOK, AttemptRows, TransportRows,
                            DispatchOK, DispatchRows, RecordOK
<1> QED BY <1>1, Invariance, PTL

\* A Request that ends without its outputs has all of its price back, one that
\* ends with some has the share of the rest, and no two causes together give
\* back more than was paid.
THEOREM RequestsArePaidBack == Spec => []SettledIsPaidBack
<1>1. IInv => SettledIsPaidBack
  BY DEF IInv, MoneyOK, SettledIsPaidBack
<1> QED BY <1>1, Invariance, PTL

\* Outputs or the money back: the detailed system implements the promise.
THEOREM PromiseIsKept == Spec => ImplementsPaidRequest
<1>1. Init => Promise!Init
  <2> SUFFICES ASSUME Init PROVE Promise!Init
    OBVIOUS
  <2>1. IInv
    BY InitInv
  <2>2. order.cost \in Nat
    BY <2>1, CostNat DEF IInv, TypeInv
  <2>3. Refunded = 0 /\ assets = 0 /\ request.status = "queued"
    BY DEF Init, Refunded, Causes
  <2> QED BY <2>2, <2>3 DEF Promise!Init, Phase, Active
<1>2. IInv /\ [Next]_vars => [Promise!Next]_(Promise!promise)
  <2> SUFFICES ASSUME IInv, [Next]_vars PROVE [Promise!Next]_(Promise!promise)
    OBVIOUS
  <2>0. RequestOK /\ MoneyOK /\ GoodsOK
    BY DEF IInv, TypeInv
  <2>1. CASE UNCHANGED vars
    BY <2>1 DEF vars, money, product, Promise!promise, Phase, Refunded
  <2>2. CASE Next
    <3>0. UNCHANGED order /\ Moves
      BY <2>2, MovesStep
    <3>1. CASE Stays
      <4>1. Refunded' = Refunded /\ UNCHANGED <<order, assets>>
        BY <3>0, <3>1 DEF Stays, Refunded
      <4>2. Phase' = Phase
        BY <2>0, <3>1 DEF Stays, Phase, Active, RequestOK
      <4> QED BY <4>1, <4>2 DEF Promise!promise
    <3>2. CASE GivesBack
      <4>1. Refunded' = order.cost /\ UNCHANGED <<order, assets>>
        BY <3>0, <3>2 DEF GivesBack
      <4>2. CASE request.status \in Active
        <5>1. Phase = "open" /\ Phase' \in {"returned", "closed"}
          BY <3>2, <4>2 DEF GivesBack, Phase, Active
        <5> QED BY <4>1, <5>1 DEF Promise!Next, Promise!Return
      <4>3. CASE request.status = "failed"
        <5>1. Phase' = Phase
          BY <3>2, <4>3 DEF GivesBack, Phase, Active
        <5> QED BY <4>1, <5>1 DEF Promise!Next, Promise!Compensate
      <4> QED BY <3>2, <4>2, <4>3 DEF GivesBack
    <3>3. CASE Reopens
      <4>1. Refunded' = Refunded /\ UNCHANGED <<order, assets>>
        BY <3>0, <3>3 DEF Reopens, Refunded
      <4>2. Phase = "returned" /\ Phase' = "open"
        BY <3>3 DEF Reopens, Phase, Active
      <4> QED BY <4>1, <4>2 DEF Promise!Next, Promise!Reopen
    <3>4. CASE Compensates
      <4>1. Refunded' = order.cost /\ UNCHANGED <<order, assets, request>>
        BY <3>0, <3>4 DEF Compensates
      <4>2. Phase' = Phase
        BY <4>1 DEF Phase
      <4> QED BY <4>1, <4>2 DEF Promise!Next, Promise!Compensate
    <3>5. ASSUME NEW n \in 1..Outputs, Delivers(n)
          PROVE  Promise!Next
      <4>1. /\ UNCHANGED order /\ assets' = n
            /\ Refunded' = Promise!Within(Refunded + Promise!ShareOf(Outputs - n))
        BY <3>0, <3>5 DEF Delivers, Promise!Within, Promise!ShareOf, Share
      <4>2. Phase' = "delivered"
        BY <3>5 DEF Delivers, Phase, Active
      <4>3. Phase = "open" \/ (Phase = "returned" /\ order.cost = 0)
        BY <3>5 DEF Delivers, Phase, Active
      <4> QED BY <4>1, <4>2, <4>3 DEF Promise!Next, Promise!Deliver
    <3> QED BY <3>0, <3>1, <3>2, <3>3, <3>4, <3>5 DEF Moves
  <2> QED BY <2>1, <2>2
<1> QED BY <1>1, <1>2, Invariance, PTL DEF Spec, ImplementsPaidRequest, Promise!Spec
=============================================================================
