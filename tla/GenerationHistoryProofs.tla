------------------------ MODULE GenerationHistoryProofs ------------------------
(***************************************************************************)
(* Proofs about what happened to the attempts of a paid Generation         *)
(* Request: what is over stays over, what was withdrawn was never asked    *)
(* for, and every refund and delivery has its reason on record.            *)
(***************************************************************************)
EXTENDS GenerationProofs

(***************************************************************************)
(* Attempts are reserved one after the other, each after the one before is *)
(* over.  Until a dispatcher takes hold of an attempt's row nothing else   *)
(* knows of the attempt, and a withdrawal comes before that.               *)
(***************************************************************************)
HistoryOK ==
  /\ \A a \in Attempts :
       /\ a < last => attempt[a].status \in Over
       /\ a > last => /\ attempt[a].status = "none"
                      /\ dispatch[a].state = "none" /\ ~dispatch[a].touched
       /\ ~dispatch[a].touched =>
            source[a].state = "none" /\ record[a] = NoRecord /\ asked[a] = 0
  /\ \A d \in Dispatchers :
       dispatcher[d].stage # "idle" => dispatch[dispatcher[d].attempt].touched
  /\ \A w \in Workers :
       worker[w].stage # "idle" => dispatch[worker[w].attempt].touched
  /\ withdrawn => request.status = "cancelled" /\ ~dispatch[last].touched

\* The reservation in Blob comes before the call.
AskedOK ==
  ~order.replayable => \A a \in Attempts : asked[a] <= 1 /\ (guard[a] = 0 => asked[a] = 0)
-----------------------------------------------------------------------------
(* What is known of an attempt *)

\* An attempt something is known of has been reserved.
LEMMA KnownIsReserved ==
  ASSUME IInv, HistoryOK, NEW a \in Attempts, record[a] # NoRecord \/ dispatch[a].touched
  PROVE  dispatch[a].touched /\ ~ a > last
  BY DEF HistoryOK

LEMMA WithoutNone ==
  ASSUME IInv, NEW a \in Attempts, NEW b \in Attempts, source[b].state = "none"
  PROVE  Without(a)[b].state = "none"
<1>1. source \in [Attempts -> Jobs]
  BY DEF IInv, TypeInv, WorkOK
<1>2. source[b] \in Jobs
  BY <1>1
<1> QED BY <1>1, <1>2 DEF Without, Jobs

LEMMA WorkersKnow ==
  ASSUME IInv, HistoryOK, NEW w \in Workers, worker[w].stage # "idle"
  PROVE  /\ worker[w].attempt \in Attempts /\ worker[w].no \in Transports
         /\ dispatch[worker[w].attempt].touched /\ ~ worker[w].attempt > last
  BY WorkerTypes DEF IInv, TypeInv, HistoryOK

\* A Request that was cancelled, or completed, stays so.
LEMMA ClosedStays ==
  ASSUME IInv, Next
  PROVE  /\ request.status = "cancelled" => request'.status = "cancelled"
         /\ request.status = "completed" => request' = request /\ UNCHANGED assets
         /\ request.status \notin Active \cup {"failed"} => request' = request
<1>1. Moves
  BY MovesStep
<1> QED BY <1>1 DEF Moves, Stays, GivesBack, Reopens, Compensates, Delivers, Active

-----------------------------------------------------------------------------
(* How an attempt ended is kept, and nothing is run for it any more *)

StatusStays == \A a \in Attempts : attempt[a].status \in Over => attempt'[a].status = attempt[a].status

RunsStay ==
  \A a \in Attempts : attempt[a].status \in Over =>
    \A n \in Transports : transport'[a][n] = "running" => transport[a][n] = "running"

LEMMA EvidenceStays ==
  ASSUME AttemptOK, NEW a \in Attempts, NEW r \in Records, Evidence(a, r) \/ EvidenceOfUnknown(a, r)
  PROVE  RunsStay
<1>1. CASE r.invoked
  <2>1. PICK n \in Transports, s \in {"failed", "unknown", "succeeded"} :
          transport' = [transport EXCEPT ![a][n] = s]
    BY <1>1 DEF Evidence, EvidenceOfUnknown, Records, TransportOf
  <2> QED BY <2>1 DEF AttemptOK, TransportRows, RunsStay
<1>2. CASE ~r.invoked
  BY <1>2 DEF Evidence, EvidenceOfUnknown, RunsStay
<1> QED BY <1>1, <1>2

LEMMA RunsStep ==
  ASSUME IInv, HistoryOK, Next
  PROVE  RunsStay
<1>0. AttemptOK /\ RecordOK /\ last \in Attempts
  BY DEF IInv, TypeInv, RequestOK
<1>1. CASE UNCHANGED transport
  BY <1>1 DEF RunsStay
<1>2. ASSUME NEW w \in Workers, Works(w) \/ SafeRetry(w) \/ LoseLock(w), ~ UNCHANGED transport
      PROVE  RunsStay
  <2> DEFINE a == worker[w].attempt
             n == worker[w].no
  <2>1. Authorize(w) \/ CannotPersist(w) \/ SafeRetry(w)
    BY <1>2 DEF Works, TakeSource, StopPreparation, AskProvider, FindsEarlierCall, ProviderAnswers,
                RunFails, AcknowledgeRecord, LoseLock
  <2>2. a \in Attempts /\ n \in Transports
    BY <2>1, WorkersKnow DEF Authorize, CannotPersist, SafeRetry, At
  <2>3. CASE Authorize(w)
    <3>1. attempt[a].status \notin Over /\ transport' = [transport EXCEPT ![a][n] = "running"]
      BY <2>3 DEF Authorize, MayRun, Over
    <3> QED BY <1>0, <2>2, <3>1 DEF AttemptOK, TransportRows, RunsStay
  <2>4. CASE CannotPersist(w) \/ SafeRetry(w)
    <3>1. \E s \in {"unknown", "failed"} : transport' = [transport EXCEPT ![a][n] = s]
      BY <1>2, <2>4 DEF CannotPersist, PersistenceUnknown, SafeRetry
    <3> QED BY <1>0, <2>2, <3>1 DEF AttemptOK, TransportRows, RunsStay
  <2> QED BY <2>1, <2>3, <2>4
<1>3. ASSUME NEW a \in Attempts, Ingests(a) PROVE RunsStay
  <2>1. CASE RecoverFailedSource(a) \/ DispatchFinal(a) \/ IngestResolution(a) \/ IngestDuplicate(a)
    BY <1>1, <2>1 DEF RecoverFailedSource, DispatchFinal, IngestResolution, IngestDuplicate
  <2>2. CASE IngestRecord(a) \/ IngestLate(a)
    <3>1. record[a] \in Records /\ (Evidence(a, record[a]) \/ EvidenceOfUnknown(a, record[a]))
      BY <1>0, <2>2 DEF IngestRecord, IngestLate, RecordOK
    <3> QED BY <1>0, <3>1, EvidenceStays
  <2> QED BY <1>3, <2>1, <2>2 DEF Ingests
<1>4. CASE QuarantineStale
  <2>1. transport' = transport \/ transport' = [transport EXCEPT ![last][LatestRun(last)] = "unknown"]
    BY <1>4 DEF QuarantineStale
  <2> QED BY <1>0, <2>1 DEF AttemptOK, TransportRows, RunsStay
<1>5. CASE RedispatchStale
  BY <1>1, <1>5 DEF RedispatchStale
<1> QED BY <1>1, <1>2, <1>3, <1>4, <1>5, DispatchFrame, FinalFrame, DecisionFrame DEF Next

LEMMA StatusStep ==
  ASSUME IInv, HistoryOK, Next
  PROVE  StatusStays
<1>0. AttemptOK /\ RecordOK /\ last \in Attempts
  BY DEF IInv, TypeInv, RequestOK
<1>1. CASE UNCHANGED attempt
  BY <1>1 DEF StatusStays
<1>2. CASE CancelBeforeDispatch \/ OperatorCancel
  BY <1>0, <1>2 DEF CancelBeforeDispatch, OperatorCancel, Cancel, AttemptOK, StatusStays
<1>3. CASE Retry
  <2>1. last + 1 \in Attempts /\ last + 1 > last
    BY <1>0, <1>3, GenerationAssumption DEF Retry, Attempts, GenerationAssumption
  <2>2. attempt[last + 1].status = "none"
    BY <2>1 DEF HistoryOK
  <2>3. attempt' = [attempt EXCEPT ![last + 1] = NewAttempt]
    BY <1>3 DEF Retry
  <2> QED BY <1>0, <2>1, <2>2, <2>3 DEF AttemptOK, StatusStays, Over
<1>4. ASSUME NEW w \in Workers, Works(w) \/ SafeRetry(w) \/ LoseLock(w), ~ UNCHANGED attempt
      PROVE  StatusStays
  <2> DEFINE a == worker[w].attempt
  <2>1. /\ attempt[a].status \notin Over
        /\ \/ attempt' = [attempt EXCEPT ![a].status = "running"]
           \/ attempt' = [attempt EXCEPT ![a].status = "unknown", ![a].again = FALSE]
    BY <1>4 DEF Works, SafeRetry, LoseLock, TakeSource, StopPreparation, Authorize, AskProvider,
                FindsEarlierCall, ProviderAnswers, CannotPersist, RunFails, AcknowledgeRecord,
                PersistenceUnknown, Unknown, MayRun, Over
  <2> QED BY <1>0, <2>1 DEF AttemptOK, StatusStays
<1>5. ASSUME NEW a \in Attempts, Ingests(a) PROVE StatusStays
  <2>1. CASE UNCHANGED attempt
    BY <1>1, <2>1
  <2>2. CASE IngestRecord(a)
    <3>1. attempt[a].status \notin Over /\ attempt' = [attempt EXCEPT ![a].status = "running", ![a].ref = TRUE]
      BY <2>2 DEF IngestRecord, Over
    <3> QED BY <1>0, <3>1 DEF AttemptOK, StatusStays
  <2>3. CASE IngestLate(a) /\ ~ UNCHANGED attempt
    <3>1. attempt' = [attempt EXCEPT ![a].ref = TRUE]
      BY <2>3 DEF IngestLate
    <3> QED BY <1>0, <3>1 DEF AttemptOK, AttemptRows, StatusStays
  <2> QED BY <1>5, <2>1, <2>2, <2>3 DEF Ingests, RecoverFailedSource, DispatchFinal,
                                       IngestResolution, IngestDuplicate
<1>6. ASSUME NEW f \in Finalizers, Finalizes(f), ~ UNCHANGED attempt PROVE StatusStays
  <2> DEFINE a == finalizer[f].attempt
  <2>1. CompleteRequest(f) \/ ReturnRequest(f) \/ HoldRequest(f)
    BY <1>6 DEF Finalizes, StartFinal, MarkModerating, ModerateOutput, FinalFails
  <2>2. PICK s \in Over, b \in BOOLEAN :
          /\ attempt[a].status \notin Over \/ attempt[a].status = s
          /\ \/ attempt' = [attempt EXCEPT ![a].status = s, ![a].again = b]
             \/ attempt' = [attempt EXCEPT ![a].status = s]
    <3>1. CASE CompleteRequest(f)
      <4>1. attempt[a].status \notin Over /\ attempt' = [attempt EXCEPT ![a].status = "succeeded"]
        BY <3>1 DEF CompleteRequest, CanComplete
      <4> QED BY <4>1 DEF Over
    <3>2. CASE ReturnRequest(f)
      <4>1. a \in Attempts /\ record[a] \in Records
        BY <1>0, <3>2 DEF ReturnRequest, RecordOK
      <4> DEFINE s == finalizer[f].stage
                 b == s = "failed" /\ record[a].again
      <4>2. s \in Over /\ b \in BOOLEAN
        BY <3>2 DEF ReturnRequest, Over
      <4>3. /\ attempt[a].status \notin Over \/ attempt[a].status = s
            /\ attempt' = [attempt EXCEPT ![a].status = s, ![a].again = b]
        BY <1>6, <3>2 DEF ReturnRequest
      <4> QED BY <4>2, <4>3
    <3>3. CASE HoldRequest(f)
      <4>1. /\ attempt[a].status \notin Over \/ attempt[a].status = "unknown"
            /\ attempt' = [attempt EXCEPT ![a].status = "unknown", ![a].again = FALSE]
        BY <1>6, <3>3 DEF HoldRequest, Unknown
      <4> QED BY <4>1 DEF Over
    <3> QED BY <2>1, <3>1, <3>2, <3>3
  <2>3. CASE attempt' = [attempt EXCEPT ![a].status = s, ![a].again = b]
    BY <1>0, <2>2, <2>3 DEF AttemptOK, AttemptRows, StatusStays
  <2>4. CASE attempt' = [attempt EXCEPT ![a].status = s]
    BY <1>0, <2>2, <2>4 DEF AttemptOK, AttemptRows, StatusStays
  <2> QED BY <2>2, <2>3, <2>4
<1>7. CASE QuarantineStale
  <2>1. /\ attempt[last].status \notin Over
        /\ attempt' = [attempt EXCEPT ![last].status = "unknown", ![last].again = FALSE]
    BY <1>7 DEF QuarantineStale, Stale, Unknown, Over
  <2> QED BY <1>0, <2>1 DEF AttemptOK, StatusStays
<1>8. CASE RedispatchStale
  BY <1>1, <1>8 DEF RedispatchStale
<1>9. CASE \/ AdoptSuccess \/ \E by \in {"operator", "automatic"} : ConfirmFailed(by)
           \/ \E cause \in {"operator_manual", "incident"} : OperatorRefund(cause)
  BY <1>1, <1>9 DEF AdoptSuccess, ConfirmFailed, OperatorRefund
<1> QED BY <1>1, <1>2, <1>3, <1>4, <1>5, <1>6, <1>7, <1>8, <1>9, DispatchFrame DEF Next
-----------------------------------------------------------------------------
(* The history is kept *)

\* A step that leaves the outbox and the number of attempts alone keeps the
\* history when it stays with attempts that are reserved and dispatched.
LEMMA HistoryFrame ==
  ASSUME IInv, HistoryOK, Next,
         UNCHANGED <<last, dispatch, withdrawn>>,
         \A a \in Attempts : a > last => attempt'[a].status = attempt[a].status,
         \A a \in Attempts : ~dispatch[a].touched =>
           /\ source[a].state = "none" => source'[a].state = "none"
           /\ record'[a] = record[a] /\ asked'[a] = asked[a],
         \A d \in Dispatchers : dispatcher'[d].stage # "idle" =>
           dispatcher[d].stage # "idle" /\ dispatcher'[d].attempt = dispatcher[d].attempt,
         \A w \in Workers : worker'[w].stage # "idle" =>
           \/ worker[w].stage # "idle" /\ worker'[w].attempt = worker[w].attempt
           \/ worker'[w].attempt \in Attempts /\ dispatch[worker'[w].attempt].touched
  PROVE  HistoryOK'
<1>1. StatusStays
  BY StatusStep
<1>2. request.status = "cancelled" => request'.status = "cancelled"
  BY ClosedStays
<1>3. \A a \in Attempts :
        /\ a < last => attempt'[a].status \in Over
        /\ a > last => /\ attempt'[a].status = "none"
                       /\ dispatch[a].state = "none" /\ ~dispatch[a].touched
        /\ ~dispatch[a].touched =>
             source'[a].state = "none" /\ record'[a] = NoRecord /\ asked'[a] = 0
  BY <1>1 DEF HistoryOK, StatusStays
<1>4. \A d \in Dispatchers :
        dispatcher'[d].stage # "idle" => dispatch[dispatcher'[d].attempt].touched
  BY DEF HistoryOK
<1>5. \A w \in Workers :
        worker'[w].stage # "idle" => dispatch[worker'[w].attempt].touched
  BY DEF HistoryOK
<1>6. withdrawn => request'.status = "cancelled" /\ ~dispatch[last].touched
  BY <1>2 DEF HistoryOK
<1> QED BY <1>3, <1>4, <1>5, <1>6 DEF HistoryOK

LEMMA WorkHistory ==
  ASSUME IInv, HistoryOK, Next,
         NEW w \in Workers, Works(w) \/ SafeRetry(w) \/ LoseLock(w)
  PROVE  HistoryOK'
<1> DEFINE a == worker[w].attempt
<1>0. /\ AttemptOK /\ RecordOK /\ WorkOK
      /\ UNCHANGED <<last, dispatch, dispatcher, withdrawn>>
  BY WorkFrame DEF IInv, TypeInv
<1>1. CASE \E b \in Attempts : TakeSource(w, b)
  <2>1. PICK b \in Attempts : TakeSource(w, b)
    BY <1>1
  <2>2. dispatch[b].touched
    BY <2>1 DEF TakeSource, HistoryOK
  <2>3. UNCHANGED <<attempt, record, asked>>
    BY <2>1 DEF TakeSource, blob
  <2>4. \A c \in Attempts : ~dispatch[c].touched => source'[c] = source[c]
    BY <1>0, <2>1, <2>2 DEF TakeSource, WorkOK
  <2>5. \A v \in Workers : v # w => worker'[v] = worker[v]
    BY <1>0, <2>1 DEF TakeSource, WorkOK
  <2>6. worker'[w].attempt = b
    BY <1>0, <2>1 DEF TakeSource, WorkOK
  <2> QED BY <1>0, <2>2, <2>3, <2>4, <2>5, <2>6, HistoryFrame
<1>2. CASE ~ \E b \in Attempts : TakeSource(w, b)
  <2>1. worker[w].stage # "idle"
    BY <1>2 DEF Works, SafeRetry, LoseLock, StopPreparation, Authorize, AskProvider,
                FindsEarlierCall, ProviderAnswers, CannotPersist, RunFails, AcknowledgeRecord, At
  <2>2. a \in Attempts /\ dispatch[a].touched /\ ~ a > last
    BY <2>1, WorkersKnow
  <2>3. \A b \in Attempts : b # a => attempt'[b] = attempt[b]
    <3>1. \/ UNCHANGED attempt
          \/ attempt' = [attempt EXCEPT ![a].status = "running"]
          \/ attempt' = [attempt EXCEPT ![a].status = "unknown", ![a].again = FALSE]
      BY <1>2 DEF Works, SafeRetry, LoseLock, StopPreparation, Authorize, AskProvider,
                FindsEarlierCall, ProviderAnswers, CannotPersist, RunFails, AcknowledgeRecord,
                PersistenceUnknown, Unknown
    <3> QED BY <1>0, <3>1 DEF AttemptOK
  <2>4. \A b \in Attempts : b # a => record'[b] = record[b] /\ asked'[b] = asked[b]
    <3>1. /\ UNCHANGED record \/ \E r \in Records : record' = [record EXCEPT ![a] = r]
          /\ UNCHANGED asked \/ asked' = [asked EXCEPT ![a] = @ + 1]
      <4>1. CASE StopPreparation(w) \/ FindsEarlierCall(w) \/ ProviderAnswers(w)
        <5>1. PICK o \in Outcomes, k \in 0..Outputs, again \in BOOLEAN, invoked \in BOOLEAN :
                record' = [record EXCEPT ![a] = [outcome |-> o, outputs |-> k, again |-> again,
                                                 no |-> worker[w].no, invoked |-> invoked]]
          BY <1>0, <4>1, WorkerPersists
        <5>2. worker[w].no \in Transports /\ UNCHANGED asked
          BY <1>0, <4>1, WorkerPersists
        <5>3. [outcome |-> o, outputs |-> k, again |-> again, no |-> worker[w].no, invoked |-> invoked]
                \in Records
          BY <5>2 DEF Records
        <5> QED BY <5>1, <5>2, <5>3
      <4>2. CASE ~(StopPreparation(w) \/ FindsEarlierCall(w) \/ ProviderAnswers(w))
        BY <1>2, <4>2 DEF Works, SafeRetry, LoseLock, Authorize, AskProvider, CannotPersist,
                          RunFails, AcknowledgeRecord, blob
      <4> QED BY <4>1, <4>2
    <3> QED BY <1>0, <3>1 DEF RecordOK
  <2>5. \A b \in Attempts : b # a => source'[b] = source[b]
    <3>1. CASE StopPreparation(w) \/ FindsEarlierCall(w) \/ ProviderAnswers(w) \/ Authorize(w) \/ AskProvider(w)
      BY <3>1 DEF StopPreparation, FindsEarlierCall, ProviderAnswers, Authorize, AskProvider, Persist
    <3>2. CASE Thrown(w)
      BY <1>0, <3>2 DEF Thrown, WorkOK
    <3>3. CASE Completed(w)
      BY <1>0, <3>3 DEF Completed, WorkOK
    <3>4. CASE LoseLock(w)
      BY <1>0, <3>4 DEF LoseLock, WorkOK
    <3> QED BY <1>2, <3>1, <3>2, <3>3, <3>4 DEF Works, CannotPersist, PersistenceUnknown, RunFails,
                                                AcknowledgeRecord, SafeRetry
  <2>6. \A v \in Workers : worker'[v].stage # "idle" =>
          worker[v].stage # "idle" /\ worker'[v].attempt = worker[v].attempt
    <3>1. \/ UNCHANGED worker
          \/ worker' = [worker EXCEPT ![w] = NoWork]
          \/ \E s \in {"authorized", "invoking", "persisted"} : worker' = [worker EXCEPT ![w].stage = s]
      BY <1>2 DEF Works, SafeRetry, LoseLock, StopPreparation, Authorize, AskProvider,
                FindsEarlierCall, ProviderAnswers, CannotPersist, RunFails, AcknowledgeRecord,
                PersistenceUnknown, Thrown, Completed, Persist, Becomes
    <3> QED BY <1>0, <2>1, <3>1 DEF WorkOK, WorkRows, NoWork
  <2> QED BY <1>0, <2>2, <2>3, <2>4, <2>5, <2>6, HistoryFrame
<1> QED BY <1>1, <1>2

LEMMA IngestHistory ==
  ASSUME IInv, HistoryOK, Next, NEW a \in Attempts, Ingests(a)
  PROVE  HistoryOK'
<1>0. /\ AttemptOK /\ RecordOK /\ WorkOK
      /\ UNCHANGED <<last, dispatch, dispatcher, withdrawn, record, asked, worker>>
  BY IngestFrame DEF IInv, TypeInv
<1>1. record[a] # NoRecord
  BY <1>0 DEF Ingests, RecoverFailedSource, DispatchFinal, IngestRecord, IngestLate,
              IngestResolution, IngestDuplicate, RecordOK
<1>2. dispatch[a].touched /\ ~ a > last
  BY <1>1, KnownIsReserved
<1>3. \A b \in Attempts : b # a => attempt'[b] = attempt[b]
  <2>1. \/ UNCHANGED attempt
        \/ attempt' = [attempt EXCEPT ![a].status = "running", ![a].ref = TRUE]
        \/ attempt' = [attempt EXCEPT ![a].ref = TRUE]
    BY DEF Ingests, RecoverFailedSource, DispatchFinal, IngestRecord, IngestLate,
              IngestResolution, IngestDuplicate
  <2> QED BY <1>0, <2>1 DEF AttemptOK
<1>4. \A b \in Attempts : b # a => source'[b] = source[b]
  <2>1. UNCHANGED source \/ source' = [source EXCEPT ![a].state = "waiting", ![a].made = 0]
    BY DEF Ingests, RecoverFailedSource, DispatchFinal, IngestRecord, IngestLate,
              IngestResolution, IngestDuplicate, IngestUnchanged, gen
  <2> QED BY <1>0, <2>1 DEF WorkOK
<1> QED BY <1>0, <1>2, <1>3, <1>4, HistoryFrame

LEMMA FinalHistory ==
  ASSUME IInv, HistoryOK, Next, NEW f \in Finalizers, Finalizes(f)
  PROVE  HistoryOK'
<1> DEFINE a == finalizer[f].attempt
<1>0. /\ AttemptOK /\ RecordOK /\ WorkOK
      /\ UNCHANGED <<last, dispatch, dispatcher, withdrawn, record, asked, worker>>
  BY FinalFrame DEF IInv, TypeInv
<1>1. UNCHANGED source \/ \E b \in Attempts : source' = Without(b)
  BY DEF Finalizes, StartFinal, MarkModerating, ModerateOutput, CompleteRequest,
         ReturnRequest, HoldRequest, FinalFails
<1>2. \A b \in Attempts : source[b].state = "none" => source'[b].state = "none"
  BY <1>1, WithoutNone
<1>3. \A b \in Attempts : b > last => attempt'[b] = attempt[b]
  <2>1. CASE UNCHANGED attempt
    BY <2>1
  <2>2. CASE ~ UNCHANGED attempt
    <3>1. CompleteRequest(f) \/ ReturnRequest(f) \/ HoldRequest(f)
      BY <2>2 DEF Finalizes, StartFinal, MarkModerating, ModerateOutput, FinalFails
    <3>2. a \in Attempts /\ record[a] # NoRecord
      BY <1>0, <3>1 DEF CompleteRequest, ReturnRequest, HoldRequest, RecordOK
    <3>3. ~ a > last
      BY <3>2, KnownIsReserved
    <3>4. CASE CompleteRequest(f)
      BY <1>0, <3>3, <3>4 DEF CompleteRequest, AttemptOK
    <3>5. CASE ReturnRequest(f)
      BY <1>0, <3>3, <3>5 DEF ReturnRequest, AttemptOK
    <3>6. CASE HoldRequest(f)
      BY <1>0, <3>3, <3>6 DEF HoldRequest, Unknown, AttemptOK
    <3> QED BY <3>1, <3>4, <3>5, <3>6
  <2> QED BY <2>1, <2>2
<1> QED BY <1>0, <1>2, <1>3, HistoryFrame

LEMMA DecisionHistory ==
  ASSUME IInv, HistoryOK, Next,
         \/ AdoptSuccess \/ \E by \in {"operator", "automatic"} : ConfirmFailed(by)
         \/ \E cause \in {"operator_manual", "incident"} : OperatorRefund(cause)
  PROVE  HistoryOK'
<1>0. /\ last \in Attempts
      /\ UNCHANGED <<last, attempt, dispatch, dispatcher, withdrawn, record, asked, worker>>
  BY DecisionFrame DEF IInv, TypeInv, RequestOK, AdoptSuccess, ConfirmFailed, OperatorRefund,
                       DecisionUnchanged, queues
<1>1. source' = source \/ source' = Without(last)
  BY DEF AdoptSuccess, ConfirmFailed, OperatorRefund, MaybeRemoved
<1>2. \A b \in Attempts : source[b].state = "none" => source'[b].state = "none"
  BY <1>0, <1>1, WithoutNone
<1> QED BY <1>0, <1>2, HistoryFrame

LEMMA QuarantineHistory ==
  ASSUME IInv, HistoryOK, Next, QuarantineStale
  PROVE  HistoryOK'
<1>0. /\ last \in Attempts /\ AttemptOK
      /\ UNCHANGED <<last, dispatch, dispatcher, withdrawn, record, asked, worker>>
  BY StaleFrame DEF IInv, TypeInv, RequestOK, QuarantineStale
<1>1. source' = source \/ source' = Without(last)
  BY DEF QuarantineStale, MaybeRemoved
<1>2. \A b \in Attempts : source[b].state = "none" => source'[b].state = "none"
  BY <1>0, <1>1, WithoutNone
<1>3. \A b \in Attempts : b > last => attempt'[b] = attempt[b]
  BY <1>0 DEF QuarantineStale, Unknown, AttemptOK, Attempts
<1> QED BY <1>0, <1>2, <1>3, HistoryFrame

\* A cancellation by the user comes before anything knows of the attempt.
LEMMA CancelHistory ==
  ASSUME IInv, HistoryOK, Next, CancelBeforeDispatch \/ OperatorCancel
  PROVE  HistoryOK'
<1>0. /\ last \in Attempts /\ AttemptOK /\ DispatchOK
      /\ UNCHANGED <<last, dispatcher, record, asked, worker>>
  BY DecisionFrame DEF IInv, TypeInv, RequestOK, CancelBeforeDispatch, OperatorCancel, Cancel
<1>1. StatusStays
  BY StatusStep
<1>2. \A b \in Attempts : dispatch'[b].touched = dispatch[b].touched
  BY <1>0 DEF CancelBeforeDispatch, OperatorCancel, Cancel, DispatchOK, DispatchRows
<1>3. \A b \in Attempts : b > last => attempt'[b] = attempt[b] /\ dispatch'[b] = dispatch[b]
  <2>1. \A b \in Attempts : b > last => b # last
    BY <1>0 DEF Attempts
  <2>2. UNCHANGED attempt \/ attempt' = [attempt EXCEPT ![last].status = "cancelled", ![last].again = FALSE]
    BY DEF CancelBeforeDispatch, OperatorCancel, Cancel
  <2>3. UNCHANGED dispatch \/ dispatch' = [dispatch EXCEPT ![last].state = "cancelled"]
    BY DEF CancelBeforeDispatch, OperatorCancel, Cancel
  <2> QED BY <1>0, <2>1, <2>2, <2>3 DEF AttemptOK, DispatchOK
<1>4. \A b \in Attempts : source[b].state = "none" => source'[b].state = "none"
  <2>1. source' = source \/ source' = Without(last)
    BY DEF CancelBeforeDispatch, OperatorCancel, MaybeRemoved
  <2> QED BY <1>0, <2>1, WithoutNone
<1>5. withdrawn' => request'.status = "cancelled" /\ ~dispatch[last].touched
  <2>1. CASE CancelBeforeDispatch
    BY <2>1 DEF CancelBeforeDispatch, Cancel, IInv, TypeInv, RequestOK
  <2>2. CASE OperatorCancel
    BY <2>2 DEF OperatorCancel, HistoryOK, Active
  <2> QED BY <2>1, <2>2
<1>6. \A a \in Attempts :
        /\ a < last => attempt'[a].status \in Over
        /\ a > last => /\ attempt'[a].status = "none"
                       /\ dispatch'[a].state = "none" /\ ~dispatch'[a].touched
        /\ ~dispatch'[a].touched =>
             source'[a].state = "none" /\ record[a] = NoRecord /\ asked[a] = 0
  BY <1>1, <1>2, <1>3, <1>4 DEF HistoryOK, StatusStays
<1>7. /\ \A d \in Dispatchers : dispatcher[d].stage # "idle" => dispatch'[dispatcher[d].attempt].touched
      /\ \A w \in Workers : worker[w].stage # "idle" => dispatch'[worker[w].attempt].touched
  BY <1>2 DEF IInv, TypeInv, DispatchOK, WorkOK, WorkRows, HistoryOK
<1> QED BY <1>0, <1>2, <1>5, <1>6, <1>7 DEF HistoryOK

\* An attempt is reserved after the one before is over.
LEMMA RetryHistory ==
  ASSUME IInv, HistoryOK, Next, Retry
  PROVE  HistoryOK'
<1>0. /\ last \in Attempts /\ AttemptOK /\ DispatchOK /\ WorkOK
      /\ UNCHANGED <<dispatcher, record, asked, worker, withdrawn, source>>
  BY DecisionFrame DEF IInv, TypeInv, RequestOK, Retry, gen
<1>1. last + 1 \in Attempts /\ last' = last + 1
  BY <1>0, GenerationAssumption DEF Retry, Attempts, GenerationAssumption
<1>2. \A b \in Attempts : b # last + 1 => attempt'[b] = attempt[b] /\ dispatch'[b] = dispatch[b]
  BY <1>0 DEF Retry, AttemptOK, DispatchOK
<1>3. ~dispatch[last + 1].touched /\ ~dispatch'[last + 1].touched
  BY <1>0, <1>1 DEF Retry, NewRow, DispatchOK, HistoryOK, Attempts
<1>4. attempt[last].status \in Over
  BY DEF Retry, MayRetry, Over
<1>5. \A b \in Attempts : dispatch'[b].touched = dispatch[b].touched
  BY <1>2, <1>3, <1>0, <1>1 DEF DispatchOK, DispatchRows, Retry, NewRow
<1>6. \A a \in Attempts :
        /\ a < last' => attempt'[a].status \in Over
        /\ a > last' => /\ attempt'[a].status = "none"
                        /\ dispatch'[a].state = "none" /\ ~dispatch'[a].touched
  <2>1. \A a \in Attempts : a < last' => (a < last \/ a = last) /\ a # last + 1
    BY <1>0, <1>1 DEF Attempts
  <2>2. \A a \in Attempts : a > last' => a > last /\ a # last + 1
    BY <1>0, <1>1 DEF Attempts
  <2> QED BY <1>2, <1>4, <2>1, <2>2 DEF HistoryOK
<1>7. \A a \in Attempts : ~dispatch'[a].touched =>
        source[a].state = "none" /\ record[a] = NoRecord /\ asked[a] = 0
  BY <1>5 DEF HistoryOK
<1>8. /\ \A d \in Dispatchers : dispatcher[d].stage # "idle" => dispatch'[dispatcher[d].attempt].touched
      /\ \A w \in Workers : worker[w].stage # "idle" => dispatch'[worker[w].attempt].touched
  BY <1>0, <1>5 DEF DispatchOK, WorkOK, WorkRows, HistoryOK
<1>9. ~withdrawn
  BY DEF Retry, MayRetry, HistoryOK
<1> QED BY <1>0, <1>6, <1>7, <1>8, <1>9 DEF HistoryOK

LEMMA RedispatchHistory ==
  ASSUME IInv, HistoryOK, Next, RedispatchStale
  PROVE  HistoryOK'
<1>0. /\ last \in Attempts /\ DispatchOK /\ WorkOK
      /\ UNCHANGED <<last, attempt, dispatcher, withdrawn, record, asked, worker>>
  BY StaleFrame DEF IInv, TypeInv, RequestOK, RedispatchStale
<1>1. \A b \in Attempts : b # last => dispatch'[b] = dispatch[b] /\ source'[b] = source[b]
  BY <1>0 DEF RedispatchStale, DispatchOK, WorkOK
<1>2. \A b \in Attempts : dispatch'[b].touched = dispatch[b].touched
  BY <1>0 DEF RedispatchStale, DispatchOK, DispatchRows
<1>3. source[last].state = "none" => source'[last].state = "none"
  BY <1>0 DEF RedispatchStale, NoJob, WorkOK, Jobs
<1>4. \A a \in Attempts :
        /\ a < last => attempt[a].status \in Over
        /\ a > last => /\ attempt[a].status = "none"
                       /\ dispatch'[a].state = "none" /\ ~dispatch'[a].touched
        /\ ~dispatch'[a].touched =>
             source'[a].state = "none" /\ record[a] = NoRecord /\ asked[a] = 0
  <2>1. \A b \in Attempts : b > last => b # last
    BY <1>0 DEF Attempts
  <2> QED BY <1>1, <1>2, <1>3, <2>1 DEF HistoryOK
<1>5. /\ \A d \in Dispatchers : dispatcher[d].stage # "idle" => dispatch'[dispatcher[d].attempt].touched
      /\ \A w \in Workers : worker[w].stage # "idle" => dispatch'[worker[w].attempt].touched
  BY <1>0, <1>2 DEF DispatchOK, WorkOK, WorkRows, HistoryOK
<1>6. ~withdrawn
  BY DEF RedispatchStale, Stale, Active, HistoryOK
<1> QED BY <1>0, <1>4, <1>5, <1>6 DEF HistoryOK

\* A claim touches a row of an attempt that may run, so of one that was not withdrawn.
LEMMA DispatchHistory ==
  ASSUME IInv, HistoryOK, Next, NEW d \in Dispatchers, Dispatches(d) \/ DispatchFails(d)
  PROVE  HistoryOK'
<1>0. /\ last \in Attempts /\ DispatchOK /\ WorkOK
      /\ UNCHANGED <<last, attempt, withdrawn, record, asked, worker, request>>
  BY DispatchFrame DEF IInv, TypeInv, RequestOK
<1>1. PICK a \in Attempts :
        /\ ~ a > last
        /\ \A b \in Attempts : b # a => dispatch'[b] = dispatch[b]
        /\ \/ dispatch'[a].touched = dispatch[a].touched
           \/ dispatch'[a].touched /\ request.status \in Active
        /\ \A b \in Attempts : ~dispatch[b].touched /\ source[b].state = "none" => source'[b].state = "none"
        /\ \A e \in Dispatchers : dispatcher'[e].stage # "idle" =>
             \/ dispatcher[e].stage # "idle" /\ dispatcher'[e].attempt = dispatcher[e].attempt
             \/ dispatcher'[e].attempt = a /\ dispatch'[a].touched
  <2>1. ASSUME NEW a \in Attempts, ClaimDispatch(d, a)
        PROVE  /\ ~ a > last /\ UNCHANGED source
               /\ \A b \in Attempts : b # a => dispatch'[b] = dispatch[b]
               /\ \/ dispatch'[a].touched = dispatch[a].touched
                  \/ dispatch'[a].touched /\ request.status \in Active
               /\ \A e \in Dispatchers : dispatcher'[e].stage # "idle" =>
                    \/ dispatcher[e].stage # "idle" /\ dispatcher'[e].attempt = dispatcher[e].attempt
                    \/ dispatcher'[e].attempt = a /\ dispatch'[a].touched
    <3>1. ~ a > last /\ UNCHANGED source
      BY <2>1 DEF ClaimDispatch, HistoryOK
    <3>2. CASE MayRun(a)
      <4>1. dispatch' = [dispatch EXCEPT ![a] = [state |-> "dispatched", touched |-> TRUE, lease |-> d]]
        BY <2>1, <3>2 DEF ClaimDispatch
      <4>2. dispatcher' = [dispatcher EXCEPT ![d] = [attempt |-> a, stage |-> "claimed"]]
        BY <2>1, <3>2 DEF ClaimDispatch
      <4>3. /\ dispatch'[a].touched
            /\ \A b \in Attempts : b # a => dispatch'[b] = dispatch[b]
        BY <1>0, <4>1 DEF DispatchOK
      <4>4. /\ dispatcher'[d].attempt = a
            /\ \A e \in Dispatchers : e # d => dispatcher'[e] = dispatcher[e]
        BY <1>0, <4>2 DEF DispatchOK
      <4> QED BY <3>1, <3>2, <4>3, <4>4 DEF MayRun
    <3>3. CASE ~MayRun(a)
      <4>1. UNCHANGED dispatcher /\ dispatch' = Suppressed(a)
        BY <2>1, <3>3 DEF ClaimDispatch
      <4>2. /\ dispatch'[a].touched = dispatch[a].touched
            /\ \A b \in Attempts : b # a => dispatch'[b] = dispatch[b]
        BY <1>0, <4>1 DEF Suppressed, DispatchOK, DispatchRows
      <4> QED BY <3>1, <4>1, <4>2
    <3> QED BY <3>2, <3>3
  <2>2. CASE CheckDispatch(d) \/ EnqueueSource(d) \/ AcknowledgeDispatch(d) \/ DispatchFails(d)
    <3> DEFINE a == dispatcher[d].attempt
    <3>1. a \in Attempts /\ dispatch[a].touched /\ ~ a > last
      BY <1>0, <2>2 DEF CheckDispatch, EnqueueSource, AcknowledgeDispatch, DispatchFails, DispatchOK,
                        HistoryOK
    <3>2. \/ UNCHANGED dispatch
          \/ \E s \in {"delivered", "pending", "cancelled", "rejected"} :
               dispatch' = [dispatch EXCEPT ![a].state = s, ![a].lease = Nobody]
      BY <2>2 DEF CheckDispatch, EnqueueSource, AcknowledgeDispatch, DispatchFails, Suppressed
    <3>3. /\ dispatch'[a].touched = dispatch[a].touched
          /\ \A b \in Attempts : b # a => dispatch'[b] = dispatch[b]
      <4>1. CASE UNCHANGED dispatch
        BY <4>1
      <4>2. ASSUME NEW s \in {"delivered", "pending", "cancelled", "rejected"},
                   dispatch' = [dispatch EXCEPT ![a].state = s, ![a].lease = Nobody]
            PROVE  /\ dispatch'[a].touched = dispatch[a].touched
                   /\ \A b \in Attempts : b # a => dispatch'[b] = dispatch[b]
        <5> HIDE DEF a
        <5>1. dispatch \in [Attempts -> DispatchRows]
          BY <1>0 DEF DispatchOK
        <5>2. dispatch' = [b \in Attempts |-> IF b = a THEN [dispatch[a] EXCEPT !.state = s, !.lease = Nobody]
                                              ELSE dispatch[b]]
          BY <4>2, <5>1
        <5>3. dispatch[a] \in DispatchRows
          BY <3>1, <5>1
        <5> QED BY <3>1, <5>2, <5>3 DEF DispatchRows
      <4> QED BY <3>2, <4>1, <4>2
    <3>4. \A b \in Attempts : ~dispatch[b].touched /\ source[b].state = "none" => source'[b].state = "none"
      <4>1. CASE EnqueueSource(d)
        BY <1>0, <3>1, <4>1 DEF EnqueueSource, WorkOK
      <4>2. CASE ~EnqueueSource(d)
        <5>1. source' = source \/ source' = Without(a)
          BY <2>2, <4>2 DEF CheckDispatch, AcknowledgeDispatch, DispatchFails
        <5> QED BY <3>1, <5>1, WithoutNone
      <4> QED BY <4>1, <4>2
    <3>5. \A e \in Dispatchers : dispatcher'[e].stage # "idle" =>
            dispatcher[e].stage # "idle" /\ dispatcher'[e].attempt = dispatcher[e].attempt
      <4>1. \/ dispatcher' = [dispatcher EXCEPT ![d] = NoDispatch]
            \/ \E s \in {"checked", "enqueued"} : dispatcher' = [dispatcher EXCEPT ![d].stage = s]
        BY <2>2 DEF CheckDispatch, EnqueueSource, AcknowledgeDispatch, DispatchFails
      <4>2. dispatcher[d].stage # "idle"
        BY <2>2 DEF CheckDispatch, EnqueueSource, AcknowledgeDispatch, DispatchFails
      <4> QED BY <1>0, <4>1, <4>2 DEF DispatchOK, NoDispatch
    <3> QED BY <3>1, <3>3, <3>4, <3>5
  <2> QED BY <2>1, <2>2 DEF Dispatches
<1>2. \A b \in Attempts : dispatch[b].touched => dispatch'[b].touched
  BY <1>1
<1>3. \A b \in Attempts :
        /\ b < last => attempt[b].status \in Over
        /\ b > last => /\ attempt[b].status = "none"
                       /\ dispatch'[b].state = "none" /\ ~dispatch'[b].touched
        /\ ~dispatch'[b].touched =>
             source'[b].state = "none" /\ record[b] = NoRecord /\ asked[b] = 0
  BY <1>1, <1>2 DEF HistoryOK
<1>4. \A e \in Dispatchers :
        dispatcher'[e].stage # "idle" => dispatch'[dispatcher'[e].attempt].touched
  BY <1>0, <1>1, <1>2 DEF DispatchOK, HistoryOK
<1>5. \A w \in Workers : worker[w].stage # "idle" => dispatch'[worker[w].attempt].touched
  BY <1>0, <1>2 DEF WorkOK, WorkRows, HistoryOK
<1>6. withdrawn => request.status = "cancelled" /\ ~dispatch'[last].touched
  BY <1>0, <1>1 DEF HistoryOK, Active
<1> QED BY <1>0, <1>3, <1>4, <1>5, <1>6 DEF HistoryOK

LEMMA HistoryStep ==
  ASSUME IInv, HistoryOK, Next
  PROVE  HistoryOK'
  BY CancelHistory, RetryHistory, DispatchHistory, WorkHistory, IngestHistory, FinalHistory,
     RedispatchHistory, QuarantineHistory, DecisionHistory DEF Next

LEMMA InitHistory == Init => HistoryOK
<1> SUFFICES ASSUME Init PROVE HistoryOK
  OBVIOUS
<1> USE DEF Init, NoAttempt, NewAttempt, NoRow, NewRow, NoJob, NoDispatch, NoWork
<1>1. \A a \in Attempts : ~ a < 1 /\ (a > 1 => a # 1)
  BY DEF Attempts
<1> QED BY <1>1 DEF HistoryOK

\* The history of a Request's attempts is in order in every behaviour.
THEOREM HistoryInvariance == Spec => []HistoryOK
<1>1. IInv /\ HistoryOK /\ [Next]_vars => HistoryOK'
  <2>1. IInv /\ HistoryOK /\ Next => HistoryOK'
    BY HistoryStep
  <2>2. IInv /\ HistoryOK /\ UNCHANGED vars => HistoryOK'
    BY DEF HistoryOK, vars, money, product, queues, blob, gen
  <2> QED BY <2>1, <2>2
<1> QED BY <1>1, InitHistory, Invariance, PTL DEF Spec

\* No late worker, finalizer, sweep or decision rewrites how an attempt ended,
\* and none runs it again.
THEOREM OutcomesAreFinal == Spec => AttemptOutcomeIsFinal
<1>1. IInv /\ HistoryOK /\ [Next]_vars =>
        [\A a \in Attempts : attempt[a].status \in Over =>
           /\ attempt'[a].status = attempt[a].status
           /\ \A n \in Transports : transport'[a][n] = "running" => transport[a][n] = "running"]_vars
  <2> SUFFICES ASSUME IInv, HistoryOK, Next
               PROVE  \A a \in Attempts : attempt[a].status \in Over =>
                        /\ attempt'[a].status = attempt[a].status
                        /\ \A n \in Transports : transport'[a][n] = "running" => transport[a][n] = "running"
    OBVIOUS
  <2>1. StatusStays /\ RunsStay
    BY StatusStep, RunsStep
  <2> QED BY <2>1 DEF StatusStays, RunsStay
<1> QED BY <1>1, Invariance, HistoryInvariance, PTL DEF Spec, AttemptOutcomeIsFinal

\* A user who could still cancel pays no provider.
THEOREM WithdrawnIsNotAsked == Spec => []WithdrawnIsNeverInvoked
<1>1. IInv /\ HistoryOK => WithdrawnIsNeverInvoked
  BY DEF IInv, TypeInv, RequestOK, HistoryOK, WithdrawnIsNeverInvoked
<1> QED BY <1>1, Invariance, HistoryInvariance, PTL

\* A provider whose calls may not be repeated is asked at most once per attempt.
THEOREM AskedOnce == Spec => []ProviderAskedOnce
<1>1. Init => AskedOK
  BY DEF Init, AskedOK
<1>2. IInv /\ AskedOK /\ [Next]_vars => AskedOK'
  <2> SUFFICES ASSUME IInv, AskedOK, [Next]_vars PROVE AskedOK'
    OBVIOUS
  <2>1. CASE UNCHANGED <<order, guard, asked>>
    BY <2>1 DEF AskedOK
  <2>2. ASSUME NEW w \in Workers, AskProvider(w) PROVE AskedOK'
    <3> DEFINE a == worker[w].attempt
    <3>1. a \in Attempts /\ worker[w].no \in Transports
      BY <2>2, WorkerTypes DEF AskProvider, At, IInv, TypeInv
    <3>2. worker[w].no # 0
      BY <3>1 DEF Transports
    <3>3. UNCHANGED order /\ guard \in [Attempts -> Transports \cup {0}] /\ asked \in [Attempts -> Nat]
      BY <2>2, WorkFrame DEF Works, IInv, TypeInv, RecordOK
    <3>4. \A b \in Attempts : b # a => guard'[b] = guard[b] /\ asked'[b] = asked[b]
      BY <2>2, <3>3 DEF AskProvider
    <3>5. guard'[a] # 0 /\ asked'[a] = asked[a] + 1
      BY <2>2, <3>1, <3>2, <3>3 DEF AskProvider
    <3>6. ~order.replayable => asked[a] = 0
      BY <2>2, <3>1 DEF AskProvider, AskedOK
    <3> QED BY <3>3, <3>4, <3>5, <3>6 DEF AskedOK
  <2>3. ASSUME NEW w \in Workers, Works(w) \/ SafeRetry(w) \/ LoseLock(w), ~AskProvider(w)
        PROVE  UNCHANGED <<order, guard, asked>>
    BY <2>3, WorkFrame DEF Works, SafeRetry, LoseLock, TakeSource, StopPreparation, Authorize,
       FindsEarlierCall, ProviderAnswers, CannotPersist, RunFails, AcknowledgeRecord, blob
  <2>4. CASE UNCHANGED vars
    BY <2>1, <2>4 DEF vars, money, blob, gen
  <2> QED BY <2>1, <2>2, <2>3, <2>4, DecisionFrame, DispatchFrame, IngestFrame, FinalFrame, StaleFrame
          DEF Next
<1>3. AskedOK => ProviderAskedOnce
  BY DEF AskedOK, ProviderAskedOnce
<1> QED BY <1>1, <1>2, <1>3, Invariance, PTL DEF Spec
-----------------------------------------------------------------------------
(* What is done, delivered and given back *)

\* Blob keeps the first record of an attempt.
LEMMA RecordStays ==
  ASSUME IInv, Next, NEW a \in Attempts, record[a] # NoRecord
  PROVE  record'[a] = record[a]
<1>0. RecordOK /\ WorkOK
  BY DEF IInv, TypeInv
<1>1. CASE UNCHANGED record
  BY <1>1
<1>2. ASSUME NEW w \in Workers, StopPreparation(w) \/ FindsEarlierCall(w) \/ ProviderAnswers(w)
      PROVE  record'[a] = record[a]
  <2>1. record[worker[w].attempt] = NoRecord
    BY <1>0, <1>2, WorkerPersists
  <2>2. \E r : record' = [record EXCEPT ![worker[w].attempt] = r]
    BY <1>0, <1>2, WorkerPersists
  <2> QED BY <1>0, <2>1, <2>2 DEF RecordOK
<1>3. ASSUME NEW w \in Workers, Works(w) \/ SafeRetry(w) \/ LoseLock(w),
             ~(StopPreparation(w) \/ FindsEarlierCall(w) \/ ProviderAnswers(w))
      PROVE  UNCHANGED record
  BY <1>3 DEF Works, SafeRetry, LoseLock, TakeSource, Authorize, AskProvider, CannotPersist,
              RunFails, AcknowledgeRecord, blob
<1> QED BY <1>1, <1>2, <1>3, DecisionFrame, DispatchFrame, IngestFrame, FinalFrame, StaleFrame DEF Next

\* Only a retry opens a Request again.
LEMMA OnlyRetryOpens ==
  ASSUME IInv, Next, ~Retry
  PROVE  UNCHANGED last /\ (request.status \notin Active => request'.status \notin Active)
<1>0. request \in [status : Active \cup {"completed", "failed", "blocked", "cancelled"},
                   confirmed : BOOLEAN, delivered : 0..Outputs]
  BY DEF IInv, TypeInv, RequestOK
<1>1. CASE CancelBeforeDispatch \/ OperatorCancel
  BY <1>0, <1>1 DEF CancelBeforeDispatch, OperatorCancel, Cancel, Active
<1>2. CASE \/ AdoptSuccess \/ \E by \in {"operator", "automatic"} : ConfirmFailed(by)
           \/ \E cause \in {"operator_manual", "incident"} : OperatorRefund(cause)
  BY <1>2 DEF AdoptSuccess, ConfirmFailed, OperatorRefund, DecisionUnchanged, Active
<1>3. ASSUME NEW f \in Finalizers, Finalizes(f)
      PROVE  UNCHANGED last /\ (request.status \notin Active => request'.status \notin Active)
  <2>1. UNCHANGED last
    BY <1>3, FinalFrame
  <2>2. request.status \notin Active => request'.status \notin Active
    <3>1. request.status \notin Active => UNCHANGED request
      <4>1. CASE CompleteRequest(f)
        BY <4>1 DEF CompleteRequest, CanComplete, Active
      <4>2. CASE MarkModerating(f) \/ ReturnRequest(f)
        BY <4>2 DEF MarkModerating, ReturnRequest
      <4> QED BY <1>3, <4>1, <4>2 DEF Finalizes, StartFinal, ModerateOutput, HoldRequest, FinalFails
    <3> QED BY <3>1
  <2> QED BY <2>1, <2>2
<1> QED BY <1>1, <1>2, <1>3, DispatchFrame, WorkFrame, IngestFrame, StaleFrame DEF Next

\* What a finalizer that ends leaves behind.
LEMMA EndsSettled ==
  ASSUME IInv, HistoryOK, Next, NEW f \in Finalizers, Finalizes(f),
         NEW a \in Attempts, final'[a] = "done", final[a] # "done"
  PROVE  a < last \/ request'.status \notin Active \/ attempt'[a].status = "unknown"
<1>0. RecordOK /\ AttemptOK /\ last \in Attempts
  BY DEF IInv, TypeInv, RequestOK
<1>1. \A b \in Attempts : record[b] # NoRecord /\ b # last => b < last
  <2>1. \A b \in Attempts : record[b] # NoRecord => ~ b > last
    BY KnownIsReserved
  <2> QED BY <1>0, <2>1 DEF Attempts
<1>2. CASE \E b \in Attempts : StartFinal(f, b)
  <2>1. PICK b \in Attempts : StartFinal(f, b)
    BY <1>2
  <2>2. Ends(f, b) /\ ~(b = last /\ (request.status \in Active \/ record[b].outcome = "unknown"))
    BY <2>1 DEF StartFinal
  <2>3. a = b /\ record[b] # NoRecord /\ UNCHANGED request
    BY <1>0, <2>1, <2>2 DEF StartFinal, Ends, RecordOK
  <2> QED BY <1>1, <2>2, <2>3
<1>3. CASE MarkModerating(f) \/ CompleteRequest(f) \/ ReturnRequest(f) \/ HoldRequest(f)
  <2> DEFINE b == finalizer[f].attempt
  <2>1. b \in Attempts /\ record[b] # NoRecord
    BY <1>0, <1>3 DEF MarkModerating, CompleteRequest, ReturnRequest, HoldRequest, RecordOK
  <2>2. Ends(f, b)
    BY <1>3 DEF MarkModerating, CompleteRequest, ReturnRequest, HoldRequest
  <2>3. a = b
    BY <1>0, <2>1, <2>2 DEF Ends, RecordOK
  <2>4. CASE MarkModerating(f)
    BY <1>0, <2>2, <2>4 DEF MarkModerating, Ends, RecordOK, NoFinal
  <2>5. CASE CompleteRequest(f)
    BY <2>5 DEF CompleteRequest, Active
  <2>6. CASE ReturnRequest(f)
    BY <1>1, <2>1, <2>3, <2>6 DEF ReturnRequest, Active
  <2>7. CASE HoldRequest(f)
    <3>1. CASE b = last /\ request.status \in Active
      <4>1. attempt' = [attempt EXCEPT ![b].status = "unknown", ![b].again = FALSE]
        BY <2>7, <3>1 DEF HoldRequest, Unknown
      <4> QED BY <1>0, <2>3, <4>1 DEF AttemptOK, AttemptRows
    <3>2. CASE ~(b = last /\ request.status \in Active)
      BY <1>1, <2>1, <2>3, <2>7, <3>2 DEF HoldRequest
    <3> QED BY <3>1, <3>2
  <2> QED BY <1>3, <2>4, <2>5, <2>6, <2>7
<1>4. CASE ModerateOutput(f) \/ FinalFails(f)
  BY <1>4 DEF ModerateOutput, FinalFails
<1> QED BY <1>2, <1>3, <1>4 DEF Finalizes

\* A finalize job that is done leaves no open Request behind.
THEOREM DoneJobsAreSettled == Spec => []DoneIsSettled
<1>1. Init => DoneIsSettled
  BY DEF Init, DoneIsSettled
<1>2. IInv /\ HistoryOK /\ DoneIsSettled /\ [Next]_vars => DoneIsSettled'
  <2> SUFFICES ASSUME IInv, HistoryOK, DoneIsSettled, [Next]_vars PROVE DoneIsSettled'
    OBVIOUS
  <2>1. CASE UNCHANGED vars
    BY <2>1 DEF vars, product, ingest, DoneIsSettled
  <2>2. CASE Next
    <3>0. RecordOK /\ AttemptOK /\ last \in Attempts /\ StatusStays
      BY <2>2, StatusStep DEF IInv, TypeInv, RequestOK
    <3>1. CASE Retry
      <4>1. UNCHANGED final /\ last' = last + 1
        BY <3>1 DEF Retry, ingest
      <4>2. \A a \in Attempts : final[a] = "done" => a < last + 1
        <5>1. \A a \in Attempts : final[a] = "done" => ~ a > last
          BY <3>0, KnownIsReserved DEF RecordOK
        <5> QED BY <3>0, <5>1 DEF Attempts
      <4> QED BY <4>1, <4>2 DEF DoneIsSettled
    <3>2. CASE ~Retry
      <4>1. UNCHANGED last /\ (request.status \notin Active => request'.status \notin Active)
        BY <2>2, <3>2, OnlyRetryOpens
      <4>2. ASSUME NEW a \in Attempts, final'[a] = "done", final[a] # "done"
            PROVE  a < last \/ request'.status \notin Active \/ attempt'[a].status = "unknown"
        <5>1. \E f \in Finalizers : Finalizes(f)
          <6>1. ASSUME NEW b \in Attempts, Ingests(b) PROVE final'[a] # "done"
            BY <3>0, <4>2, <6>1 DEF Ingests, RecoverFailedSource, DispatchFinal, IngestRecord,
               IngestLate, IngestResolution, IngestDuplicate, WorkUnchanged, ingest, RecordOK
          <6> QED BY <2>2, <4>2, <6>1, DecisionFrame, DispatchFrame, WorkFrame, StaleFrame DEF Next
        <5> QED BY <2>2, <4>2, <5>1, EndsSettled
      <4> QED BY <3>0, <4>1, <4>2 DEF DoneIsSettled, StatusStays, Over
    <3> QED BY <3>1, <3>2
  <2> QED BY <2>1, <2>2
<1> QED BY <1>1, <1>2, Invariance, HistoryInvariance, PTL DEF Spec

\* The assets of a completed Request are those of the record it was completed from.
DeliveredOK ==
  request.status = "completed" =>
    /\ record[last] # NoRecord /\ assets = record[last].outputs
    /\ attempt[last].status = "succeeded" \/ decision[last] = "adopted"

LEMMA DeliveredStep ==
  ASSUME IInv, HistoryOK, DeliveredOK, Next
  PROVE  DeliveredOK'
<1>0. RecordOK /\ AttemptOK /\ RequestOK /\ GoodsOK /\ last \in Attempts /\ StatusStays
  BY StatusStep DEF IInv, TypeInv, RequestOK
<1>1. CASE request.status = "completed"
  <2>1. request' = request /\ UNCHANGED assets
    BY <1>1, ClosedStays
  <2>2. UNCHANGED last
    BY <1>1, OnlyRetryOpens DEF Retry, MayRetry
  <2>3. record'[last] = record[last]
    BY <1>0, <1>1, RecordStays DEF DeliveredOK
  <2>4. attempt[last].status = "succeeded" => attempt'[last].status = "succeeded"
    BY <1>0 DEF StatusStays, Over
  <2>5. UNCHANGED decision
    <3>1. CASE Retry \/ CancelBeforeDispatch \/ OperatorCancel
      BY <3>1 DEF Retry, CancelBeforeDispatch, OperatorCancel, Cancel
    <3>2. ASSUME \/ AdoptSuccess \/ \E by \in {"operator", "automatic"} : ConfirmFailed(by)
                 \/ \E cause \in {"operator_manual", "incident"} : OperatorRefund(cause)
          PROVE  UNCHANGED decision
      BY <1>1, <3>2 DEF AdoptSuccess, MayAdopt, Correctable, ConfirmFailed, MayConfirmFailed,
                        OperatorRefund, Active
    <3> QED BY <3>1, <3>2, DispatchFrame, WorkFrame, IngestFrame, FinalFrame, StaleFrame DEF Next
  <2> QED BY <1>1, <2>1, <2>2, <2>3, <2>4, <2>5 DEF DeliveredOK
<1>2. CASE request.status # "completed" /\ request'.status = "completed"
  <2>1. ASSUME NEW f \in Finalizers, CompleteRequest(f) PROVE DeliveredOK'
    <3> DEFINE a == finalizer[f].attempt
    <3>1. a \in Attempts /\ record[a] # NoRecord /\ finalizer[f].existing = 0 /\ assets = 0
      BY <1>0, <1>2, <2>1 DEF CompleteRequest, RecordOK, GoodsOK, RequestOK
    <3>2. ~ a > last /\ ~ a < last
      BY <2>1, <3>1, KnownIsReserved DEF CompleteRequest, CanComplete, HistoryOK
    <3>3. a = last
      BY <1>0, <3>1, <3>2 DEF Attempts
    <3>4. UNCHANGED <<last, record>>
      BY <2>1, FinalFrame DEF Finalizes
    <3>5. record[a] \in Records
      BY <1>0, <3>1 DEF RecordOK
    <3>6. assets' = record[a].outputs
      BY <2>1, <3>1, <3>5 DEF CompleteRequest, Records
    <3>7. attempt'[a].status = "succeeded"
      BY <1>0, <2>1, <3>1 DEF CompleteRequest, AttemptOK, AttemptRows
    <3> QED BY <3>1, <3>3, <3>4, <3>6, <3>7 DEF DeliveredOK
  <2>2. CASE AdoptSuccess
    <3>1. last \in recovered /\ assets = 0 /\ UNCHANGED <<last, record>>
      BY <2>2, DecisionFrame DEF AdoptSuccess, MayAdopt, DecisionUnchanged
    <3>2. record[last] \in Records /\ record[last] # NoRecord
      BY <1>0, <3>1 DEF RecordOK
    <3>3. assets' = record[last].outputs
      BY <2>2, <3>1, <3>2 DEF AdoptSuccess, Records
    <3>4. decision'[last] = "adopted"
      BY <1>0, <2>2 DEF AdoptSuccess, RequestOK
    <3> QED BY <3>1, <3>2, <3>3, <3>4 DEF DeliveredOK
  <2>3. CASE CancelBeforeDispatch \/ OperatorCancel \/ Retry
             \/ (\E by \in {"operator", "automatic"} : ConfirmFailed(by))
             \/ \E cause \in {"operator_manual", "incident"} : OperatorRefund(cause)
    <3>1. \/ UNCHANGED request
          \/ request' = [request EXCEPT !.status = "cancelled", !.delivered = 0]
          \/ request'.status \in {"queued", "failed"}
      BY <2>3 DEF CancelBeforeDispatch, OperatorCancel, Cancel, Retry, ConfirmFailed, OperatorRefund
    <3> QED BY <1>0, <1>2, <3>1 DEF RequestOK
  <2>4. ASSUME NEW f \in Finalizers, Finalizes(f), ~CompleteRequest(f) PROVE FALSE
    <3>1. \/ UNCHANGED request
          \/ request' = [request EXCEPT !.status = "moderating_output"]
          \/ request'.status \in {"failed", "blocked"}
      <4>1. CASE ReturnRequest(f)
        BY <4>1 DEF ReturnRequest
      <4>2. CASE ~ReturnRequest(f)
        BY <2>4, <4>2 DEF Finalizes, StartFinal, MarkModerating, ModerateOutput, HoldRequest, FinalFails
      <4> QED BY <4>1, <4>2
    <3> QED BY <1>0, <1>2, <3>1 DEF RequestOK
  <2> QED BY <1>2, <2>1, <2>2, <2>3, <2>4, DispatchFrame, WorkFrame, IngestFrame, StaleFrame DEF Next
<1>3. CASE request'.status # "completed"
  BY <1>3 DEF DeliveredOK
<1> QED BY <1>1, <1>2, <1>3

\* Assets are made once, by the latest attempt, exactly when the Request is completed.
THEOREM AssetsAreMadeOnce == Spec => []DeliveredOnce
<1>1. Init => DeliveredOK
  BY DEF Init, DeliveredOK
<1>2. IInv /\ HistoryOK /\ DeliveredOK /\ [Next]_vars => DeliveredOK'
  <2>1. IInv /\ HistoryOK /\ DeliveredOK /\ Next => DeliveredOK'
    BY DeliveredStep
  <2>2. DeliveredOK /\ UNCHANGED vars => DeliveredOK'
    BY DEF DeliveredOK, vars, product, blob
  <2> QED BY <2>1, <2>2
<1>3. IInv /\ DeliveredOK => DeliveredOnce
  BY DEF IInv, GoodsOK, DeliveredOK, DeliveredOnce
<1> QED BY <1>1, <1>2, <1>3, Invariance, HistoryInvariance, PTL DEF Spec

\* A refund is entered under its own cause, and a refund of nothing not at all.
LEMMA RefundEnters ==
  ASSUME RequestOK, NEW cause \in Causes, NEW requested \in Nat, Refund(cause, requested)
  PROVE  /\ \A c \in Causes \ {cause} : refunds'[c] = refunds[c]
         /\ requested = 0 \/ Refundable = 0 => refunds' = refunds
<1>1. Refundable \in Nat
  BY CostNat DEF Refundable
<1>2. UNCHANGED refunds \/ \E r : refunds' = [refunds EXCEPT ![cause] = r]
  BY DEF Refund
<1>3. requested = 0 \/ Refundable = 0 => Clamped(requested) = 0
  BY <1>1 DEF Clamped
<1> QED BY <1>2, <1>3 DEF Refund, RequestOK

\* Nothing was missing, so nothing is owed.
LEMMA NothingMissing == ASSUME RequestOK PROVE Share(0) = 0
<1>1. order.cost \in Nat /\ Outputs \in Nat \ {0}
  BY CostNat, GenerationAssumption DEF GenerationAssumption
<1>2. order.cost * 0 = 0
  BY <1>1
<1>3. Outputs - 1 \in Nat /\ Outputs - 1 < Outputs
  BY <1>1
<1>4. (Outputs - 1) \div Outputs = 0
  <2>1. \A x \in Nat, y \in Nat \ {0} : x < y => x \div y = 0
    OBVIOUS
  <2> QED BY <1>1, <1>3, <2>1
<1> QED BY <1>1, <1>2, <1>4 DEF Share

LEMMA CauseStep ==
  ASSUME IInv, HistoryOK, EveryRefundHasItsCause, Next
  PROVE  EveryRefundHasItsCause'
<1>0. /\ RecordOK /\ AttemptOK /\ RequestOK /\ MoneyOK /\ last \in Attempts /\ StatusStays
      /\ UNCHANGED order
  BY StatusStep, MovesStep DEF IInv, TypeInv, RequestOK
<1>c. /\ request.status = "cancelled" => request'.status = "cancelled"
      /\ request.status = "completed" => request' = request
  BY ClosedStays
<1>f. order.cost \in Nat
  BY <1>0, CostNat
<1>a. \A a \in Attempts : attempt[a].status \in {"failed", "blocked", "unknown"} =>
        attempt'[a].status = attempt[a].status
  BY <1>0 DEF StatusStays, Over
<1>d. (\E a \in Attempts : attempt[a].status = "unknown" /\ decision[a] = "failed") =>
        \E a \in Attempts : attempt'[a].status = "unknown" /\ decision'[a] = "failed"
  <2>1. \A a \in Attempts : decision[a] = "failed" => decision'[a] = "failed"
    <3>1. \/ UNCHANGED decision
          \/ decision[last] # "failed" /\ \E s : decision' = [decision EXCEPT ![last] = s]
      <4>1. CASE Retry \/ CancelBeforeDispatch \/ OperatorCancel
        BY <4>1 DEF Retry, CancelBeforeDispatch, OperatorCancel, Cancel
      <4>2. CASE AdoptSuccess
        BY <4>2 DEF AdoptSuccess, MayAdopt, Correctable
      <4>3. CASE \/ \E by \in {"operator", "automatic"} : ConfirmFailed(by)
                 \/ \E cause \in {"operator_manual", "incident"} : OperatorRefund(cause)
        BY <4>3 DEF ConfirmFailed, MayConfirmFailed, OperatorRefund
      <4> QED BY <4>1, <4>2, <4>3, DispatchFrame, WorkFrame, IngestFrame, FinalFrame, StaleFrame DEF Next
    <3> QED BY <1>0, <3>1 DEF RequestOK
  <2> QED BY <1>a, <2>1
\* a step that enters nothing
<1>1. ASSUME UNCHANGED refunds PROVE EveryRefundHasItsCause'
  BY <1>1, <1>c, <1>a, <1>d DEF EveryRefundHasItsCause
<1>2. CASE CancelBeforeDispatch \/ OperatorCancel
  <2>1. Refund("cancel", order.cost) /\ request'.status = "cancelled"
    BY <1>0, <1>2 DEF CancelBeforeDispatch, OperatorCancel, Cancel, RequestOK
  <2>2. \A c \in Causes \ {"cancel"} : refunds'[c] = refunds[c]
    BY <1>0, <1>f, <2>1, RefundEnters DEF Causes
  <2> QED BY <1>c, <1>a, <1>d, <2>1, <2>2 DEF EveryRefundHasItsCause, Causes
<1>3. ASSUME NEW n \in 1..Outputs, Refund("partial", Share(Outputs - n)),
             request'.status = "completed", request'.delivered = n,
             request.status \notin {"completed", "cancelled"}
      PROVE  EveryRefundHasItsCause'
  <2>1. Outputs - n \in 0..Outputs /\ (n < Outputs \/ Outputs - n = 0)
    BY GenerationAssumption DEF GenerationAssumption
  <2>2. Share(Outputs - n) \in Nat
    BY <1>0, <2>1, ShareNat
  <2>3. \A c \in Causes \ {"partial"} : refunds'[c] = refunds[c]
    BY <1>0, <1>3, <2>2, RefundEnters DEF Causes
  <2>4. refunds'["partial"] > 0 => n < Outputs
    <3>1. CASE Outputs - n = 0
      <4>1. Share(Outputs - n) = 0
        BY <1>0, <3>1, NothingMissing
      <4>2. refunds' = refunds
        BY <1>0, <1>3, <2>2, <4>1, RefundEnters DEF Causes
      <4> QED BY <1>0, <1>3, <4>2 DEF MoneyOK
    <3> QED BY <2>1, <3>1
  <2> QED BY <1>3, <1>a, <1>d, <2>3, <2>4 DEF EveryRefundHasItsCause, Causes
<1>4. ASSUME NEW f \in Finalizers, CompleteRequest(f) PROVE EveryRefundHasItsCause'
  <2> DEFINE a == finalizer[f].attempt
  <2>1. a \in Attempts /\ record[a] \in Records /\ record[a].outputs > 0
    BY <1>0, <1>4 DEF CompleteRequest, RecordOK
  <2>2. record[a].outputs \in 1..Outputs
    BY <2>1, GenerationAssumption DEF Records, GenerationAssumption
  <2>3. /\ Refund("partial", Share(Outputs - record[a].outputs))
        /\ request'.status = "completed" /\ request'.delivered = record[a].outputs
        /\ request.status \notin {"completed", "cancelled"}
    BY <1>4 DEF CompleteRequest, CanComplete
  <2> QED BY <1>3, <2>2, <2>3
<1>5. CASE AdoptSuccess
  <2>1. record[last] \in Records /\ record[last].outputs > 0
    BY <1>0, <1>5 DEF AdoptSuccess, MayAdopt, RecordOK
  <2>2. record[last].outputs \in 1..Outputs
    BY <2>1, GenerationAssumption DEF Records, GenerationAssumption
  <2>3. /\ Refund("partial", Share(Outputs - record[last].outputs))
        /\ request'.status = "completed" /\ request'.delivered = record[last].outputs
        /\ request.status \notin {"completed", "cancelled"}
    BY <1>5 DEF AdoptSuccess, MayAdopt, Correctable, Active
  <2> QED BY <1>3, <2>2, <2>3
<1>6. ASSUME NEW f \in Finalizers, ReturnRequest(f) PROVE EveryRefundHasItsCause'
  <2> DEFINE a == finalizer[f].attempt
  <2>1. CASE a = last /\ request.status \in Active
    <3>1. Refund("failed", order.cost) /\ request.status \in Active
      BY <1>6, <2>1 DEF ReturnRequest
    <3>2. \A c \in Causes \ {"failed"} : refunds'[c] = refunds[c]
      BY <1>0, <1>f, <3>1, RefundEnters DEF Causes
    <3>3. attempt'[last].status \in {"failed", "blocked"}
      BY <1>0, <1>6, <2>1 DEF ReturnRequest, AttemptOK, AttemptRows
    <3>4. request.status \notin {"completed", "cancelled"}
      BY <3>1 DEF Active
    <3> QED BY <1>0, <1>d, <3>2, <3>3, <3>4 DEF EveryRefundHasItsCause, Causes
  <2>2. CASE ~(a = last /\ request.status \in Active)
    BY <1>1, <1>6, <2>2 DEF ReturnRequest
  <2> QED BY <2>1, <2>2
<1>7. ASSUME NEW by \in {"operator", "automatic"}, ConfirmFailed(by) PROVE EveryRefundHasItsCause'
  <2>1. /\ Refund("unknown_confirmed", order.cost) /\ attempt[last].status = "unknown"
        /\ request.status \in Active \cup {"failed"}
        /\ decision' = [decision EXCEPT ![last] = IF by = "automatic" /\ Refundable = 0 THEN by ELSE "failed"]
    BY <1>7 DEF ConfirmFailed, MayConfirmFailed
  <2>2. /\ \A c \in Causes \ {"unknown_confirmed"} : refunds'[c] = refunds[c]
        /\ Refundable = 0 => refunds' = refunds
    BY <1>0, <1>f, <2>1, RefundEnters DEF Causes
  <2>3. CASE Refundable = 0
    BY <1>1, <2>2, <2>3
  <2>4. CASE Refundable # 0
    <3>1. decision'[last] = "failed" /\ attempt'[last].status = "unknown"
      BY <1>0, <1>a, <2>1, <2>4 DEF RequestOK
    <3>2. request.status \notin {"completed", "cancelled"}
      BY <2>1 DEF Active
    <3> QED BY <1>0, <1>a, <2>2, <3>1, <3>2 DEF EveryRefundHasItsCause, Causes
  <2> QED BY <2>3, <2>4
<1>8. ASSUME NEW cause \in {"operator_manual", "incident"}, OperatorRefund(cause)
      PROVE  EveryRefundHasItsCause'
  <2>1. Refund(cause, order.cost)
    BY <1>8 DEF OperatorRefund
  <2>2. \A c \in Causes \ {"operator_manual", "incident"} : refunds'[c] = refunds[c]
    BY <1>0, <1>f, <2>1, RefundEnters DEF Causes
  <2> QED BY <1>c, <1>a, <1>d, <2>2 DEF EveryRefundHasItsCause, Causes
<1>9. ASSUME NEW f \in Finalizers, Finalizes(f), ~CompleteRequest(f), ~ReturnRequest(f)
      PROVE  UNCHANGED refunds
  BY <1>9 DEF Finalizes, StartFinal, MarkModerating, ModerateOutput, HoldRequest, FinalFails
<1>10. CASE Retry
  BY <1>1, <1>10 DEF Retry, money
<1> QED BY <1>1, <1>2, <1>4, <1>5, <1>6, <1>7, <1>8, <1>9, <1>10,
           DispatchFrame, WorkFrame, IngestFrame, StaleFrame DEF Next

\* No refund is without the event that explains it.
THEOREM RefundsHaveCauses == Spec => []EveryRefundHasItsCause
<1>1. Init => EveryRefundHasItsCause
  BY DEF Init, EveryRefundHasItsCause, Causes
<1>2. IInv /\ HistoryOK /\ EveryRefundHasItsCause /\ [Next]_vars => EveryRefundHasItsCause'
  <2>1. IInv /\ HistoryOK /\ EveryRefundHasItsCause /\ Next => EveryRefundHasItsCause'
    BY CauseStep
  <2>2. EveryRefundHasItsCause /\ UNCHANGED vars => EveryRefundHasItsCause'
    BY DEF EveryRefundHasItsCause, vars, money, product
  <2> QED BY <2>1, <2>2
<1> QED BY <1>1, <1>2, Invariance, HistoryInvariance, PTL DEF Spec
=============================================================================
