------------------------------ MODULE Generation ------------------------------
(***************************************************************************)
(* One paid Generation Request from its acceptance to its settlement: the  *)
(* attempts Main reserves and dispatches, the worker that asks the         *)
(* provider, the durable record of what it answered, Main's ingest and     *)
(* finalization of that record, and the refunds.                           *)
(*                                                                         *)
(* Main's transactions lock the Request, so each is one action; so is a    *)
(* write to Blob (put if absent) and one to a queue.  Between two of them  *)
(* anything may happen: a process stops, a queue gives the job of a slow   *)
(* worker to another while the slow one goes on, a lease lapses, an        *)
(* operator steps in, or Main takes an attempt for stale.                  *)
(*                                                                         *)
(* Not modelled: media and its moderation verdicts' reasons, artifacts and *)
(* chat attachments (they follow the Request's status), usage accounting,  *)
(* video scenes that wait for one another, content-production items, which *)
(* cost nothing here, and malformed envelopes.                             *)
(***************************************************************************)
EXTENDS Integers, FiniteSets

CONSTANTS
  Costs,          \* what the Request may have cost, in coins
  Outputs,        \* outputs it paid for
  Workers, Finalizers, Dispatchers,
  MaxAttempt,     \* bound of the model: attempts of the Request
  MaxTransports,  \* runs the queue grants one job
  MaxStops,       \* bound of the model: stops, stalls and repeated deliveries
  Nobody,
  NoRecord

Attempts == 1..MaxAttempt
Transports == 1..MaxTransports
Outcomes == {"succeeded", "failed", "blocked", "unknown"}
Records == [outcome : Outcomes, outputs : 0..Outputs, again : BOOLEAN,
            no : Transports, invoked : BOOLEAN]

ASSUME GenerationAssumption ==
  /\ Costs \subseteq Nat
  /\ Outputs \in Nat \ {0}
  /\ MaxAttempt \in Nat \ {0}
  /\ MaxTransports \in Nat \ {0}
  /\ MaxStops \in Nat
  /\ Nobody \notin Workers \cup Dispatchers
  /\ NoRecord \notin Records

Causes == {"cancel", "partial", "failed", "unknown_confirmed", "operator_manual", "incident"}
Active == {"queued", "moderating_output"}
Over == {"succeeded", "failed", "blocked", "cancelled", "unknown"}

VARIABLES
  order,       \* what was accepted: [cost, replayable]
  request,     \* [status, confirmed, delivered]
  refunds,     \* Causes -> coins given back under that cause's ledger key
  last,        \* number of the latest attempt
  attempt,     \* Attempts -> [status, ref, again]
  decision,    \* Attempts -> what was decided of an unknown outcome
  assets,      \* media assets made for the Request
  dispatch,    \* Attempts -> the outbox row: [state, touched, lease]
  dispatcher,  \* Dispatchers -> [attempt, stage]
  transport,   \* Attempts -> Transports -> status of that run as Main knows it
  receipt,     \* attempts whose record Main has taken in
  recovered,   \* unknown attempts with a late success on file
  final,       \* Attempts -> the row and job that finalize the record
  finalizer,   \* Finalizers -> [attempt, stage, existing]
  source,      \* Attempts -> the worker's queue job: [state, made, stalled, lock, replaced]
  worker,      \* Workers -> [attempt, no, stage]
  guard,       \* Attempts -> run that reserved the provider call in Blob, or 0
  record,      \* Attempts -> terminal record in Blob
  relay,       \* Attempts -> queue job that carries the record to Main
  asked,       \* Attempts -> times the provider was asked (history)
  withdrawn,   \* the user cancelled before dispatch (history)
  stops        \* stops, stalls and repeated deliveries so far

money   == <<order, refunds>>
product == <<request, last, decision, assets, withdrawn>>
queues  == <<dispatch, dispatcher>>
ingest  == <<receipt, recovered, final>>
blob    == <<guard, record>>
gen     == <<source, worker, relay, asked>>
vars == <<money, product, attempt, queues, transport, ingest, finalizer, blob, gen, stops>>
-----------------------------------------------------------------------------
NoAttempt  == [status |-> "none", ref |-> FALSE, again |-> FALSE]
NewAttempt == [status |-> "queued", ref |-> FALSE, again |-> FALSE]
NoRow      == [state |-> "none", touched |-> FALSE, lease |-> Nobody]
NewRow     == [state |-> "pending", touched |-> FALSE, lease |-> Nobody]
NoJob      == [state |-> "none", made |-> 0, stalled |-> FALSE, lock |-> Nobody, replaced |-> FALSE]
NoWork     == [attempt |-> 0, no |-> 0, stage |-> "idle"]
NoDispatch == [attempt |-> 0, stage |-> "idle"]
NoFinal    == [attempt |-> 0, stage |-> "idle", existing |-> 0]

Init ==
  /\ order \in [cost : Costs, replayable : BOOLEAN]
  /\ request = [status |-> "queued", confirmed |-> FALSE, delivered |-> 0]
  /\ refunds = [c \in Causes |-> 0]
  /\ last = 1
  /\ attempt = [a \in Attempts |-> IF a = 1 THEN NewAttempt ELSE NoAttempt]
  /\ decision = [a \in Attempts |-> "none"]
  /\ assets = 0
  /\ dispatch = [a \in Attempts |-> IF a = 1 THEN NewRow ELSE NoRow]
  /\ dispatcher = [d \in Dispatchers |-> NoDispatch]
  /\ transport = [a \in Attempts |-> [n \in Transports |-> "none"]]
  /\ receipt = {} /\ recovered = {}
  /\ final = [a \in Attempts |-> "none"]
  /\ finalizer = [f \in Finalizers |-> NoFinal]
  /\ source = [a \in Attempts |-> NoJob]
  /\ worker = [w \in Workers |-> NoWork]
  /\ guard = [a \in Attempts |-> 0]
  /\ record = [a \in Attempts |-> NoRecord]
  /\ relay = [a \in Attempts |-> "none"]
  /\ asked = [a \in Attempts |-> 0]
  /\ withdrawn = FALSE
  /\ stops = 0
-----------------------------------------------------------------------------
(* Money.  The spend was posted with the Request; each cause has one key.  *)

Refunded == refunds["cancel"] + refunds["partial"] + refunds["failed"]
              + refunds["unknown_confirmed"] + refunds["operator_manual"] + refunds["incident"]
\* Mutant of Refundable: what was refunded before is forgotten.
RefundableInFull == order.cost

Refundable == IF order.cost > Refunded THEN order.cost - Refunded ELSE 0

\* ceil(cost * missing / outputs)
Share(missing) == (order.cost * missing + Outputs - 1) \div Outputs

Clamped(requested) == IF requested < Refundable THEN requested ELSE Refundable

\* A key that was used for another amount is a conflict: the transaction fails.
Refund(cause, requested) ==
  IF Clamped(requested) = 0 THEN UNCHANGED refunds
  ELSE /\ refunds[cause] \in {0, Clamped(requested)}
       /\ refunds' = [refunds EXCEPT ![cause] = Clamped(requested)]
-----------------------------------------------------------------------------
(* The worker's queue job.  Removing a job that is being run does nothing. *)

Without(a) == IF source[a].state = "active" THEN source
              ELSE [source EXCEPT ![a].state = "none", ![a].made = 0, ![a].stalled = FALSE]

\* Best effort, after the transaction: it may not happen.
MaybeRemoved(a) == source' \in {source, Without(a)}
-----------------------------------------------------------------------------
(* Cancellation and retry *)

Cancel ==
  /\ request' = [request EXCEPT !.status = "cancelled", !.delivered = 0]
  /\ attempt' = IF attempt[last].status \in Over THEN attempt
                ELSE [attempt EXCEPT ![last].status = "cancelled", ![last].again = FALSE]
  /\ dispatch' = IF dispatch[last].state \in {"pending", "dispatched"}
                 THEN [dispatch EXCEPT ![last].state = "cancelled"] ELSE dispatch
  /\ Refund("cancel", order.cost)
  /\ UNCHANGED <<order, last, decision, assets, dispatcher, transport, ingest, finalizer,
                 blob, worker, relay, asked, stops>>

\* Mutant of CancelBeforeDispatch: the status of the Request alone decides.
CancelWhileQueued ==
  /\ request.status = "queued"
  /\ Cancel
  /\ withdrawn' = TRUE
  /\ UNCHANGED source

\* The user: only while the dispatch is untouched.
CancelBeforeDispatch ==
  /\ request.status = "queued"
  /\ attempt[last].status = "queued"
  /\ dispatch[last].state = "pending" /\ ~dispatch[last].touched
  /\ Cancel
  /\ withdrawn' = TRUE
  /\ UNCHANGED source

\* Mutant of OperatorCancel: the status was read before the lock.
OperatorCancelFromStale ==
  /\ Cancel
  /\ MaybeRemoved(last)
  /\ UNCHANGED withdrawn

OperatorCancel ==
  /\ request.status \in Active
  /\ Cancel
  /\ MaybeRemoved(last)
  /\ UNCHANGED withdrawn

\* An automatic decision that gave nothing back may be corrected by a success.
Correctable(a) == /\ decision[a] = "automatic" /\ request.status = "failed" /\ request.confirmed
                  /\ a \in recovered /\ Refunded = 0 /\ request.delivered = 0

MayRetry ==
  /\ request.status = "failed" /\ request.delivered = 0
  /\ \/ attempt[last].status = "failed" /\ attempt[last].again
     \/ /\ attempt[last].status = "unknown"
        /\ decision[last] \in {"failed", "automatic"} /\ request.confirmed
        /\ ~Correctable(last)

Retry ==
  /\ MayRetry
  /\ last < MaxAttempt
  /\ request' = [status |-> "queued", confirmed |-> FALSE, delivered |-> 0]
  /\ last' = last + 1
  /\ attempt' = [attempt EXCEPT ![last + 1] = NewAttempt]
  /\ dispatch' = [dispatch EXCEPT ![last + 1] = NewRow]
  /\ UNCHANGED <<money, decision, assets, withdrawn, dispatcher, transport, ingest, finalizer,
                 blob, gen, stops>>
-----------------------------------------------------------------------------
(* Dispatch: claim the row, look again, enqueue, acknowledge *)

MayRun(a) == request.status \in Active /\ attempt[a].status \in {"queued", "running"}

Owns(d) == LET row == dispatch[dispatcher[d].attempt] IN row.state = "dispatched" /\ row.lease = d

Suppressed(a) ==
  [dispatch EXCEPT ![a].state = IF "cancelled" \in {request.status, attempt[a].status}
                                THEN "cancelled" ELSE "rejected",
                   ![a].lease = Nobody]

DispatchUnchanged == UNCHANGED <<money, product, attempt, transport, ingest, finalizer, blob,
                                 worker, relay, asked>>

\* Mutant of ClaimDispatch: a lapsed lease is never taken over.
ClaimDispatchPending(d, a) ==
  /\ dispatcher[d] = NoDispatch
  /\ dispatch[a].state = "pending"
  /\ IF MayRun(a)
     THEN /\ dispatch' = [dispatch EXCEPT ![a] = [state |-> "dispatched", touched |-> TRUE, lease |-> d]]
          /\ dispatcher' = [dispatcher EXCEPT ![d] = [attempt |-> a, stage |-> "claimed"]]
     ELSE dispatch' = Suppressed(a) /\ UNCHANGED dispatcher
  /\ UNCHANGED <<source, stops>> /\ DispatchUnchanged

\* A row that is dispatched is due again when its lease lapses.
ClaimDispatch(d, a) ==
  /\ dispatcher[d] = NoDispatch
  /\ dispatch[a].state \in {"pending", "dispatched"}
  /\ IF MayRun(a)
     THEN /\ dispatch' = [dispatch EXCEPT ![a] = [state |-> "dispatched", touched |-> TRUE, lease |-> d]]
          /\ dispatcher' = [dispatcher EXCEPT ![d] = [attempt |-> a, stage |-> "claimed"]]
     ELSE dispatch' = Suppressed(a) /\ UNCHANGED dispatcher
  /\ UNCHANGED <<source, stops>> /\ DispatchUnchanged

CheckDispatch(d) ==
  LET a == dispatcher[d].attempt IN
  /\ dispatcher[d].stage = "claimed"
  /\ dispatcher' = [dispatcher EXCEPT ![d] = IF MayRun(a) /\ Owns(d)
                                             THEN [@ EXCEPT !.stage = "checked"] ELSE NoDispatch]
  /\ dispatch' = IF ~MayRun(a) /\ Owns(d) THEN Suppressed(a) ELSE dispatch
  /\ UNCHANGED <<source, stops>> /\ DispatchUnchanged

\* The key of the attempt lets one job exist at a time.
EnqueueSource(d) ==
  LET a == dispatcher[d].attempt IN
  /\ dispatcher[d].stage = "checked"
  /\ source' = IF source[a].state = "none" THEN [source EXCEPT ![a].state = "waiting"] ELSE source
  /\ dispatcher' = [dispatcher EXCEPT ![d].stage = "enqueued"]
  /\ UNCHANGED <<dispatch, stops>> /\ DispatchUnchanged

AcknowledgeDispatch(d) ==
  LET a == dispatcher[d].attempt IN
  /\ dispatcher[d].stage = "enqueued"
  /\ dispatcher' = [dispatcher EXCEPT ![d] = NoDispatch]
  /\ dispatch' = IF ~Owns(d) THEN dispatch
                 ELSE IF MayRun(a) THEN [dispatch EXCEPT ![a].state = "delivered", ![a].lease = Nobody]
                 ELSE Suppressed(a)
  /\ source' = IF MayRun(a) THEN source ELSE Without(a)
  /\ UNCHANGED stops /\ DispatchUnchanged

\* An error releases the row; a process that stops leaves it to its lease.
DispatchFails(d) ==
  LET a == dispatcher[d].attempt IN
  /\ dispatcher[d].stage # "idle"
  /\ stops < MaxStops /\ stops' = stops + 1
  /\ dispatcher' = [dispatcher EXCEPT ![d] = NoDispatch]
  /\ dispatch' \in {dispatch, IF Owns(d) THEN [dispatch EXCEPT ![a].state = "pending", ![a].lease = Nobody]
                              ELSE dispatch}
  /\ source' \in {source, IF dispatcher[d].stage = "enqueued" /\ attempt[a].status = "cancelled"
                          THEN Without(a) ELSE source}
  /\ DispatchUnchanged
-----------------------------------------------------------------------------
(* The worker *)

WorkUnchanged == UNCHANGED <<money, product, queues, ingest, finalizer>>

At(w, stage) == worker[w].stage = stage
Becomes(w, stage) == worker' = [worker EXCEPT ![w].stage = stage]
IsLastRun(w) == worker[w].no >= MaxTransports
EarlierCall(w) == guard[worker[w].attempt] \in 1..(worker[w].no - 1)

\* The job's run fails: its attempts are counted by the queue, if it still holds the lock.
Thrown(w) ==
  LET a == worker[w].attempt IN
  /\ worker' = [worker EXCEPT ![w] = NoWork]
  /\ source' = IF source[a].lock # w THEN source
               ELSE [source EXCEPT ![a].made = @ + 1, ![a].lock = Nobody,
                                   ![a].state = IF source[a].made + 1 < MaxTransports
                                                THEN "waiting" ELSE "failed"]

Completed(w) ==
  LET a == worker[w].attempt IN
  /\ worker' = [worker EXCEPT ![w] = NoWork]
  /\ source' = IF source[a].lock # w THEN source
               ELSE [source EXCEPT ![a].state = "completed", ![a].lock = Nobody]

\* A record that is already there is relayed and nothing else is done.
TakeSource(w, a) ==
  /\ worker[w] = NoWork
  /\ source[a].state = "waiting"
  /\ source' = [source EXCEPT ![a].state = "active", ![a].lock = w]
  /\ worker' = [worker EXCEPT ![w] = [attempt |-> a, no |-> source[a].made + 1,
                                      stage |-> IF record[a] = NoRecord THEN "prepare" ELSE "persisted"]]
  /\ UNCHANGED <<attempt, transport, blob, relay, asked, stops>> /\ WorkUnchanged

\* Blob keeps the first record of an attempt.
Persist(w, outcome, outputs, again, invoked) ==
  LET a == worker[w].attempt IN
  /\ record[a] = NoRecord
  /\ record' = [record EXCEPT ![a] = [outcome |-> outcome, outputs |-> outputs, again |-> again,
                                      no |-> worker[w].no, invoked |-> invoked]]
  /\ Becomes(w, "persisted")
  /\ UNCHANGED source

Unknown(a) == [attempt EXCEPT ![a].status = "unknown", ![a].again = FALSE]

\* Mutant of PersistenceUnknown: an attempt that is over takes the outcome too.
PersistenceUnknownLate(w) ==
  LET a == worker[w].attempt
      n == worker[w].no IN
  /\ transport[a][n] \in {"none", "running", "unknown"}
  /\ attempt' = Unknown(a)
  /\ transport' = [transport EXCEPT ![a][n] = "unknown"]
  /\ Completed(w)

\* A record that cannot be stored, once the provider may not be asked again.
PersistenceUnknown(w) ==
  LET a == worker[w].attempt
      n == worker[w].no IN
  /\ attempt[a].status \notin Over
  /\ transport[a][n] \in {"none", "running", "unknown"}
  /\ attempt' = Unknown(a)
  /\ transport' = [transport EXCEPT ![a][n] = "unknown"]
  /\ Completed(w)

\* Preparation is refused by policy or for good: an earlier call is still honoured.
StopPreparation(w) ==
  LET a == worker[w].attempt IN
  /\ At(w, "prepare")
  /\ \/ guard[a] = 0 /\ \/ \E o \in {"blocked", "failed"} : Persist(w, o, 0, FALSE, FALSE)
                        \/ IsLastRun(w) /\ Persist(w, "failed", 0, TRUE, FALSE)
     \/ EarlierCall(w) /\ Persist(w, "unknown", 0, FALSE, TRUE)
  /\ UNCHANGED <<attempt, transport, guard, relay, asked, stops>> /\ WorkUnchanged

\* Main must still authorize the run before the provider may be asked.
Authorize(w) ==
  LET a == worker[w].attempt
      n == worker[w].no IN
  /\ At(w, "prepare")
  /\ MayRun(a)
  /\ transport[a][n] = "none"
  /\ transport' = [transport EXCEPT ![a][n] = "running"]
  /\ attempt' = [attempt EXCEPT ![a].status = "running"]
  /\ Becomes(w, "authorized")
  /\ UNCHANGED <<source, blob, relay, asked, stops>> /\ WorkUnchanged

\* Mutant of AskProvider: the reservation's result is not looked at.
AskProviderRegardless(w) ==
  LET a == worker[w].attempt IN
  /\ At(w, "authorized")
  /\ guard' = [guard EXCEPT ![a] = IF @ = 0 THEN worker[w].no ELSE @]
  /\ asked' = [asked EXCEPT ![a] = @ + 1]
  /\ Becomes(w, "invoking")
  /\ UNCHANGED <<attempt, transport, source, record, relay, stops>> /\ WorkUnchanged

\* The guard in Blob outlives the worker: only a replayable provider is asked twice.
AskProvider(w) ==
  LET a == worker[w].attempt IN
  /\ At(w, "authorized")
  /\ guard[a] = 0 \/ order.replayable
  /\ guard' = [guard EXCEPT ![a] = IF @ = 0 THEN worker[w].no ELSE @]
  /\ asked' = [asked EXCEPT ![a] = @ + 1]
  /\ Becomes(w, "invoking")
  /\ UNCHANGED <<attempt, transport, source, record, relay, stops>> /\ WorkUnchanged

FindsEarlierCall(w) ==
  /\ At(w, "authorized")
  /\ EarlierCall(w) /\ ~order.replayable
  /\ Persist(w, "unknown", 0, FALSE, TRUE)
  /\ UNCHANGED <<attempt, transport, guard, relay, asked, stops>> /\ WorkUnchanged

ProviderAnswers(w) ==
  /\ At(w, "invoking")
  /\ \/ \E n \in 1..Outputs : Persist(w, "succeeded", n, FALSE, TRUE)
     \/ Persist(w, "blocked", 0, FALSE, TRUE)
     \/ \E again \in BOOLEAN : Persist(w, "failed", 0, again, TRUE)
     \/ Persist(w, "unknown", 0, FALSE, TRUE)
  /\ UNCHANGED <<attempt, transport, guard, relay, asked, stops>> /\ WorkUnchanged

\* Blob is out of reach, or another run's record is there already, and the
\* provider may not be asked again.
CannotPersist(w) ==
  LET a == worker[w].attempt IN
  /\ \/ At(w, "invoking") /\ (~order.replayable \/ IsLastRun(w))
     \/ At(w, "prepare") /\ EarlierCall(w)
     \/ At(w, "authorized") /\ EarlierCall(w) /\ ~order.replayable
  /\ IF record[a] = NoRecord THEN stops < MaxStops /\ stops' = stops + 1 ELSE UNCHANGED stops
  /\ \/ PersistenceUnknown(w)
     \/ /\ \/ attempt[a].status \in Over
           \/ transport[a][worker[w].no] \notin {"none", "running", "unknown"}
        /\ Thrown(w) /\ UNCHANGED <<attempt, transport>>
  /\ UNCHANGED <<blob, relay, asked>> /\ WorkUnchanged

\* A failure that the provider lets repeat under the same key, with runs left.
SafeRetry(w) ==
  LET a == worker[w].attempt
      n == worker[w].no IN
  /\ At(w, "invoking")
  /\ order.replayable /\ ~IsLastRun(w)
  /\ transport' = IF attempt[a].status \notin Over /\ transport[a][n] = "running"
                  THEN [transport EXCEPT ![a][n] = "failed"] ELSE transport
  /\ Thrown(w)
  /\ UNCHANGED <<attempt, blob, relay, asked, stops>> /\ WorkUnchanged

\* Preparation, Main's authority (which is asked again before each further call
\* of the provider), Blob or the queue turn the run away.
RunFails(w) ==
  LET a == worker[w].attempt
      refused == ~MayRun(a) \/ transport[a][worker[w].no] # "none" \/ record[a] # NoRecord IN
  /\ ~At(w, "idle")
  /\ IF \/ At(w, "prepare") /\ refused
        \/ At(w, "authorized") /\ ~order.replayable /\ guard[a] >= worker[w].no
        \/ At(w, "invoking") /\ order.replayable /\ ~IsLastRun(w) /\ record[a] # NoRecord
     THEN UNCHANGED stops
     ELSE stops < MaxStops /\ stops' = stops + 1
  /\ Thrown(w)
  /\ UNCHANGED <<attempt, transport, blob, relay, asked>> /\ WorkUnchanged

AcknowledgeRecord(w) ==
  LET a == worker[w].attempt IN
  /\ At(w, "persisted")
  /\ relay' = IF relay[a] = "none" THEN [relay EXCEPT ![a] = "waiting"] ELSE relay
  /\ Completed(w)
  /\ UNCHANGED <<attempt, transport, blob, asked, stops>> /\ WorkUnchanged

\* The queue gives the job up: the worker stopped, or is slow and goes on unaware.
\* A second stall fails the job; it may hit a run that has done nothing yet.
LoseLock(w) ==
  LET a == worker[w].attempt IN
  /\ ~At(w, "idle") /\ source[a].lock = w
  /\ stops < MaxStops /\ stops' = stops + 1
  /\ \E next \in IF source[a].stalled THEN {"failed"} ELSE {"waiting", "failed"} :
       source' = [source EXCEPT ![a].lock = Nobody, ![a].stalled = TRUE, ![a].state = next]
  /\ worker' \in {worker, [worker EXCEPT ![w] = NoWork]}
  /\ UNCHANGED <<attempt, transport, blob, relay, asked>> /\ WorkUnchanged

\* A failed job is run again only to relay the record it left.
RecoverFailedSource(a) ==
  /\ source[a].state = "failed" /\ record[a] # NoRecord
  /\ source' = [source EXCEPT ![a].state = "waiting", ![a].made = 0]
  /\ UNCHANGED <<worker, attempt, transport, blob, relay, asked, stops>> /\ WorkUnchanged
-----------------------------------------------------------------------------
(* Main takes the record in, once per attempt *)

TransportOf(outcome) == IF outcome = "failed" THEN "failed"
                        ELSE IF outcome = "unknown" THEN "unknown" ELSE "succeeded"

\* The run's transport takes the record's outcome, if it still can.
Evidence(a, r) ==
  IF ~r.invoked THEN UNCHANGED transport
  ELSE /\ transport[a][r.no] \in {"none", "running", TransportOf(r.outcome)}
       /\ transport' = [transport EXCEPT ![a][r.no] = TransportOf(r.outcome)]

\* Of an unknown attempt it may only be filed once Main has given the run up too:
\* any other state of the transport is a conflict, and the transaction fails.
MayFile(a, r) == ~r.invoked \/ transport[a][r.no] \in {"none", "unknown"}

EvidenceOfUnknown(a, r) ==
  /\ MayFile(a, r)
  /\ transport' = IF r.invoked THEN [transport EXCEPT ![a][r.no] = "unknown"] ELSE transport

IngestUnchanged == UNCHANGED <<money, product, queues, finalizer, blob, source, worker, asked>>

\* The relay's job is done, or is delivered once more.
RelayEnds(a) ==
  \/ relay' = [relay EXCEPT ![a] = "done"] /\ UNCHANGED stops
  \/ stops < MaxStops /\ stops' = stops + 1 /\ UNCHANGED relay

IngestRecord(a) ==
  /\ relay[a] = "waiting" /\ a \notin receipt
  /\ attempt[a].status \in {"queued", "running"}
  /\ attempt' = [attempt EXCEPT ![a].status = "running", ![a].ref = TRUE]
  /\ Evidence(a, record[a])
  /\ receipt' = receipt \cup {a}
  /\ final' = [final EXCEPT ![a] = "pending"]
  /\ RelayEnds(a)
  /\ UNCHANGED recovered /\ IngestUnchanged

\* The attempt is over: the record is evidence and delivers nothing.  When that
\* of an unknown attempt is a conflict, the receipt is rolled back and the relay
\* tries again, for ever if the run stays as it is.
IngestLate(a) ==
  /\ relay[a] = "waiting" /\ a \notin receipt
  /\ attempt[a].status \in Over
  /\ attempt[a].status = "unknown" => record[a].outcome = "unknown"
  /\ attempt' = IF attempt[a].status = "unknown" THEN [attempt EXCEPT ![a].ref = TRUE] ELSE attempt
  /\ IF attempt[a].status = "unknown" THEN EvidenceOfUnknown(a, record[a]) ELSE Evidence(a, record[a])
  /\ receipt' = receipt \cup {a}
  /\ RelayEnds(a)
  /\ UNCHANGED <<recovered, final>> /\ IngestUnchanged

\* A known outcome for an unknown attempt: a success is filed, the rest is refused.
IngestResolution(a) ==
  /\ relay[a] = "waiting" /\ a \notin receipt
  /\ attempt[a].status = "unknown" /\ record[a].outcome # "unknown"
  /\ recovered' = IF /\ record[a].outcome = "succeeded" /\ ~attempt[a].ref
                     /\ transport[a][record[a].no] = "unknown"
                  THEN recovered \cup {a} ELSE recovered
  /\ RelayEnds(a)
  /\ UNCHANGED <<attempt, transport, receipt, final>> /\ IngestUnchanged

IngestDuplicate(a) ==
  /\ relay[a] = "waiting" /\ a \in receipt
  /\ relay' = [relay EXCEPT ![a] = "done"]
  /\ UNCHANGED <<attempt, transport, ingest, stops>> /\ IngestUnchanged

DispatchFinal(a) ==
  /\ final[a] = "pending"
  /\ final' = [final EXCEPT ![a] = "queued"]
  /\ UNCHANGED <<money, product, attempt, queues, transport, receipt, recovered, finalizer, blob, gen, stops>>
-----------------------------------------------------------------------------
(* Finalization.  The queue may give one job to several finalizers.        *)

FinalUnchanged == UNCHANGED <<order, last, decision, withdrawn, queues, transport, receipt, recovered,
                              blob, worker, relay, asked>>

Ends(f, a) == /\ finalizer' = [finalizer EXCEPT ![f] = NoFinal]
              /\ final' = [final EXCEPT ![a] = "done"]

FirstStage(outcome) == CASE outcome = "succeeded" -> "moderate"
                         [] outcome = "unknown"   -> "hold"
                         [] OTHER                 -> outcome

\* Mutant of StartFinal: a job that is run again takes its own first run for another's.
StartFinalQueued(f, a) ==
  /\ finalizer[f] = NoFinal
  /\ final[a] = "queued"
  /\ IF a = last /\ (request.status = "queued" \/ record[a].outcome = "unknown")
     THEN /\ finalizer' = [finalizer EXCEPT ![f].attempt = a, ![f].stage = FirstStage(record[a].outcome)]
          /\ UNCHANGED final
     ELSE Ends(f, a)
  /\ source' = Without(a)
  /\ UNCHANGED <<request, refunds, attempt, assets, stops>> /\ FinalUnchanged

\* Reads the Request and its latest attempt, outside any transaction.
StartFinal(f, a) ==
  /\ finalizer[f] = NoFinal
  /\ final[a] = "queued"
  /\ IF a = last /\ (request.status \in Active \/ record[a].outcome = "unknown")
     THEN /\ finalizer' = [finalizer EXCEPT ![f].attempt = a, ![f].stage = FirstStage(record[a].outcome)]
          /\ UNCHANGED final
     ELSE Ends(f, a)
  /\ source' = Without(a)
  /\ UNCHANGED <<request, refunds, attempt, assets, stops>> /\ FinalUnchanged

MarkModerating(f) ==
  LET a == finalizer[f].attempt IN
  /\ finalizer[f].stage = "moderate"
  /\ IF request.status \in Active
     THEN /\ request' = [request EXCEPT !.status = "moderating_output"]
          /\ finalizer' = [finalizer EXCEPT ![f].stage = "moderated"]
          /\ UNCHANGED final
     ELSE UNCHANGED request /\ Ends(f, a)
  /\ UNCHANGED <<refunds, attempt, assets, source, stops>> /\ FinalUnchanged

\* The verdict, and the count of assets that is read before the transaction.
ModerateOutput(f) ==
  /\ finalizer[f].stage = "moderated"
  /\ finalizer' \in {[finalizer EXCEPT ![f].stage = "commit", ![f].existing = assets],
                     [finalizer EXCEPT ![f].stage = "blocked"]}
  /\ UNCHANGED <<request, refunds, attempt, assets, final, source, stops>> /\ FinalUnchanged

\* Mutant of CanComplete: only a completion is looked for.
CanCompleteOnce(a) == request.status # "completed"

\* Mutant of CanComplete: what was read before the transaction is relied on.
CanCompleteUnread(a) == TRUE

CanComplete(a) == request.status = "moderating_output" /\ attempt[a].status \notin Over

CompleteRequest(f) ==
  LET a == finalizer[f].attempt
      outputs == record[a].outputs IN
  /\ finalizer[f].stage = "commit"
  /\ CanComplete(a)
  /\ assets' = IF finalizer[f].existing = 0 THEN assets + outputs ELSE assets
  /\ Refund("partial", Share(Outputs - outputs))
  /\ request' = [status |-> "completed", confirmed |-> FALSE, delivered |-> outputs]
  /\ attempt' = [attempt EXCEPT ![a].status = "succeeded"]
  /\ Ends(f, a)
  /\ UNCHANGED <<source, stops>> /\ FinalUnchanged

\* Only the latest attempt settles, and only a Request that is open.
ReturnRequest(f) ==
  LET a == finalizer[f].attempt
      outcome == finalizer[f].stage IN
  /\ outcome \in {"failed", "blocked"}
  /\ IF a = last /\ request.status \in Active
     THEN /\ attempt[a].status \notin Over \/ attempt[a].status = outcome
          /\ request' = [status |-> outcome, confirmed |-> FALSE, delivered |-> 0]
          /\ attempt' = [attempt EXCEPT ![a].status = outcome,
                                        ![a].again = outcome = "failed" /\ record[a].again]
          /\ Refund("failed", order.cost)
     ELSE UNCHANGED <<request, refunds, attempt>>
  /\ Ends(f, a)
  /\ UNCHANGED <<assets, source, stops>> /\ FinalUnchanged

\* An unknown outcome settles nothing.
HoldRequest(f) ==
  LET a == finalizer[f].attempt IN
  /\ finalizer[f].stage = "hold"
  /\ IF a = last /\ request.status \in Active
     THEN /\ attempt[a].status \notin Over \ {"unknown"}
          /\ attempt' = Unknown(a)
     ELSE UNCHANGED attempt
  /\ Ends(f, a)
  /\ UNCHANGED <<request, refunds, assets, source, stops>> /\ FinalUnchanged

\* The job is run again after a conflict, an error or a stop.
FinalFails(f) ==
  LET a == finalizer[f].attempt IN
  /\ finalizer[f].stage # "idle"
  /\ IF \/ finalizer[f].stage = "commit" /\ ~CanComplete(a)
        \/ finalizer[f].stage \in {"failed", "blocked", "hold"} /\ attempt[a].status \in Over
     THEN UNCHANGED stops
     ELSE stops < MaxStops /\ stops' = stops + 1
  /\ finalizer' = [finalizer EXCEPT ![f] = NoFinal]
  /\ UNCHANGED <<request, refunds, attempt, assets, final, source>> /\ FinalUnchanged
-----------------------------------------------------------------------------
(* An attempt that Main has not heard of for long *)

Runs(a) == {n \in Transports : transport[a][n] # "none"}
LatestRun(a) == CHOOSE n \in Runs(a) : \A m \in Runs(a) : m <= n

Stale == /\ request.status \in Active
         /\ attempt[last].status \in {"queued", "running"} /\ ~attempt[last].ref

\* The record is on its way, or the job can still run without asking twice.
OnItsWay(a) == \/ relay[a] = "waiting"
               \/ source[a].state = "failed" /\ record[a] # NoRecord
MayStillRun(a) == /\ source[a].state \in {"waiting", "active"}
                  /\ Runs(a) = {} \/ transport[a][LatestRun(a)] = "failed"
Exhausted(a) == /\ source[a].state = "failed" /\ record[a] = NoRecord
                /\ source[a].made >= MaxTransports \/ source[a].replaced

StaleUnchanged == UNCHANGED <<money, product, dispatcher, ingest, finalizer, blob,
                              worker, relay, asked>>

\* Nothing was run: the row is released, a failed job replaced once, which is
\* written down before the job is removed.
RedispatchStale ==
  LET replaced == source[last].replaced \/ source[last].state = "failed" IN
  /\ Stale /\ ~OnItsWay(last) /\ ~MayStillRun(last) /\ ~Exhausted(last)
  /\ Runs(last) = {}
  /\ \/ /\ dispatch[last].state = "delivered" \/ source[last].state = "failed"
        /\ source' = [source EXCEPT ![last] = [NoJob EXCEPT !.replaced = replaced]]
        /\ dispatch' = [dispatch EXCEPT ![last].state = "pending", ![last].lease = Nobody]
        /\ UNCHANGED stops
     \/ \* Main stops after the note
        /\ source[last].state = "failed"
        /\ source' = [source EXCEPT ![last].replaced = TRUE]
        /\ UNCHANGED <<dispatch, stops>>
     \/ \* the dispatcher is slow
        /\ dispatch[last].state = "dispatched"
        /\ stops < MaxStops /\ stops' = stops + 1
        /\ dispatch' = [dispatch EXCEPT ![last].state = "pending", ![last].lease = Nobody]
        /\ UNCHANGED source
  /\ UNCHANGED <<attempt, transport>> /\ StaleUnchanged

\* Something was run and left no record: nobody knows how it ended.
QuarantineStale ==
  /\ Stale /\ ~OnItsWay(last) /\ ~MayStillRun(last)
  /\ attempt' = Unknown(last)
  /\ IF Exhausted(last)
     THEN UNCHANGED <<source, transport>>
     ELSE /\ Runs(last) # {}
          /\ transport' = IF transport[last][LatestRun(last)] = "running"
                          THEN [transport EXCEPT ![last][LatestRun(last)] = "unknown"] ELSE transport
          /\ MaybeRemoved(last)
  /\ UNCHANGED <<dispatch, stops>> /\ StaleUnchanged
-----------------------------------------------------------------------------
(* Decisions about an unknown outcome, and refunds by an operator *)

DecisionUnchanged == UNCHANGED <<order, last, withdrawn, queues, transport, ingest, finalizer, blob,
                                 worker, relay, asked, stops>>

\* A success on file may not be overwritten.
MayConfirmFailed ==
  /\ request.status \in Active \cup {"failed"}
  /\ attempt[last].status = "unknown" /\ decision[last] = "none"
  /\ last \notin recovered /\ request.delivered = 0

ConfirmFailed(by) ==
  /\ MayConfirmFailed
  /\ by = "automatic" => /\ request.status \in Active
                         /\ ~OnItsWay(last) /\ source[last].state \notin {"waiting", "active"}
  /\ request' = [status |-> "failed", confirmed |-> TRUE, delivered |-> 0]
  /\ Refund("unknown_confirmed", order.cost)
  \* only an automatic decision without a refund is marked as such
  /\ decision' = [decision EXCEPT ![last] = IF by = "automatic" /\ Refundable = 0 THEN by ELSE "failed"]
  /\ MaybeRemoved(last)
  /\ UNCHANGED <<attempt, assets>> /\ DecisionUnchanged

\* Mutant of MayAdopt: the money alone decides.
MayAdoptUnrefunded ==
  /\ last \in recovered /\ attempt[last].status = "unknown"
  /\ Refunded = 0

\* What was refunded cannot be delivered as well.
MayAdopt ==
  /\ last \in recovered /\ attempt[last].status = "unknown"
  /\ \/ decision[last] = "none" /\ request.status \in Active \cup {"failed"}
     \/ Correctable(last)
  /\ assets = 0 /\ request.delivered = 0
  /\ Refunded = 0

AdoptSuccess ==
  LET outputs == record[last].outputs IN
  /\ MayAdopt
  /\ request' = [status |-> "completed", confirmed |-> FALSE, delivered |-> outputs]
  /\ assets' = assets + outputs
  /\ Refund("partial", Share(Outputs - outputs))
  /\ decision' = [decision EXCEPT ![last] = "adopted"]
  /\ UNCHANGED <<attempt, source>> /\ DecisionUnchanged

OperatorRefund(cause) ==
  /\ \/ cause = "incident"
     \/ cause = "operator_manual" /\ request.status \in {"failed", "blocked"}
  /\ Refund(cause, order.cost)
  /\ UNCHANGED <<request, attempt, decision, assets, source>> /\ DecisionUnchanged
-----------------------------------------------------------------------------
\* What the code drives by itself: loops, queues and timers.
Dispatches(d) == \/ \E a \in Attempts : ClaimDispatch(d, a)
                 \/ CheckDispatch(d) \/ EnqueueSource(d) \/ AcknowledgeDispatch(d)
Works(w) == \/ \E a \in Attempts : TakeSource(w, a)
            \/ StopPreparation(w) \/ Authorize(w) \/ AskProvider(w) \/ FindsEarlierCall(w)
            \/ ProviderAnswers(w) \/ CannotPersist(w) \/ RunFails(w) \/ AcknowledgeRecord(w)
Ingests(a) == \/ RecoverFailedSource(a) \/ DispatchFinal(a)
              \/ IngestRecord(a) \/ IngestLate(a) \/ IngestResolution(a) \/ IngestDuplicate(a)
Finalizes(f) == \/ \E a \in Attempts : StartFinal(f, a)
                \/ MarkModerating(f) \/ ModerateOutput(f) \/ CompleteRequest(f)
                \/ ReturnRequest(f) \/ HoldRequest(f) \/ FinalFails(f)

Next ==
  \/ CancelBeforeDispatch \/ OperatorCancel \/ Retry
  \/ \E d \in Dispatchers : Dispatches(d) \/ DispatchFails(d)
  \/ \E w \in Workers : Works(w) \/ SafeRetry(w) \/ LoseLock(w)
  \/ \E a \in Attempts : Ingests(a)
  \/ \E f \in Finalizers : Finalizes(f)
  \/ RedispatchStale \/ QuarantineStale
  \/ \E by \in {"operator", "automatic"} : ConfirmFailed(by)
  \/ AdoptSuccess
  \/ \E cause \in {"operator_manual", "incident"} : OperatorRefund(cause)

Spec == Init /\ [][Next]_vars

\* The code's own steps are taken in the end, the sweeps of stale and of unknown
\* attempts included.  A user and an operator owe nothing.
FairSpec ==
  /\ Spec
  /\ \A d \in Dispatchers : WF_vars(Dispatches(d))
  /\ \A w \in Workers : WF_vars(Works(w))
  /\ \A a \in Attempts : WF_vars(Ingests(a))
  /\ \A f \in Finalizers : WF_vars(Finalizes(f))
  /\ WF_vars(RedispatchStale \/ QuarantineStale)
  /\ WF_vars(ConfirmFailed("automatic"))
-----------------------------------------------------------------------------
GenTypeOK ==
  /\ order \in [cost : Costs, replayable : BOOLEAN]
  /\ request \in [status : Active \cup {"completed", "failed", "blocked", "cancelled"},
                  confirmed : BOOLEAN, delivered : 0..Outputs]
  /\ refunds \in [Causes -> Nat]
  /\ last \in Attempts
  /\ attempt \in [Attempts -> [status : Over \cup {"none", "queued", "running"},
                               ref : BOOLEAN, again : BOOLEAN]]
  /\ decision \in [Attempts -> {"none", "failed", "automatic", "adopted"}]
  /\ assets \in Nat
  /\ dispatch \in [Attempts -> [state : {"none", "pending", "dispatched", "delivered",
                                        "cancelled", "rejected"},
                                touched : BOOLEAN, lease : Dispatchers \cup {Nobody}]]
  /\ dispatcher \in [Dispatchers -> [attempt : Attempts \cup {0},
                                     stage : {"idle", "claimed", "checked", "enqueued"}]]
  /\ transport \in [Attempts -> [Transports -> {"none", "running", "failed", "unknown", "succeeded"}]]
  /\ receipt \subseteq Attempts /\ recovered \subseteq Attempts
  /\ final \in [Attempts -> {"none", "pending", "queued", "done"}]
  /\ finalizer \in [Finalizers -> [attempt : Attempts \cup {0}, existing : Nat,
       stage : {"idle", "moderate", "moderated", "commit", "failed", "blocked", "hold"}]]
  /\ source \in [Attempts -> [state : {"none", "waiting", "active", "completed", "failed"},
                              made : 0..MaxTransports, stalled : BOOLEAN,
                              lock : Workers \cup {Nobody}, replaced : BOOLEAN]]
  /\ worker \in [Workers -> [attempt : Attempts \cup {0}, no : Transports \cup {0},
       stage : {"idle", "prepare", "authorized", "invoking", "persisted"}]]
  /\ guard \in [Attempts -> Transports \cup {0}]
  /\ record \in [Attempts -> Records \cup {NoRecord}]
  /\ relay \in [Attempts -> {"none", "waiting", "done"}]
  /\ asked \in [Attempts -> Nat]
  /\ withdrawn \in BOOLEAN
  /\ stops \in 0..MaxStops

\* The refunds of all causes together never exceed what was paid; a Request
\* that ends without its outputs has all of it back, and one that ends with
\* some has at least the share of the rest (refundGenerationRequest clamps
\* each refund to what the settlement links leave).
SettledIsPaidBack ==
  /\ Refunded <= order.cost
  /\ request.status \in {"failed", "blocked", "cancelled"} => Refunded = order.cost
  /\ request.status = "completed" => Refunded >= Share(Outputs - request.delivered)

\* No refund without its cause: a race between finalization, cancellation and a
\* decision leaves none behind that the Request's history does not explain.
EveryRefundHasItsCause ==
  /\ refunds["cancel"] > 0 => request.status = "cancelled"
  /\ refunds["partial"] > 0 => request.status = "completed" /\ request.delivered < Outputs
  /\ refunds["failed"] > 0 => \E a \in Attempts : attempt[a].status \in {"failed", "blocked"}
  /\ refunds["unknown_confirmed"] > 0 =>
       \E a \in Attempts : attempt[a].status = "unknown" /\ decision[a] = "failed"

\* Assets are made once, by the latest attempt, exactly when the Request is
\* completed, however many finalizers, attempts and decisions compete
\* (finalizeCompletedGeneration, adoptRecoveredSuccess).
DeliveredOnce ==
  /\ assets = request.delivered
  /\ request.status = "completed" <=> assets > 0
  /\ request.status = "completed" =>
       /\ assets = record[last].outputs
       /\ attempt[last].status = "succeeded" \/ decision[last] = "adopted"

\* A finalize job that is done has settled the Request or left the attempt
\* unknown: dropping it as stale leaves no open Request behind that nothing
\* would ever finish.
DoneIsSettled ==
  \A a \in Attempts :
    final[a] = "done" => a < last \/ request.status \notin Active \/ attempt[a].status = "unknown"

\* A provider whose calls may not be repeated is asked at most once per attempt:
\* retries, stalls and slow workers included (reserveGenerationInvocation).
ProviderAskedOnce == ~order.replayable => \A a \in Attempts : asked[a] <= 1

\* A user who could still cancel never pays a provider: whatever was in flight
\* then is turned away before the call (canCancelGenerationBeforeDispatch).
WithdrawnIsNeverInvoked == withdrawn => asked[last] = 0

\* How an attempt ended is never rewritten by a late worker, finalizer, sweep or
\* decision, and one that is over gets no transport that runs.
AttemptOutcomeIsFinal ==
  [][\A a \in Attempts : attempt[a].status \in Over =>
       /\ attempt'[a].status = attempt[a].status
       /\ \A n \in Transports : transport'[a][n] = "running" => transport[a][n] = "running"]_vars

\* The record of an unknown attempt that Main does not take in.
Unfiled(a) == /\ relay[a] = "waiting" /\ a \notin receipt
              /\ attempt[a].status = "unknown" /\ record[a].outcome = "unknown"
              /\ ~MayFile(a, record[a])

\* An open Request is settled in the end, or waits for an operator: to adopt a
\* late success of its unknown attempt, or to decide one whose record the relay
\* offers in vain for ever, since so long the automatic decision holds back.
Settles == (request.status \in Active) ~>
             (request.status \notin Active \/ last \in recovered \/ []Unfiled(last))

Phase == CASE request.status \in Active -> "open"
           [] request.status = "completed" -> "delivered"
           [] request.status = "failed" -> "returned"
           [] OTHER -> "closed"

Promise == INSTANCE PaidRequest
             WITH price <- order.cost, phase <- Phase, goods <- assets, given <- Refunded

\* The Request keeps what was promised for its price.
ImplementsPaidRequest == Promise!Spec
=============================================================================
