# iDream in TLA+

iDream is a platform for conversations with AI characters: a monorepo of four
programs and a contracts package.  This directory holds TLA+ models of three of
its parts, those that decide what a user sees, what it costs them, and what is
forgotten: conversations and their memory, paid image and video generation, and
purchases with their refunds.  It has the configurations that check them with
TLC and proofs of their main invariants.  Paths below are relative to `src/`.

## 1. The system

| Program | What it owns | State |
|---|---|---|
| `packages/main` | every product fact: Turns, allowance, coins, generation requests, subscriptions, accounts | Postgres; transactions per user row; outbox tables |
| `packages/chat` | the execution of one reply (an *AgentRun*) and long-term memory | local files only, plus what a process holds in memory |
| `packages/gen` | the execution of image and video requests | BullMQ queue, immutable terminal records, a lock file for the accelerator |
| `packages/admin` | operators' console | none of its own |
| `packages/shared` | contracts between them | none |

Main and Chat share nothing.  Main posts a frozen *snapshot* of an attempt to
Chat (admission); Chat acknowledges it, runs the model, and offers one
*terminal* (sent, blocked, failed, cancelled) back; Main accepts or rejects it.
Cancels, memory events, purges and account erasure travel from Main to Chat
through a durable outbox that redelivers until it is acknowledged.

### 1.1 Components, state, operations and what makes each correct

**Turn ledger** (`packages/main/src/server/modules/chat/turn-ledger.ts`).
State: `chat_turns` (status, attempt, lease, `admittedAt`, Scene anchor and
result, terminal evidence), `chat_turn_usage_facts`, `recent_chats`.
Operations: `beginChatTurn`, regenerate, edit, `cancelChatTurn`,
`commitChatTerminal`, `failStalledChatTurn`, `deleteChatMessage`,
`deleteChatSession`, archive.  Each is one transaction that starts by locking
the user's row.  Hard: sends, revisions, Stops, terminals and the reaper race;
the allowance belongs to the day of the Turn and not to the day of the call.
Correct when a conversation has one reply in the making, a user at most
`MAX_ACTIVE_TURNS_PER_USER`; status and allowance agree; the terminal told to
Chat is the one shown; Scene versions advance by one per sent reply.

**Admission** (`agent-run-admission.ts`).  State: the lease columns of
`chat_turns`.  Operations: claim, acknowledge, release, lose.  It takes no user
lock: compare-and-set updates interleave with all of the above.  Hard: lease
expiry during the POST, a lost answer, a Turn revised or stopped meanwhile.
Correct when every attempt Chat may hold is live, decided, or fenced.

**Memory authority** (`companion-memory-authority.ts`).  State: memory events in
the outbox, with the run purge fences a destructive change carries, and a version
per relationship.  Operations: schedule a projection, a rebuild or a purge,
export the transcript to Chat, promote under the user's lock.  Hard: a projection
absorbs newer replies while it may be claimed; an export is old when it is
promoted; fences arrive late.  Correct when no fence is lost, none covers the
attempt that runs, and memory ends as what the transcript says.

**Groups** (`group-conversations.ts`): several sessions, one reply slot.

**AgentRun store** (`packages/chat/src/agent-run-store.ts`).  State: one directory
per run (`input.json`, `events.jsonl`, `proposal.json`, `completion.json`), an
index per assistant message.  Operations: accept, journal, propose, complete,
list incomplete, record a cancellation, purge.  Each runs under a per-Turn
mutex, but is several file operations: a crash can fall between any two.

**AgentRun runner** (`agent-runner.ts`, `worker.ts`).  State: the map of active
runs (memory only).  Operations: admit, execute, recover every five seconds,
cancel.  Hard: asking the model twice, offering Main two different replies,
closing a run Main still waits for.  Correct when each live attempt's model is
asked at most once, one terminal is offered, and Main gets one in the end.

**Fences and erasure** (`fence.ts`, `account-deletion.ts`).  State: fence files
per Turn and per user.  Operations: raise, check, drain, purge, acknowledge.
Hard: late admissions, writes of a run that is still going, crashes in a
recursive removal.  Correct when what was purged or erased never comes back.

**Outbox** (`packages/main/src/processes/chat-outbox.ts`): two lanes, claim under
an advisory lock per aggregate in `createdAt` order, 30-second leases with
heartbeats, redelivery with backoff.  Correct when an aggregate's events are
delivered in order and at least once.

**Companion memory and workspaces** (`packages/chat/src/companion-memory.ts`,
`agent-runtime/workspace.ts`): spools, versioned workspaces, prepare/promote.
Correct when the promoted version never goes back and cleared memory stays so.

**Coin ledger** (`modules/billing/ledger.ts`): append-only entries with an
idempotency key.  Correct when one key posts once and `balanceAfter` is the sum.

**Generation in Main** (`modules/generation/*`, `server/ai/*`).  State: a Request
and its attempts, an outbox row per attempt, provider operations, receipts,
finalize rows, ledger entries.  Operations: accept and charge, dispatch, cancel,
retry, ingest a record (on time, late, as a resolution of an unknown outcome,
twice), finalize, refund, quarantine what is stale, decide what is unknown.
Hard: a record arrives after the attempt was given up and paid back; several
causes refund one Request; an operator acts on a status read before its lock.
Correct when a Request ends with its outputs or with the money, and not both.

**Generation worker** (`packages/gen`).  State: a BullMQ job per attempt, a guard
and a terminal record in Blob, a relay job.  Operations: take, prepare, authorize
at Main, reserve the call, ask the provider, persist, relay, recover.  Hard: a
job whose lock is lost runs twice at once; a worker stops between the call and
the record.  Correct when a call that may not be repeated is made once, and what
the provider answered is never replaced by something else.

**Checkout** (`modules/ourdream/billing-checkout.ts`).  State: `checkout_sessions`
(status, dispatch token and lease, the attempted mark, misses, reconciliation).
Operations: create, claim, POST an invoice, look it up, bind it, give it up,
complete.  Hard: a POST that times out may still make an invoice; the provider's
answer is old when it is used; money arrives for a checkout that was given up.
Correct when a checkout asks for one invoice, and is granted once or not at all.

**Subscriptions and refunds** (`subscription-lifecycle.ts`,
`billing/subscription-refund.ts`).  State: subscriptions, entitlements, coins, the
refund in a checkout's `reconciliationEvidence`.  Operations: activate, extend,
supersede, expire; prepare, ask for, look up and project a refund.  Hard:
settlements, refunds and expiry in any order, each changing who has access.
Correct when a user has the access and the coins that the purchases in force
pay for, a refund is final, and no settlement is put off for ever.

**Account deletion** (`account-deletion-authority.ts`): grace period, Chat
erasure, blob deletion, hard delete, each retried.

**Voice, tool effects, proactive messages, durable ingest, admin commands, the
reply stream, backends and consoles** are listed in `PROJECT.json` with why they
are not modelled (yet).

### 1.2 What is hard to test here

`PROJECT.json` lists the hazards at the lines where they bite, with the
properties that would catch each: races of the lock-free admission with locked
transactions; a memory clear that settles from rows it read without locks;
allowance across midnight and revisions; late and repeated requests at Chat; a
crash between any two file operations; a recursive removal cut short; merged
purge fences; leases that expire while their request is under way; an
outcome that arrives after it was decided; a second call of a provider that must
be asked once; several causes paying back the same price; an answer of the
payment provider used after the checkout or the refund has moved on.

## 2. Modules

| Module | Models | Composes with |
|---|---|---|
| `ChatTurns` | Main's Turn ledger, admission and destructive memory events of one user | implements `ReplySlots` and `MainTurns` |
| `ReplySlots` | the abstract promise: one reply slot per conversation, attempts never come back | instantiated by `ChatTurns` |
| `MainTurns` | what Main shows Chat: which attempt may run, what it posted, accepted, stopped, deleted | abstract for `ChatTurns`, environment of `AgentRuns` |
| `AgentRuns` | Chat's store, runner, fences and erasure, with crashes | extends `MainTurns` |
| `CompanionMemory` | memory events, their delivery, and the published memory of one relationship | stands alone (below) |
| `Generation` | one paid Request: Main's attempts and dispatch, the worker, the record, finalization, refunds | implements `PaidRequest` |
| `PaidRequest` | the abstract promise: outputs, or the money back | instantiated by `Generation` |
| `Checkout` | one user's checkouts, invoices, paid access and refunds | stands alone |
| `ChatTurnsProofs`, `ChatTurnsHistoryProofs` | theorems about `ChatTurns` | the second extends the first |
| `AgentRunsProofs` | theorems about `AgentRuns` | extends `AgentRuns` |
| `CompanionMemoryProofs`, `CompanionMemoryContentProofs` | theorems about `CompanionMemory` | the second extends the first |
| `GenerationProofs`, `GenerationHistoryProofs` | theorems about `Generation` | the second extends the first |
| `CheckoutProofs` | theorems about `Checkout` | extends `Checkout` |
| `MCChatTurns`, `MCAgentRuns`, `MCCompanionMemory`, `MCGeneration`, `MCCheckout` | small instances | |

`ChatTurns` and `AgentRuns` meet in `MainTurns`: the first is proved to implement
it (and checked to, by `chat_core`), the second runs against it.  So what `AgentRuns` promises
holds of the composition, and a terminal `AgentRuns` sees accepted is one that
`AckIsTruth` says the user sees.

### 2.1 ChatTurns

A Turn is a logical request (session, idempotency key); `row[t]` is its
`chat_turns` row, `usage[t]` its usage fact, `log[v]` the conversation in
creation order.  `owed[t]` is the purge fence waiting in the outbox, `purged[t]`
the one Chat has, `memory[c]` the Character's pending destructive event, `stops`
the durable cancel events, `job[w]` an admission in flight, `posted` the attempts
whose snapshot may have reached Chat, `acked` the terminals Main accepted, and
`clear` an open memory-clear transaction.

- A transaction that locks the user's row is one action with the guard
  `UserLock`.  The exceptions are exactly the code's: claim, acknowledgement and
  release of an admission; a blocked message in a private chat, which inserts its
  row without the lock; and memory clear, split into `ClearReads` and
  `ClearWrites` because it reads the active Turns without row locks (Read
  Committed) and then updates them by id.
- A request that is refused is a stutter, so moderation, serving authority and
  voice-call checks appear only where they change a row (`BeginBlockedTurn`,
  `EditToBlocked`).
- Clocks: a lease or an execution deadline may have passed at any moment after
  it was set, and a backoff is over.  `MidnightPasses` moves the product day.
- A deleted row keeps only its attempt and day, which later facts refer to.
- The user is on the free plan (a paid plan drops the allowance check).
- At most one destructive event is pending per Character: a mutation that finds
  one refuses (regenerate, edit, delete); a clear replaces it.

### 2.2 AgentRuns

A run is `<<turn, attempt>>`; `files[r]` are the parts in its directory and
`proposal[r]` what `proposal.json` says; `index[t]` is the assistant index,
`fence` and `erased` the two fields of the Turn's fence file, `runner[r]` the
stage of `executeAgentRun`.  `Restart` forgets what is memory and keeps files.

- Each section under a Turn's mutex is one action; every handler that writes
  twice also has a `CrashIn...` action with what the disk may then hold.  A
  recursive removal cut short leaves any subset of the files it was removing.
- Main's requests (snapshots, cancels, purges) may arrive at any time after they
  were first made, and again.  The cancel and purge handlers keep no state
  between their sections, so the second section is enabled whenever the first
  has left its fence.
- A terminal is the outcome and how often the model had been asked, so a second
  model run gives a different terminal.
- Main may refuse the terminal of an attempt it goes on waiting for
  (`MainRefuses`: the contract, the frozen Scene, an empty reply or media that are
  not there).  Chat takes the refusal for final and closes the run; the attempt is
  then ended by Main alone.  Whether a terminal fits is abstracted: any may be
  refused, and one that was refused may be accepted when it is sent again, since
  the media it names may have arrived.  `refused` keeps the refusals.

### 2.3 MainTurns and ReplySlots

`MainTurns` has an attempt begin, be posted, be accepted, stopped or deleted.
`ReplySlots` has slots opened, closed and attempts skipped.  Both are shown by
refinement mappings at the end of `ChatTurns` (`AtMain`, `Slots`).

### 2.4 CompanionMemory

One relationship.  What memory may hold is abstracted to items `<<turn, attempt>>`;
`Transcript` is what Main would export now, `Content` what the published version
holds.  `outbox` is the relationship's events in the order they were made, with
status, lease and kind: projections and rebuilds form one lane, purges another,
and an event is claimable when nothing earlier of its lane is left.  `job[w]` is a
delivery, `requests` what Chat has been asked and has not carried out.

- A change of the transcript and the events it makes are one action under the
  user's lock.  A delivery holds that lock while it waits for a promotion
  (`UserLock`), and loses it when it fails or dies.
- A lease may have run out whenever another delivery looks: `Claimable` does not
  ask.  The slow delivery goes on; its last write is a compare-and-set.
- Chat may carry a request out long after its sender gave up.
- `ChatHalfPromotes`: the pointer is moved, the clean-up after it fails.
- The module does not extend `ChatTurns`: it needs less of a Turn (its item) and
  more of an event (its lease and lane).  Fences of runs stay there.

### 2.5 Generation and PaidRequest

`request`, `last` and `attempt[a]` are the rows of a Request and its attempts,
`dispatch[a]` the outbox row, `source[a]` and `relay[a]` the two queue jobs,
`transport[a][n]` what Main knows of the job's n-th run, `guard[a]` and
`record[a]` the two objects in Blob, `receipt`, `recovered`, `final` and
`decision` what Main made of the record, and `refunds[c]` the ledger entry of
each cause.  `asked` and `withdrawn` are history.

- One action per transaction of Main, per put-if-absent in Blob and per queue
  operation.  A worker, a dispatcher and a finalizer keep their stage between
  two of them; a worker that stops (`LoseLock`) may go on after its job was
  given to another, and `SafeRetry` is the retry the worker itself asks for.
- `Ingests` has the four ways the code takes a record in: of the attempt that
  runs, of one that is over, of one whose outcome is unknown, and again.  Of an
  unknown attempt an unknown record is filed only if Main knows nothing of that run
  or has given it up too (`MayFile`); otherwise the transaction is rolled back each
  time, and the step is not enabled.
- `Refund` clamps to what is left and never reposts a cause, as
  `refundGenerationRequest` and the ledger's idempotency key do together.
- `PaidRequest` knows a price, goods and what was given back.  `Generation`
  implements it with `assets` and `Refunded`: a step of the code is one of
  deliver, return, reopen, compensate, or changes nothing a user can see.

### 2.6 Checkout

`row[c]` is the checkout, with its lease, its mark that the provider may have been
asked, the number of misses and an error code; `sub[c]` the subscription it paid
for, `entitled` where the entitlements come from, `ledger` the idempotency keys
posted, `refund[c]` the refund it carries; `call[r]` a request of the user in
flight and `job` the refund work of an operator.  `invoice`, `flying`, `payback`
and `coming` are the provider's side, which is external.  `posted` and
`abandoned` are history.

- What a transaction reads of the checkout is read under its lock; what it knows
  of the provider is `seen`, the answer of an earlier lookup.
- `Webhook` is `billingWebhook` for `invoice.confirmed`: quarantine, coins,
  activation, or deferral because another checkout of the plan may be at the
  provider.  `Complete` is the same settlement by the user's request.
- `Activates` is `activateSubscriptionInTx` with its caller: an access that is
  newer is extended, an older one is replaced.
- A miss gives a checkout up (`canceled`, code `missing`) only after
  `MinMisses` lookups and its window, and only if the provider may have been asked.
- `RefundWebhook` and the lookup of `reconcile` may use an answer that is older
  than what is stored: `Settled` has to stand in its way.

## 3. What TLC checks

| Run | Instance | Shows |
|---|---|---|
| `chat_core` | private chat, 2 interchangeable Turns, 2 attempts each, 2 active replies per user, 2 days, 1 message a day, outcomes sent and failed, 1 worker | one reply, allowance and status agree, quota per day, an admitted Stop is charged, final terminals, no orphan run, fences spare the live, Scene chain; `MainTurns` and `ReplySlots` implemented |
| `chat_chats` | the same Character in a private chat and a group, 1 active reply per user, 1 attempt, 2 workers, fairness | reply limit across chats, closed chats quiet, every reply in the making ends |
| `agent_runs` | 1 Turn, 2 attempts, 2 model runs, no crash | purged and erased stay gone, index moves forward |
| `agent_crash` | 1 attempt, 2 crashes, fairness | model asked once, one terminal offered, closed only when Main ended the attempt or refused a terminal of it, every run decided or refused |
| `memory_sync` | 2 Turns, 3 events, 2 deliveries | memory is the transcript when all is delivered, forgets what is withdrawn; nothing stale is promoted |
| `memory_live` | 2 Turns, 2 attempts, 3 events, 1 delivery, fairness | what was said is remembered |
| `generation_retry` | a free or a paid Request of 2 outputs, 2 attempts of 1 run, 2 finalizers, 1 worker and dispatcher, no stop | every ending is paid back and explained, assets are made once, `PaidRequest` implemented |
| `generation_worker` | 1 attempt of 2 runs, 2 workers, 2 finalizers, 1 stop or repeated delivery, fairness | the provider is asked once, a withdrawn Request never; assets are made once; outcomes are final; done means settled; the Request is settled |
| `checkout_core` | 2 checkouts of one plan or of coins, 2 requests, 1 refund command, fairness | one invoice asked for, access and coins agree, abandoned checkouts grant nothing, a refund is final, a settlement is processed |
| `chat_clear`, `chat_fence`, `runs_erase` | small instances | statements of the comments and documents that the code does not keep (section 6) |

Every property of a passing run has, in `PROJECT.json`, a mutation of a mapped
definition (a dropped guard, a lost release, a fence off by one, an unfenced
write) with which TLC finds it violated: the properties are not true of just any
model.  `CHECK_DEADLOCK FALSE` everywhere, because a run really ends when its
bounded Turns, attempts and days are used up.

**Bounds.**  Two Turns are enough for every race in one conversation: each guard
looks at one other active Turn.  `chat_core` leaves room for two replies, so that
the limit of the user never does the work of the conversation's own guard, of
which both mutants of `OneReplyPerConversation` and `ImplementsReplySlots` lose
only that.  Two attempts give a replaced and a replacing
one, and a deleted Turn's whole fence is above both.  Two days are enough for a
retry after midnight, one message a day for the allowance at its limit.
`chat_chats` has one day and one attempt, since the reply limit, the closing of
chats and their liveness depend neither on the day nor on a revision.  `agent_runs` has no crash because
late requests, not crashes, are its subject; `agent_crash` has one attempt
because a run's recovery does not look at another's, and two crashes because the
second may hit the recovery from the first.  `MaxDispatch = 2` makes a second
model run visible.  Three memory events give a projection, the rebuild or purge
that supersedes it and a newer projection; two deliveries give one that is slow
and one that overtakes it.  A delivery's name is used again only when no request
bears it, because the real names (lease tokens, rebuild ids) are never reused.
`memory_live` has one delivery: it is about events that are dropped, not races.
`generation_retry` and `generation_worker` divide what can go wrong: the first has
a retry, and so everything that depends on an attempt before the last; the
second has the races within one attempt, and a job or a record that is delivered
again.  Both have two finalizers, because the queue may give one job to two.  Two outputs make a partial delivery,
and a price of 3 a share that is rounded.  One stop is enough because a second one
finds the same files.  In `checkout_core` two calls
overlap while there is one checkout (`Overlapping`): that is where they compete
for its dispatch; with the second checkout there is one call at a time, which may
be dropped while its POST is still flying and made again.  `Unlucky` keeps to
the first checkout the invoices that expire or are refused, so that both orders
of a lucky and an unlucky purchase occur.  With one refund command no key is
used twice; a second refund of the same subscription is not explored.
The type invariants of `ChatTurns`, `Generation`, `Checkout` and `CompanionMemory` are
not checked by a run: each is proved (section 4).

**Fairness.**  `FairSpec`: the dispatcher ticks for ever and takes over expired
leases (`WF` of the claim of each Turn); Chat answers some admission of a Turn
that keeps being claimed (`SF`: the action is disabled and enabled again by each
lost lease); the reaper scans every overdue reply and, since Postgres row locks
are granted first come first served, gets the locks it queues for (`SF`); a
worker's call returns or its process dies (`WF`); a transaction that has read
goes on to write (`WF`).  Not assumed: that Chat ever sends a terminal or the
user does anything.  `FairRunsSpec`: the recovery timer ticks (`WF`), a runner's
next step happens (`WF`), a full runtime pool is not full for ever (`SF`), Main
answers some of the requests it keeps getting (`SF`), with an acceptance or a
refusal: `RunIsDecided` ends with either, and what becomes of a live attempt that
was refused is the reaper's part of `EveryReplyEnds`.  `FairSpec` of
`CompanionMemory`: the outbox timer claims what is due, an expired lease included
(`WF`); a request is carried out or lost and a failed delivery ends (`WF`: each has
a timeout); deliveries that are repeated until acknowledged are at some time
carried out and answered (`SF`).  Not assumed: that a delivery survives.
`FairSpec` of `Generation`: the outbox, the queues and their workers, the relay,
the finalizers and the two sweeps take their steps (`WF` of each loop); a user and
an operator owe nothing.  The number of stops is bounded, so this says that
processes do not stop for ever.  `FairSpec` of `Checkout`: the provider delivers a
settlement event until it is answered with success (`WF`), as `billingWebhook`
expects when it answers 503, and leases lapse (`WF`); nobody has to call,
to refund or to pay.

## 4. What is proved

`ChatTurnsProofs` proves, for any number of conversations, Characters, Turns,
workers, attempts and days, under `ChatTurnsAssumption` (the constants have
their types; the set of Turns is finite):

| Theorem | States |
|---|---|
| `LedgerInvariant` | `Spec => []Inductive` |
| `TypeCorrect`, `OneReply`, `ClosedIsQuiet`, `UsageAgrees`, `AcknowledgedTerminalStands`, `NoOrphanRun` | the invariants of `chat_core` and `chat_chats` it contains |
| `LiveIsSpared` | `Spec => []FencesSpareTheLive` |

**The argument.**  None of the properties is inductive alone.  `OneReply` needs
that a revision happens only to a Turn that is not active; `UsageAgrees` needs
that a clear settles Turns that are still active when it writes, which is
`ClearWindow`: between a clear's read and its write the user's lock keeps exactly
the Turns it read active, although admissions go on.  A charge that stands after
a regenerated reply fails needs `UsageFollowsRow` (a Turn once shown is paid).
`AcknowledgedTerminalStands` and `NoOrphanRun` compare attempt numbers with the
row's, so they need `AttemptsKnown` (nobody knows an attempt that was not made).
`ClosedIsQuiet` makes a send's look at `conv` enough.  Together these parts are
`Inductive`.  `LiveIsSpared` adds `FencesFollowRow`: no fence exists for a Turn
not yet made, and every fence set is the number of the attempt being replaced,
or above all attempts for a Turn that is gone.

**The layout.**  Steps that treat rows alike share a lemma: `QuietStep` (status
and attempt unchanged), `StartStep` (one Turn begins an attempt), `EndStep` (one
active attempt ends), `CloseStep` (Turns disappear).  Each action is shown to be
one of these, and `InductiveNext` puts them together.

`ChatTurnsHistoryProofs` goes on from there, under the same assumption:

| Theorem | States |
|---|---|
| `StoppedIsCharged` | `Spec => []StoppedDeliveryIsCharged` |
| `CapacityKept`, `QuotaKept` | `Spec => []ReplyCapacity`, `Spec => []QuotaHeld` |
| `ScenesCount` | `Spec => []SceneChain` |
| `LedgerIsMainTurns`, `LedgerIsReplySlots` | `Spec => ImplementsMainTurns`, `Spec => ImplementsReplySlots` |

**The argument.**  `StepShapes` says that every step has one of four shapes, with
what it does to rows, usage, transcript and Chat's sets: `Waits`, `Starts` (the next
attempt of one idle Turn), `Ends` (of a set of running replies), `Deletes`.  Each
result is proved shape by shape.  A quota can only grow by a start, by one Turn, and
there the guard looked (`TurnSets` has the cardinalities); that a revision is charged
to the day of its Turn and not to today is what makes the sum of every day hold.
`SceneChain` is not inductive: it needs that a conversation lists its existing
Turns once each (`Listed`) and that nothing after a running reply is sent or runs
(`RunsLast`): a blocked message may follow one, and must not be counted when the
reply before it is shown.  A transcript with these is `Told`, and `SceneFound` shows
that what `previousCommittedScene` finds in it is the number of sent replies.  In the
refinements a start is `Begin`, or `Open` and `Skip`; an end is `Accept` or `Stop`, or
`Close`; and `OneReplyPerConversation` is what makes the slot of a conversation one.

`AgentRunsProofs` proves, for any number of Turns, attempts, model runs and crashes,
under `AgentRunsAssumption`:

| Theorem | States |
|---|---|
| `RunInvariance`, `RunTypes` | `RunsSpec => []RunInvariant`, `RunsSpec => []RunsTypeOK` |
| `ModelAskedOnce`, `TerminalOfferedOnce` | `OneModelRunPerLiveAttempt`, `OneProposalPerLiveAttempt` |
| `ClosedIsAnswered` | `RunsSpec => []ClosedAfterDecision` |
| `PurgedIsGone` | `RunsSpec => []PurgedStaysGone` |
| `ErasedIsFinal`, `IndexAdvances` | `RunsSpec => ErasedIsFrozen`, `RunsSpec => IndexMovesForward` |

**The argument.**  `RunInvariant` is the types and five parts.  `Known`: nobody at Chat
knows an attempt Main has not posted, and what Main acknowledged or stopped is over.
`Closed`: of a run with a completion file, an answered runner or a terminal index
entry Main has ended the attempt, or has refused a terminal (`Final`; refusals stay,
`RefusalsStay`), and a runner that was told its terminal is accepted is over at Main.  `LiveRunsOK`: of an attempt Main waits for, the disk says how far it
came before the process goes on, so that a process that starts again finds a
dispatched run without a proposal and does not ask again (`AskedOnce`), and all
terminals sent are the one in `proposal.json`, or the run is closed or fenced and
proposes no more (`OneOffer`: a refusal removes the proposal of an attempt that is
still live, and the completion has to stand in its place).  `Held`: a runner that is
past its start has its input on disk or is fenced, and an erasure under way has the
user's fence.  `Gone`: a purge is acknowledged after its fence, and below it no file
is left.
The parts speak of one run at a time, so `EveryStepMoves` says once what any step, a
crash inside a handler included, may do to one run, and fences only rise
(`FencesRise`).

`CompanionMemoryProofs` proves, for any number of Turns, attempts, events and
deliveries:

| Theorem | States |
|---|---|
| `NothingStaleIsPromoted` | `Spec => []PromotionIsCurrent` |
| `VersionsAdvance` | `Spec => PublicationAdvances` |

**The argument.**  `PromotionIsCurrent` speaks of the moment of a promotion; the
export it is about was made long before, without a lock.  `ExportsHold` says it of
every delivery whose event is due: a change that takes from the transcript also
silences every projection (`Silences`), no rebuild is due when it happens, or it is a
clear, which silences both; a delivered event is never due again (`Carries`); and
while a promotion waits, the user's lock keeps the transcript from changing.  So a
step either adds to the transcript (`GrownTranscript`), or leaves only purges due,
which export nothing (`ShrunkTranscript`), or belongs to one delivery
(`DeliveryStep`).  `VersionsAdvance` needs no invariant: it is the comparison Chat
makes before it moves the pointer.

`CompanionMemoryContentProofs` proves what the published memory comes to:

| Theorem | States |
|---|---|
| `MemoryInvariance`, `MemoryTypes` | `Spec => []MemoryHolds`, `Spec => []MemoryTypeOK` |
| `WithdrawnLeaves` | `Spec => []WithdrawnIsForgotten` |
| `MemoryConverges` | `Spec => []UnclearedMemoryIsTranscript` |

**The argument.**  A version is the number of events up to its own that are not
purges, so `VersionIn` is a cardinality and its order needs the lemmas of the first
part (`VersionCounts`, `VersionOrder`, `VersionKept`).  `Exports` are all versions on
their way, prepared or published; `FreshHolds` says that those no rebuild has
overtaken hold only what is in the transcript or was cleared.  A withdrawn item leaves because
everything before its rebuild is delivered or superseded (`RebuildsWait`), so the
rebuild carries a higher version than all exports made before it, and is done only
once it, or a later one, is published (`SafeWhenDone`, `DoneIsShown`).  That nothing said is lost needs `LaneOrder` (events
are claimed in order), `ClearedIsPurged` and `AllCovered`: every item of the transcript
has an event that is still to be exported or was exported with it.  Each delivery has
one request at a time (`WorkFits`), which is why a late answer belongs to the event it
names.  The steps are brought to five shapes (`StepShapes`).

`GenerationProofs` and `GenerationHistoryProofs` prove, for any price, number of
outputs, attempts, runs, workers, finalizers, dispatchers and stops, under
`GenerationAssumption`:

| Theorem | States |
|---|---|
| `Invariance`, `GenTypeCorrect` | `Spec => []IInv`, `Spec => []GenTypeOK` |
| `RequestsArePaidBack` | `Spec => []SettledIsPaidBack` |
| `PromiseIsKept` | `Spec => ImplementsPaidRequest` |
| `HistoryInvariance` | `Spec => []HistoryOK` |
| `OutcomesAreFinal` | `Spec => AttemptOutcomeIsFinal` |
| `WithdrawnIsNotAsked`, `AskedOnce` | `WithdrawnIsNeverInvoked`, `ProviderAskedOnce` |
| `DoneJobsAreSettled`, `AssetsAreMadeOnce`, `RefundsHaveCauses` | `DoneIsSettled`, `DeliveredOnce`, `EveryRefundHasItsCause` |

**The argument.**  `IInv` is types with what each party has in hand (`TypeInv`: a
worker that runs has a run, a finalizer that moderates has a success on record),
the money (`MoneyOK`: every cause but a partial delivery gives back all there is
left, so any second refund adds nothing) and the goods (`GoodsOK`: a finalizer
that counted assets saw a completed Request).  `MovesStep` gathers what a step may do to
the Request's status, assets and refunds, and both `SettledIsPaidBack` and the
refinement follow from it.  `HistoryOK` adds the order of things: attempts are
reserved one after another, each after the one before is over; nothing is known
of an attempt before a dispatcher touches its row; a withdrawal comes before that.
`AskedOnce` adds that the reservation in Blob precedes the call.

`CheckoutProofs` proves, for any number of checkouts, plans, requests, lookups and
refund commands, under `CheckoutAssumption`:

| Theorem | States |
|---|---|
| `PurchaseInvariance`, `PurchaseTypes` | `Spec => []IInv`, `Spec => []PurchaseTypeOK` |
| `PostedOnce` | `Spec => []InvoicePostedOnce` |
| `AccessAgrees` | `Spec => []AccessAndCoinsAgree` |
| `NothingForTheAbandoned` | `Spec => []AbandonedIsNotGranted` |
| `RefundsAreFinal` | `Spec => RefundIsFinal` |

**The argument.**  `IInv` has two halves that meet in one place.  `AccessInv` is about
subscriptions, entitlements, coins and refunds: one subscription is in force
(`OneAccess`), a plan's coins and its subscription are granted together, and an open
refund holds its subscription and has no restoration posted (`RefundsHold`), so that
each new ledger entry counts exactly once (`NetMoves`).  `DeskInv` is about the
checkout's row and the requests: the mark precedes the POST and one request holds
it (`PostOK`); whatever is settled, granted or refunded was paid for and never given
up (`PaidOK`); what was given up stays so (`GoneOK`).  A write of a row is shown to
be one that takes nothing of this back (`Follows`), and each action is a move of
access (`Expiry`, `Activation`, `Preparation`, `Projection`, ...) beside a move of rows
and calls (`RowMoves`, `CallMoves`, `CallRowMoves`).  They meet where a refund writes
the row of its checkout: `PaidOK` is what says that row was paid for.

Left to TLC: liveness and everything about `ENABLED` (`EveryReplyEnds`,
`RunIsDecided`, `SaidIsRemembered`, `Settles`, `SettlementIsProcessed`).  Every
invariant, action property and refinement that a passing run checks is proved, from
the named assumptions on the constants alone.  They are types, finiteness of the set
of Turns, and that the model values that stand for nothing (`NoWorker`, `NoJob`,
`NoVersion`, ...) are not things.

## 5. What is not modelled

Within the modelled components: usage receipts that arrive after a Stop, the
expiry of failed traces, a journal torn in the middle of a line, what igrep
derives from a transcript and the copies of it that running attempts read, an
export whose pages are read while the transcript changes, pinned releases and
drafts, membership of a group and
who speaks in it, proactive scheduling, the browser's event stream.  In
`ChatTurns` the outbox keeps only fences and cancels, delivered in any order
between aggregates.  `CompanionMemory` takes an aggregate's `createdAt` order to be
the order the events were made in.

In `Generation`: what is generated, why moderation refuses it, artifacts and chat
attachments (they follow the Request's status), usage accounting, video scenes
that wait for one another, content-production items (they cost nothing here),
envelopes that do not parse, and the accelerator's lock file.  In `Checkout`: the
mock provider's automatic confirmation, cash receipts, analytics, how long a
period is and how many days an extension gives, cancelling at the end of a period
and resuming, the identity of webhook events, and refund commands of two
operators at once.

Whole components that are left out are in `PROJECT.json` with the reason.  The
repository has more than 300,000 lines, most of them user interface, admin
read models, translations and launch checks without a state machine of their own;
the models cover the transactions named in section 1, a small share of the whole.

## 6. Where code and documents disagree

1. **A clear can make an admitted reply free** (`chat_clear`).
   `clearCompanionMemory` settles from rows it read without a lock; an admission
   acknowledged in between leaves a Turn cancelled, admitted and voided, although
   `turn-ledger.ts:1457` says a cancelled attempt is voided only if it was never
   admitted.
2. **A clear can drop a purge fence** (`chat_fence`).  It marks the pending
   rebuild delivered, and the fence of a message deleted before goes with it,
   although `companion-memory-authority.ts:140` says every destructive mutation
   carries its own exact fence.  The run files of the deleted Turn stay at Chat.
3. **A crash inside an erasure can leave files behind** (`runs_erase`).  The retry
   finds a Turn's owner in `input.json`; a recursive removal cut short may have
   removed just that file.

Noticed and not a run:

- A second clear makes no event while the first purge is unacknowledged; if Chat
  has carried that one out already, memory published in between stays
  (`companion-memory-authority.ts:403`), although
  `docs/architecture/20-local-file-chat-authority.md:27` says a clear deletes the workspace.
- A crash inside the removal of a committed run can leave only `input.json`;
  recovery does not look at the index and runs the model again
  (`agent-runner.ts:320`).  Main refuses the second terminal; the model is paid twice.
- Documents 14 and 20 disagree on whether new runs are admitted while a rebuild is
  pending (the code admits them, as 14 says).
- A purge has no version, so one that is delivered after a newer conversation was
  projected removes that memory too, until the next reply (this is why
  `UnclearedMemoryIsTranscript` is about relationships never cleared).  A candidate
  prepared just before a clear and not promoted stays on disk until the next promotion.
- A retry whose attempt is unknown, with a late success on file, cannot be ended
  by the automatic sweep when an earlier attempt was refunded: confirming the
  failure is refused (`unknown-reconciliation.ts:190-203`), adopting the success too
  (`:612`); only an operator's cancellation ends it, although
  `stale-unknown-dispatcher.ts:6-11` speaks of every stale unknown attempt.
  `Settles` names this case.
- The unknown record of an attempt that is already unknown is refused while Main
  still has its run as running (`generation-terminal-record-ingest.ts:966-981`): a
  slow worker whose provider may be asked again stores its record after the next
  run was authorized, and that run's own failure is what made the attempt unknown.
  The receipt is rolled back each time and the relay offers the record for ever,
  although `generation-terminal-relay.ts:31-33` says that immutable invalid evidence
  must not churn there; the automatic decision defers to a record that is on its
  way (`unknown-reconciliation.ts:97`).  Only an operator ends it (`Settles`: `Unfiled`).
- Main answers 400 or 409 to a terminal that breaks the contract, the frozen Scene
  or has no media (`turn-ledger.ts:655-697`) and keeps the Turn pending, as
  `scene-authority.integration.test.ts` expects.  Chat takes that answer for final
  (`agent-runner.ts:397-412`), closes the run and tells the reader so, although
  `chat-reply-delivery.ts:24` and `chat-sse-probe.ts:24-26` say that an explicit Chat error
  is downstream of Main's durable terminal commit.  The Turn blocks its
  conversation until the reaper or a Stop ends it.
- An attempt quarantined because its queue job is exhausted keeps a transport
  that "runs", so a late success of it is refused.
- A user who repeats a purchase's Idempotency-Key while its refund is pending
  overwrites the refund's evidence: `completeCheckoutIntent` finds the pending
  refund and stores `checkoutSettlementReconciliationData` over it.  The refund's
  webhook is then deferred for ever and an operator's reconcile finds no refund,
  against `subscription-refund.ts:164-167` and
  `docs/architecture/08-billing-and-entitlements.md:48,142`.  `Reconciles` has this step.
- The same call after the refund is completed turns a checkout that was `refunded`
  back to `completed` (the subscription and the entitlements stay refunded).
- `createRefund` has no deadline: a slow first POST and the command that is run
  again after its lease can both reach the provider.  A refund command that fails
  for good leaves the subscription `refund_pending` with no way to try again.

## 7. Plan

In this order; each module is checked first and then proved about.

1. `ChatTurns`, `MainTurns`, `ReplySlots` and their proofs; `AgentRuns` (done).
2. `CompanionMemory` and its first proofs (done).
3. `Generation` and `PaidRequest`, with the ledger entries of one Request (done,
   with proofs); `Checkout` (done, with proofs).
4. `AccountDeletion`, composed with the erasure of `AgentRuns`: the grace period,
   writes of media while an account is erased, the receipts of both sides.
5. `VoiceClip`: leased synthesis with reclaim and an unknown provider outcome.
6. `AdminCommands`: approved commands with leases, over `Checkout`'s refunds.

Theorems to add: as the modules of steps 4 to 6 come.  For the modules there are,
what is left is liveness, which the provers do not reach.
