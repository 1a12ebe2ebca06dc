----------------------------- MODULE ChatTurns -----------------------------
(***************************************************************************)
(* Main's Turn ledger for one user: turn-ledger.ts, agent-run-admission.ts *)
(* and the destructive half of companion-memory-authority.ts.              *)
(*                                                                         *)
(* A Turn is one logical request (session, idempotency key).  Every        *)
(* product mutation is one database transaction that starts by locking the *)
(* user's row, so it is one action here.  The admission dispatcher does    *)
(* NOT take that lock: its claim, its acknowledgement and its release are  *)
(* compare-and-set updates of their own, interleaved with everything else, *)
(* including the inside of the one transaction (memory clear) that reads   *)
(* Turns without locking their rows.                                       *)
(*                                                                         *)
(* The user is on the free plan.  Moderation verdicts, character serving   *)
(* authority and voice calls only ever refuse a request: a refused request *)
(* is a stutter.  Clocks are abstracted: a lease or an execution deadline  *)
(* may have passed at any moment after it was set, and a backoff is over.  *)
(***************************************************************************)
EXTENDS Integers, Sequences, FiniteSets

CONSTANTS
  Conversations,    \* private chats and group conversations
  Sessions,         \* recent_chats rows; a group has one per member Character
  Characters,
  Turns,            \* logical requests that may ever be made
  Workers,          \* admission lease tokens that may be live at once
  ConversationOf,   \* Sessions -> Conversations
  CharacterOf,      \* Sessions -> Characters
  Groups,           \* the Conversations that are group conversations
  SessionOf,        \* Turns -> Sessions
  OriginOf,         \* Turns -> {"user", "proactive"}
  ChatOutcomes,     \* the terminals Chat may report: all of Outcomes in the code
  MaxActiveTurns,   \* MAX_ACTIVE_TURNS_PER_USER (3 in the code)
  DailyMessages,    \* FREE_DAILY_MESSAGES
  MaxAttempt,       \* bound of the model: attempts per Turn
  LastDay,          \* bound of the model: product days
  NoWorker,
  NoJob,
  NoClear

ASSUME ChatTurnsAssumption ==
  /\ ConversationOf \in [Sessions -> Conversations]
  /\ CharacterOf \in [Sessions -> Characters]
  /\ SessionOf \in [Turns -> Sessions]
  /\ OriginOf \in [Turns -> {"user", "proactive"}]
  /\ Groups \subseteq Conversations
  /\ ChatOutcomes \subseteq {"sent", "blocked", "failed", "cancelled"}
  /\ MaxActiveTurns \in Nat \ {0}
  /\ DailyMessages \in Nat
  /\ MaxAttempt \in Nat \ {0}
  /\ LastDay \in Nat \ {0}
  /\ NoWorker \notin Workers
  /\ IsFiniteSet(Turns)
  /\ NoJob \notin Turns \X (1..MaxAttempt)

VARIABLES
  conv,     \* Conversations -> "active" | "archived" | "deleted"
  log,      \* Conversations -> existing Turns in creation order
  row,      \* Turns -> the chat_turns row
  usage,    \* Turns -> chat_turn_usage_facts: none | held | voided | consumed
  today,    \* the UTC product day
  memory,   \* Characters -> destructive memory event still undelivered
  owed,     \* Turns -> run purge fence carried by an undelivered rebuild
  purged,   \* Turns -> run purge fence delivered to Chat
  stops,    \* attempts with a durable cancel event
  job,      \* Workers -> admission in flight, <<turn, attempt>>
  posted,   \* attempts whose snapshot may have reached Chat
  acked,    \* <<turn, attempt, outcome>> terminals Main accepted
  clear     \* an open memory-clear transaction and the rows it has read

ledgerVars == <<conv, log, row, usage, today>>
memoryVars == <<memory, owed, purged, stops>>
chatVars   == <<job, posted, acked>>
vars       == <<ledgerVars, memoryVars, chatVars, clear>>

Attempts == 1..MaxAttempt
Whole    == MaxAttempt + 1           \* the fence of a deleted Turn: all attempts
Fences   == 0..Whole
Outcomes == {"sent", "blocked", "failed", "cancelled"}
ActiveAssistantStates == {"pending", "generating"}
Authorities == {"none", "chat", "main_user_cancel", "main_stalled_attempt_reclaim",
                "main_memory_clear", "main_input_moderation"}

Row == [status   : {"absent", "deleted"} \cup ActiveAssistantStates \cup Outcomes,
        attempt  : 0..MaxAttempt,
        by       : Authorities,          \* terminalEvidence.authority
        admitted : BOOLEAN,              \* admittedAt is set
        lease    : Workers \cup {NoWorker},   \* admissionLeaseToken
        scene    : Nat,                  \* anchor while active, result once sent
        counted  : BOOLEAN,              \* statsCountedAt is set
        day      : 1..LastDay]           \* productDay(createdAt)

Home(t)      == ConversationOf[SessionOf[t]]
Character(t) == CharacterOf[SessionOf[t]]
Exists(t)    == row[t].status \notin {"absent", "deleted"}
Active(t)    == row[t].status \in ActiveAssistantStates
ActiveIn(v)  == {t \in Turns : Home(t) = v /\ Active(t)}
Latest(t)    == Exists(t) /\ log[Home(t)] # <<>>
                  /\ t = log[Home(t)][Len(log[Home(t)])]

SessionsIn(v) == {s \in Sessions : ConversationOf[s] = v}
HomesOf(c)    == {ConversationOf[s] : s \in {x \in Sessions : CharacterOf[x] = c}}

-----------------------------------------------------------------------------
\* Allowance: reserveChatTurnUsage, settleChatTurnUsage, assertChatQuota.

Used(d) == Cardinality({t \in Turns : /\ OriginOf[t] = "user"
                                      /\ usage[t] \in {"held", "consumed"}
                                      /\ row[t].day = d})

\* Mutant of CanReserve: a revision is checked against today's allowance.
CanReserveToday(t, d) == \/ usage[t] \in {"held", "consumed"}
                         \/ OriginOf[t] = "proactive"
                         \/ Used(today) < DailyMessages

CanReserve(t, d) == \/ usage[t] \in {"held", "consumed"}
                    \/ OriginOf[t] = "proactive"
                    \/ Used(d) < DailyMessages

Reserved(u) == IF u \in {"none", "voided"} THEN "held" ELSE u

\* Mutants of Settled: a failure is not released; an admitted cancellation is
\* free.
SettledWithoutRelease(t, outcome, admitted) ==
  IF outcome = "sent" \/ row[t].counted \/ (outcome = "cancelled" /\ admitted)
  THEN "consumed" ELSE usage[t]
SettledByOutcome(t, outcome, admitted) ==
  IF outcome = "sent" \/ row[t].counted
  THEN "consumed" ELSE IF usage[t] = "held" THEN "voided" ELSE usage[t]

\* admitted is what the settling transaction read, not always what is stored.
Settled(t, outcome, admitted) ==
  IF \/ outcome = "sent"
     \/ row[t].counted
     \/ outcome = "cancelled" /\ admitted
  THEN IF usage[t] = "none" THEN "none" ELSE "consumed"
  ELSE IF usage[t] = "held" THEN "voided" ELSE usage[t]

HasReplyCapacity ==
  Cardinality({t \in Turns : OriginOf[t] = "user" /\ Active(t)}) < MaxActiveTurns

-----------------------------------------------------------------------------
\* Scene: the latest sent Turn of the conversation, the revised one excepted.

\* Mutant of SentBefore: the revised Turn's own old reply counts.
SentAnywhere(v, t) == {i \in 1..Len(log[v]) : row[log[v][i]].status = "sent"}

SentBefore(v, t) == {i \in 1..Len(log[v]) : /\ log[v][i] # t
                                            /\ row[log[v][i]].status = "sent"}

CommittedScene(v, t) ==
  LET sent == SentBefore(v, t)
  IN  IF sent = {} THEN 0
      ELSE row[log[v][CHOOSE i \in sent : \A j \in sent : j <= i]].scene

-----------------------------------------------------------------------------
\* A row before its Turn is made, and what the model remembers of one deleted.
NoRow(status, attempt, day) ==
  [status |-> status, attempt |-> attempt, by |-> "none", admitted |-> FALSE,
   lease |-> NoWorker, scene |-> 0, counted |-> FALSE, day |-> day]

DeletedRow(t) == NoRow("deleted", row[t].attempt, row[t].day)

Init ==
  /\ conv = [v \in Conversations |-> "active"]
  /\ log = [v \in Conversations |-> <<>>]
  /\ row = [t \in Turns |-> NoRow("absent", 0, 1)]
  /\ usage = [t \in Turns |-> "none"]
  /\ today = 1
  /\ memory = [c \in Characters |-> "settled"]
  /\ owed = [t \in Turns |-> 0]
  /\ purged = [t \in Turns |-> 0]
  /\ stops = {}
  /\ job = [w \in Workers |-> NoJob]
  /\ posted = {}
  /\ acked = {}
  /\ clear = NoClear

\* The user's row lock: no other transaction of this user is open.
UserLock == clear = NoClear

\* The columns a new attempt starts from; blocked input never becomes active.
FreshAttempt(t, blocked, attempt, scene, day) ==
  [status   |-> IF blocked THEN "blocked" ELSE "pending",
   attempt  |-> attempt,
   by       |-> IF blocked THEN "main_input_moderation" ELSE "none",
   admitted |-> FALSE, lease |-> NoWorker,
   scene    |-> scene, counted |-> row[t].counted, day |-> day]

\* Updates of one chat_turns row.
Leased(t, w)          == [row[t] EXCEPT !.lease = w]
Generating(t)         == [row[t] EXCEPT !.status = "generating", !.admitted = TRUE,
                                        !.lease = NoWorker]
Ended(t, status, by)  == [row[t] EXCEPT !.status = status, !.by = by]
Selected(t)           == [row[t] EXCEPT !.status = "sent", !.by = "chat",
                                        !.scene = @ + 1, !.counted = TRUE]

-----------------------------------------------------------------------------
\* A new message.  A second call with the same key finds the row and changes
\* nothing.  A blocked message in a private chat does not lock the user's row.

\* Mutant of BeginChatTurn: only the user-wide limit is looked at.
BeginBesideAnother(t) ==
  LET v == Home(t) IN
  /\ UserLock
  /\ row[t].status = "absent"
  /\ conv[v] = "active"
  /\ OriginOf[t] = "proactive" \/ HasReplyCapacity
  /\ CanReserve(t, today)
  /\ row' = [row EXCEPT ![t] = FreshAttempt(t, FALSE, 1, CommittedScene(v, t), today)]
  /\ log' = [log EXCEPT ![v] = Append(@, t)]
  /\ usage' = [usage EXCEPT ![t] = Reserved(@)]
  /\ UNCHANGED <<conv, today, memoryVars, chatVars, clear>>

\* Mutant of BeginChatTurn: only the conversation's own replies are looked at.
BeginBesideOthers(t) ==
  LET v == Home(t) IN
  /\ UserLock
  /\ row[t].status = "absent"
  /\ conv[v] = "active"
  /\ ActiveIn(v) = {}
  /\ CanReserve(t, today)
  /\ row' = [row EXCEPT ![t] = FreshAttempt(t, FALSE, 1, CommittedScene(v, t), today)]
  /\ log' = [log EXCEPT ![v] = Append(@, t)]
  /\ usage' = [usage EXCEPT ![t] = Reserved(@)]
  /\ UNCHANGED <<conv, today, memoryVars, chatVars, clear>>

BeginChatTurn(t) ==
  LET v == Home(t) IN
  /\ UserLock
  /\ row[t].status = "absent"
  /\ conv[v] = "active"
  /\ ActiveIn(v) = {}
  /\ OriginOf[t] = "proactive" \/ HasReplyCapacity
  /\ CanReserve(t, today)
  /\ row' = [row EXCEPT ![t] = FreshAttempt(t, FALSE, 1, CommittedScene(v, t), today)]
  /\ log' = [log EXCEPT ![v] = Append(@, t)]
  /\ usage' = [usage EXCEPT ![t] = Reserved(@)]
  /\ UNCHANGED <<conv, today, memoryVars, chatVars, clear>>

BeginBlockedTurn(t) ==
  LET v == Home(t) IN
  /\ v \in Groups => UserLock
  /\ row[t].status = "absent"
  /\ conv[v] = "active"
  /\ row' = [row EXCEPT ![t] = FreshAttempt(t, TRUE, 1, CommittedScene(v, t), today)]
  /\ log' = [log EXCEPT ![v] = Append(@, t)]
  /\ UNCHANGED <<conv, usage, today, memoryVars, chatVars, clear>>

-----------------------------------------------------------------------------
\* Revisions replace the latest Turn's attempt; lockLatestTurn is their guard.

\* Mutant of CanRevise: the reply in the making may be revised in place.
CanReviseRunning(t) ==
  /\ UserLock
  /\ conv[Home(t)] = "active"
  /\ memory[Character(t)] = "settled"
  /\ Latest(t)
  /\ row[t].attempt < MaxAttempt

CanRevise(t) ==
  /\ UserLock
  /\ conv[Home(t)] = "active"
  /\ memory[Character(t)] = "settled"
  /\ Latest(t)
  /\ ~Active(t)
  /\ row[t].attempt < MaxAttempt            \* bound

\* Mutant of ScheduleRebuild: the fence is one attempt too high.
ScheduleRebuildPast(t, fence) ==
  /\ memory' = [memory EXCEPT ![Character(t)] = "rebuild"]
  /\ owed' = [owed EXCEPT ![t] = fence + 1]
  /\ UNCHANGED <<purged, stops>>

\* scheduleCompanionMemoryRebuild with the replaced attempts' purge fence.
ScheduleRebuild(t, fence) ==
  /\ memory' = [memory EXCEPT ![Character(t)] = "rebuild"]
  /\ owed' = [owed EXCEPT ![t] = fence]
  /\ UNCHANGED <<purged, stops>>

\* Mutant of Revise: only the user-wide limit is looked at.
ReviseBesideAnother(t) ==
  /\ CanRevise(t)
  /\ HasReplyCapacity
  /\ CanReserve(t, row[t].day)
  /\ usage' = [usage EXCEPT ![t] = Reserved(@)]
  /\ row' = [row EXCEPT ![t] = FreshAttempt(t, FALSE, @.attempt + 1,
                                            CommittedScene(Home(t), t), @.day)]
  /\ ScheduleRebuild(t, row[t].attempt)
  /\ UNCHANGED <<conv, log, today, chatVars, clear>>

Revise(t) ==
  /\ CanRevise(t)
  /\ ActiveIn(Home(t)) \ {t} = {}
  /\ HasReplyCapacity
  /\ CanReserve(t, row[t].day)
  /\ usage' = [usage EXCEPT ![t] = Reserved(@)]
  /\ row' = [row EXCEPT ![t] = FreshAttempt(t, FALSE, @.attempt + 1,
                                            CommittedScene(Home(t), t), @.day)]
  /\ ScheduleRebuild(t, row[t].attempt)
  /\ UNCHANGED <<conv, log, today, chatVars, clear>>

RegenerateChatTurn(t) == row[t].by # "main_input_moderation" /\ Revise(t)

EditChatTurn(t) == Revise(t)

\* The edited words are refused: nothing is reserved and nothing will run.
EditToBlocked(t) ==
  /\ CanRevise(t)
  /\ row' = [row EXCEPT ![t] = FreshAttempt(t, TRUE, @.attempt + 1,
                                            CommittedScene(Home(t), t), @.day)]
  /\ ScheduleRebuild(t, row[t].attempt)
  /\ UNCHANGED <<conv, log, usage, today, chatVars, clear>>

-----------------------------------------------------------------------------
\* Admission to Chat: claim a lease, POST the frozen snapshot, acknowledge.
\* None of these takes the user's lock.  A lease held by a slower worker may
\* have expired, so the next worker can take it over at any time.

\* Mutant of ClaimAdmission: a lease left by a dead worker is never taken over.
ClaimUnleased(w, t) ==
  /\ job[w] = NoJob
  /\ row[t].status = "pending"
  /\ conv[Home(t)] = "active"
  /\ row[t].lease = NoWorker
  /\ row' = [row EXCEPT ![t] = Leased(t, w)]
  /\ job' = [job EXCEPT ![w] = <<t, row[t].attempt>>]
  /\ posted' = posted \cup {<<t, row[t].attempt>>}
  /\ UNCHANGED <<conv, log, usage, today, memoryVars, acked, clear>>

ClaimAdmission(w, t) ==
  /\ job[w] = NoJob
  /\ row[t].status = "pending"
  /\ conv[Home(t)] = "active"
  /\ row' = [row EXCEPT ![t] = Leased(t, w)]
  /\ job' = [job EXCEPT ![w] = <<t, row[t].attempt>>]
  /\ posted' = posted \cup {<<t, row[t].attempt>>}
  /\ UNCHANGED <<conv, log, usage, today, memoryVars, acked, clear>>

HoldsLease(w) ==
  /\ job[w] # NoJob
  /\ row[job[w][1]].attempt = job[w][2]
  /\ row[job[w][1]].status = "pending"
  /\ row[job[w][1]].lease = w

\* Chat acknowledged: the compare-and-set makes the attempt generating.
ConfirmAdmission(w) ==
  /\ HoldsLease(w)
  /\ row' = [row EXCEPT ![job[w][1]] = Generating(job[w][1])]
  /\ job' = [job EXCEPT ![w] = NoJob]
  /\ UNCHANGED <<conv, log, usage, today, memoryVars, posted, acked, clear>>

\* Refused, timed out, or Chat says terminal: back to the queue.
ReleaseAdmission(w) ==
  /\ HoldsLease(w)
  /\ row' = [row EXCEPT ![job[w][1]] = Leased(job[w][1], NoWorker)]
  /\ job' = [job EXCEPT ![w] = NoJob]
  /\ UNCHANGED <<conv, log, usage, today, memoryVars, posted, acked, clear>>

\* The process died, or its compare-and-set found the attempt gone.
AbandonAdmission(w) ==
  /\ job[w] # NoJob
  /\ job' = [job EXCEPT ![w] = NoJob]
  /\ UNCHANGED <<ledgerVars, memoryVars, posted, acked, clear>>

-----------------------------------------------------------------------------
\* The three ways an active reply ends under the user's lock.

\* Chat's terminal.  A repetition of an accepted one is accepted again and
\* changes nothing; any other is refused.
CommitChatTerminal(t, a, outcome) ==
  /\ UserLock
  /\ <<t, a>> \in posted
  /\ row[t].attempt = a /\ Active(t)
  /\ row' = [row EXCEPT ![t] = IF outcome = "sent" THEN Selected(t)
                                ELSE Ended(t, outcome, "chat")]
  /\ usage' = [usage EXCEPT ![t] = Settled(t, outcome, row[t].admitted)]
  /\ acked' = acked \cup {<<t, a, outcome>>}
  /\ UNCHANGED <<conv, log, today, memoryVars, job, posted, clear>>

\* Mutant of CancelChatTurn: a Stop that arrives late overwrites the terminal.
CancelFinishedToo(t) ==
  /\ UserLock
  /\ Exists(t)
  /\ row' = [row EXCEPT ![t] = Ended(t, "cancelled", "main_user_cancel")]
  /\ usage' = [usage EXCEPT ![t] = Settled(t, "cancelled", row[t].admitted)]
  /\ stops' = stops \cup {<<t, row[t].attempt>>}
  /\ UNCHANGED <<conv, log, today, memory, owed, purged, chatVars, clear>>

CancelChatTurn(t) ==
  /\ UserLock
  /\ Active(t)
  /\ row' = [row EXCEPT ![t] = Ended(t, "cancelled", "main_user_cancel")]
  /\ usage' = [usage EXCEPT ![t] = Settled(t, "cancelled", row[t].admitted)]
  /\ stops' = stops \cup {<<t, row[t].attempt>>}
  /\ UNCHANGED <<conv, log, today, memory, owed, purged, chatVars, clear>>

\* Mutant of FailStalledChatTurn: the reclaimed run is never cancelled at Chat.
FailStalledQuietly(t) ==
  /\ UserLock
  /\ row[t].status = "generating"
  /\ row' = [row EXCEPT ![t] = Ended(t, "failed", "main_stalled_attempt_reclaim")]
  /\ usage' = [usage EXCEPT ![t] = Settled(t, "failed", row[t].admitted)]
  /\ UNCHANGED <<conv, log, today, memoryVars, chatVars, clear>>

\* The deadline Chat reported at admission and Main's grace have passed.
FailStalledChatTurn(t) ==
  /\ UserLock
  /\ row[t].status = "generating"
  /\ row' = [row EXCEPT ![t] = Ended(t, "failed", "main_stalled_attempt_reclaim")]
  /\ usage' = [usage EXCEPT ![t] = Settled(t, "failed", row[t].admitted)]
  /\ stops' = stops \cup {<<t, row[t].attempt>>}
  /\ UNCHANGED <<conv, log, today, memory, owed, purged, chatVars, clear>>

-----------------------------------------------------------------------------
\* Deletion and archiving.

DeleteChatMessage(t) ==
  LET v == Home(t) IN
  /\ UserLock
  /\ memory[Character(t)] = "settled"
  /\ Latest(t)
  /\ ~Active(t)
  /\ row' = [row EXCEPT ![t] = DeletedRow(t)]
  /\ log' = [log EXCEPT ![v] = SubSeq(@, 1, Len(@) - 1)]
  /\ ScheduleRebuild(t, Whole)
  /\ UNCHANGED <<conv, usage, today, chatVars, clear>>

\* deleteChatSession, and deleteGroupChatConversation for every member.
DeleteConversation(v) ==
  LET gone    == {t \in Turns : Home(t) = v /\ Exists(t)}
      members == {CharacterOf[s] : s \in SessionsIn(v)} IN
  /\ UserLock
  /\ conv[v] # "deleted"
  /\ \A c \in members : memory[c] = "settled"
  /\ ActiveIn(v) = {}
  /\ conv' = [conv EXCEPT ![v] = "deleted"]
  /\ log' = [log EXCEPT ![v] = <<>>]
  /\ row' = [t \in Turns |-> IF t \in gone THEN DeletedRow(t) ELSE row[t]]
  /\ memory' = [c \in Characters |-> IF c \in members THEN "rebuild" ELSE memory[c]]
  /\ owed' = [t \in Turns |-> IF t \in gone THEN Whole ELSE owed[t]]
  /\ UNCHANGED <<usage, today, purged, stops, chatVars, clear>>

\* Mutant of ArchiveConversation: a running reply does not stand in the way.
ArchiveWhileReplying(v) ==
  /\ UserLock
  /\ conv[v] = "active"
  /\ conv' = [conv EXCEPT ![v] = "archived"]
  /\ UNCHANGED <<log, row, usage, today, memoryVars, chatVars, clear>>

ArchiveConversation(v) ==
  /\ UserLock
  /\ conv[v] = "active"
  /\ ActiveIn(v) = {}
  /\ conv' = [conv EXCEPT ![v] = "archived"]
  /\ UNCHANGED <<log, row, usage, today, memoryVars, chatVars, clear>>

-----------------------------------------------------------------------------
\* clearCompanionMemory holds the user's lock but reads the active Turns
\* without locking their rows, so an admission can be confirmed in between.

ClearReads(c) ==
  LET homes  == {v \in HomesOf(c) : conv[v] # "deleted"}
      active == {t \in Turns : Home(t) \in homes /\ Active(t)} IN
  /\ UserLock
  /\ homes # {}
  /\ clear' = [character |-> c,
               homes     |-> homes,
               active    |-> active,
               admitted  |-> {t \in active : row[t].admitted}]
  /\ UNCHANGED <<ledgerVars, memoryVars, chatVars>>

ClearWrites ==
  LET c == clear.character IN
  /\ clear # NoClear
  /\ row' = [t \in Turns |->
               IF t \in clear.active
               THEN [Ended(t, "cancelled", "main_memory_clear") EXCEPT !.lease = NoWorker]
               ELSE row[t]]
  /\ usage' = [t \in Turns |->
                 IF t \in clear.active
                 THEN Settled(t, "cancelled", t \in clear.admitted) ELSE usage[t]]
  /\ stops' = stops \cup {<<t, row[t].attempt>> : t \in clear.active}
  /\ conv' = [v \in Conversations |-> IF v \in clear.homes THEN "archived" ELSE conv[v]]
  /\ memory' = [memory EXCEPT ![c] = "purge"]
  /\ owed' = [t \in Turns |-> IF Character(t) = c THEN 0 ELSE owed[t]]
  /\ clear' = NoClear
  /\ UNCHANGED <<log, today, purged, chatVars>>

-----------------------------------------------------------------------------
\* Outbox delivery of the destructive memory event: a rebuild delivers its
\* purge fences first; a relationship purge carries none.

SyncPurges(c) ==
  /\ memory[c] = "rebuild"
  /\ \E t \in Turns : Character(t) = c /\ owed[t] > 0
  /\ purged' = [t \in Turns |-> IF Character(t) = c /\ owed[t] > purged[t]
                                THEN owed[t] ELSE purged[t]]
  /\ owed' = [t \in Turns |-> IF Character(t) = c THEN 0 ELSE owed[t]]
  /\ UNCHANGED <<ledgerVars, memory, stops, chatVars, clear>>

MemoryEventDelivered(c) ==
  /\ memory[c] # "settled"
  /\ \A t \in Turns : Character(t) = c => owed[t] = 0
  /\ memory[c] = "rebuild" => UserLock
  /\ memory' = [memory EXCEPT ![c] = "settled"]
  /\ UNCHANGED <<ledgerVars, owed, purged, stops, chatVars, clear>>

MidnightPasses ==
  /\ today < LastDay
  /\ today' = today + 1
  /\ UNCHANGED <<conv, log, row, usage, memoryVars, chatVars, clear>>

-----------------------------------------------------------------------------
Next ==
  \/ \E t \in Turns :
       \/ BeginChatTurn(t) \/ BeginBlockedTurn(t)
       \/ RegenerateChatTurn(t) \/ EditChatTurn(t) \/ EditToBlocked(t)
       \/ CancelChatTurn(t) \/ FailStalledChatTurn(t) \/ DeleteChatMessage(t)
       \/ \E a \in Attempts, o \in ChatOutcomes : CommitChatTerminal(t, a, o)
  \/ \E w \in Workers :
       \/ \E t \in Turns : ClaimAdmission(w, t)
       \/ ConfirmAdmission(w) \/ ReleaseAdmission(w) \/ AbandonAdmission(w)
  \/ \E v \in Conversations : DeleteConversation(v) \/ ArchiveConversation(v)
  \/ \E c \in Characters : ClearReads(c) \/ SyncPurges(c) \/ MemoryEventDelivered(c)
  \/ ClearWrites
  \/ MidnightPasses

Spec == Init /\ [][Next]_vars

\* Fairness.  The dispatcher ticks for ever and takes over expired leases;
\* Chat answers some admission of a Turn that keeps being claimed; the reaper
\* scans every overdue reply and gets the row locks it queues for (Postgres
\* grants them first come, first served).  Nothing else is assumed: not that
\* Chat ever sends a terminal, nor that the user does anything.
ConfirmsFor(w, t) == job[w] # NoJob /\ job[w][1] = t /\ ConfirmAdmission(w)

FairSpec ==
  /\ Spec
  /\ \A t \in Turns : /\ WF_vars(\E w \in Workers : ClaimAdmission(w, t))
                      /\ SF_vars(\E w \in Workers : ConfirmsFor(w, t))
                      /\ SF_vars(FailStalledChatTurn(t))
  /\ \A w \in Workers : WF_vars(AbandonAdmission(w))
  /\ WF_vars(ClearWrites)

-----------------------------------------------------------------------------
\* Properties.

ClearRead == [character : Characters, homes : SUBSET Conversations,
              active : SUBSET Turns, admitted : SUBSET Turns]

RowsOK ==
  /\ row \in [Turns -> Row]
  /\ \A t \in Turns : row[t].attempt = 0 <=> row[t].status = "absent"

LedgerOK ==
  /\ conv \in [Conversations -> {"active", "archived", "deleted"}]
  /\ log \in [Conversations -> Seq(Turns)]
  /\ usage \in [Turns -> {"none", "held", "voided", "consumed"}]
  /\ today \in 1..LastDay

MemoryOK ==
  /\ memory \in [Characters -> {"settled", "rebuild", "purge"}]
  /\ owed \in [Turns -> Fences]
  /\ purged \in [Turns -> Fences]
  /\ stops \in SUBSET (Turns \X Attempts)

ChatOK ==
  /\ job \in [Workers -> (Turns \X Attempts) \cup {NoJob}]
  /\ posted \in SUBSET (Turns \X Attempts)
  /\ acked \in SUBSET (Turns \X Attempts \X Outcomes)

ClearOK == clear = NoClear \/ clear \in ClearRead

\* Every variable keeps its type, and a Turn has an attempt once it is made.
TypeOK == RowsOK /\ LedgerOK /\ MemoryOK /\ ChatOK /\ ClearOK

\* One conversation, private or group, never has two replies in the making,
\* whatever mix of sends, regenerations and edits raced for it
\* (beginChatTurn and reserveRevisedChatTurn, "A reply is already generating").
OneReplyPerConversation ==
  \A t, u \in Turns : Active(t) /\ Active(u) /\ Home(t) = Home(u) => t = u

\* Across all chats the user's own replies in the making stay within
\* MAX_ACTIVE_TURNS_PER_USER; proactive ones are not counted when sent
\* (assertUserReplyCapacity).
ReplyCapacity ==
  Cardinality({t \in Turns : OriginOf[t] = "user" /\ Active(t)}) <= MaxActiveTurns

\* What a Turn shows and what it costs agree: a running reply holds a slot, a
\* shown reply is paid for, and an attempt that ended without one holds
\* nothing open (reserveChatTurnUsage, settleChatTurnUsage).
UsageMatchesOutcome ==
  \A t \in Turns :
    /\ Active(t) => usage[t] \in {"held", "consumed"}
    /\ row[t].status = "sent" => usage[t] = "consumed"
    /\ row[t].status \in {"failed", "cancelled", "blocked", "deleted"} => usage[t] # "held"

\* On no product day do the user's own Turns that are running or paid for
\* exceed the free allowance, however failures, midnight and revisions of old
\* Turns are ordered (assertChatQuota).
QuotaHeld == \A d \in 1..LastDay : Used(d) <= DailyMessages

\* Stopping a reply that Chat already streams is not free: an admitted attempt
\* that ends cancelled is charged, unless a memory clear ended it.
StoppedDeliveryIsCharged ==
  \A t \in Turns : row[t].status = "cancelled" /\ row[t].admitted
                     /\ row[t].by # "main_memory_clear" => usage[t] = "consumed"

\* A terminal Main has acknowledged to Chat is the only one for its attempt and
\* stays what the user sees until a newer attempt or a deletion replaces it
\* (commitChatTerminal's compare-and-set against stop, reclaim and clear).
AckIsTruth ==
  \A x \in acked :
    /\ \A y \in acked : x[1] = y[1] /\ x[2] = y[2] => x = y
    /\ \/ row[x[1]].attempt > x[2]
       \/ row[x[1]].attempt = x[2] /\ row[x[1]].status \in {x[3], "deleted"}

\* An attempt Chat may have accepted is either still the live one, or Chat has
\* its terminal accepted, or a durable cancel event for it is on its way: no
\* run is left working for nobody (cancelChatTurn, failStalledChatTurn,
\* clearCompanionMemory).
SupersededRunIsFenced ==
  \A p \in posted :
    \/ row[p[1]].attempt = p[2] /\ Active(p[1])
    \/ \E o \in Outcomes : <<p[1], p[2], o>> \in acked
    \/ p \in stops

\* No fence reaches the attempt that is running: neither a cancel event nor a
\* purge fence, waiting or delivered, covers it (scheduleCompanionMemoryRebuild
\* fences the replaced attempts, "leaves the newer attempt legal").
FencesSpareTheLive ==
  \A t \in Turns :
    /\ Active(t) => <<t, row[t].attempt>> \notin stops
    /\ Exists(t) => owed[t] < row[t].attempt /\ purged[t] < row[t].attempt

\* Scene versions along a conversation count its sent replies, and a running
\* reply starts from the latest sent one (previousCommittedScene,
\* commitChatTerminal "must advance exactly once").
SceneChain ==
  \A v \in Conversations : \A i \in 1..Len(log[v]) :
    LET sent == {j \in 1..(i - 1) : row[log[v][j]].status = "sent"} IN
    /\ row[log[v][i]].status = "sent" => row[log[v][i]].scene = Cardinality(sent) + 1
    /\ Active(log[v][i]) => row[log[v][i]].scene = Cardinality(sent)

\* A conversation that is archived or deleted has no reply in the making: the
\* dispatcher would never admit it and it would never end (archiveChatSession).
ClosedConversationIsQuiet ==
  \A t \in Turns : Active(t) => conv[Home(t)] = "active"

\* Every reply in the making ends: it is shown, fails, is cancelled or cleared,
\* even if Chat never reports back (reclaimStalledChatAgentRuns).
EveryReplyEnds == \A t \in Turns : Active(t) ~> ~Active(t)

-----------------------------------------------------------------------------
\* What makes the safety properties inductive.

\* Between a memory clear's read and its write the user's lock keeps the Turns
\* it read active, and keeps others of those conversations from becoming so.
ClearWindow ==
  clear # NoClear =>
    \A t \in Turns : (t \in clear.active) <=> (Active(t) /\ Home(t) \in clear.homes)

\* Chat knows no attempt that was never made; a cancel names one that was.
AttemptsKnown ==
  /\ \A p \in posted : p[2] <= row[p[1]].attempt
  /\ \A x \in acked : x[2] <= row[x[1]].attempt
  /\ \A p \in stops : p[2] <= row[p[1]].attempt

\* Only a made Turn has a usage fact; a Turn whose reply was ever shown is paid.
UsageFollowsRow ==
  \A t \in Turns : /\ row[t].status = "absent" => usage[t] = "none"
                   /\ row[t].counted => usage[t] = "consumed"

\* No fence was ever set for a Turn not yet made.
FencesFollowRow ==
  \A t \in Turns : row[t].status = "absent" => owed[t] = 0 /\ purged[t] = 0

Inductive ==
  /\ TypeOK /\ ClearWindow /\ AttemptsKnown /\ UsageFollowsRow
  /\ OneReplyPerConversation /\ ClosedConversationIsQuiet
  /\ UsageMatchesOutcome /\ AckIsTruth /\ SupersededRunIsFenced

-----------------------------------------------------------------------------
\* What the ledger promises at a distance: one reply slot per conversation.

SlotOf(v) == IF ActiveIn(v) = {} THEN <<>>
             ELSE LET t == CHOOSE u \in ActiveIn(v) : TRUE
                  IN  <<t, row[t].attempt>>

Slots == INSTANCE ReplySlots WITH
           slot <- [v \in Conversations |-> SlotOf(v)],
           last <- [t \in Turns |-> row[t].attempt]

ImplementsReplySlots == Slots!Spec

\* What Chat sees of the ledger: attempts that run, end, stop and disappear.
Shown(t) == CASE Active(t) -> "active"
              [] row[t].status = "absent" -> "none"
              [] row[t].status = "deleted" -> "deleted"
              [] OTHER -> "ended"

AtMain == INSTANCE MainTurns WITH
            Terminals <- Outcomes,
            attempt <- [t \in Turns |-> row[t].attempt],
            state <- [t \in Turns |-> Shown(t)]

ImplementsMainTurns == AtMain!Spec

-----------------------------------------------------------------------------
\* Statements of the documents that the code does not keep.

\* turn-ledger.ts, settleChatTurnUsage: "cancelled: voided only while the
\* attempt was never admitted to Chat (`admittedAt` null)".
CancelledAdmittedIsCharged ==
  \A t \in Turns : row[t].status = "cancelled" /\ row[t].admitted => usage[t] = "consumed"

\* companion-memory-authority.ts: "every destructive mutation carries its own
\* exact purge fence": a deleted Turn whose run Chat may hold has its fence in
\* the outbox or at Chat.
DeletedTurnIsPurged ==
  \A p \in posted : row[p[1]].status = "deleted" =>
    owed[p[1]] = Whole \/ purged[p[1]] = Whole
=============================================================================
