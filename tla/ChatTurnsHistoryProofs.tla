---------------------- MODULE ChatTurnsHistoryProofs ----------------------
(***************************************************************************)
(* What the Turn ledger allows along a history: the quotas, the Scene      *)
(* chain of a conversation, the price of a stopped reply, and that the     *)
(* ledger implements ReplySlots and MainTurns.  Every step has one of four *)
(* shapes (StepShapes); each result is proved shape by shape.              *)
(***************************************************************************)
EXTENDS ChatTurnsProofs

USE ChatTurnsAssumption

-----------------------------------------------------------------------------
\* The four things a step may do to the rows.

\* No reply starts or ends: the dispatcher, the outbox, midnight, archiving.
Waits ==
  /\ \A u \in Turns :
       \/ row'[u] = row[u]
       \/ /\ Active(u) /\ row'[u].status \in ActiveAssistantStates
          /\ row'[u].attempt = row[u].attempt
          /\ row'[u].scene = row[u].scene /\ row'[u].day = row[u].day
  /\ UNCHANGED <<log, usage, acked, stops>>
  /\ \/ posted' = posted
     \/ \E t \in Turns : Active(t) /\ posted' = posted \cup {<<t, row[t].attempt>>}

\* The next attempt of an idle Turn: a new Turn's first, or the latest Turn's
\* revision; blocked ones never run and reserve nothing.
Starts(t, blocked, day) ==
  /\ ~Active(t) /\ row[t].status # "deleted" /\ row[t].attempt < MaxAttempt
  /\ row' = [row EXCEPT ![t] = FreshAttempt(t, blocked, row[t].attempt + 1,
                                            CommittedScene(Home(t), t), day)]
  /\ \/ /\ row[t].status = "absent"
        /\ log' = [log EXCEPT ![Home(t)] = Append(@, t)]
     \/ Latest(t) /\ log' = log /\ day = row[t].day
  /\ \/ blocked /\ usage' = usage
     \/ /\ ~blocked /\ ActiveIn(Home(t)) = {} /\ CanReserve(t, day)
        /\ OriginOf[t] = "proactive" \/ HasReplyCapacity
        /\ usage' = [usage EXCEPT ![t] = Reserved(@)]
  /\ UNCHANGED <<posted, acked, stops>>

\* Running replies end, one by Chat's terminal, Stop or the reaper, several by
\* a memory clear.
Ends(E) ==
  /\ \A u \in E :
       /\ Active(u) /\ row'[u].status \in Outcomes
       /\ row'[u].attempt = row[u].attempt /\ row'[u].day = row[u].day
       /\ row'[u].status = "sent" => row'[u].scene = row[u].scene + 1
       /\ usage'[u] \in {"voided", "consumed"}
       /\ row'[u].status = "cancelled" /\ row'[u].admitted
            /\ row'[u].by # "main_memory_clear" => usage'[u] = "consumed"
  /\ \A u \in Turns : u \notin E => row'[u] = row[u] /\ usage'[u] = usage[u]
  /\ UNCHANGED <<log, posted>>
  /\ \/ stops' = stops \cup {<<u, row[u].attempt>> : u \in E} /\ acked' = acked
     \/ /\ stops' = stops
        /\ \E t \in Turns, o \in Outcomes :
             /\ E = {t} /\ <<t, row[t].attempt>> \in posted
             /\ acked' = acked \cup {<<t, row[t].attempt, o>>}

\* Idle Turns are deleted: the latest of a conversation, or all of it.
Deletes(S) ==
  /\ \A u \in S : Exists(u) /\ ~Active(u) /\ row'[u] = DeletedRow(u)
  /\ \A u \in Turns : u \notin S => row'[u] = row[u]
  /\ \A v \in Conversations :
       \/ log'[v] = log[v] /\ \A u \in S : Home(u) # v
       \/ log'[v] = <<>>
       \/ /\ log[v] # <<>> /\ S = {log[v][Len(log[v])]}
          /\ log'[v] = SubSeq(log[v], 1, Len(log[v]) - 1)
  /\ UNCHANGED <<usage, posted, acked, stops>>

-----------------------------------------------------------------------------
LEMMA DispatcherWaits ==
  ASSUME Inductive, NEW w \in Workers,
         \/ \E t \in Turns : ClaimAdmission(w, t)
         \/ ConfirmAdmission(w) \/ ReleaseAdmission(w) \/ AbandonAdmission(w)
  PROVE  Waits
<1>1. row \in [Turns -> Row] /\ \A x \in Workers : job[x] # NoJob => job[x][1] \in Turns
  BY DEF Inductive, TypeOK, RowsOK, ChatOK
<1>2. UNCHANGED <<log, usage, acked, stops>>
  BY DEF ClaimAdmission, ConfirmAdmission, ReleaseAdmission, AbandonAdmission, memoryVars, ledgerVars
<1>3. \/ row' = row
      \/ \E t \in Turns : /\ row[t].status = "pending"
                          /\ \/ \E x \in Workers \cup {NoWorker} : row' = [row EXCEPT ![t] = Leased(t, x)]
                             \/ row' = [row EXCEPT ![t] = Generating(t)]
  BY <1>1 DEF ClaimAdmission, ConfirmAdmission, ReleaseAdmission, AbandonAdmission, HoldsLease, ledgerVars
<1>4. ASSUME NEW t \in Turns, row[t].status = "pending", NEW r, row' = [row EXCEPT ![t] = r],
             r.status \in ActiveAssistantStates, r.attempt = row[t].attempt,
             r.scene = row[t].scene, r.day = row[t].day, NEW u \in Turns
      PROVE  \/ row'[u] = row[u]
             \/ /\ Active(u) /\ row'[u].status \in ActiveAssistantStates
                /\ row'[u].attempt = row[u].attempt
                /\ row'[u].scene = row[u].scene /\ row'[u].day = row[u].day
  BY <1>1, <1>4 DEF Active, ActiveAssistantStates
<1>5. ASSUME NEW t \in Turns, row[t].status = "pending", NEW r,
             \/ \E x \in Workers \cup {NoWorker} : r = Leased(t, x)
             \/ r = Generating(t)
      PROVE  /\ r.status \in ActiveAssistantStates /\ r.attempt = row[t].attempt
             /\ r.scene = row[t].scene /\ r.day = row[t].day
  <2>1. row[t] \in Row
    BY <1>1
  <2> QED BY <1>5, <2>1 DEF Row, Leased, Generating, ActiveAssistantStates
<1>6. \A u \in Turns :
       \/ row'[u] = row[u]
       \/ /\ Active(u) /\ row'[u].status \in ActiveAssistantStates
          /\ row'[u].attempt = row[u].attempt
          /\ row'[u].scene = row[u].scene /\ row'[u].day = row[u].day
  <2>1. CASE row' = row
    BY <2>1
  <2>2. CASE row' # row
    <3>1. PICK t \in Turns :
            /\ row[t].status = "pending"
            /\ \/ \E x \in Workers \cup {NoWorker} : row' = [row EXCEPT ![t] = Leased(t, x)]
               \/ row' = [row EXCEPT ![t] = Generating(t)]
      BY <1>3, <2>2
    <3>2. PICK r : /\ row' = [row EXCEPT ![t] = r]
                   /\ \/ \E x \in Workers \cup {NoWorker} : r = Leased(t, x)
                      \/ r = Generating(t)
      BY <3>1
    <3>3. /\ r.status \in ActiveAssistantStates /\ r.attempt = row[t].attempt
          /\ r.scene = row[t].scene /\ r.day = row[t].day
      BY <1>5, <3>1, <3>2
    <3> QED BY <1>4, <3>1, <3>2, <3>3
  <2> QED BY <2>1, <2>2
<1>7. posted' = posted \/ \E t \in Turns : Active(t) /\ posted' = posted \cup {<<t, row[t].attempt>>}
  BY DEF ClaimAdmission, ConfirmAdmission, ReleaseAdmission, AbandonAdmission, Active, ActiveAssistantStates
<1> QED BY <1>2, <1>6, <1>7 DEF Waits

LEMMA BeginStarts ==
  ASSUME Inductive, NEW t \in Turns, BeginChatTurn(t) \/ BeginBlockedTurn(t)
  PROVE  Starts(t, FALSE, today) \/ Starts(t, TRUE, today)
<1>1. row[t].status = "absent" /\ row[t].attempt = 0 /\ 0 < MaxAttempt /\ 0 + 1 = 1
  <2>1. row[t].status = "absent"
    BY DEF BeginChatTurn, BeginBlockedTurn
  <2>2. row[t].attempt = 0
    BY <2>1 DEF Inductive, TypeOK, RowsOK
  <2> QED BY <2>1, <2>2
<1>2. ~Active(t) /\ row[t].status # "deleted"
  BY <1>1 DEF Active, ActiveAssistantStates
<1> QED BY <1>1, <1>2 DEF BeginChatTurn, BeginBlockedTurn, Starts, memoryVars, chatVars

LEMMA ReviseStarts ==
  ASSUME Inductive, NEW t \in Turns, Revise(t) \/ EditToBlocked(t)
  PROVE  Starts(t, FALSE, row[t].day) \/ Starts(t, TRUE, row[t].day)
<1>1. ~Active(t) /\ Latest(t) /\ row[t].attempt < MaxAttempt /\ row[t].status # "deleted"
  BY DEF Revise, EditToBlocked, CanRevise, Latest, Exists
<1>2. row \in [Turns -> Row]
  BY DEF Inductive, TypeOK, RowsOK
<1>3. stops' = stops /\ log' = log /\ posted' = posted /\ acked' = acked
  BY DEF Revise, EditToBlocked, ScheduleRebuild, chatVars
<1>4. CASE Revise(t)
  <2>1. ActiveIn(Home(t)) = {}
    BY <1>1, <1>4 DEF Revise, ActiveIn
  <2>2. row' = [row EXCEPT ![t] = FreshAttempt(t, FALSE, row[t].attempt + 1,
                                            CommittedScene(Home(t), t), row[t].day)]
    BY <1>2, <1>4 DEF Revise
  <2>3. /\ CanReserve(t, row[t].day) /\ HasReplyCapacity
        /\ usage' = [usage EXCEPT ![t] = Reserved(@)]
    BY <1>4 DEF Revise
  <2> QED BY <1>1, <1>3, <2>1, <2>2, <2>3 DEF Starts
<1>5. CASE EditToBlocked(t)
  <2>1. row' = [row EXCEPT ![t] = FreshAttempt(t, TRUE, row[t].attempt + 1,
                                            CommittedScene(Home(t), t), row[t].day)]
    BY <1>2, <1>5 DEF EditToBlocked
  <2>2. usage' = usage
    BY <1>5 DEF EditToBlocked
  <2> QED BY <1>1, <1>3, <2>1, <2>2 DEF Starts
<1> QED BY <1>4, <1>5

\* What one settling transaction leaves of a running Turn's row.
LEMMA RowEnds ==
  ASSUME Inductive, NEW t \in Turns, NEW o \in Outcomes, NEW b
  PROVE  /\ Ended(t, o, b).status = o /\ Ended(t, o, b).attempt = row[t].attempt
         /\ Ended(t, o, b).day = row[t].day /\ Ended(t, o, b).admitted = row[t].admitted
         /\ Selected(t).status = "sent" /\ Selected(t).attempt = row[t].attempt
         /\ Selected(t).day = row[t].day /\ Selected(t).scene = row[t].scene + 1
<1>1. row[t] \in Row
  BY DEF Inductive, TypeOK, RowsOK
<1> QED BY <1>1 DEF Row, Ended, Selected

\* ... and what the Turn then costs.
LEMMA PriceEnds ==
  ASSUME Inductive, NEW t \in Turns, Active(t), NEW o \in Outcomes, NEW admitted \in BOOLEAN
  PROVE  /\ Settled(t, o, admitted) \in {"voided", "consumed"}
         /\ o = "cancelled" /\ admitted => Settled(t, o, admitted) = "consumed"
<1>1. usage[t] \in {"held", "consumed"}
  BY DEF Inductive, UsageMatchesOutcome
<1> QED BY <1>1 DEF Settled

LEMMA OneEnds ==
  ASSUME Inductive, NEW t \in Turns,
         \/ \E a \in Attempts, o \in ChatOutcomes : CommitChatTerminal(t, a, o)
         \/ CancelChatTurn(t) \/ FailStalledChatTurn(t)
  PROVE  Ends({t})
<1>1. row \in [Turns -> Row] /\ usage \in [Turns -> {"none", "held", "voided", "consumed"}]
  BY DEF Inductive, TypeOK, RowsOK, LedgerOK
<1>2. Active(t) /\ UNCHANGED <<log, posted>> /\ row[t].admitted \in BOOLEAN
  BY <1>1 DEF CommitChatTerminal, CancelChatTurn, FailStalledChatTurn, Active,
         ActiveAssistantStates, chatVars, Row
<1>3. ASSUME NEW o \in Outcomes, NEW b \in Authorities, NEW r,
             \/ r = Ended(t, o, b) /\ b # "main_memory_clear" /\ o # "sent"
             \/ r = Selected(t) /\ o = "sent",
             row' = [row EXCEPT ![t] = r],
             usage' = [usage EXCEPT ![t] = Settled(t, o, row[t].admitted)],
             \/ stops' = stops \cup {<<t, row[t].attempt>>} /\ acked' = acked
             \/ /\ stops' = stops /\ acked' = acked \cup {<<t, row[t].attempt, o>>}
                /\ <<t, row[t].attempt>> \in posted
      PROVE  Ends({t})
  <2>1. /\ row'[t] = r /\ usage'[t] = Settled(t, o, row[t].admitted)
        /\ \A u \in Turns : u # t => row'[u] = row[u] /\ usage'[u] = usage[u]
    BY <1>1, <1>3
  <2>2. /\ r.status = o /\ r.attempt = row[t].attempt /\ r.day = row[t].day
        /\ o = "sent" => r.scene = row[t].scene + 1
        /\ o # "sent" => r.admitted = row[t].admitted
    <3>1. /\ Ended(t, o, b).status = o /\ Ended(t, o, b).attempt = row[t].attempt
          /\ Ended(t, o, b).day = row[t].day /\ Ended(t, o, b).admitted = row[t].admitted
          /\ Selected(t).status = "sent" /\ Selected(t).attempt = row[t].attempt
          /\ Selected(t).day = row[t].day /\ Selected(t).scene = row[t].scene + 1
      BY RowEnds
    <3> QED BY <1>3, <3>1
  <2>3. Settled(t, o, row[t].admitted) \in {"voided", "consumed"}
    BY <1>2, PriceEnds
  <2>4. o = "cancelled" /\ r.admitted => Settled(t, o, row[t].admitted) = "consumed"
    <3> SUFFICES ASSUME o = "cancelled", r.admitted
                 PROVE  Settled(t, o, row[t].admitted) = "consumed"
      OBVIOUS
    <3>1. row[t].admitted = TRUE
      BY <1>2, <2>2
    <3>2. row[t].admitted => Settled(t, o, row[t].admitted) = "consumed"
      BY <1>2, PriceEnds
    <3> QED BY <3>1, <3>2
  <2>5. {<<u, row[u].attempt>> : u \in {t}} = {<<t, row[t].attempt>>}
    OBVIOUS
  <2>6. \/ stops' = stops \cup {<<u, row[u].attempt>> : u \in {t}} /\ acked' = acked
        \/ /\ stops' = stops
           /\ \E u \in Turns, x \in Outcomes :
                /\ {t} = {u} /\ <<u, row[u].attempt>> \in posted
                /\ acked' = acked \cup {<<u, row[u].attempt, x>>}
    BY <1>3, <2>5
  <2>7. /\ row'[t].status = o /\ row'[t].attempt = row[t].attempt /\ row'[t].day = row[t].day
        /\ row'[t].status = "sent" => row'[t].scene = row[t].scene + 1
        /\ usage'[t] \in {"voided", "consumed"}
        /\ row'[t].status = "cancelled" /\ row'[t].admitted => usage'[t] = "consumed"
    BY <2>1, <2>2, <2>3, <2>4
  <2>8. \A u \in {t} :
          /\ Active(u) /\ row'[u].status \in Outcomes
          /\ row'[u].attempt = row[u].attempt /\ row'[u].day = row[u].day
          /\ row'[u].status = "sent" => row'[u].scene = row[u].scene + 1
          /\ usage'[u] \in {"voided", "consumed"}
          /\ row'[u].status = "cancelled" /\ row'[u].admitted
               /\ row'[u].by # "main_memory_clear" => usage'[u] = "consumed"
    BY <1>2, <2>7
  <2>9. \A u \in Turns : u \notin {t} => row'[u] = row[u] /\ usage'[u] = usage[u]
    BY <2>1
  <2> QED BY <1>2, <2>6, <2>8, <2>9 DEF Ends
<1>4. ASSUME NEW a \in Attempts, NEW o \in ChatOutcomes, CommitChatTerminal(t, a, o)
      PROVE  Ends({t})
  <2> DEFINE r == IF o = "sent" THEN Selected(t) ELSE Ended(t, o, "chat")
  <2>1. /\ o \in Outcomes /\ "chat" \in Authorities
        /\ row' = [row EXCEPT ![t] = r]
        /\ usage' = [usage EXCEPT ![t] = Settled(t, o, row[t].admitted)]
        /\ stops' = stops /\ acked' = acked \cup {<<t, row[t].attempt, o>>}
        /\ <<t, row[t].attempt>> \in posted
    BY <1>4 DEF CommitChatTerminal, memoryVars, Outcomes, Authorities
  <2>2. \/ r = Ended(t, o, "chat") /\ "chat" # "main_memory_clear" /\ o # "sent"
        \/ r = Selected(t) /\ o = "sent"
    OBVIOUS
  <2> HIDE DEF r
  <2> QED BY <1>3, <2>1, <2>2
<1>5. CASE CancelChatTurn(t)
  <2>1. /\ "cancelled" \in Outcomes /\ "main_user_cancel" \in Authorities
        /\ row' = [row EXCEPT ![t] = Ended(t, "cancelled", "main_user_cancel")]
        /\ usage' = [usage EXCEPT ![t] = Settled(t, "cancelled", row[t].admitted)]
        /\ stops' = stops \cup {<<t, row[t].attempt>>} /\ acked' = acked
    BY <1>5 DEF CancelChatTurn, chatVars, Outcomes, Authorities
  <2> QED BY <1>3, <2>1
<1>6. CASE FailStalledChatTurn(t)
  <2>1. /\ "failed" \in Outcomes /\ "main_stalled_attempt_reclaim" \in Authorities
        /\ row' = [row EXCEPT ![t] = Ended(t, "failed", "main_stalled_attempt_reclaim")]
        /\ usage' = [usage EXCEPT ![t] = Settled(t, "failed", row[t].admitted)]
        /\ stops' = stops \cup {<<t, row[t].attempt>>} /\ acked' = acked
    BY <1>6 DEF FailStalledChatTurn, chatVars, Outcomes, Authorities
  <2> QED BY <1>3, <2>1
<1> QED BY <1>4, <1>5, <1>6

LEMMA ClearEnds ==
  ASSUME Inductive, ClearWrites
  PROVE  \E E \in SUBSET Turns : Ends(E)
<1> DEFINE E == clear.active
<1>1. clear # NoClear /\ clear \in ClearRead /\ row \in [Turns -> Row]
  BY DEF ClearWrites, Inductive, TypeOK, ClearOK, RowsOK
<1>2. E \in SUBSET Turns /\ \A u \in E : Active(u)
  BY <1>1 DEF ClearRead, Inductive, ClearWindow
<1>3. ASSUME NEW u \in E
      PROVE  /\ row'[u].status = "cancelled" /\ row'[u].by = "main_memory_clear"
             /\ row'[u].attempt = row[u].attempt /\ row'[u].day = row[u].day
             /\ usage'[u] \in {"voided", "consumed"}
  <2>1. /\ row'[u] = [Ended(u, "cancelled", "main_memory_clear") EXCEPT !.lease = NoWorker]
        /\ usage'[u] = Settled(u, "cancelled", u \in clear.admitted)
    BY <1>2 DEF ClearWrites
  <2>2. row[u] \in Row
    BY <1>1, <1>2
  <2>3. /\ row'[u].status = "cancelled" /\ row'[u].by = "main_memory_clear"
        /\ row'[u].attempt = row[u].attempt /\ row'[u].day = row[u].day
    BY <2>1, <2>2 DEF Ended, Row
  <2>4. usage'[u] \in {"voided", "consumed"}
    <3>1. usage[u] \in {"held", "consumed"}
      BY <1>2 DEF Inductive, UsageMatchesOutcome
    <3> QED BY <1>2, <2>1, <3>1, SettledHeld
  <2> QED BY <2>3, <2>4
<1>4. /\ stops' = stops \cup {<<u, row[u].attempt>> : u \in E} /\ acked' = acked
      /\ \A u \in Turns : u \notin E => row'[u] = row[u] /\ usage'[u] = usage[u]
      /\ UNCHANGED <<log, posted>>
  BY DEF ClearWrites, chatVars
<1> HIDE DEF E
<1>5. Ends(E)
  BY <1>2, <1>3, <1>4 DEF Ends, Outcomes
<1> QED BY <1>2, <1>5

LEMMA MessageDeletes ==
  ASSUME Inductive, NEW t \in Turns, DeleteChatMessage(t)
  PROVE  Deletes({t})
<1>1. /\ row \in [Turns -> Row] /\ log \in [Conversations -> Seq(Turns)]
      /\ Home(t) \in Conversations
  BY HomeType DEF Inductive, TypeOK, RowsOK, LedgerOK
<1>2. /\ Exists(t) /\ ~Active(t) /\ log[Home(t)] # <<>>
      /\ t = log[Home(t)][Len(log[Home(t)])]
  BY DEF DeleteChatMessage, Latest
<1>3. row'[t] = DeletedRow(t) /\ \A u \in Turns : u # t => row'[u] = row[u]
  BY <1>1 DEF DeleteChatMessage
<1>4. /\ log'[Home(t)] = SubSeq(log[Home(t)], 1, Len(log[Home(t)]) - 1)
      /\ \A v \in Conversations : v # Home(t) => log'[v] = log[v]
  BY <1>1 DEF DeleteChatMessage
<1>5. UNCHANGED <<usage, posted, acked, stops>>
  BY DEF DeleteChatMessage, ScheduleRebuild, chatVars
<1>6. \A v \in Conversations :
       \/ log'[v] = log[v] /\ \A u \in {t} : Home(u) # v
       \/ /\ log[v] # <<>> /\ {t} = {log[v][Len(log[v])]}
          /\ log'[v] = SubSeq(log[v], 1, Len(log[v]) - 1)
  BY <1>2, <1>4
<1> QED BY <1>2, <1>3, <1>5, <1>6 DEF Deletes

LEMMA ConversationDeletes ==
  ASSUME Inductive, NEW v \in Conversations, DeleteConversation(v)
  PROVE  \E S \in SUBSET Turns : Deletes(S)
<1> DEFINE S == {t \in Turns : Home(t) = v /\ Exists(t)}
<1>1. /\ row' = [t \in Turns |-> IF t \in S THEN DeletedRow(t) ELSE row[t]]
      /\ log' = [log EXCEPT ![v] = <<>>] /\ ActiveIn(v) = {}
      /\ UNCHANGED <<usage, posted, acked, stops>>
  BY DEF DeleteConversation, chatVars
<1>2. S \in SUBSET Turns /\ \A u \in S : Exists(u) /\ ~Active(u) /\ Home(u) = v
  BY <1>1 DEF ActiveIn
<1>3. log \in [Conversations -> Seq(Turns)]
  BY DEF Inductive, TypeOK, LedgerOK
<1>4. log'[v] = <<>> /\ \A x \in Conversations : x # v => log'[x] = log[x]
  BY <1>1, <1>3
<1> HIDE DEF S
<1>5. Deletes(S)
  BY <1>1, <1>2, <1>4 DEF Deletes
<1> QED BY <1>2, <1>5

\* Every step of the ledger has one of the four shapes.
LEMMA StepShapes ==
  ASSUME Inductive, [Next]_vars
  PROVE  \/ Waits
         \/ \E t \in Turns, b \in BOOLEAN, d \in 1..LastDay : Starts(t, b, d)
         \/ \E E \in SUBSET Turns : Ends(E)
         \/ \E S \in SUBSET Turns : Deletes(S)
<1>1. today \in 1..LastDay /\ \A t \in Turns : row[t].day \in 1..LastDay
  BY RowFields DEF Inductive, TypeOK, LedgerOK
<1>2. ASSUME row' = row, UNCHANGED <<log, usage, acked, stops, posted>> PROVE Waits
  BY <1>2 DEF Waits
<1>3. CASE UNCHANGED vars
  BY <1>2, <1>3 DEF vars, ledgerVars, memoryVars, chatVars
<1>4. ASSUME NEW t \in Turns, BeginChatTurn(t) \/ BeginBlockedTurn(t)
      PROVE  \E b \in BOOLEAN, d \in 1..LastDay : Starts(t, b, d)
  BY <1>1, <1>4, BeginStarts
<1>5. ASSUME NEW t \in Turns, RegenerateChatTurn(t) \/ EditChatTurn(t) \/ EditToBlocked(t)
      PROVE  \E b \in BOOLEAN, d \in 1..LastDay : Starts(t, b, d)
  <2>1. Starts(t, FALSE, row[t].day) \/ Starts(t, TRUE, row[t].day)
    BY <1>5, ReviseStarts DEF RegenerateChatTurn, EditChatTurn
  <2> QED BY <1>1, <2>1
<1>6. ASSUME NEW t \in Turns,
             \/ \E a \in Attempts, o \in ChatOutcomes : CommitChatTerminal(t, a, o)
             \/ CancelChatTurn(t) \/ FailStalledChatTurn(t)
      PROVE  \E E \in SUBSET Turns : Ends(E)
  <2>1. Ends({t}) /\ {t} \in SUBSET Turns
    BY <1>6, OneEnds
  <2> QED BY <2>1
<1>7. ASSUME NEW t \in Turns, DeleteChatMessage(t)
      PROVE  \E S \in SUBSET Turns : Deletes(S)
  <2>1. Deletes({t}) /\ {t} \in SUBSET Turns
    BY <1>7, MessageDeletes
  <2> QED BY <2>1
<1>8. ASSUME NEW w \in Workers,
             \/ \E t \in Turns : ClaimAdmission(w, t)
             \/ ConfirmAdmission(w) \/ ReleaseAdmission(w) \/ AbandonAdmission(w)
      PROVE  Waits
  BY <1>8, DispatcherWaits
<1>9. ASSUME NEW v \in Conversations, ArchiveConversation(v) PROVE Waits
  BY <1>2, <1>9 DEF ArchiveConversation, memoryVars, chatVars
<1>10. ASSUME NEW c \in Characters, ClearReads(c) \/ SyncPurges(c) \/ MemoryEventDelivered(c)
       PROVE  Waits
  BY <1>2, <1>10 DEF ClearReads, SyncPurges, MemoryEventDelivered, ledgerVars, memoryVars, chatVars
<1>11. CASE MidnightPasses
  BY <1>2, <1>11 DEF MidnightPasses, memoryVars, chatVars
<1>12. CASE ClearWrites
  BY <1>12, ClearEnds
<1>13. CASE \E v \in Conversations : DeleteConversation(v)
  BY <1>13, ConversationDeletes
<1> QED BY <1>3, <1>4, <1>5, <1>6, <1>7, <1>8, <1>9, <1>10, <1>11, <1>12, <1>13 DEF Next

-----------------------------------------------------------------------------
\* The row and the status a new attempt starts from.
LEMMA FreshRow ==
  ASSUME Inductive, NEW t \in Turns, NEW b \in BOOLEAN, NEW d \in 1..LastDay, Starts(t, b, d)
  PROVE  /\ row'[t].attempt = row[t].attempt + 1 /\ row'[t].day = d
         /\ row'[t].scene = CommittedScene(Home(t), t)
         /\ row'[t].status = (IF b THEN "blocked" ELSE "pending")
         /\ \A u \in Turns : u # t => row'[u] = row[u]
         /\ Active(t)' <=> ~b
         /\ \A u \in Turns : u # t => (Active(u)' <=> Active(u))
<1> DEFINE r == FreshAttempt(t, b, row[t].attempt + 1, CommittedScene(Home(t), t), d)
<1>1. row \in [Turns -> Row] /\ row' = [row EXCEPT ![t] = r]
  BY DEF Inductive, TypeOK, RowsOK, Starts
<1>2. /\ r.attempt = row[t].attempt + 1 /\ r.day = d /\ r.scene = CommittedScene(Home(t), t)
      /\ r.status = (IF b THEN "blocked" ELSE "pending")
  BY DEF FreshAttempt
<1> HIDE DEF r
<1>3. row'[t] = r /\ \A u \in Turns : u # t => row'[u] = row[u]
  BY <1>1
<1> QED BY <1>2, <1>3 DEF Active, ActiveAssistantStates

\* What stays the same for a running reply when nothing starts or ends.
LEMMA WaitingRow ==
  ASSUME Waits, NEW u \in Turns
  PROVE  /\ row'[u].attempt = row[u].attempt /\ row'[u].scene = row[u].scene
         /\ row'[u].day = row[u].day /\ (Active(u)' <=> Active(u))
         /\ ~Active(u) => row'[u] = row[u]
         /\ \A x \in {"absent", "deleted", "sent"} : row'[u].status = x <=> row[u].status = x
<1>1. CASE row'[u] = row[u]
  BY <1>1 DEF Active
<1>2. CASE row'[u] # row[u]
  BY <1>2 DEF Waits, Active, ActiveAssistantStates
<1> QED BY <1>1, <1>2

\* A deletion leaves nothing running.
LEMMA DeletedRows ==
  ASSUME NEW S \in SUBSET Turns, Deletes(S), NEW u \in Turns
  PROVE  /\ row'[u].attempt = row[u].attempt /\ row'[u].day = row[u].day
         /\ Active(u)' <=> Active(u)
         /\ row'[u].status = "cancelled" => row'[u] = row[u]
         /\ u \in S => row'[u].status = "deleted" /\ Exists(u) /\ ~Active(u)
<1>1. CASE u \in S
  <2>1. row'[u] = DeletedRow(u) /\ ~Active(u) /\ Exists(u)
    BY <1>1 DEF Deletes
  <2> QED BY <1>1, <2>1 DEF DeletedRow, NoRow, Active, ActiveAssistantStates
<1>2. CASE u \notin S
  <2>1. row'[u] = row[u]
    BY <1>2 DEF Deletes
  <2> QED BY <1>2, <2>1 DEF Active
<1> QED BY <1>1, <1>2

\* Who is running after replies ended.
LEMMA EndedRows ==
  ASSUME NEW E \in SUBSET Turns, Ends(E), NEW u \in Turns
  PROVE  /\ row'[u].attempt = row[u].attempt /\ row'[u].day = row[u].day
         /\ Active(u)' <=> Active(u) /\ u \notin E
         /\ u \in E => Active(u) /\ row'[u].status \in Outcomes
         /\ u \notin E => row'[u] = row[u] /\ usage'[u] = usage[u]
<1>1. CASE u \in E
  BY <1>1 DEF Ends, Active, ActiveAssistantStates, Outcomes
<1>2. CASE u \notin E
  BY <1>2 DEF Ends, Active
<1> QED BY <1>1, <1>2

-----------------------------------------------------------------------------
\* The price of a stopped reply.

LEMMA ChargedNext ==
  ASSUME Inductive, StoppedDeliveryIsCharged, [Next]_vars
  PROVE  StoppedDeliveryIsCharged'
<1> SUFFICES ASSUME NEW u \in Turns, row'[u].status = "cancelled", row'[u].admitted,
                    row'[u].by # "main_memory_clear"
             PROVE  usage'[u] = "consumed"
  BY DEF StoppedDeliveryIsCharged
<1>1. ASSUME row'[u] = row[u], usage'[u] = usage[u] PROVE usage'[u] = "consumed"
  BY <1>1 DEF StoppedDeliveryIsCharged
<1>2. CASE Waits
  <2>1. ~Active(u)' /\ usage' = usage
    BY <1>2 DEF Active, ActiveAssistantStates, Waits
  <2> QED BY <1>1, <1>2, <2>1, WaitingRow
<1>3. ASSUME NEW t \in Turns, NEW b \in BOOLEAN, NEW d \in 1..LastDay, Starts(t, b, d)
      PROVE  usage'[u] = "consumed"
  <2>1. u # t /\ row'[u] = row[u]
    BY <1>3, FreshRow
  <2>2. usage'[u] = usage[u]
    BY <1>3, <2>1 DEF Starts, Inductive, TypeOK, LedgerOK
  <2> QED BY <1>1, <2>1, <2>2
<1>4. ASSUME NEW E \in SUBSET Turns, Ends(E) PROVE usage'[u] = "consumed"
  <2>1. CASE u \in E
    BY <1>4, <2>1 DEF Ends
  <2>2. CASE u \notin E
    BY <1>1, <1>4, <2>2 DEF Ends
  <2> QED BY <2>1, <2>2
<1>5. ASSUME NEW S \in SUBSET Turns, Deletes(S) PROVE usage'[u] = "consumed"
  <2>1. row'[u] = row[u] /\ usage' = usage
    BY <1>5, DeletedRows DEF Deletes
  <2> QED BY <1>1, <2>1
<1> QED BY <1>2, <1>3, <1>4, <1>5, StepShapes

\* A reply that Chat already streams is paid for when the user stops it or it
\* is reported cancelled; only a memory clear may end it free of charge
\* (settleChatTurnUsage, cancelChatTurn).
THEOREM StoppedIsCharged == Spec => []StoppedDeliveryIsCharged
<1>1. Init => StoppedDeliveryIsCharged
  BY DEF Init, NoRow, StoppedDeliveryIsCharged
<1>2. Inductive /\ StoppedDeliveryIsCharged /\ [Next]_vars => StoppedDeliveryIsCharged'
  BY ChargedNext
<1> QED BY <1>1, <1>2, LedgerInvariant, PTL DEF Spec

-----------------------------------------------------------------------------
\* How many replies a user has in the making.

UserReplies == {t \in Turns : OriginOf[t] = "user" /\ Active(t)}

\* Turns are finite in number, so a subset of them has a size, and one more
\* Turn makes it at most one larger.
LEMMA TurnSets ==
  /\ \A S \in SUBSET Turns : IsFiniteSet(S) /\ Cardinality(S) \in Nat
  /\ \A S, T \in SUBSET Turns : S \subseteq T => Cardinality(S) <= Cardinality(T)
  /\ \A S \in SUBSET Turns : \A t \in Turns :
       Cardinality(S \cup {t}) <= Cardinality(S) + 1
<1>1. \A S \in SUBSET Turns : IsFiniteSet(S) /\ Cardinality(S) \in Nat
  BY FS_Subset, FS_CardinalityType
<1>2. \A S, T \in SUBSET Turns : S \subseteq T => Cardinality(S) <= Cardinality(T)
  BY <1>1, FS_Subset
<1>3. ASSUME NEW S \in SUBSET Turns, NEW t \in Turns
      PROVE  Cardinality(S \cup {t}) <= Cardinality(S) + 1
  <2>1. Cardinality(S \cup {t}) = (IF t \in S THEN Cardinality(S) ELSE Cardinality(S) + 1)
    BY <1>1, FS_AddElement
  <2>2. Cardinality(S) \in Nat
    BY <1>1
  <2> QED BY <2>1, <2>2
<1> QED BY <1>1, <1>2, <1>3

LEMMA CapacityNext ==
  ASSUME Inductive, ReplyCapacity, [Next]_vars
  PROVE  ReplyCapacity'
<1> DEFINE now == UserReplies
           then == {t \in Turns : OriginOf[t] = "user" /\ Active(t)'}
<1>1. /\ now \in SUBSET Turns /\ then \in SUBSET Turns
      /\ Cardinality(now) <= MaxActiveTurns /\ Cardinality(now) \in Nat /\ Cardinality(then) \in Nat
  BY TurnSets DEF UserReplies, ReplyCapacity
<1>2. ASSUME then \subseteq now PROVE Cardinality(then) <= MaxActiveTurns
  <2>1. Cardinality(then) <= Cardinality(now)
    BY <1>1, <1>2, TurnSets
  <2> QED BY ONLY <1>1, <2>1, ChatTurnsAssumption
<1>3. CASE Waits
  <2>1. then \subseteq now
    BY <1>3, WaitingRow DEF UserReplies
  <2> QED BY <1>2, <2>1 DEF ReplyCapacity, Active
<1>4. ASSUME NEW t \in Turns, NEW b \in BOOLEAN, NEW d \in 1..LastDay, Starts(t, b, d)
      PROVE  Cardinality(then) <= MaxActiveTurns
  <2>1. \A u \in Turns : u # t => (Active(u)' <=> Active(u))
    BY <1>4, FreshRow
  <2>2. CASE b \/ OriginOf[t] = "proactive"
    <3>1. then \subseteq now
      BY <1>4, <2>1, <2>2, FreshRow DEF UserReplies
    <3> QED BY <1>2, <3>1
  <2>3. CASE ~b /\ OriginOf[t] # "proactive"
    <3>1. Cardinality(now) < MaxActiveTurns
      BY <1>4, <2>3 DEF Starts, HasReplyCapacity, UserReplies
    <3>2. then \subseteq now \cup {t}
      BY <2>1 DEF UserReplies
    <3>3. Cardinality(then) <= Cardinality(now \cup {t}) /\ Cardinality(now \cup {t}) <= Cardinality(now) + 1
      BY <1>1, <3>2, TurnSets
    <3>4. Cardinality(now \cup {t}) \in Nat
      <4>1. now \cup {t} \in SUBSET Turns
        BY <1>1
      <4> QED BY <4>1, TurnSets
    <3> QED BY ONLY <1>1, <3>1, <3>3, <3>4, ChatTurnsAssumption
  <2> QED BY <2>2, <2>3
<1>5. ASSUME NEW E \in SUBSET Turns, Ends(E) PROVE Cardinality(then) <= MaxActiveTurns
  <2>1. then \subseteq now
    BY <1>5, EndedRows DEF UserReplies
  <2> QED BY <1>2, <2>1
<1>6. ASSUME NEW S \in SUBSET Turns, Deletes(S) PROVE Cardinality(then) <= MaxActiveTurns
  <2>1. then \subseteq now
    BY <1>6, DeletedRows DEF UserReplies
  <2> QED BY <1>2, <2>1
<1>7. Cardinality(then) <= MaxActiveTurns
  BY <1>2, <1>3, <1>4, <1>5, <1>6, StepShapes, WaitingRow DEF UserReplies
<1> QED BY <1>7 DEF ReplyCapacity

\* The user's own replies in the making stay within MAX_ACTIVE_TURNS_PER_USER,
\* however sends, edits and regenerations in any number of chats are mixed
\* (assertUserReplyCapacity).
THEOREM CapacityKept == Spec => []ReplyCapacity
<1>1. Init => ReplyCapacity
  <2> SUFFICES ASSUME Init PROVE ReplyCapacity
    OBVIOUS
  <2>1. {t \in Turns : OriginOf[t] = "user" /\ Active(t)} = {}
    BY DEF Init, NoRow, Active, ActiveAssistantStates
  <2>2. Cardinality({}) = 0
    BY FS_EmptySet
  <2>3. 0 <= MaxActiveTurns
    OBVIOUS
  <2> HIDE ChatTurnsAssumption
  <2> QED BY <2>1, <2>2, <2>3 DEF ReplyCapacity
<1>2. Inductive /\ ReplyCapacity /\ [Next]_vars => ReplyCapacity'
  BY CapacityNext
<1> QED BY <1>1, <1>2, LedgerInvariant, PTL DEF Spec

-----------------------------------------------------------------------------
\* The daily allowance.

\* The user's own Turns that hold or have used a message of that day.
Paying(d) == {t \in Turns : /\ OriginOf[t] = "user"
                            /\ usage[t] \in {"held", "consumed"}
                            /\ row[t].day = d}

LEMMA QuotaNext ==
  ASSUME Inductive, QuotaHeld, [Next]_vars
  PROVE  QuotaHeld'
<1> SUFFICES ASSUME NEW d \in 1..LastDay
             PROVE  Cardinality({t \in Turns : /\ OriginOf[t] = "user"
                                               /\ usage'[t] \in {"held", "consumed"}
                                               /\ row'[t].day = d}) <= DailyMessages
  BY DEF QuotaHeld, Used
<1> DEFINE now == Paying(d)
           then == {t \in Turns : /\ OriginOf[t] = "user"
                                  /\ usage'[t] \in {"held", "consumed"}
                                  /\ row'[t].day = d}
<1>1. /\ now \in SUBSET Turns /\ then \in SUBSET Turns
      /\ Cardinality(now) <= DailyMessages /\ Cardinality(now) \in Nat /\ Cardinality(then) \in Nat
  BY TurnSets DEF Paying, QuotaHeld, Used
<1>2. ASSUME then \subseteq now PROVE Cardinality(then) <= DailyMessages
  <2>1. Cardinality(then) <= Cardinality(now)
    BY <1>1, <1>2, TurnSets
  <2> QED BY ONLY <1>1, <2>1, ChatTurnsAssumption
<1>3. ASSUME Waits PROVE Cardinality(then) <= DailyMessages
  <2>1. usage' = usage /\ \A u \in Turns : row'[u].day = row[u].day
    BY <1>3, WaitingRow DEF Waits
  <2>2. then \subseteq now
    BY <2>1 DEF Paying
  <2> QED BY <1>2, <2>2
<1>4. ASSUME NEW t \in Turns, NEW b \in BOOLEAN, NEW x \in 1..LastDay, Starts(t, b, x)
      PROVE  Cardinality(then) <= DailyMessages
  <2>1. row'[t].day = x /\ \A u \in Turns : u # t => row'[u] = row[u]
    BY <1>4, FreshRow
  <2>2. /\ usage \in [Turns -> {"none", "held", "voided", "consumed"}]
        /\ row[t].status = "absent" => usage[t] = "none"
    BY DEF Inductive, TypeOK, LedgerOK, UsageFollowsRow
  <2>3. \A u \in Turns : u # t => usage'[u] = usage[u]
    BY <1>4, <2>2 DEF Starts
  <2>4. usage[t] \in {"held", "consumed"} => row[t].day = x
    BY <1>4, <2>2 DEF Starts
  <2>5. CASE usage'[t] = usage[t] \/ OriginOf[t] = "proactive"
    <3>1. then \subseteq now
      BY <2>1, <2>3, <2>4, <2>5 DEF Paying
    <3> QED BY <1>2, <3>1
  <2>6. CASE usage'[t] # usage[t] /\ OriginOf[t] # "proactive"
    <3>1. Used(x) < DailyMessages
      BY <1>4, <2>2, <2>6 DEF Starts, CanReserve, Reserved
    <3>2. CASE x = d
      <4>1. then \subseteq now \cup {t}
        BY <2>1, <2>3 DEF Paying
      <4>2. Cardinality(now) < DailyMessages
        BY <3>1, <3>2 DEF Used, Paying
      <4>3. Cardinality(then) <= Cardinality(now \cup {t})
            /\ Cardinality(now \cup {t}) <= Cardinality(now) + 1
        BY <1>1, <4>1, TurnSets
      <4>4. Cardinality(now \cup {t}) \in Nat
        <5>1. now \cup {t} \in SUBSET Turns
          BY <1>1
        <5> QED BY <5>1, TurnSets
      <4> QED BY ONLY <1>1, <4>2, <4>3, <4>4, ChatTurnsAssumption
    <3>3. CASE x # d
      <4>1. then \subseteq now
        BY <2>1, <2>3, <3>3 DEF Paying
      <4> QED BY <1>2, <4>1
    <3> QED BY <3>2, <3>3
  <2> QED BY <2>5, <2>6
<1>5. ASSUME NEW E \in SUBSET Turns, Ends(E) PROVE Cardinality(then) <= DailyMessages
  <2>1. \A u \in E : usage[u] \in {"held", "consumed"}
    BY <1>5 DEF Ends, Inductive, UsageMatchesOutcome
  <2>2. \A u \in Turns : /\ row'[u].day = row[u].day
                         /\ u \notin E => usage'[u] = usage[u]
    BY <1>5, EndedRows
  <2>3. then \subseteq now
    BY <2>1, <2>2 DEF Paying
  <2> QED BY <1>2, <2>3
<1>6. ASSUME NEW S \in SUBSET Turns, Deletes(S) PROVE Cardinality(then) <= DailyMessages
  <2>1. usage' = usage /\ \A u \in Turns : row'[u].day = row[u].day
    BY <1>6, DeletedRows DEF Deletes
  <2>2. then \subseteq now
    BY <2>1 DEF Paying
  <2> QED BY <1>2, <2>2
<1> HIDE DEF now, then
<1>7. Cardinality(then) <= DailyMessages
  BY <1>3, <1>4, <1>5, <1>6, StepShapes
<1> QED BY <1>7 DEF then

\* On no product day do the messages a free user holds or has used exceed the
\* allowance, however failures, midnight, deletions and revisions of old Turns
\* are ordered (assertChatQuota, reserveChatTurnUsage).
THEOREM QuotaKept == Spec => []QuotaHeld
<1>1. Init => QuotaHeld
  <2> SUFFICES ASSUME Init, NEW d \in 1..LastDay PROVE Used(d) <= DailyMessages
    BY DEF QuotaHeld
  <2>1. Used(d) = Cardinality({})
    <3>1. {t \in Turns : /\ OriginOf[t] = "user" /\ usage[t] \in {"held", "consumed"}
                         /\ row[t].day = d} = {}
      BY DEF Init
    <3> QED BY <3>1 DEF Used
  <2>2. Cardinality({}) = 0 /\ 0 <= DailyMessages
    BY FS_EmptySet
  <2> QED BY ONLY <2>1, <2>2
<1>2. Inductive /\ QuotaHeld /\ [Next]_vars => QuotaHeld'
  BY QuotaNext
<1> QED BY <1>1, <1>2, LedgerInvariant, PTL DEF Spec

-----------------------------------------------------------------------------
\* The ledger implements MainTurns.

LEMMA ShownIs ==
  \A t \in Turns : /\ Shown(t) = "active" <=> Active(t)
                   /\ Shown(t) = "deleted" <=> row[t].status = "deleted"
                   /\ Exists(t) /\ ~Active(t) => Shown(t) = "ended"
BY DEF Shown, Active, ActiveAssistantStates, Exists

LEMMA ShownStays ==
  ASSUME NEW t \in Turns,
         Active(t)' <=> Active(t),
         \A x \in {"absent", "deleted"} : row'[t].status = x <=> row[t].status = x
  PROVE  Shown(t)' = Shown(t)
BY DEF Shown

LEMMA MainTurnsStep ==
  ASSUME Inductive, [Next]_vars
  PROVE  [AtMain!Next]_(AtMain!mainVars)
<1>1. \A t \in Turns : row[t].attempt \in 0..MaxAttempt
                       /\ (row[t].status # "absent" => row[t].attempt \in Attempts)
  BY RowFields DEF Inductive
<1>2. ASSUME Waits PROVE [AtMain!Next]_(AtMain!mainVars)
  <2>1. \A t \in Turns : Shown(t)' = Shown(t) /\ row'[t].attempt = row[t].attempt
    BY <1>2, WaitingRow, ShownStays
  <2>2. /\ [t \in Turns |-> row[t].attempt]' = [t \in Turns |-> row[t].attempt]
        /\ [t \in Turns |-> Shown(t)]' = [t \in Turns |-> Shown(t)]
        /\ acked' = acked /\ stops' = stops
    BY <1>2, <2>1 DEF Waits
  <2>3. CASE posted' = posted
    BY <2>2, <2>3 DEF AtMain!mainVars
  <2>4. ASSUME NEW t \in Turns, Active(t), posted' = posted \cup {<<t, row[t].attempt>>}
        PROVE  AtMain!Next
    <3>1. Shown(t) = "active"
      BY <2>4, ShownIs
    <3>2. AtMain!Post(t)
      BY <2>2, <2>4, <3>1 DEF AtMain!Post
    <3> QED BY <3>2 DEF AtMain!Next
  <2> QED BY <1>2, <2>3, <2>4 DEF Waits
<1>3. ASSUME NEW t \in Turns, NEW b \in BOOLEAN, NEW d \in 1..LastDay, Starts(t, b, d)
      PROVE  AtMain!Next
  <2>1. /\ row'[t].attempt = row[t].attempt + 1
        /\ \A u \in Turns : u # t => row'[u] = row[u] /\ Shown(u)' = Shown(u)
    BY <1>3, FreshRow, ShownStays
  <2>2. Shown(t)' = (IF b THEN "ended" ELSE "active")
    BY <1>3, FreshRow DEF Shown
  <2>3. Shown(t) \notin {"active", "deleted"} /\ row[t].attempt < MaxAttempt
    BY <1>3, ShownIs DEF Starts
  <2>4. [t_1 \in Turns |-> row[t_1].attempt]'
          = [[t_1 \in Turns |-> row[t_1].attempt] EXCEPT ![t] = @ + 1]
    BY <2>1
  <2>5. \E s \in {"active", "ended"} :
          [t_1 \in Turns |-> Shown(t_1)]' = [[t_1 \in Turns |-> Shown(t_1)] EXCEPT ![t] = s]
    <3>1. [t_1 \in Turns |-> Shown(t_1)]'
            = [[t_1 \in Turns |-> Shown(t_1)] EXCEPT ![t] = (IF b THEN "ended" ELSE "active")]
      BY <2>1, <2>2
    <3> QED BY <3>1
  <2>6. posted' = posted /\ acked' = acked /\ stops' = stops
    BY <1>3 DEF Starts
  <2>7. AtMain!Begin(t)
    BY <2>3, <2>4, <2>5, <2>6 DEF AtMain!Begin
  <2> QED BY <2>7 DEF AtMain!Next
<1>4. ASSUME NEW E \in SUBSET Turns, Ends(E) PROVE AtMain!Next
  <2>1. \A u \in Turns : /\ row'[u].attempt = row[u].attempt
                         /\ u \in E => Active(u)
                         /\ u \notin E => row'[u] = row[u]
    BY <1>4, EndedRows
  <2>2. \A u \in Turns : Shown(u)' = IF u \in E THEN "ended" ELSE Shown(u)
    <3>1. \A u \in Turns : u \notin E => Shown(u)' = Shown(u)
      BY <2>1 DEF Shown, Active
    <3>2. \A u \in Turns : u \in E => Shown(u)' = "ended"
      BY <1>4 DEF Ends, Shown, Active, ActiveAssistantStates, Outcomes
    <3> QED BY <3>1, <3>2
  <2>3. [t \in Turns |-> row[t].attempt]' = [t \in Turns |-> row[t].attempt] /\ posted' = posted
    BY <1>4, <2>1 DEF Ends
  <2>4. [t \in Turns |-> Shown(t)]'
          = [t \in Turns |-> IF t \in E THEN "ended" ELSE [t_1 \in Turns |-> Shown(t_1)][t]]
    BY <2>2
  <2>5. \A u \in E : Shown(u) = "active"
    BY <2>1, ShownIs
  <2>6. CASE stops' = stops \cup {<<u, row[u].attempt>> : u \in E} /\ acked' = acked
    <3>1. {<<u, row[u].attempt>> : u \in E}
            = {<<u, [t \in Turns |-> row[t].attempt][u]>> : u \in E}
      OBVIOUS
    <3>2. AtMain!Stop(E)
      BY <2>3, <2>4, <2>5, <2>6, <3>1 DEF AtMain!Stop
    <3> QED BY <3>2 DEF AtMain!Next
  <2>7. ASSUME NEW t \in Turns, NEW o \in Outcomes, stops' = stops, E = {t},
               <<t, row[t].attempt>> \in posted, acked' = acked \cup {<<t, row[t].attempt, o>>}
        PROVE  AtMain!Next
    <3>1. row[t].attempt \in AtMain!Attempts
      BY <1>1, <2>1, <2>7 DEF AtMain!Attempts, Attempts, Active, ActiveAssistantStates
    <3>2. [t_1 \in Turns |-> Shown(t_1)]' = [[t_1 \in Turns |-> Shown(t_1)] EXCEPT ![t] = "ended"]
      BY <2>2, <2>7
    <3>3. Shown(t) = "active"
      BY <2>5, <2>7
    <3>4. AtMain!Accept(t, row[t].attempt, o)
      BY <2>3, <2>7, <3>2, <3>3 DEF AtMain!Accept, AtMain!Live
    <3> QED BY <3>1, <3>4 DEF AtMain!Next
  <2> QED BY <1>4, <2>6, <2>7 DEF Ends
<1>5. ASSUME NEW S \in SUBSET Turns, Deletes(S) PROVE AtMain!Next
  <2>1. \A u \in Turns : /\ row'[u].attempt = row[u].attempt
                         /\ u \in S => /\ row'[u].status = "deleted" /\ ~Active(u)'
                                       /\ Exists(u) /\ ~Active(u)
                         /\ u \notin S => row'[u] = row[u]
    BY <1>5, DeletedRows DEF Deletes
  <2>2. \A u \in Turns : Shown(u)' = IF u \in S THEN "deleted" ELSE Shown(u)
    BY <2>1 DEF Shown, Active
  <2>3. \A u \in S : Shown(u) = "ended"
    BY <2>1, ShownIs
  <2>4. /\ [t \in Turns |-> row[t].attempt]' = [t \in Turns |-> row[t].attempt]
        /\ posted' = posted /\ acked' = acked /\ stops' = stops
    BY <1>5, <2>1 DEF Deletes
  <2>5. [t \in Turns |-> Shown(t)]'
          = [t \in Turns |-> IF t \in S THEN "deleted" ELSE [t_1 \in Turns |-> Shown(t_1)][t]]
    BY <2>2
  <2>6. AtMain!Delete(S)
    BY <2>3, <2>4, <2>5 DEF AtMain!Delete
  <2> QED BY <2>6 DEF AtMain!Next
<1> QED BY <1>2, <1>3, <1>4, <1>5, StepShapes

\* To Chat the ledger is MainTurns: attempts of a Turn run one after another,
\* each is posted only while it runs, ends once by an accepted terminal or by
\* an order to stop, and nothing comes back after a deletion.  The AgentRuns
\* specification assumes exactly this of Main.
THEOREM LedgerIsMainTurns == Spec => ImplementsMainTurns
<1>1. Init => AtMain!Init
  <2> SUFFICES ASSUME Init PROVE AtMain!Init
    OBVIOUS
  <2>1. \A t \in Turns : row[t].attempt = 0 /\ Shown(t) = "none"
    BY DEF Init, NoRow, Shown, Active, ActiveAssistantStates
  <2>2. [t \in Turns |-> row[t].attempt] = [t \in Turns |-> 0]
        /\ [t \in Turns |-> Shown(t)] = [t \in Turns |-> "none"]
    BY <2>1
  <2> QED BY <2>2 DEF Init, AtMain!Init
<1>2. Inductive /\ [Next]_vars => [AtMain!Next]_(AtMain!mainVars)
  BY MainTurnsStep
<1> QED BY <1>1, <1>2, LedgerInvariant, PTL DEF Spec, ImplementsMainTurns, AtMain!Spec

-----------------------------------------------------------------------------
\* The ledger implements ReplySlots.

\* The slot of a conversation in which no reply starts, ends or is replaced.
LEMMA SlotStays ==
  ASSUME NEW v \in Conversations,
         \A u \in Turns : Home(u) = v => (Active(u)' <=> Active(u)),
         \A u \in Turns : Home(u) = v /\ Active(u) => row'[u].attempt = row[u].attempt
  PROVE  SlotOf(v)' = SlotOf(v)
<1>1. ActiveIn(v)' = ActiveIn(v)
  BY DEF ActiveIn, Home
<1>2. CASE ActiveIn(v) = {}
  BY <1>1, <1>2 DEF SlotOf
<1>3. CASE ActiveIn(v) # {}
  <2> DEFINE t == CHOOSE u \in ActiveIn(v) : TRUE
  <2>1. t \in ActiveIn(v)
    BY <1>3
  <2>2. row'[t].attempt = row[t].attempt
    BY <2>1 DEF ActiveIn
  <2> QED BY <1>1, <1>3, <2>2 DEF SlotOf
<1> QED BY <1>2, <1>3

\* A Turn that does not run has no slot.
LEMMA IdleHasNoSlot ==
  ASSUME NEW v \in Conversations, NEW t \in Turns, ~Active(t), NEW a
  PROVE  SlotOf(v) # <<t, a>>
<1>1. CASE ActiveIn(v) = {}
  BY <1>1 DEF SlotOf
<1>2. CASE ActiveIn(v) # {}
  <2> DEFINE u == CHOOSE x \in ActiveIn(v) : TRUE
  <2>1. u \in ActiveIn(v)
    BY <1>2
  <2>2. u # t
    BY <2>1 DEF ActiveIn
  <2>3. SlotOf(v) = <<u, row[u].attempt>>
    BY <1>2 DEF SlotOf
  <2> HIDE DEF u
  <2> QED BY <2>2, <2>3
<1> QED BY <1>1, <1>2

LEMMA ReplySlotsStep ==
  ASSUME Inductive, [Next]_vars
  PROVE  [Slots!Next]_<<[v \in Conversations |-> SlotOf(v)], [t \in Turns |-> row[t].attempt]>>
<1> DEFINE slots == [v \in Conversations |-> SlotOf(v)]
           lasts == [t \in Turns |-> row[t].attempt]
<1>1. ASSUME \A u \in Turns : (Active(u)' <=> Active(u)) /\ row'[u].attempt = row[u].attempt
      PROVE  UNCHANGED <<slots, lasts>>
  <2>1. \A v \in Conversations : SlotOf(v)' = SlotOf(v)
    BY <1>1, SlotStays
  <2> QED BY <1>1, <2>1
<1>2. CASE Waits
  <2>1. \A u \in Turns : (Active(u)' <=> Active(u)) /\ row'[u].attempt = row[u].attempt
    BY <1>2, WaitingRow
  <2> QED BY <1>1, <2>1
<1>3. ASSUME NEW S \in SUBSET Turns, Deletes(S) PROVE UNCHANGED <<slots, lasts>>
  <2>1. \A u \in Turns : (Active(u)' <=> Active(u)) /\ row'[u].attempt = row[u].attempt
    BY <1>3, DeletedRows
  <2> QED BY <1>1, <2>1
<1>4. ASSUME NEW t \in Turns, NEW b \in BOOLEAN, NEW d \in 1..LastDay, Starts(t, b, d)
      PROVE  Slots!Next
  <2>1. /\ row'[t].attempt = row[t].attempt + 1 /\ (Active(t)' <=> ~b)
        /\ \A u \in Turns : u # t => row'[u] = row[u] /\ (Active(u)' <=> Active(u))
        /\ ~Active(t) /\ Home(t) \in Conversations
    BY <1>4, FreshRow, HomeType DEF Starts
  <2>2. lasts' = [lasts EXCEPT ![t] = @ + 1] /\ lasts[t] = row[t].attempt
    BY <2>1
  <2>3. CASE b
    <3>1. \A v \in Conversations : SlotOf(v)' = SlotOf(v)
      <4>1. /\ \A u \in Turns : Active(u)' <=> Active(u)
            /\ \A u \in Turns : Active(u) => row'[u].attempt = row[u].attempt
        BY <2>1, <2>3
      <4> QED BY <4>1, SlotStays
    <3>2. \A v \in Conversations : slots[v] # <<t, lasts[t]>>
      BY <2>1, IdleHasNoSlot
    <3>3. slots' = slots
      BY <3>1
    <3>4. Slots!Skip(t)
      BY <2>2, <3>2, <3>3 DEF Slots!Skip
    <3> QED BY <3>4 DEF Slots!Next
  <2>4. CASE ~b
    <3> DEFINE h == Home(t)
    <3>1. ActiveIn(h) = {}
      BY <1>4, <2>4 DEF Starts
    <3>2. slots[h] = <<>>
      BY <2>1, <3>1 DEF SlotOf
    <3>3. ActiveIn(h)' = {t}
      BY <2>1, <2>4, <3>1 DEF ActiveIn, Home
    <3>4. SlotOf(h)' = <<t, row[t].attempt + 1>>
      <4>1. (CHOOSE u \in ActiveIn(h)' : TRUE) = t /\ ActiveIn(h)' # {}
        BY <3>3
      <4> QED BY <2>1, <4>1 DEF SlotOf
    <3>5. \A v \in Conversations : v # h => SlotOf(v)' = SlotOf(v)
      BY <2>1, SlotStays
    <3>6. slots' = [slots EXCEPT ![h] = <<t, lasts[t] + 1>>]
      BY <2>2, <3>4, <3>5
    <3>7. h \in Conversations
      BY <2>1
    <3>8. Slots!Open(h, t)
      BY <2>2, <3>2, <3>6 DEF Slots!Open
    <3> QED BY <3>7, <3>8 DEF Slots!Next
  <2> QED BY <2>3, <2>4
<1>5. ASSUME NEW E \in SUBSET Turns, Ends(E) PROVE Slots!Next
  <2> DEFINE V == {Home(u) : u \in E}
  <2>1. \A u \in Turns : /\ row'[u].attempt = row[u].attempt
                         /\ Active(u)' <=> Active(u) /\ u \notin E
                         /\ u \in E => Active(u)
    BY <1>5, EndedRows
  <2>2. ASSUME NEW v \in Conversations, v \in V PROVE SlotOf(v)' = <<>>
    <3>1. PICK u \in E : Home(u) = v
      BY <2>2
    <3>2. \A x \in Turns : Active(x) /\ Home(x) = v => x = u
      BY <2>1, <3>1 DEF Inductive, OneReplyPerConversation
    <3>3. ActiveIn(v)' = {}
      BY <2>1, <3>2 DEF ActiveIn, Home
    <3> QED BY <3>3 DEF SlotOf
  <2>3. ASSUME NEW v \in Conversations, v \notin V PROVE SlotOf(v)' = SlotOf(v)
    <3>1. \A u \in Turns : Home(u) = v => (Active(u)' <=> Active(u))
      BY <2>1, <2>3
    <3> QED BY <2>1, <3>1, SlotStays
  <2>4. slots' = [v \in Conversations |-> IF v \in V THEN <<>> ELSE slots[v]]
    BY <2>2, <2>3
  <2>5. lasts' = lasts
    BY <2>1
  <2>6. V \in SUBSET Conversations
    BY HomeType
  <2> HIDE DEF V
  <2>7. Slots!Close(V)
    BY <2>4, <2>5 DEF Slots!Close
  <2> QED BY <2>6, <2>7 DEF Slots!Next
<1> QED BY <1>2, <1>3, <1>4, <1>5, StepShapes

\* Seen from afar a conversation is one reply slot: an attempt enters it idle,
\* is never replaced in place, and never returns once a later one exists
\* (beginChatTurn, reserveRevisedChatTurn, commitChatTerminal).
THEOREM LedgerIsReplySlots == Spec => ImplementsReplySlots
<1>1. Init => Slots!Init
  <2> SUFFICES ASSUME Init PROVE Slots!Init
    OBVIOUS
  <2>1. \A t \in Turns : row[t].attempt = 0 /\ ~Active(t)
    BY DEF Init, NoRow, Active, ActiveAssistantStates
  <2>2. \A v \in Conversations : SlotOf(v) = <<>>
    BY <2>1 DEF SlotOf, ActiveIn
  <2>3. [t \in Turns |-> row[t].attempt] = [t \in Turns |-> 0]
        /\ [v \in Conversations |-> SlotOf(v)] = [v \in Conversations |-> <<>>]
    BY <2>1, <2>2
  <2> QED BY <2>3 DEF Slots!Init
<1>2. Inductive /\ [Next]_vars =>
        [Slots!Next]_<<[v \in Conversations |-> SlotOf(v)], [t \in Turns |-> row[t].attempt]>>
  BY ReplySlotsStep
<1> QED BY <1>1, <1>2, LedgerInvariant, PTL DEF Spec, ImplementsReplySlots, Slots!Spec

-----------------------------------------------------------------------------
\* Scenes along a conversation.  A transcript l under rows r is well told when
\* it lists existing Turns of its conversation, each once; nothing after a
\* running reply is sent or running; a sent reply has counted the sent ones
\* before it, itself included, and a running one starts from their number.

SentAmong(l, r, i) == {j \in 1..(i - 1) : r[l[j]].status = "sent"}

Listed(v, l, r) ==
  \A i \in 1..Len(l) : /\ Home(l[i]) = v /\ r[l[i]].status \notin {"absent", "deleted"}
                       /\ \A j \in 1..Len(l) : l[j] = l[i] => j = i

RunsLast(l, r) ==
  \A i, j \in 1..Len(l) : i < j /\ r[l[i]].status \in ActiveAssistantStates =>
    r[l[j]].status \notin {"sent"} \cup ActiveAssistantStates

Chained(l, r) ==
  \A i \in 1..Len(l) :
    /\ r[l[i]].status = "sent" => r[l[i]].scene = Cardinality(SentAmong(l, r, i)) + 1
    /\ r[l[i]].status \in ActiveAssistantStates => r[l[i]].scene = Cardinality(SentAmong(l, r, i))

Told(v, l, r) == l \in Seq(Turns) /\ Listed(v, l, r) /\ RunsLast(l, r) /\ Chained(l, r)

AllTold == \A v \in Conversations : Told(v, log[v], row)

\* A beginning of a told transcript stays told while no reply of it starts or
\* is shown.
LEMMA StillTold ==
  ASSUME NEW v, NEW l, NEW r, Told(v, l, r), NEW k \in Seq(Turns), NEW q,
         Len(k) <= Len(l), \A i \in 1..Len(k) : k[i] = l[i],
         \A i \in 1..Len(k) :
           /\ (r[l[i]].status = "sent") <=> (q[l[i]].status = "sent")
           /\ q[l[i]].status \notin {"absent", "deleted"}
           /\ q[l[i]].status \in ActiveAssistantStates => r[l[i]].status \in ActiveAssistantStates
           /\ q[l[i]].status \in {"sent"} \cup ActiveAssistantStates => q[l[i]].scene = r[l[i]].scene
  PROVE  Told(v, k, q)
<1>1. Len(k) \in Nat /\ Len(l) \in Nat /\ \A i \in 1..Len(k) : i \in 1..Len(l)
  BY DEF Told
<1>2. \A i \in 1..Len(k) : SentAmong(k, q, i) = SentAmong(l, r, i)
  <2> SUFFICES ASSUME NEW i \in 1..Len(k) PROVE SentAmong(k, q, i) = SentAmong(l, r, i)
    OBVIOUS
  <2>1. \A j \in 1..(i - 1) : j \in 1..Len(k)
    BY <1>1
  <2>2. \A j \in 1..(i - 1) : (r[l[j]].status = "sent") <=> (q[k[j]].status = "sent")
    BY <2>1
  <2> QED BY <2>2 DEF SentAmong
<1>3. Listed(v, k, q)
  BY <1>1 DEF Told, Listed
<1>4. RunsLast(k, q)
  <2> SUFFICES ASSUME NEW i \in 1..Len(k), NEW j \in 1..Len(k), i < j,
                      q[k[i]].status \in ActiveAssistantStates
               PROVE  q[k[j]].status \notin {"sent"} \cup ActiveAssistantStates
    BY DEF RunsLast
  <2>1. r[l[i]].status \in ActiveAssistantStates /\ i \in 1..Len(l) /\ j \in 1..Len(l)
    BY <1>1
  <2>2. r[l[j]].status \notin {"sent"} \cup ActiveAssistantStates
    BY <2>1 DEF Told, RunsLast
  <2> QED BY <2>2
<1>5. Chained(k, q)
  <2> SUFFICES ASSUME NEW i \in 1..Len(k)
               PROVE  /\ q[k[i]].status = "sent"
                           => q[k[i]].scene = Cardinality(SentAmong(k, q, i)) + 1
                      /\ q[k[i]].status \in ActiveAssistantStates
                           => q[k[i]].scene = Cardinality(SentAmong(k, q, i))
    BY DEF Chained
  <2>1. i \in 1..Len(l) /\ k[i] = l[i] /\ SentAmong(k, q, i) = SentAmong(l, r, i)
    BY <1>1, <1>2
  <2>2. /\ r[l[i]].status = "sent" => r[l[i]].scene = Cardinality(SentAmong(l, r, i)) + 1
        /\ r[l[i]].status \in ActiveAssistantStates
             => r[l[i]].scene = Cardinality(SentAmong(l, r, i))
    BY <2>1 DEF Told, Chained
  <2> QED BY <2>1, <2>2
<1> QED BY <1>3, <1>4, <1>5 DEF Told

\* The Scene that previousCommittedScene finds is the number of sent replies
\* before the Turn that starts, at the end of the transcript or past it.
LEMMA SceneFound ==
  ASSUME NEW v, NEW t, NEW m \in Nat, Told(v, log[v], row), m <= Len(log[v]),
         \A i \in 1..Len(log[v]) : i <= m <=> log[v][i] # t
  PROVE  CommittedScene(v, t) = Cardinality(SentAmong(log[v], row, m + 1))
<1> DEFINE l == log[v]
           sent == SentBefore(v, t)
<1>1. l \in Seq(Turns) /\ Len(l) \in Nat
  BY DEF Told
<1>2. sent = SentAmong(l, row, m + 1) /\ sent \in SUBSET (1..Len(l))
  <2>1. \A i : i \in 1..((m + 1) - 1) <=> i \in 1..Len(l) /\ i <= m
    BY <1>1
  <2> QED BY <2>1 DEF SentBefore, SentAmong
<1>3. CASE sent = {}
  <2>1. Cardinality({}) = 0
    BY FS_EmptySet
  <2> QED BY <1>2, <1>3, <2>1 DEF CommittedScene
<1>4. CASE sent # {}
  <2> DEFINE k == CHOOSE i \in sent : \A j \in sent : j <= i
             before == SentAmong(l, row, k)
  <2>1. \E i \in sent : \A j \in sent : j <= i
    BY <1>1, <1>2, <1>4, LastPosition
  <2>2. k \in sent /\ \A j \in sent : j <= k
    BY <2>1
  <2> HIDE DEF k, sent
  <2>3. k \in 1..Len(l) /\ row[l[k]].status = "sent"
    BY <1>2, <2>2 DEF SentAmong
  <2>4. sent = before \cup {k} /\ k \notin before
    BY <1>2, <2>2, <2>3 DEF SentAmong
  <2>5. IsFiniteSet(before)
    <3>1. before \subseteq 1..(k - 1)
      BY DEF SentAmong
    <3>2. 1 \in Int /\ k - 1 \in Int
      BY <2>3
    <3>3. IsFiniteSet(1..(k - 1))
      BY <3>2, FS_Interval
    <3> QED BY <3>1, <3>3, FS_Subset
  <2>6. Cardinality(sent) = Cardinality(before) + 1
    BY <2>4, <2>5, FS_AddElement
  <2>7. row[l[k]].scene = Cardinality(before) + 1
    BY <2>3 DEF Told, Chained
  <2>8. CommittedScene(v, t) = row[l[k]].scene
    BY <1>4 DEF CommittedScene, k, sent
  <2> QED BY <1>2, <2>6, <2>7, <2>8
<1> QED BY <1>3, <1>4

\* A Turn starts at the end of what is kept of a told transcript.
LEMMA StartTold ==
  ASSUME NEW v, NEW l, NEW r, Told(v, l, r), NEW m \in Nat, m <= Len(l),
         NEW k \in Seq(Turns), Len(k) = m + 1, \A i \in 1..m : k[i] = l[i],
         NEW t, t = k[m + 1], Home(t) = v, \A i \in 1..m : l[i] # t,
         NEW q, \A i \in 1..m : q[l[i]] = r[l[i]],
         \/ q[t].status = "blocked"
         \/ /\ q[t].status = "pending" /\ q[t].scene = Cardinality(SentAmong(l, r, m + 1))
            /\ \A i \in 1..m : r[l[i]].status \notin ActiveAssistantStates
  PROVE  Told(v, k, q)
<1>1. Len(l) \in Nat /\ \A i \in 1..Len(k) : i \in 1..m \/ i = m + 1
  BY DEF Told
<1>2. \A i \in 1..m : i \in 1..Len(l) /\ i < m + 1 /\ i # m + 1
  BY <1>1
<1>3. /\ \A i \in 1..m : k[i] = l[i] /\ q[k[i]] = r[l[i]] /\ k[i] # t
      /\ q[t].status \notin {"absent", "deleted", "sent"}
      /\ q[t].status # "generating"
  OBVIOUS
<1>4. \A i \in 1..(m + 1) : SentAmong(k, q, i) = SentAmong(l, r, i)
  <2> SUFFICES ASSUME NEW i \in 1..(m + 1) PROVE SentAmong(k, q, i) = SentAmong(l, r, i)
    OBVIOUS
  <2>1. \A j \in 1..(i - 1) : j \in 1..m
    OBVIOUS
  <2>2. \A j \in 1..(i - 1) : (r[l[j]].status = "sent") <=> (q[k[j]].status = "sent")
    BY <1>3, <2>1
  <2> QED BY <2>2 DEF SentAmong
<1>5. Listed(v, k, q)
  <2> SUFFICES ASSUME NEW i \in 1..Len(k)
               PROVE  /\ Home(k[i]) = v /\ q[k[i]].status \notin {"absent", "deleted"}
                      /\ \A j \in 1..Len(k) : k[j] = k[i] => j = i
    BY DEF Listed
  <2>1. CASE i = m + 1
    BY <1>1, <1>3, <2>1
  <2>2. CASE i \in 1..m
    <3>1. /\ Home(l[i]) = v /\ r[l[i]].status \notin {"absent", "deleted"}
          /\ \A j \in 1..Len(l) : l[j] = l[i] => j = i
      BY <1>2, <2>2 DEF Told, Listed
    <3> QED BY <1>1, <1>2, <1>3, <2>2, <3>1
  <2> QED BY <1>1, <2>1, <2>2
<1>6. RunsLast(k, q)
  <2> SUFFICES ASSUME NEW i \in 1..Len(k), NEW j \in 1..Len(k), i < j,
                      q[k[i]].status \in ActiveAssistantStates
               PROVE  q[k[j]].status \notin {"sent"} \cup ActiveAssistantStates
    BY DEF RunsLast
  <2>1. i \in 1..m /\ r[l[i]].status \in ActiveAssistantStates
    <3>1. i \in 1..m
      OBVIOUS
    <3> QED BY <1>3, <3>1
  <2>2. CASE j \in 1..m
    <3>1. r[l[j]].status \notin {"sent"} \cup ActiveAssistantStates
      BY <1>2, <2>1, <2>2 DEF Told, RunsLast
    <3> QED BY <1>3, <2>2, <3>1
  <2>3. CASE j = m + 1
    <3>1. q[t].status = "blocked"
      BY <2>1
    <3> QED BY <2>3, <3>1 DEF ActiveAssistantStates
  <2> QED BY <1>1, <2>2, <2>3
<1>7. Chained(k, q)
  <2> SUFFICES ASSUME NEW i \in 1..Len(k)
               PROVE  /\ q[k[i]].status = "sent"
                           => q[k[i]].scene = Cardinality(SentAmong(k, q, i)) + 1
                      /\ q[k[i]].status \in ActiveAssistantStates
                           => q[k[i]].scene = Cardinality(SentAmong(k, q, i))
    BY DEF Chained
  <2>1. SentAmong(k, q, i) = SentAmong(l, r, i)
    BY <1>4
  <2>2. CASE i \in 1..m
    <3>1. /\ r[l[i]].status = "sent" => r[l[i]].scene = Cardinality(SentAmong(l, r, i)) + 1
          /\ r[l[i]].status \in ActiveAssistantStates
               => r[l[i]].scene = Cardinality(SentAmong(l, r, i))
      BY <1>2, <2>2 DEF Told, Chained
    <3> QED BY <1>3, <2>1, <2>2, <3>1
  <2>3. CASE i = m + 1
    BY <1>3, <2>1, <2>3 DEF ActiveAssistantStates
  <2> QED BY <1>1, <2>2, <2>3
<1> QED BY <1>5, <1>6, <1>7 DEF Told

\* The running reply of a told transcript ends.
LEMMA EndTold ==
  ASSUME NEW v, NEW l, NEW r, Told(v, l, r), NEW n \in 1..Len(l),
         r[l[n]].status \in ActiveAssistantStates,
         NEW q, \A i \in 1..Len(l) : i # n => q[l[i]] = r[l[i]],
         q[l[n]].status \in Outcomes,
         q[l[n]].status = "sent" => q[l[n]].scene = r[l[n]].scene + 1
  PROVE  Told(v, l, q)
<1>1. Len(l) \in Nat
  BY DEF Told
<1>2. \A i \in 1..Len(l) : i > n => q[l[i]].status \notin {"sent"} \cup ActiveAssistantStates
  <2> SUFFICES ASSUME NEW i \in 1..Len(l), i > n
               PROVE  r[l[i]].status \notin {"sent"} \cup ActiveAssistantStates
    OBVIOUS
  <2>1. n < i
    BY <1>1
  <2> QED BY <2>1 DEF Told, RunsLast
<1>3. q[l[n]].status \notin {"absent", "deleted"} \cup ActiveAssistantStates
  BY DEF Outcomes, ActiveAssistantStates
<1>4. \A i \in 1..Len(l) : i <= n => SentAmong(l, q, i) = SentAmong(l, r, i)
  <2> SUFFICES ASSUME NEW i \in 1..Len(l), i <= n PROVE SentAmong(l, q, i) = SentAmong(l, r, i)
    OBVIOUS
  <2>1. \A j \in 1..(i - 1) : j \in 1..Len(l) /\ j # n
    BY <1>1
  <2> QED BY <2>1 DEF SentAmong
<1>5. Listed(v, l, q)
  BY <1>3 DEF Told, Listed
<1>6. RunsLast(l, q)
  <2> SUFFICES ASSUME NEW i \in 1..Len(l), NEW j \in 1..Len(l), i < j,
                      q[l[i]].status \in ActiveAssistantStates
               PROVE  q[l[j]].status \notin {"sent"} \cup ActiveAssistantStates
    BY DEF RunsLast
  <2>1. i # n /\ r[l[i]].status \in ActiveAssistantStates
    BY <1>3
  <2>2. r[l[j]].status \notin {"sent"} \cup ActiveAssistantStates
    BY <2>1 DEF Told, RunsLast
  <2> QED BY <2>2
<1>7. Chained(l, q)
  <2> SUFFICES ASSUME NEW i \in 1..Len(l)
               PROVE  /\ q[l[i]].status = "sent"
                           => q[l[i]].scene = Cardinality(SentAmong(l, q, i)) + 1
                      /\ q[l[i]].status \in ActiveAssistantStates
                           => q[l[i]].scene = Cardinality(SentAmong(l, q, i))
    BY DEF Chained
  <2>1. /\ r[l[i]].status = "sent" => r[l[i]].scene = Cardinality(SentAmong(l, r, i)) + 1
        /\ r[l[i]].status \in ActiveAssistantStates
             => r[l[i]].scene = Cardinality(SentAmong(l, r, i))
    BY DEF Told, Chained
  <2>2. CASE i > n
    BY <1>2, <2>2
  <2>3. CASE i = n
    BY <1>1, <1>3, <1>4, <2>1, <2>3
  <2>4. CASE i < n
    <3>1. q[l[i]] = r[l[i]] /\ SentAmong(l, q, i) = SentAmong(l, r, i)
      BY <1>1, <1>4, <2>4
    <3> QED BY <2>1, <3>1
  <2> QED BY <1>1, <2>2, <2>3, <2>4
<1> QED BY <1>5, <1>6, <1>7 DEF Told

\* A conversation none of whose listed Turns changed is as well told as before.
LEMMA SameTold ==
  ASSUME NEW v, NEW l, NEW r, Told(v, l, r), NEW k \in Seq(Turns), NEW q,
         Len(k) <= Len(l), \A i \in 1..Len(k) : k[i] = l[i] /\ q[l[i]] = r[l[i]]
  PROVE  Told(v, k, q)
<1>1. Len(k) \in Nat /\ Len(l) \in Nat /\ \A i \in 1..Len(k) : i \in 1..Len(l)
  BY DEF Told
<1>2. \A i \in 1..Len(k) : r[l[i]].status \notin {"absent", "deleted"}
  BY <1>1 DEF Told, Listed
<1> QED BY <1>2, StillTold

LEMMA WaitsTold ==
  ASSUME Inductive, AllTold, Waits, NEW v \in Conversations
  PROVE  Told(v, log'[v], row')
<1> DEFINE l == log[v]
<1>1. Told(v, l, row) /\ log' = log
  BY DEF AllTold, Waits
<1>2. l \in Seq(Turns) /\ Len(l) \in Nat /\ \A i \in 1..Len(l) : l[i] \in Turns
  BY <1>1 DEF Told
<1>3. \A i \in 1..Len(l) :
           /\ (row[l[i]].status = "sent") <=> (row'[l[i]].status = "sent")
           /\ row'[l[i]].status \notin {"absent", "deleted"}
           /\ row'[l[i]].status \in ActiveAssistantStates => row[l[i]].status \in ActiveAssistantStates
           /\ row'[l[i]].status \in {"sent"} \cup ActiveAssistantStates
                => row'[l[i]].scene = row[l[i]].scene
  <2> SUFFICES ASSUME NEW i \in 1..Len(l)
               PROVE  /\ (row[l[i]].status = "sent") <=> (row'[l[i]].status = "sent")
                      /\ row'[l[i]].status \notin {"absent", "deleted"}
                      /\ row'[l[i]].status \in ActiveAssistantStates
                           => row[l[i]].status \in ActiveAssistantStates
                      /\ row'[l[i]].scene = row[l[i]].scene
    OBVIOUS
  <2>1. row[l[i]].status \notin {"absent", "deleted"}
    BY <1>1 DEF Told, Listed
  <2>2. PICK u \in Turns : u = l[i]
    BY <1>2
  <2>3. /\ row'[u].scene = row[u].scene /\ (Active(u)' <=> Active(u))
        /\ \A x \in {"absent", "deleted", "sent"} : row'[u].status = x <=> row[u].status = x
    BY WaitingRow
  <2> QED BY <2>1, <2>2, <2>3 DEF Active
<1>4. Len(l) <= Len(l) /\ \A i \in 1..Len(l) : l[i] = l[i]
  BY <1>2
<1> HIDE DEF l
<1>5. Told(v, l, row')
  BY <1>1, <1>2, <1>3, <1>4, StillTold
<1> QED BY <1>1, <1>5 DEF l

LEMMA StartsTold ==
  ASSUME Inductive, AllTold, NEW t \in Turns, NEW b \in BOOLEAN, NEW d \in 1..LastDay,
         Starts(t, b, d), NEW v \in Conversations
  PROVE  Told(v, log'[v], row')
<1> DEFINE l == log[v]
<1>1. Told(v, l, row) /\ log \in [Conversations -> Seq(Turns)]
  BY DEF AllTold, Inductive, TypeOK, LedgerOK
<1>2. l \in Seq(Turns) /\ Len(l) \in Nat /\ \A i \in 1..Len(l) : l[i] \in Turns
  BY <1>1
<1>3. /\ row'[t].scene = CommittedScene(Home(t), t)
      /\ row'[t].status = (IF b THEN "blocked" ELSE "pending")
      /\ \A u \in Turns : u # t => row'[u] = row[u]
  BY FreshRow
<1>4. CASE v # Home(t)
  <2>1. log'[v] = l
    BY <1>1, <1>4 DEF Starts
  <2>2. \A i \in 1..Len(l) : row'[l[i]] = row[l[i]]
    BY <1>1, <1>2, <1>3, <1>4 DEF Told, Listed
  <2> HIDE DEF l
  <2>3. Told(v, l, row')
    BY <1>1, <1>2, <2>2, SameTold
  <2> QED BY <2>1, <2>3
<1>5. CASE v = Home(t)
  <2>1. ASSUME NEW m \in Nat, m <= Len(l), NEW k \in Seq(Turns), Len(k) = m + 1,
               log'[v] = k, t = k[m + 1], \A i \in 1..m : k[i] = l[i],
               \A i \in 1..Len(l) : i <= m <=> l[i] # t
        PROVE  Told(v, log'[v], row')
    <3>1. CommittedScene(v, t) = Cardinality(SentAmong(l, row, m + 1))
      BY ONLY <1>1, <2>1, SceneFound, m \in Nat
    <3>2. \A i \in 1..m : i \in 1..Len(l) /\ l[i] # t /\ l[i] \in Turns
      BY <1>2, <2>1
    <3>3. \A i \in 1..m : row'[l[i]] = row[l[i]]
      BY <1>3, <3>2
    <3>0. /\ \A i \in 1..m : l[i] # t
          /\ Home(t) = v
      BY <1>5, <3>2
    <3>4. CASE b
      <4>1. row'[t].status = "blocked"
        BY <1>3, <3>4
      <4> HIDE DEF l
      <4>2. Told(v, k, row')
        BY ONLY <1>1, <2>1, <3>0, <3>3, <4>1, StartTold, m \in Nat, k \in Seq(Turns)
      <4> QED BY <2>1, <4>2
    <3>5. CASE ~b
      <4>1. row'[t].status = "pending" /\ row'[t].scene = Cardinality(SentAmong(l, row, m + 1))
        BY <1>3, <1>5, <3>1, <3>5
      <4>2. \A i \in 1..m : row[l[i]].status \notin ActiveAssistantStates
        <5>1. ActiveIn(v) = {}
          BY <1>5, <3>5 DEF Starts
        <5>2. \A i \in 1..m : Home(l[i]) = v
          BY <1>1, <3>2 DEF Told, Listed
        <5> QED BY <3>2, <5>1, <5>2 DEF ActiveIn, Active
      <4>3. /\ row'[t].status = "pending" /\ row'[t].scene = Cardinality(SentAmong(l, row, m + 1))
            /\ \A i \in 1..m : row[l[i]].status \notin ActiveAssistantStates
        BY <4>1, <4>2
      <4> HIDE DEF l
      <4>4. Told(v, k, row')
        BY ONLY <1>1, <2>1, <3>0, <3>3, <4>3, StartTold, m \in Nat, k \in Seq(Turns), SMTT(60)
      <4> QED BY <2>1, <4>4
    <3> QED BY <3>4, <3>5
  <2>2. CASE row[t].status = "absent"
    <3> DEFINE k == Append(l, t)
    <3>1. k \in Seq(Turns) /\ Len(k) = Len(l) + 1 /\ k[Len(l) + 1] = t
          /\ \A i \in 1..Len(l) : k[i] = l[i]
      BY <1>2
    <3>2. log'[v] = k
      BY <1>1, <1>5, <2>2 DEF Starts, Latest, Exists
    <3>3. \A i \in 1..Len(l) : i <= Len(l) <=> l[i] # t
      BY <1>1, <1>2, <2>2 DEF Told, Listed
    <3>4. Len(l) <= Len(l)
      BY <1>2
    <3> HIDE DEF k
    <3> QED BY <1>2, <2>1, <3>1, <3>2, <3>3, <3>4
  <2>3. CASE row[t].status # "absent"
    <3> DEFINE m == Len(l) - 1
    <3>1. l # <<>> /\ t = l[Len(l)] /\ log'[v] = l
      BY <1>5, <2>3 DEF Starts, Latest
    <3>2. Len(l) > 0
      BY <1>2, <3>1
    <3>3. m \in Nat /\ m <= Len(l) /\ Len(l) = m + 1 /\ Len(l) \in 1..Len(l)
      BY <1>2, <3>2
    <3>4. \A i \in 1..Len(l) : l[i] = t => i = Len(l)
      BY <1>1, <3>1, <3>3 DEF Told, Listed
    <3>5. \A i \in 1..Len(l) : i <= m <=> l[i] # t
      BY <1>2, <3>1, <3>3, <3>4
    <3> HIDE DEF m
    <3> QED BY <1>2, <2>1, <3>1, <3>3, <3>5
  <2> QED BY <2>2, <2>3
<1> QED BY <1>4, <1>5

LEMMA EndsTold ==
  ASSUME Inductive, AllTold, NEW E \in SUBSET Turns, Ends(E), NEW v \in Conversations
  PROVE  Told(v, log'[v], row')
<1> DEFINE l == log[v]
<1>1. Told(v, l, row) /\ log' = log
  BY DEF AllTold, Ends
<1>2. l \in Seq(Turns) /\ Len(l) \in Nat /\ \A i \in 1..Len(l) : l[i] \in Turns
  BY <1>1 DEF Told
<1>3. CASE \A i \in 1..Len(l) : l[i] \notin E
  <2>1. \A i \in 1..Len(l) : row'[l[i]] = row[l[i]]
    BY <1>2, <1>3 DEF Ends
  <2> HIDE DEF l
  <2>2. Told(v, l, row')
    BY <1>1, <1>2, <2>1, SameTold
  <2> QED BY <1>1, <2>2 DEF l
<1>4. ASSUME NEW n \in 1..Len(l), l[n] \in E PROVE Told(v, log'[v], row')
  <2>1. /\ Active(l[n]) /\ row'[l[n]].status \in Outcomes
        /\ row'[l[n]].status = "sent" => row'[l[n]].scene = row[l[n]].scene + 1
    BY <1>4 DEF Ends
  <2>2. \A i \in 1..Len(l) : i # n => row'[l[i]] = row[l[i]]
    <3> SUFFICES ASSUME NEW i \in 1..Len(l), l[i] \in E PROVE i = n
      BY <1>2 DEF Ends
    <3>1. Active(l[i]) /\ Active(l[n]) /\ Home(l[i]) = v /\ Home(l[n]) = v
      BY <1>1, <1>4 DEF Ends, Told, Listed
    <3>2. l[i] = l[n]
      BY <1>2, <3>1 DEF Inductive, OneReplyPerConversation
    <3> QED BY <1>1, <3>2 DEF Told, Listed
  <2>3. row[l[n]].status \in ActiveAssistantStates
    BY <2>1 DEF Active
  <2> HIDE DEF l
  <2>4. Told(v, l, row')
    BY <1>1, <2>1, <2>2, <2>3, EndTold
  <2> QED BY <1>1, <2>4 DEF l
<1> QED BY <1>3, <1>4

LEMMA DeletesTold ==
  ASSUME Inductive, AllTold, NEW S \in SUBSET Turns, Deletes(S), NEW v \in Conversations
  PROVE  Told(v, log'[v], row')
<1> DEFINE l == log[v]
<1>1. Told(v, l, row)
  BY DEF AllTold
<1>2. l \in Seq(Turns) /\ Len(l) \in Nat /\ \A i \in 1..Len(l) : l[i] \in Turns
  BY <1>1 DEF Told
<1>3. CASE log'[v] = l /\ \A u \in S : Home(u) # v
  <2>1. \A i \in 1..Len(l) : row'[l[i]] = row[l[i]]
    BY <1>1, <1>2, <1>3 DEF Deletes, Told, Listed
  <2> HIDE DEF l
  <2>2. Told(v, l, row')
    BY <1>1, <1>2, <2>1, SameTold
  <2> QED BY <1>3, <2>2
<1>4. CASE log'[v] = <<>>
  <2>1. <<>> \in Seq(Turns) /\ Len(<<>>) = 0
    OBVIOUS
  <2> QED BY <1>4, <2>1 DEF Told, Listed, RunsLast, Chained
<1>5. CASE l # <<>> /\ S = {l[Len(l)]} /\ log'[v] = SubSeq(l, 1, Len(l) - 1)
  <2> DEFINE k == SubSeq(l, 1, Len(l) - 1)
  <2>1. Len(l) > 0
    BY <1>2, <1>5
  <2>2. /\ k \in Seq(Turns) /\ Len(k) = Len(l) - 1
        /\ \A i \in 1..Len(k) : k[i] = l[i]
    BY <1>2, <2>1
  <2>3. \A i \in 1..Len(k) : i \in 1..Len(l) /\ i # Len(l) /\ Len(l) \in 1..Len(l)
    BY <1>2, <2>1, <2>2
  <2>4. \A i \in 1..Len(k) : row'[l[i]] = row[l[i]]
    <3>1. \A i \in 1..Len(k) : l[i] # l[Len(l)]
      BY <1>1, <2>3 DEF Told, Listed
    <3> QED BY <1>2, <1>5, <2>3, <3>1 DEF Deletes
  <2>5. Len(k) <= Len(l)
    BY <1>2, <2>2
  <2> HIDE DEF k
  <2>6. \A i \in 1..Len(k) : k[i] = l[i] /\ row'[l[i]] = row[l[i]]
    BY <2>2, <2>4
  <2> HIDE DEF l
  <2>7. Told(v, k, row')
    BY <1>1, <2>2, <2>5, <2>6, SameTold
  <2> QED BY <1>5, <2>7 DEF k
<1> QED BY <1>3, <1>4, <1>5 DEF Deletes

\* Scene versions along a conversation count its sent replies, and a running
\* reply starts from the latest one, whatever is revised, blocked, stopped,
\* deleted or cleared in between (previousCommittedScene, commitChatTerminal).
THEOREM ScenesCount == Spec => []SceneChain
<1>1. Init => AllTold
  <2> SUFFICES ASSUME Init, NEW v \in Conversations PROVE Told(v, log[v], row)
    BY DEF AllTold
  <2>1. log[v] = <<>> /\ <<>> \in Seq(Turns) /\ Len(<<>>) = 0
    BY DEF Init
  <2> QED BY <2>1 DEF Told, Listed, RunsLast, Chained
<1>2. Inductive /\ AllTold /\ [Next]_vars => AllTold'
  <2> SUFFICES ASSUME Inductive, AllTold, [Next]_vars, NEW v \in Conversations
               PROVE  Told(v, log'[v], row')
    BY DEF AllTold
  <2> QED BY StepShapes, WaitsTold, StartsTold, EndsTold, DeletesTold
<1>3. AllTold => SceneChain
  BY DEF AllTold, Told, Chained, SentAmong, SceneChain, Active
<1> QED BY <1>1, <1>2, <1>3, LedgerInvariant, PTL DEF Spec
=============================================================================
