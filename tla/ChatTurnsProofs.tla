-------------------------- MODULE ChatTurnsProofs --------------------------
(***************************************************************************)
(* Proofs about the Turn ledger, for any number of conversations, Turns    *)
(* and dispatcher workers.                                                 *)
(***************************************************************************)
EXTENDS ChatTurns, TLAPS, FiniteSetTheorems, WellFoundedInduction

\* A non-empty set of positions of a sequence has a last one.
LEMMA LastPosition ==
  ASSUME NEW n \in Nat, NEW S \in SUBSET (1..n), S # {}
  PROVE  \E i \in S : \A j \in S : j <= i
<1> DEFINE T == {k \in Nat : k <= n /\ n - k \in S}
<1>1. T \subseteq Nat
  OBVIOUS
<1>2. T # {}
  <2>1. PICK i \in S : TRUE
    OBVIOUS
  <2>2. i \in Nat /\ i <= n /\ n - i \in Nat /\ n - i <= n /\ n - (n - i) = i
    BY <2>1
  <2>3. n - i \in T
    BY <2>1, <2>2
  <2> QED BY <2>3
<1>3. IsWellFoundedOn(OpToRel(<, Nat), Nat)
  BY NatLessThanWellFounded
<1>4. PICK k \in T : \A y \in T : ~ (<<y, k>> \in OpToRel(<, Nat))
  BY <1>1, <1>2, <1>3, WFMin
<1>5. \A y \in T : k <= y
  <2> SUFFICES ASSUME NEW y \in T PROVE k <= y
    OBVIOUS
  <2>1. y \in Nat /\ k \in Nat
    OBVIOUS
  <2>2. ASSUME y < k PROVE <<y, k>> \in OpToRel(<, Nat)
    BY <2>1, <2>2 DEF OpToRel
  <2>3. ~ (y < k)
    BY <2>2, <1>4
  <2> QED BY <2>1, <2>3
<1>6. n - k \in S
  OBVIOUS
<1>7. \A j \in S : j <= n - k
  <2> SUFFICES ASSUME NEW j \in S PROVE j <= n - k
    OBVIOUS
  <2>1. j \in Nat /\ j <= n /\ n - j \in Nat /\ n - j <= n /\ n - (n - j) = j
    OBVIOUS
  <2>2. n - j \in T
    BY <2>1
  <2>3. k <= n - j
    BY <2>2, <1>5
  <2> QED BY <2>1, <2>3
<1> QED BY <1>6, <1>7

\* The Scene a reply starts from is a version number.
LEMMA CommittedSceneType ==
  ASSUME TypeOK, NEW v \in Conversations, NEW t \in Turns
  PROVE  CommittedScene(v, t) \in Nat
<1> DEFINE sent == SentBefore(v, t)
           last == CHOOSE i \in sent : \A j \in sent : j <= i
<1>1. log[v] \in Seq(Turns) /\ Len(log[v]) \in Nat
  BY DEF TypeOK, LedgerOK
<1>2. sent \in SUBSET (1..Len(log[v]))
  BY DEF SentBefore
<1>3. ASSUME sent # {} PROVE row[log[v][last]].scene \in Nat
  <2>1. \E i \in sent : \A j \in sent : j <= i
    BY <1>1, <1>2, <1>3, LastPosition
  <2>2. last \in sent
    BY <2>1
  <2>3. log[v][last] \in Turns
    BY <1>1, <1>2, <2>2
  <2> QED BY <2>3 DEF TypeOK, RowsOK, Row
<1> QED BY <1>3 DEF CommittedScene

-----------------------------------------------------------------------------
\* Type correctness, one lemma per kind of step.

USE ChatTurnsAssumption

LEMMA HomeType == \A t \in Turns : Home(t) \in Conversations
BY DEF Home

\* The fields of a row of the right type.
LEMMA RowFields ==
  ASSUME TypeOK, NEW t \in Turns
  PROVE  /\ row[t] \in Row
         /\ row[t].status \in {"absent", "deleted"} \cup ActiveAssistantStates \cup Outcomes
         /\ row[t].attempt \in 0..MaxAttempt
         /\ row[t].scene \in Nat
         /\ row[t].day \in 1..LastDay
         /\ row[t].status # "absent" => row[t].attempt \in Attempts
<1>1. row[t] \in Row /\ (row[t].attempt = 0 <=> row[t].status = "absent")
  BY DEF TypeOK, RowsOK
<1> QED BY <1>1 DEF Row, Attempts

LEMMA FreshAttemptType ==
  ASSUME TypeOK, NEW t \in Turns, NEW blocked \in BOOLEAN, NEW attempt \in 0..MaxAttempt,
         NEW scene \in Nat, NEW day \in 1..LastDay
  PROVE  FreshAttempt(t, blocked, attempt, scene, day) \in Row
<1>1. row[t].counted \in BOOLEAN
  BY RowFields DEF Row
<1> QED BY <1>1 DEF FreshAttempt, Row, ActiveAssistantStates, Outcomes, Authorities

LEMMA DeletedRowType ==
  ASSUME TypeOK, NEW t \in Turns PROVE DeletedRow(t) \in Row
BY RowFields DEF DeletedRow, NoRow, Row, Authorities

\* The updates of a row keep its type and its attempt.
LEMMA RowUpdates ==
  ASSUME TypeOK, NEW t \in Turns
  PROVE  /\ \A w \in Workers \cup {NoWorker} :
              Leased(t, w) \in Row /\ Leased(t, w).attempt = row[t].attempt
                                  /\ Leased(t, w).status = row[t].status
         /\ Generating(t) \in Row /\ Generating(t).attempt = row[t].attempt
                                 /\ Generating(t).status = "generating"
         /\ \A o \in Outcomes, b \in Authorities :
              Ended(t, o, b) \in Row /\ Ended(t, o, b).attempt = row[t].attempt
                                    /\ Ended(t, o, b).status = o
         /\ Selected(t) \in Row /\ Selected(t).attempt = row[t].attempt
                               /\ Selected(t).status = "sent"
<1>1. row[t] \in Row
  BY RowFields
<1>2. \A w \in Workers \cup {NoWorker} :
              Leased(t, w) \in Row /\ Leased(t, w).attempt = row[t].attempt
                                  /\ Leased(t, w).status = row[t].status
  BY <1>1 DEF Row, Leased
<1>3. Generating(t) \in Row /\ Generating(t).attempt = row[t].attempt
                                 /\ Generating(t).status = "generating"
  BY <1>1 DEF Row, Generating, ActiveAssistantStates
<1>4. \A o \in Outcomes, b \in Authorities :
              Ended(t, o, b) \in Row /\ Ended(t, o, b).attempt = row[t].attempt
                                    /\ Ended(t, o, b).status = o
  BY <1>1 DEF Row, Ended
<1>5. Selected(t) \in Row /\ Selected(t).attempt = row[t].attempt
                               /\ Selected(t).status = "sent"
  <2>1. row[t].scene + 1 \in Nat /\ "sent" \in Outcomes /\ "chat" \in Authorities
    BY RowFields DEF Outcomes, Authorities
  <2> QED BY <1>1, <2>1 DEF Row, Selected
<1> QED BY <1>2, <1>3, <1>4, <1>5

LEMMA TypeInit == Init => TypeOK
<1> SUFFICES ASSUME Init PROVE TypeOK
  OBVIOUS
<1>1. 1 \in 1..LastDay /\ 0 \in 0..MaxAttempt /\ 0 \in Fences
  BY DEF Fences, Whole
<1>2. NoRow("absent", 0, 1) \in Row
  BY <1>1 DEF NoRow, Row, Authorities
<1>3. RowsOK
  BY <1>2 DEF Init, NoRow, RowsOK
<1>4. LedgerOK
  BY <1>1 DEF Init, LedgerOK
<1>5. MemoryOK
  BY <1>1 DEF Init, MemoryOK
<1>6. ChatOK /\ ClearOK
  BY DEF Init, ChatOK, ClearOK
<1> QED BY <1>3, <1>4, <1>5, <1>6 DEF TypeOK

\* Steps that change one row.
LEMMA RowStep ==
  ASSUME TypeOK, NEW t \in Turns, NEW r \in Row,
         r.attempt = 0 <=> r.status = "absent",
         row' = [row EXCEPT ![t] = r]
  PROVE  /\ RowsOK'
         /\ row'[t] = r
         /\ \A u \in Turns : u # t => row'[u] = row[u]
BY DEF TypeOK, RowsOK

LEMMA TypeBegin ==
  ASSUME TypeOK, NEW t \in Turns, BeginChatTurn(t) \/ BeginBlockedTurn(t)
  PROVE  TypeOK'
<1>1. CommittedScene(Home(t), t) \in Nat /\ Home(t) \in Conversations
  BY HomeType, CommittedSceneType
<1>2. today \in 1..LastDay /\ 1 \in 0..MaxAttempt
  BY DEF TypeOK, LedgerOK
<1>3. PICK b \in BOOLEAN :
        /\ row' = [row EXCEPT ![t] = FreshAttempt(t, b, 1, CommittedScene(Home(t), t), today)]
        /\ log' = [log EXCEPT ![Home(t)] = Append(@, t)]
        /\ usage' \in {usage, [usage EXCEPT ![t] = Reserved(@)]}
        /\ UNCHANGED <<conv, today, memory, owed, purged, stops, job, posted, acked, clear>>
  BY DEF BeginChatTurn, BeginBlockedTurn, memoryVars, chatVars
<1> DEFINE r == FreshAttempt(t, b, 1, CommittedScene(Home(t), t), today)
<1>4. r \in Row
  BY <1>1, <1>2, FreshAttemptType
<1>5. r.attempt = 1 /\ r.status # "absent"
  BY DEF FreshAttempt
<1>6. RowsOK'
  <2>1. r.attempt = 0 <=> r.status = "absent"
    BY <1>5
  <2>2. row' = [row EXCEPT ![t] = r]
    BY <1>3
  <2> HIDE DEF r
  <2> QED BY <1>4, <2>1, <2>2, RowStep
<1>7. LedgerOK'
  <2>1. Append(log[Home(t)], t) \in Seq(Turns)
    BY <1>1 DEF TypeOK, LedgerOK
  <2>2. usage' \in [Turns -> {"none", "held", "voided", "consumed"}]
    BY <1>3 DEF TypeOK, LedgerOK, Reserved
  <2> QED BY <1>3, <2>1, <2>2 DEF TypeOK, LedgerOK
<1>8. MemoryOK' /\ ChatOK' /\ ClearOK'
  BY <1>3 DEF TypeOK, MemoryOK, ChatOK, ClearOK
<1> QED BY <1>6, <1>7, <1>8 DEF TypeOK

LEMMA TypeRevise ==
  ASSUME TypeOK, NEW t \in Turns, Revise(t) \/ EditToBlocked(t)
  PROVE  TypeOK'
<1>1. CommittedScene(Home(t), t) \in Nat
  BY HomeType, CommittedSceneType
<1>2. row[t].day \in 1..LastDay /\ row[t].attempt \in 0..MaxAttempt /\ row[t].attempt < MaxAttempt
  BY RowFields DEF Revise, EditToBlocked, CanRevise
<1>3. row[t].attempt + 1 \in 0..MaxAttempt /\ row[t].attempt \in Fences
  BY <1>2 DEF Fences, Whole
<1>4. PICK b \in BOOLEAN :
        /\ row' = [row EXCEPT ![t] = FreshAttempt(t, b, row[t].attempt + 1,
                                                  CommittedScene(Home(t), t), row[t].day)]
        /\ usage' \in {usage, [usage EXCEPT ![t] = Reserved(@)]}
        /\ memory' = [memory EXCEPT ![Character(t)] = "rebuild"]
        /\ owed' = [owed EXCEPT ![t] = row[t].attempt]
        /\ UNCHANGED <<conv, log, today, purged, stops, job, posted, acked, clear>>
  BY DEF Revise, EditToBlocked, ScheduleRebuild, chatVars
<1> DEFINE r == FreshAttempt(t, b, row[t].attempt + 1, CommittedScene(Home(t), t), row[t].day)
<1>5. r \in Row
  BY <1>1, <1>2, <1>3, FreshAttemptType
<1>6. r.attempt # 0 /\ r.status # "absent"
  BY <1>2 DEF FreshAttempt
<1>7. RowsOK'
  BY <1>4, <1>5, <1>6, RowStep
<1>8. LedgerOK' /\ ChatOK' /\ ClearOK'
  BY <1>4 DEF TypeOK, LedgerOK, ChatOK, ClearOK, Reserved
<1>9. MemoryOK'
  BY <1>3, <1>4 DEF TypeOK, MemoryOK
<1> QED BY <1>7, <1>8, <1>9 DEF TypeOK

\* The dispatcher's steps move leases and jobs and nothing else of the ledger.
LEMMA TypeAdmission ==
  ASSUME TypeOK, NEW w \in Workers,
         \/ \E t \in Turns : ClaimAdmission(w, t)
         \/ ConfirmAdmission(w) \/ ReleaseAdmission(w) \/ AbandonAdmission(w)
  PROVE  TypeOK'
<1>1. LedgerOK' /\ MemoryOK' /\ ClearOK'
  BY DEF ClaimAdmission, ConfirmAdmission, ReleaseAdmission, AbandonAdmission,
         ledgerVars, memoryVars, TypeOK, LedgerOK, MemoryOK, ClearOK
<1>2. ASSUME NEW t \in Turns, ClaimAdmission(w, t) PROVE RowsOK' /\ ChatOK'
  <2>1. row[t].attempt \in Attempts /\ row[t].status = "pending"
    BY <1>2, RowFields DEF ClaimAdmission
  <2>2. RowsOK'
    <3> DEFINE r == Leased(t, w)
    <3>1. r \in Row /\ (r.attempt = 0 <=> r.status = "absent")
      BY <2>1, RowUpdates DEF Attempts
    <3>2. row' = [row EXCEPT ![t] = r]
      BY <1>2 DEF ClaimAdmission
    <3> HIDE DEF r
    <3> QED BY <3>1, <3>2, RowStep
  <2>3. ChatOK'
    BY <1>2, <2>1 DEF ClaimAdmission, TypeOK, ChatOK
  <2> QED BY <2>2, <2>3
<1>3. ASSUME HoldsLease(w)
      PROVE  job[w][1] \in Turns /\ row[job[w][1]].status = "pending"
             /\ row[job[w][1]].attempt \in Attempts
  <2>1. job[w] \in Turns \X Attempts
    BY <1>3 DEF HoldsLease, TypeOK, ChatOK
  <2> QED BY <1>3, <2>1 DEF HoldsLease
<1>4. CASE ConfirmAdmission(w)
  <2>1. RowsOK'
    <3> DEFINE t == job[w][1]
               r == Generating(job[w][1])
    <3>1. t \in Turns /\ row[t].status = "pending" /\ row[t].attempt \in Attempts
      BY <1>3, <1>4 DEF ConfirmAdmission
    <3>2. r \in Row /\ (r.attempt = 0 <=> r.status = "absent")
      BY <3>1, RowUpdates DEF Attempts
    <3>3. row' = [row EXCEPT ![t] = r]
      BY <1>4 DEF ConfirmAdmission
    <3> HIDE DEF t, r
    <3> QED BY <3>1, <3>2, <3>3, RowStep
  <2>2. ChatOK'
    BY <1>4 DEF ConfirmAdmission, TypeOK, ChatOK
  <2> QED BY <1>1, <2>1, <2>2 DEF TypeOK
<1>5. CASE ReleaseAdmission(w)
  <2>1. RowsOK'
    <3> DEFINE t == job[w][1]
               r == Leased(job[w][1], NoWorker)
    <3>1. t \in Turns /\ row[t].status = "pending" /\ row[t].attempt \in Attempts
      BY <1>3, <1>5 DEF ReleaseAdmission
    <3>2. r \in Row /\ (r.attempt = 0 <=> r.status = "absent")
      BY <3>1, RowUpdates DEF Attempts
    <3>3. row' = [row EXCEPT ![t] = r]
      BY <1>5 DEF ReleaseAdmission
    <3> HIDE DEF t, r
    <3> QED BY <3>1, <3>2, <3>3, RowStep
  <2>2. ChatOK'
    BY <1>5 DEF ReleaseAdmission, TypeOK, ChatOK
  <2> QED BY <1>1, <2>1, <2>2 DEF TypeOK
<1>6. CASE AbandonAdmission(w)
  <2>1. RowsOK' /\ ChatOK'
    BY <1>6 DEF AbandonAdmission, ledgerVars, TypeOK, RowsOK, ChatOK
  <2> QED BY <1>1, <2>1 DEF TypeOK
<1> QED BY <1>1, <1>2, <1>4, <1>5, <1>6 DEF TypeOK

LEMMA TypeEnd ==
  ASSUME TypeOK, NEW t \in Turns,
         \/ \E a \in Attempts, o \in ChatOutcomes : CommitChatTerminal(t, a, o)
         \/ CancelChatTurn(t) \/ FailStalledChatTurn(t)
  PROVE  TypeOK'
<1>1. \A o, b : Settled(t, o, b) \in {"none", "held", "voided", "consumed"}
  BY DEF Settled, TypeOK, LedgerOK
<1>2. row[t].attempt \in 0..MaxAttempt /\ (Active(t) => row[t].attempt \in Attempts)
  BY RowFields DEF Active, ActiveAssistantStates
<1>3. ASSUME Active(t), NEW r \in Row, r.attempt = row[t].attempt, r.status # "absent",
             row' = [row EXCEPT ![t] = r]
      PROVE  RowsOK'
  <2>1. r.attempt = 0 <=> r.status = "absent"
    BY <1>2, <1>3 DEF Attempts
  <2> QED BY <1>3, <2>1, RowStep
<1>4. ASSUME NEW a \in Attempts, NEW o \in ChatOutcomes, CommitChatTerminal(t, a, o)
      PROVE  TypeOK'
  <2>1. o \in Outcomes /\ "chat" \in Authorities /\ o # "absent"
    BY DEF Outcomes, Authorities
  <2> DEFINE r == IF o = "sent" THEN Selected(t) ELSE Ended(t, o, "chat")
  <2>2. r \in Row /\ r.attempt = row[t].attempt /\ r.status # "absent"
    BY <2>1, RowUpdates
  <2>3. row' = [row EXCEPT ![t] = r] /\ Active(t)
    BY <1>4 DEF CommitChatTerminal
  <2>4. RowsOK'
    <3> HIDE DEF r
    <3> QED BY <1>3, <2>2, <2>3
  <2>5. LedgerOK' /\ MemoryOK' /\ ClearOK'
    BY <1>1, <1>4 DEF CommitChatTerminal, memoryVars, TypeOK, LedgerOK, MemoryOK, ClearOK
  <2>6. ChatOK'
    BY <1>4, <2>1 DEF CommitChatTerminal, TypeOK, ChatOK
  <2> QED BY <2>4, <2>5, <2>6 DEF TypeOK
<1>5. ASSUME NEW o \in Outcomes, NEW b \in Authorities, Active(t),
             row' = [row EXCEPT ![t] = Ended(t, o, b)],
             usage' = [usage EXCEPT ![t] = Settled(t, o, row[t].admitted)],
             stops' = stops \cup {<<t, row[t].attempt>>},
             UNCHANGED <<conv, log, today, memory, owed, purged, chatVars, clear>>
      PROVE  TypeOK'
  <2> DEFINE r == Ended(t, o, b)
  <2>1. r \in Row /\ r.attempt = row[t].attempt /\ r.status # "absent"
    BY RowUpdates DEF Outcomes
  <2>2. RowsOK'
    <3>1. row' = [row EXCEPT ![t] = r]
      BY <1>5
    <3> HIDE DEF r
    <3> QED BY <1>3, <1>5, <2>1, <3>1
  <2>3. LedgerOK' /\ ChatOK' /\ ClearOK'
    BY <1>1, <1>5 DEF chatVars, TypeOK, LedgerOK, ChatOK, ClearOK
  <2>4. MemoryOK'
    <3>1. row[t].attempt \in Attempts
      BY <1>5, RowFields DEF Active, ActiveAssistantStates, Attempts, TypeOK, RowsOK
    <3> QED BY <1>5, <3>1 DEF TypeOK, MemoryOK
  <2> QED BY <2>2, <2>3, <2>4 DEF TypeOK
<1>6. {"cancelled", "failed"} \subseteq Outcomes
      /\ {"main_user_cancel", "main_stalled_attempt_reclaim"} \subseteq Authorities
  BY DEF Outcomes, Authorities
<1>7. CASE CancelChatTurn(t)
  <2>1. /\ Active(t)
        /\ row' = [row EXCEPT ![t] = Ended(t, "cancelled", "main_user_cancel")]
        /\ usage' = [usage EXCEPT ![t] = Settled(t, "cancelled", row[t].admitted)]
        /\ stops' = stops \cup {<<t, row[t].attempt>>}
        /\ UNCHANGED <<conv, log, today, memory, owed, purged, chatVars, clear>>
    BY <1>7 DEF CancelChatTurn
  <2> QED BY <1>5, <1>6, <2>1
<1>8. CASE FailStalledChatTurn(t)
  <2>1. /\ Active(t)
        /\ row' = [row EXCEPT ![t] = Ended(t, "failed", "main_stalled_attempt_reclaim")]
        /\ usage' = [usage EXCEPT ![t] = Settled(t, "failed", row[t].admitted)]
        /\ stops' = stops \cup {<<t, row[t].attempt>>}
        /\ UNCHANGED <<conv, log, today, memory, owed, purged, chatVars, clear>>
    BY <1>8 DEF FailStalledChatTurn, Active, ActiveAssistantStates
  <2> QED BY <1>5, <1>6, <2>1
<1> QED BY <1>4, <1>7, <1>8

LEMMA TypeDelete ==
  ASSUME TypeOK, NEW t \in Turns, DeleteChatMessage(t)
  PROVE  TypeOK'
<1>1. Home(t) \in Conversations /\ log[Home(t)] # <<>> /\ row[t].status # "absent"
  BY HomeType DEF DeleteChatMessage, Latest, Exists
<1> DEFINE r == DeletedRow(t)
<1>2. RowsOK'
  <2>1. r \in Row /\ r.attempt \in Attempts /\ r.status = "deleted"
    BY <1>1, DeletedRowType, RowFields DEF DeletedRow, NoRow
  <2>2. r.attempt = 0 <=> r.status = "absent"
    BY <2>1 DEF Attempts
  <2>3. row' = [row EXCEPT ![t] = r]
    BY DEF DeleteChatMessage
  <2> HIDE DEF r
  <2> QED BY <2>1, <2>2, <2>3, RowStep
<1>3. LedgerOK'
  <2>1. log[Home(t)] \in Seq(Turns) /\ Len(log[Home(t)]) \in Nat /\ Len(log[Home(t)]) > 0
    BY <1>1 DEF TypeOK, LedgerOK
  <2>2. SubSeq(log[Home(t)], 1, Len(log[Home(t)]) - 1) \in Seq(Turns)
    BY <2>1
  <2> QED BY <2>2 DEF DeleteChatMessage, TypeOK, LedgerOK
<1>4. MemoryOK'
  <2>1. Whole \in Fences
    BY DEF Fences, Whole
  <2>2. /\ memory' = [memory EXCEPT ![Character(t)] = "rebuild"]
        /\ owed' = [owed EXCEPT ![t] = Whole]
        /\ UNCHANGED <<purged, stops>>
    BY DEF DeleteChatMessage, ScheduleRebuild
  <2> QED BY <2>1, <2>2 DEF TypeOK, MemoryOK
<1>5. ChatOK' /\ ClearOK'
  BY DEF DeleteChatMessage, chatVars, TypeOK, ChatOK, ClearOK
<1> QED BY <1>2, <1>3, <1>4, <1>5 DEF TypeOK

LEMMA TypeConversation ==
  ASSUME TypeOK, NEW v \in Conversations, DeleteConversation(v) \/ ArchiveConversation(v)
  PROVE  TypeOK'
<1>1. CASE DeleteConversation(v)
  <2>1. RowsOK'
    <3> DEFINE gone == {t \in Turns : Home(t) = v /\ Exists(t)}
               R == [t \in Turns |-> IF t \in gone THEN DeletedRow(t) ELSE row[t]]
    <3>1. row' = R
      BY <1>1 DEF DeleteConversation
    <3>2. \A t \in Turns : /\ row[t] \in Row /\ DeletedRow(t) \in Row
                           /\ DeletedRow(t).status = "deleted"
                           /\ DeletedRow(t).attempt = row[t].attempt
                           /\ Exists(t) => row[t].attempt \in Attempts
      BY RowFields, DeletedRowType DEF DeletedRow, NoRow, Exists
    <3>3. \A t \in Turns : R[t] \in Row /\ (R[t].attempt = 0 <=> R[t].status = "absent")
      BY <3>2 DEF TypeOK, RowsOK, Attempts, Exists
    <3>4. R \in [Turns -> Row]
      BY <3>3
    <3> HIDE DEF R
    <3> QED BY <3>1, <3>3, <3>4 DEF RowsOK
  <2>2. LedgerOK' /\ ChatOK' /\ ClearOK'
    BY <1>1 DEF DeleteConversation, chatVars, TypeOK, LedgerOK, ChatOK, ClearOK
  <2>3. MemoryOK'
    BY <1>1 DEF DeleteConversation, TypeOK, MemoryOK, Fences, Whole
  <2> QED BY <2>1, <2>2, <2>3 DEF TypeOK
<1>2. CASE ArchiveConversation(v)
  <2>1. LedgerOK' /\ RowsOK'
    BY <1>2 DEF ArchiveConversation, TypeOK, LedgerOK, RowsOK
  <2>2. MemoryOK' /\ ChatOK' /\ ClearOK'
    BY <1>2 DEF ArchiveConversation, memoryVars, chatVars, TypeOK, MemoryOK, ChatOK, ClearOK
  <2> QED BY <2>1, <2>2 DEF TypeOK
<1> QED BY <1>1, <1>2

LEMMA TypeClear ==
  ASSUME TypeOK, ClearWindow, (\E c \in Characters : ClearReads(c)) \/ ClearWrites
  PROVE  TypeOK'
<1>1. ASSUME NEW c \in Characters, ClearReads(c) PROVE TypeOK'
  <2>1. HomesOf(c) \subseteq Conversations
    BY DEF HomesOf
  <2>2. ClearOK'
    BY <1>1, <2>1 DEF ClearReads, ClearOK, ClearRead
  <2>3. RowsOK' /\ LedgerOK' /\ MemoryOK' /\ ChatOK'
    BY <1>1 DEF ClearReads, ledgerVars, memoryVars, chatVars, TypeOK, RowsOK, LedgerOK, MemoryOK,
                ChatOK
  <2> QED BY <2>2, <2>3 DEF TypeOK
<1>2. CASE ClearWrites
  <2>1. clear \in ClearRead /\ clear.character \in Characters
    BY <1>2 DEF ClearWrites, TypeOK, ClearOK, ClearRead
  <2>2. \A t \in Turns : t \in clear.active => row[t].status # "absent"
    BY <1>2 DEF ClearWrites, ClearWindow, Active, ActiveAssistantStates
  <2>3. RowsOK'
    <3> DEFINE R == [t \in Turns |->
                       IF t \in clear.active
                       THEN [Ended(t, "cancelled", "main_memory_clear") EXCEPT !.lease = NoWorker]
                       ELSE row[t]]
    <3>1. row' = R
      BY <1>2 DEF ClearWrites
    <3>2. ASSUME NEW t \in Turns
          PROVE  R[t] \in Row /\ (R[t].attempt = 0 <=> R[t].status = "absent")
      <4>1. row[t] \in Row /\ (row[t].attempt = 0 <=> row[t].status = "absent")
        BY DEF TypeOK, RowsOK
      <4>2. t \in clear.active => row[t].status # "absent"
        BY <2>2
      <4>3. row[t].attempt # 0 => [Ended(t, "cancelled", "main_memory_clear") EXCEPT !.lease = NoWorker]
                                    \in Row
        BY <4>1 DEF Row, Ended, Outcomes, Authorities
      <4>4. [Ended(t, "cancelled", "main_memory_clear") EXCEPT !.lease = NoWorker].attempt
              = row[t].attempt
            /\ [Ended(t, "cancelled", "main_memory_clear") EXCEPT !.lease = NoWorker].status
              = "cancelled"
        BY <4>1 DEF Row, Ended
      <4> QED BY <4>1, <4>2, <4>3, <4>4
    <3>3. R \in [Turns -> Row]
      BY <3>2
    <3> HIDE DEF R
    <3> QED BY <3>1, <3>2, <3>3 DEF RowsOK
  <2>4. LedgerOK'
    BY <1>2 DEF ClearWrites, Settled, TypeOK, LedgerOK
  <2>5. MemoryOK'
    <3>1. \A t \in clear.active : t \in Turns /\ row[t].attempt \in Attempts
      BY <2>1, <2>2, RowFields DEF ClearRead, Attempts, TypeOK, RowsOK
    <3>2. stops' \in SUBSET (Turns \X Attempts)
      BY <1>2, <3>1 DEF ClearWrites, TypeOK, MemoryOK
    <3>3. owed' \in [Turns -> Fences]
      BY <1>2 DEF ClearWrites, TypeOK, MemoryOK, Fences, Whole
    <3> QED BY <1>2, <3>2, <3>3 DEF ClearWrites, TypeOK, MemoryOK
  <2>6. ChatOK' /\ ClearOK'
    BY <1>2 DEF ClearWrites, chatVars, TypeOK, ChatOK, ClearOK
  <2> QED BY <2>3, <2>4, <2>5, <2>6 DEF TypeOK
<1> QED BY <1>1, <1>2

LEMMA TypeDelivery ==
  ASSUME TypeOK, \/ \E c \in Characters : SyncPurges(c) \/ MemoryEventDelivered(c)
                 \/ MidnightPasses
  PROVE  TypeOK'
<1>1. CASE \E c \in Characters : SyncPurges(c) \/ MemoryEventDelivered(c)
  <2>1. MemoryOK'
    BY <1>1 DEF SyncPurges, MemoryEventDelivered, TypeOK, MemoryOK, Fences, Whole
  <2>2. RowsOK' /\ LedgerOK' /\ ChatOK' /\ ClearOK'
    BY <1>1 DEF SyncPurges, MemoryEventDelivered, ledgerVars, chatVars, TypeOK, RowsOK, LedgerOK,
                ChatOK, ClearOK
  <2> QED BY <2>1, <2>2 DEF TypeOK
<1>2. CASE MidnightPasses
  <2>1. LedgerOK' /\ RowsOK'
    BY <1>2 DEF MidnightPasses, TypeOK, LedgerOK, RowsOK
  <2>2. MemoryOK' /\ ChatOK' /\ ClearOK'
    BY <1>2 DEF MidnightPasses, memoryVars, chatVars, TypeOK, MemoryOK, ChatOK, ClearOK
  <2> QED BY <2>1, <2>2 DEF TypeOK
<1> QED BY <1>1, <1>2

LEMMA TypeNext == TypeOK /\ ClearWindow /\ [Next]_vars => TypeOK'
<1> SUFFICES ASSUME TypeOK, ClearWindow, [Next]_vars PROVE TypeOK'
  OBVIOUS
<1>1. CASE UNCHANGED vars
  BY <1>1 DEF vars, ledgerVars, memoryVars, chatVars, TypeOK, RowsOK, LedgerOK, MemoryOK, ChatOK,
              ClearOK
<1>2. CASE Next
  BY <1>2, TypeBegin, TypeRevise, TypeAdmission, TypeEnd, TypeDelete, TypeConversation, TypeClear,
     TypeDelivery
     DEF Next, RegenerateChatTurn, EditChatTurn
<1> QED BY <1>1, <1>2

-----------------------------------------------------------------------------
\* The inductive invariant, one lemma per effect a step can have on the rows.

\* A running reply stays running and an ended one stays as it is: the
\* dispatcher's steps, outbox deliveries, midnight.
LEMMA QuietStep ==
  ASSUME Inductive, TypeOK',
         \A u \in Turns : /\ row'[u].attempt = row[u].attempt
                          /\ row'[u].counted = row[u].counted
                          /\ Active(u)' <=> Active(u)
                          /\ ~Active(u) => row'[u].status = row[u].status,
         UNCHANGED <<conv, usage, stops, acked, clear>>,
         \A p \in posted' : p \in posted \/ (Active(p[1]) /\ row[p[1]].attempt = p[2])
  PROVE  Inductive'
<1>1. /\ ClearWindow /\ AttemptsKnown /\ UsageFollowsRow /\ OneReplyPerConversation
      /\ ClosedConversationIsQuiet /\ UsageMatchesOutcome /\ AckIsTruth /\ SupersededRunIsFenced
  BY DEF Inductive
<1>2. /\ \A p \in posted' : p[1] \in Turns /\ p[2] \in Nat
      /\ \A x \in acked : x[1] \in Turns
      /\ \A p \in stops : p[1] \in Turns
  BY DEF TypeOK, ChatOK, MemoryOK, Attempts
<1>3. \A u \in Turns : Active(u) => row'[u].status \in {"pending", "generating"}
  BY DEF Active, ActiveAssistantStates
<1>4. ClearWindow'
  BY <1>1 DEF ClearWindow, Home
<1>5. AttemptsKnown'
  <2>1. \A u \in Turns : row[u].attempt \in Nat
    BY RowFields DEF Inductive
  <2> QED BY <1>1, <1>2, <2>1 DEF AttemptsKnown
<1>6. UsageFollowsRow'
  BY <1>1, <1>3 DEF UsageFollowsRow, Active, ActiveAssistantStates
<1>7. OneReplyPerConversation' /\ ClosedConversationIsQuiet'
  BY <1>1 DEF OneReplyPerConversation, ClosedConversationIsQuiet, Home
<1>8. UsageMatchesOutcome'
  BY <1>1, <1>3 DEF UsageMatchesOutcome
<1>9. AckIsTruth'
  <2>1. ASSUME NEW x \in acked, row[x[1]].attempt = x[2], row[x[1]].status \in {x[3], "deleted"}
        PROVE  row'[x[1]].status = row[x[1]].status
    <3>1. x[3] \in Outcomes
      BY DEF Inductive, TypeOK, ChatOK
    <3>2. ~Active(x[1])
      BY <2>1, <3>1 DEF Active, ActiveAssistantStates, Outcomes
    <3> QED BY <1>2, <3>2
  <2> QED BY <1>1, <1>2, <2>1 DEF AckIsTruth
<1>10. SupersededRunIsFenced'
  BY <1>1, <1>2 DEF SupersededRunIsFenced
<1> QED BY <1>4, <1>5, <1>6, <1>7, <1>8, <1>9, <1>10 DEF Inductive

\* One idle Turn gets its next attempt: running, or refused by moderation.
LEMMA StartStep ==
  ASSUME Inductive, TypeOK', NEW t \in Turns, ~Active(t),
         row'[t].attempt \in Attempts, row[t].attempt < row'[t].attempt,
         row'[t].counted = row[t].counted,
         \A u \in Turns : u # t => row'[u] = row[u] /\ usage'[u] = usage[u],
         UNCHANGED <<conv, stops, posted, acked, clear>>,
         \/ /\ row'[t].status = "pending"
            /\ UserLock /\ ActiveIn(Home(t)) = {} /\ conv[Home(t)] = "active"
            /\ usage'[t] \in {"held", "consumed"}
            /\ usage[t] = "consumed" => usage'[t] = "consumed"
         \/ row'[t].status = "blocked" /\ usage'[t] = usage[t]
  PROVE  Inductive'
<1>1. /\ ClearWindow /\ AttemptsKnown /\ UsageFollowsRow /\ OneReplyPerConversation
      /\ ClosedConversationIsQuiet /\ UsageMatchesOutcome /\ AckIsTruth /\ SupersededRunIsFenced
  BY DEF Inductive
<1>2. \A u \in Turns : row[u].attempt \in Nat /\ row'[u].attempt \in Nat
  <2>1. TypeOK /\ row'[t].attempt \in Nat
    BY DEF Inductive, Attempts
  <2> QED BY <2>1, RowFields
<1>3. /\ \A p \in posted : p[1] \in Turns /\ p[2] \in Nat
      /\ \A x \in acked : x[1] \in Turns /\ x[2] \in Nat
      /\ \A p \in stops : p[1] \in Turns /\ p[2] \in Nat
  BY DEF Inductive, TypeOK, ChatOK, MemoryOK, Attempts
<1>4. /\ \A u \in Turns : u # t => (Active(u)' <=> Active(u))
      /\ Active(t)' => /\ row'[t].status = "pending" /\ clear = NoClear
                       /\ ActiveIn(Home(t)) = {} /\ conv[Home(t)] = "active"
                       /\ usage'[t] \in {"held", "consumed"}
  BY DEF Active, ActiveAssistantStates, UserLock
<1>5. ClearWindow'
  <2>1. \A u \in Turns : Active(u)' /\ clear # NoClear <=> Active(u) /\ clear # NoClear
    BY <1>4
  <2> QED BY <1>1, <2>1 DEF ClearWindow, Home
<1>6. AttemptsKnown'
  BY <1>1, <1>2, <1>3 DEF AttemptsKnown
<1>7. usage[t] # "held" /\ (row[t].status = "absent" => usage[t] = "none")
  <2>1. row[t].status \in {"absent", "deleted"} \cup Outcomes
    BY RowFields DEF Inductive, Active
  <2> QED BY <1>1, <2>1 DEF UsageMatchesOutcome, UsageFollowsRow, Outcomes
<1>8. UsageFollowsRow'
  BY <1>1 DEF UsageFollowsRow
<1>9. OneReplyPerConversation'
  BY <1>1, <1>4 DEF OneReplyPerConversation, ActiveIn, Home
<1>10. ClosedConversationIsQuiet'
  BY <1>1, <1>4 DEF ClosedConversationIsQuiet, Home
<1>11. UsageMatchesOutcome'
  <2>1. \A u \in Turns : u # t => row'[u].status = row[u].status
    OBVIOUS
  <2> QED BY <1>1, <1>4, <1>7, <2>1 DEF UsageMatchesOutcome
<1>12. AckIsTruth'
  BY <1>1, <1>2, <1>3 DEF AckIsTruth, AttemptsKnown
<1>13. SupersededRunIsFenced'
  <2> SUFFICES ASSUME NEW p \in posted
               PROVE  \/ row'[p[1]].attempt = p[2] /\ Active(p[1])'
                      \/ \E o \in Outcomes : <<p[1], p[2], o>> \in acked
                      \/ p \in stops
    BY DEF SupersededRunIsFenced, Active
  <2>1. CASE row[p[1]].attempt = p[2] /\ Active(p[1])
    BY <1>3, <1>4, <2>1
  <2>2. CASE ~(row[p[1]].attempt = p[2] /\ Active(p[1]))
    BY <1>1, <2>2 DEF SupersededRunIsFenced
  <2> QED BY <2>1, <2>2
<1> QED BY <1>5, <1>6, <1>8, <1>9, <1>10, <1>11, <1>12, <1>13 DEF Inductive

\* Running replies end: one by a terminal, a Stop or the reaper, or all that a
\* memory clear found.
LEMMA EndStep ==
  ASSUME Inductive, TypeOK', clear' = NoClear, NEW E \in SUBSET Turns,
         UNCHANGED posted, acked \subseteq acked',
         stops \subseteq stops',
         \A p \in stops' : p \in stops \/ (p[1] \in E /\ p[2] = row[p[1]].attempt),
         \A u \in Turns : u \notin E => row'[u] = row[u] /\ usage'[u] = usage[u],
         \A u \in E :
           /\ Active(u)
           /\ row'[u].attempt = row[u].attempt
           /\ row'[u].status \in Outcomes
           /\ row'[u].counted => row[u].counted \/ row'[u].status = "sent"
           /\ usage'[u] \in {"voided", "consumed"}
           /\ row'[u].status = "sent" \/ usage[u] = "consumed" => usage'[u] = "consumed"
           /\ \/ <<u, row[u].attempt>> \in stops'
              \/ \E o \in Outcomes : <<u, row[u].attempt, o>> \in acked',
         \A x \in acked' :
           x \in acked \/ (x[1] \in E /\ x[2] = row[x[1]].attempt /\ x[3] = row'[x[1]].status),
         \A v \in Conversations : conv'[v] = conv[v] \/ ActiveIn(v) \subseteq E
  PROVE  Inductive'
<1>1. /\ ClearWindow /\ AttemptsKnown /\ UsageFollowsRow /\ OneReplyPerConversation
      /\ ClosedConversationIsQuiet /\ UsageMatchesOutcome /\ AckIsTruth /\ SupersededRunIsFenced
  BY DEF Inductive
<1>2. \A u \in Turns : row[u].attempt \in Nat
  BY RowFields DEF Inductive
<1>3. /\ \A p \in posted : p[1] \in Turns /\ p[2] \in Nat /\ p = <<p[1], p[2]>>
      /\ \A p \in stops' : p[1] \in Turns /\ p[2] \in Nat
      /\ \A x \in acked' : /\ x[1] \in Turns /\ x[2] \in Nat /\ x[3] \in Outcomes
                           /\ x = <<x[1], x[2], x[3]>>
  BY DEF TypeOK, ChatOK, MemoryOK, Attempts
<1>4. \A u \in Turns : /\ row'[u].attempt = row[u].attempt
                       /\ Active(u)' <=> Active(u) /\ u \notin E
                       /\ u \in E => row[u].status \in {"pending", "generating"}
  BY DEF Active, ActiveAssistantStates, Outcomes
<1>5. ClearWindow'
  BY DEF ClearWindow
<1>6. AttemptsKnown'
  <2>1. \A p \in posted' : p[2] <= row'[p[1]].attempt
    BY <1>1, <1>3, <1>4 DEF AttemptsKnown
  <2>2. \A x \in acked' : x[2] <= row'[x[1]].attempt
    BY <1>1, <1>2, <1>3, <1>4 DEF AttemptsKnown
  <2>3. \A p \in stops' : p[2] <= row'[p[1]].attempt
    BY <1>1, <1>2, <1>3, <1>4 DEF AttemptsKnown
  <2> QED BY <2>1, <2>2, <2>3 DEF AttemptsKnown
<1>7. UsageFollowsRow'
  BY <1>1 DEF UsageFollowsRow, Outcomes
<1>8. OneReplyPerConversation'
  BY <1>1, <1>4 DEF OneReplyPerConversation, Home
<1>9. ClosedConversationIsQuiet'
  BY <1>1, <1>4, HomeType DEF ClosedConversationIsQuiet, Home, ActiveIn
<1>10. UsageMatchesOutcome'
  <2> SUFFICES ASSUME NEW u \in Turns
               PROVE  /\ Active(u)' => usage'[u] \in {"held", "consumed"}
                      /\ row'[u].status = "sent" => usage'[u] = "consumed"
                      /\ row'[u].status \in {"failed", "cancelled", "blocked", "deleted"}
                           => usage'[u] # "held"
    BY DEF UsageMatchesOutcome
  <2> QED BY <1>1, <1>4 DEF UsageMatchesOutcome
<1>11. AckIsTruth'
  <2>1. \A x \in acked : x[1] \in E => x[2] < row[x[1]].attempt
    <3> SUFFICES ASSUME NEW x \in acked, x[1] \in E PROVE x[2] < row[x[1]].attempt
      OBVIOUS
    <3>1. row[x[1]].status \notin {x[3], "deleted"}
      BY <1>3, <1>4 DEF Outcomes
    <3> QED BY <1>1, <1>2, <1>3, <3>1 DEF AckIsTruth
  <2>2. ASSUME NEW x \in acked', NEW y \in acked', x[1] = y[1], x[2] = y[2] PROVE x = y
    <3>1. CASE x \in acked /\ y \in acked
      BY <1>1, <2>2, <3>1 DEF AckIsTruth
    <3>2. CASE x \in acked /\ y \notin acked
      BY <1>2, <1>3, <2>1, <2>2, <3>2
    <3>3. CASE x \notin acked /\ y \in acked
      BY <1>2, <1>3, <2>1, <2>2, <3>3
    <3>4. CASE x \notin acked /\ y \notin acked
      BY <1>3, <2>2, <3>4
    <3> QED BY <3>1, <3>2, <3>3, <3>4
  <2>3. ASSUME NEW x \in acked'
        PROVE  \/ row'[x[1]].attempt > x[2]
               \/ row'[x[1]].attempt = x[2] /\ row'[x[1]].status \in {x[3], "deleted"}
    <3>1. CASE x[1] \in E
      BY <1>2, <1>3, <1>4, <2>1, <3>1
    <3>2. CASE x[1] \notin E
      BY <1>1, <1>3, <1>4, <3>2 DEF AckIsTruth
    <3> QED BY <3>1, <3>2
  <2> QED BY <2>2, <2>3 DEF AckIsTruth
<1>12. SupersededRunIsFenced'
  <2> SUFFICES ASSUME NEW p \in posted
               PROVE  \/ row'[p[1]].attempt = p[2] /\ Active(p[1])'
                      \/ \E o \in Outcomes : <<p[1], p[2], o>> \in acked'
                      \/ p \in stops'
    BY DEF SupersededRunIsFenced, Active
  <2>1. CASE p[1] \in E
    <3>1. CASE p[2] = row[p[1]].attempt
      <4>1. p = <<p[1], row[p[1]].attempt>>
        BY <1>3, <3>1
      <4>2. \/ <<p[1], row[p[1]].attempt>> \in stops'
            \/ \E o \in Outcomes : <<p[1], row[p[1]].attempt, o>> \in acked'
        BY <2>1
      <4>3. \/ p \in stops'
            \/ \E o \in Outcomes : <<p[1], p[2], o>> \in acked'
        BY ONLY <3>1, <4>1, <4>2
      <4> QED BY <4>3
    <3>2. CASE p[2] # row[p[1]].attempt
      BY <1>1, <3>2 DEF SupersededRunIsFenced
    <3> QED BY <3>1, <3>2
  <2>2. CASE p[1] \notin E
    BY <1>1, <1>3, <1>4, <2>2 DEF SupersededRunIsFenced
  <2> QED BY <2>1, <2>2
<1> QED BY <1>5, <1>6, <1>7, <1>8, <1>9, <1>10, <1>11, <1>12 DEF Inductive

\* Idle Turns are deleted, or an idle conversation is closed.
LEMMA CloseStep ==
  ASSUME Inductive, TypeOK', UserLock, NEW S \in SUBSET Turns,
         UNCHANGED <<usage, stops, posted, acked, clear>>,
         \A u \in Turns : u \notin S => row'[u] = row[u],
         \A u \in S : row'[u] = DeletedRow(u) /\ ~Active(u) /\ row[u].status # "absent",
         \A v \in Conversations : conv'[v] = conv[v] \/ ActiveIn(v) = {}
  PROVE  Inductive'
<1>1. /\ AttemptsKnown /\ UsageFollowsRow /\ OneReplyPerConversation
      /\ ClosedConversationIsQuiet /\ UsageMatchesOutcome /\ AckIsTruth /\ SupersededRunIsFenced
  BY DEF Inductive
<1>2. \A u \in S : /\ row'[u].attempt = row[u].attempt /\ row'[u].status = "deleted"
                   /\ row'[u].counted = FALSE
  <2>1. \A u \in Turns : /\ DeletedRow(u).attempt = row[u].attempt
                         /\ DeletedRow(u).status = "deleted"
                         /\ DeletedRow(u).counted = FALSE
    BY DEF DeletedRow, NoRow
  <2> QED BY <2>1
<1>3. \A u \in Turns : (Active(u)' <=> Active(u)) /\ row'[u].attempt = row[u].attempt
  BY <1>2 DEF Active, ActiveAssistantStates
<1>4. /\ \A p \in posted : p[1] \in Turns
      /\ \A x \in acked : x[1] \in Turns
      /\ \A p \in stops : p[1] \in Turns
  BY DEF TypeOK, ChatOK, MemoryOK
<1>5. \A u \in S : usage[u] # "held"
  <2> SUFFICES ASSUME NEW u \in S PROVE usage[u] # "held"
    OBVIOUS
  <2>1. row[u].status \in {"deleted"} \cup Outcomes
    BY RowFields DEF Inductive, Active
  <2> QED BY <1>1, <2>1 DEF UsageMatchesOutcome, Outcomes
<1>6. ClearWindow'
  BY DEF ClearWindow, UserLock
<1>7. AttemptsKnown'
  BY <1>1, <1>3, <1>4 DEF AttemptsKnown
<1>8. UsageFollowsRow'
  BY <1>1, <1>2 DEF UsageFollowsRow
<1>9. OneReplyPerConversation'
  BY <1>1, <1>3 DEF OneReplyPerConversation, Home
<1>10. ClosedConversationIsQuiet'
  BY <1>1, <1>3, HomeType DEF ClosedConversationIsQuiet, Home, ActiveIn
<1>11. UsageMatchesOutcome'
  BY <1>1, <1>2, <1>3, <1>5 DEF UsageMatchesOutcome
<1>12. AckIsTruth'
  BY <1>1, <1>2, <1>3, <1>4 DEF AckIsTruth
<1>13. SupersededRunIsFenced'
  BY <1>1, <1>3, <1>4 DEF SupersededRunIsFenced
<1> QED BY <1>6, <1>7, <1>8, <1>9, <1>10, <1>11, <1>12, <1>13 DEF Inductive

-----------------------------------------------------------------------------
\* The invariant holds initially and every action keeps it.

LEMMA InductiveInit == Init => Inductive
<1> SUFFICES ASSUME Init PROVE Inductive
  OBVIOUS
<1>1. TypeOK
  BY TypeInit
<1>2. \A t \in Turns : row[t].status = "absent" /\ row[t].attempt = 0 /\ row[t].counted = FALSE
                       /\ usage[t] = "none" /\ ~Active(t)
  BY DEF Init, NoRow, Active, ActiveAssistantStates
<1>3. ClearWindow /\ AttemptsKnown /\ UsageFollowsRow
  BY <1>2 DEF Init, ClearWindow, AttemptsKnown, UsageFollowsRow
<1>4. OneReplyPerConversation /\ ClosedConversationIsQuiet /\ UsageMatchesOutcome
  BY <1>2 DEF OneReplyPerConversation, ClosedConversationIsQuiet, UsageMatchesOutcome
<1>5. AckIsTruth /\ SupersededRunIsFenced
  BY DEF Init, AckIsTruth, SupersededRunIsFenced
<1> QED BY <1>1, <1>3, <1>4, <1>5 DEF Inductive

LEMMA InductiveBegin ==
  ASSUME Inductive, TypeOK', NEW t \in Turns, BeginChatTurn(t) \/ BeginBlockedTurn(t)
  PROVE  Inductive'
<1>1. row \in [Turns -> Row] /\ usage \in [Turns -> {"none", "held", "voided", "consumed"}]
  BY DEF Inductive, TypeOK, RowsOK, LedgerOK
<1>2. row[t].status = "absent" /\ row[t].attempt = 0 /\ ~Active(t) /\ 1 \in Attempts
  <2>1. row[t].status = "absent"
    BY DEF BeginChatTurn, BeginBlockedTurn
  <2>2. row[t].attempt = 0
    BY <2>1 DEF Inductive, TypeOK, RowsOK
  <2>3. ~Active(t) /\ 1 \in Attempts
    BY <2>1 DEF Active, ActiveAssistantStates, Attempts
  <2> QED BY <2>1, <2>2, <2>3
<1>3. UNCHANGED <<conv, stops, posted, acked, clear>>
  BY DEF BeginChatTurn, BeginBlockedTurn, memoryVars, chatVars
<1>4. PICK b \in BOOLEAN :
        /\ row' = [row EXCEPT ![t] = FreshAttempt(t, b, 1, CommittedScene(Home(t), t), today)]
        /\ \/ b /\ usage' = usage
           \/ ~b /\ BeginChatTurn(t) /\ usage' = [usage EXCEPT ![t] = Reserved(@)]
  BY DEF BeginChatTurn, BeginBlockedTurn
<1>5. /\ row'[t].attempt = 1 /\ row'[t].counted = row[t].counted
      /\ row'[t].status = IF b THEN "blocked" ELSE "pending"
      /\ \A u \in Turns : u # t => row'[u] = row[u]
  BY <1>1, <1>4 DEF FreshAttempt
<1>6. \A u \in Turns : u # t => usage'[u] = usage[u]
  BY <1>1, <1>4
<1>7. CASE b
  <2>1. row'[t].status = "blocked" /\ usage'[t] = usage[t]
    BY <1>4, <1>5, <1>7
  <2>2. row[t].attempt < row'[t].attempt /\ row'[t].attempt \in Attempts
    BY <1>2, <1>5
  <2> QED BY <1>2, <1>3, <1>5, <1>6, <2>1, <2>2, StartStep
<1>8. CASE ~b
  <2>1. UserLock /\ ActiveIn(Home(t)) = {} /\ conv[Home(t)] = "active"
    BY <1>4, <1>8 DEF BeginChatTurn
  <2>2. usage'[t] = Reserved(usage[t])
    BY <1>1, <1>4, <1>8
  <2>3. usage[t] = "none" /\ usage'[t] = "held"
    BY <1>2, <2>2 DEF Reserved, Inductive, UsageFollowsRow
  <2> QED BY <1>2, <1>3, <1>5, <1>6, <1>8, <2>1, <2>3, StartStep
<1> QED BY <1>7, <1>8

LEMMA InductiveRevise ==
  ASSUME Inductive, TypeOK', NEW t \in Turns, Revise(t) \/ EditToBlocked(t)
  PROVE  Inductive'
<1>1. row \in [Turns -> Row] /\ usage \in [Turns -> {"none", "held", "voided", "consumed"}]
  BY DEF Inductive, TypeOK, RowsOK, LedgerOK
<1>2. row[t].attempt \in Nat /\ row[t].attempt + 1 \in Attempts /\ CanRevise(t) /\ ~Active(t)
  <2>1. CanRevise(t)
    BY DEF Revise, EditToBlocked
  <2>2. row[t].attempt \in 0..MaxAttempt
    BY RowFields DEF Inductive
  <2>3. ~Active(t) /\ row[t].attempt < MaxAttempt
    BY <2>1 DEF CanRevise
  <2> QED BY <2>1, <2>2, <2>3 DEF Attempts
<1>3. UNCHANGED <<conv, stops, posted, acked, clear>>
  BY DEF Revise, EditToBlocked, ScheduleRebuild, chatVars
<1>4. PICK b \in BOOLEAN :
        /\ row' = [row EXCEPT ![t] = FreshAttempt(t, b, row[t].attempt + 1,
                                                  CommittedScene(Home(t), t), row[t].day)]
        /\ \/ b /\ usage' = usage
           \/ ~b /\ Revise(t) /\ usage' = [usage EXCEPT ![t] = Reserved(@)]
  BY DEF Revise, EditToBlocked
<1>5. /\ row'[t].attempt = row[t].attempt + 1 /\ row'[t].counted = row[t].counted
      /\ row'[t].status = IF b THEN "blocked" ELSE "pending"
      /\ \A u \in Turns : u # t => row'[u] = row[u]
  BY <1>1, <1>4 DEF FreshAttempt
<1>6. \A u \in Turns : u # t => usage'[u] = usage[u]
  BY <1>1, <1>4
<1>7. row[t].attempt < row'[t].attempt /\ row'[t].attempt \in Attempts
  BY <1>2, <1>5
<1>8. CASE b
  BY <1>2, <1>3, <1>4, <1>5, <1>6, <1>7, <1>8, StartStep
<1>9. CASE ~b
  <2>1. UserLock /\ ActiveIn(Home(t)) \ {t} = {} /\ conv[Home(t)] = "active"
    BY <1>4, <1>9 DEF Revise, CanRevise
  <2>2. ActiveIn(Home(t)) = {}
    BY <1>2, <2>1 DEF ActiveIn
  <2>3. usage'[t] = Reserved(usage[t])
    BY <1>1, <1>4, <1>9
  <2>4. usage'[t] \in {"held", "consumed"} /\ (usage[t] = "consumed" => usage'[t] = "consumed")
    BY <1>1, <2>3 DEF Reserved
  <2> QED BY <1>2, <1>3, <1>5, <1>6, <1>7, <1>9, <2>1, <2>2, <2>4, StartStep
<1> QED BY <1>8, <1>9

LEMMA InductiveAdmission ==
  ASSUME Inductive, TypeOK', NEW w \in Workers,
         \/ \E t \in Turns : ClaimAdmission(w, t)
         \/ ConfirmAdmission(w) \/ ReleaseAdmission(w) \/ AbandonAdmission(w)
  PROVE  Inductive'
<1>1. row \in [Turns -> Row] /\ job \in [Workers -> (Turns \X Attempts) \cup {NoJob}]
  BY DEF Inductive, TypeOK, RowsOK, ChatOK
<1>2. UNCHANGED <<conv, usage, stops, acked, clear>>
  BY DEF ClaimAdmission, ConfirmAdmission, ReleaseAdmission, AbandonAdmission,
         ledgerVars, memoryVars
<1>3. \A u \in Turns : /\ \A x \in Workers \cup {NoWorker} :
                            /\ Leased(u, x).attempt = row[u].attempt
                            /\ Leased(u, x).status = row[u].status
                            /\ Leased(u, x).counted = row[u].counted
                       /\ Generating(u).attempt = row[u].attempt
                       /\ Generating(u).status = "generating"
                       /\ Generating(u).counted = row[u].counted
  BY <1>1 DEF Leased, Generating, Row
<1>4. ASSUME NEW t \in Turns, row[t].status = "pending", NEW r, row' = [row EXCEPT ![t] = r],
             r.attempt = row[t].attempt, r.counted = row[t].counted,
             r.status \in {"pending", "generating"},
             \A p \in posted' : p \in posted \/ p = <<t, row[t].attempt>>
      PROVE  Inductive'
  <2>1. \A u \in Turns : /\ row'[u].attempt = row[u].attempt
                         /\ row'[u].counted = row[u].counted
                         /\ Active(u)' <=> Active(u)
                         /\ ~Active(u) => row'[u].status = row[u].status
    BY <1>1, <1>4 DEF Active, ActiveAssistantStates
  <2>2. \A p \in posted' : p \in posted \/ (Active(p[1]) /\ row[p[1]].attempt = p[2])
    BY <1>4 DEF Active, ActiveAssistantStates
  <2> QED BY <1>2, <2>1, <2>2, QuietStep
<1>5. ASSUME NEW t \in Turns, ClaimAdmission(w, t) PROVE Inductive'
  <2> DEFINE r == Leased(t, w)
  <2>1. row[t].status = "pending" /\ row' = [row EXCEPT ![t] = r]
        /\ posted' = posted \cup {<<t, row[t].attempt>>}
    BY <1>5 DEF ClaimAdmission
  <2>2. r.attempt = row[t].attempt /\ r.counted = row[t].counted /\ r.status = "pending"
    BY <1>3, <2>1
  <2> HIDE DEF r
  <2> QED BY <1>4, <2>1, <2>2
<1>6. ASSUME HoldsLease(w) PROVE job[w][1] \in Turns /\ row[job[w][1]].status = "pending"
  BY <1>1, <1>6 DEF HoldsLease
<1>7. CASE ConfirmAdmission(w)
  <2> DEFINE t == job[w][1]
             r == Generating(job[w][1])
  <2>1. t \in Turns /\ row[t].status = "pending" /\ row' = [row EXCEPT ![t] = r]
        /\ posted' = posted
    BY <1>6, <1>7 DEF ConfirmAdmission
  <2>2. r.attempt = row[t].attempt /\ r.counted = row[t].counted /\ r.status = "generating"
    BY <1>3, <2>1
  <2> HIDE DEF t, r
  <2> QED BY <1>4, <2>1, <2>2
<1>8. CASE ReleaseAdmission(w)
  <2> DEFINE t == job[w][1]
             r == Leased(job[w][1], NoWorker)
  <2>1. t \in Turns /\ row[t].status = "pending" /\ row' = [row EXCEPT ![t] = r]
        /\ posted' = posted
    BY <1>6, <1>8 DEF ReleaseAdmission
  <2>2. r.attempt = row[t].attempt /\ r.counted = row[t].counted /\ r.status = "pending"
    BY <1>3, <2>1
  <2> HIDE DEF t, r
  <2> QED BY <1>4, <2>1, <2>2
<1>9. CASE AbandonAdmission(w)
  <2>1. row' = row /\ posted' = posted
    BY <1>9 DEF AbandonAdmission, ledgerVars
  <2>2. \A u \in Turns : Active(u)' <=> Active(u)
    BY <2>1 DEF Active
  <2> QED BY <1>2, <2>1, <2>2, QuietStep
<1> QED BY <1>5, <1>7, <1>8, <1>9

\* What settling leaves of an allowance fact that a running reply holds.
LEMMA SettledHeld ==
  ASSUME NEW t \in Turns, usage[t] \in {"held", "consumed"}, NEW o, NEW b
  PROVE  /\ Settled(t, o, b) \in {"voided", "consumed"}
         /\ o = "sent" \/ usage[t] = "consumed" => Settled(t, o, b) = "consumed"
BY DEF Settled

LEMMA InductiveEnd ==
  ASSUME Inductive, TypeOK', NEW t \in Turns,
         \/ \E a \in Attempts, o \in ChatOutcomes : CommitChatTerminal(t, a, o)
         \/ CancelChatTurn(t) \/ FailStalledChatTurn(t)
  PROVE  Inductive'
<1>1. /\ row \in [Turns -> Row] /\ usage \in [Turns -> {"none", "held", "voided", "consumed"}]
      /\ UsageMatchesOutcome
  BY DEF Inductive, TypeOK, RowsOK, LedgerOK, MemoryOK
<1>2. Active(t) /\ clear = NoClear /\ UNCHANGED <<conv, posted, clear>>
  BY DEF CommitChatTerminal, CancelChatTurn, FailStalledChatTurn, UserLock, Active,
         ActiveAssistantStates, memoryVars, chatVars
<1>3. usage[t] \in {"held", "consumed"}
  BY <1>1, <1>2 DEF UsageMatchesOutcome
<1>4. ASSUME NEW r, row' = [row EXCEPT ![t] = r], NEW o \in Outcomes, NEW b,
             r.attempt = row[t].attempt, r.status = o,
             r.counted => row[t].counted \/ o = "sent",
             usage' = [usage EXCEPT ![t] = Settled(t, o, b)],
             \/ stops' = stops \cup {<<t, row[t].attempt>>} /\ acked' = acked
             \/ stops' = stops /\ acked' = acked \cup {<<t, row[t].attempt, o>>}
      PROVE  Inductive'
  <2>1. /\ row'[t] = r /\ usage'[t] = Settled(t, o, b)
        /\ \A u \in Turns : u # t => row'[u] = row[u] /\ usage'[u] = usage[u]
    BY <1>1, <1>4
  <2>2. usage'[t] \in {"voided", "consumed"}
        /\ (o = "sent" \/ usage[t] = "consumed" => usage'[t] = "consumed")
    BY <1>3, <2>1, SettledHeld
  <2>3. /\ stops \subseteq stops'
        /\ \A p \in stops' : p \in stops \/ p = <<t, row[t].attempt>>
        /\ \/ <<t, row[t].attempt>> \in stops'
           \/ \E x \in Outcomes : <<t, row[t].attempt, x>> \in acked'
    BY <1>4
  <2>4. acked \subseteq acked' /\ \A x \in acked' :
          x \in acked \/ (x[1] \in {t} /\ x[2] = row[x[1]].attempt /\ x[3] = row'[x[1]].status)
    <3>1. acked' = acked \/ acked' = acked \cup {<<t, row[t].attempt, o>>}
      BY <1>4
    <3>2. row'[t].status = o
      BY <1>4, <2>1
    <3>3. ASSUME NEW x, x = <<t, row[t].attempt, o>>
          PROVE  x[1] \in {t} /\ x[2] = row[x[1]].attempt /\ x[3] = row'[x[1]].status
      BY <3>2, <3>3
    <3> QED BY <3>1, <3>3
  <2> DEFINE E == {t}
  <2>5. E \in SUBSET Turns
    OBVIOUS
  <2>6. \A u \in E :
           /\ Active(u)
           /\ row'[u].attempt = row[u].attempt
           /\ row'[u].status \in Outcomes
           /\ row'[u].counted => row[u].counted \/ row'[u].status = "sent"
           /\ usage'[u] \in {"voided", "consumed"}
           /\ row'[u].status = "sent" \/ usage[u] = "consumed" => usage'[u] = "consumed"
           /\ \/ <<u, row[u].attempt>> \in stops'
              \/ \E x \in Outcomes : <<u, row[u].attempt, x>> \in acked'
    BY <1>2, <1>4, <2>1, <2>2, <2>3
  <2>7. \A x \in acked' :
          x \in acked \/ (x[1] \in E /\ x[2] = row[x[1]].attempt /\ x[3] = row'[x[1]].status)
    BY <2>4
  <2>8. \A u \in Turns : u \notin E => row'[u] = row[u] /\ usage'[u] = usage[u]
    BY <2>1
  <2>9. stops \subseteq stops'
        /\ \A p \in stops' : p \in stops \/ (p[1] \in E /\ p[2] = row[p[1]].attempt)
    BY <2>3
  <2> HIDE DEF E
  <2> QED BY <1>2, <2>4, <2>5, <2>6, <2>7, <2>8, <2>9, EndStep
<1>5. ASSUME NEW a \in Attempts, NEW o \in ChatOutcomes, CommitChatTerminal(t, a, o)
      PROVE  Inductive'
  <2> DEFINE r == IF o = "sent" THEN Selected(t) ELSE Ended(t, o, "chat")
  <2>1. /\ row' = [row EXCEPT ![t] = r]
        /\ usage' = [usage EXCEPT ![t] = Settled(t, o, row[t].admitted)]
        /\ stops' = stops /\ acked' = acked \cup {<<t, row[t].attempt, o>>}
    BY <1>5 DEF CommitChatTerminal, memoryVars
  <2>2. o \in Outcomes
    BY DEF Outcomes
  <2>3. /\ r.attempt = row[t].attempt /\ r.status = o
        /\ r.counted => row[t].counted \/ o = "sent"
    BY <1>1 DEF Selected, Ended, Row
  <2> HIDE DEF r
  <2> QED BY <1>4, <2>1, <2>2, <2>3
<1>6. ASSUME NEW o \in {"cancelled", "failed"}, NEW b,
             row' = [row EXCEPT ![t] = Ended(t, o, b)],
             usage' = [usage EXCEPT ![t] = Settled(t, o, row[t].admitted)],
             stops' = stops \cup {<<t, row[t].attempt>>}, acked' = acked
      PROVE  Inductive'
  <2> DEFINE r == Ended(t, o, b)
  <2>1. o \in Outcomes /\ row' = [row EXCEPT ![t] = r]
    BY <1>6 DEF Outcomes
  <2>2. /\ r.attempt = row[t].attempt /\ r.status = o
        /\ r.counted => row[t].counted
    BY <1>1 DEF Ended, Row
  <2> HIDE DEF r
  <2> QED BY <1>4, <1>6, <2>1, <2>2
<1>7. CASE CancelChatTurn(t)
  <2>1. /\ row' = [row EXCEPT ![t] = Ended(t, "cancelled", "main_user_cancel")]
        /\ usage' = [usage EXCEPT ![t] = Settled(t, "cancelled", row[t].admitted)]
        /\ stops' = stops \cup {<<t, row[t].attempt>>} /\ acked' = acked
    BY <1>7 DEF CancelChatTurn, chatVars
  <2> QED BY <1>6, <2>1
<1>8. CASE FailStalledChatTurn(t)
  <2>1. /\ row' = [row EXCEPT ![t] = Ended(t, "failed", "main_stalled_attempt_reclaim")]
        /\ usage' = [usage EXCEPT ![t] = Settled(t, "failed", row[t].admitted)]
        /\ stops' = stops \cup {<<t, row[t].attempt>>} /\ acked' = acked
    BY <1>8 DEF FailStalledChatTurn, chatVars
  <2> QED BY <1>6, <2>1
<1> QED BY <1>5, <1>7, <1>8

LEMMA InductiveClose ==
  ASSUME Inductive, TypeOK',
         \/ \E t \in Turns : DeleteChatMessage(t)
         \/ \E v \in Conversations : DeleteConversation(v) \/ ArchiveConversation(v)
  PROVE  Inductive'
<1>1. row \in [Turns -> Row] /\ conv \in [Conversations -> {"active", "archived", "deleted"}]
  BY DEF Inductive, TypeOK, RowsOK, LedgerOK
<1>2. UserLock /\ UNCHANGED <<usage, stops, posted, acked, clear>>
  BY DEF DeleteChatMessage, DeleteConversation, ArchiveConversation, ScheduleRebuild,
         memoryVars, chatVars
<1>3. ASSUME NEW t \in Turns, DeleteChatMessage(t) PROVE Inductive'
  <2> DEFINE S == {t}
  <2>1. row' = [row EXCEPT ![t] = DeletedRow(t)] /\ conv' = conv /\ ~Active(t)
        /\ row[t].status # "absent"
    BY <1>3 DEF DeleteChatMessage, Latest, Exists
  <2>2. S \in SUBSET Turns /\ \A v \in Conversations : conv'[v] = conv[v] \/ ActiveIn(v) = {}
    BY <2>1
  <2>3. \A u \in S : row'[u] = DeletedRow(u) /\ ~Active(u) /\ row[u].status # "absent"
    BY <1>1, <2>1
  <2>4. \A u \in Turns : u \notin S => row'[u] = row[u]
    BY <1>1, <2>1
  <2> HIDE DEF S
  <2> QED BY <1>2, <2>2, <2>3, <2>4, CloseStep
<1>4. ASSUME NEW v \in Conversations, DeleteConversation(v) PROVE Inductive'
  <2> DEFINE S == {t \in Turns : Home(t) = v /\ Exists(t)}
  <2>1. /\ row' = [t \in Turns |-> IF t \in S THEN DeletedRow(t) ELSE row[t]]
        /\ conv' = [conv EXCEPT ![v] = "deleted"] /\ ActiveIn(v) = {}
    BY <1>4 DEF DeleteConversation
  <2>2. S \in SUBSET Turns /\ \A x \in Conversations : conv'[x] = conv[x] \/ ActiveIn(x) = {}
    BY <1>1, <2>1
  <2>3. \A u \in S : row'[u] = DeletedRow(u) /\ ~Active(u) /\ row[u].status # "absent"
    BY <2>1 DEF ActiveIn, Exists
  <2>4. \A u \in Turns : u \notin S => row'[u] = row[u]
    BY <2>1
  <2> HIDE DEF S
  <2> QED BY <1>2, <2>2, <2>3, <2>4, CloseStep
<1>5. ASSUME NEW v \in Conversations, ArchiveConversation(v) PROVE Inductive'
  <2> DEFINE S == {}
  <2>1. row' = row /\ conv' = [conv EXCEPT ![v] = "archived"] /\ ActiveIn(v) = {}
    BY <1>5 DEF ArchiveConversation
  <2>2. S \in SUBSET Turns /\ \A x \in Conversations : conv'[x] = conv[x] \/ ActiveIn(x) = {}
    BY <1>1, <2>1
  <2>3. /\ \A u \in S : row'[u] = DeletedRow(u) /\ ~Active(u) /\ row[u].status # "absent"
        /\ \A u \in Turns : u \notin S => row'[u] = row[u]
    BY <2>1
  <2> HIDE DEF S
  <2> QED BY <1>2, <2>2, <2>3, CloseStep
<1> QED BY <1>3, <1>4, <1>5

LEMMA InductiveClearReads ==
  ASSUME Inductive, TypeOK', NEW c \in Characters, ClearReads(c)
  PROVE  Inductive'
<1>1. UNCHANGED <<conv, row, usage, stops, posted, acked>>
  BY DEF ClearReads, ledgerVars, memoryVars, chatVars
<1>2. \A t \in Turns : Active(t)' <=> Active(t)
  BY <1>1 DEF Active
<1>3. ClearWindow'
  <2>1. ASSUME NEW t \in Turns
        PROVE  t \in clear'.active <=> (Active(t) /\ Home(t) \in clear'.homes)
    BY DEF ClearReads
  <2> QED BY <1>2, <2>1 DEF ClearWindow, Home
<1>4. AttemptsKnown' /\ UsageFollowsRow' /\ AckIsTruth'
  BY <1>1 DEF Inductive, AttemptsKnown, UsageFollowsRow, AckIsTruth
<1>5. OneReplyPerConversation' /\ ClosedConversationIsQuiet'
  BY <1>1, <1>2 DEF Inductive, OneReplyPerConversation, ClosedConversationIsQuiet, Home
<1>6. UsageMatchesOutcome'
  BY <1>1, <1>2 DEF Inductive, UsageMatchesOutcome
<1>7. SupersededRunIsFenced'
  <2>1. \A p \in posted : Active(p[1])' <=> Active(p[1])
    BY <1>1 DEF Active
  <2> QED BY <1>1, <2>1 DEF Inductive, SupersededRunIsFenced
<1> QED BY <1>3, <1>4, <1>5, <1>6, <1>7 DEF Inductive

LEMMA InductiveClearWrites ==
  ASSUME Inductive, TypeOK', ClearWrites
  PROVE  Inductive'
<1> DEFINE E == clear.active
<1>1. /\ row \in [Turns -> Row] /\ conv \in [Conversations -> {"active", "archived", "deleted"}]
      /\ ClearWindow /\ UsageMatchesOutcome
  BY DEF Inductive, TypeOK, RowsOK, LedgerOK
<1>2. clear # NoClear /\ clear \in ClearRead
  BY DEF ClearWrites, Inductive, TypeOK, ClearOK
<1>3. E \in SUBSET Turns /\ clear' = NoClear /\ UNCHANGED <<posted, acked>>
  BY <1>2 DEF ClearWrites, ClearRead, chatVars
<1>4. \A u \in Turns : u \in E <=> Active(u) /\ Home(u) \in clear.homes
  BY <1>1, <1>2 DEF ClearWindow
<1>5. /\ stops' = stops \cup {<<u, row[u].attempt>> : u \in E}
      /\ \A u \in Turns : u \notin E => row'[u] = row[u] /\ usage'[u] = usage[u]
  BY DEF ClearWrites
<1>6. ASSUME NEW u \in E
      PROVE  /\ Active(u)
             /\ row'[u].attempt = row[u].attempt
             /\ row'[u].status \in Outcomes
             /\ row'[u].counted => row[u].counted \/ row'[u].status = "sent"
             /\ usage'[u] \in {"voided", "consumed"}
             /\ row'[u].status = "sent" \/ usage[u] = "consumed" => usage'[u] = "consumed"
             /\ <<u, row[u].attempt>> \in stops'
  <2>1. u \in Turns /\ Active(u) /\ usage[u] \in {"held", "consumed"}
    BY <1>1, <1>3, <1>4 DEF UsageMatchesOutcome
  <2>2. /\ row'[u] = [Ended(u, "cancelled", "main_memory_clear") EXCEPT !.lease = NoWorker]
        /\ usage'[u] = Settled(u, "cancelled", u \in clear.admitted)
        /\ <<u, row[u].attempt>> \in stops'
    BY <1>5, <2>1 DEF ClearWrites
  <2>3. /\ row'[u].attempt = row[u].attempt /\ row'[u].status = "cancelled"
        /\ row'[u].counted = row[u].counted
    <3>1. row[u] \in Row
      BY <1>1, <2>1
    <3> QED BY <3>1, <2>2 DEF Ended, Row
  <2>4. usage'[u] \in {"voided", "consumed"}
        /\ (usage[u] = "consumed" => usage'[u] = "consumed")
    BY <2>1, <2>2, SettledHeld
  <2> QED BY <2>1, <2>2, <2>3, <2>4 DEF Outcomes
<1>7. \A v \in Conversations : conv'[v] = conv[v] \/ ActiveIn(v) \subseteq E
  <2>1. conv' = [v \in Conversations |-> IF v \in clear.homes THEN "archived" ELSE conv[v]]
    BY DEF ClearWrites
  <2>2. \A v \in Conversations : v \in clear.homes => ActiveIn(v) \subseteq E
    BY <1>4 DEF ActiveIn
  <2> QED BY <2>1, <2>2
<1> HIDE DEF E
<1>8. /\ clear' = NoClear /\ acked \subseteq acked' /\ \A x \in acked' : x \in acked
      /\ stops \subseteq stops'
      /\ \A p \in stops' : p \in stops \/ (p[1] \in E /\ p[2] = row[p[1]].attempt)
  BY <1>3, <1>5
<1> QED BY <1>3, <1>5, <1>6, <1>7, <1>8, EndStep

LEMMA InductiveDelivery ==
  ASSUME Inductive, TypeOK', \/ \E c \in Characters : SyncPurges(c) \/ MemoryEventDelivered(c)
                             \/ MidnightPasses
  PROVE  Inductive'
<1>1. row' = row /\ posted' = posted /\ UNCHANGED <<conv, usage, stops, acked, clear>>
  BY DEF SyncPurges, MemoryEventDelivered, MidnightPasses, ledgerVars, memoryVars, chatVars
<1>2. \A u \in Turns : Active(u)' <=> Active(u)
  BY <1>1 DEF Active
<1> QED BY <1>1, <1>2, QuietStep

LEMMA InductiveNext == Inductive /\ [Next]_vars => Inductive'
<1> SUFFICES ASSUME Inductive, [Next]_vars PROVE Inductive'
  OBVIOUS
<1>1. TypeOK'
  BY TypeNext DEF Inductive
<1>2. CASE UNCHANGED vars
  <2>1. row' = row /\ posted' = posted /\ UNCHANGED <<conv, usage, stops, acked, clear>>
    BY <1>2 DEF vars, ledgerVars, memoryVars, chatVars
  <2>2. \A u \in Turns : Active(u)' <=> Active(u)
    BY <2>1 DEF Active
  <2> QED BY <1>1, <2>1, <2>2, QuietStep
<1>3. CASE Next
  <2>1. CASE \E t \in Turns : BeginChatTurn(t) \/ BeginBlockedTurn(t)
    BY <1>1, <2>1, InductiveBegin
  <2>2. CASE \E t \in Turns : RegenerateChatTurn(t) \/ EditChatTurn(t) \/ EditToBlocked(t)
    BY <1>1, <2>2, InductiveRevise DEF RegenerateChatTurn, EditChatTurn
  <2>3. CASE \E t \in Turns : \/ CancelChatTurn(t) \/ FailStalledChatTurn(t)
                              \/ \E a \in Attempts, o \in ChatOutcomes : CommitChatTerminal(t, a, o)
    BY <1>1, <2>3, InductiveEnd
  <2>4. CASE \E w \in Workers : \/ \E t \in Turns : ClaimAdmission(w, t)
                                \/ ConfirmAdmission(w) \/ ReleaseAdmission(w) \/ AbandonAdmission(w)
    BY <1>1, <2>4, InductiveAdmission
  <2>5. CASE \/ \E t \in Turns : DeleteChatMessage(t)
             \/ \E v \in Conversations : DeleteConversation(v) \/ ArchiveConversation(v)
    BY <1>1, <2>5, InductiveClose
  <2>6. CASE (\E c \in Characters : ClearReads(c)) \/ ClearWrites
    BY <1>1, <2>6, InductiveClearReads, InductiveClearWrites
  <2>7. CASE (\E c \in Characters : SyncPurges(c) \/ MemoryEventDelivered(c)) \/ MidnightPasses
    BY <1>1, <2>7, InductiveDelivery
  <2> QED BY <1>3, <2>1, <2>2, <2>3, <2>4, <2>5, <2>6, <2>7 DEF Next
<1> QED BY <1>2, <1>3

-----------------------------------------------------------------------------
\* Fences and the live attempt: a purge fence is set below the attempt that
\* replaces it, a cancel event when its attempt ends.

LEMMA SpareStep ==
  ASSUME Inductive, TypeOK', FencesSpareTheLive, FencesFollowRow,
         \A u \in Turns :
           /\ row[u].attempt <= row'[u].attempt
           /\ Active(u)' => Active(u) \/ row[u].attempt < row'[u].attempt
           /\ Exists(u)' => /\ row[u].status # "deleted"
                            /\ \/ owed'[u] \in {0, owed[u]}
                               \/ owed'[u] = row[u].attempt /\ row[u].attempt < row'[u].attempt
                            /\ purged'[u] \in {purged[u], owed[u]}
           /\ row'[u].status = "absent" => /\ row[u].status = "absent"
                                           /\ owed'[u] \in {0, owed[u]}
                                           /\ purged'[u] \in {purged[u], owed[u]},
         \A p \in stops' : p \in stops \/ ~Active(p[1])'
  PROVE  FencesSpareTheLive' /\ FencesFollowRow'
<1>1. \A u \in Turns : /\ row[u].attempt \in Nat /\ row'[u].attempt \in Nat
                       /\ Exists(u)' => row'[u].attempt > 0
  BY RowFields DEF Inductive, TypeOK, RowsOK, Row, Exists
<1>2. \A u \in Turns : Exists(u) <=> row[u].status \notin {"absent", "deleted"}
  BY DEF Exists
<1>3. /\ \A p \in stops : p[1] \in Turns /\ p[2] \in Nat /\ p[2] <= row[p[1]].attempt
      /\ \A u \in Turns : owed[u] \in Nat /\ purged[u] \in Nat
  BY DEF Inductive, TypeOK, MemoryOK, AttemptsKnown, Attempts, Fences, Whole
<1>4. ASSUME NEW u \in Turns, Active(u)' PROVE <<u, row'[u].attempt>> \notin stops'
  <2> SUFFICES ASSUME <<u, row'[u].attempt>> \in stops PROVE FALSE
    BY <1>4
  <2>1. row'[u].attempt <= row[u].attempt
    BY <1>3
  <2>2. Active(u) \/ row[u].attempt < row'[u].attempt
    BY <1>4
  <2>3. Active(u)
    BY <1>1, <2>1, <2>2
  <2>4. row'[u].attempt = row[u].attempt
    <3>1. row[u].attempt <= row'[u].attempt
      OBVIOUS
    <3>2. row[u].attempt \in Nat /\ row'[u].attempt \in Nat
      BY <1>1
    <3> QED BY ONLY <2>1, <3>1, <3>2
  <2> QED BY <2>3, <2>4 DEF FencesSpareTheLive
<1>5. ASSUME NEW u \in Turns, Exists(u)'
      PROVE  owed'[u] < row'[u].attempt /\ purged'[u] < row'[u].attempt
  <2>1. owed[u] < row'[u].attempt /\ purged[u] < row'[u].attempt
    <3>1. CASE row[u].status = "absent"
      BY <1>1, <1>5, <3>1 DEF FencesFollowRow
    <3>2. CASE row[u].status # "absent"
      <4>1. row[u].status # "deleted"
        BY <1>5
      <4>2. owed[u] < row[u].attempt /\ purged[u] < row[u].attempt
        BY <1>2, <3>2, <4>1 DEF FencesSpareTheLive
      <4> QED BY <1>1, <1>3, <4>2
    <3> QED BY <3>1, <3>2
  <2> QED BY <1>1, <1>5, <2>1
<1>6. FencesFollowRow'
  BY DEF FencesFollowRow
<1> QED BY <1>4, <1>5, <1>6 DEF FencesSpareTheLive

LEMMA SpareNext ==
  ASSUME Inductive, TypeOK', FencesSpareTheLive, FencesFollowRow, [Next]_vars
  PROVE  FencesSpareTheLive' /\ FencesFollowRow'
<1>1. /\ row \in [Turns -> Row] /\ owed \in [Turns -> Fences] /\ purged \in [Turns -> Fences]
      /\ \A u \in Turns : row[u].attempt \in Nat
  BY RowFields DEF Inductive, TypeOK, RowsOK, MemoryOK
<1>2. ASSUME stops' = stops,
             \A u \in Turns : /\ row'[u].attempt = row[u].attempt
                              /\ Active(u)' => Active(u)
                              /\ row'[u].status \in {row[u].status, "deleted"}
                                   \/ (Active(u) /\ Active(u)'),
             \A u \in Turns : row'[u].status # "deleted" =>
               owed'[u] \in {0, owed[u]} /\ purged'[u] \in {purged[u], owed[u]}
      PROVE  FencesSpareTheLive' /\ FencesFollowRow'
  <2>1. \A u \in Turns : /\ row[u].attempt <= row'[u].attempt
                         /\ Exists(u)' => row[u].status # "deleted" /\ row'[u].status # "deleted"
                         /\ row'[u].status = "absent" => row[u].status = "absent"
    BY <1>1, <1>2 DEF Exists, Active, ActiveAssistantStates
  <2> QED BY <1>2, <2>1, SpareStep
<1>3. ASSUME NEW t \in Turns, row[t].status # "deleted", NEW r, row' = [row EXCEPT ![t] = r],
             r.attempt \in Nat, row[t].attempt < r.attempt, r.status # "absent",
             stops' = stops, purged' = purged,
             owed' = owed \/ owed' = [owed EXCEPT ![t] = row[t].attempt]
      PROVE  FencesSpareTheLive' /\ FencesFollowRow'
  <2>1. \A u \in Turns : u # t => /\ row'[u] = row[u] /\ (Active(u)' <=> Active(u))
                                  /\ (Exists(u)' <=> Exists(u)) /\ owed'[u] = owed[u]
    BY <1>1, <1>3 DEF Active, Exists
  <2>2. \A u \in Turns : Exists(u) => row[u].status # "deleted"
    BY DEF Exists
  <2>3. row'[t] = r /\ owed'[t] \in {owed[t], row[t].attempt}
    BY <1>1, <1>3
  <2> QED BY <1>1, <1>3, <2>1, <2>2, <2>3, SpareStep
<1>4. ASSUME NEW E \in SUBSET Turns,
             \A u \in Turns : u \notin E => row'[u] = row[u],
             \A u \in E : Active(u) /\ row'[u].attempt = row[u].attempt /\ row'[u].status \in Outcomes,
             stops' \subseteq stops \cup {<<u, row[u].attempt>> : u \in E},
             \A u \in Turns : owed'[u] \in {0, owed[u]}, purged' = purged
      PROVE  FencesSpareTheLive' /\ FencesFollowRow'
  <2>1. \A u \in E : ~Active(u)' /\ row[u].status \notin {"absent", "deleted"}
                     /\ row'[u].status # "absent"
    BY <1>4 DEF Active, ActiveAssistantStates, Outcomes
  <2>2. \A u \in Turns : u \notin E => (Active(u)' <=> Active(u)) /\ (Exists(u)' <=> Exists(u))
    BY <1>4 DEF Active, Exists
  <2>3. \A u \in Turns : /\ Exists(u)' => row[u].status # "deleted"
                         /\ row[u].attempt <= row'[u].attempt
    BY <1>1, <1>4, <2>1, <2>2 DEF Exists
  <2>4. \A p \in stops' : p \in stops \/ ~Active(p[1])'
    BY <1>4, <2>1
  <2> QED BY <1>4, <2>1, <2>2, <2>3, <2>4, SpareStep
<1>5. CASE UNCHANGED vars
  BY <1>1, <1>2, <1>5 DEF vars, ledgerVars, memoryVars, Active
<1>6. CASE \E t \in Turns : BeginChatTurn(t) \/ BeginBlockedTurn(t)
  <2>1. PICK t \in Turns, b \in BOOLEAN :
          /\ row[t].status = "absent"
          /\ row' = [row EXCEPT ![t] = FreshAttempt(t, b, 1, CommittedScene(Home(t), t), today)]
          /\ UNCHANGED memoryVars
    BY <1>6 DEF BeginChatTurn, BeginBlockedTurn
  <2> DEFINE r == FreshAttempt(t, b, 1, CommittedScene(Home(t), t), today)
  <2>2. r.attempt = 1 /\ r.status # "absent"
    BY DEF FreshAttempt
  <2>3. row[t].attempt = 0 /\ row' = [row EXCEPT ![t] = r] /\ UNCHANGED <<owed, purged, stops>>
    BY <2>1 DEF memoryVars, Inductive, TypeOK, RowsOK
  <2>4. /\ row[t].status # "deleted" /\ r.attempt \in Nat /\ row[t].attempt < r.attempt
        /\ stops' = stops /\ purged' = purged /\ owed' = owed
    BY <2>1, <2>2, <2>3
  <2> HIDE DEF r
  <2> QED BY <1>3, <2>2, <2>3, <2>4
<1>7. CASE \E t \in Turns : RegenerateChatTurn(t) \/ EditChatTurn(t) \/ EditToBlocked(t)
  <2>1. PICK t \in Turns, b \in BOOLEAN :
          /\ CanRevise(t) /\ ScheduleRebuild(t, row[t].attempt)
          /\ row' = [row EXCEPT ![t] = FreshAttempt(t, b, row[t].attempt + 1,
                                                    CommittedScene(Home(t), t), row[t].day)]
    BY <1>7 DEF RegenerateChatTurn, EditChatTurn, EditToBlocked, Revise
  <2> DEFINE r == FreshAttempt(t, b, row[t].attempt + 1, CommittedScene(Home(t), t), row[t].day)
  <2>2. r.attempt = row[t].attempt + 1 /\ r.status # "absent"
    BY DEF FreshAttempt
  <2>3. row[t].status # "deleted" /\ row' = [row EXCEPT ![t] = r]
    BY <2>1 DEF CanRevise, Latest, Exists
  <2>4. stops' = stops /\ purged' = purged /\ owed' = [owed EXCEPT ![t] = row[t].attempt]
    BY <2>1 DEF ScheduleRebuild
  <2>5. r.attempt \in Nat /\ row[t].attempt < r.attempt
    BY <1>1, <2>2
  <2> HIDE DEF r
  <2> QED BY <1>3, <2>2, <2>3, <2>4, <2>5
<1>8. CASE \E w \in Workers : \/ \E t \in Turns : ClaimAdmission(w, t)
                              \/ ConfirmAdmission(w) \/ ReleaseAdmission(w) \/ AbandonAdmission(w)
  <2>1. UNCHANGED <<owed, purged, stops>>
    BY <1>8 DEF ClaimAdmission, ConfirmAdmission, ReleaseAdmission, AbandonAdmission, memoryVars
  <2>2. \/ row' = row
        \/ \E t \in Turns : /\ row[t].status = "pending"
                            /\ \/ \E w \in Workers \cup {NoWorker} : row' = [row EXCEPT ![t] = Leased(t, w)]
                               \/ row' = [row EXCEPT ![t] = Generating(t)]
    BY <1>8 DEF ClaimAdmission, ConfirmAdmission, ReleaseAdmission, AbandonAdmission, HoldsLease,
                ledgerVars, Inductive, TypeOK, ChatOK
  <2>3. \A u \in Turns : /\ row'[u].attempt = row[u].attempt
                         /\ \/ row'[u].status = row[u].status
                            \/ row[u].status = "pending" /\ row'[u].status = "generating"
    <3>1. CASE row' = row
      BY <3>1
    <3>2. ASSUME NEW t \in Turns, row[t].status = "pending", NEW w \in Workers \cup {NoWorker},
                 \/ row' = [row EXCEPT ![t] = Leased(t, w)]
                 \/ row' = [row EXCEPT ![t] = Generating(t)]
          PROVE  \A u \in Turns : /\ row'[u].attempt = row[u].attempt
                                  /\ \/ row'[u].status = row[u].status
                                     \/ row[u].status = "pending" /\ row'[u].status = "generating"
      <4>1. row[t] \in Row
        BY <1>1
      <4>2. /\ Leased(t, w).attempt = row[t].attempt /\ Leased(t, w).status = row[t].status
            /\ Generating(t).attempt = row[t].attempt /\ Generating(t).status = "generating"
        BY <4>1 DEF Leased, Generating, Row
      <4>3. /\ row'[t] = Leased(t, w) \/ row'[t] = Generating(t)
            /\ \A u \in Turns : u # t => row'[u] = row[u]
        BY <1>1, <3>2
      <4> QED BY <3>2, <4>2, <4>3
    <3> QED BY <2>2, <3>1, <3>2
  <2>4. \A u \in Turns : /\ Active(u)' => Active(u)
                         /\ \/ row'[u].status \in {row[u].status, "deleted"}
                            \/ Active(u) /\ Active(u)'
    BY <2>3 DEF Active, ActiveAssistantStates
  <2> QED BY <1>2, <2>1, <2>3, <2>4
<1>9. CASE \E t \in Turns : \/ CancelChatTurn(t) \/ FailStalledChatTurn(t)
                            \/ \E a \in Attempts, o \in ChatOutcomes : CommitChatTerminal(t, a, o)
  <2>1. PICK t \in Turns, o \in Outcomes, b \in Authorities :
          /\ Active(t) /\ UNCHANGED <<owed, purged>>
          /\ row' = [row EXCEPT ![t] = Ended(t, o, b)] \/ row' = [row EXCEPT ![t] = Selected(t)]
          /\ stops' \subseteq stops \cup {<<t, row[t].attempt>>}
    BY <1>9 DEF CancelChatTurn, FailStalledChatTurn, CommitChatTerminal, memoryVars, Outcomes,
                Authorities, Active, ActiveAssistantStates
  <2>2. row'[t].attempt = row[t].attempt /\ row'[t].status \in Outcomes
        /\ \A u \in Turns : u # t => row'[u] = row[u]
    <3>1. row[t] \in Row
      BY <1>1
    <3>2. Ended(t, o, b).attempt = row[t].attempt /\ Selected(t).attempt = row[t].attempt
          /\ Ended(t, o, b).status = o /\ Selected(t).status = "sent"
      BY <3>1 DEF Ended, Selected, Row
    <3>3. "sent" \in Outcomes
      BY DEF Outcomes
    <3> QED BY <1>1, <2>1, <3>2, <3>3
  <2> DEFINE E == {t}
  <2>3. /\ E \in SUBSET Turns
        /\ \A u \in Turns : u \notin E => row'[u] = row[u]
        /\ \A u \in E : Active(u) /\ row'[u].attempt = row[u].attempt /\ row'[u].status \in Outcomes
        /\ stops' \subseteq stops \cup {<<u, row[u].attempt>> : u \in E}
    BY <2>1, <2>2
  <2> HIDE DEF E
  <2> QED BY <1>4, <2>1, <2>3
<1>10. CASE \/ \E t \in Turns : DeleteChatMessage(t)
            \/ \E v \in Conversations : DeleteConversation(v) \/ ArchiveConversation(v)
  <2>1. \A u \in Turns : DeletedRow(u).attempt = row[u].attempt /\ DeletedRow(u).status = "deleted"
    BY DEF DeletedRow, NoRow
  <2>2. \A u \in Turns : \/ row'[u] = row[u] /\ owed'[u] = owed[u]
                         \/ row'[u] = DeletedRow(u)
    BY <1>1, <1>10 DEF DeleteChatMessage, DeleteConversation, ArchiveConversation, ScheduleRebuild,
                       memoryVars
  <2>3. purged' = purged /\ stops' = stops
    BY <1>10 DEF DeleteChatMessage, DeleteConversation, ArchiveConversation, ScheduleRebuild,
                 memoryVars
  <2> QED BY <1>2, <2>1, <2>2, <2>3 DEF Active, ActiveAssistantStates
<1>11. CASE \E c \in Characters : ClearReads(c) \/ SyncPurges(c) \/ MemoryEventDelivered(c)
  <2>1. row' = row /\ stops' = stops
    BY <1>11 DEF ClearReads, SyncPurges, MemoryEventDelivered, ledgerVars, memoryVars
  <2>2. \A u \in Turns : owed'[u] \in {0, owed[u]} /\ purged'[u] \in {purged[u], owed[u]}
    BY <1>11 DEF ClearReads, SyncPurges, MemoryEventDelivered, memoryVars
  <2> QED BY <1>2, <2>1, <2>2 DEF Active
<1>12. CASE ClearWrites
  <2> DEFINE E == clear.active
  <2>1. clear \in ClearRead /\ clear # NoClear
    BY <1>12 DEF ClearWrites, Inductive, TypeOK, ClearOK
  <2>2. E \in SUBSET Turns /\ \A u \in E : Active(u)
    BY <2>1 DEF ClearRead, Inductive, ClearWindow
  <2>3. ASSUME NEW u \in E
        PROVE  row'[u].attempt = row[u].attempt /\ row'[u].status \in Outcomes
    <3>1. row'[u] = [Ended(u, "cancelled", "main_memory_clear") EXCEPT !.lease = NoWorker]
      BY <1>12, <2>2 DEF ClearWrites
    <3>2. row[u] \in Row
      BY <1>1, <2>2
    <3> QED BY <3>1, <3>2 DEF Ended, Row, Outcomes
  <2>4. /\ \A u \in Turns : u \notin E => row'[u] = row[u]
        /\ stops' \subseteq stops \cup {<<u, row[u].attempt>> : u \in E}
        /\ \A u \in Turns : owed'[u] \in {0, owed[u]}
        /\ purged' = purged
    BY <1>12 DEF ClearWrites
  <2> HIDE DEF E
  <2> QED BY <1>4, <2>2, <2>3, <2>4
<1>13. CASE MidnightPasses
  BY <1>2, <1>13 DEF MidnightPasses, memoryVars, Active
<1> QED BY <1>5, <1>6, <1>7, <1>8, <1>9, <1>10, <1>11, <1>12, <1>13 DEF Next

-----------------------------------------------------------------------------
\* Every reachable state of the ledger satisfies the whole invariant.
THEOREM LedgerInvariant == Spec => []Inductive
BY InductiveInit, InductiveNext, PTL DEF Spec

\* The ledger, the outbox fences and the admission leases keep their types, for
\* any number of chats, Turns and dispatcher workers (type invariant).
THEOREM TypeCorrect == Spec => []TypeOK
<1>1. Inductive => TypeOK
  BY DEF Inductive
<1> QED BY <1>1, LedgerInvariant, PTL

\* One conversation never has two replies in the making (beginChatTurn,
\* reserveRevisedChatTurn).
THEOREM OneReply == Spec => []OneReplyPerConversation
<1>1. Inductive => OneReplyPerConversation
  BY DEF Inductive
<1> QED BY <1>1, LedgerInvariant, PTL

\* A closed conversation has no reply in the making (archiveChatSession,
\* deleteSessionTranscript, clearCompanionMemory).
THEOREM ClosedIsQuiet == Spec => []ClosedConversationIsQuiet
<1>1. Inductive => ClosedConversationIsQuiet
  BY DEF Inductive
<1> QED BY <1>1, LedgerInvariant, PTL

\* What a Turn costs always agrees with what it shows (settleChatTurnUsage).
THEOREM UsageAgrees == Spec => []UsageMatchesOutcome
<1>1. Inductive => UsageMatchesOutcome
  BY DEF Inductive
<1> QED BY <1>1, LedgerInvariant, PTL

\* A terminal acknowledged to Chat is final for its attempt, against any race
\* with Stop, the reaper or a memory clear (commitChatTerminal).
THEOREM AcknowledgedTerminalStands == Spec => []AckIsTruth
<1>1. Inductive => AckIsTruth
  BY DEF Inductive
<1> QED BY <1>1, LedgerInvariant, PTL

\* No run that Chat may hold is left working for nobody (cancelChatTurn,
\* failStalledChatTurn, clearCompanionMemory).
THEOREM NoOrphanRun == Spec => []SupersededRunIsFenced
<1>1. Inductive => SupersededRunIsFenced
  BY DEF Inductive
<1> QED BY <1>1, LedgerInvariant, PTL

\* No cancel event and no purge fence, waiting or delivered, ever covers the
\* attempt that is running (scheduleCompanionMemoryRebuild).
THEOREM LiveIsSpared == Spec => []FencesSpareTheLive
<1> DEFINE Inv == Inductive /\ FencesSpareTheLive /\ FencesFollowRow
<1>1. Init => Inv
  <2>1. Init => FencesSpareTheLive /\ FencesFollowRow
    BY DEF Init, FencesSpareTheLive, FencesFollowRow, Active, ActiveAssistantStates, Exists, NoRow
  <2> QED BY <2>1, InductiveInit
<1>2. Inv /\ [Next]_vars => Inv'
  <2> SUFFICES ASSUME Inv, [Next]_vars PROVE Inv'
    OBVIOUS
  <2>1. Inductive'
    BY InductiveNext
  <2>2. TypeOK'
    BY <2>1 DEF Inductive
  <2> QED BY <2>1, <2>2, SpareNext
<1>3. Inv => FencesSpareTheLive
  OBVIOUS
<1> QED BY <1>1, <1>2, <1>3, PTL DEF Spec
=============================================================================
