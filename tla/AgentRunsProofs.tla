-------------------------- MODULE AgentRunsProofs --------------------------
(***************************************************************************)
(* Proofs about Chat's execution of AgentRuns, for any number of Turns,    *)
(* attempts, model runs and crashes.                                       *)
(***************************************************************************)
EXTENDS AgentRuns, TLAPS

USE AgentRunsAssumption

-----------------------------------------------------------------------------
\* The invariant, part by part: the types of what Main, the disk, the
\* process's memory and the history hold.

MainTypes ==
  /\ attempt \in [Turns -> 0..MaxAttempt]
  /\ state \in [Turns -> {"none", "active", "ended", "deleted"}]
  /\ \A t \in Turns : attempt[t] = 0 <=> state[t] = "none"
  /\ posted \subseteq Runs /\ stops \subseteq Runs
  /\ acked \subseteq Turns \X Attempts \X Terminals

FilesTypes ==
  /\ files \in [Runs -> SUBSET Parts]
  /\ proposal \in [Runs -> Terminals \cup {NoTerminal}]
  /\ \A r \in Runs : "proposal" \in files[r] <=> proposal[r] # NoTerminal

IndexTypes == index \in [Turns -> [attempt : 0..MaxAttempt, terminal : BOOLEAN]]

FenceTypes ==
  /\ fence \in [Turns -> 0..Whole] /\ erased \in [Turns -> 0..Whole]
  /\ \A t \in Turns : erased[t] <= fence[t]
  /\ userFence \in BOOLEAN

\* A runner with a terminal in hand holds it in offer.
Holding == {"proposed", "replay", "waiting", "accepted", "rejected"}

RunnerTypes ==
  /\ runner \in [Runs -> Stages] /\ offer \in [Runs -> Terminals \cup {NoTerminal}]
  /\ \A r \in Runs : runner[r] \in Holding => offer[r] \in Terminals

ScanTypes ==
  /\ scanned \in SUBSET Runs /\ todo \in SUBSET Turns
  /\ erasing \in {"no", "draining", "purging", "done"}

GhostTypes ==
  /\ sent \in SUBSET (Turns \X Attempts \X Terminals) /\ refused \in SUBSET Runs
  /\ dispatched \in [Runs -> 0..MaxDispatch] /\ cleared \in [Turns -> 0..Whole]
  /\ crashes \in 0..MaxCrashes

Types == /\ MainTypes /\ FilesTypes /\ IndexTypes /\ FenceTypes
         /\ RunnerTypes /\ ScanTypes /\ GhostTypes

-----------------------------------------------------------------------------
\* Types.

LEMMA RunParts ==
  /\ \A r \in Runs : r[1] \in Turns /\ r[2] \in Attempts /\ r = <<r[1], r[2]>>
  /\ \A t \in Turns, a \in Attempts : <<t, a>> \in Runs
  /\ \A a \in Attempts : a \in Nat /\ 1 <= a /\ a <= MaxAttempt /\ a < Whole
  /\ Whole \in Nat
BY DEF Runs, Attempts, Whole

LEMMA InitTypes == ASSUME RunsInit PROVE Types
<1>1. MainTypes /\ FilesTypes /\ IndexTypes
  BY RunParts DEF RunsInit, Init, MainTypes, FilesTypes, IndexTypes
<1>2. FenceTypes /\ GhostTypes
  <2>1. 0 \in 0..Whole /\ 0 \in 0..MaxDispatch /\ 0 \in 0..MaxCrashes /\ 0 <= 0
    BY RunParts
  <2> QED BY <2>1 DEF RunsInit, FenceTypes, GhostTypes
<1>3. RunnerTypes /\ ScanTypes
  BY DEF RunsInit, RunnerTypes, ScanTypes, Stages, Holding
<1> QED BY <1>1, <1>2, <1>3 DEF Types

\* What a step leaves alone keeps its type.
LEMMA KeepTypes ==
  ASSUME Types
  PROVE  /\ UNCHANGED mainVars => MainTypes'
         /\ UNCHANGED <<files, proposal>> => FilesTypes'
         /\ UNCHANGED index => IndexTypes'
         /\ UNCHANGED <<fence, erased, userFence>> => FenceTypes'
         /\ UNCHANGED <<runner, offer>> => RunnerTypes'
         /\ UNCHANGED <<scanned, erasing, todo>> => ScanTypes'
         /\ UNCHANGED ghostVars => GhostTypes'
BY DEF Types, mainVars, ghostVars, MainTypes, FilesTypes, IndexTypes, FenceTypes, RunnerTypes,
       ScanTypes, GhostTypes

\* The proposal goes with its file.
LEMMA LeaveTypes ==
  ASSUME Types, NEW left \in [Runs -> SUBSET Parts], Leave(left),
         \A r \in Runs : "proposal" \in left[r] => "proposal" \in files[r]
  PROVE  FilesTypes'
BY DEF Types, FilesTypes, Leave

LEMMA AddedTypes ==
  ASSUME Types, NEW r \in Runs, NEW part \in Parts \ {"proposal"},
         files' = [files EXCEPT ![r] = @ \cup {part}], proposal' = proposal
  PROVE  FilesTypes'
BY DEF Types, FilesTypes

LEMMA EndedTypes ==
  ASSUME Types, NEW r \in Runs, NEW parts \in SUBSET Parts, "proposal" \in parts => "proposal" \in files[r],
         Leave([files EXCEPT ![r] = parts])
  PROVE  FilesTypes'
<1>1. /\ [files EXCEPT ![r] = parts] \in [Runs -> SUBSET Parts]
      /\ \A q \in Runs : "proposal" \in [files EXCEPT ![r] = parts][q] => "proposal" \in files[q]
  BY DEF Types, FilesTypes
<1> QED BY <1>1, LeaveTypes

LEMMA Removals ==
  ASSUME Types, NEW S
  PROVE  /\ Without(S) \in [Runs -> SUBSET Parts]
         /\ \A r \in Runs : Without(S)[r] = IF r \in S THEN {} ELSE files[r]
         /\ \A left \in Partly(S) :
              /\ left \in [Runs -> SUBSET Parts]
              /\ \A r \in Runs : left[r] \subseteq files[r] /\ (r \notin S => left[r] = files[r])
<1>1. files \in [Runs -> SUBSET Parts]
  BY DEF Types, FilesTypes
<1>2. ASSUME NEW left \in Partly(S)
      PROVE  /\ left \in [Runs -> SUBSET Parts]
             /\ \A r \in Runs : left[r] \subseteq files[r] /\ (r \notin S => left[r] = files[r])
  <2>1. PICK kept : left = [r \in Runs |-> {p \in files[r] : r \in S => <<r, p>> \in kept}]
    BY DEF Partly
  <2>2. \A r \in Runs : left[r] = {p \in files[r] : r \in S => <<r, p>> \in kept}
    BY <2>1
  <2>3. \A r \in Runs : left[r] \subseteq files[r] /\ (r \notin S => left[r] = files[r])
    BY <2>2
  <2>4. \A r \in Runs : left[r] \in SUBSET Parts
    BY <1>1, <2>3
  <2> QED BY <2>1, <2>3, <2>4
<1>3. Without(S) \in [Runs -> SUBSET Parts]
  BY <1>1 DEF Without
<1> QED BY <1>2, <1>3 DEF Without

LEMMA RemovedTypes ==
  ASSUME Types, NEW S
  PROVE  /\ Leave(Without(S)) => FilesTypes'
         /\ (\E left \in Partly(S) : Leave(left)) => FilesTypes'
<1>1. /\ Without(S) \in [Runs -> SUBSET Parts]
      /\ \A r \in Runs : "proposal" \in Without(S)[r] => "proposal" \in files[r]
  BY Removals
<1>2. \A left \in Partly(S) :
              /\ left \in [Runs -> SUBSET Parts]
              /\ \A r \in Runs : "proposal" \in left[r] => "proposal" \in files[r]
  BY Removals
<1> QED BY <1>1, <1>2, LeaveTypes

LEMMA IndexedTypes ==
  ASSUME Types, NEW t \in Turns, NEW a \in Attempts, NEW terminal \in BOOLEAN,
         index' = Indexed(t, a, terminal)
  PROVE  IndexTypes'
BY RunParts DEF Types, IndexTypes, Indexed

LEMMA NoIndexTypes == ASSUME Types, NEW T, index' = NoIndex(T) PROVE IndexTypes'
BY DEF Types, IndexTypes, NoIndex

LEMMA RestartTypes ==
  ASSUME Types, Restart, cleared' = cleared
  PROVE  MainTypes' /\ RunnerTypes' /\ ScanTypes' /\ GhostTypes'
<1>1. MainTypes'
  BY KeepTypes DEF Restart
<1>2. RunnerTypes' /\ ScanTypes' /\ GhostTypes'
  BY DEF Types, Restart, RunnerTypes, ScanTypes, GhostTypes, Stages, Holding
<1> QED BY <1>1, <1>2

LEMMA BecomesTypes ==
  ASSUME Types, NEW r \in Runs, NEW stage \in Stages, Becomes(r, stage),
         stage \in Holding => runner[r] \in Holding
  PROVE  RunnerTypes' /\ ScanTypes'
<1>1. RunnerTypes'
  BY DEF Types, RunnerTypes, Becomes, Holding
<1> QED BY <1>1, KeepTypes DEF Becomes

LEMMA OffersTypes ==
  ASSUME Types, NEW r \in Runs, NEW stage \in Stages, NEW x \in Terminals, Offers(r, stage, x)
  PROVE  RunnerTypes' /\ ScanTypes'
<1>1. RunnerTypes'
  BY DEF Types, RunnerTypes, Offers
<1> QED BY <1>1, KeepTypes DEF Offers

LEMMA RaisedTypes ==
  ASSUME Types, NEW t \in Turns, NEW f \in 0..Whole, NEW e \in 0..Whole, e <= f,
         fence' = [fence EXCEPT ![t] = f], erased' = [erased EXCEPT ![t] = e], userFence' = userFence
  PROVE  FenceTypes'
BY DEF Types, FenceTypes

LEMMA MainMovesTypes == ASSUME Types, MainMoves PROVE Types'
<1> USE RunParts
<1>1. ASSUME NEW t \in Turns, Begin(t) PROVE MainTypes'
  BY <1>1 DEF Types, Begin, MainTypes
<1>2. ASSUME NEW t \in Turns, Post(t) PROVE MainTypes'
  <2>1. attempt[t] \in Attempts
    BY <1>2 DEF Types, MainTypes, Post, Attempts
  <2> QED BY <1>2, <2>1 DEF Types, Post, MainTypes
<1>3. ASSUME NEW T \in SUBSET Turns, Stop(T) PROVE MainTypes'
  <2>1. \A t \in T : attempt[t] \in Attempts
    BY <1>3 DEF Types, MainTypes, Stop, Attempts
  <2> QED BY <1>3, <2>1 DEF Types, Stop, MainTypes
<1>4. ASSUME NEW T \in SUBSET Turns, Delete(T) PROVE MainTypes'
  BY <1>4 DEF Types, Delete, MainTypes
<1>5. MainTypes'
  BY <1>1, <1>2, <1>3, <1>4 DEF MainMoves
<1> QED BY <1>5, KeepTypes DEF MainMoves, diskVars, memoryVars, Types

LEMMA RunStepTypes == ASSUME Types, NEW r \in Runs, RunStep(r) PROVE Types'
<1> USE KeepTypes, RunParts DEF Types, mainVars, diskVars, memoryVars, ghostVars
<1>1. CASE StartScanned(r)
  <2>1. RunnerTypes' /\ ScanTypes'
    BY <1>1 DEF StartScanned, RunnerTypes, ScanTypes, Stages, Holding
  <2> QED BY <1>1, <2>1 DEF StartScanned
<1>2. CASE ReadEvidence(r)
  <2>1. CASE Becomes(r, "off") \/ Becomes(r, "interrupted") \/ Becomes(r, "prepared")
    <3>1. RunnerTypes' /\ ScanTypes'
      BY <2>1, BecomesTypes DEF Stages, Holding
    <3> QED BY <1>2, <3>1 DEF ReadEvidence
  <2>2. CASE "proposal" \in files[r] /\ Offers(r, "replay", proposal[r])
    <3>1. proposal[r] \in Terminals
      BY <2>2 DEF FilesTypes
    <3>2. RunnerTypes' /\ ScanTypes'
      BY <2>2, <3>1, OffersTypes DEF Stages
    <3> QED BY <1>2, <3>2 DEF ReadEvidence
  <2> QED BY <1>2, <2>1, <2>2 DEF ReadEvidence
<1>3. CASE Dispatch(r)
  <2>1. FilesTypes'
    BY <1>3, AddedTypes DEF Dispatch, Parts
  <2>2. RunnerTypes' /\ ScanTypes'
    BY <1>3, BecomesTypes DEF Dispatch, Stages, Holding
  <2>3. GhostTypes'
    BY <1>3 DEF Dispatch, GhostTypes
  <2> QED BY <1>3, <2>1, <2>2, <2>3 DEF Dispatch
<1>4. CASE Defer(r) \/ ResponseLost(r) \/ Refused(r)
  <2>1. RunnerTypes' /\ ScanTypes'
    BY <1>4, BecomesTypes DEF Defer, ResponseLost, Refused, Stages, Holding
  <2> QED BY <1>4, <2>1 DEF Defer, ResponseLost, Refused
<1>5. ASSUME NEW o \in {"sent", "failed"}, Propose(r, o) PROVE Types'
  <2>1. <<o, dispatched[r]>> \in Terminals
    BY DEF GhostTypes
  <2>2. FilesTypes'
    BY <1>5, <2>1 DEF Propose, FilesTypes, Parts
  <2>3. RunnerTypes' /\ ScanTypes'
    BY <1>5, <2>1, OffersTypes DEF Propose, Stages
  <2> QED BY <1>5, <2>2, <2>3 DEF Propose
<1>6. CASE PostTerminal(r)
  <2>1. offer[r] \in Terminals
    BY <1>6 DEF PostTerminal, RunnerTypes, Holding
  <2>2. RunnerTypes' /\ ScanTypes'
    BY <1>6, BecomesTypes DEF PostTerminal, Stages, Holding
  <2>3. GhostTypes'
    BY <1>6, <2>1 DEF PostTerminal, GhostTypes
  <2> QED BY <1>6, <2>2, <2>3 DEF PostTerminal
<1>7. CASE Response(r)
  <2>1. RunnerTypes' /\ ScanTypes'
    BY <1>7, BecomesTypes DEF Response, Stages, Holding
  <2> QED BY <1>7, <2>1 DEF Response
<1>8. CASE Finish(r)
  <2>1. FilesTypes'
    <3> DEFINE parts == IF Committed(r) THEN {} ELSE (files[r] \ {"proposal"}) \cup {"completion"}
    <3>1. parts \in SUBSET Parts /\ ("proposal" \in parts => "proposal" \in files[r])
      BY DEF FilesTypes, Parts
    <3>2. Leave([files EXCEPT ![r] = parts])
      BY <1>8 DEF Finish
    <3> QED BY <3>1, <3>2, EndedTypes
  <2>2. RunnerTypes' /\ ScanTypes'
    BY <1>8, BecomesTypes DEF Finish, Stages, Holding
  <2>3. IndexTypes'
    BY <1>8, IndexedTypes DEF Finish, Finishing
  <2> QED BY <1>8, <2>1, <2>2, <2>3 DEF Finish
<1>9. CASE CrashInFinish(r)
  <2>1. FilesTypes'
    <3>1. CASE \E left \in Partly({r}) : Leave(left)
      BY <3>1, RemovedTypes
    <3>2. CASE Leave([files EXCEPT ![r] = @ \cup {"completion"}])
      <4>1. files[r] \cup {"completion"} \in SUBSET Parts
        BY DEF FilesTypes, Parts
      <4> QED BY <3>2, <4>1, EndedTypes
    <3> QED BY <1>9, <3>1, <3>2 DEF CrashInFinish
  <2>2. IndexTypes'
    BY <1>9, IndexedTypes DEF CrashInFinish, Finishing
  <2>3. MainTypes' /\ RunnerTypes' /\ ScanTypes' /\ GhostTypes'
    BY <1>9, RestartTypes DEF CrashInFinish
  <2> QED BY <1>9, <2>1, <2>2, <2>3 DEF CrashInFinish
<1>10. ASSUME NEW x \in Terminals, MainAccepts(r, x) PROVE Types'
  <2>1. MainTypes'
    BY <1>10 DEF MainAccepts, Accept, MainTypes, Live
  <2> QED BY <1>10, <2>1 DEF MainAccepts
<1>11. CASE MainRefuses(r)
  <2>1. RunnerTypes' /\ ScanTypes'
    BY <1>11, BecomesTypes DEF MainRefuses, Stages, Holding
  <2>2. GhostTypes'
    BY <1>11 DEF MainRefuses, GhostTypes
  <2> QED BY <1>11, <2>1, <2>2 DEF MainRefuses
<1> QED BY <1>1, <1>2, <1>3, <1>4, <1>5, <1>6, <1>7, <1>8, <1>9, <1>10, <1>11 DEF RunStep

LEMMA TurnStepTypes ==
  ASSUME Types, NEW t \in Turns, NEW a \in Attempts,
         Admit(t, a) \/ CrashInAdmission(t, a) \/ CancelFences(t, a) \/ CancelRecords(t, a)
                     \/ CrashInCancel(t, a)
  PROVE  Types'
<1> DEFINE r == <<t, a>>
<1> USE KeepTypes, RunParts DEF Types, mainVars, diskVars, memoryVars, ghostVars
<1>1. CASE Admit(t, a)
  <2>1. FilesTypes'
    BY <1>1, AddedTypes DEF Admit, Parts
  <2>2. IndexTypes'
    BY <1>1, IndexedTypes DEF Admit
  <2>3. RunnerTypes' /\ ScanTypes'
    <3>1. r \in Runs /\ runner[r] \in Stages
      BY DEF RunnerTypes
    <3> QED BY <1>1, <3>1, BecomesTypes DEF Admit, Stages, Holding
  <2> QED BY <1>1, <2>1, <2>2, <2>3 DEF Admit
<1>2. CASE CrashInAdmission(t, a)
  <2>1. FilesTypes'
    BY <1>2, AddedTypes DEF CrashInAdmission, Parts
  <2> QED BY <1>2, <2>1, RestartTypes DEF CrashInAdmission
<1>3. CASE CancelFences(t, a)
  <2>1. FenceTypes'
    BY <1>3 DEF CancelFences, FenceTypes
  <2> QED BY <1>3, <2>1 DEF CancelFences
<1>4. CASE CancelRecords(t, a)
  <2>1. (files[r] \ {"proposal"}) \cup {"completion"} \in SUBSET Parts
    BY DEF FilesTypes, Parts
  <2>2. FilesTypes'
    BY <1>4, <2>1, EndedTypes DEF CancelRecords
  <2>3. IndexTypes'
    BY <1>4, IndexedTypes DEF CancelRecords
  <2> QED BY <1>4, <2>2, <2>3 DEF CancelRecords
<1>5. CASE CrashInCancel(t, a)
  <2>1. FilesTypes'
    BY <1>5, AddedTypes DEF CrashInCancel, Parts
  <2>2. IndexTypes'
    BY <1>5, IndexedTypes DEF CrashInCancel
  <2> QED BY <1>5, <2>1, <2>2, RestartTypes DEF CrashInCancel
<1> QED BY <1>1, <1>2, <1>3, <1>4, <1>5

LEMMA PurgeStepTypes ==
  ASSUME Types, NEW t \in Turns, NEW k \in Attempts \cup {Whole},
         PurgeFences(t, k) \/ PurgeRemoves(t, k) \/ CrashInPurge(t, k)
  PROVE  Types'
<1> USE KeepTypes, RunParts DEF Types, mainVars, diskVars, memoryVars, ghostVars
<1>1. CASE PurgeFences(t, k)
  <2>1. FenceTypes'
    BY <1>1 DEF PurgeFences, FenceTypes, Higher
  <2> QED BY <1>1, <2>1 DEF PurgeFences
<1>2. CASE PurgeRemoves(t, k)
  <2>1. FilesTypes'
    BY <1>2, RemovedTypes DEF PurgeRemoves
  <2>2. IndexTypes'
    BY <1>2, NoIndexTypes DEF PurgeRemoves
  <2>3. GhostTypes'
    BY <1>2 DEF PurgeRemoves, GhostTypes, Higher
  <2> QED BY <1>2, <2>1, <2>2, <2>3 DEF PurgeRemoves
<1>3. CASE CrashInPurge(t, k)
  <2>1. FilesTypes'
    BY <1>3, RemovedTypes DEF CrashInPurge
  <2> QED BY <1>3, <2>1, RestartTypes DEF CrashInPurge
<1> QED BY <1>1, <1>2, <1>3

LEMMA EraseStepTypes ==
  ASSUME Types,
         (\E t \in Turns : ErasePurges(t) \/ CrashInErasure(t)) \/ EraseFences \/ EraseDrains \/ EraseEnds
  PROVE  Types'
<1> USE KeepTypes, RunParts DEF Types, mainVars, diskVars, memoryVars, ghostVars
<1>1. ASSUME NEW t \in Turns, ErasesTurn(t), userFence' = userFence PROVE FenceTypes'
  BY <1>1 DEF ErasesTurn, FenceTypes
<1>2. ASSUME NEW t \in Turns, ErasePurges(t) PROVE Types'
  <2>1. FenceTypes'
    BY <1>1, <1>2 DEF ErasePurges
  <2>2. FilesTypes'
    BY <1>2, RemovedTypes DEF ErasePurges
  <2>3. IndexTypes'
    BY <1>2, NoIndexTypes DEF ErasePurges
  <2>4. ScanTypes'
    BY <1>2 DEF ErasePurges, ScanTypes
  <2> QED BY <1>2, <2>1, <2>2, <2>3, <2>4 DEF ErasePurges
<1>3. ASSUME NEW t \in Turns, CrashInErasure(t) PROVE Types'
  <2>1. FenceTypes'
    BY <1>1, <1>3 DEF CrashInErasure
  <2>2. FilesTypes'
    BY <1>3, RemovedTypes DEF CrashInErasure
  <2> QED BY <1>3, <2>1, <2>2, RestartTypes DEF CrashInErasure
<1>4. CASE EraseFences
  <2>1. FenceTypes' /\ ScanTypes'
    BY <1>4 DEF EraseFences, FenceTypes, ScanTypes
  <2> QED BY <1>4, <2>1 DEF EraseFences
<1>5. CASE EraseDrains
  <2>1. ScanTypes'
    BY <1>5 DEF EraseDrains, ScanTypes
  <2> QED BY <1>5, <2>1 DEF EraseDrains
<1>6. CASE EraseEnds
  <2>1. IndexTypes' /\ ScanTypes'
    BY <1>6, NoIndexTypes DEF EraseEnds, ScanTypes
  <2> QED BY <1>6, <2>1 DEF EraseEnds
<1> QED BY <1>2, <1>3, <1>4, <1>5, <1>6

LEMMA TypesNext == ASSUME Types, [RunsNext]_vars PROVE Types'
<1>1. CASE ScanIncomplete
  <2>1. ScanTypes'
    BY <1>1 DEF ScanIncomplete, Incomplete, Types, ScanTypes
  <2> QED BY <1>1, <2>1, KeepTypes DEF ScanIncomplete, Types, diskVars
<1>2. CASE Crash
  BY <1>2, RestartTypes, KeepTypes DEF Crash, Types, diskVars
<1>3. CASE UNCHANGED vars
  BY <1>3, KeepTypes DEF vars, diskVars, memoryVars, Types
<1> QED BY <1>1, <1>2, <1>3, MainMovesTypes, RunStepTypes, TurnStepTypes, PurgeStepTypes, EraseStepTypes
        DEF RunsNext

\* Types is RunsTypeOK, and what Main and a runner's stage say besides.
LEMMA TypesSuffice == ASSUME Types PROVE RunsTypeOK
BY DEF Types, FilesTypes, IndexTypes, FenceTypes, RunnerTypes, ScanTypes, GhostTypes, RunsTypeOK

-----------------------------------------------------------------------------
\* What a step does to one run: which of these it may be, whatever the action.

SameFiles(q)  == files'[q] = files[q] /\ proposal'[q] = proposal[q]
SameRunner(q) == runner'[q] = runner[q] /\ offer'[q] = offer[q]
Halts(q)      == runner'[q] = "off"
Sent(q, x)    == <<q[1], q[2], x>> \in sent
Silent(q)     == dispatched'[q] = dispatched[q] /\ \A x \in Terminals : Sent(q, x)' = Sent(q, x)

AddsInput(q) ==
  /\ ~userFence /\ ~Fenced(q)
  /\ files'[q] = files[q] \cup {"input"} /\ proposal'[q] = proposal[q]

Rests(q) == SameFiles(q) /\ Silent(q) /\ (SameRunner(q) \/ Halts(q))

Starts(q) ==
  /\ q \in posted \cup scanned
  /\ SameFiles(q) \/ AddsInput(q)
  /\ SameRunner(q) \/ Halts(q) \/ (runner[q] = "off" /\ runner'[q] = "begun")
  /\ Silent(q)

Reads(q) ==
  /\ runner[q] = "begun" /\ ~Fenced(q) /\ "input" \in files[q] /\ "completion" \notin files[q]
  /\ \/ "proposal" \in files[q] /\ runner'[q] = "replay" /\ offer'[q] = proposal[q]
     \/ runner'[q] = "interrupted"
     \/ "journal" \notin files[q] /\ runner'[q] = "prepared"
  /\ SameFiles(q) /\ Silent(q)

Asks(q) ==
  /\ runner[q] = "prepared" /\ Writable(q)
  /\ files'[q] = files[q] \cup {"journal"} /\ proposal'[q] = proposal[q]
  /\ dispatched'[q] = dispatched[q] + 1
  /\ \A x \in Terminals : Sent(q, x)' = Sent(q, x)
  /\ runner'[q] = "model"

Proposes(q) ==
  /\ runner[q] \notin {"off", "begun"} /\ Writable(q)
  /\ "proposal" \notin files[q]
  /\ files'[q] = files[q] \cup {"proposal"} /\ offer'[q] = proposal'[q]
  /\ runner'[q] = "proposed" /\ Silent(q)

Posts(q) ==
  /\ runner[q] \in {"proposed", "replay"}
  /\ dispatched'[q] = dispatched[q]
  /\ \A x \in Terminals : Sent(q, x)' => Sent(q, x) \/ x = offer[q]
  /\ runner'[q] = "waiting" /\ offer'[q] = offer[q] /\ SameFiles(q)

Answers(q) ==
  /\ runner[q] = "waiting" /\ SameFiles(q) /\ Silent(q)
  /\ \/ runner'[q] = "accepted" /\ Accepted(q)
     \/ runner'[q] = "rejected" /\ (TooLate(q) \/ q \in refused')

Closing(q) == \/ runner[q] \in {"accepted", "rejected"} /\ Writable(q) /\ Halts(q)
              \/ Recordable(q) /\ (SameRunner(q) \/ Halts(q))

\* Only a run whose reply was accepted leaves less than its completion.
Ends(q, left) ==
  /\ left \subseteq files[q] \cup {"completion"}
  /\ runner[q] = "accepted" \/ (files[q] \ {"proposal"}) \cup {"completion"} \subseteq left

Closes(q) ==
  /\ "input" \in files[q] /\ Closing(q)
  /\ Ends(q, files'[q])
  /\ "proposal" \in files'[q] => proposal'[q] = proposal[q]
  /\ Silent(q)

Loses(q) ==
  /\ files'[q] \subseteq files[q]
  /\ "proposal" \in files'[q] => proposal'[q] = proposal[q]
  /\ Fenced(q)'
  /\ SameRunner(q) \/ Halts(q)
  /\ Silent(q)

Moves(q) == \/ Rests(q) \/ Starts(q) \/ Reads(q) \/ Asks(q) \/ Proposes(q)
            \/ Posts(q) \/ Answers(q) \/ Closes(q) \/ Loses(q)

\* Memory that a restart forgets, for each run.
LEMMA RestartMoves ==
  ASSUME Restart, NEW q \in Runs PROVE Halts(q) /\ Silent(q)
BY DEF Restart, Halts, Silent, Sent

LEMMA LeaveMoves ==
  ASSUME NEW left, Leave(left), NEW q \in Runs
  PROVE  files'[q] = left[q] /\ ("proposal" \in files'[q] => proposal'[q] = proposal[q])
BY DEF Leave

LEMMA LeaveOthers ==
  ASSUME Types, NEW left, Leave(left), NEW q \in Runs, left[q] = files[q]
  PROVE  SameFiles(q)
BY DEF Leave, Types, FilesTypes, SameFiles

\* A removal, whole or cut short, takes from the fenced runs S.
LEMMA RemovalMoves ==
  ASSUME Types, NEW S, NEW q \in Runs, q \in S => Fenced(q)',
         Leave(Without(S)) \/ \E left \in Partly(S) : Leave(left),
         SameRunner(q) \/ Halts(q), Silent(q)
  PROVE  Moves(q)
<1>1. PICK left : /\ Leave(left) /\ left[q] \subseteq files[q] /\ (q \notin S => left[q] = files[q])
  BY Removals
<1>2. /\ files'[q] \subseteq files[q] /\ (q \notin S => files'[q] = files[q])
      /\ "proposal" \in files'[q] => proposal'[q] = proposal[q]
  BY <1>1, LeaveMoves
<1>3. CASE q \in S
  BY <1>2, <1>3 DEF Moves, Loses
<1>4. CASE q \notin S
  BY <1>1, <1>4, LeaveOthers DEF Moves, Rests
<1> QED BY <1>3, <1>4

\* The files of r are what a closed run leaves, in part or whole.
LEMMA ClosingMoves ==
  ASSUME Types, NEW r \in Runs, NEW q \in Runs, NEW left, Leave(left),
         Ends(r, left[r]), q # r => left[q] = files[q],
         "input" \in files[r], Silent(q), q = r => Closing(q), SameRunner(q) \/ Halts(q)
  PROVE  Moves(q)
<1>1. CASE q = r
  BY <1>1, LeaveMoves DEF Closes, Moves
<1>2. CASE q # r
  BY <1>2, LeaveOthers DEF Rests, Moves
<1> QED BY <1>1, <1>2

LEMMA RunStepMoves ==
  ASSUME Types, NEW r \in Runs, RunStep(r), NEW q \in Runs
  PROVE  Moves(q)
<1> USE DEF Types, FilesTypes, RunnerTypes, GhostTypes, SameFiles, SameRunner, Halts, Silent, Sent,
            mainVars, diskVars, memoryVars, ghostVars, Moves
<1>1. CASE StartScanned(r)
  BY <1>1 DEF StartScanned, Starts, Rests
<1>2. CASE ReadEvidence(r)
  BY <1>2 DEF ReadEvidence, Becomes, Offers, Reads, Rests, Uncertain
<1>3. CASE Dispatch(r)
  BY <1>3 DEF Dispatch, Becomes, Asks, Rests
<1>4. CASE Defer(r) \/ ResponseLost(r) \/ Refused(r)
  BY <1>4 DEF Defer, ResponseLost, Refused, Becomes, Rests
<1>5. ASSUME NEW o \in {"sent", "failed"}, Propose(r, o) PROVE Moves(q)
  BY <1>5 DEF Propose, Offers, Proposes, Rests
<1>6. CASE PostTerminal(r)
  <2>1. q = <<q[1], q[2]>> /\ r = <<r[1], r[2]>>
    BY RunParts
  <2> QED BY <1>6, <2>1 DEF PostTerminal, Becomes, Posts, Rests
<1>7. CASE Response(r)
  BY <1>7 DEF Response, Becomes, Answers, Rests
<1>8. CASE Finish(r)
  <2> DEFINE left == [files EXCEPT ![r] = IF Committed(r) THEN {} ELSE (@ \ {"proposal"}) \cup {"completion"}]
  <2>1. Leave(left)
    BY <1>8 DEF Finish
  <2>2. Ends(r, left[r]) /\ (q # r => left[q] = files[q])
    BY DEF Ends, Committed
  <2>3. "input" \in files[r] /\ Silent(q) /\ (q = r => Closing(q)) /\ (SameRunner(q) \/ Halts(q))
    BY <1>8 DEF Finish, Finishing, Becomes, Closing
  <2> HIDE DEF left
  <2> QED BY <2>1, <2>2, <2>3, ClosingMoves
<1>9. CASE CrashInFinish(r)
  <2>1. Halts(q) /\ Silent(q) /\ "input" \in files[r] /\ (q = r => Closing(q))
    BY <1>9, RestartMoves DEF CrashInFinish, Finishing, Closing
  <2>2. CASE Committed(r) /\ \E left \in Partly({r}) : Leave(left)
    <3>1. PICK left : /\ Leave(left) /\ left[r] \subseteq files[r] /\ (q # r => left[q] = files[q])
      BY <2>2, Removals
    <3>2. Ends(r, left[r])
      BY <2>2, <3>1 DEF Ends, Committed
    <3> QED BY <2>1, <3>1, <3>2, ClosingMoves
  <2>3. CASE Leave([files EXCEPT ![r] = @ \cup {"completion"}])
    <3> DEFINE left == [files EXCEPT ![r] = @ \cup {"completion"}]
    <3>1. Ends(r, left[r]) /\ (q # r => left[q] = files[q])
      BY DEF Ends
    <3> HIDE DEF left
    <3> QED BY <2>1, <2>3, <3>1, ClosingMoves DEF left
  <2> QED BY <1>9, <2>2, <2>3 DEF CrashInFinish
<1>10. ASSUME NEW x \in Terminals, MainAccepts(r, x) PROVE Moves(q)
  BY <1>10 DEF MainAccepts, Rests
<1>11. CASE MainRefuses(r)
  BY <1>11 DEF MainRefuses, Becomes, Answers, Rests
<1> QED BY <1>1, <1>2, <1>3, <1>4, <1>5, <1>6, <1>7, <1>8, <1>9, <1>10, <1>11 DEF RunStep

LEMMA TurnStepMoves ==
  ASSUME Types, NEW t \in Turns, NEW a \in Attempts, NEW q \in Runs,
         Admit(t, a) \/ CrashInAdmission(t, a) \/ CancelFences(t, a) \/ CancelRecords(t, a)
                     \/ CrashInCancel(t, a)
  PROVE  Moves(q)
<1> DEFINE r == <<t, a>>
<1>0. r \in Runs
  BY RunParts
<1> USE <1>0 DEF Types, FilesTypes, RunnerTypes, GhostTypes, SameFiles, SameRunner, Halts, Silent, Sent,
            mainVars, diskVars, memoryVars, ghostVars, Moves
<1>1. CASE Admit(t, a)
  BY <1>1 DEF Admit, Admissible, Becomes, Starts, AddsInput, Rests
<1>2. CASE CrashInAdmission(t, a)
  <2>1. Halts(q) /\ Silent(q)
    BY <1>2, RestartMoves DEF CrashInAdmission
  <2> QED BY <1>2, <2>1 DEF CrashInAdmission, Admissible, Starts, AddsInput, Rests
<1>3. CASE CancelFences(t, a)
  BY <1>3 DEF CancelFences, Rests
<1>4. CASE CancelRecords(t, a)
  <2> DEFINE left == [files EXCEPT ![r] = (@ \ {"proposal"}) \cup {"completion"}]
  <2>1. Leave(left)
    BY <1>4 DEF CancelRecords
  <2>2. Ends(r, left[r]) /\ (q # r => left[q] = files[q])
    BY DEF Ends
  <2>3. "input" \in files[r] /\ SameRunner(q) /\ Silent(q) /\ (q = r => Closing(q))
    BY <1>4 DEF CancelRecords, Recordable, Closing
  <2> HIDE DEF left
  <2> QED BY <2>1, <2>2, <2>3, ClosingMoves
<1>5. CASE CrashInCancel(t, a)
  <2>1. Halts(q) /\ Silent(q)
    BY <1>5, RestartMoves DEF CrashInCancel
  <2> QED BY <1>5, <2>1 DEF CrashInCancel, Recordable, Closing, Closes, Ends, Rests
<1> QED BY <1>1, <1>2, <1>3, <1>4, <1>5

LEMMA PurgeStepMoves ==
  ASSUME Types, NEW t \in Turns, NEW k \in Attempts \cup {Whole}, NEW q \in Runs,
         PurgeFences(t, k) \/ PurgeRemoves(t, k) \/ CrashInPurge(t, k)
  PROVE  Moves(q)
<1>1. CASE PurgeFences(t, k)
  BY <1>1 DEF PurgeFences, Moves, Rests, SameFiles, SameRunner, Silent, Sent, memoryVars, ghostVars
<1>2. ASSUME fence' = fence, erased[t] >= k, q \in Through(t, k) PROVE Fenced(q)'
  <2>1. q[2] <= k /\ q[1] = t /\ k \in Nat /\ q[2] \in Nat /\ erased[t] \in Nat /\ fence[t] \in Nat
    BY <1>2, RunParts DEF Through, Types, FenceTypes
  <2>2. erased[t] <= fence[t]
    BY DEF Types, FenceTypes
  <2> QED BY <1>2, <2>1, <2>2 DEF Fenced
<1>3. CASE PurgeRemoves(t, k)
  <2>1. SameRunner(q) /\ Silent(q) /\ (q \in Through(t, k) => Fenced(q)') /\ Leave(Without(Through(t, k)))
    BY <1>2, <1>3 DEF PurgeRemoves, SameRunner, Silent, Sent, memoryVars
  <2> QED BY <2>1, RemovalMoves
<1>4. CASE CrashInPurge(t, k)
  <2>1. Halts(q) /\ Silent(q) /\ (q \in Through(t, k) => Fenced(q)')
    BY <1>2, <1>4, RestartMoves DEF CrashInPurge
  <2> QED BY <1>4, <2>1, RemovalMoves DEF CrashInPurge
<1> QED BY <1>1, <1>3, <1>4

LEMMA EraseStepMoves ==
  ASSUME Types, NEW q \in Runs,
         (\E t \in Turns : ErasePurges(t) \/ CrashInErasure(t)) \/ EraseFences \/ EraseDrains \/ EraseEnds
  PROVE  Moves(q)
<1>1. ASSUME NEW t \in Turns, ErasesTurn(t), q \in Through(t, MaxAttempt) PROVE Fenced(q)'
  <2>1. q[1] = t /\ q[2] \in Nat /\ q[2] < Whole /\ Whole \in Nat /\ fence'[t] = Whole
    BY <1>1, RunParts DEF Through, ErasesTurn, Types, FenceTypes
  <2> QED BY <2>1 DEF Fenced
<1>2. ASSUME NEW t \in Turns, ErasePurges(t) PROVE Moves(q)
  <2>1. SameRunner(q) /\ Silent(q) /\ (q \in Through(t, MaxAttempt) => Fenced(q)')
        /\ Leave(Without(Through(t, MaxAttempt)))
    BY <1>1, <1>2 DEF ErasePurges, SameRunner, Silent, Sent, ghostVars
  <2> QED BY <2>1, RemovalMoves
<1>3. ASSUME NEW t \in Turns, CrashInErasure(t) PROVE Moves(q)
  <2>1. Halts(q) /\ Silent(q) /\ (q \in Through(t, MaxAttempt) => Fenced(q)')
    BY <1>1, <1>3, RestartMoves DEF CrashInErasure
  <2> QED BY <1>3, <2>1, RemovalMoves DEF CrashInErasure
<1>4. CASE EraseFences \/ EraseDrains \/ EraseEnds
  BY <1>4 DEF EraseFences, EraseDrains, EraseEnds, Moves, Rests, SameFiles, SameRunner, Silent, Sent,
              diskVars, ghostVars
<1> QED BY <1>2, <1>3, <1>4

LEMMA EveryStepMoves == ASSUME Types, [RunsNext]_vars, NEW q \in Runs PROVE Moves(q)
<1>1. CASE MainMoves \/ ScanIncomplete \/ UNCHANGED vars
  BY <1>1 DEF MainMoves, ScanIncomplete, vars, Moves, Rests, SameFiles, SameRunner, Silent, Sent,
              diskVars, memoryVars, ghostVars
<1>2. CASE Crash
  BY <1>2, RestartMoves DEF Crash, Moves, Rests, SameFiles, diskVars
<1> QED BY <1>1, <1>2, RunStepMoves, TurnStepMoves, PurgeStepMoves, EraseStepMoves DEF RunsNext

-----------------------------------------------------------------------------
\* What a step does to Main and to the index of a Turn.

\* An attempt that is no longer live, and will not be again.
Over(t, a) == a <= attempt[t] /\ ~Live(t, a)

\* Main's attempts only go on.
MainAdvances ==
  /\ posted \subseteq posted'
  /\ \A t \in Turns, a \in 0..MaxAttempt : /\ a <= attempt[t] => a <= attempt'[t]
                                           /\ Over(t, a) => Over(t, a)'
                                           /\ Live(t, a)' => Live(t, a) \/ ~(a <= attempt[t])

LEMMA MainSteps ==
  ASSUME [RunsNext]_vars
  PROVE  \/ UNCHANGED mainVars \/ MainMoves
         \/ \E r \in Runs, x \in Terminals : MainAccepts(r, x)
<1>1. ASSUME NEW r \in Runs, RunStep(r)
      PROVE  UNCHANGED mainVars \/ \E x \in Terminals : MainAccepts(r, x)
  BY <1>1 DEF RunStep, StartScanned, ReadEvidence, Dispatch, Defer, Propose, PostTerminal,
     Response, ResponseLost, Finish, Refused, CrashInFinish, MainRefuses, Restart
<1>2. ASSUME NEW t \in Turns, NEW a \in Attempts,
             Admit(t, a) \/ CrashInAdmission(t, a) \/ CancelFences(t, a) \/ CancelRecords(t, a)
                         \/ CrashInCancel(t, a)
      PROVE  UNCHANGED mainVars
  BY <1>2 DEF Admit, CrashInAdmission, CancelFences, CancelRecords, CrashInCancel, Restart
<1>3. ASSUME NEW t \in Turns, NEW k \in Attempts \cup {Whole},
             PurgeFences(t, k) \/ PurgeRemoves(t, k) \/ CrashInPurge(t, k)
      PROVE  UNCHANGED mainVars
  BY <1>3 DEF PurgeFences, PurgeRemoves, CrashInPurge, Restart
<1>4. ASSUME NEW t \in Turns, ErasePurges(t) \/ CrashInErasure(t) PROVE UNCHANGED mainVars
  BY <1>4 DEF ErasePurges, CrashInErasure, Restart
<1>5. ASSUME ScanIncomplete \/ EraseFences \/ EraseDrains \/ EraseEnds \/ Crash \/ UNCHANGED vars
      PROVE  UNCHANGED mainVars
  BY <1>5 DEF ScanIncomplete, EraseFences, EraseDrains, EraseEnds, Crash, Restart, vars
<1> QED BY <1>1, <1>2, <1>3, <1>4, <1>5 DEF RunsNext

LEMMA EveryStepAdvances == ASSUME Types, [RunsNext]_vars PROVE MainAdvances
<1>0. /\ \A t \in Turns : attempt[t] \in Nat
      /\ attempt \in [Turns -> 0..MaxAttempt]
      /\ state \in [Turns -> {"none", "active", "ended", "deleted"}]
      /\ \A a \in 0..MaxAttempt : a \in Nat
  BY DEF Types, MainTypes
<1>1. CASE UNCHANGED mainVars
  BY <1>1 DEF mainVars, MainAdvances, Over, Live
<1>2. ASSUME NEW t \in Turns, Begin(t) PROVE MainAdvances
  BY <1>0, <1>2 DEF Begin, MainAdvances, Over, Live
<1>3. ASSUME NEW t \in Turns, Post(t) PROVE MainAdvances
  BY <1>3 DEF Post, MainAdvances, Over, Live
<1>4. ASSUME NEW T \in SUBSET Turns, Stop(T) \/ Delete(T) PROVE MainAdvances
  BY <1>0, <1>4 DEF Stop, Delete, MainAdvances, Over, Live
<1>5. ASSUME NEW r \in Runs, NEW x \in Terminals, MainAccepts(r, x) PROVE MainAdvances
  BY <1>0, <1>5 DEF MainAccepts, Accept, MainAdvances, Over, Live
<1>6. ASSUME MainMoves PROVE MainAdvances
  BY <1>2, <1>3, <1>4, <1>6 DEF MainMoves
<1> QED BY <1>1, <1>5, <1>6, MainSteps

NoEntry == [attempt |-> 0, terminal |-> FALSE]
Entry(a, terminal) == [attempt |-> a, terminal |-> terminal]

\* A newer attempt, or the same one, is entered; it is closed when its run is.
Reopens(t) ==
  \E a \in Attempts : /\ <<t, a>> \in posted
                      /\ index[t].attempt < a \/ (index[t].attempt = a /\ ~index[t].terminal)
                      /\ index'[t] = Entry(a, FALSE)

Shuts(t) ==
  \E a \in Attempts : /\ \/ runner[<<t, a>>] \in {"accepted", "rejected"}
                         \/ <<t, a>> \in stops
                      /\ index[t].attempt <= a
                      /\ index'[t] = Entry(a, TRUE)

IndexMoves(t) == \/ index'[t] = index[t] \/ index'[t] = NoEntry \/ Reopens(t) \/ Shuts(t)

LEMMA IndexedMoves ==
  ASSUME Types, NEW t \in Turns, NEW a \in Attempts, NEW u \in Turns,
         \/ index' = Indexed(t, a, FALSE) /\ Admissible(t, a)
         \/ index' = Indexed(t, a, TRUE)
            /\ (runner[<<t, a>>] \in {"accepted", "rejected"} \/ <<t, a>> \in stops)
  PROVE  IndexMoves(u)
<1>1. index[t].attempt \in Nat /\ a \in Nat /\ index[t] \in [attempt : 0..MaxAttempt, terminal : BOOLEAN]
  BY RunParts DEF Types, IndexTypes
<1>2. CASE u # t \/ index[t].attempt > a
  BY <1>2 DEF Indexed, IndexMoves, Types, IndexTypes
<1>3. CASE u = t /\ ~(index[t].attempt > a)
  <2>1. ASSUME NEW x, index' = Indexed(t, a, x) PROVE index'[u] = Entry(a, x)
    BY <1>3, <2>1 DEF Indexed, Types, IndexTypes, Entry
  <2>2. index[t].attempt <= a
    BY <1>1, <1>3
  <2>3. CASE index' = Indexed(t, a, FALSE) /\ Admissible(t, a)
    BY <1>3, <2>1, <2>3 DEF IndexMoves, Reopens, Admissible
  <2>4. CASE /\ index' = Indexed(t, a, TRUE)
             /\ runner[<<t, a>>] \in {"accepted", "rejected"} \/ <<t, a>> \in stops
    BY <1>3, <2>1, <2>2, <2>4 DEF IndexMoves, Shuts
  <2> QED BY <2>3, <2>4
<1> QED BY <1>2, <1>3

LEMMA EveryStepIndexes == ASSUME Types, [RunsNext]_vars, NEW u \in Turns PROVE IndexMoves(u)
<1>1. CASE index' = index
  BY <1>1 DEF IndexMoves
<1>2. ASSUME NEW T, index' = NoIndex(T) PROVE IndexMoves(u)
  BY <1>2 DEF NoIndex, IndexMoves, NoEntry
<1>3. ASSUME NEW r \in Runs, RunStep(r) PROVE IndexMoves(u)
  <2>1. CASE Finish(r) \/ CrashInFinish(r)
    BY <2>1, RunParts, IndexedMoves DEF Finish, CrashInFinish, Finishing
  <2> QED BY <1>1, <1>3, <2>1 DEF RunStep, StartScanned, ReadEvidence, Dispatch, Defer, Propose,
       PostTerminal, Response, ResponseLost, Refused, MainAccepts, MainRefuses, diskVars
<1>4. ASSUME NEW t \in Turns, NEW a \in Attempts,
             Admit(t, a) \/ CrashInAdmission(t, a) \/ CancelFences(t, a) \/ CancelRecords(t, a)
                         \/ CrashInCancel(t, a)
      PROVE  IndexMoves(u)
  BY <1>1, <1>4, IndexedMoves DEF Admit, CrashInAdmission, CancelFences, CancelRecords, CrashInCancel,
     Recordable
<1>5. ASSUME NEW t \in Turns, NEW k \in Attempts \cup {Whole},
             PurgeFences(t, k) \/ PurgeRemoves(t, k) \/ CrashInPurge(t, k)
      PROVE  IndexMoves(u)
  BY <1>1, <1>2, <1>5 DEF PurgeFences, PurgeRemoves, CrashInPurge
<1>6. ASSUME NEW t \in Turns, ErasePurges(t) \/ CrashInErasure(t) PROVE IndexMoves(u)
  BY <1>1, <1>2, <1>6 DEF ErasePurges, CrashInErasure
<1>7. CASE MainMoves \/ ScanIncomplete \/ EraseFences \/ EraseDrains \/ EraseEnds \/ Crash \/ UNCHANGED vars
  BY <1>1, <1>2, <1>7 DEF MainMoves, ScanIncomplete, EraseFences, EraseDrains, EraseEnds, Crash, vars, diskVars
<1> QED BY <1>3, <1>4, <1>5, <1>6, <1>7 DEF RunsNext

-----------------------------------------------------------------------------
\* The invariant, the rest of it.

Untouched(r) == files[r] = {} /\ runner[r] = "off" /\ dispatched[r] = 0

\* Chat knows no attempt that Main has not posted, and Main decided what it
\* acknowledged or stopped.
Known ==
  /\ \A r \in posted : r[2] <= attempt[r[1]]
  /\ \A x \in acked : Over(x[1], x[2])
  /\ \A r \in stops : Over(r[1], r[2])
  /\ scanned \subseteq posted
  /\ \A r \in Runs : r \in posted \/ (Untouched(r) /\ \A x \in Terminals : ~Sent(r, x))

\* Main has ended the attempt, or has refused a terminal of it.
Final(t, a) == Over(t, a) \/ <<t, a>> \in refused

\* A run is closed, or about to be, after such an answer; it is taken for
\* accepted only when Main has ended the attempt.
Closed ==
  /\ \A r \in Runs : "completion" \in files[r] \/ runner[r] \in {"accepted", "rejected"}
                       => Final(r[1], r[2])
  /\ \A r \in Runs : runner[r] = "accepted" => Over(r[1], r[2])
  /\ \A t \in Turns : /\ index[t].attempt <= attempt[t]
                      /\ index[t].terminal => Final(t, index[t].attempt)

\* The model of a live attempt is asked once; that is on record, or a fence
\* keeps the run from asking again.
AskedOnce(r) ==
  /\ dispatched[r] <= 1
  /\ \/ Fenced(r)
     \/ /\ dispatched[r] > 0 => "journal" \in files[r]
        /\ runner[r] = "prepared" => dispatched[r] = 0

\* What was offered to Main, and what a runner is about to offer.
Offered(r) ==
  {x \in Terminals : Sent(r, x) \/ (runner[r] \in {"proposed", "replay", "waiting"} /\ offer[r] = x)}

\* It is one terminal, the one on record while there is a record; without it
\* nothing has been offered, or a fence or the run's completion, which a refusal
\* of Main's leaves, keeps the run from proposing anew.
OneOffer(r) ==
  /\ \A x, y \in Offered(r) : x = y
  /\ "proposal" \in files[r] => \A x \in Offered(r) : x = proposal[r]
  /\ "proposal" \notin files[r] => Offered(r) = {} \/ Fenced(r) \/ "completion" \in files[r]
  /\ "completion" \in files[r] => runner[r] \in {"off", "begun"} \/ Fenced(r)

LiveRunsOK == \A r \in Runs : Live(r[1], r[2]) => AskedOnce(r) /\ OneOffer(r)

\* A run under way has its input, or is fenced; an erasure has its fence.
Held ==
  /\ \A r \in Runs : runner[r] \in {"off", "begun"} \/ "input" \in files[r] \/ Fenced(r)
  /\ erasing # "no" => userFence

\* A purge is acknowledged after its fence.
Gone ==
  /\ \A t \in Turns : cleared[t] <= erased[t]
  /\ PurgedStaysGone

RunInvariant == Types /\ Known /\ Closed /\ LiveRunsOK /\ Held /\ Gone

-----------------------------------------------------------------------------
LEMMA InitRuns == ASSUME RunsInit PROVE RunInvariant
<1>1. Types
  BY InitTypes
<1>2. /\ \A t \in Turns : attempt[t] = 0 /\ state[t] = "none" /\ index[t] = NoEntry
                          /\ cleared[t] = 0 /\ erased[t] = 0 /\ fence[t] = 0
      /\ \A r \in Runs : Untouched(r) /\ r[1] \in Turns /\ r[2] \in Nat
      /\ posted = {} /\ acked = {} /\ stops = {} /\ scanned = {} /\ sent = {} /\ erasing = "no"
  BY RunParts DEF RunsInit, Init, NoEntry, Untouched
<1>3. Known
  BY <1>2 DEF Known, Sent
<1>4. Closed /\ Held /\ Gone
  BY <1>2 DEF Closed, Held, Gone, NoEntry, Untouched, PurgedStaysGone, Through
<1>5. LiveRunsOK
  BY <1>2 DEF LiveRunsOK, Live
<1> QED BY <1>1, <1>3, <1>4, <1>5 DEF RunInvariant

\* Fences only rise.
LEMMA FencesRise ==
  ASSUME Types, [RunsNext]_vars
  PROVE  \A t \in Turns : fence[t] <= fence'[t] /\ erased[t] <= erased'[t]
<1>0. /\ \A t \in Turns : fence[t] \in Nat /\ fence[t] <= Whole /\ erased[t] \in Nat /\ erased[t] <= Whole
      /\ Whole \in Nat
      /\ fence \in [Turns -> 0..Whole] /\ erased \in [Turns -> 0..Whole]
      /\ \A a \in Attempts : a \in Nat
  BY RunParts DEF Types, FenceTypes
<1>1. CASE UNCHANGED <<fence, erased>>
  BY <1>0, <1>1
<1>2. ASSUME NEW t \in Turns, NEW a \in Attempts, CancelFences(t, a)
      PROVE  \A u \in Turns : fence[u] <= fence'[u] /\ erased[u] <= erased'[u]
  BY <1>0, <1>2 DEF CancelFences
<1>3. ASSUME NEW t \in Turns, NEW k \in Attempts \cup {Whole}, PurgeFences(t, k)
      PROVE  \A u \in Turns : fence[u] <= fence'[u] /\ erased[u] <= erased'[u]
  BY <1>0, <1>3 DEF PurgeFences, Higher
<1>4. ASSUME NEW t \in Turns, ErasesTurn(t)
      PROVE  \A u \in Turns : fence[u] <= fence'[u] /\ erased[u] <= erased'[u]
  BY <1>0, <1>4 DEF ErasesTurn
<1>5. ASSUME NEW r \in Runs, RunStep(r) PROVE UNCHANGED <<fence, erased>>
  BY <1>5 DEF RunStep, StartScanned, ReadEvidence, Dispatch, Defer, Propose, PostTerminal,
     Response, ResponseLost, Finish, Refused, CrashInFinish, MainAccepts, MainRefuses, diskVars
<1>6. ASSUME NEW t \in Turns, NEW a \in Attempts,
             Admit(t, a) \/ CrashInAdmission(t, a) \/ CancelRecords(t, a) \/ CrashInCancel(t, a)
      PROVE  UNCHANGED <<fence, erased>>
  BY <1>6 DEF Admit, CrashInAdmission, CancelRecords, CrashInCancel
<1>7. ASSUME NEW t \in Turns, NEW k \in Attempts \cup {Whole}, PurgeRemoves(t, k) \/ CrashInPurge(t, k)
      PROVE  UNCHANGED <<fence, erased>>
  BY <1>7 DEF PurgeRemoves, CrashInPurge
<1>8. ASSUME MainMoves \/ ScanIncomplete \/ EraseFences \/ EraseDrains \/ EraseEnds \/ Crash \/ UNCHANGED vars
      PROVE  UNCHANGED <<fence, erased>>
  BY <1>8 DEF MainMoves, ScanIncomplete, EraseFences, EraseDrains, EraseEnds, Crash, vars, diskVars
<1>9. ASSUME NEW t \in Turns, ErasePurges(t) \/ CrashInErasure(t) PROVE ErasesTurn(t)
  BY <1>9 DEF ErasePurges, CrashInErasure
<1> QED BY <1>1, <1>2, <1>3, <1>4, <1>5, <1>6, <1>7, <1>8, <1>9 DEF RunsNext

LEMMA StillFenced ==
  ASSUME Types, [RunsNext]_vars, NEW q \in Runs, Fenced(q) PROVE Fenced(q)'
<1>1. q[1] \in Turns /\ q[2] \in Nat /\ fence[q[1]] \in Nat /\ fence'[q[1]] \in Nat
  BY TypesNext, RunParts DEF Types, FenceTypes
<1> QED BY <1>1, FencesRise DEF Fenced

LEMMA ScannedSteps == ASSUME [RunsNext]_vars PROVE scanned' \subseteq scanned \cup Incomplete
<1>1. ASSUME NEW r \in Runs, RunStep(r) PROVE scanned' \subseteq scanned
  BY <1>1 DEF RunStep, StartScanned, ReadEvidence, Dispatch, Defer, Propose, PostTerminal, MainAccepts, MainRefuses,
     Response, ResponseLost, Finish, Refused, CrashInFinish, Restart, Becomes, Offers, memoryVars
<1>2. ASSUME NEW t \in Turns, NEW a \in Attempts,
             Admit(t, a) \/ CrashInAdmission(t, a) \/ CancelFences(t, a) \/ CancelRecords(t, a)
                         \/ CrashInCancel(t, a)
      PROVE  scanned' \subseteq scanned
  BY <1>2 DEF Admit, CrashInAdmission, CancelFences, CancelRecords, CrashInCancel, Restart, Becomes, memoryVars
<1>3. ASSUME NEW t \in Turns, NEW k \in Attempts \cup {Whole},
             PurgeFences(t, k) \/ PurgeRemoves(t, k) \/ CrashInPurge(t, k)
      PROVE  scanned' \subseteq scanned
  BY <1>3 DEF PurgeFences, PurgeRemoves, CrashInPurge, Restart, memoryVars
<1>4. ASSUME NEW t \in Turns, ErasePurges(t) \/ CrashInErasure(t) PROVE scanned' \subseteq scanned
  BY <1>4 DEF ErasePurges, CrashInErasure, Restart
<1>5. ASSUME ScanIncomplete \/ EraseFences \/ EraseDrains \/ EraseEnds \/ Crash \/ UNCHANGED vars \/ MainMoves
      PROVE  scanned' \subseteq scanned \cup Incomplete
  BY <1>5 DEF ScanIncomplete, EraseFences, EraseDrains, EraseEnds, Crash, Restart, MainMoves, memoryVars, vars
<1> QED BY <1>1, <1>2, <1>3, <1>4, <1>5 DEF RunsNext

\* Main takes into posted, acked and stops what is so.
LEMMA MainKnownNext ==
  ASSUME Types, Known, [RunsNext]_vars
  PROVE  /\ \A r \in posted' : r[2] <= attempt'[r[1]]
         /\ \A x \in acked' : Over(x[1], x[2])'
         /\ \A r \in stops' : Over(r[1], r[2])'
<1>0. MainAdvances
  BY EveryStepAdvances
<1>1. /\ \A t \in Turns : attempt[t] \in Nat
      /\ \A r \in posted \cup stops : r[1] \in Turns /\ r[2] \in 0..MaxAttempt
      /\ \A x \in acked : x[1] \in Turns /\ x[2] \in 0..MaxAttempt
  BY RunParts DEF Types, MainTypes
<1>2. /\ \A r \in posted : r[2] <= attempt'[r[1]]
      /\ \A x \in acked : Over(x[1], x[2])'
      /\ \A r \in stops : Over(r[1], r[2])'
  BY <1>0, <1>1 DEF Known, MainAdvances
<1>3. ASSUME NEW t \in Turns, Post(t) PROVE \A r \in posted' \ posted : r[2] <= attempt'[r[1]]
  BY <1>1, <1>3 DEF Post
<1>4. ASSUME NEW T \in SUBSET Turns, Stop(T) PROVE \A r \in stops' \ stops : Over(r[1], r[2])'
  BY <1>1, <1>4 DEF Stop, Over, Live
<1>5. ASSUME NEW r \in Runs, NEW x \in Terminals, MainAccepts(r, x)
      PROVE  \A y \in acked' \ acked : Over(y[1], y[2])'
  BY <1>1, <1>5, RunParts DEF MainAccepts, Accept, Over, Live, Types, MainTypes
<1>6. CASE UNCHANGED mainVars
  BY <1>2, <1>6 DEF mainVars
<1>7. CASE MainMoves
  BY <1>2, <1>3, <1>4, <1>7 DEF MainMoves, Begin, Post, Stop, Delete
<1>8. CASE \E r \in Runs, x \in Terminals : MainAccepts(r, x)
  BY <1>2, <1>5, <1>8 DEF MainAccepts, Accept
<1> QED BY <1>6, <1>7, <1>8, MainSteps

LEMMA UnknownStays ==
  ASSUME Types, Known, [RunsNext]_vars, NEW r \in Runs, r \notin posted
  PROVE  Untouched(r)' /\ \A x \in Terminals : ~Sent(r, x)'
<1>1. r \notin posted \cup scanned /\ Untouched(r) /\ (\A x \in Terminals : ~Sent(r, x)) /\ Moves(r)
  BY EveryStepMoves DEF Known
<1>2. Rests(r) \/ Loses(r)
  BY <1>1 DEF Moves, Untouched, Starts, Reads, Asks, Proposes, Posts, Answers, Closes
<1> QED BY <1>1, <1>2 DEF Rests, Loses, Untouched, SameFiles, SameRunner, Halts, Silent

LEMMA KnownNext == ASSUME Types, Known, [RunsNext]_vars PROVE Known'
<1>1. posted \subseteq posted'
  BY EveryStepAdvances DEF MainAdvances
<1>2. scanned' \subseteq posted'
  <2>1. Incomplete \subseteq posted
    BY DEF Incomplete, Known, Untouched
  <2> QED BY <1>1, <2>1, ScannedSteps DEF Known
<1>3. ASSUME NEW r \in Runs, r \notin posted'
      PROVE  Untouched(r)' /\ \A x \in Terminals : ~Sent(r, x)'
  BY <1>1, <1>3, UnknownStays
<1> QED BY <1>2, <1>3, MainKnownNext DEF Known

\* Main's refusals are not taken back.
LEMMA RefusalsStay == ASSUME [RunsNext]_vars PROVE refused \subseteq refused'
<1>1. ASSUME NEW r \in Runs, RunStep(r) PROVE refused \subseteq refused'
  BY <1>1 DEF RunStep, StartScanned, ReadEvidence, Dispatch, Defer, Propose, PostTerminal, MainAccepts,
     MainRefuses, Response, ResponseLost, Finish, Refused, CrashInFinish, Restart, ghostVars
<1>2. ASSUME NEW t \in Turns, NEW a \in Attempts,
             Admit(t, a) \/ CrashInAdmission(t, a) \/ CancelFences(t, a) \/ CancelRecords(t, a)
                         \/ CrashInCancel(t, a)
      PROVE  refused' = refused
  BY <1>2 DEF Admit, CrashInAdmission, CancelFences, CancelRecords, CrashInCancel, Restart, ghostVars
<1>3. ASSUME NEW t \in Turns, NEW k \in Attempts \cup {Whole},
             PurgeFences(t, k) \/ PurgeRemoves(t, k) \/ CrashInPurge(t, k)
      PROVE  refused' = refused
  BY <1>3 DEF PurgeFences, PurgeRemoves, CrashInPurge, Restart, ghostVars
<1>4. ASSUME NEW t \in Turns, ErasePurges(t) \/ CrashInErasure(t) PROVE refused' = refused
  BY <1>4 DEF ErasePurges, CrashInErasure, Restart, ghostVars
<1>5. ASSUME ScanIncomplete \/ EraseFences \/ EraseDrains \/ EraseEnds \/ Crash \/ UNCHANGED vars \/ MainMoves
      PROVE  refused' = refused
  BY <1>5 DEF ScanIncomplete, EraseFences, EraseDrains, EraseEnds, Crash, Restart, MainMoves, ghostVars, vars
<1> QED BY <1>1, <1>2, <1>3, <1>4, <1>5 DEF RunsNext

\* What is closed was answered: by an acknowledgement, a refusal or a Stop.
LEMMA ClosedNext == ASSUME Types, Known, Closed, [RunsNext]_vars PROVE Closed'
<1>0. /\ MainAdvances
      /\ \A r \in Runs : r[1] \in Turns /\ r[2] \in 0..MaxAttempt /\ Moves(r) /\ r = <<r[1], r[2]>>
  BY EveryStepAdvances, EveryStepMoves, RunParts
<1>f. \A t \in Turns, a \in 0..MaxAttempt : Final(t, a) => Final(t, a)'
  BY <1>0, RefusalsStay DEF Final, MainAdvances
<1>1. ASSUME NEW r \in Runs, runner[r] \in {"accepted", "rejected"} \/ r \in stops
      PROVE  Final(r[1], r[2])'
  BY <1>0, <1>1, <1>f DEF Closed, Known, Final
<1>2. ASSUME NEW r \in Runs, "completion" \in files'[r] PROVE Final(r[1], r[2])'
  <2>1. CASE "completion" \in files[r]
    BY <1>0, <1>f, <2>1 DEF Closed
  <2>2. CASE "completion" \notin files[r]
    <3>1. Closes(r)
      BY <1>0, <1>2, <2>2 DEF Moves, Rests, Starts, Reads, Asks, Proposes, Posts, Answers, Loses,
         SameFiles, AddsInput
    <3> QED BY <1>1, <3>1 DEF Closes, Closing, Recordable
  <2> QED BY <2>1, <2>2
<1>3. ASSUME NEW r \in Runs, runner'[r] \in {"accepted", "rejected"}
      PROVE  Final(r[1], r[2])' /\ (runner'[r] = "accepted" => Over(r[1], r[2])')
  <2>1. CASE runner'[r] = runner[r]
    BY <1>0, <1>1, <1>3, <2>1 DEF Closed, MainAdvances
  <2>2. CASE runner'[r] # runner[r]
    <3>1. Answers(r)
      BY <1>0, <1>3, <2>2 DEF Moves, Rests, Starts, Reads, Asks, Proposes, Posts, Closes, Closing, Loses,
         SameRunner, Halts
    <3>2. r \in posted
      BY <3>1 DEF Answers, Known, Untouched
    <3>3. Accepted(r) => Over(r[1], r[2])
      BY DEF Accepted, Known
    <3>4. TooLate(r) => Final(r[1], r[2])
      BY <3>2 DEF TooLate, Known, Over, Final
    <3>5. CASE runner'[r] = "accepted" /\ Accepted(r)
      BY <1>0, <3>3, <3>5 DEF MainAdvances, Final
    <3>6. CASE runner'[r] = "rejected" /\ TooLate(r)
      BY <1>0, <1>f, <3>4, <3>6
    <3>7. CASE runner'[r] = "rejected" /\ r \in refused'
      BY <1>0, <3>7 DEF Final
    <3> QED BY <3>1, <3>5, <3>6, <3>7 DEF Answers
  <2> QED BY <2>1, <2>2
<1>4. ASSUME NEW t \in Turns
      PROVE  index'[t].attempt <= attempt'[t] /\ (index'[t].terminal => Final(t, index[t].attempt)')
  <2>0. /\ IndexMoves(t) /\ index[t].attempt \in 0..MaxAttempt /\ attempt'[t] \in Nat
        /\ index[t].attempt <= attempt[t] /\ (index[t].terminal => Final(t, index[t].attempt))
    BY EveryStepIndexes, TypesNext DEF Closed, Types, IndexTypes, MainTypes
  <2>1. CASE index'[t] = index[t]
    <3>1. index'[t].attempt <= attempt'[t]
      BY <1>0, <2>0, <2>1 DEF MainAdvances
    <3>2. index[t].terminal => Final(t, index[t].attempt)'
      <4>1. ASSUME NEW a \in 0..MaxAttempt, index'[t] = index[t], index[t].attempt = a, Final(t, a)'
            PROVE  Final(t, index[t].attempt)'
        BY <4>1 DEF Final, Over, Live
      <4> QED BY <1>f, <2>0, <2>1, <4>1
    <3> QED BY <2>1, <3>1, <3>2
  <2>2. CASE index'[t] = NoEntry
    BY <2>0, <2>2 DEF NoEntry
  <2>3. CASE Reopens(t)
    <3>1. PICK a \in Attempts : <<t, a>> \in posted /\ index'[t] = Entry(a, FALSE)
      BY <2>3 DEF Reopens
    <3>2. a <= attempt[t] /\ a \in 0..MaxAttempt
      BY <3>1, RunParts DEF Known
    <3> QED BY <1>0, <3>1, <3>2 DEF Entry, MainAdvances
  <2>4. CASE Shuts(t)
    <3>1. PICK a \in Attempts : /\ runner[<<t, a>>] \in {"accepted", "rejected"} \/ <<t, a>> \in stops
                                /\ index'[t] = Entry(a, TRUE) /\ index[t].attempt <= a
      BY <2>4 DEF Shuts
    <3>2. Final(t, a)'
      BY <1>1, <3>1, RunParts
    <3>3. a <= attempt'[t]
      <4>1. <<t, a>> \in Runs /\ (<<t, a>> \in posted \/ <<t, a>> \in stops)
        BY <3>1, RunParts DEF Known, Untouched
      <4>2. a <= attempt[t] /\ a \in 0..MaxAttempt
        BY <4>1, RunParts DEF Known, Over
      <4> QED BY <1>0, <4>2 DEF MainAdvances
    <3> QED BY <3>1, <3>2, <3>3 DEF Entry, Final, Over, Live
  <2> QED BY <2>0, <2>1, <2>2, <2>3, <2>4 DEF IndexMoves
<1> QED BY <1>2, <1>3, <1>4 DEF Closed

\* A run under way has its input: only its own end, or a fenced removal, takes it.
LEMMA HeldNext == ASSUME Types, Held, [RunsNext]_vars PROVE Held'
<1>1. ASSUME NEW r \in Runs, runner'[r] \notin {"off", "begun"}
      PROVE  "input" \in files'[r] \/ Fenced(r)'
  <2>1. Moves(r) /\ (Fenced(r) => Fenced(r)')
        /\ (runner[r] \in {"off", "begun"} \/ "input" \in files[r] \/ Fenced(r))
    BY EveryStepMoves, StillFenced DEF Held
  <2>2. CASE Rests(r) \/ Starts(r)
    BY <1>1, <2>1, <2>2 DEF Rests, Starts, SameFiles, SameRunner, Halts, AddsInput
  <2>3. CASE Reads(r) \/ Asks(r) \/ Proposes(r) \/ Posts(r) \/ Answers(r)
    BY <2>1, <2>3 DEF Reads, Asks, Proposes, Posts, Answers, SameFiles
  <2>4. CASE Closes(r) \/ Loses(r)
    BY <1>1, <2>1, <2>4 DEF Closes, Closing, Recordable, Loses, Halts
  <2> QED BY <2>1, <2>2, <2>3, <2>4 DEF Moves
<1>2. erasing' # "no" => userFence'
  <2>1. ASSUME NEW r \in Runs, RunStep(r) PROVE UNCHANGED userFence /\ (erasing # "no" \/ erasing' = "no")
    BY <2>1 DEF RunStep, StartScanned, ReadEvidence, Dispatch, Defer, Propose, PostTerminal, MainAccepts, MainRefuses,
       Response, ResponseLost, Finish, Refused, CrashInFinish, Restart, Becomes, Offers, memoryVars, diskVars
  <2>2. ASSUME NEW t \in Turns, NEW a \in Attempts,
             Admit(t, a) \/ CrashInAdmission(t, a) \/ CancelFences(t, a) \/ CancelRecords(t, a)
                         \/ CrashInCancel(t, a)
      PROVE  UNCHANGED userFence /\ (erasing # "no" \/ erasing' = "no")
    BY <2>2 DEF Admit, CrashInAdmission, CancelFences, CancelRecords, CrashInCancel, Restart, Becomes, memoryVars
  <2>3. ASSUME NEW t \in Turns, NEW k \in Attempts \cup {Whole},
             PurgeFences(t, k) \/ PurgeRemoves(t, k) \/ CrashInPurge(t, k)
      PROVE  UNCHANGED userFence /\ (erasing # "no" \/ erasing' = "no")
    BY <2>3 DEF PurgeFences, PurgeRemoves, CrashInPurge, Restart, memoryVars
  <2>4. ASSUME NEW t \in Turns, ErasePurges(t) \/ CrashInErasure(t)
        PROVE  UNCHANGED userFence /\ (erasing # "no" \/ erasing' = "no")
    BY <2>4 DEF ErasePurges, CrashInErasure, Restart
  <2>5. CASE ScanIncomplete \/ EraseFences \/ EraseDrains \/ EraseEnds \/ Crash \/ UNCHANGED vars \/ MainMoves
    BY <2>5 DEF ScanIncomplete, EraseFences, EraseDrains, EraseEnds, Crash, Restart, MainMoves, memoryVars,
       diskVars, vars, Held
  <2> QED BY <2>1, <2>2, <2>3, <2>4, <2>5 DEF RunsNext, Held
<1> QED BY <1>1, <1>2 DEF Held

\* Files are added only past every fence, or to record a Stop.
LEMMA FilesGrow ==
  ASSUME Types, Held, [RunsNext]_vars, NEW q \in Runs
  PROVE  \/ files'[q] \subseteq files[q]
         \/ ~userFence /\ q[2] > erased[q[1]]
<1>1. Moves(q) /\ (runner[q] \in {"off", "begun"} \/ "input" \in files[q] \/ Fenced(q))
  BY EveryStepMoves DEF Held
<1>2. ~Fenced(q) => q[2] > erased[q[1]]
  <2>1. /\ erased[q[1]] \in Nat /\ fence[q[1]] \in Nat /\ q[2] \in Nat /\ erased[q[1]] <= fence[q[1]]
    BY RunParts DEF Types, FenceTypes
  <2> QED BY <2>1 DEF Fenced
<1>3. CASE Rests(q) \/ Starts(q) \/ Reads(q) \/ Posts(q) \/ Answers(q) \/ Loses(q)
  BY <1>2, <1>3 DEF Rests, Starts, Reads, Posts, Answers, Loses, SameFiles, AddsInput
<1>4. CASE Asks(q) \/ Proposes(q) \/ Closes(q)
  BY <1>1, <1>2, <1>4 DEF Asks, Proposes, Closes, Closing, Writable, Recordable
<1> QED BY <1>1, <1>3, <1>4 DEF Moves

LEMMA GoneNext == ASSUME Types, Held, Gone, [RunsNext]_vars PROVE Gone'
<1>0. /\ \A t \in Turns : /\ cleared[t] \in Nat /\ erased[t] \in Nat /\ erased'[t] \in Nat
                          /\ erased[t] <= erased'[t] /\ cleared[t] <= erased[t]
      /\ \A q \in Runs : q[1] \in Turns /\ q[2] \in Nat
  BY TypesNext, FencesRise, RunParts DEF Types, FenceTypes, GhostTypes, Gone
<1>1. CASE cleared' = cleared
  <2>1. ASSUME NEW t \in Turns, NEW q \in Through(t, cleared[t]) PROVE files'[q] = {}
    <3>1. q \in Runs /\ q[1] = t /\ q[2] <= cleared[t] /\ files[q] = {}
      BY <2>1 DEF Through, Gone, PurgedStaysGone
    <3> QED BY <1>0, <3>1, FilesGrow
  <2> QED BY <1>0, <1>1, <2>1 DEF Gone, PurgedStaysGone, Through
<1>2. ASSUME NEW t \in Turns, NEW k \in Attempts \cup {Whole}, PurgeRemoves(t, k) PROVE Gone'
  <2>0. k \in Nat
    BY RunParts
  <2>1. cleared' = [cleared EXCEPT ![t] = Higher(@, k)] /\ erased' = erased /\ k <= erased[t]
        /\ Leave(Without(Through(t, k))) /\ cleared \in [Turns -> 0..Whole]
    BY <1>2 DEF PurgeRemoves, Types, GhostTypes
  <2>2. \A u \in Turns : cleared'[u] = IF u = t THEN Higher(cleared[t], k) ELSE cleared[u]
    BY <2>1
  <2>3. \A q \in Runs : files'[q] = IF q \in Through(t, k) THEN {} ELSE files[q]
    BY <2>1, LeaveMoves, Removals
  <2>4. ASSUME NEW u \in Turns, NEW q \in Runs, q[1] = u, q[2] <= cleared'[u] PROVE files'[q] = {}
    <3>1. q[2] <= cleared[u] \/ q \in Through(t, k)
      BY <1>0, <2>0, <2>2, <2>4 DEF Higher, Through
    <3> QED BY <2>3, <2>4, <3>1 DEF Gone, PurgedStaysGone, Through
  <2>5. \A u \in Turns : cleared'[u] <= erased'[u]
    BY <1>0, <2>0, <2>1, <2>2 DEF Higher
  <2> QED BY <2>4, <2>5 DEF Gone, PurgedStaysGone, Through
<1>3. cleared' = cleared \/ \E t \in Turns, k \in Attempts \cup {Whole} : PurgeRemoves(t, k)
  <2>1. ASSUME NEW r \in Runs, RunStep(r) PROVE cleared' = cleared
    BY <2>1 DEF RunStep, StartScanned, ReadEvidence, Dispatch, Defer, Propose, PostTerminal, MainAccepts, MainRefuses,
       Response, ResponseLost, Finish, Refused, CrashInFinish, ghostVars
  <2>2. ASSUME NEW t \in Turns, NEW a \in Attempts,
             Admit(t, a) \/ CrashInAdmission(t, a) \/ CancelFences(t, a) \/ CancelRecords(t, a)
                         \/ CrashInCancel(t, a)
        PROVE  cleared' = cleared
    BY <2>2 DEF Admit, CrashInAdmission, CancelFences, CancelRecords, CrashInCancel, ghostVars
  <2>3. ASSUME NEW t \in Turns, NEW k \in Attempts \cup {Whole}, PurgeFences(t, k) \/ CrashInPurge(t, k)
        PROVE  cleared' = cleared
    BY <2>3 DEF PurgeFences, CrashInPurge, ghostVars
  <2>4. ASSUME NEW t \in Turns, ErasePurges(t) \/ CrashInErasure(t) PROVE cleared' = cleared
    BY <2>4 DEF ErasePurges, CrashInErasure, ghostVars
  <2>5. ASSUME ScanIncomplete \/ EraseFences \/ EraseDrains \/ EraseEnds \/ Crash \/ UNCHANGED vars \/ MainMoves
        PROVE  cleared' = cleared
    BY <2>5 DEF ScanIncomplete, EraseFences, EraseDrains, EraseEnds, Crash, MainMoves, ghostVars, vars
  <2> QED BY <2>1, <2>2, <2>3, <2>4, <2>5 DEF RunsNext
<1> QED BY <1>1, <1>2, <1>3

\* An attempt that begins to live is one that Chat does not know.
LEMMA NewlyLive ==
  ASSUME Types, Known, [RunsNext]_vars, NEW r \in Runs, Live(r[1], r[2])', ~Live(r[1], r[2])
  PROVE  Untouched(r)' /\ \A x \in Terminals : ~Sent(r, x)'
<1>1. r[2] \in 0..MaxAttempt /\ r[1] \in Turns /\ MainAdvances
  BY EveryStepAdvances, RunParts
<1>2. r \notin posted
  BY <1>1 DEF MainAdvances, Known
<1> QED BY <1>2, UnknownStays

\* While the attempt stays live, its model is not asked again.
LEMMA AskedOnceNext ==
  ASSUME Types, Closed, [RunsNext]_vars, NEW r \in Runs, Live(r[1], r[2]), AskedOnce(r)
  PROVE  AskedOnce(r)'
<1>1. Moves(r) /\ (Fenced(r) => Fenced(r)') /\ dispatched[r] \in Nat /\ dispatched'[r] \in Nat
  BY EveryStepMoves, StillFenced, TypesNext DEF Types, GhostTypes
<1>2. CASE Asks(r)
  BY <1>1, <1>2 DEF AskedOnce, Asks, Writable
<1>3. CASE ~Asks(r)
  <2>1. dispatched'[r] = dispatched[r]
    BY <1>1, <1>3 DEF Moves, Rests, Starts, Reads, Proposes, Posts, Answers, Closes, Loses, Silent
  <2>2. Fenced(r)' \/ ("journal" \in files[r] => "journal" \in files'[r])
    <3>1. CASE Closes(r)
      BY <1>1, <3>1 DEF Closes, Ends, Closed, Over
    <3> QED BY <1>1, <1>3, <3>1 DEF Moves, Rests, Starts, Reads, Proposes, Posts, Answers, Loses,
         SameFiles, AddsInput
  <2>3. runner'[r] = "prepared" /\ ~Fenced(r)' => dispatched[r] = 0
    <3>1. CASE runner[r] = "prepared"
      BY <1>1, <3>1 DEF AskedOnce
    <3>2. CASE runner[r] # "prepared"
      BY <1>1, <1>3, <3>2 DEF AskedOnce, Moves, Rests, Starts, Reads, Proposes, Posts, Answers, Closes,
         Closing, Loses, SameRunner, Halts
    <3> QED BY <3>1, <3>2
  <2> QED BY <1>1, <2>1, <2>2, <2>3 DEF AskedOnce
<1> QED BY <1>2, <1>3

\* Nor does it get a second terminal.
LEMMA OneOfferNext ==
  ASSUME Types, Known, Closed, [RunsNext]_vars, NEW r \in Runs, Live(r[1], r[2]), OneOffer(r)
  PROVE  OneOffer(r)'
<1>0. Moves(r) /\ (Fenced(r) => Fenced(r)') /\ runner[r] # "accepted" /\ r \notin stops
  <2>1. ~Over(r[1], r[2])
    BY DEF Over
  <2> QED BY <2>1, EveryStepMoves, StillFenced DEF Closed, Known
<1>1. ASSUME Offered(r)' \subseteq Offered(r), SameFiles(r) \/ AddsInput(r),
             "completion" \in files[r] => runner'[r] \in {"off", "begun"} \/ Fenced(r)
      PROVE  OneOffer(r)'
  <2>1. /\ "proposal" \in files'[r] <=> "proposal" \in files[r]
        /\ "completion" \in files'[r] <=> "completion" \in files[r]
        /\ proposal'[r] = proposal[r]
    BY <1>1 DEF SameFiles, AddsInput
  <2> QED BY <1>0, <1>1, <2>1 DEF OneOffer
<1>2. CASE Rests(r) \/ Starts(r)
  <2>1. Offered(r)' \subseteq Offered(r)
    BY <1>2 DEF Rests, Starts, Offered, Silent, SameRunner, Halts
  <2>2. "completion" \in files[r] => runner'[r] \in {"off", "begun"} \/ Fenced(r)
    BY <1>2 DEF OneOffer, Rests, Starts, SameRunner, Halts
  <2> QED BY <1>1, <1>2, <2>1, <2>2 DEF Rests, Starts
<1>3. CASE Posts(r) \/ Answers(r)
  <2>1. Offered(r)' \subseteq Offered(r)
    BY <1>3 DEF Posts, Answers, Offered, Silent
  <2>2. "completion" \in files[r] => Fenced(r)
    BY <1>3 DEF OneOffer, Posts, Answers
  <2> QED BY <1>1, <1>3, <2>1, <2>2 DEF Posts, Answers
<1>4. CASE Reads(r)
  <2>1. CASE runner'[r] = "replay"
    <3>1. /\ "proposal" \in files[r] /\ offer'[r] = proposal[r] /\ SameFiles(r)
          /\ Offered(r)' \subseteq Offered(r) \cup {proposal[r]} /\ "completion" \notin files[r]
      BY <1>4, <2>1 DEF Reads, Offered, Silent
    <3>2. \A x \in Offered(r)' : x = proposal[r]
      BY <3>1 DEF OneOffer
    <3>3. "proposal" \in files'[r] /\ proposal'[r] = proposal[r] /\ "completion" \notin files'[r]
      BY <3>1 DEF SameFiles
    <3> QED BY <3>2, <3>3 DEF OneOffer
  <2>2. CASE runner'[r] # "replay"
    <3>1. Offered(r)' \subseteq Offered(r)
      BY <1>4, <2>2 DEF Reads, Offered, Silent
    <3> QED BY <1>1, <1>4, <3>1 DEF Reads
  <2> QED BY <2>1, <2>2
<1>5. CASE Asks(r)
  <2>1. Offered(r)' \subseteq Offered(r)
    BY <1>5 DEF Asks, Offered
  <2>2. /\ "proposal" \in files'[r] <=> "proposal" \in files[r]
        /\ "completion" \notin files[r] /\ "completion" \notin files'[r]
        /\ proposal'[r] = proposal[r]
    BY <1>5 DEF Asks, OneOffer, Writable
  <2> QED BY <1>0, <2>1, <2>2 DEF OneOffer
<1>6. CASE Proposes(r)
  <2>1. "completion" \notin files[r] /\ Offered(r) = {}
    BY <1>6 DEF Proposes, Writable, OneOffer
  <2>2. Offered(r)' \subseteq {offer'[r]} /\ offer'[r] = proposal'[r]
    BY <1>6, <2>1 DEF Proposes, Offered, Silent
  <2>3. "proposal" \in files'[r] /\ "completion" \notin files'[r]
    BY <1>6, <2>1 DEF Proposes
  <2> QED BY <2>2, <2>3 DEF OneOffer
<1>7. CASE Closes(r)
  <2>1. /\ Halts(r) /\ "completion" \in files'[r]
        /\ "proposal" \in files'[r] => "proposal" \in files[r] /\ proposal'[r] = proposal[r]
    BY <1>0, <1>7 DEF Closes, Ends, Closing, Recordable
  <2>2. Offered(r)' \subseteq Offered(r)
    BY <1>7, <2>1 DEF Closes, Halts, Offered, Silent
  <2> QED BY <2>1, <2>2 DEF OneOffer, Halts
<1>8. CASE Loses(r)
  <2>1. Offered(r)' \subseteq Offered(r)
    BY <1>8 DEF Loses, Offered, Silent, SameRunner, Halts
  <2>2. "proposal" \in files'[r] => "proposal" \in files[r] /\ proposal'[r] = proposal[r]
    BY <1>8 DEF Loses
  <2> QED BY <1>8, <2>1, <2>2 DEF OneOffer, Loses
<1> QED BY <1>0, <1>2, <1>3, <1>4, <1>5, <1>6, <1>7, <1>8 DEF Moves

LEMMA LiveRunsNext == ASSUME Types, Known, Closed, LiveRunsOK, [RunsNext]_vars PROVE LiveRunsOK'
<1> SUFFICES ASSUME NEW r \in Runs, Live(r[1], r[2])' PROVE AskedOnce(r)' /\ OneOffer(r)'
  BY DEF LiveRunsOK
<1>1. CASE Live(r[1], r[2])
  BY <1>1, AskedOnceNext, OneOfferNext DEF LiveRunsOK
<1>2. CASE ~Live(r[1], r[2])
  <2>1. Untouched(r)' /\ \A x \in Terminals : ~Sent(r, x)'
    BY <1>2, NewlyLive
  <2> QED BY <2>1 DEF Untouched, AskedOnce, OneOffer, Offered
<1> QED BY <1>1, <1>2

LEMMA RunInvariantNext == ASSUME RunInvariant, [RunsNext]_vars PROVE RunInvariant'
BY TypesNext, KnownNext, ClosedNext, LiveRunsNext, HeldNext, GoneNext DEF RunInvariant

-----------------------------------------------------------------------------
\* The theorems.

\* In every state Main, the disk, the process and the history agree as
\* RunInvariant says: it is inductive.
THEOREM RunInvariance == RunsSpec => []RunInvariant
<1>1. RunsInit => RunInvariant
  BY InitRuns
<1>2. RunInvariant /\ [RunsNext]_vars => RunInvariant'
  BY RunInvariantNext
<1> QED BY <1>1, <1>2, PTL DEF RunsSpec

\* Every variable keeps its type, and proposal.json has a content iff it exists
\* (agent-run-store.ts).
THEOREM RunTypes == RunsSpec => []RunsTypeOK
<1>1. RunInvariant => RunsTypeOK
  BY TypesSuffice DEF RunInvariant
<1> QED BY <1>1, RunInvariance, PTL

\* The model of an attempt that Main waits for is asked at most once, however
\* often the process crashes, defers or recovers the run (executeAgentRun,
\* recoverIncompleteAgentRuns).
THEOREM ModelAskedOnce == RunsSpec => []OneModelRunPerLiveAttempt
<1>1. RunInvariant => OneModelRunPerLiveAttempt
  BY DEF RunInvariant, LiveRunsOK, AskedOnce, OneModelRunPerLiveAttempt
<1> QED BY <1>1, RunInvariance, PTL

\* Main is offered one terminal of an attempt it waits for, again and again
\* (writeAgentRunProposal, executeAgentRun).
THEOREM TerminalOfferedOnce == RunsSpec => []OneProposalPerLiveAttempt
<1>1. ASSUME RunInvariant PROVE OneProposalPerLiveAttempt
  <2> SUFFICES ASSUME NEW x \in sent, NEW y \in sent, x[1] = y[1], x[2] = y[2], Live(x[1], x[2])
               PROVE  x = y
    BY DEF OneProposalPerLiveAttempt
  <2> DEFINE r == <<x[1], x[2]>>
  <2>1. /\ x = <<x[1], x[2], x[3]>> /\ y = <<y[1], y[2], y[3]>> /\ x[3] \in Terminals /\ y[3] \in Terminals
        /\ r \in Runs
    BY <1>1 DEF RunInvariant, Types, GhostTypes, Runs
  <2>2. x[3] \in Offered(r) /\ y[3] \in Offered(r)
    BY <2>1 DEF Offered, Sent
  <2>3. x[3] = y[3]
    BY <1>1, <2>1, <2>2 DEF RunInvariant, LiveRunsOK, OneOffer
  <2> QED BY <2>1, <2>3
<1> QED BY <1>1, RunInvariance, PTL

\* A run is closed on disk or in the index only when Main has ended its attempt,
\* or has refused a terminal of it (settleTerminalProposal, completeAgentRun,
\* recordAgentRunCancellation).
THEOREM ClosedIsAnswered == RunsSpec => []ClosedAfterDecision
<1>1. ASSUME RunInvariant PROVE ClosedAfterDecision
  <2>1. \A t, a : Final(t, a) => Answered(<<t, a>>)
    BY DEF Final, Over, Answered
  <2>2. \A r \in Runs : r = <<r[1], r[2]>>
    BY RunParts
  <2> QED BY <1>1, <2>1, <2>2 DEF RunInvariant, Closed, ClosedAfterDecision
<1> QED BY <1>1, RunInvariance, PTL

\* What a purge removed, and acknowledged, is never on disk again
\* (purgeAgentRunsThroughAttempt, assertRunWritable).
THEOREM PurgedIsGone == RunsSpec => []PurgedStaysGone
<1>1. RunInvariant => PurgedStaysGone
  BY DEF RunInvariant, Gone
<1> QED BY <1>1, RunInvariance, PTL

\* After an acknowledged erasure no file of the user's runs is added
\* (purgeAgentRunsForUser, fenceUser).
THEOREM ErasedIsFinal == RunsSpec => ErasedIsFrozen
<1>1. ASSUME RunInvariant, [RunsNext]_vars
      PROVE  [erasing = "done" => \A r \in Runs : files'[r] \subseteq files[r]]_vars
  <2>1. erasing = "done" => userFence
    BY <1>1 DEF RunInvariant, Held
  <2> QED BY <1>1, <2>1, FilesGrow DEF RunInvariant
<1> QED BY <1>1, RunInvariance, PTL DEF RunsSpec, ErasedIsFrozen

\* The assistant index goes on to newer attempts, or is removed; it never
\* reopens an attempt (writeAgentRunIndex, purgeAgentRunIndexes).
THEOREM IndexAdvances == RunsSpec => IndexMovesForward
<1>1. ASSUME RunInvariant, [RunsNext]_vars
      PROVE  [\A t \in Turns : index'[t].attempt # 0 =>
                \/ index'[t].attempt > index[t].attempt
                \/ index'[t].attempt = index[t].attempt /\ (index[t].terminal => index'[t].terminal)]_vars
  <2> SUFFICES ASSUME NEW t \in Turns, index'[t].attempt # 0
               PROVE  \/ index'[t].attempt > index[t].attempt
                      \/ /\ index'[t].attempt = index[t].attempt
                         /\ index[t].terminal => index'[t].terminal
    OBVIOUS
  <2>1. IndexMoves(t) /\ index[t].attempt \in Nat /\ \A a \in Attempts : a \in Nat
    BY <1>1, EveryStepIndexes, RunParts DEF RunInvariant, Types, IndexTypes
  <2>2. CASE index'[t] = index[t]
    BY <2>2
  <2>3. CASE Reopens(t)
    BY <2>1, <2>3 DEF Reopens, Entry
  <2>4. CASE Shuts(t)
    <3>1. PICK a \in Attempts : index[t].attempt <= a /\ index'[t] = Entry(a, TRUE)
      BY <2>4 DEF Shuts
    <3>2. a \in Nat /\ index'[t].attempt = a /\ index'[t].terminal = TRUE
      BY <2>1, <3>1 DEF Entry
    <3>3. index[t].attempt < a \/ index[t].attempt = a
      BY <2>1, <3>1
    <3>4. index[t].terminal => index'[t].terminal
      BY <3>2
    <3> QED BY <2>1, <3>2, <3>3, <3>4
  <2> QED BY <2>1, <2>2, <2>3, <2>4 DEF IndexMoves, NoEntry
<1> QED BY <1>1, RunInvariance, PTL DEF RunsSpec, IndexMovesForward
=============================================================================
