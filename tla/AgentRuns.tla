----------------------------- MODULE AgentRuns -----------------------------
(***************************************************************************)
(* Chat's execution of one user's AgentRuns: agent-run-store.ts,           *)
(* agent-runner.ts, fence.ts and the erasure steps of account-deletion.ts. *)
(*                                                                         *)
(* Chat has no database.  A run <<turn, attempt>> is a directory of files; *)
(* fences and the assistant index are files of their own; everything else  *)
(* (who is running, what a recovery scan found, how far an erasure got) is *)
(* memory that a crash loses.  Each section of code under a Turn's lock is *)
(* one action; a recursive removal can also be cut short by a crash, with  *)
(* any of the files left.  Main is the module MainTurns.  Its requests are *)
(* redelivered: any request it once made may arrive again at any time.     *)
(*                                                                         *)
(* Not modelled: usage receipts after a Stop, expiry of failed traces, and *)
(* what a run writes besides the record that the model was asked.          *)
(***************************************************************************)
EXTENDS MainTurns, FiniteSets

CONSTANTS MaxDispatch,         \* bound of the model: model runs per attempt
          MaxCrashes,          \* bound of the model
          NoTerminal

Runs  == Turns \X Attempts
Parts == {"input", "journal", "proposal", "completion"}
Whole == MaxAttempt + 1        \* throughAttempt: null, every attempt
Stages == {"off", "begun", "prepared", "interrupted", "model", "replay", "proposed",
           "waiting", "accepted", "rejected"}

ASSUME AgentRunsAssumption ==
  /\ MaxAttempt \in Nat
  /\ Terminals = {"sent", "failed"} \X (0..MaxDispatch)
  /\ MaxDispatch \in Nat /\ MaxCrashes \in Nat
  /\ NoTerminal \notin Terminals

VARIABLES
  files,      \* Runs -> the Parts in its directory
  proposal,   \* Runs -> the terminal in proposal.json
  index,      \* Turns -> the assistant index: attempt (0: none), terminal
  fence,      \* Turns -> throughAttempt: execution is forbidden
  erased,     \* Turns -> receiptThroughAttempt: so are receipts (a purge)
  userFence,
  runner,     \* Runs -> stage of executeAgentRun, "off" if not in activeRuns
  offer,      \* Runs -> the terminal executeAgentRun holds
  scanned,    \* runs a recovery scan found and has not started yet
  erasing,    \* account erasure: "no" | "draining" | "purging" | "done"
  todo,       \* Turns the erasure has still to visit
  sent,       \* <<turn, attempt, terminal>> posted to Main
  refused,    \* runs whose terminal Main refused while it waited for one
  dispatched, \* Runs -> how often its model was asked
  cleared,    \* Turns -> the highest purge that Chat acknowledged
  crashes

diskVars   == <<files, proposal, index, fence, erased, userFence>>
memoryVars == <<runner, offer, scanned, erasing, todo>>
ghostVars  == <<sent, refused, dispatched, cleared, crashes>>
vars == <<mainVars, diskVars, memoryVars, ghostVars>>

RunsInit ==
  /\ Init
  /\ files = [r \in Runs |-> {}]
  /\ proposal = [r \in Runs |-> NoTerminal]
  /\ index = [t \in Turns |-> [attempt |-> 0, terminal |-> FALSE]]
  /\ fence = [t \in Turns |-> 0]
  /\ erased = [t \in Turns |-> 0]
  /\ userFence = FALSE
  /\ runner = [r \in Runs |-> "off"]
  /\ offer = [r \in Runs |-> NoTerminal]
  /\ scanned = {}
  /\ erasing = "no"
  /\ todo = {}
  /\ sent = {}
  /\ refused = {}
  /\ dispatched = [r \in Runs |-> 0]
  /\ cleared = [t \in Turns |-> 0]
  /\ crashes = 0

Higher(a, b) == IF a >= b THEN a ELSE b
Through(t, k) == {r \in Runs : r[1] = t /\ r[2] <= k}

\* Mutant of Fenced: only a fence for every attempt counts.
FencedWhole(r) == fence[r[1]] = Whole

Fenced(r) == r[2] <= fence[r[1]]

\* assertRunWritable: the owner is known only while the input is there.
Writable(r) == ~Fenced(r) /\ ("input" \in files[r] => ~userFence)

\* Mutant of Indexed: a late completion moves the index back.
IndexedAnyway(t, a, terminal) == [index EXCEPT ![t] = [attempt |-> a, terminal |-> terminal]]

Indexed(t, a, terminal) ==
  IF index[t].attempt > a THEN index
  ELSE [index EXCEPT ![t] = [attempt |-> a, terminal |-> terminal]]

NoIndex(T) == [t \in Turns |-> IF t \in T THEN [attempt |-> 0, terminal |-> FALSE] ELSE index[t]]

\* What is left of every run's directory.
Leave(left) ==
  /\ files' = left
  /\ proposal' = [r \in Runs |-> IF "proposal" \in left[r] THEN proposal[r] ELSE NoTerminal]

Without(S) == [r \in Runs |-> IF r \in S THEN {} ELSE files[r]]

\* What a removal of the runs S may have left when it was cut short.
Partly(S) ==
  LET there == {f \in S \X Parts : f[2] \in files[f[1]]}
  IN  {[r \in Runs |-> {p \in files[r] : r \in S => <<r, p>> \in kept}] : kept \in SUBSET there}

\* The process dies and starts again: memory is lost, files are not.
Restart ==
  /\ crashes < MaxCrashes
  /\ crashes' = crashes + 1
  /\ runner' = [r \in Runs |-> "off"]
  /\ offer' = [r \in Runs |-> NoTerminal]
  /\ scanned' = {}
  /\ erasing' = IF erasing = "done" THEN "done" ELSE "no"
  /\ todo' = {}
  /\ UNCHANGED <<mainVars, sent, refused, dispatched>>

Becomes(r, stage) ==
  /\ runner' = [runner EXCEPT ![r] = stage]
  /\ offer' = IF stage = "off" THEN [offer EXCEPT ![r] = NoTerminal] ELSE offer
  /\ UNCHANGED <<scanned, erasing, todo>>

Offers(r, stage, terminal) ==
  /\ runner' = [runner EXCEPT ![r] = stage]
  /\ offer' = [offer EXCEPT ![r] = terminal]
  /\ UNCHANGED <<scanned, erasing, todo>>

-----------------------------------------------------------------------------
\* Admission: acceptAgentRun.  A fenced or superseded attempt, and one whose
\* index is already terminal, changes nothing.

\* Mutant of Admissible: the user's fence is not looked at.
AdmissibleToAnyone(t, a) ==
  /\ <<t, a>> \in posted
  /\ ~Fenced(<<t, a>>)
  /\ index[t].attempt < a \/ (index[t].attempt = a /\ ~index[t].terminal)

Admissible(t, a) ==
  /\ <<t, a>> \in posted
  /\ ~userFence /\ ~Fenced(<<t, a>>)
  /\ index[t].attempt < a \/ (index[t].attempt = a /\ ~index[t].terminal)

Admit(t, a) ==
  LET r == <<t, a>> IN
  /\ Admissible(t, a)
  /\ files' = [files EXCEPT ![r] = @ \cup {"input"}]
  /\ index' = Indexed(t, a, FALSE)
  /\ Becomes(r, IF runner[r] = "off" /\ "completion" \notin files[r] THEN "begun" ELSE runner[r])
  /\ UNCHANGED <<mainVars, proposal, fence, erased, userFence, ghostVars>>

CrashInAdmission(t, a) ==
  /\ Admissible(t, a)
  /\ files' = [files EXCEPT ![<<t, a>>] = @ \cup {"input"}]
  /\ Restart
  /\ UNCHANGED <<proposal, index, fence, erased, userFence, cleared>>

\* The recovery worker scans every five seconds, then starts what it found.

\* Mutant of Incomplete: a run whose model was asked is left alone.
IncompleteUnasked == {r \in Runs : /\ files[r] = {"input"} /\ ~Fenced(r) /\ ~userFence}

Incomplete == {r \in Runs : /\ "input" \in files[r] /\ "completion" \notin files[r]
                            /\ ~Fenced(r) /\ ~userFence}

ScanIncomplete ==
  /\ scanned = {} /\ Incomplete # {}
  /\ scanned' = Incomplete
  /\ UNCHANGED <<mainVars, diskVars, runner, offer, erasing, todo, ghostVars>>

StartScanned(r) ==
  /\ r \in scanned
  /\ scanned' = scanned \ {r}
  /\ runner' = [runner EXCEPT ![r] = IF @ = "off" THEN "begun" ELSE @]
  /\ UNCHANGED <<mainVars, diskVars, offer, erasing, todo, ghostVars>>

-----------------------------------------------------------------------------
\* executeAgentRun

\* Mutant of Uncertain: a recorded dispatch is not taken as a started run.
NeverUncertain(r) == FALSE

\* readAgentRunRecoveryEvidence: the model may have been asked before.
Uncertain(r) == "journal" \in files[r]

ReadEvidence(r) ==
  /\ runner[r] = "begun"
  /\ \/ /\ Fenced(r) \/ "input" \notin files[r] \/ "completion" \in files[r]
        /\ Becomes(r, "off")
     \/ /\ ~Fenced(r) /\ "input" \in files[r] /\ "completion" \notin files[r]
        /\ IF "proposal" \in files[r] THEN Offers(r, "replay", proposal[r])
           ELSE Becomes(r, IF Uncertain(r) THEN "interrupted" ELSE "prepared")
  /\ UNCHANGED <<mainVars, diskVars, ghostVars>>

\* The intent is on disk before the model is asked.
Dispatch(r) ==
  /\ runner[r] = "prepared" /\ Writable(r)
  /\ dispatched[r] < MaxDispatch                                   \* bound
  /\ files' = [files EXCEPT ![r] = @ \cup {"journal"}]
  /\ dispatched' = [dispatched EXCEPT ![r] = @ + 1]
  /\ Becomes(r, "model")
  /\ UNCHANGED <<mainVars, proposal, index, fence, erased, userFence, sent, refused, cleared, crashes>>

\* The pool is full: the input stays for the recovery scan.
Defer(r) ==
  /\ runner[r] = "prepared" /\ Writable(r)
  /\ Becomes(r, "off")
  /\ UNCHANGED <<mainVars, diskVars, ghostVars>>

\* Mutant of Propose: the terminal is offered before it is on disk.
ProposeInMemory(r, outcome) ==
  /\ runner[r] \in IF outcome = "sent" THEN {"model"} ELSE {"prepared", "model", "interrupted"}
  /\ Writable(r)
  /\ Offers(r, "proposed", <<outcome, dispatched[r]>>)
  /\ UNCHANGED <<mainVars, diskVars, ghostVars>>

\* A reply, or a failure before, during or instead of the model's answer.
Propose(r, outcome) ==
  /\ runner[r] \in IF outcome = "sent" THEN {"model"} ELSE {"prepared", "model", "interrupted"}
  /\ Writable(r)
  /\ "proposal" \notin files[r]
  /\ files' = [files EXCEPT ![r] = @ \cup {"proposal"}]
  /\ proposal' = [proposal EXCEPT ![r] = <<outcome, dispatched[r]>>]
  /\ Offers(r, "proposed", <<outcome, dispatched[r]>>)
  /\ UNCHANGED <<mainVars, index, fence, erased, userFence, ghostVars>>

\* A fresh reply goes to Main at once; a failure or a replay is journalled
\* first, which a fence refuses.
Journalled(r) == runner[r] = "replay" \/ (runner[r] = "proposed" /\ offer[r][1] = "failed")

PostTerminal(r) ==
  /\ runner[r] \in {"proposed", "replay"}
  /\ Journalled(r) => Writable(r)
  /\ sent' = sent \cup {<<r[1], r[2], offer[r]>>}
  /\ Becomes(r, "waiting")
  /\ UNCHANGED <<mainVars, diskVars, refused, dispatched, cleared, crashes>>

MainAccepts(r, terminal) ==
  /\ <<r[1], r[2], terminal>> \in sent
  /\ Accept(r[1], r[2], terminal)
  /\ UNCHANGED <<diskVars, memoryVars, ghostVars>>

Accepted(r) == <<r[1], r[2], offer[r]>> \in acked

\* Mutant of TooLate: any failed request ends the run.
LateOrLost(r) == ~Accepted(r)

\* Main waits for no terminal of the attempt any more, and took another or none.
TooLate(r) == ~Accepted(r) /\ ~Live(r[1], r[2])

\* Main's answer arrives, or the request failed and the proposal is kept.
Response(r) ==
  /\ runner[r] = "waiting"
  /\ \/ Accepted(r) /\ Becomes(r, "accepted")
     \/ TooLate(r) /\ Becomes(r, "rejected")
  /\ UNCHANGED <<mainVars, diskVars, ghostVars>>

\* A terminal that does not fit the contract, the frozen Scene or the media it
\* names is refused although Main waits for one.  Main rolls back and goes on
\* waiting, so its refusal is one step with the answer's arrival.
MainRefuses(r) ==
  /\ runner[r] = "waiting" /\ Live(r[1], r[2])
  /\ refused' = refused \cup {r}
  /\ Becomes(r, "rejected")
  /\ UNCHANGED <<mainVars, diskVars, sent, dispatched, cleared, crashes>>

ResponseLost(r) ==
  /\ runner[r] = "waiting"
  /\ Becomes(r, "off")
  /\ UNCHANGED <<mainVars, diskVars, ghostVars>>

\* completeAgentRun: a committed run leaves no files, another its completion.
Finishing(r) ==
  /\ runner[r] \in {"accepted", "rejected"} /\ Writable(r) /\ "input" \in files[r]
  /\ index' = Indexed(r[1], r[2], TRUE)

Committed(r) == runner[r] = "accepted" /\ offer[r][1] = "sent"

Finish(r) ==
  /\ Finishing(r)
  /\ Leave([files EXCEPT ![r] = IF Committed(r) THEN {} ELSE (@ \ {"proposal"}) \cup {"completion"}])
  /\ Becomes(r, "off")
  /\ UNCHANGED <<mainVars, fence, erased, userFence, ghostVars>>

\* Cut short after the index was written.
CrashInFinish(r) ==
  /\ Finishing(r)
  /\ IF Committed(r) THEN \E left \in Partly({r}) : Leave(left)
                     ELSE Leave([files EXCEPT ![r] = @ \cup {"completion"}])
  /\ Restart
  /\ UNCHANGED <<fence, erased, userFence, cleared>>

\* ChatFenceError at the next write: the run stops and leaves what it wrote.
Refused(r) ==
  /\ runner[r] \in {"prepared", "interrupted", "model", "accepted", "rejected"} \/ Journalled(r)
  /\ ~Writable(r)
  /\ Becomes(r, "off")
  /\ UNCHANGED <<mainVars, diskVars, ghostVars>>

-----------------------------------------------------------------------------
\* Main stops an attempt: the fence, then the local record of it.

CancelFences(t, a) ==
  /\ <<t, a>> \in stops
  /\ fence[t] < a
  /\ fence' = [fence EXCEPT ![t] = a]
  /\ UNCHANGED <<mainVars, files, proposal, index, erased, userFence, memoryVars, ghostVars>>

Recordable(r) == /\ r \in stops /\ Fenced(r)
                 /\ "input" \in files[r] /\ ~userFence /\ r[2] > erased[r[1]]

CancelRecords(t, a) ==
  LET r == <<t, a>> IN
  /\ Recordable(r)
  /\ index' = Indexed(t, a, TRUE)
  /\ Leave([files EXCEPT ![r] = (@ \ {"proposal"}) \cup {"completion"}])
  /\ UNCHANGED <<mainVars, fence, erased, userFence, memoryVars, ghostVars>>

CrashInCancel(t, a) ==
  LET r == <<t, a>> IN
  /\ Recordable(r)
  /\ files' = [files EXCEPT ![r] = @ \cup {"completion"}]
  /\ index' \in {index, Indexed(t, a, TRUE)}
  /\ Restart
  /\ UNCHANGED <<proposal, fence, erased, userFence, cleared>>

-----------------------------------------------------------------------------
\* Main purges superseded attempts, or a deleted Turn: fence, then remove.

Purgeable(t, k) == \/ k \in Attempts /\ k < attempt[t]
                   \/ k = Whole /\ state[t] = "deleted"

\* Mutant of PurgeFences: a purge forbids receipts but not execution.
PurgeFencesReceipts(t, k) ==
  /\ Purgeable(t, k)
  /\ erased[t] < k
  /\ erased' = [erased EXCEPT ![t] = k]
  /\ UNCHANGED <<mainVars, files, proposal, index, fence, userFence, memoryVars, ghostVars>>

PurgeFences(t, k) ==
  /\ Purgeable(t, k)
  /\ fence[t] < k \/ erased[t] < k
  /\ fence' = [fence EXCEPT ![t] = Higher(@, k)]
  /\ erased' = [erased EXCEPT ![t] = Higher(@, k)]
  /\ UNCHANGED <<mainVars, files, proposal, index, userFence, memoryVars, ghostVars>>

\* Indexes go by their current attempt: the assistant message is shared.
PurgeRemoves(t, k) ==
  /\ Purgeable(t, k) /\ erased[t] >= k
  /\ Leave(Without(Through(t, k)))
  /\ index' = IF index[t].attempt <= k THEN NoIndex({t}) ELSE index
  /\ cleared' = [cleared EXCEPT ![t] = Higher(@, k)]
  /\ UNCHANGED <<mainVars, fence, erased, userFence, memoryVars, sent, refused, dispatched, crashes>>

CrashInPurge(t, k) ==
  /\ Purgeable(t, k) /\ erased[t] >= k
  /\ \E left \in Partly(Through(t, k)) : Leave(left)
  /\ Restart
  /\ UNCHANGED <<index, fence, erased, userFence, cleared>>

-----------------------------------------------------------------------------
\* Account erasure: fence, drain, purge, acknowledge.

EraseFences ==
  /\ erasing = "no"
  /\ userFence' = TRUE
  /\ erasing' = "draining"
  /\ UNCHANGED <<mainVars, files, proposal, index, fence, erased, runner, offer, scanned, todo, ghostVars>>

\* Runs active at the fence have ended; one started since may be in its reads.
EraseDrains ==
  /\ erasing = "draining"
  /\ \A r \in Runs : runner[r] \in {"off", "begun", "prepared", "interrupted", "replay"}
  /\ erasing' = "purging"
  /\ todo' = Turns
  /\ UNCHANGED <<mainVars, diskVars, runner, offer, scanned, ghostVars>>

\* A Turn is the user's if one of its inputs says so.
BelongsToUser(t) == \E r \in Through(t, MaxAttempt) : "input" \in files[r]

ErasesTurn(t) ==
  /\ erasing = "purging" /\ t \in todo /\ BelongsToUser(t)
  /\ fence' = [fence EXCEPT ![t] = Whole]
  /\ erased' = [erased EXCEPT ![t] = Whole]

ErasePurges(t) ==
  /\ ErasesTurn(t)
  /\ Leave(Without(Through(t, MaxAttempt)))
  /\ index' = NoIndex({t})
  /\ todo' = todo \ {t}
  /\ UNCHANGED <<mainVars, userFence, runner, offer, scanned, erasing, ghostVars>>

CrashInErasure(t) ==
  /\ ErasesTurn(t)
  /\ \E left \in Partly(Through(t, MaxAttempt)) : Leave(left)
  /\ Restart
  /\ UNCHANGED <<index, userFence, cleared>>

EraseEnds ==
  /\ erasing = "purging" /\ \A t \in todo : ~BelongsToUser(t)
  /\ index' = NoIndex(Turns)
  /\ erasing' = "done"
  /\ todo' = {}
  /\ UNCHANGED <<mainVars, files, proposal, fence, erased, userFence, runner, offer, scanned, ghostVars>>

-----------------------------------------------------------------------------
MainMoves ==
  /\ \/ \E t \in Turns : Begin(t) \/ Post(t)
     \/ \E T \in SUBSET Turns : T # {} /\ (Stop(T) \/ Delete(T))
  /\ UNCHANGED <<diskVars, memoryVars, ghostVars>>

Crash == Restart /\ UNCHANGED <<diskVars, cleared>>

RunStep(r) ==
  \/ StartScanned(r) \/ ReadEvidence(r) \/ Dispatch(r) \/ Defer(r)
  \/ \E o \in {"sent", "failed"} : Propose(r, o)
  \/ PostTerminal(r) \/ Response(r) \/ MainRefuses(r) \/ ResponseLost(r) \/ Finish(r) \/ Refused(r)
  \/ CrashInFinish(r)
  \/ \E x \in Terminals : MainAccepts(r, x)

RunsNext ==
  \/ MainMoves
  \/ ScanIncomplete
  \/ \E r \in Runs : RunStep(r)
  \/ \E t \in Turns :
       \/ \E a \in Attempts : \/ Admit(t, a) \/ CrashInAdmission(t, a)
                              \/ CancelFences(t, a) \/ CancelRecords(t, a) \/ CrashInCancel(t, a)
       \/ \E k \in Attempts \cup {Whole} : PurgeFences(t, k) \/ PurgeRemoves(t, k) \/ CrashInPurge(t, k)
       \/ ErasePurges(t) \/ CrashInErasure(t)
  \/ EraseFences \/ EraseDrains \/ EraseEnds
  \/ Crash

RunsSpec == RunsInit /\ [][RunsNext]_vars

\* Fairness: the recovery timer ticks, a started run goes on, a full pool is
\* not full for ever, and Main answers some of the requests it keeps getting.
FairRunsSpec ==
  /\ RunsSpec
  /\ WF_vars(ScanIncomplete)
  /\ \A r \in Runs :
       /\ WF_vars(StartScanned(r)) /\ WF_vars(ReadEvidence(r)) /\ WF_vars(Refused(r))
       /\ SF_vars(Dispatch(r) \/ \E o \in {"sent", "failed"} : Propose(r, o))
       /\ WF_vars(PostTerminal(r))
       /\ WF_vars(Response(r) \/ ResponseLost(r))
       /\ \A x \in Terminals :
            SF_vars((runner[r] = "waiting" /\ MainAccepts(r, x)) \/ MainRefuses(r))

-----------------------------------------------------------------------------
\* Properties.

\* Every variable keeps its type, and proposal.json has a content iff it exists.
RunsTypeOK ==
  /\ files \in [Runs -> SUBSET Parts]
  /\ proposal \in [Runs -> Terminals \cup {NoTerminal}]
  /\ \A r \in Runs : "proposal" \in files[r] <=> proposal[r] # NoTerminal
  /\ index \in [Turns -> [attempt : 0..MaxAttempt, terminal : BOOLEAN]]
  /\ fence \in [Turns -> 0..Whole] /\ erased \in [Turns -> 0..Whole]
  /\ \A t \in Turns : erased[t] <= fence[t]
  /\ userFence \in BOOLEAN
  /\ runner \in [Runs -> Stages] /\ offer \in [Runs -> Terminals \cup {NoTerminal}]
  /\ scanned \in SUBSET Runs /\ todo \in SUBSET Turns
  /\ erasing \in {"no", "draining", "purging", "done"}
  /\ sent \in SUBSET (Turns \X Attempts \X Terminals) /\ refused \in SUBSET Runs
  /\ dispatched \in [Runs -> 0..MaxDispatch] /\ cleared \in [Turns -> 0..Whole]
  /\ crashes \in 0..MaxCrashes

\* While Main waits for an attempt its model was asked at most once, whatever
\* crashes, deferrals and recoveries there were: an interrupted run is reported
\* failed (readAgentRunRecoveryEvidence, "replaying an unknown model request
\* cannot recover the original reply safely").
OneModelRunPerLiveAttempt ==
  \A r \in Runs : Live(r[1], r[2]) => dispatched[r] <= 1

\* Main is never offered two different terminals of an attempt it waits for
\* (writeAgentRunProposal, "Main retries must replay these exact bytes").
OneProposalPerLiveAttempt ==
  \A x, y \in sent : x[1] = y[1] /\ x[2] = y[2] /\ Live(x[1], x[2]) => x = y

\* Main waits for no terminal of the attempt, or has refused one.
Answered(r) == ~Live(r[1], r[2]) \/ r \in refused

\* Chat closes a run, in its index or by a completion, only after an answer of
\* Main's that is final for Chat, or after Main ended the attempt; never because
\* an answer was lost, for closed runs are not recovered (settleTerminalProposal,
\* "keep exact recovery bytes for transport/auth/rate-limit failures").
ClosedAfterDecision ==
  /\ \A r \in Runs : "completion" \in files[r] => Answered(r)
  /\ \A t \in Turns : index[t].terminal => Answered(<<t, index[t].attempt>>)

\* Once Chat has acknowledged a purge, no file of the purged attempts exists
\* again: not by a late admission, a late write of a run that was still going,
\* or a late Stop (fence.ts, assertRunWritable, recordAgentRunCancellation).
PurgedStaysGone ==
  \A t \in Turns : \A r \in Through(t, cleared[t]) : files[r] = {}

\* Once an erasure is acknowledged nothing of the user is ever written again
\* (account-deletion.ts, "fence, drain, purge").
ErasedIsFrozen ==
  [][erasing = "done" => \A r \in Runs : files'[r] \subseteq files[r]]_vars

\* The assistant index names ever newer attempts until it is removed, and a
\* finished attempt does not become open again (writeAgentRunIndex).
IndexMovesForward ==
  [][\A t \in Turns : index'[t].attempt # 0 =>
       \/ index'[t].attempt > index[t].attempt
       \/ index'[t].attempt = index[t].attempt /\ (index[t].terminal => index'[t].terminal)]_vars

\* An admitted run is decided: whatever crashes, full pools and lost answers
\* there are, Main gets its terminal and accepts or refuses it, unless Main itself
\* ends the attempt or the user is erased (recoverIncompleteAgentRuns).
RunIsDecided ==
  \A r \in Runs : ("input" \in files[r] /\ Live(r[1], r[2])) ~> (Answered(r) \/ userFence)

-----------------------------------------------------------------------------
\* Statements of the documents that the code does not keep.

\* account-deletion.ts: "the three steps are idempotent, a retry by Main only
\* replays them": an erasure acknowledged after any crash leaves no file of the
\* user's runs (but those of a deleted Turn, whose own purge is redelivered).
ErasedUserLeavesNothing ==
  erasing = "done" => \A r \in Runs : state[r[1]] # "deleted" => files[r] = {}
=============================================================================
