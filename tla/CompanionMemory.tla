--------------------------- MODULE CompanionMemory ---------------------------
(***************************************************************************)
(* Long-term memory of one relationship (user, Character): what Main's     *)
(* transcript says, the memory events in Main's outbox, their delivery,    *)
(* and the workspace Chat keeps: companion-memory-authority.ts,            *)
(* chat-outbox.ts and agent-runtime/workspace.ts.                          *)
(*                                                                         *)
(* An event is claimed under a lease by a delivery, which may be slow, be  *)
(* overtaken by another one, or die.  A request to Chat may be carried out *)
(* after the delivery that sent it gave up.  Chat's locks make promote and *)
(* purge one action each, and a build that a purge meets fails, so prepare *)
(* is one action too.  Main's transactions take the user's lock, which a   *)
(* delivery also holds while it waits for a promotion.                     *)
(*                                                                         *)
(* What is remembered of a Turn is an item <<turn, attempt>>.  The run     *)
(* purge fences of an event are those of ChatTurns and not repeated here.  *)
(* Turns are of different conversations: each is the latest of its own.    *)
(* Not modelled: what igrep derives from the items, and the copies that    *)
(* running attempts read.                                                  *)
(***************************************************************************)
EXTENDS Integers, Sequences, FiniteSets

CONSTANTS Turns,
          Deliveries,   \* lease tokens that may be live at once
          MaxAttempt,   \* bound of the model: attempts per Turn
          MaxEvents,    \* bound of the model: memory events ever made
          NoDelivery,
          NoVersion

ASSUME CompanionMemoryAssumption ==
  /\ MaxAttempt \in Nat \ {0}
  /\ MaxEvents \in Nat
  /\ NoDelivery \notin Deliveries
  /\ NoVersion \notin [version : Nat, by : Deliveries, items : SUBSET (Turns \X Nat)]

Items == Turns \X (1..MaxAttempt)
Kinds == {"project", "rebuild", "purge"}
Statuses == {"pending", "retry", "processing", "delivered"}   \* retry: pending and attempted
Stages == {"idle", "claimed", "prepare", "prepared", "promote", "purge", "done"}

VARIABLES
  turn,        \* Turns -> [state, attempt]
  cleared,     \* items of Turns that a memory clear took out of memory
  outbox,      \* memory events in creation order
  job,         \* Deliveries -> what each is doing
  requests,    \* requests to Chat not carried out yet
  canonical,   \* the published version: [version, by, items], or NoVersion
  candidates   \* prepared and not promoted

mainVars == <<turn, cleared, outbox>>
chatVars == <<requests, canonical, candidates>>
vars == <<mainVars, job, chatVars>>

Idle == [event |-> 0, stage |-> "idle", items |-> {}]

Init ==
  /\ turn = [t \in Turns |-> [state |-> "none", attempt |-> 0]]
  /\ cleared = {}
  /\ outbox = <<>>
  /\ job = [w \in Deliveries |-> Idle]
  /\ requests = {}
  /\ canonical = NoVersion
  /\ candidates = {}

\* What Main would export: sent Turns whose memory was not cleared.
Item(t)    == <<t, turn[t].attempt>>
Transcript == {Item(t) : t \in {u \in Turns : turn[u].state = "sent"}}
Content    == IF canonical = NoVersion THEN {} ELSE canonical.items

Events == 1..Len(outbox)
Undelivered(kinds) == {e \in Events : outbox[e].kind \in kinds /\ outbox[e].status # "delivered"}
Destructive == Undelivered({"rebuild", "purge"})

\* authorityVersion: only projections and rebuilds increment it.
Version(e) == Cardinality({d \in 1..e : outbox[d].kind # "purge"})

\* The user's row is locked by nobody else.
UserLock == \A w \in Deliveries : job[w].stage # "promote"

-----------------------------------------------------------------------------
\* Scheduling, inside the transaction of the change it belongs to.

Event(kind) == [kind |-> kind, status |-> "pending", lease |-> NoDelivery]

Superseded(kinds) ==
  [e \in Events |-> IF e \in Undelivered(kinds)
                    THEN [outbox[e] EXCEPT !.status = "delivered", !.lease = NoDelivery]
                    ELSE outbox[e]]

\* Mutant of Absorbs: a projection that waits for its retry takes the Turn too.
AbsorbsRetry(e) == outbox[e].kind = "project" /\ outbox[e].status \in {"pending", "retry"}

\* Only a projection nobody has attempted can take in a newer Turn.
Absorbs(e) == outbox[e].kind = "project" /\ outbox[e].status = "pending"

ScheduleProjection ==
  IF \E e \in Events : Absorbs(e) THEN UNCHANGED outbox
  ELSE /\ Len(outbox) < MaxEvents                                  \* bound
       /\ outbox' = Append(outbox, Event("project"))

ScheduleRebuild ==
  /\ Len(outbox) < MaxEvents                                       \* bound
  /\ outbox' = Append(Superseded({"project"}), Event("rebuild"))

SchedulePurge ==
  IF Undelivered({"purge"}) # {} THEN outbox' = Superseded({"project", "rebuild"})
  ELSE /\ Len(outbox) < MaxEvents                                  \* bound
       /\ outbox' = Append(Superseded({"project", "rebuild"}), Event("purge"))

-----------------------------------------------------------------------------
\* Changes of the transcript.

Becomes(t, state, attempt) == turn' = [turn EXCEPT ![t] = [state |-> state, attempt |-> attempt]]

\* A first attempt is nothing to memory before its reply is sent.
CommitSent(t) ==
  /\ UserLock
  /\ turn[t].state \in {"none", "running"}
  /\ Becomes(t, "sent", IF turn[t].state = "none" THEN 1 ELSE turn[t].attempt)
  /\ ScheduleProjection
  /\ UNCHANGED <<cleared, job, chatVars>>

\* The terminal is repeated after its answer was lost.
CommitAgain(t) ==
  /\ UserLock
  /\ turn[t].state = "sent"
  /\ ScheduleProjection
  /\ UNCHANGED <<turn, cleared, job, chatVars>>

EndUnsent(t) ==
  /\ UserLock
  /\ turn[t].state = "running"
  /\ Becomes(t, "unsent", turn[t].attempt)
  /\ UNCHANGED <<cleared, outbox, job, chatVars>>

\* Regenerate or edit: the Turn runs again.
Revise(t) ==
  /\ UserLock
  /\ turn[t].state \in {"sent", "unsent"} /\ Destructive = {}
  /\ turn[t].attempt < MaxAttempt                                  \* bound
  /\ Becomes(t, "running", turn[t].attempt + 1)
  /\ ScheduleRebuild
  /\ UNCHANGED <<cleared, job, chatVars>>

Delete(t) ==
  /\ UserLock
  /\ turn[t].state \in {"sent", "unsent", "cleared"} /\ Destructive = {}
  /\ Becomes(t, "deleted", turn[t].attempt)
  /\ ScheduleRebuild
  /\ UNCHANGED <<cleared, job, chatVars>>

\* Every Turn so far leaves memory for good; a running one is cancelled.
Clear ==
  /\ UserLock
  /\ \E t \in Turns : turn[t].state \notin {"none", "deleted"}
  /\ turn' = [t \in Turns |-> IF turn[t].state \in {"none", "deleted"} THEN turn[t]
                              ELSE [turn[t] EXCEPT !.state = "cleared"]]
  /\ cleared' = cleared \cup Transcript
  /\ SchedulePurge
  /\ UNCHANGED <<job, chatVars>>

-----------------------------------------------------------------------------
\* Delivery: claim, deliver, then a compare-and-set on the lease.

Lane(kind) == IF kind = "purge" THEN {"purge"} ELSE {"project", "rebuild"}

\* Mutant of Claimable: the lease of a delivery that died is never taken over.
ClaimableOnce(e) ==
  /\ outbox[e].status \in {"pending", "retry"}
  /\ \A d \in Undelivered(Lane(outbox[e].kind)) : d >= e

\* Pending, or its lease has run out; nothing earlier of its lane is left.
Claimable(e) ==
  /\ outbox[e].status # "delivered"
  /\ \A d \in Undelivered(Lane(outbox[e].kind)) : d >= e

\* A delivery names its lease and the rebuild it prepares: a name is free
\* again when nothing that bears it is under way.
Claim(w, e) ==
  /\ job[w].stage = "idle" /\ \A r \in requests : r.by # w          \* bound
  /\ Claimable(e)
  /\ outbox' = [outbox EXCEPT ![e] = [@ EXCEPT !.status = "processing", !.lease = w]]
  /\ job' = [job EXCEPT ![w] = [event |-> e, stage |-> "claimed", items |-> {}]]
  /\ UNCHANGED <<turn, cleared, chatVars>>

At(w, stage) == job[w].stage = stage
Goes(w, stage) == job' = [job EXCEPT ![w].stage = stage]
Request(w, what, items) == [what |-> what, event |-> job[w].event, by |-> w, items |-> items]

\* Mutant of Exported: a rebuild is seeded from the published memory.
ExportedOntoOld(e) == Transcript \cup Content

\* A rebuild starts empty; a projection's build ends with Main's items only.
Exported(e) == Transcript

SendPrepare(w) ==
  LET items == Exported(job[w].event) IN
  /\ At(w, "claimed") /\ outbox[job[w].event].kind # "purge"
  /\ job' = [job EXCEPT ![w].stage = "prepare", ![w].items = items]
  /\ requests' = requests \cup {Request(w, "prepare", items)}
  /\ UNCHANGED <<mainVars, canonical, candidates>>

\* Mutant of StillDue: the final check is left out.
AlwaysDue(w) == TRUE

\* The final check under the user's lock: no later change took the event's place.
StillDue(w) == outbox[job[w].event].status # "delivered"

\* The check, and the request to promote.
SendPromote(w) ==
  /\ At(w, "prepared") /\ UserLock
  /\ StillDue(w)
  /\ Goes(w, "promote")
  /\ requests' = requests \cup {Request(w, "promote", job[w].items)}
  /\ UNCHANGED <<mainVars, canonical, candidates>>

\* Its event is delivered, so the write that follows finds no lease.
SkipPromote(w) ==
  /\ At(w, "prepared") /\ UserLock
  /\ ~StillDue(w)
  /\ job' = [job EXCEPT ![w] = Idle]
  /\ UNCHANGED <<mainVars, chatVars>>

SendPurge(w) ==
  /\ At(w, "claimed") /\ outbox[job[w].event].kind = "purge"
  /\ Goes(w, "purge")
  /\ requests' = requests \cup {Request(w, "purge", {})}
  /\ UNCHANGED <<mainVars, canonical, candidates>>

HoldsLease(w) == /\ outbox[job[w].event].status = "processing"
                 /\ outbox[job[w].event].lease = w

Settled(w, status) ==
  IF HoldsLease(w)
  THEN [outbox EXCEPT ![job[w].event] = [@ EXCEPT !.status = status, !.lease = NoDelivery]]
  ELSE outbox

Settle(w) ==
  /\ At(w, "done")
  /\ outbox' = Settled(w, "delivered")
  /\ job' = [job EXCEPT ![w] = Idle]
  /\ UNCHANGED <<turn, cleared, chatVars>>

\* The request failed, or its answer did not come in time: try again later.
Fail(w) ==
  /\ job[w].stage \in {"prepare", "promote", "purge"}
  /\ outbox' = Settled(w, "retry")
  /\ job' = [job EXCEPT ![w] = Idle]
  /\ UNCHANGED <<turn, cleared, chatVars>>

\* The process dies; its lease will run out.
Die(w) ==
  /\ job[w].stage # "idle"
  /\ job' = [job EXCEPT ![w] = Idle]
  /\ UNCHANGED <<mainVars, chatVars>>

-----------------------------------------------------------------------------
\* Chat carries a request out.  The answer reaches the delivery if it waits.

Answered(r, stage) == IF At(r.by, r.what) THEN Goes(r.by, stage) ELSE UNCHANGED job

Candidate(r) == [version |-> Version(r.event), by |-> r.by, items |-> r.items]

ChatPrepares(r) ==
  /\ r.what = "prepare"
  /\ candidates' = candidates \cup {Candidate(r)}
  /\ requests' = requests \ {r}
  /\ Answered(r, "prepared")
  /\ UNCHANGED <<mainVars, canonical>>

Publishes(r) == /\ Candidate(r) \in candidates
                /\ canonical # NoVersion => canonical.version < Version(r.event)

\* Published, or an equal or newer version stands: every candidate is put out.
ChatPromotes(r) ==
  /\ r.what = "promote"
  /\ Candidate(r) \in candidates \/ canonical = Candidate(r)
  /\ canonical' = IF Publishes(r) THEN Candidate(r) ELSE canonical
  /\ candidates' = {}
  /\ requests' = requests \ {r}
  /\ Answered(r, "done")
  /\ UNCHANGED mainVars

\* The pointer is moved and the clean-up fails: an error, with memory published.
ChatHalfPromotes(r) ==
  /\ r.what = "promote" /\ Publishes(r)
  /\ canonical' = Candidate(r)
  /\ requests' = requests \ {r}
  /\ UNCHANGED <<mainVars, job, candidates>>

ChatPurges(r) ==
  /\ r.what = "purge"
  /\ canonical' = NoVersion
  /\ candidates' = {}
  /\ requests' = requests \ {r}
  /\ Answered(r, "done")
  /\ UNCHANGED mainVars

\* Lost, or answered with an error: a promotion whose candidate is gone is.
RequestLost(r) ==
  /\ requests' = requests \ {r}
  /\ UNCHANGED <<mainVars, job, canonical, candidates>>

-----------------------------------------------------------------------------
Next ==
  \/ \E t \in Turns : \/ CommitSent(t) \/ CommitAgain(t) \/ EndUnsent(t)
                      \/ Revise(t) \/ Delete(t)
  \/ Clear
  \/ \E w \in Deliveries :
       \/ \E e \in Events : Claim(w, e)
       \/ SendPrepare(w) \/ SendPromote(w) \/ SkipPromote(w) \/ SendPurge(w)
       \/ Settle(w) \/ Fail(w) \/ Die(w)
  \/ \E r \in requests : \/ ChatPrepares(r) \/ ChatPromotes(r) \/ ChatHalfPromotes(r)
                         \/ ChatPurges(r) \/ RequestLost(r)

Spec == Init /\ [][Next]_vars
-----------------------------------------------------------------------------
\* Fairness: due events are claimed, an expired lease included; a request is
\* carried out or lost; requests that are repeated are at some time carried
\* out and answered, and a delivery does not die each time before its last
\* step.
FairSpec ==
  /\ Spec
  /\ \A e \in 1..MaxEvents : WF_vars(e \in Events /\ \E w \in Deliveries : Claim(w, e))
  /\ \A w \in Deliveries :
       /\ SF_vars(SendPrepare(w)) /\ SF_vars(SendPromote(w) \/ SkipPromote(w))
       /\ SF_vars(SendPurge(w)) /\ SF_vars(Settle(w)) /\ WF_vars(Fail(w))
       /\ WF_vars(\E r \in requests : r.by = w /\ RequestLost(r))
       /\ SF_vars(\E r \in requests : r.by = w /\ At(w, r.what) /\ ChatPrepares(r))
       /\ SF_vars(\E r \in requests : r.by = w /\ At(w, r.what) /\ ChatPromotes(r))
       /\ SF_vars(\E r \in requests : r.by = w /\ At(w, r.what) /\ ChatPurges(r))

-----------------------------------------------------------------------------
\* Properties.

Published == [version : 1..MaxEvents, by : Deliveries, items : SUBSET Items]

\* Every variable keeps its type.
MemoryTypeOK ==
  /\ turn \in [Turns -> [state : {"none", "running", "sent", "unsent", "cleared", "deleted"},
                         attempt : 0..MaxAttempt]]
  /\ cleared \subseteq Items
  /\ outbox \in Seq([kind : Kinds, status : Statuses, lease : Deliveries \cup {NoDelivery}])
  /\ Len(outbox) <= MaxEvents
  /\ job \in [Deliveries -> [event : 0..MaxEvents, stage : Stages, items : SUBSET Items]]
  /\ \A w \in Deliveries : job[w].event \in Events \/ job[w] = Idle
  /\ requests \subseteq [what : {"prepare", "promote", "purge"}, event : Events,
                         by : Deliveries, items : SUBSET Items]
  /\ canonical = NoVersion \/ canonical \in Published
  /\ candidates \subseteq Published

\* When nothing is left to deliver, the published memory is what Main's
\* transcript says: no Turn that was coalesced, superseded or retried is
\* missing and none that was withdrawn is left.  (Of a relationship that was
\* never cleared: a purge has a lane of its own and no version, so one that is
\* delivered late also removes what was remembered since.)
UnclearedMemoryIsTranscript ==
  /\ Undelivered(Kinds) = {}
  /\ \A e \in Events : outbox[e].kind # "purge"
  => Content = Transcript

\* An item withdrawn by an edit, a regeneration or a deletion is out of the
\* published memory once no destructive event is left to deliver, however
\* late an older projection is prepared or promoted.
WithdrawnIsForgotten ==
  Destructive = {} => Content \ cleared \subseteq Transcript

\* The published version only advances; it goes back only to nothing, by a
\* purge (promoteRelationshipRebuild, authority versions).
PublicationAdvances ==
  [][canonical' \in {canonical, NoVersion}
     \/ canonical = NoVersion \/ canonical'.version > canonical.version]_vars

\* While Main waits for a promotion, holding the user's lock, Main's transcript
\* still says all that is being published, however long ago it was exported
\* (syncCompanionMemoryFromMain, "the final Main authority fence").
PromotionIsCurrent ==
  \A w \in Deliveries : At(w, "promote") => job[w].items \subseteq Transcript

\* What was said is in the published memory in the end, unless it is withdrawn
\* or the relationship is cleared: no event is lost with the delivery that had
\* claimed it, and none is absorbed by one that has already been exported.
SaidIsRemembered ==
  \A i \in Items : i \in Transcript ~>
    i \in Content \/ i \notin Transcript \/ \E e \in Events : outbox[e].kind = "purge"

=============================================================================
