------------------------ MODULE CompanionMemoryProofs ------------------------
(***************************************************************************)
(* Proofs about long-term memory, for any number of Turns, attempts,       *)
(* events and deliveries.                                                  *)
(***************************************************************************)
EXTENDS CompanionMemory, SequenceTheorems, TLAPS

-----------------------------------------------------------------------------
\* The invariant.

EventRecord == [kind : Kinds, status : Statuses, lease : Deliveries \cup {NoDelivery}]

\* A delivery that is not idle has an event of the outbox; one of a purge
\* exports nothing, and one that has just claimed its event nothing yet.
JobsFit ==
  \A w \in Deliveries : job[w].stage # "idle" =>
    /\ job[w].event \in Events
    /\ outbox[job[w].event].kind = "purge" => job[w].items = {}
    /\ At(w, "claimed") => job[w].items = {}

Shape ==
  /\ turn \in [Turns -> [state : {"none", "running", "sent", "unsent", "cleared", "deleted"},
                         attempt : Nat]]
  /\ outbox \in Seq(EventRecord)
  /\ job \in [Deliveries -> [event : Nat, stage : Stages, items : SUBSET (Turns \X Nat)]]
  /\ requests \subseteq [what : {"prepare", "promote", "purge"}, event : Nat,
                         by : Deliveries, items : SUBSET (Turns \X Nat)]
  /\ JobsFit

\* The transcript still says all that a delivery has exported for an event
\* that is due, and all that is being promoted under the user's lock.
HoldsOnly(w) ==
  At(w, "promote") \/ (job[w].stage # "idle" /\ StillDue(w)) => job[w].items \subseteq Transcript

ExportsHold == \A w \in Deliveries : HoldsOnly(w)

MemoryInvariant == Shape /\ ExportsHold

-----------------------------------------------------------------------------
\* How the outbox changes.

\* Events stay, keep their kind, and once delivered stay delivered.
Carries(old, new) ==
  /\ new \in Seq(EventRecord)
  /\ Len(new) >= Len(old)
  /\ \A e \in 1..Len(old) :
       /\ new[e].kind = old[e].kind
       /\ old[e].status = "delivered" => new[e].status = "delivered"

\* Every event of these kinds is delivered in new.
Silences(kinds, old, new) ==
  \A e \in 1..Len(old) : old[e].kind \in kinds => new[e].status = "delivered"

LEMMA SupersededCarries ==
  ASSUME outbox \in Seq(EventRecord), NEW kinds
  PROVE  Carries(outbox, Superseded(kinds)) /\ Silences(kinds, outbox, Superseded(kinds))
<1>1. Len(outbox) \in Nat /\ \A e \in Events : outbox[e] \in EventRecord
  BY DEF Events
<1>2. Superseded(kinds) \in [1..Len(outbox) -> EventRecord]
  BY <1>1 DEF Superseded, Events, EventRecord, Statuses
<1>3. Superseded(kinds) \in Seq(EventRecord) /\ Len(Superseded(kinds)) = Len(outbox)
  BY <1>1, <1>2
<1>4. \A e \in Events : /\ Superseded(kinds)[e].kind = outbox[e].kind
                        /\ outbox[e].status = "delivered" => Superseded(kinds)[e].status = "delivered"
                        /\ outbox[e].kind \in kinds => Superseded(kinds)[e].status = "delivered"
  BY <1>1 DEF Superseded, Undelivered, EventRecord
<1> QED BY <1>3, <1>4, <1>1 DEF Carries, Silences, Events

LEMMA AppendCarries ==
  ASSUME NEW old \in Seq(EventRecord), NEW mid, NEW kinds, Carries(old, mid),
         Silences(kinds, old, mid), NEW new, NEW kind \in Kinds, new = Append(mid, Event(kind))
  PROVE  Carries(old, new) /\ Silences(kinds, old, new)
<1>1. Event(kind) \in EventRecord
  BY DEF Event, EventRecord, Statuses
<1>2. mid \in Seq(EventRecord) /\ Len(mid) \in Nat /\ Len(old) \in Nat /\ Len(mid) >= Len(old)
  BY DEF Carries
<1>3. new \in Seq(EventRecord) /\ Len(new) = Len(mid) + 1 /\ \A e \in 1..Len(mid) : new[e] = mid[e]
  BY <1>1, <1>2
<1>4. \A e \in 1..Len(old) : new[e] = mid[e]
  BY <1>2, <1>3
<1> QED BY <1>2, <1>3, <1>4 DEF Carries, Silences

LEMMA SameCarries ==
  ASSUME NEW old \in Seq(EventRecord)
  PROVE  Carries(old, old)
  BY DEF Carries

LEMMA ScheduleCarries ==
  ASSUME outbox \in Seq(EventRecord)
  PROVE  /\ ScheduleProjection => Carries(outbox, outbox')
         /\ ScheduleRebuild => Carries(outbox, outbox') /\ Silences({"project"}, outbox, outbox')
         /\ SchedulePurge => /\ Carries(outbox, outbox')
                             /\ Silences({"project", "rebuild"}, outbox, outbox')
<1>1. Carries(outbox, outbox) /\ Silences({}, outbox, outbox)
  BY SameCarries DEF Silences
<1>2. ASSUME ScheduleProjection PROVE Carries(outbox, outbox')
  <2>1. CASE outbox' = outbox
    BY <2>1, <1>1
  <2>2. CASE outbox' = Append(outbox, Event("project"))
    <3>1. "project" \in Kinds
      BY DEF Kinds
    <3> QED BY <1>1, <2>2, <3>1, AppendCarries
  <2> QED BY <1>2, <2>1, <2>2 DEF ScheduleProjection
<1>3. ASSUME ScheduleRebuild
      PROVE  Carries(outbox, outbox') /\ Silences({"project"}, outbox, outbox')
  <2>1. outbox' = Append(Superseded({"project"}), Event("rebuild")) /\ "rebuild" \in Kinds
    BY <1>3 DEF ScheduleRebuild, Kinds
  <2> QED BY <2>1, SupersededCarries, AppendCarries
<1>4. ASSUME SchedulePurge
      PROVE  Carries(outbox, outbox') /\ Silences({"project", "rebuild"}, outbox, outbox')
  <2>1. CASE outbox' = Superseded({"project", "rebuild"})
    BY <2>1, SupersededCarries
  <2>2. CASE outbox' = Append(Superseded({"project", "rebuild"}), Event("purge"))
    <3>1. "purge" \in Kinds
      BY DEF Kinds
    <3> QED BY <2>2, <3>1, SupersededCarries, AppendCarries
  <2> QED BY <1>4, <2>1, <2>2 DEF SchedulePurge
<1> QED BY <1>2, <1>3, <1>4

-----------------------------------------------------------------------------
\* What a step does to the deliveries.

LEMMA EventKinds ==
  ASSUME Shape, NEW e \in Events
  PROVE  outbox[e].kind \in {"project", "rebuild", "purge"}
<1>1. Len(outbox) \in Nat /\ e \in 1..Len(outbox) /\ outbox \in Seq(EventRecord)
  BY DEF Shape, Events
<1>2. outbox[e] \in EventRecord
  BY <1>1
<1> QED BY <1>2 DEF EventRecord, Kinds

LEMMA TranscriptType ==
  ASSUME Shape
  PROVE  Transcript \subseteq Turns \X Nat
  BY DEF Shape, Transcript, Item

\* A change of the transcript leaves every delivery where it is.
LEMMA JobsKeepFit ==
  ASSUME Shape, Carries(outbox, outbox'), job' = job
  PROVE  JobsFit'
<1>1. Len(outbox) \in Nat /\ Len(outbox') \in Nat /\ Len(outbox) <= Len(outbox')
  BY DEF Shape, Carries
<1>2. Events \subseteq Events' /\ \A e \in Events : outbox'[e].kind = outbox[e].kind
  BY <1>1 DEF Carries, Events
<1> QED BY <1>2 DEF Shape, JobsFit, At

\* It adds to the transcript only.
LEMMA GrownTranscript ==
  ASSUME Shape, ExportsHold, UserLock, Carries(outbox, outbox'), job' = job,
         Transcript \subseteq Transcript'
  PROVE  ExportsHold'
<1> SUFFICES ASSUME NEW w \in Deliveries PROVE HoldsOnly(w)'
  BY DEF ExportsHold
<1>1. ~At(w, "promote")
  BY DEF UserLock, At
<1>2. ASSUME job[w].stage # "idle", StillDue(w)'
      PROVE  job[w].items \subseteq Transcript'
  <2>1. job[w].event \in 1..Len(outbox)
    BY <1>2 DEF Shape, JobsFit, Events
  <2>2. StillDue(w)
    BY <1>2, <2>1 DEF StillDue, Carries
  <2> QED BY <1>2, <2>2 DEF ExportsHold, HoldsOnly
<1> QED BY <1>1, <1>2 DEF HoldsOnly, At

\* It takes from the transcript, and no event but a purge is due any more.
LEMMA ShrunkTranscript ==
  ASSUME Shape, UserLock, Carries(outbox, outbox'), job' = job,
         \A e \in Events : outbox[e].kind # "purge" => outbox'[e].status = "delivered"
  PROVE  ExportsHold'
<1> SUFFICES ASSUME NEW w \in Deliveries PROVE HoldsOnly(w)'
  BY DEF ExportsHold
<1>1. ~At(w, "promote")
  BY DEF UserLock, At
<1>2. ASSUME job[w].stage # "idle", StillDue(w)'
      PROVE  job[w].items = {}
  <2>1. job[w].event \in Events
    BY <1>2 DEF Shape, JobsFit
  <2>2. outbox[job[w].event].kind = "purge"
    BY <1>2, <2>1 DEF StillDue
  <2> QED BY <1>2, <2>1, <2>2 DEF Shape, JobsFit
<1> QED BY <1>1, <1>2 DEF HoldsOnly, At

\* A step of one delivery.
LEMMA DeliveryStep ==
  ASSUME MemoryInvariant, turn' = turn, Carries(outbox, outbox'), NEW w \in Deliveries,
         \A v \in Deliveries \ {w} : job'[v] = job[v],
         HoldsOnly(w)',
         job'[w].stage # "idle" =>
           /\ job'[w].event \in Events
           /\ outbox[job'[w].event].kind = "purge" => job'[w].items = {}
           /\ job'[w].stage = "claimed" => job'[w].items = {}
  PROVE  JobsFit' /\ ExportsHold'
<1>1. Len(outbox) \in Nat /\ Len(outbox') \in Nat /\ Len(outbox) <= Len(outbox')
  BY DEF MemoryInvariant, Shape, Carries
<1>2. Events \subseteq Events' /\ \A e \in Events : outbox'[e].kind = outbox[e].kind
  BY <1>1 DEF Carries, Events
<1>3. JobsFit'
  BY <1>2 DEF MemoryInvariant, Shape, JobsFit, At
<1>4. Transcript' = Transcript
  BY DEF Transcript, Item
<1>5. ASSUME NEW v \in Deliveries \ {w} PROVE HoldsOnly(v)'
  <2>1. job'[v] = job[v]
    BY <1>5
  <2>2. ASSUME job[v].stage # "idle", StillDue(v)' PROVE StillDue(v)
    <3>1. job[v].event \in 1..Len(outbox)
      BY <2>2 DEF MemoryInvariant, Shape, JobsFit, Events
    <3> QED BY <2>1, <2>2, <3>1 DEF StillDue, Carries
  <2>3. HoldsOnly(v)
    BY DEF MemoryInvariant, ExportsHold
  <2> QED BY <1>4, <2>1, <2>2, <2>3 DEF HoldsOnly, At
<1> QED BY <1>3, <1>5 DEF ExportsHold

\* Chat's answer moves the delivery that waits for it, and no other.
LEMMA AnswerStep ==
  ASSUME MemoryInvariant, NEW r \in requests, NEW stage \in {"prepared", "done"},
         Answered(r, stage), UNCHANGED mainVars
  PROVE  /\ job' \in [Deliveries -> [event : Nat, stage : Stages, items : SUBSET (Turns \X Nat)]]
         /\ JobsFit' /\ ExportsHold'
<1> DEFINE w == r.by
<1>1. w \in Deliveries /\ r.what \in {"prepare", "promote", "purge"}
  BY DEF MemoryInvariant, Shape
<1>2. turn' = turn /\ outbox' = outbox /\ Carries(outbox, outbox')
  BY SameCarries DEF mainVars, MemoryInvariant, Shape
<1>3. job \in [Deliveries -> [event : Nat, stage : Stages, items : SUBSET (Turns \X Nat)]]
  BY DEF MemoryInvariant, Shape
<1>4. CASE job' = job
  <2>1. HoldsOnly(w)'
    BY <1>1, <1>2, <1>4 DEF MemoryInvariant, ExportsHold, HoldsOnly, At, StillDue, Transcript, Item
  <2>2. JobsFit' /\ ExportsHold'
    BY <1>1, <1>2, <1>4, <2>1, DeliveryStep DEF MemoryInvariant, Shape, JobsFit, At
  <2> QED BY <1>3, <1>4, <2>2
<1>5. CASE At(w, r.what) /\ job' = [job EXCEPT ![w].stage = stage]
  <2>2. /\ job'[w].event = job[w].event /\ job'[w].items = job[w].items /\ job'[w].stage = stage
        /\ \A v \in Deliveries \ {w} : job'[v] = job[v]
    BY <1>1, <1>3, <1>5
  <2>3. job[w].stage # "idle"
    BY <1>1, <1>5 DEF At
  <2>4. HoldsOnly(w)'
    BY <1>1, <1>2, <2>2, <2>3 DEF MemoryInvariant, ExportsHold, HoldsOnly, At, StillDue, Transcript, Item
  <2>5. JobsFit' /\ ExportsHold'
    <3>1. /\ job[w].event \in Events
          /\ outbox[job[w].event].kind = "purge" => job[w].items = {}
      BY <1>1, <2>3 DEF MemoryInvariant, Shape, JobsFit
    <3>2. job'[w].stage # "claimed"
      BY <2>2
    <3> QED BY <1>1, <1>2, <2>2, <2>4, <3>1, <3>2, DeliveryStep
  <2>6. job' \in [Deliveries -> [event : Nat, stage : Stages, items : SUBSET (Turns \X Nat)]]
    BY <1>1, <1>3, <1>5 DEF Stages
  <2> QED BY <2>5, <2>6
<1> QED BY <1>4, <1>5 DEF Answered, Goes

-----------------------------------------------------------------------------
\* Every step of Next keeps the invariant.

TurnType == [Turns -> [state : {"none", "running", "sent", "unsent", "cleared", "deleted"},
                       attempt : Nat]]

LEMMA BecomesType ==
  ASSUME Shape, NEW t \in Turns, NEW state, NEW attempt \in Nat,
         state \in {"running", "sent", "unsent", "deleted"}, Becomes(t, state, attempt)
  PROVE  /\ turn' \in TurnType
         /\ turn'[t] = [state |-> state, attempt |-> attempt]
         /\ \A u \in Turns \ {t} : turn'[u] = turn[u]
  BY DEF Shape, TurnType, Becomes

\* A Turn that was not sent changes: nothing leaves the transcript.
LEMMA BecomesGrows ==
  ASSUME Shape, NEW t \in Turns, turn[t].state # "sent",
         \A u \in Turns \ {t} : turn'[u] = turn[u]
  PROVE  Transcript \subseteq Transcript'
  BY DEF Transcript, Item

\* A transaction of Main that changes nothing but Turns and the outbox.
LEMMA MainStep ==
  ASSUME MemoryInvariant, turn' \in TurnType, Carries(outbox, outbox'),
         UNCHANGED <<job, chatVars>>, ExportsHold'
  PROVE  MemoryInvariant'
<1>1. JobsFit'
  BY JobsKeepFit DEF MemoryInvariant
<1> QED BY <1>1 DEF MemoryInvariant, Shape, TurnType, Carries, chatVars

LEMMA CommitKeeps ==
  ASSUME MemoryInvariant, NEW t \in Turns, CommitSent(t) \/ CommitAgain(t) \/ EndUnsent(t)
  PROVE  MemoryInvariant'
<1>1. Shape /\ ExportsHold /\ outbox \in Seq(EventRecord) /\ turn \in TurnType
  BY DEF MemoryInvariant, Shape, TurnType
<1>2. UserLock /\ UNCHANGED <<job, chatVars>> /\ Carries(outbox, outbox')
  BY <1>1, ScheduleCarries, SameCarries DEF CommitSent, CommitAgain, EndUnsent
<1>3. turn' \in TurnType /\ Transcript \subseteq Transcript'
  <2>1. CASE CommitAgain(t)
    BY <1>1, <2>1 DEF CommitAgain, Transcript, Item
  <2>2. CASE CommitSent(t)
    <3>1. turn[t].attempt \in Nat /\ turn[t].state # "sent"
      BY <1>1, <2>2 DEF CommitSent, TurnType
    <3>2. (IF turn[t].state = "none" THEN 1 ELSE turn[t].attempt) \in Nat
      BY <3>1
    <3> QED BY <1>1, <2>2, <3>1, <3>2, BecomesType, BecomesGrows DEF CommitSent
  <2>3. CASE EndUnsent(t)
    <3>1. turn[t].attempt \in Nat /\ turn[t].state # "sent"
      BY <1>1, <2>3 DEF EndUnsent, TurnType
    <3> QED BY <1>1, <2>3, <3>1, BecomesType, BecomesGrows DEF EndUnsent
  <2> QED BY <2>1, <2>2, <2>3
<1>4. ExportsHold'
  BY <1>1, <1>2, <1>3, GrownTranscript
<1> QED BY <1>2, <1>3, <1>4, MainStep

LEMMA WithdrawKeeps ==
  ASSUME MemoryInvariant, NEW t \in Turns, Revise(t) \/ Delete(t)
  PROVE  MemoryInvariant'
<1>1. Shape /\ outbox \in Seq(EventRecord) /\ turn \in TurnType
  BY DEF MemoryInvariant, Shape, TurnType
<1>2. UserLock /\ Destructive = {} /\ ScheduleRebuild /\ UNCHANGED <<job, chatVars>>
  BY DEF Revise, Delete
<1>3. Carries(outbox, outbox') /\ Silences({"project"}, outbox, outbox')
  BY <1>1, <1>2, ScheduleCarries
<1>4. \A e \in Events : outbox[e].kind # "purge" => outbox'[e].status = "delivered"
  <2> SUFFICES ASSUME NEW e \in Events, outbox[e].kind # "purge"
               PROVE  outbox'[e].status = "delivered"
    OBVIOUS
  <2>1. outbox[e].kind \in {"project", "rebuild"}
    BY <1>1, EventKinds
  <2>2. CASE outbox[e].kind = "project"
    BY <1>3, <2>2 DEF Silences, Events
  <2>3. CASE outbox[e].kind = "rebuild"
    BY <1>2, <1>3, <2>3 DEF Destructive, Undelivered, Carries, Events
  <2> QED BY <2>1, <2>2, <2>3
<1>5. turn' \in TurnType
  <2>1. turn[t].attempt \in Nat
    BY <1>1 DEF TurnType
  <2>2. CASE Revise(t)
    <3>1. turn[t].attempt + 1 \in Nat /\ Becomes(t, "running", turn[t].attempt + 1)
      BY <2>1, <2>2 DEF Revise
    <3> QED BY <1>1, <3>1, BecomesType
  <2>3. CASE Delete(t)
    BY <1>1, <2>1, <2>3, BecomesType DEF Delete
  <2> QED BY <2>2, <2>3
<1>6. ExportsHold'
  BY <1>1, <1>2, <1>3, <1>4, ShrunkTranscript
<1> QED BY <1>2, <1>3, <1>5, <1>6, MainStep

LEMMA ClearKeeps ==
  ASSUME MemoryInvariant, Clear
  PROVE  MemoryInvariant'
<1>1. Shape /\ outbox \in Seq(EventRecord) /\ turn \in TurnType
  BY DEF MemoryInvariant, Shape, TurnType
<1>2. UserLock /\ UNCHANGED <<job, chatVars>>
  BY Zenon DEF Clear
<1>3. Carries(outbox, outbox') /\ Silences({"project", "rebuild"}, outbox, outbox')
  BY <1>1, ScheduleCarries DEF Clear
<1>4. \A e \in Events : outbox[e].kind # "purge" => outbox'[e].status = "delivered"
  BY <1>1, <1>3, EventKinds DEF Silences, Events
<1>5. turn' \in TurnType
  <2>1. \A t \in Turns : turn[t] \in [state : {"none", "running", "sent", "unsent", "cleared", "deleted"},
                                      attempt : Nat]
    BY <1>1 DEF TurnType
  <2>2. \A t \in Turns : [turn[t] EXCEPT !.state = "cleared"] \in
          [state : {"none", "running", "sent", "unsent", "cleared", "deleted"}, attempt : Nat]
    BY <2>1
  <2>3. turn' = [t \in Turns |-> IF turn[t].state \in {"none", "deleted"} THEN turn[t]
                                ELSE [turn[t] EXCEPT !.state = "cleared"]]
    BY DEF Clear
  <2> QED BY <2>1, <2>2, <2>3 DEF TurnType
<1>6. ExportsHold'
  BY <1>1, <1>2, <1>3, <1>4, ShrunkTranscript
<1> QED BY <1>2, <1>3, <1>5, <1>6, MainStep

JobType == [Deliveries -> [event : Nat, stage : Stages, items : SUBSET (Turns \X Nat)]]
RequestType == [what : {"prepare", "promote", "purge"}, event : Nat,
                by : Deliveries, items : SUBSET (Turns \X Nat)]

LEMMA ClaimKeeps ==
  ASSUME MemoryInvariant, NEW w \in Deliveries, NEW e \in Events, Claim(w, e)
  PROVE  MemoryInvariant'
<1>1. /\ outbox \in Seq(EventRecord) /\ job \in JobType /\ Len(outbox) \in Nat
      /\ e \in 1..Len(outbox) /\ e \in Nat
  BY DEF MemoryInvariant, Shape, JobType, Events
<1>2. /\ outbox' = [outbox EXCEPT ![e] = [@ EXCEPT !.status = "processing", !.lease = w]]
      /\ job' = [job EXCEPT ![w] = [event |-> e, stage |-> "claimed", items |-> {}]]
      /\ outbox[e].status # "delivered" /\ UNCHANGED <<turn, requests>>
  BY DEF Claim, Claimable, chatVars
<1>3. Carries(outbox, outbox')
  <2>1. outbox[e] \in EventRecord
    BY <1>1
  <2>2. [outbox[e] EXCEPT !.status = "processing", !.lease = w] \in EventRecord
    BY <2>1 DEF EventRecord, Statuses
  <2>3. outbox' \in Seq(EventRecord) /\ Len(outbox') = Len(outbox)
    BY <1>1, <1>2, <2>2
  <2>4. \A d \in 1..Len(outbox) : outbox'[d].kind = outbox[d].kind
                                  /\ (outbox[d].status = "delivered" => outbox'[d] = outbox[d])
    BY <1>1, <1>2, <2>1 DEF EventRecord
  <2> QED BY <1>1, <2>3, <2>4 DEF Carries
<1>4. job' \in JobType /\ job'[w] = [event |-> e, stage |-> "claimed", items |-> {}]
      /\ \A v \in Deliveries \ {w} : job'[v] = job[v]
  BY <1>1, <1>2 DEF JobType, Stages
<1>5. HoldsOnly(w)'
  BY <1>4 DEF HoldsOnly, At
<1>6. JobsFit' /\ ExportsHold'
  BY <1>2, <1>3, <1>4, <1>5, DeliveryStep
<1> QED BY <1>2, <1>3, <1>4, <1>6 DEF MemoryInvariant, Shape, JobType, Carries

\* A delivery asks Chat for something: the outbox and the transcript stay.
LEMMA SendKeeps ==
  ASSUME MemoryInvariant, NEW w \in Deliveries,
         SendPrepare(w) \/ SendPromote(w) \/ SendPurge(w)
  PROVE  MemoryInvariant'
<1>1. /\ outbox \in Seq(EventRecord) /\ job \in JobType /\ requests \subseteq RequestType
      /\ UNCHANGED <<turn, outbox>> /\ Carries(outbox, outbox')
  BY SameCarries DEF MemoryInvariant, Shape, JobType, RequestType, SendPrepare, SendPromote,
                     SendPurge, mainVars
<1>2. job[w].stage # "idle" /\ (At(w, "claimed") => job[w].items = {})
      /\ job[w].event \in Events /\ (outbox[job[w].event].kind = "purge" => job[w].items = {})
  BY DEF SendPrepare, SendPromote, SendPurge, At, MemoryInvariant, Shape, JobsFit
<1>3. job[w].event \in Nat /\ job[w].items \in SUBSET (Turns \X Nat)
  BY <1>1 DEF JobType
<1>4. PICK what \in {"prepare", "promote", "purge"}, items \in SUBSET (Turns \X Nat) :
        /\ job' = [job EXCEPT ![w].stage = what, ![w].items = items]
        /\ requests' = requests \cup {Request(w, what, items)}
        /\ items \subseteq Transcript
        /\ outbox[job[w].event].kind = "purge" => items = {}
  <2>1. CASE SendPrepare(w)
    <3>1. Transcript \in SUBSET (Turns \X Nat)
      BY TranscriptType DEF MemoryInvariant
    <3> QED BY <2>1, <3>1 DEF SendPrepare, Exported
  <2>2. CASE SendPromote(w)
    <3>1. job[w].items \subseteq Transcript
      BY <1>2, <2>2 DEF SendPromote, MemoryInvariant, ExportsHold, HoldsOnly
    <3>2. job' = [job EXCEPT ![w].stage = "promote", ![w].items = job[w].items]
      BY <1>1, <2>2 DEF SendPromote, Goes, JobType
    <3> QED BY <1>2, <1>3, <2>2, <3>1, <3>2 DEF SendPromote
  <2>3. CASE SendPurge(w)
    <3>1. job[w].items = {}
      BY <1>2, <2>3 DEF SendPurge
    <3>2. job' = [job EXCEPT ![w].stage = "purge", ![w].items = {}]
      BY <1>1, <2>3, <3>1 DEF SendPurge, Goes, JobType
    <3> QED BY <2>3, <3>2 DEF SendPurge
  <2> QED BY <2>1, <2>2, <2>3
<1>5. /\ job' \in JobType
      /\ job'[w].stage = what /\ job'[w].items = items /\ job'[w].event = job[w].event
      /\ \A v \in Deliveries \ {w} : job'[v] = job[v]
  BY <1>1, <1>4 DEF JobType, Stages
<1>6. requests' \subseteq RequestType
  BY <1>1, <1>3, <1>4 DEF Request, RequestType
<1>7. Transcript' = Transcript
  BY <1>1 DEF Transcript, Item
<1>8. HoldsOnly(w)'
  BY <1>4, <1>5, <1>7 DEF HoldsOnly
<1>9. JobsFit' /\ ExportsHold'
  BY <1>1, <1>2, <1>4, <1>5, <1>8, DeliveryStep
<1> QED BY <1>1, <1>5, <1>6, <1>9 DEF MemoryInvariant, Shape, JobType, RequestType

\* A delivery ends, with or without a write to its event.
LEMMA EndKeeps ==
  ASSUME MemoryInvariant, NEW w \in Deliveries,
         SkipPromote(w) \/ Settle(w) \/ Fail(w) \/ Die(w)
  PROVE  MemoryInvariant'
<1>1. outbox \in Seq(EventRecord) /\ job \in JobType
  BY DEF MemoryInvariant, Shape, JobType
<1>2. job' = [job EXCEPT ![w] = Idle] /\ UNCHANGED <<turn, requests>> /\ job[w].stage # "idle"
  BY DEF SkipPromote, Settle, Fail, Die, mainVars, chatVars, At
<1>3. Carries(outbox, outbox')
  <2>1. CASE outbox' = outbox
    BY <1>1, <2>1, SameCarries
  <2>2. ASSUME NEW status \in {"delivered", "retry"}, outbox' = Settled(w, status), HoldsLease(w)
        PROVE  Carries(outbox, outbox')
    <3> DEFINE e == job[w].event
    <3>1. e \in 1..Len(outbox) /\ Len(outbox) \in Nat
      BY <1>2 DEF MemoryInvariant, Shape, JobsFit, Events
    <3>2. outbox[e] \in EventRecord /\ outbox[e].status = "processing"
      BY <1>1, <2>2, <3>1 DEF HoldsLease
    <3>3. outbox' = [outbox EXCEPT ![e] = [@ EXCEPT !.status = status, !.lease = NoDelivery]]
      BY <2>2 DEF Settled
    <3>4. [outbox[e] EXCEPT !.status = status, !.lease = NoDelivery] \in EventRecord
      BY <3>2 DEF EventRecord, Statuses
    <3>5. outbox' \in Seq(EventRecord) /\ Len(outbox') = Len(outbox)
      BY <1>1, <3>1, <3>3, <3>4
    <3>6. \A d \in 1..Len(outbox) : outbox'[d].kind = outbox[d].kind
                                    /\ (outbox[d].status = "delivered" => outbox'[d] = outbox[d])
      BY <1>1, <3>1, <3>2, <3>3 DEF EventRecord
    <3> QED BY <3>1, <3>5, <3>6 DEF Carries
  <2>3. outbox' = outbox \/ \E status \in {"delivered", "retry"} :
          outbox' = Settled(w, status) /\ HoldsLease(w)
    BY DEF SkipPromote, Settle, Fail, Die, mainVars, Settled
  <2> QED BY <2>1, <2>2, <2>3
<1>4. job' \in JobType /\ job'[w] = Idle /\ \A v \in Deliveries \ {w} : job'[v] = job[v]
  BY <1>1, <1>2 DEF JobType, Idle, Stages
<1>5. HoldsOnly(w)'
  BY <1>4 DEF HoldsOnly, At, Idle
<1>6. JobsFit' /\ ExportsHold'
  BY <1>2, <1>3, <1>4, <1>5, DeliveryStep DEF Idle
<1> QED BY <1>2, <1>3, <1>4, <1>6 DEF MemoryInvariant, Shape, JobType, Carries

LEMMA ChatKeeps ==
  ASSUME MemoryInvariant, NEW r \in requests,
         ChatPrepares(r) \/ ChatPromotes(r) \/ ChatHalfPromotes(r) \/ ChatPurges(r) \/ RequestLost(r)
  PROVE  MemoryInvariant'
<1>1. UNCHANGED mainVars /\ requests' = requests \ {r}
  BY DEF ChatPrepares, ChatPromotes, ChatHalfPromotes, ChatPurges, RequestLost
<1>2. job' \in JobType /\ JobsFit' /\ ExportsHold'
  <2>1. CASE job' = job
    <3>1. Transcript' = Transcript /\ outbox' = outbox
      BY <1>1 DEF mainVars, Transcript, Item
    <3> QED BY <2>1, <3>1 DEF MemoryInvariant, Shape, JobType, JobsFit, ExportsHold, HoldsOnly,
                              At, StillDue, Events
  <2>2. CASE Answered(r, "prepared")
    BY <1>1, <2>2, AnswerStep DEF JobType
  <2>3. CASE Answered(r, "done")
    BY <1>1, <2>3, AnswerStep DEF JobType
  <2> QED BY <2>1, <2>2, <2>3 DEF ChatPrepares, ChatPromotes, ChatHalfPromotes, ChatPurges, RequestLost
<1> QED BY <1>1, <1>2 DEF MemoryInvariant, Shape, JobType, mainVars

-----------------------------------------------------------------------------
\* Theorems.

LEMMA InitHolds ==
  Init => MemoryInvariant
<1> SUFFICES ASSUME Init PROVE MemoryInvariant
  OBVIOUS
<1>1. outbox = <<>> /\ requests = {} /\ job = [w \in Deliveries |-> Idle]
      /\ turn = [t \in Turns |-> [state |-> "none", attempt |-> 0]]
  BY DEF Init
<1>2. Shape
  BY <1>1 DEF Shape, JobsFit, Idle, Stages
<1>3. ExportsHold
  BY <1>1 DEF ExportsHold, HoldsOnly, At, Idle
<1> QED BY <1>2, <1>3 DEF MemoryInvariant

LEMMA NextKeeps ==
  MemoryInvariant /\ [Next]_vars => MemoryInvariant'
<1> SUFFICES ASSUME MemoryInvariant, [Next]_vars PROVE MemoryInvariant'
  OBVIOUS
<1>1. CASE UNCHANGED vars
  BY <1>1 DEF vars, mainVars, chatVars, MemoryInvariant, Shape, JobsFit, ExportsHold, HoldsOnly,
              At, StillDue, Transcript, Item, Events
<1>2. ASSUME NEW t \in Turns, CommitSent(t) \/ CommitAgain(t) \/ EndUnsent(t) \/ Revise(t) \/ Delete(t)
      PROVE  MemoryInvariant'
  BY <1>2, CommitKeeps, WithdrawKeeps
<1>3. CASE Clear
  BY <1>3, ClearKeeps
<1>4. ASSUME NEW w \in Deliveries, NEW e \in Events, Claim(w, e) PROVE MemoryInvariant'
  BY <1>4, ClaimKeeps
<1>5. ASSUME NEW w \in Deliveries, SendPrepare(w) \/ SendPromote(w) \/ SendPurge(w)
      PROVE  MemoryInvariant'
  BY <1>5, SendKeeps
<1>6. ASSUME NEW w \in Deliveries, SkipPromote(w) \/ Settle(w) \/ Fail(w) \/ Die(w)
      PROVE  MemoryInvariant'
  BY <1>6, EndKeeps
<1>7. ASSUME NEW r \in requests,
             ChatPrepares(r) \/ ChatPromotes(r) \/ ChatHalfPromotes(r) \/ ChatPurges(r) \/ RequestLost(r)
      PROVE  MemoryInvariant'
  BY <1>7, ChatKeeps
<1> QED BY <1>1, <1>2, <1>3, <1>4, <1>5, <1>6, <1>7 DEF Next

\* Whatever deliveries are overtaken, fail or die, and however old an export is
\* when it is promoted: the transcript still says all of it while Main waits for
\* the promotion (syncCompanionMemoryFromMain).
THEOREM NothingStaleIsPromoted == Spec => []PromotionIsCurrent
<1>1. Spec => []MemoryInvariant
  BY InitHolds, NextKeeps, PTL DEF Spec
<1>2. MemoryInvariant => PromotionIsCurrent
  BY DEF MemoryInvariant, ExportsHold, HoldsOnly, PromotionIsCurrent
<1> QED BY <1>1, <1>2, PTL

\* The published version never goes back but to nothing, however late and in
\* whatever order promotions arrive (promoteRelationshipRebuild).
THEOREM VersionsAdvance == Spec => PublicationAdvances
<1> DEFINE Advances == \/ canonical' \in {canonical, NoVersion}
                       \/ canonical = NoVersion \/ canonical'.version > canonical.version
<1>1. ASSUME [Next]_vars PROVE Advances
  <2>1. ASSUME NEW r \in requests, Publishes(r), canonical' = Candidate(r)
        PROVE  Advances
    <3>1. canonical'.version = Version(r.event)
      BY <2>1 DEF Candidate
    <3> QED BY <2>1, <3>1 DEF Publishes
  <2>2. ASSUME NEW r \in requests, ChatPromotes(r) \/ ChatHalfPromotes(r)
        PROVE  Advances
    BY <2>1, <2>2 DEF ChatPromotes, ChatHalfPromotes
  <2>3. ASSUME NEW r \in requests, ChatPurges(r)
        PROVE  Advances
    BY <2>3 DEF ChatPurges
  <2>4. CASE UNCHANGED canonical
    BY <2>4
  <2>5. \/ UNCHANGED canonical
        \/ \E r \in requests : ChatPromotes(r) \/ ChatHalfPromotes(r) \/ ChatPurges(r)
    BY <1>1 DEF Next, vars, chatVars, mainVars, CommitSent, CommitAgain, EndUnsent, Revise, Delete,
                Clear, Claim, SendPrepare, SendPromote, SkipPromote, SendPurge, Settle, Fail, Die,
                ChatPrepares, RequestLost
  <2> QED BY <2>2, <2>3, <2>4, <2>5
<1> QED BY <1>1, PTL DEF Spec, PublicationAdvances
=============================================================================
