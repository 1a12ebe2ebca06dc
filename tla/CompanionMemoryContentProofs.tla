-------------------- MODULE CompanionMemoryContentProofs --------------------
(***************************************************************************)
(* Proofs about what the published memory says, for any number of Turns,   *)
(* attempts, events and deliveries: nothing that was withdrawn, and        *)
(* everything that was said when nothing is left to deliver.               *)
(***************************************************************************)
EXTENDS CompanionMemoryProofs, FiniteSetTheorems

-----------------------------------------------------------------------------
\* Versions.

VersionIn(box, e) == Cardinality({d \in 1..e : box[d].kind # "purge"})

LEMMA VersionCounts ==
  ASSUME NEW box, NEW e \in Nat
  PROVE  /\ IsFiniteSet({d \in 1..e : box[d].kind # "purge"})
         /\ VersionIn(box, e) \in Nat
         /\ VersionIn(box, e) <= e
<1> DEFINE D == {d \in 1..e : box[d].kind # "purge"}
<1>1. IsFiniteSet(1..e) /\ Cardinality(1..e) = e
  BY FS_Interval
<1>2. D \subseteq 1..e
  OBVIOUS
<1>3. IsFiniteSet(D) /\ Cardinality(D) <= Cardinality(1..e)
  BY <1>1, <1>2, FS_Subset
<1>4. Cardinality(D) \in Nat
  BY <1>3, FS_CardinalityType
<1> QED BY <1>1, <1>3, <1>4 DEF VersionIn

\* Later events have no smaller version, and those that are not purges a
\* larger one.
LEMMA VersionOrder ==
  ASSUME NEW box, NEW d \in Nat, NEW e \in Nat
  PROVE  /\ d <= e => VersionIn(box, d) <= VersionIn(box, e)
         /\ d < e /\ box[e].kind # "purge" => VersionIn(box, d) < VersionIn(box, e)
<1> DEFINE D(n) == {c \in 1..n : box[c].kind # "purge"}
<1>1. /\ IsFiniteSet(D(d)) /\ IsFiniteSet(D(e))
      /\ Cardinality(D(d)) \in Nat /\ Cardinality(D(e)) \in Nat
  BY VersionCounts DEF VersionIn
<1>2. ASSUME d <= e PROVE Cardinality(D(d)) <= Cardinality(D(e))
  <2>1. D(d) \subseteq D(e)
    BY <1>2
  <2> QED BY <1>1, <2>1, FS_Subset
<1>3. ASSUME d < e, box[e].kind # "purge" PROVE Cardinality(D(d)) < Cardinality(D(e))
  <2>1. D(d) \cup {e} \subseteq D(e) /\ e \notin D(d)
    BY <1>3
  <2>2. Cardinality(D(d) \cup {e}) = Cardinality(D(d)) + 1
    BY <1>1, <2>1, FS_AddElement
  <2>3. Cardinality(D(d) \cup {e}) <= Cardinality(D(e))
    BY <1>1, <2>1, FS_Subset
  <2> QED BY <1>1, <2>2, <2>3
<1> QED BY <1>2, <1>3 DEF VersionIn

\* An event that is not a purge has a version of its own.
LEMMA VersionPositive ==
  ASSUME NEW box, NEW e \in Nat \ {0}, box[e].kind # "purge"
  PROVE  VersionIn(box, e) >= 1
<1>1. VersionIn(box, 0) \in Nat /\ VersionIn(box, e) \in Nat
  BY VersionCounts
<1>2. VersionIn(box, 0) < VersionIn(box, e)
  BY VersionOrder
<1> QED BY <1>1, <1>2

LEMMA VersionKept ==
  ASSUME NEW old \in Seq(EventRecord), NEW new, Carries(old, new), NEW e \in 0..Len(old)
  PROVE  VersionIn(new, e) = VersionIn(old, e)
<1>1. \A d \in 1..e : new[d].kind = old[d].kind
  BY DEF Carries
<1>2. {d \in 1..e : new[d].kind # "purge"} = {d \in 1..e : old[d].kind # "purge"}
  BY <1>1
<1> QED BY <1>2 DEF VersionIn

-----------------------------------------------------------------------------
\* How a step changes the outbox.

\* At most one event is new; it is of one of these kinds and pending.  No old
\* event becomes pending.
Adds(kinds) ==
  /\ Carries(outbox, outbox')
  /\ \/ Len(outbox') = Len(outbox)
     \/ /\ Len(outbox') = Len(outbox) + 1
        /\ outbox'[Len(outbox) + 1].kind \in kinds
  /\ \A e \in Events : outbox'[e].status = "pending" => outbox[e].status = "pending"

LEMMA SupersededAdds ==
  ASSUME outbox \in Seq(EventRecord), NEW kinds
  PROVE  /\ Len(Superseded(kinds)) = Len(outbox)
         /\ Superseded(kinds) \in Seq(EventRecord)
         /\ \A e \in Events : Superseded(kinds)[e].status = "pending" => outbox[e].status = "pending"
<1>1. Len(outbox) \in Nat /\ \A e \in Events : outbox[e] \in EventRecord
  BY DEF Events
<1>2. Superseded(kinds) \in [1..Len(outbox) -> EventRecord]
  BY <1>1 DEF Superseded, Events, EventRecord, Statuses
<1>3. Superseded(kinds) \in Seq(EventRecord) /\ Len(Superseded(kinds)) = Len(outbox)
  BY <1>1, <1>2
<1>4. ASSUME NEW e \in Events, Superseded(kinds)[e].status = "pending"
      PROVE  outbox[e].status = "pending"
  <2>1. CASE e \in Undelivered(kinds)
    <3>1. Superseded(kinds)[e] = [outbox[e] EXCEPT !.status = "delivered", !.lease = NoDelivery]
      BY <2>1 DEF Superseded
    <3>2. Superseded(kinds)[e].status = "delivered"
      BY <1>1, <3>1 DEF EventRecord
    <3> QED BY <1>4, <3>2
  <2>2. CASE e \notin Undelivered(kinds)
    BY <1>4, <2>2 DEF Superseded
  <2> QED BY <2>1, <2>2
<1> QED BY <1>3, <1>4

LEMMA AppendAdds ==
  ASSUME outbox \in Seq(EventRecord), NEW mid \in Seq(EventRecord), Len(mid) = Len(outbox),
         \A e \in Events : mid[e].status = "pending" => outbox[e].status = "pending",
         NEW kind \in Kinds, outbox' = Append(mid, Event(kind)), Carries(outbox, outbox')
  PROVE  /\ Adds({kind})
         /\ Len(outbox') = Len(outbox) + 1
         /\ outbox'[Len(outbox) + 1].kind = kind
         /\ outbox'[Len(outbox) + 1].status = "pending"
<1>1. Event(kind) \in EventRecord /\ Event(kind).kind = kind /\ Event(kind).status = "pending"
  BY DEF Event, EventRecord, Statuses
<1>2. /\ Len(outbox) \in Nat
      /\ Len(outbox') = Len(outbox) + 1 /\ outbox'[Len(outbox) + 1] = Event(kind)
      /\ \A e \in 1..Len(outbox) : outbox'[e] = mid[e]
  BY <1>1
<1> QED BY <1>1, <1>2 DEF Adds, Events

LEMMA ScheduleAdds ==
  ASSUME outbox \in Seq(EventRecord)
  PROVE  /\ ScheduleProjection => Adds({"project"})
         /\ ScheduleRebuild => /\ Adds({"rebuild"})
                               /\ Len(outbox') = Len(outbox) + 1
                               /\ outbox'[Len(outbox) + 1].kind = "rebuild"
                               /\ outbox'[Len(outbox) + 1].status = "pending"
         /\ SchedulePurge => /\ Adds({"purge"})
                             /\ Undelivered({"purge"})' # {}
<1>1. \A k \in {"project", "rebuild", "purge"} : k \in Kinds
  BY DEF Kinds
<1>2. ASSUME ScheduleProjection PROVE Adds({"project"})
  <2>1. CASE outbox' = outbox
    BY <2>1, SameCarries DEF Adds
  <2>2. CASE outbox' = Append(outbox, Event("project"))
    BY <1>1, <1>2, <2>2, AppendAdds, ScheduleCarries
  <2> QED BY <1>2, <2>1, <2>2 DEF ScheduleProjection
<1>3. ASSUME ScheduleRebuild
      PROVE  /\ Adds({"rebuild"})
             /\ Len(outbox') = Len(outbox) + 1
             /\ outbox'[Len(outbox) + 1].kind = "rebuild"
             /\ outbox'[Len(outbox) + 1].status = "pending"
  <2>1. outbox' = Append(Superseded({"project"}), Event("rebuild")) /\ Carries(outbox, outbox')
    BY <1>3, ScheduleCarries DEF ScheduleRebuild
  <2> QED BY <1>1, <2>1, SupersededAdds, AppendAdds
<1>4. ASSUME SchedulePurge
      PROVE  Adds({"purge"}) /\ Undelivered({"purge"})' # {}
  <2> DEFINE mid == Superseded({"project", "rebuild"})
  <2>1. Carries(outbox, outbox') /\ Len(outbox) \in Nat
    BY <1>4, ScheduleCarries
  <2>2. CASE Undelivered({"purge"}) # {} /\ outbox' = mid
    <3>1. Adds({"purge"})
      BY <2>1, <2>2, SupersededAdds DEF Adds
    <3>2. PICK e \in Events : outbox[e].kind = "purge" /\ outbox[e].status # "delivered"
      BY <2>2 DEF Undelivered
    <3>3. e \notin Undelivered({"project", "rebuild"})
      BY <3>2 DEF Undelivered
    <3>4. outbox'[e] = outbox[e]
      BY <2>2, <3>3 DEF Superseded
    <3>5. e \in Events'
      BY <2>2, SupersededAdds DEF Events
    <3> QED BY <3>1, <3>2, <3>4, <3>5 DEF Undelivered
  <2>3. CASE outbox' = Append(mid, Event("purge"))
    <3>1. /\ Adds({"purge"})
          /\ Len(outbox') = Len(outbox) + 1
          /\ outbox'[Len(outbox) + 1].kind = "purge"
          /\ outbox'[Len(outbox) + 1].status = "pending"
      BY <1>1, <2>1, <2>3, SupersededAdds, AppendAdds
    <3>2. Len(outbox) + 1 \in Events'
      BY <2>1, <3>1 DEF Events
    <3> QED BY <3>1, <3>2 DEF Undelivered
  <2> QED BY <1>4, <2>2, <2>3 DEF SchedulePurge
<1> QED BY <1>2, <1>3, <1>4
-----------------------------------------------------------------------------
\* Deliveries and their requests.

\* A delivery has one request at most; while it is not idle it waits for that
\* one.  Purges, and only they, are requested for purge events.
RequestsFit ==
  \A r \in requests :
    /\ r.event \in Events
    /\ r.what = "purge" <=> outbox[r.event].kind = "purge"
    /\ r.what = "purge" => r.items = {}
    /\ job[r.by].stage # "idle" => /\ job[r.by].stage = r.what
                                   /\ job[r.by].event = r.event
                                   /\ job[r.by].items = r.items
    /\ \A q \in requests : q.by = r.by => q = r

StagesFit ==
  \A w \in Deliveries :
    /\ At(w, "purge") => outbox[job[w].event].kind = "purge"
    /\ job[w].stage \in {"prepare", "prepared", "promote"} => outbox[job[w].event].kind # "purge"

WorkFits == MemoryInvariant /\ RequestsFit /\ StagesFit

LEMMA WorkTypes ==
  ASSUME MemoryInvariant
  PROVE  /\ outbox \in Seq(EventRecord) /\ Len(outbox) \in Nat /\ Events = 1..Len(outbox)
         /\ job \in JobType /\ requests \subseteq RequestType /\ turn \in TurnType
         /\ \A w \in Deliveries : job[w].stage # "idle" => job[w].event \in Events
         /\ \A e \in Events : e \in Nat /\ outbox[e] \in EventRecord
<1>1. outbox \in Seq(EventRecord) /\ Len(outbox) \in Nat /\ Events = 1..Len(outbox)
  BY DEF MemoryInvariant, Shape, Events
<1> QED BY <1>1 DEF MemoryInvariant, Shape, JobType, RequestType, TurnType, JobsFit

LEMMA EventsKept ==
  ASSUME MemoryInvariant, Carries(outbox, outbox')
  PROVE  Events \subseteq Events' /\ \A e \in Events : outbox'[e].kind = outbox[e].kind
<1>1. Len(outbox) \in Nat /\ Len(outbox') \in Nat /\ Len(outbox') >= Len(outbox)
  BY WorkTypes DEF Carries
<1> QED BY <1>1 DEF Carries, Events

\* Neither deliveries nor requests change.
LEMMA WorkRests ==
  ASSUME WorkFits, Carries(outbox, outbox'), job' = job, requests' = requests
  PROVE  RequestsFit' /\ StagesFit'
<1>1. MemoryInvariant /\ RequestsFit /\ StagesFit
  BY DEF WorkFits
<1>2. Events \subseteq Events' /\ \A e \in Events : outbox'[e].kind = outbox[e].kind
  BY <1>1, EventsKept
<1>3. RequestsFit'
  BY <1>1, <1>2 DEF RequestsFit
<1>4. StagesFit'
  <2>1. \A w \in Deliveries : job[w].stage # "idle" => job[w].event \in Events
    BY <1>1, WorkTypes
  <2> QED BY <1>1, <1>2, <2>1 DEF StagesFit, At
<1> QED BY <1>3, <1>4

\* One delivery is given work, or ends; it has no request then, or is idle.
LEMMA WorkTurnsOver ==
  ASSUME WorkFits, Carries(outbox, outbox'), NEW w \in Deliveries,
         \A v \in Deliveries \ {w} : job'[v] = job[v], requests' = requests,
         job'[w].stage \in {"idle", "claimed"},
         job'[w].stage = "idle" \/ \A r \in requests : r.by # w
  PROVE  RequestsFit' /\ StagesFit'
<1>1. MemoryInvariant /\ RequestsFit /\ StagesFit
  BY DEF WorkFits
<1>2. Events \subseteq Events' /\ \A e \in Events : outbox'[e].kind = outbox[e].kind
  BY <1>1, EventsKept
<1>3. requests \subseteq RequestType /\ \A v \in Deliveries : job[v].stage # "idle" => job[v].event \in Events
  BY <1>1, WorkTypes
<1>4. RequestsFit'
  <2> SUFFICES ASSUME NEW r \in requests
               PROVE  /\ r.event \in Events'
                      /\ r.what = "purge" <=> outbox'[r.event].kind = "purge"
                      /\ r.what = "purge" => r.items = {}
                      /\ job'[r.by].stage # "idle" => /\ job'[r.by].stage = r.what
                                                      /\ job'[r.by].event = r.event
                                                      /\ job'[r.by].items = r.items
                      /\ \A q \in requests : q.by = r.by => q = r
    BY DEF RequestsFit
  <2>1. r.by \in Deliveries
    BY <1>3 DEF RequestType
  <2>2. job'[r.by].stage # "idle" => job'[r.by] = job[r.by]
    BY <2>1
  <2> QED BY <1>1, <1>2, <2>2 DEF RequestsFit
<1>5. StagesFit'
  <2> SUFFICES ASSUME NEW v \in Deliveries
               PROVE  /\ job'[v].stage = "purge" => outbox'[job'[v].event].kind = "purge"
                      /\ job'[v].stage \in {"prepare", "prepared", "promote"} =>
                           outbox'[job'[v].event].kind # "purge"
    BY DEF StagesFit, At
  <2>1. CASE v = w
    BY <2>1
  <2>2. CASE v # w
    <3>1. job'[v] = job[v]
      BY <2>2
    <3> QED BY <1>1, <1>2, <1>3, <3>1 DEF StagesFit, At
  <2> QED BY <2>1, <2>2
<1> QED BY <1>4, <1>5

\* What a request of a delivery does to the delivery and to Chat's mail.
Sends(w, what, items) ==
  /\ UNCHANGED <<turn, cleared, outbox, canonical, candidates>>
  /\ requests' = requests \cup {Request(w, what, items)}
  /\ job'[w].stage = what /\ job'[w].event = job[w].event /\ job'[w].items = items
  /\ \A v \in Deliveries \ {w} : job'[v] = job[v]
  /\ job[w].stage \in {"claimed", "prepared"}
  /\ what \in {"prepare", "promote", "purge"}
  /\ what = "purge" <=> outbox[job[w].event].kind = "purge"
  /\ what = "purge" => items = {}
  /\ job[w].event \in Events

LEMMA SendShape ==
  ASSUME WorkFits, NEW w \in Deliveries
  PROVE  /\ SendPrepare(w) => Sends(w, "prepare", Transcript)
         /\ SendPromote(w) => Sends(w, "promote", job[w].items) /\ At(w, "prepared") /\ StillDue(w)
         /\ SendPurge(w) => Sends(w, "purge", {})
<1>1. MemoryInvariant /\ StagesFit /\ JobsFit
  BY DEF WorkFits, MemoryInvariant, Shape
<1>2. job \in JobType /\ (job[w].stage # "idle" => job[w].event \in Events)
  BY <1>1, WorkTypes
<1>3. ASSUME SendPrepare(w) PROVE Sends(w, "prepare", Transcript)
  <2>1. job' = [job EXCEPT ![w].stage = "prepare", ![w].items = Transcript]
    BY <1>3 DEF SendPrepare, Exported
  <2>2. /\ job'[w].stage = "prepare" /\ job'[w].event = job[w].event /\ job'[w].items = Transcript
        /\ \A v \in Deliveries \ {w} : job'[v] = job[v]
    BY <1>2, <2>1 DEF JobType
  <2> QED BY <1>2, <1>3, <2>2 DEF SendPrepare, Exported, Sends, mainVars, At
<1>4. ASSUME SendPromote(w)
      PROVE  Sends(w, "promote", job[w].items) /\ At(w, "prepared") /\ StillDue(w)
  <2>1. job' = [job EXCEPT ![w].stage = "promote"] /\ At(w, "prepared") /\ StillDue(w)
    BY <1>4 DEF SendPromote, Goes
  <2>2. /\ job'[w].stage = "promote" /\ job'[w].event = job[w].event /\ job'[w].items = job[w].items
        /\ \A v \in Deliveries \ {w} : job'[v] = job[v]
    BY <1>2, <2>1 DEF JobType
  <2>3. outbox[job[w].event].kind # "purge"
    BY <1>1, <2>1 DEF StagesFit, At
  <2> QED BY <1>2, <1>4, <2>1, <2>2, <2>3 DEF SendPromote, Sends, mainVars, At
<1>5. ASSUME SendPurge(w) PROVE Sends(w, "purge", {})
  <2>1. job' = [job EXCEPT ![w].stage = "purge"] /\ At(w, "claimed")
    BY <1>5 DEF SendPurge, Goes
  <2>2. /\ job'[w].stage = "purge" /\ job'[w].event = job[w].event /\ job'[w].items = job[w].items
        /\ \A v \in Deliveries \ {w} : job'[v] = job[v]
    BY <1>2, <2>1 DEF JobType
  <2>3. job[w].items = {}
    BY <1>1, <2>1 DEF JobsFit, At
  <2> QED BY <1>2, <1>5, <2>1, <2>2, <2>3 DEF SendPurge, Sends, mainVars, At
<1> QED BY <1>3, <1>4, <1>5

LEMMA WorkIsSent ==
  ASSUME WorkFits, NEW w \in Deliveries, NEW what, NEW items, Sends(w, what, items)
  PROVE  RequestsFit' /\ StagesFit'
<1>1. MemoryInvariant /\ RequestsFit /\ StagesFit /\ outbox' = outbox /\ Events' = Events
  BY DEF WorkFits, Sends, Events
<1>2. requests \subseteq RequestType
  BY <1>1, WorkTypes
<1> DEFINE new == Request(w, what, items)
<1>3. /\ new.what = what /\ new.event = job[w].event /\ new.by = w /\ new.items = items
  BY DEF Request
<1>4. \A r \in requests : r.by # w /\ r.by \in Deliveries /\ job'[r.by] = job[r.by]
  <2> SUFFICES ASSUME NEW r \in requests PROVE r.by # w /\ r.by \in Deliveries /\ job'[r.by] = job[r.by]
    OBVIOUS
  <2>1. r.what \in {"prepare", "promote", "purge"} /\ r.by \in Deliveries
    BY <1>2 DEF RequestType
  <2>2. r.by # w
    BY <1>1, <2>1 DEF RequestsFit, Sends
  <2> QED BY <2>1, <2>2 DEF Sends
<1>5. RequestsFit'
  <2> SUFFICES ASSUME NEW r \in requests \cup {new}
               PROVE  /\ r.event \in Events
                      /\ r.what = "purge" <=> outbox[r.event].kind = "purge"
                      /\ r.what = "purge" => r.items = {}
                      /\ job'[r.by].stage # "idle" => /\ job'[r.by].stage = r.what
                                                      /\ job'[r.by].event = r.event
                                                      /\ job'[r.by].items = r.items
                      /\ \A q \in requests \cup {new} : q.by = r.by => q = r
    BY <1>1 DEF RequestsFit, Sends
  <2>1. CASE r = new
    BY <1>3, <1>4, <2>1 DEF Sends
  <2>2. CASE r \in requests
    <3>1. r.by # w /\ job'[r.by] = job[r.by]
      BY <1>4, <2>2
    <3> QED BY <1>1, <1>3, <2>2, <3>1 DEF RequestsFit
  <2> QED BY <2>1, <2>2
<1>6. StagesFit'
  <2> SUFFICES ASSUME NEW v \in Deliveries
               PROVE  /\ job'[v].stage = "purge" => outbox[job'[v].event].kind = "purge"
                      /\ job'[v].stage \in {"prepare", "prepared", "promote"} =>
                           outbox[job'[v].event].kind # "purge"
    BY <1>1 DEF StagesFit, At
  <2>1. CASE v = w
    BY <2>1 DEF Sends
  <2>2. CASE v # w
    <3>1. job'[v] = job[v]
      BY <2>2 DEF Sends
    <3> QED BY <1>1, <3>1 DEF StagesFit, At
  <2> QED BY <2>1, <2>2
<1> QED BY <1>5, <1>6

\* A request leaves the mail; the delivery that waits for it may go on.
LEMMA WorkIsAnswered ==
  ASSUME WorkFits, NEW r \in requests, requests' = requests \ {r}, outbox' = outbox,
         job' = job \/ \E stage \in {"prepared", "done"} :
                         At(r.by, r.what) /\ Goes(r.by, stage)
                         /\ (stage = "prepared" => r.what = "prepare")
  PROVE  RequestsFit' /\ StagesFit'
<1>1. MemoryInvariant /\ RequestsFit /\ StagesFit /\ Events' = Events
  BY DEF WorkFits, Events
<1>2. requests \subseteq RequestType /\ job \in JobType /\ r.by \in Deliveries
  BY <1>1, WorkTypes DEF RequestType
<1>3. CASE job' = job
  <2>1. RequestsFit'
    BY <1>1, <1>3 DEF RequestsFit
  <2>2. StagesFit'
    BY <1>1, <1>3 DEF StagesFit, At
  <2> QED BY <2>1, <2>2
<1>4. ASSUME NEW stage \in {"prepared", "done"}, At(r.by, r.what), Goes(r.by, stage),
             stage = "prepared" => r.what = "prepare"
      PROVE  RequestsFit' /\ StagesFit'
  <2>1. /\ job'[r.by].stage = stage /\ job'[r.by].event = job[r.by].event
        /\ \A v \in Deliveries \ {r.by} : job'[v] = job[v]
    BY <1>2, <1>4 DEF Goes, JobType
  <2>2. \A q \in requests' : q \in requests /\ q.by # r.by /\ job'[q.by] = job[q.by]
    BY <1>1, <1>2, <2>1 DEF RequestsFit, RequestType
  <2>3. RequestsFit'
    BY <1>1, <2>2 DEF RequestsFit
  <2>4. StagesFit'
    <3> SUFFICES ASSUME NEW v \in Deliveries
                 PROVE  /\ job'[v].stage = "purge" => outbox[job'[v].event].kind = "purge"
                        /\ job'[v].stage \in {"prepare", "prepared", "promote"} =>
                             outbox[job'[v].event].kind # "purge"
      BY <1>1 DEF StagesFit, At
    <3>1. CASE v = r.by
      <4>1. stage = "prepared" => outbox[job[v].event].kind # "purge"
        BY <1>1, <1>2, <1>4, <3>1 DEF StagesFit, At
      <4> QED BY <2>1, <3>1, <4>1
    <3>2. CASE v # r.by
      BY <1>1, <2>1, <3>2 DEF StagesFit, At
    <3> QED BY <3>1, <3>2
  <2> QED BY <2>3, <2>4
<1> QED BY <1>3, <1>4
-----------------------------------------------------------------------------
\* What there is of memory: every export that is on its way, waits as a
\* candidate, or is published.

Exporting(w) ==
  /\ job[w].stage \in {"prepare", "prepared", "promote", "done"}
  /\ outbox[job[w].event].kind # "purge"

JobExport(w) == [version |-> VersionIn(outbox, job[w].event), items |-> job[w].items]
RequestExport(r) == [version |-> VersionIn(outbox, r.event), items |-> r.items]
Says(c) == [version |-> c.version, items |-> c.items]
Mailed == {r \in requests : r.what # "purge"}

Exports ==
  {JobExport(w) : w \in {v \in Deliveries : Exporting(v)}}
  \cup {RequestExport(r) : r \in Mailed}
  \cup {Says(c) : c \in candidates}
  \cup {Says(c) : c \in {canonical} \ {NoVersion}}

LEMMA InExports ==
  ASSUME NEW x
  PROVE  /\ x \in Exports <=>
              \/ \E w \in Deliveries : Exporting(w) /\ x = JobExport(w)
              \/ \E r \in requests : r.what # "purge" /\ x = RequestExport(r)
              \/ \E c \in candidates : x = Says(c)
              \/ canonical # NoVersion /\ x = Says(canonical)
         /\ x \in Exports' <=>
              \/ \E w \in Deliveries : Exporting(w)' /\ x = JobExport(w)'
              \/ \E r \in requests' : r.what # "purge" /\ x = RequestExport(r)'
              \/ \E c \in candidates' : x = Says(c)
              \/ canonical' # NoVersion /\ x = Says(canonical')
  BY DEF Exports, Mailed, Says

\* An export of an event that was there keeps its version.
LEMMA ExportsKept ==
  ASSUME WorkFits, Carries(outbox, outbox')
  PROVE  /\ \A w \in Deliveries : Exporting(w) /\ job'[w] = job[w] =>
              Exporting(w)' /\ JobExport(w)' = JobExport(w)
         /\ \A w \in Deliveries : Exporting(w)' /\ job'[w] = job[w] =>
              Exporting(w) /\ JobExport(w)' = JobExport(w)
         /\ \A r \in requests : RequestExport(r)' = RequestExport(r)
<1>1. MemoryInvariant /\ RequestsFit /\ outbox \in Seq(EventRecord) /\ Len(outbox) \in Nat
      /\ Events = 1..Len(outbox)
  BY WorkTypes DEF WorkFits
<1>2. \A e \in Events : VersionIn(outbox', e) = VersionIn(outbox, e) /\ outbox'[e].kind = outbox[e].kind
  BY <1>1, VersionKept, EventsKept
<1>3. \A w \in Deliveries : job[w].stage # "idle" => job[w].event \in Events
  BY <1>1, WorkTypes
<1>4. ASSUME NEW w \in Deliveries, Exporting(w), job'[w] = job[w]
      PROVE  Exporting(w)' /\ JobExport(w)' = JobExport(w)
  BY <1>2, <1>3, <1>4 DEF Exporting, JobExport
<1>5. ASSUME NEW w \in Deliveries, Exporting(w)', job'[w] = job[w]
      PROVE  Exporting(w) /\ JobExport(w)' = JobExport(w)
  BY <1>2, <1>3, <1>5 DEF Exporting, JobExport
<1>6. ASSUME NEW r \in requests PROVE RequestExport(r)' = RequestExport(r)
  <2>1. r.event \in Events
    BY <1>1 DEF RequestsFit
  <2> QED BY <1>2, <2>1 DEF RequestExport
<1> QED BY <1>4, <1>5, <1>6

LEMMA ExportsRest ==
  ASSUME WorkFits, Carries(outbox, outbox'), UNCHANGED <<job, chatVars>>
  PROVE  Exports' = Exports
<1>1. requests' = requests /\ candidates' = candidates /\ canonical' = canonical /\ job' = job
  BY DEF chatVars
<1>2. ASSUME NEW x PROVE x \in Exports' <=> x \in Exports
  BY <1>1, ExportsKept, InExports
<1> QED BY <1>2

LEMMA ExportsTurnOver ==
  ASSUME WorkFits, Carries(outbox, outbox'), NEW w \in Deliveries,
         \A v \in Deliveries \ {w} : job'[v] = job[v], UNCHANGED chatVars,
         job'[w].stage \in {"idle", "claimed"}
  PROVE  Exports' \subseteq Exports
<1>1. requests' = requests /\ candidates' = candidates /\ canonical' = canonical
  BY DEF chatVars
<1>2. \A v \in Deliveries : Exporting(v)' => v # w
  BY DEF Exporting
<1>3. ASSUME NEW x \in Exports' PROVE x \in Exports
  BY <1>1, <1>2, ExportsKept, InExports
<1> QED BY <1>3

LEMMA ExportsSent ==
  ASSUME WorkFits, NEW w \in Deliveries, NEW what, NEW items, Sends(w, what, items)
  PROVE  /\ what = "prepare" => Exports' \subseteq Exports \cup
              {[version |-> VersionIn(outbox, job[w].event), items |-> items]}
         /\ what = "promote" /\ At(w, "prepared") /\ items = job[w].items => Exports' \subseteq Exports
         /\ what = "purge" => Exports' \subseteq Exports
<1> DEFINE new == [version |-> VersionIn(outbox, job[w].event), items |-> items]
<1>1. /\ outbox' = outbox /\ candidates' = candidates /\ canonical' = canonical
      /\ requests' = requests \cup {Request(w, what, items)}
      /\ \A v \in Deliveries \ {w} : job'[v] = job[v]
  BY DEF Sends
<1>2. Carries(outbox, outbox')
  BY <1>1, SameCarries, WorkTypes DEF WorkFits
<1>3. Exporting(w)' /\ what # "purge" => JobExport(w)' = new
  BY <1>1 DEF JobExport, Sends
<1>4. what = "purge" => ~Exporting(w)'
  BY <1>1 DEF Exporting, Sends
<1>5. ASSUME NEW x \in Exports' PROVE x \in Exports \/ (what # "purge" /\ x = new)
  <2>1. CASE \E v \in Deliveries : Exporting(v)' /\ x = JobExport(v)'
    <3>1. PICK v \in Deliveries : Exporting(v)' /\ x = JobExport(v)'
      BY <2>1
    <3>2. CASE v = w
      BY <1>3, <1>4, <3>1, <3>2
    <3>3. CASE v # w
      BY <1>1, <1>2, <3>1, <3>3, ExportsKept, InExports
    <3> QED BY <3>2, <3>3
  <2>2. CASE \E r \in requests' : r.what # "purge" /\ x = RequestExport(r)'
    <3>1. PICK r \in requests' : r.what # "purge" /\ x = RequestExport(r)'
      BY <2>2
    <3>2. CASE r = Request(w, what, items)
      <4>1. r.what = what /\ r.event = job[w].event /\ r.items = items
        BY <3>2 DEF Request
      <4> QED BY <1>1, <3>1, <4>1 DEF RequestExport
    <3>3. CASE r \in requests
      BY <1>2, <3>1, <3>3, ExportsKept, InExports
    <3> QED BY <1>1, <3>1, <3>2, <3>3
  <2>3. CASE (\E c \in candidates' : x = Says(c)) \/ (canonical' # NoVersion /\ x = Says(canonical'))
    BY <1>1, <2>3, InExports
  <2> QED BY <2>1, <2>2, <2>3, InExports
<1>6. ASSUME what = "promote", At(w, "prepared"), items = job[w].items
      PROVE  new \in Exports
  <2>1. Exporting(w)
    BY <1>6 DEF Exporting, At, Sends
  <2>2. new = JobExport(w)
    BY <1>6 DEF JobExport
  <2> QED BY <2>1, <2>2, InExports
<1> QED BY <1>5, <1>6

\* What Chat does when it carries out a request, or loses it.
MadeOf(r) == [version |-> VersionIn(outbox, r.event), by |-> r.by, items |-> r.items]

\* The published memory has taken the event in.
Shown(e) == canonical # NoVersion /\ canonical.version >= VersionIn(outbox, e)

Takes(r) ==
  /\ UNCHANGED mainVars
  /\ requests' = requests \ {r}
  /\ job' = job \/ \E stage \in {"prepared", "done"} :
                     /\ At(r.by, r.what) /\ Goes(r.by, stage)
                     /\ stage = "prepared" => r.what = "prepare"
                     /\ stage = "done" => r.what # "prepare" /\ candidates' = {}
                     /\ stage = "done" /\ r.what = "promote" => Shown(r.event)'
                     /\ stage = "done" /\ r.what = "purge" => canonical' = NoVersion
  /\ candidates' \subseteq candidates \/ (r.what = "prepare" /\ candidates' = candidates \cup {MadeOf(r)})
  /\ \/ canonical' = canonical
     \/ canonical' = NoVersion /\ r.what = "purge"
     \/ /\ canonical' = MadeOf(r) /\ MadeOf(r) \in candidates /\ r.what = "promote"
        /\ canonical # NoVersion => canonical.version < MadeOf(r).version

LEMMA MadeOfIs ==
  \A r : Candidate(r) = MadeOf(r)
BY DEF Candidate, MadeOf, Version, VersionIn

LEMMA MadeIsSomething ==
  ASSUME MemoryInvariant, NEW r \in requests
  PROVE  MadeOf(r) # NoVersion
<1>1. r.event \in Nat /\ r.by \in Deliveries /\ r.items \subseteq Turns \X Nat
  BY WorkTypes DEF RequestType
<1>2. VersionIn(outbox, r.event) \in Nat
  BY <1>1, VersionCounts
<1>3. MadeOf(r) \in [version : Nat, by : Deliveries, items : SUBSET (Turns \X Nat)]
  BY <1>1, <1>2 DEF MadeOf
<1> QED BY <1>3, CompanionMemoryAssumption

CandidateType == [version : Nat, by : Deliveries, items : SUBSET (Turns \X Nat)]

ChatFits ==
  /\ canonical = NoVersion \/ canonical \in CandidateType
  /\ candidates \subseteq CandidateType

LEMMA TakesShape ==
  ASSUME MemoryInvariant, ChatFits, NEW r \in requests,
         ChatPrepares(r) \/ ChatPromotes(r) \/ ChatHalfPromotes(r) \/ ChatPurges(r) \/ RequestLost(r)
  PROVE  Takes(r)
<1> DEFINE m == MadeOf(r)
<1>1. /\ m # NoVersion /\ Candidate(r) = m /\ m.version = VersionIn(outbox, r.event)
      /\ Version(r.event) = VersionIn(outbox, r.event)
  BY MadeOfIs, MadeIsSomething DEF MadeOf, Version, VersionIn
<1>2. m.version \in Nat
  BY <1>1, VersionCounts, WorkTypes DEF RequestType
<1> HIDE DEF m
<1>3. CASE ChatPrepares(r)
  <2>1. /\ UNCHANGED mainVars /\ requests' = requests \ {r} /\ canonical' = canonical
        /\ r.what = "prepare" /\ candidates' = candidates \cup {m}
        /\ job' = job \/ (At(r.by, r.what) /\ Goes(r.by, "prepared"))
    BY <1>1, <1>3 DEF ChatPrepares, Answered
  <2> QED BY <2>1 DEF Takes, m
<1>4. CASE ChatPromotes(r)
  <2>1. /\ UNCHANGED mainVars /\ requests' = requests \ {r} /\ candidates' = {}
        /\ r.what = "promote"
        /\ job' = job \/ (At(r.by, r.what) /\ Goes(r.by, "done"))
    BY <1>4 DEF ChatPromotes, Answered
  <2>2. outbox' = outbox
    BY <2>1 DEF mainVars
  <2>3. CASE Publishes(r)
    <3>1. /\ canonical' = m /\ m \in candidates
          /\ canonical # NoVersion => canonical.version < m.version
      BY <1>1, <1>4, <2>3 DEF ChatPromotes, Publishes
    <3>2. Shown(r.event)'
      BY <1>1, <1>2, <2>2, <3>1 DEF Shown
    <3> QED BY <2>1, <3>1, <3>2 DEF Takes, m
  <2>4. CASE ~Publishes(r)
    <3>1. canonical' = canonical
      BY <1>4, <2>4 DEF ChatPromotes
    <3>2. canonical = m \/ (canonical # NoVersion /\ ~(canonical.version < m.version))
      BY <1>1, <1>4, <2>4 DEF ChatPromotes, Publishes
    <3>3. canonical # NoVersion /\ canonical.version \in Nat
      BY <1>1, <3>2 DEF ChatFits, CandidateType
    <3>4. Shown(r.event)'
      BY <1>1, <1>2, <2>2, <3>1, <3>2, <3>3 DEF Shown
    <3> QED BY <2>1, <3>1, <3>4 DEF Takes
  <2> QED BY <2>3, <2>4
<1>5. CASE ChatHalfPromotes(r)
  <2>1. /\ UNCHANGED mainVars /\ requests' = requests \ {r} /\ job' = job /\ candidates' = candidates
        /\ r.what = "promote" /\ canonical' = m /\ m \in candidates
        /\ canonical # NoVersion => canonical.version < m.version
    BY <1>1, <1>5 DEF ChatHalfPromotes, Publishes
  <2> QED BY <2>1 DEF Takes, m
<1>6. CASE ChatPurges(r)
  <2>1. /\ UNCHANGED mainVars /\ requests' = requests \ {r} /\ candidates' = {}
        /\ r.what = "purge" /\ canonical' = NoVersion
        /\ job' = job \/ (At(r.by, r.what) /\ Goes(r.by, "done"))
    BY <1>6 DEF ChatPurges, Answered
  <2> QED BY <2>1 DEF Takes
<1>7. CASE RequestLost(r)
  BY <1>7 DEF RequestLost, Takes
<1> QED BY <1>3, <1>4, <1>5, <1>6, <1>7

LEMMA ChatFitsKept ==
  ASSUME WorkFits, ChatFits,
         UNCHANGED <<canonical, candidates>> \/ \E r \in requests : Takes(r)
  PROVE  ChatFits'
<1>1. CASE UNCHANGED <<canonical, candidates>>
  BY <1>1 DEF ChatFits
<1>2. ASSUME NEW r \in requests, Takes(r) PROVE ChatFits'
  <2>1. r.event \in Nat /\ r.by \in Deliveries /\ r.items \subseteq Turns \X Nat
    BY WorkTypes DEF RequestType, WorkFits
  <2>2. MadeOf(r) \in CandidateType
    BY <2>1, VersionCounts DEF MadeOf, CandidateType
  <2> QED BY <1>2, <2>2 DEF Takes, ChatFits
<1> QED BY <1>1, <1>2

LEMMA ExportsTaken ==
  ASSUME WorkFits, NEW r \in requests, Takes(r)
  PROVE  Exports' \subseteq Exports
<1>1. /\ MemoryInvariant /\ RequestsFit /\ StagesFit
      /\ outbox' = outbox /\ requests' \subseteq requests
  BY DEF WorkFits, Takes, mainVars
<1>2. Carries(outbox, outbox') /\ job \in JobType /\ requests \subseteq RequestType
  BY <1>1, SameCarries, WorkTypes
<1>3. r.what # "purge" => Says(MadeOf(r)) \in Exports
  <2>1. Says(MadeOf(r)) = RequestExport(r)
    BY DEF Says, MadeOf, RequestExport
  <2> QED BY <2>1, InExports
<1>4. \A v \in Deliveries : Exporting(v)' => \/ job'[v] = job[v]
                                             \/ Exporting(v) /\ JobExport(v)' = JobExport(v)
  <2>1. CASE job' = job
    BY <2>1
  <2>2. ASSUME NEW stage \in {"prepared", "done"}, At(r.by, r.what), Goes(r.by, stage),
               NEW v \in Deliveries, Exporting(v)', job'[v] # job[v]
        PROVE  Exporting(v) /\ JobExport(v)' = JobExport(v)
    <3>1. v = r.by /\ job'[v].event = job[v].event /\ job'[v].items = job[v].items
      BY <1>2, <2>2 DEF Goes, JobType
    <3>2. r.what \in {"prepare", "promote", "purge"} /\ job[v].stage = r.what
      BY <1>2, <2>2, <3>1 DEF RequestType, At
    <3>3. outbox[job[v].event].kind # "purge"
      BY <1>1, <2>2, <3>1 DEF Exporting
    <3>4. r.what # "purge"
      BY <1>1, <3>2, <3>3 DEF StagesFit, At
    <3> QED BY <1>1, <3>1, <3>2, <3>3, <3>4 DEF Exporting, JobExport
  <2> QED BY <2>1, <2>2 DEF Takes
<1>5. ASSUME NEW x \in Exports' PROVE x \in Exports
  <2>1. CASE \E v \in Deliveries : Exporting(v)' /\ x = JobExport(v)'
    BY <1>2, <1>4, <2>1, ExportsKept, InExports
  <2>2. CASE \E q \in requests' : q.what # "purge" /\ x = RequestExport(q)'
    BY <1>1, <1>2, <2>2, ExportsKept, InExports
  <2>3. CASE \E c \in candidates' : x = Says(c)
    <3>1. PICK c \in candidates' : x = Says(c)
      BY <2>3
    <3>2. c \in candidates \/ (r.what = "prepare" /\ c = MadeOf(r))
      BY <3>1 DEF Takes
    <3> QED BY <1>3, <3>1, <3>2, InExports
  <2>4. CASE canonical' # NoVersion /\ x = Says(canonical')
    <3>1. canonical' = canonical \/ (canonical' = MadeOf(r) /\ r.what # "purge")
      BY <2>4 DEF Takes
    <3> QED BY <1>3, <2>4, <3>1, InExports
  <2> QED BY <2>1, <2>2, <2>3, <2>4, InExports
<1> QED BY <1>5
-----------------------------------------------------------------------------
\* Every step is of one of five shapes; Sends and Takes are two of them.

\* Main changes the transcript and clears nothing: what is new has a projection
\* that nobody has attempted.
Tells ==
  /\ cleared' = cleared
  /\ \A e \in Events : outbox'[e].status = "delivered" => outbox[e].status = "delivered"
  /\ \/ Transcript' = Transcript
     \/ \E e \in Events' : outbox'[e].kind = "project" /\ outbox'[e].status = "pending"

\* Main changes the transcript, withdrawing nothing but what a clear withdraws.
Commits ==
  /\ UNCHANGED <<job, chatVars>>
  /\ Adds({"project", "purge"})
  /\ Transcript \cup cleared \subseteq Transcript' \cup cleared'
  /\ Destructive' = {} => Destructive = {}
  /\ Tells \/ Undelivered({"purge"})' # {}

\* Main withdraws a Turn: a rebuild is the only event left.
Withdraws ==
  /\ UNCHANGED <<job, chatVars, cleared>>
  /\ Adds({"rebuild"})
  /\ Len(outbox') = Len(outbox) + 1
  /\ outbox'[Len(outbox) + 1].kind = "rebuild" /\ outbox'[Len(outbox) + 1].status = "pending"
  /\ \A e \in Events : outbox'[e].status = "delivered"

\* A delivery claims an event, or ends.
TurnsOver(w) ==
  /\ UNCHANGED <<turn, cleared, chatVars>>
  /\ Adds({}) /\ Len(outbox') = Len(outbox)
  /\ \A v \in Deliveries \ {w} : job'[v] = job[v]
  /\ \/ job'[w] = Idle
     \/ /\ job'[w].stage = "claimed" /\ job'[w].event \in Events /\ job'[w].items = {}
        /\ \A r \in requests : r.by # w
        /\ outbox'[job'[w].event].status # "pending"
        /\ \A d \in Undelivered(Lane(outbox[job'[w].event].kind)) : d >= job'[w].event
  /\ \A e \in Events : outbox'[e].status = "delivered" =>
       \/ outbox[e].status = "delivered"
       \/ At(w, "done") /\ e = job[w].event

LEMMA KindsAre ==
  Kinds = {"project", "purge"} \cup {"rebuild"}
BY DEF Kinds

\* An event that was left to deliver and is not is delivered.
LEMMA DestructiveKept ==
  ASSUME MemoryInvariant, Carries(outbox, outbox'), Destructive' = {}, NEW e \in Destructive
  PROVE  e \in Events /\ outbox[e].status # "delivered" /\ outbox'[e].status = "delivered"
<1>1. e \in Events /\ outbox[e].status # "delivered" /\ outbox[e].kind \in {"rebuild", "purge"}
  BY DEF Destructive, Undelivered
<1>2. e \in Events' /\ outbox'[e].kind = outbox[e].kind
  BY <1>1, EventsKept
<1> QED BY <1>1, <1>2 DEF Destructive, Undelivered

LEMMA CommitShape ==
  ASSUME MemoryInvariant, NEW t \in Turns, CommitSent(t) \/ CommitAgain(t) \/ EndUnsent(t)
  PROVE  Commits
<1>1. outbox \in Seq(EventRecord) /\ turn \in TurnType /\ Shape /\ Len(outbox) \in Nat /\ Events = 1..Len(outbox)
  BY WorkTypes DEF MemoryInvariant
<1>2. UNCHANGED <<job, chatVars, cleared>> /\ (ScheduleProjection \/ outbox' = outbox)
  BY DEF CommitSent, CommitAgain, EndUnsent
<1>3. Adds({"project", "purge"})
  <2>1. CASE outbox' = outbox
    BY <1>1, <2>1, SameCarries DEF Adds
  <2>2. CASE ScheduleProjection
    BY <1>1, <2>2, ScheduleAdds DEF Adds
  <2> QED BY <1>2, <2>1, <2>2
<1>4. Transcript \subseteq Transcript'
  <2>1. CASE turn' = turn
    BY <2>1 DEF Transcript, Item
  <2>2. ASSUME NEW state, NEW attempt, turn[t].state # "sent", Becomes(t, state, attempt)
        PROVE  Transcript \subseteq Transcript'
    <3>1. \A u \in Turns \ {t} : turn'[u] = turn[u]
      BY <1>1, <2>2 DEF Becomes, TurnType
    <3> QED BY <1>1, <2>2, <3>1, BecomesGrows
  <2>3. turn' = turn \/ (turn[t].state # "sent" /\ \E state, attempt : Becomes(t, state, attempt))
    BY DEF CommitSent, CommitAgain, EndUnsent
  <2> QED BY <2>1, <2>2, <2>3
<1>5. Event("project") \in EventRecord /\ Event("project").kind = "project" /\ Event("project").status = "pending"
  BY DEF Event, EventRecord, Kinds, Statuses
<1>6. ASSUME NEW e \in Events PROVE outbox'[e] = outbox[e]
  <2>1. CASE outbox' = outbox
    BY <2>1
  <2>2. CASE outbox' = Append(outbox, Event("project"))
    BY <1>1, <1>5, <2>2
  <2> QED BY <1>2, <2>1, <2>2 DEF ScheduleProjection
<1>7. ASSUME Destructive' = {}, NEW e \in Destructive PROVE FALSE
  <2>1. e \in Events /\ outbox[e].status # "delivered" /\ outbox'[e].status = "delivered"
    BY <1>3, <1>7, DestructiveKept DEF Adds
  <2> QED BY <1>6, <2>1
<1>8. Transcript' = Transcript \/ \E e \in Events' : outbox'[e].kind = "project" /\ outbox'[e].status = "pending"
  <2>1. CASE CommitAgain(t)
    BY <2>1 DEF CommitAgain, Transcript, Item
  <2>2. CASE EndUnsent(t)
    <3>1. turn'[t].state # "sent" /\ turn[t].state # "sent" /\ \A u \in Turns \ {t} : turn'[u] = turn[u]
      BY <1>1, <2>2 DEF EndUnsent, Becomes, TurnType
    <3> QED BY <3>1 DEF Transcript, Item
  <2>3. CASE ScheduleProjection
    <3>1. CASE outbox' = outbox /\ \E e \in Events : Absorbs(e)
      BY <3>1 DEF Absorbs, Events
    <3>2. CASE outbox' = Append(outbox, Event("project"))
      <4>1. Len(outbox') = Len(outbox) + 1 /\ outbox'[Len(outbox) + 1] = Event("project")
        BY <1>1, <1>5, <3>2
      <4>2. Len(outbox) + 1 \in Events'
        BY <1>1, <4>1 DEF Events
      <4> QED BY <1>5, <4>1, <4>2
    <3> QED BY <2>3, <3>1, <3>2 DEF ScheduleProjection
  <2> QED BY <2>1, <2>2, <2>3 DEF CommitSent
<1>9. Tells
  BY <1>2, <1>6, <1>8 DEF Tells
<1> QED BY <1>2, <1>3, <1>4, <1>7, <1>9 DEF Commits

LEMMA ClearShape ==
  ASSUME MemoryInvariant, Clear
  PROVE  Commits
<1>1. outbox \in Seq(EventRecord)
  BY WorkTypes
<1>2. UNCHANGED <<job, chatVars>> /\ SchedulePurge /\ cleared' = cleared \cup Transcript
  BY Zenon DEF Clear
<1>3. Adds({"purge"}) /\ Undelivered({"purge"})' # {}
  BY <1>1, <1>2, ScheduleAdds
<1>4. Adds({"project", "purge"})
  BY <1>3 DEF Adds
<1>5. Destructive' # {}
  BY <1>3 DEF Destructive, Undelivered
<1> QED BY <1>2, <1>3, <1>4, <1>5 DEF Commits

LEMMA WithdrawShape ==
  ASSUME MemoryInvariant, NEW t \in Turns, Revise(t) \/ Delete(t)
  PROVE  Withdraws /\ Destructive = {}
<1>1. outbox \in Seq(EventRecord) /\ Shape
  BY WorkTypes DEF MemoryInvariant
<1>2. Destructive = {} /\ ScheduleRebuild /\ UNCHANGED <<job, chatVars, cleared>>
  BY DEF Revise, Delete
<1>3. Carries(outbox, outbox') /\ Silences({"project"}, outbox, outbox')
  BY <1>1, <1>2, ScheduleCarries
<1>4. ASSUME NEW e \in Events PROVE outbox'[e].status = "delivered"
  <2>1. outbox[e].kind \in {"project", "rebuild", "purge"}
    BY <1>1, EventKinds
  <2>2. CASE outbox[e].kind = "project"
    BY <1>3, <2>2 DEF Silences, Events
  <2>3. CASE outbox[e].kind # "project"
    <3>1. outbox[e].status = "delivered"
      BY <1>2, <2>1, <2>3 DEF Destructive, Undelivered
    <3> QED BY <1>3, <3>1 DEF Carries, Events
  <2> QED BY <2>2, <2>3
<1> QED BY <1>1, <1>2, <1>4, ScheduleAdds DEF Withdraws

LEMMA ClaimShape ==
  ASSUME MemoryInvariant, NEW w \in Deliveries, NEW e \in Events, Claim(w, e)
  PROVE  TurnsOver(w)
<1>1. outbox \in Seq(EventRecord) /\ job \in JobType /\ Len(outbox) \in Nat /\ Events = 1..Len(outbox)
      /\ \A d \in Events : outbox[d] \in EventRecord
  BY WorkTypes
<1>2. /\ outbox' = [outbox EXCEPT ![e] = [outbox[e] EXCEPT !.status = "processing", !.lease = w]]
      /\ job' = [job EXCEPT ![w] = [event |-> e, stage |-> "claimed", items |-> {}]]
      /\ outbox[e].status # "delivered" /\ UNCHANGED <<turn, cleared, chatVars>>
      /\ \A d \in Undelivered(Lane(outbox[e].kind)) : d >= e
      /\ \A r \in requests : r.by # w
  BY DEF Claim, Claimable
<1>3. [outbox[e] EXCEPT !.status = "processing", !.lease = w] \in EventRecord
      /\ [outbox[e] EXCEPT !.status = "processing", !.lease = w].status = "processing"
      /\ [outbox[e] EXCEPT !.status = "processing", !.lease = w].kind = outbox[e].kind
  BY <1>1 DEF EventRecord, Statuses
<1>4. outbox' \in Seq(EventRecord) /\ Len(outbox') = Len(outbox)
  BY <1>1, <1>2, <1>3
<1>5. \A d \in Events : /\ d # e => outbox'[d] = outbox[d]
                        /\ outbox'[e].status = "processing" /\ outbox'[d].kind = outbox[d].kind
  BY <1>1, <1>2, <1>3
<1>6. Carries(outbox, outbox')
  BY <1>1, <1>2, <1>4, <1>5 DEF Carries
<1>7. Adds({})
  BY <1>4, <1>5, <1>6 DEF Adds
<1>8. job'[w] = [event |-> e, stage |-> "claimed", items |-> {}]
      /\ \A v \in Deliveries \ {w} : job'[v] = job[v]
  BY <1>1, <1>2 DEF JobType
<1> QED BY <1>2, <1>4, <1>5, <1>7, <1>8 DEF TurnsOver

LEMMA EndShape ==
  ASSUME MemoryInvariant, NEW w \in Deliveries, SkipPromote(w) \/ Settle(w) \/ Fail(w) \/ Die(w)
  PROVE  TurnsOver(w)
<1>1. outbox \in Seq(EventRecord) /\ job \in JobType /\ Len(outbox) \in Nat /\ Events = 1..Len(outbox)
      /\ \A d \in Events : outbox[d] \in EventRecord
  BY WorkTypes
<1>2. job' = [job EXCEPT ![w] = Idle] /\ UNCHANGED <<turn, cleared, chatVars>> /\ job[w].stage # "idle"
  BY DEF SkipPromote, Settle, Fail, Die, mainVars, At
<1>3. job'[w] = Idle /\ \A v \in Deliveries \ {w} : job'[v] = job[v]
  BY <1>1, <1>2 DEF JobType
<1>4. CASE outbox' = outbox
  <2>1. Adds({})
    BY <1>1, <1>4, SameCarries DEF Adds
  <2> QED BY <1>2, <1>3, <1>4, <2>1 DEF TurnsOver
<1>5. ASSUME NEW status \in {"delivered", "retry"}, outbox' = Settled(w, status), HoldsLease(w),
             status = "delivered" => At(w, "done")
      PROVE  TurnsOver(w)
  <2> DEFINE e == job[w].event
  <2>1. e \in Events
    BY <1>2, WorkTypes
  <2>2. outbox' = [outbox EXCEPT ![e] = [outbox[e] EXCEPT !.status = status, !.lease = NoDelivery]]
        /\ outbox[e].status = "processing"
    BY <1>5 DEF Settled, HoldsLease
  <2>3. LET new == [outbox[e] EXCEPT !.status = status, !.lease = NoDelivery] IN
          new \in EventRecord /\ new.status = status /\ new.kind = outbox[e].kind
    BY <1>1, <2>1 DEF EventRecord, Statuses
  <2> HIDE DEF e
  <2>4. outbox' \in Seq(EventRecord) /\ Len(outbox') = Len(outbox)
    BY <1>1, <2>1, <2>2, <2>3
  <2>5. \A d \in Events : /\ d # e => outbox'[d] = outbox[d]
                          /\ outbox'[e].status = status /\ outbox'[d].kind = outbox[d].kind
    BY <1>1, <2>1, <2>2, <2>3
  <2>6. Carries(outbox, outbox')
    BY <1>1, <2>2, <2>4, <2>5 DEF Carries
  <2>7. Adds({})
    BY <2>4, <2>5, <2>6 DEF Adds
  <2>8. \A d \in Events : outbox'[d].status = "delivered" =>
          outbox[d].status = "delivered" \/ (At(w, "done") /\ d = job[w].event)
    BY <1>5, <2>5 DEF e
  <2> QED BY <1>2, <1>3, <2>4, <2>7, <2>8 DEF TurnsOver
<1>6. \/ outbox' = outbox
      \/ \E status \in {"delivered", "retry"} : /\ outbox' = Settled(w, status) /\ HoldsLease(w)
                                                /\ status = "delivered" => At(w, "done")
  <2>1. CASE SkipPromote(w) \/ Die(w)
    BY <2>1 DEF SkipPromote, Die, mainVars
  <2>2. CASE Settle(w)
    BY <2>2 DEF Settle, Settled
  <2>3. CASE Fail(w)
    BY <2>3 DEF Fail, Settled
  <2> QED BY <2>1, <2>2, <2>3
<1> QED BY <1>4, <1>5, <1>6

LEMMA StepShapes ==
  ASSUME WorkFits, ChatFits, [Next]_vars
  PROVE  \/ Commits
         \/ Withdraws
         \/ \E w \in Deliveries : \/ TurnsOver(w)
                                  \/ Sends(w, "prepare", Transcript)
                                  \/ Sends(w, "promote", job[w].items) /\ At(w, "prepared") /\ StillDue(w)
                                  \/ Sends(w, "purge", {})
         \/ \E r \in requests : Takes(r)
<1>1. MemoryInvariant
  BY DEF WorkFits
<1>2. CASE UNCHANGED vars
  <2>1. UNCHANGED <<job, chatVars, cleared, outbox, turn>>
    BY <1>2 DEF vars, mainVars
  <2>2. Adds({"project", "purge"})
    BY <1>1, <2>1, SameCarries, WorkTypes DEF Adds
  <2>3. Transcript' = Transcript /\ Destructive' = Destructive
    BY <2>1 DEF Transcript, Item, Destructive, Undelivered, Events
  <2>4. Tells
    BY <2>1, <2>3 DEF Tells
  <2> QED BY <2>1, <2>2, <2>3, <2>4 DEF Commits
<1>3. CASE \E t \in Turns : CommitSent(t) \/ CommitAgain(t) \/ EndUnsent(t)
  BY <1>1, <1>3, CommitShape
<1>4. CASE \E t \in Turns : Revise(t) \/ Delete(t)
  BY <1>1, <1>4, WithdrawShape
<1>5. CASE Clear
  BY <1>1, <1>5, ClearShape
<1>6. CASE \E w \in Deliveries : \/ \E e \in Events : Claim(w, e)
                                 \/ SkipPromote(w) \/ Settle(w) \/ Fail(w) \/ Die(w)
  BY <1>1, <1>6, ClaimShape, EndShape
<1>7. CASE \E w \in Deliveries : SendPrepare(w) \/ SendPromote(w) \/ SendPurge(w)
  BY <1>7, SendShape
<1>8. CASE \E r \in requests : \/ ChatPrepares(r) \/ ChatPromotes(r) \/ ChatHalfPromotes(r)
                               \/ ChatPurges(r) \/ RequestLost(r)
  BY <1>1, <1>8, TakesShape
<1> QED BY <1>2, <1>3, <1>4, <1>5, <1>6, <1>7, <1>8 DEF Next
LEMMA FitsKept ==
  WorkFits /\ ChatFits /\ [Next]_vars => WorkFits' /\ ChatFits'
<1> SUFFICES ASSUME WorkFits, ChatFits, [Next]_vars PROVE WorkFits' /\ ChatFits'
  OBVIOUS
<1>1. MemoryInvariant'
  BY NextKeeps DEF WorkFits
<1>2. CASE Commits \/ Withdraws
  <2>1. Carries(outbox, outbox') /\ job' = job /\ requests' = requests
        /\ UNCHANGED <<canonical, candidates>>
    BY <1>2 DEF Commits, Withdraws, Adds, chatVars
  <2> QED BY <1>1, <2>1, WorkRests, ChatFitsKept DEF WorkFits
<1>3. ASSUME NEW w \in Deliveries, TurnsOver(w) PROVE WorkFits' /\ ChatFits'
  <2>1. Carries(outbox, outbox') /\ requests' = requests /\ UNCHANGED <<canonical, candidates>>
        /\ (\A v \in Deliveries \ {w} : job'[v] = job[v])
    BY <1>3 DEF TurnsOver, Adds, chatVars
  <2>2. /\ job'[w].stage \in {"idle", "claimed"}
        /\ job'[w].stage = "idle" \/ \A r \in requests : r.by # w
    BY <1>3 DEF TurnsOver, Idle
  <2> QED BY <1>1, <2>1, <2>2, WorkTurnsOver, ChatFitsKept DEF WorkFits
<1>4. ASSUME NEW w \in Deliveries, NEW what, NEW items, Sends(w, what, items)
      PROVE  WorkFits' /\ ChatFits'
  <2>1. UNCHANGED <<canonical, candidates>>
    BY <1>4 DEF Sends
  <2> QED BY <1>1, <1>4, <2>1, WorkIsSent, ChatFitsKept DEF WorkFits
<1>5. ASSUME NEW r \in requests, Takes(r) PROVE WorkFits' /\ ChatFits'
  <2>1. outbox' = outbox /\ requests' = requests \ {r}
    BY <1>5 DEF Takes, mainVars
  <2>2. job' = job \/ \E stage \in {"prepared", "done"} :
                         At(r.by, r.what) /\ Goes(r.by, stage)
                         /\ (stage = "prepared" => r.what = "prepare")
    BY <1>5 DEF Takes
  <2>3. RequestsFit' /\ StagesFit'
    BY <2>1, <2>2, WorkIsAnswered
  <2> QED BY <1>1, <1>5, <2>3, ChatFitsKept DEF WorkFits
<1> QED BY <1>2, <1>3, <1>4, <1>5, StepShapes

-----------------------------------------------------------------------------
\* Rebuilds, and the versions that are not older than any of them.

FreshIn(box, v) ==
  \A e \in 1..Len(box) : box[e].kind = "rebuild" => v >= VersionIn(box, e)

\* All that came before a rebuild is delivered, or was superseded by it.
RebuildsWait ==
  \A e \in Events : outbox[e].kind = "rebuild" =>
    \A d \in 1..(e - 1) : outbox[d].status = "delivered"

LEMMA AddsOne ==
  ASSUME MemoryInvariant, NEW kinds, Adds(kinds)
  PROVE  /\ Len(outbox) \in Nat /\ Len(outbox') \in Nat
         /\ Carries(outbox, outbox')
         /\ \A e \in 1..Len(outbox) : /\ outbox'[e].kind = outbox[e].kind
                                      /\ VersionIn(outbox', e) = VersionIn(outbox, e)
         /\ \A e \in 1..Len(outbox') \ 1..Len(outbox) :
              e = Len(outbox) + 1 /\ outbox'[e].kind \in kinds /\ Len(outbox') = e
         /\ VersionIn(outbox', Len(outbox')) >= VersionIn(outbox, Len(outbox))
<1>1. outbox \in Seq(EventRecord) /\ Len(outbox) \in Nat /\ Carries(outbox, outbox') /\ Events = 1..Len(outbox)
  BY WorkTypes DEF Adds
<1>2. Len(outbox') \in Nat /\ Len(outbox') >= Len(outbox)
  BY <1>1 DEF Adds
<1>3. \A e \in 1..Len(outbox) : /\ outbox'[e].kind = outbox[e].kind
                                /\ VersionIn(outbox', e) = VersionIn(outbox, e)
  BY <1>1, EventsKept, VersionKept
<1>4. VersionIn(outbox', Len(outbox)) = VersionIn(outbox, Len(outbox))
  BY <1>1, VersionKept
<1>5. VersionIn(outbox', Len(outbox')) >= VersionIn(outbox', Len(outbox))
  <2>1. /\ VersionIn(outbox', Len(outbox)) <= VersionIn(outbox', Len(outbox'))
        /\ VersionIn(outbox', Len(outbox)) \in Nat /\ VersionIn(outbox', Len(outbox')) \in Nat
    BY <1>1, <1>2, VersionOrder, VersionCounts
  <2> QED BY <2>1
<1>6. \A e \in 1..Len(outbox') \ 1..Len(outbox) :
        e = Len(outbox) + 1 /\ outbox'[e].kind \in kinds /\ Len(outbox') = e
  BY <1>1, <1>2 DEF Adds
<1> QED BY <1>1, <1>2, <1>3, <1>4, <1>5, <1>6

LEMMA FreshKept ==
  ASSUME MemoryInvariant, NEW kinds, "rebuild" \notin kinds, Adds(kinds), NEW v
  PROVE  FreshIn(outbox', v) <=> FreshIn(outbox, v)
<1>1. /\ Len(outbox) \in Nat /\ Len(outbox') \in Nat /\ Len(outbox') >= Len(outbox)
      /\ \A e \in 1..Len(outbox) : /\ outbox'[e].kind = outbox[e].kind
                                   /\ VersionIn(outbox', e) = VersionIn(outbox, e)
      /\ \A e \in 1..Len(outbox') \ 1..Len(outbox) : outbox'[e].kind \in kinds
  BY AddsOne DEF Carries
<1>2. 1..Len(outbox) \subseteq 1..Len(outbox')
  BY <1>1
<1>3. \A e \in 1..Len(outbox') \ 1..Len(outbox) : outbox'[e].kind # "rebuild"
  BY <1>1
<1> QED BY <1>1, <1>2, <1>3 DEF FreshIn

LEMMA FreshLost ==
  ASSUME MemoryInvariant, Withdraws, NEW v \in Nat, v <= VersionIn(outbox, Len(outbox))
  PROVE  ~FreshIn(outbox', v)
<1> DEFINE n == Len(outbox) + 1
<1>1. /\ Len(outbox) \in Nat /\ Len(outbox') = n /\ outbox'[n].kind = "rebuild"
      /\ outbox \in Seq(EventRecord) /\ Carries(outbox, outbox')
  BY WorkTypes DEF Withdraws, Adds
<1>2. VersionIn(outbox', Len(outbox)) < VersionIn(outbox', n)
  BY <1>1, VersionOrder
<1>3. VersionIn(outbox', Len(outbox)) = VersionIn(outbox, Len(outbox))
  BY <1>1, VersionKept
<1>4. VersionIn(outbox, Len(outbox)) \in Nat /\ VersionIn(outbox', n) \in Nat
  <2>1. Len(outbox) \in Nat /\ n \in Nat
    BY <1>1
  <2> HIDE DEF n
  <2> QED BY <2>1, VersionCounts
<1>5. n \in 1..Len(outbox')
  BY <1>1
<1>6. v < VersionIn(outbox', n)
  BY <1>2, <1>3, <1>4
<1> QED BY <1>1, <1>4, <1>5, <1>6 DEF FreshIn

\* No rebuild came after an event that is due.
LEMMA DueIsFresh ==
  ASSUME MemoryInvariant, RebuildsWait, NEW e \in Events, outbox[e].status # "delivered"
  PROVE  FreshIn(outbox, VersionIn(outbox, e))
<1>1. Len(outbox) \in Nat /\ Events = 1..Len(outbox)
  BY WorkTypes
<1> SUFFICES ASSUME NEW d \in 1..Len(outbox), outbox[d].kind = "rebuild"
             PROVE  VersionIn(outbox, e) >= VersionIn(outbox, d)
  BY DEF FreshIn
<1>2. d <= e /\ d \in Nat /\ e \in Nat
  BY <1>1 DEF RebuildsWait
<1>3. /\ VersionIn(outbox, d) <= VersionIn(outbox, e)
      /\ VersionIn(outbox, d) \in Nat /\ VersionIn(outbox, e) \in Nat
  BY <1>2, VersionOrder, VersionCounts
<1> QED BY <1>3

LEMMA OutboxSteps ==
  ASSUME WorkFits, ChatFits, [Next]_vars
  PROVE  Withdraws \/ Adds({"project", "purge"})
<1>1. outbox \in Seq(EventRecord)
  BY WorkTypes DEF WorkFits
<1>2. ASSUME outbox' = outbox PROVE Adds({"project", "purge"})
  BY <1>1, <1>2, SameCarries DEF Adds
<1>3. CASE Commits
  BY <1>3 DEF Commits
<1>4. ASSUME NEW w \in Deliveries, TurnsOver(w) PROVE Adds({"project", "purge"})
  BY <1>4 DEF TurnsOver, Adds
<1>5. ASSUME NEW w \in Deliveries, NEW what, NEW items, Sends(w, what, items)
      PROVE  Adds({"project", "purge"})
  BY <1>2, <1>5 DEF Sends
<1>6. ASSUME NEW r \in requests, Takes(r) PROVE Adds({"project", "purge"})
  BY <1>2, <1>6 DEF Takes, mainVars
<1> QED BY <1>3, <1>4, <1>5, <1>6, StepShapes

LEMMA RebuildsWaitKept ==
  ASSUME WorkFits, ChatFits, RebuildsWait, [Next]_vars
  PROVE  RebuildsWait'
<1>1. MemoryInvariant /\ Len(outbox) \in Nat /\ Events = 1..Len(outbox)
  BY WorkTypes DEF WorkFits
<1> SUFFICES ASSUME NEW e \in 1..Len(outbox'), outbox'[e].kind = "rebuild", NEW d \in 1..(e - 1)
             PROVE  outbox'[d].status = "delivered"
  BY DEF RebuildsWait, Events
<1>2. CASE Withdraws
  <2>1. Len(outbox') = Len(outbox) + 1
    BY <1>2 DEF Withdraws
  <2>2. d \in Events
    BY <1>1, <2>1
  <2> QED BY <1>2, <2>2 DEF Withdraws
<1>3. CASE Adds({"project", "purge"})
  <2>1. e \in Events /\ outbox[e].kind = "rebuild"
    BY <1>1, <1>3, AddsOne
  <2>2. d \in 1..Len(outbox) /\ outbox[d].status = "delivered"
    BY <1>1, <2>1 DEF RebuildsWait
  <2> QED BY <1>3, <2>2 DEF Adds, Carries
<1> QED BY <1>2, <1>3, OutboxSteps
-----------------------------------------------------------------------------
\* What an export that no rebuild has overtaken says is in the transcript, or
\* was cleared.

NewlyExported(w) == [version |-> VersionIn(outbox, job[w].event), items |-> Transcript]

LEMMA ExportMoves ==
  ASSUME WorkFits, ChatFits, [Next]_vars
  PROVE  \/ Exports' \subseteq Exports
         \/ \E w \in Deliveries : /\ Sends(w, "prepare", Transcript)
                                  /\ Exports' \subseteq Exports \cup {NewlyExported(w)}
<1>1. CASE Commits \/ Withdraws
  <2>1. UNCHANGED <<job, chatVars>> /\ Carries(outbox, outbox')
    BY <1>1 DEF Commits, Withdraws, Adds
  <2> QED BY <2>1, ExportsRest
<1>2. ASSUME NEW w \in Deliveries, TurnsOver(w) PROVE Exports' \subseteq Exports
  BY <1>2, ExportsTurnOver DEF TurnsOver, Adds, Idle
<1>3. ASSUME NEW w \in Deliveries, Sends(w, "prepare", Transcript)
      PROVE  Exports' \subseteq Exports \cup {NewlyExported(w)}
  BY <1>3, ExportsSent DEF NewlyExported
<1>4. ASSUME NEW w \in Deliveries, Sends(w, "promote", job[w].items), At(w, "prepared")
      PROVE  Exports' \subseteq Exports
  BY <1>4, ExportsSent
<1>5. ASSUME NEW w \in Deliveries, Sends(w, "purge", {})
      PROVE  Exports' \subseteq Exports
  BY <1>5, ExportsSent
<1>6. ASSUME NEW r \in requests, Takes(r) PROVE Exports' \subseteq Exports
  BY <1>6, ExportsTaken
<1> QED BY <1>1, <1>2, <1>3, <1>4, <1>5, <1>6, StepShapes

ExportsKnown ==
  \A x \in Exports : x.version \in Nat \ {0} /\ x.version <= VersionIn(outbox, Len(outbox))

LEMMA NewExport ==
  ASSUME WorkFits, NEW w \in Deliveries, Sends(w, "prepare", Transcript)
  PROVE  /\ job[w].event \in Events /\ outbox[job[w].event].kind # "purge"
         /\ NewlyExported(w).items = Transcript
         /\ NewlyExported(w).version = VersionIn(outbox, job[w].event)
         /\ VersionIn(outbox, job[w].event) \in Nat \ {0}
         /\ VersionIn(outbox, job[w].event) <= VersionIn(outbox, Len(outbox))
<1> DEFINE e == job[w].event
<1>1. e \in Events /\ outbox[e].kind # "purge"
  BY DEF Sends
<1>2. e \in Nat \ {0} /\ e <= Len(outbox) /\ Len(outbox) \in Nat
  BY <1>1, WorkTypes DEF WorkFits
<1>3. NewlyExported(w).items = Transcript /\ NewlyExported(w).version = VersionIn(outbox, e)
  BY DEF NewlyExported
<1> HIDE DEF e
<1>4. VersionIn(outbox, e) \in Nat /\ VersionIn(outbox, e) >= 1
  BY <1>1, <1>2, VersionCounts, VersionPositive
<1>5. VersionIn(outbox, e) <= VersionIn(outbox, Len(outbox))
  BY <1>2, VersionOrder
<1> QED BY <1>1, <1>3, <1>4, <1>5 DEF e

LEMMA ExportsKnownKept ==
  ASSUME WorkFits, ChatFits, ExportsKnown, [Next]_vars
  PROVE  ExportsKnown'
<1>1. MemoryInvariant /\ Len(outbox) \in Nat
  BY WorkTypes DEF WorkFits
<1>2. /\ VersionIn(outbox', Len(outbox')) >= VersionIn(outbox, Len(outbox))
      /\ VersionIn(outbox', Len(outbox')) \in Nat /\ VersionIn(outbox, Len(outbox)) \in Nat
  <2>1. \E kinds : Adds(kinds)
    BY OutboxSteps DEF Withdraws
  <2>2. Len(outbox') \in Nat /\ VersionIn(outbox', Len(outbox')) >= VersionIn(outbox, Len(outbox))
    BY <1>1, <2>1, AddsOne
  <2> QED BY <1>1, <2>2, VersionCounts
<1>3. \A x \in Exports' : x.version \in Nat \ {0} /\ x.version <= VersionIn(outbox, Len(outbox))
  BY ExportMoves, NewExport DEF ExportsKnown
<1> QED BY <1>2, <1>3 DEF ExportsKnown

FreshHolds ==
  \A x \in Exports : FreshIn(outbox, x.version) => x.items \subseteq Transcript \cup cleared

LEMMA FreshHoldsKept ==
  ASSUME WorkFits, ChatFits, ExportsKnown, FreshHolds, [Next]_vars
  PROVE  FreshHolds'
<1>1. MemoryInvariant
  BY DEF WorkFits
<1> SUFFICES ASSUME NEW x \in Exports', FreshIn(outbox', x.version)
             PROVE  x.items \subseteq Transcript' \cup cleared'
  BY DEF FreshHolds
<1>2. CASE Withdraws
  <2>1. x \in Exports
    BY <1>2, ExportsRest DEF Withdraws, Adds
  <2>2. x.version \in Nat /\ x.version <= VersionIn(outbox, Len(outbox))
    BY <2>1 DEF ExportsKnown
  <2> QED BY <1>1, <1>2, <2>2, FreshLost
<1>3. CASE ~Withdraws
  <2>1. Adds({"project", "purge"})
    BY <1>3, OutboxSteps
  <2>2. FreshIn(outbox, x.version)
    BY <1>1, <2>1, FreshKept
  <2>3. Transcript \cup cleared \subseteq Transcript' \cup cleared'
    <3>1. Commits \/ (turn' = turn /\ cleared' = cleared)
      BY <1>3, StepShapes DEF TurnsOver, Sends, Takes, mainVars
    <3>2. CASE turn' = turn /\ cleared' = cleared
      BY <3>2 DEF Transcript, Item
    <3> QED BY <3>1, <3>2 DEF Commits
  <2>4. CASE x \in Exports
    BY <2>2, <2>3, <2>4 DEF FreshHolds
  <2>5. ASSUME NEW w \in Deliveries, x = NewlyExported(w)
        PROVE  x.items = Transcript
    BY <2>5 DEF NewlyExported
  <2> QED BY <2>3, <2>4, <2>5, ExportMoves
<1> QED BY <1>2, <1>3

-----------------------------------------------------------------------------
\* Once no destructive event is left, nothing a rebuild has overtaken is
\* published or can still be.

Safe ==
  /\ canonical # NoVersion => FreshIn(outbox, canonical.version)
  /\ \A r \in requests : r.what = "promote" /\ ~FreshIn(outbox, VersionIn(outbox, r.event)) =>
       MadeOf(r) \notin candidates

SafeWhenDone ==
  \A w \in Deliveries : At(w, "done") /\ FreshIn(outbox, VersionIn(outbox, job[w].event)) => Safe

SafeWhenSettled == Destructive = {} => Safe

LEMMA SafeKept ==
  ASSUME WorkFits, ChatFits, RebuildsWait, Safe, [Next]_vars, ~Withdraws
  PROVE  Safe'
<1>1. MemoryInvariant /\ RequestsFit /\ requests \subseteq RequestType /\ Events = 1..Len(outbox)
  BY WorkTypes DEF WorkFits
<1>2. Adds({"project", "purge"})
  BY OutboxSteps
<1>3. /\ \A v : FreshIn(outbox', v) <=> FreshIn(outbox, v)
      /\ \A e \in Events : VersionIn(outbox', e) = VersionIn(outbox, e)
  BY <1>1, <1>2, FreshKept, AddsOne
<1>4. \A r \in requests : /\ r.event \in Events /\ VersionIn(outbox', r.event) = VersionIn(outbox, r.event)
                          /\ MadeOf(r)' = MadeOf(r)
  BY <1>1, <1>3 DEF RequestsFit, MadeOf
<1>5. ASSUME UNCHANGED <<canonical, candidates>>,
             \A r \in requests' : r \in requests \/ r.what # "promote"
                                  \/ FreshIn(outbox', VersionIn(outbox', r.event))
      PROVE  Safe'
  BY <1>3, <1>4, <1>5 DEF Safe
<1>6. CASE Commits \/ \E w \in Deliveries : TurnsOver(w)
  BY <1>5, <1>6 DEF Commits, TurnsOver, chatVars
<1>7. ASSUME NEW w \in Deliveries, NEW what, NEW items, Sends(w, what, items),
             what = "promote" => StillDue(w)
      PROVE  Safe'
  <2>1. /\ UNCHANGED <<outbox, canonical, candidates>> /\ job[w].event \in Events
        /\ requests' = requests \cup {Request(w, what, items)}
    BY <1>7 DEF Sends
  <2>2. what = "promote" => FreshIn(outbox, VersionIn(outbox, job[w].event))
    BY <1>1, <1>7, <2>1, DueIsFresh DEF StillDue
  <2>3. Request(w, what, items).event = job[w].event /\ Request(w, what, items).what = what
    BY DEF Request
  <2>4. ASSUME NEW r \in requests', r \notin requests, r.what = "promote"
        PROVE  FreshIn(outbox', VersionIn(outbox', r.event))
    <3>1. r = Request(w, what, items)
      BY <2>1, <2>4
    <3>2. r.event = job[w].event /\ what = "promote"
      BY <2>3, <2>4, <3>1
    <3> QED BY <2>1, <2>2, <3>2
  <2> QED BY <1>5, <2>1, <2>4
<1>8. ASSUME NEW r \in requests, Takes(r) PROVE Safe'
  <2>1. canonical' # NoVersion => FreshIn(outbox', canonical'.version)
    <3>1. CASE canonical' \in {canonical, NoVersion}
      BY <1>3, <3>1 DEF Safe
    <3>2. CASE canonical' = MadeOf(r) /\ MadeOf(r) \in candidates /\ r.what = "promote"
      <4>1. FreshIn(outbox, VersionIn(outbox, r.event))
        BY <3>2 DEF Safe
      <4>2. MadeOf(r).version = VersionIn(outbox, r.event)
        BY DEF MadeOf
      <4> QED BY <1>3, <3>2, <4>1, <4>2
    <3> QED BY <1>8, <3>1, <3>2 DEF Takes
  <2>2. ASSUME NEW q \in requests', q.what = "promote", ~FreshIn(outbox', VersionIn(outbox', q.event))
        PROVE  MadeOf(q)' \notin candidates'
    <3>1. q \in requests /\ q # r
      BY <1>8, <2>2 DEF Takes
    <3>2. MadeOf(q) \notin candidates /\ MadeOf(q)' = MadeOf(q)
      BY <1>3, <1>4, <2>2, <3>1 DEF Safe
    <3>3. MadeOf(q) # MadeOf(r)
      <4>1. q.by # r.by
        BY <1>1, <3>1 DEF RequestsFit
      <4> QED BY <4>1 DEF MadeOf
    <3>4. candidates' \subseteq candidates \cup {MadeOf(r)}
      BY <1>8 DEF Takes
    <3> QED BY <3>2, <3>3, <3>4
  <2> QED BY <2>1, <2>2 DEF Safe
<1> QED BY <1>6, <1>7, <1>8, StepShapes

\* A promotion or purge that is answered leaves nothing overtaken.
LEMMA AnswerIsSafe ==
  ASSUME WorkFits, ChatFits, NEW r \in requests, Takes(r), At(r.by, r.what),
         Goes(r.by, "done"), FreshIn(outbox, VersionIn(outbox, r.event)),
         r.what # "prepare", candidates' = {},
         r.what = "promote" => Shown(r.event)', r.what = "purge" => canonical' = NoVersion
  PROVE  Safe'
<1>1. outbox' = outbox /\ MemoryInvariant /\ Len(outbox) \in Nat
  BY WorkTypes DEF Takes, mainVars, WorkFits
<1>2. r.what \in {"promote", "purge"} /\ r.event \in Nat
  BY WorkTypes DEF WorkFits, RequestType
<1>3. ASSUME canonical' # NoVersion PROVE FreshIn(outbox, canonical'.version)
  <2>1. Shown(r.event)'
    BY <1>2, <1>3
  <2>2. canonical'.version >= VersionIn(outbox, r.event)
    BY <1>1, <2>1 DEF Shown
  <2>3. canonical'.version \in Nat
    BY <1>3, ChatFitsKept DEF ChatFits, CandidateType
  <2>4. VersionIn(outbox, r.event) \in Nat
    BY <1>2, VersionCounts
  <2>5. \A e \in 1..Len(outbox) : VersionIn(outbox, e) \in Nat
    <3> SUFFICES ASSUME NEW e \in 1..Len(outbox) PROVE VersionIn(outbox, e) \in Nat
      OBVIOUS
    <3>1. e \in Nat
      BY <1>1
    <3> QED BY <3>1, VersionCounts
  <2> QED BY <2>2, <2>3, <2>4, <2>5 DEF FreshIn
<1> QED BY <1>1, <1>3 DEF Safe

LEMMA SafeWhenDoneKept ==
  ASSUME WorkFits, ChatFits, RebuildsWait, ExportsKnown, SafeWhenDone, [Next]_vars
  PROVE  SafeWhenDone'
<1>1. MemoryInvariant /\ Events = 1..Len(outbox) /\ job \in JobType /\ Len(outbox) \in Nat
      /\ (\A w \in Deliveries : job[w].stage # "idle" => job[w].event \in Events)
  BY WorkTypes DEF WorkFits
<1> SUFFICES ASSUME NEW w \in Deliveries, job'[w].stage = "done",
                    FreshIn(outbox', VersionIn(outbox', job'[w].event))
             PROVE  Safe'
  BY DEF SafeWhenDone, At
<1>2. CASE Withdraws
  <2>1. job' = job /\ job[w].event \in Events
    BY <1>1, <1>2 DEF Withdraws
  <2> DEFINE v == VersionIn(outbox, job[w].event)
  <2>2. v \in Nat /\ v <= VersionIn(outbox, Len(outbox)) /\ VersionIn(outbox', job[w].event) = v
    <3>1. job[w].event \in Nat /\ job[w].event <= Len(outbox) /\ job[w].event \in 1..Len(outbox)
      BY <1>1, <2>1
    <3>2. VersionIn(outbox', job[w].event) = VersionIn(outbox, job[w].event)
      BY <1>1, <1>2, <3>1, AddsOne DEF Withdraws
    <3> QED BY <1>1, <3>1, <3>2, VersionCounts, VersionOrder
  <2> HIDE DEF v
  <2>3. ~FreshIn(outbox', v)
    BY <1>1, <1>2, <2>2, FreshLost
  <2> QED BY <2>1, <2>2, <2>3
<1>3. CASE ~Withdraws
  <2>1. Adds({"project", "purge"})
    BY <1>3, OutboxSteps
  <2>2. CASE job'[w] = job[w]
    <3>1. job[w].event \in Events
      BY <1>1, <2>2
    <3>2. FreshIn(outbox, VersionIn(outbox, job[w].event))
      BY <1>1, <2>1, <2>2, <3>1, FreshKept, AddsOne
    <3> QED BY <1>3, <2>2, <3>2, SafeKept DEF SafeWhenDone, At
  <2>3. CASE job'[w] # job[w]
    <3>1. PICK r \in requests : Takes(r)
      <4>1. ~Commits
        BY <2>3 DEF Commits
      <4>2. ASSUME NEW v \in Deliveries, TurnsOver(v) PROVE FALSE
        BY <2>3, <4>2 DEF TurnsOver, Idle
      <4>3. ASSUME NEW v \in Deliveries, NEW what, NEW items, Sends(v, what, items) PROVE FALSE
        BY <2>3, <4>3 DEF Sends
      <4> QED BY <1>3, <4>1, <4>2, <4>3, StepShapes
    <3>2. PICK stage \in {"prepared", "done"} :
            /\ At(r.by, r.what) /\ Goes(r.by, stage)
            /\ stage = "done" => r.what # "prepare" /\ candidates' = {}
            /\ stage = "done" /\ r.what = "promote" => Shown(r.event)'
            /\ stage = "done" /\ r.what = "purge" => canonical' = NoVersion
      BY <2>3, <3>1 DEF Takes
    <3>3. w = r.by /\ stage = "done" /\ job'[w].event = job[w].event
      BY <1>1, <2>3, <3>2 DEF Goes, JobType
    <3>4. job[w].event = r.event /\ outbox' = outbox
      <4>1. r.what \in {"prepare", "promote", "purge"}
        BY <1>1, WorkTypes DEF RequestType
      <4> QED BY <3>1, <3>2, <3>3, <4>1 DEF WorkFits, RequestsFit, At, Takes, mainVars
    <3> QED BY <3>1, <3>2, <3>3, <3>4, AnswerIsSafe
  <2> QED BY <2>2, <2>3
<1> QED BY <1>2, <1>3

LEMMA SafeWhenSettledKept ==
  ASSUME WorkFits, ChatFits, RebuildsWait, SafeWhenDone, SafeWhenSettled, [Next]_vars
  PROVE  SafeWhenSettled'
<1>1. MemoryInvariant
  BY DEF WorkFits
<1> SUFFICES ASSUME Destructive' = {} PROVE Safe'
  BY DEF SafeWhenSettled
<1>2. ~Withdraws
  <2> SUFFICES ASSUME Withdraws PROVE FALSE
    OBVIOUS
  <2> DEFINE n == Len(outbox) + 1
  <2>1. Len(outbox) \in Nat
    BY <1>1, WorkTypes
  <2>2. Len(outbox') = n /\ outbox'[n].kind = "rebuild" /\ outbox'[n].status = "pending"
    BY DEF Withdraws
  <2>3. n \in Destructive'
    BY <2>1, <2>2 DEF Destructive, Undelivered, Events
  <2> QED BY <2>3
<1>3. CASE Destructive = {}
  BY <1>2, <1>3, SafeKept DEF SafeWhenSettled
<1>4. ASSUME NEW e \in Destructive PROVE Safe'
  <2>1. Adds({"project", "purge"})
    BY <1>2, OutboxSteps
  <2>2. e \in Events /\ outbox[e].status # "delivered" /\ outbox'[e].status = "delivered"
    BY <1>1, <1>4, <2>1, DestructiveKept DEF Adds
  <2>3. ~Commits
    BY <1>4 DEF Commits
  <2>4. PICK w \in Deliveries : TurnsOver(w)
    BY <1>2, <2>2, <2>3, StepShapes DEF Sends, Takes, mainVars
  <2>5. At(w, "done") /\ e = job[w].event
    BY <2>2, <2>4 DEF TurnsOver
  <2>6. Safe
    BY <1>1, <2>2, <2>5, DueIsFresh DEF SafeWhenDone
  <2> QED BY <1>2, <2>6, SafeKept
<1> QED BY <1>3, <1>4

-----------------------------------------------------------------------------
\* Claims go in the order of the lane: a projection or rebuild that nobody has
\* attempted is later than all that is under way, and its version is not made.

LaneOrder ==
  \A e \in Events : outbox[e].kind # "purge" /\ outbox[e].status = "pending" =>
    /\ \A w \in Deliveries : job[w].stage # "idle" /\ outbox[job[w].event].kind # "purge" =>
         job[w].event < e
    /\ \A x \in Exports : x.version < VersionIn(outbox, e)

LEMMA LaneOrderMain ==
  ASSUME WorkFits, ExportsKnown, LaneOrder, Commits \/ Withdraws
  PROVE  LaneOrder'
<1>1. /\ MemoryInvariant /\ Events = 1..Len(outbox) /\ Len(outbox) \in Nat
      /\ \A w \in Deliveries : job[w].stage # "idle" => job[w].event \in Events
      /\ outbox \in Seq(EventRecord)
  BY WorkTypes DEF WorkFits
<1>2. PICK kinds : Adds(kinds)
  BY DEF Commits, Withdraws
<1>3. job' = job /\ Exports' = Exports /\ Carries(outbox, outbox')
  BY <1>2, ExportsRest DEF Commits, Withdraws, Adds
<1> SUFFICES ASSUME NEW e \in 1..Len(outbox'), outbox'[e].kind # "purge", outbox'[e].status = "pending"
             PROVE  /\ \A w \in Deliveries : job[w].stage # "idle" /\ outbox'[job[w].event].kind # "purge" =>
                         job[w].event < e
                    /\ \A x \in Exports : x.version < VersionIn(outbox', e)
  BY <1>3 DEF LaneOrder, Events
<1>4. \A d \in Events : outbox'[d].kind = outbox[d].kind /\ VersionIn(outbox', d) = VersionIn(outbox, d)
  BY <1>1, <1>2, AddsOne
<1>5. CASE e \in Events
  <2>1. outbox[e].kind # "purge" /\ outbox[e].status = "pending"
    BY <1>2, <1>4, <1>5 DEF Adds
  <2> QED BY <1>1, <1>4, <1>5, <2>1 DEF LaneOrder
<1>6. CASE e \notin Events
  <2>1. e = Len(outbox) + 1
    BY <1>1, <1>2, <1>6, AddsOne
  <2>2. VersionIn(outbox', Len(outbox)) < VersionIn(outbox', e)
    BY <1>1, <2>1, VersionOrder
  <2>3. VersionIn(outbox', Len(outbox)) = VersionIn(outbox, Len(outbox))
    BY <1>1, <1>3, VersionKept
  <2>4. VersionIn(outbox, Len(outbox)) \in Nat
    BY <1>1, VersionCounts
  <2>5. VersionIn(outbox', e) \in Nat
    <3>1. e \in Nat
      BY <1>1, <2>1
    <3> QED BY <3>1, VersionCounts
  <2>6. \A x \in Exports : x.version < VersionIn(outbox', e)
    BY <2>2, <2>3, <2>4, <2>5 DEF ExportsKnown
  <2>7. \A w \in Deliveries : job[w].stage # "idle" => job[w].event < e
    BY <1>1, <2>1
  <2> QED BY <2>6, <2>7
<1> QED BY <1>5, <1>6

LEMMA LaneOrderOver ==
  ASSUME WorkFits, LaneOrder, NEW w \in Deliveries, TurnsOver(w)
  PROVE  LaneOrder'
<1>1. /\ MemoryInvariant /\ Events = 1..Len(outbox) /\ Len(outbox) \in Nat
      /\ \A v \in Deliveries : job[v].stage # "idle" => job[v].event \in Events
  BY WorkTypes DEF WorkFits
<1>2. Exports' \subseteq Exports
  BY ExportsTurnOver DEF TurnsOver, Adds, Idle
<1>3. Adds({}) /\ Events' = Events
  BY DEF TurnsOver, Events
<1>4. \A d \in Events : outbox'[d].kind = outbox[d].kind /\ VersionIn(outbox', d) = VersionIn(outbox, d)
  BY <1>1, <1>3, AddsOne
<1> SUFFICES ASSUME NEW e \in Events, outbox'[e].kind # "purge", outbox'[e].status = "pending"
             PROVE  /\ \A v \in Deliveries : job'[v].stage # "idle" /\ outbox'[job'[v].event].kind # "purge" =>
                         job'[v].event < e
                    /\ \A x \in Exports' : x.version < VersionIn(outbox', e)
  BY <1>3 DEF LaneOrder
<1>5. outbox[e].kind # "purge" /\ outbox[e].status = "pending"
  BY <1>3, <1>4 DEF Adds
<1>6. \A x \in Exports' : x.version < VersionIn(outbox', e)
  BY <1>2, <1>4, <1>5 DEF LaneOrder
<1>7. ASSUME NEW v \in Deliveries, job'[v].stage # "idle", outbox'[job'[v].event].kind # "purge"
      PROVE  job'[v].event < e
  <2>1. CASE v # w
    <3>1. job'[v] = job[v]
      BY <2>1 DEF TurnsOver
    <3> QED BY <1>1, <1>4, <1>5, <1>7, <3>1 DEF LaneOrder
  <2>2. CASE v = w
    <3> DEFINE d == job'[w].event
    <3>1. /\ d \in Events /\ outbox'[d].status # "pending"
          /\ \A c \in Undelivered(Lane(outbox[d].kind)) : c >= d
      BY <1>7, <2>2 DEF TurnsOver, Idle
    <3> HIDE DEF d
    <3>2. outbox[d].kind \in {"project", "rebuild"} /\ outbox[e].kind \in {"project", "rebuild"}
      <4>1. outbox[d].kind # "purge"
        BY <1>4, <1>7, <2>2, <3>1 DEF d
      <4> QED BY <1>1, <1>5, <3>1, <4>1, EventKinds DEF MemoryInvariant
    <3>3. e \in Undelivered(Lane(outbox[d].kind))
      BY <1>5, <3>2 DEF Undelivered, Lane
    <3>4. e >= d /\ e # d /\ e \in Nat /\ d \in Nat
      BY <1>1, <3>1, <3>3
    <3> QED BY <2>2, <3>4 DEF d
  <2> QED BY <2>1, <2>2
<1> QED BY <1>6, <1>7

LEMMA LaneOrderChat ==
  ASSUME WorkFits, ChatFits, LaneOrder, outbox' = outbox,
         \A v \in Deliveries : job'[v].stage # "idle" => job[v].stage # "idle" /\ job'[v].event = job[v].event,
         \/ Exports' \subseteq Exports
         \/ \E w \in Deliveries : /\ Sends(w, "prepare", Transcript)
                                  /\ Exports' \subseteq Exports \cup {NewlyExported(w)}
  PROVE  LaneOrder'
<1>1. Events' = Events /\ Events = 1..Len(outbox) /\ Len(outbox) \in Nat
  BY WorkTypes DEF Events, WorkFits
<1> SUFFICES ASSUME NEW e \in Events, outbox[e].kind # "purge", outbox[e].status = "pending"
             PROVE  \A x \in Exports' : x.version < VersionIn(outbox, e)
  BY <1>1 DEF LaneOrder
<1>2. \A x \in Exports : x.version < VersionIn(outbox, e)
  BY DEF LaneOrder
<1>3. ASSUME NEW w \in Deliveries, Sends(w, "prepare", Transcript)
      PROVE  NewlyExported(w).version < VersionIn(outbox, e)
  <2> DEFINE d == job[w].event
  <2>1. d \in Events /\ outbox[d].kind # "purge" /\ NewlyExported(w).version = VersionIn(outbox, d)
    BY <1>3, NewExport
  <2>2. d < e
    BY <1>3, <2>1 DEF LaneOrder, Sends
  <2> HIDE DEF d
  <2>3. d \in Nat /\ e \in Nat
    BY <1>1, <2>1
  <2> QED BY <2>1, <2>2, <2>3, VersionOrder
<1> QED BY <1>2, <1>3

LEMMA LaneOrderKept ==
  ASSUME WorkFits, ChatFits, ExportsKnown, LaneOrder, [Next]_vars
  PROVE  LaneOrder'
<1>1. CASE Commits \/ Withdraws
  BY <1>1, LaneOrderMain
<1>2. CASE \E w \in Deliveries : TurnsOver(w)
  BY <1>2, LaneOrderOver
<1>3. ASSUME NEW w \in Deliveries, NEW what, NEW items, Sends(w, what, items)
      PROVE  LaneOrder'
  <2>1. outbox' = outbox
    BY <1>3 DEF Sends
  <2>2. \A v \in Deliveries : job'[v].stage # "idle" => job[v].stage # "idle" /\ job'[v].event = job[v].event
    BY <1>3 DEF Sends
  <2> QED BY <2>1, <2>2, ExportMoves, LaneOrderChat
<1>4. ASSUME NEW r \in requests, Takes(r)
      PROVE  LaneOrder'
  <2>1. outbox' = outbox
    BY <1>4 DEF Takes, mainVars
  <2>2. ASSUME NEW v \in Deliveries, job'[v].stage # "idle"
        PROVE  job[v].stage # "idle" /\ job'[v].event = job[v].event
    <3>1. job \in JobType /\ requests \subseteq RequestType
      BY WorkTypes DEF WorkFits
    <3>2. CASE job' = job
      BY <2>2, <3>2
    <3>3. ASSUME NEW stage, At(r.by, r.what), Goes(r.by, stage)
          PROVE  job[v].stage # "idle" /\ job'[v].event = job[v].event
      <4>1. r.what # "idle" /\ r.by \in Deliveries
        BY <3>1 DEF RequestType
      <4> QED BY <2>2, <3>1, <3>3, <4>1 DEF At, Goes, JobType
    <3> QED BY <1>4, <3>2, <3>3 DEF Takes
  <2> QED BY <2>1, <2>2, ExportMoves, LaneOrderChat
<1> QED BY <1>1, <1>2, <1>3, <1>4, StepShapes
-----------------------------------------------------------------------------
\* Of a relationship that was never cleared, every item of the transcript has
\* an event that will bring it into memory, or has brought it there.

NeverCleared == \A e \in Events : outbox[e].kind # "purge"

ClearedIsPurged == NeverCleared => cleared = {}

DoneIsShown == NeverCleared => \A w \in Deliveries : At(w, "done") => Shown(job[w].event)

Covers(e, i) ==
  /\ \A x \in Exports : x.version >= VersionIn(outbox, e) => i \in x.items
  /\ outbox[e].status # "delivered" \/ Shown(e)

AllCovered == NeverCleared => \A i \in Transcript : \E e \in Events : Covers(e, i)

LEMMA NeverClearedBefore ==
  ASSUME WorkFits, ChatFits, [Next]_vars, NeverCleared'
  PROVE  NeverCleared
<1>1. PICK kinds : Adds(kinds)
  BY OutboxSteps DEF Withdraws
<1> QED BY <1>1, EventsKept DEF NeverCleared, Adds, WorkFits

LEMMA ClearedIsPurgedKept ==
  ASSUME WorkFits, ChatFits, ClearedIsPurged, [Next]_vars
  PROVE  ClearedIsPurged'
<1> SUFFICES ASSUME NeverCleared' PROVE cleared' = {}
  BY DEF ClearedIsPurged
<1>1. cleared = {}
  BY NeverClearedBefore DEF ClearedIsPurged
<1>2. Undelivered({"purge"})' = {}
  BY DEF NeverCleared, Undelivered
<1>3. cleared' = cleared
  BY <1>2, StepShapes DEF Commits, Tells, Withdraws, TurnsOver, Sends, Takes, mainVars
<1> QED BY <1>1, <1>3

LEMMA ShownKept ==
  ASSUME WorkFits, ChatFits, [Next]_vars, NeverCleared', NEW e \in Events, Shown(e)
  PROVE  Shown(e)'
<1>1. MemoryInvariant /\ e \in 1..Len(outbox) /\ e \in Nat
  BY WorkTypes DEF WorkFits
<1>2. VersionIn(outbox', e) = VersionIn(outbox, e)
  <2>1. PICK kinds : Adds(kinds)
    BY OutboxSteps DEF Withdraws
  <2> QED BY <1>1, <2>1, AddsOne
<1>3. CASE canonical' = canonical
  BY <1>2, <1>3 DEF Shown
<1>4. CASE canonical' # canonical
  <2>1. PICK r \in requests : Takes(r)
    BY <1>4, StepShapes DEF Commits, Withdraws, TurnsOver, Sends, chatVars
  <2>2. r.what # "purge"
    <3>1. NeverCleared
      BY NeverClearedBefore
    <3> QED BY <3>1 DEF WorkFits, RequestsFit, NeverCleared
  <2>3. canonical' = MadeOf(r) /\ (canonical # NoVersion => canonical.version < MadeOf(r).version)
    BY <1>4, <2>1, <2>2 DEF Takes
  <2>4. MadeOf(r) # NoVersion /\ MadeOf(r).version \in Nat
    <3>1. r.event \in Nat
      BY <1>1, WorkTypes DEF RequestType
    <3>2. VersionIn(outbox, r.event) \in Nat
      BY <3>1, VersionCounts
    <3> QED BY <1>1, <3>2, MadeIsSomething DEF MadeOf
  <2>5. canonical.version \in Nat /\ canonical.version >= VersionIn(outbox, e) /\ canonical # NoVersion
    BY DEF Shown, ChatFits, CandidateType
  <2>6. VersionIn(outbox, e) \in Nat
    BY <1>1, VersionCounts
  <2> QED BY <1>2, <2>3, <2>4, <2>5, <2>6 DEF Shown
<1> QED BY <1>3, <1>4

LEMMA DoneIsShownKept ==
  ASSUME WorkFits, ChatFits, DoneIsShown, [Next]_vars
  PROVE  DoneIsShown'
<1>1. job \in JobType /\ requests \subseteq RequestType
      /\ \A w \in Deliveries : job[w].stage # "idle" => job[w].event \in Events
  BY WorkTypes DEF WorkFits
<1> SUFFICES ASSUME NeverCleared', NEW w \in Deliveries, job'[w].stage = "done"
             PROVE  \E e \in Events : e = job'[w].event /\ Shown(e)'
  <2>1. \A e : Shown(e)' <=> (canonical' # NoVersion /\ canonical'.version >= VersionIn(outbox', e))
    BY DEF Shown
  <2> QED BY <2>1 DEF DoneIsShown, At, Shown
<1>2. NeverCleared
  BY NeverClearedBefore
<1>3. CASE job'[w] = job[w]
  <2>1. job[w].event \in Events /\ Shown(job[w].event)
    BY <1>1, <1>2, <1>3 DEF DoneIsShown, At
  <2> QED BY <1>3, <2>1, ShownKept
<1>4. CASE job'[w] # job[w]
  <2>1. PICK r \in requests : Takes(r)
    <3>1. ASSUME NEW v \in Deliveries, TurnsOver(v) PROVE FALSE
      BY <1>4, <3>1 DEF TurnsOver, Idle
    <3>2. ASSUME NEW v \in Deliveries, NEW what, NEW items, Sends(v, what, items) PROVE FALSE
      BY <1>4, <3>2 DEF Sends
    <3> QED BY <1>4, <3>1, <3>2, StepShapes DEF Commits, Withdraws
  <2>2. PICK stage \in {"prepared", "done"} :
          /\ At(r.by, r.what) /\ Goes(r.by, stage)
          /\ stage = "done" => r.what # "prepare"
          /\ stage = "done" /\ r.what = "promote" => Shown(r.event)'
    BY <1>4, <2>1 DEF Takes
  <2>3. w = r.by /\ stage = "done" /\ job'[w].event = job[w].event
    BY <1>1, <1>4, <2>2 DEF Goes, JobType
  <2>4. r.what \in {"prepare", "promote", "purge"} /\ job[w].stage = r.what
    BY <1>1, <2>2, <2>3 DEF RequestType, At
  <2>5. job[w].event = r.event /\ r.event \in Events /\ r.what # "purge"
    BY <1>2, <2>3, <2>4 DEF WorkFits, RequestsFit, NeverCleared
  <2> QED BY <2>2, <2>3, <2>4, <2>5
<1> QED BY <1>3, <1>4

LEMMA CoversKept ==
  ASSUME WorkFits, ChatFits, DoneIsShown, [Next]_vars, NeverCleared', ~Withdraws,
         NEW i \in Transcript, NEW e \in Events, Covers(e, i)
  PROVE  Covers(e, i)'
<1>1. MemoryInvariant /\ e \in 1..Len(outbox) /\ NeverCleared
  BY WorkTypes, NeverClearedBefore DEF WorkFits
<1>2. VersionIn(outbox', e) = VersionIn(outbox, e)
  <2>1. PICK kinds : Adds(kinds)
    BY OutboxSteps DEF Withdraws
  <2> QED BY <1>1, <2>1, AddsOne
<1>3. ASSUME NEW x \in Exports', x.version >= VersionIn(outbox, e) PROVE i \in x.items
  <2>1. CASE x \in Exports
    BY <1>3, <2>1 DEF Covers
  <2>2. ASSUME NEW w \in Deliveries, x = NewlyExported(w) PROVE i \in x.items
    BY <2>2 DEF NewlyExported
  <2> QED BY <2>1, <2>2, ExportMoves
<1>4. ASSUME outbox'[e].status = "delivered" PROVE Shown(e)'
  <2>1. outbox[e].status = "delivered" \/ \E w \in Deliveries : At(w, "done") /\ e = job[w].event
    <3>1. Commits => Tells
      BY DEF Commits, NeverCleared, Undelivered
    <3> QED BY <1>4, <3>1, StepShapes DEF Tells, TurnsOver, Sends, Takes, mainVars
  <2>2. Shown(e)
    BY <1>1, <2>1 DEF Covers, DoneIsShown
  <2> QED BY <2>2, ShownKept
<1> QED BY <1>2, <1>3, <1>4 DEF Covers

LEMMA AllCoveredKept ==
  ASSUME WorkFits, ChatFits, ExportsKnown, LaneOrder, DoneIsShown, AllCovered, [Next]_vars
  PROVE  AllCovered'
<1>1. WorkFits' /\ ExportsKnown' /\ LaneOrder'
  BY FitsKept, ExportsKnownKept, LaneOrderKept
<1>2. ASSUME NEW e \in Events', NEW i, outbox'[e].kind # "purge", outbox'[e].status = "pending"
      PROVE  Covers(e, i)'
  <2>1. e \in Nat
    BY DEF Events
  <2>2. VersionIn(outbox', e) \in Nat
    BY <2>1, VersionCounts
  <2>3. \A x \in Exports' : x.version \in Nat /\ x.version < VersionIn(outbox', e)
    BY <1>1, <1>2 DEF LaneOrder, ExportsKnown
  <2> QED BY <1>2, <2>2, <2>3 DEF Covers
<1> SUFFICES ASSUME NeverCleared', NEW i \in Transcript' PROVE \E e \in Events' : Covers(e, i)'
  BY DEF AllCovered
<1>3. CASE Withdraws
  <2>1. Len(outbox) \in Nat /\ Len(outbox') = Len(outbox) + 1
        /\ outbox'[Len(outbox) + 1].kind = "rebuild" /\ outbox'[Len(outbox) + 1].status = "pending"
    BY <1>3, WorkTypes DEF WorkFits, Withdraws
  <2>2. Len(outbox) + 1 \in Events'
    BY <2>1 DEF Events
  <2> QED BY <1>2, <2>1, <2>2
<1>4. CASE ~Withdraws
  <2>1. NeverCleared /\ Events \subseteq Events'
    <3>1. PICK kinds : Adds(kinds)
      BY OutboxSteps DEF Withdraws
    <3> QED BY <3>1, NeverClearedBefore, EventsKept DEF Adds, WorkFits
  <2>2. CASE i \in Transcript
    <3>1. PICK e \in Events : Covers(e, i)
      BY <2>1, <2>2 DEF AllCovered
    <3> QED BY <1>4, <2>1, <2>2, <3>1, CoversKept
  <2>3. CASE i \notin Transcript
    <3>1. turn' = turn => Transcript' = Transcript
      BY DEF Transcript, Item
    <3>2. Commits
      BY <1>4, <2>3, <3>1, StepShapes DEF TurnsOver, Sends, Takes, mainVars
    <3>3. Tells
      BY <3>2 DEF Commits, NeverCleared, Undelivered
    <3>4. PICK e \in Events' : outbox'[e].kind = "project" /\ outbox'[e].status = "pending"
      BY <2>3, <3>3 DEF Tells
    <3> QED BY <1>2, <3>4
  <2> QED BY <2>2, <2>3
<1> QED BY <1>3, <1>4

-----------------------------------------------------------------------------
\* The bounds of the model, which MemoryTypeOK names.

BoundsHold ==
  /\ \A t \in Turns : /\ turn[t].attempt \in 0..MaxAttempt
                      /\ turn[t].state # "none" => turn[t].attempt \in 1..MaxAttempt
  /\ cleared \subseteq Items
  /\ Len(outbox) <= MaxEvents
  /\ \A w \in Deliveries : job[w].stage = "idle" => job[w] = Idle
  /\ \A x \in Exports : x.items \subseteq Items

LEMMA TranscriptItems ==
  ASSUME BoundsHold
  PROVE  Transcript \subseteq Items
BY DEF BoundsHold, Transcript, Item, Items

LEMMA TurnBounds ==
  ASSUME MemoryInvariant, BoundsHold, [Next]_vars
  PROVE  /\ \A t \in Turns : /\ turn'[t].attempt \in 0..MaxAttempt
                             /\ turn'[t].state # "none" => turn'[t].attempt \in 1..MaxAttempt
         /\ cleared' \subseteq Items
<1> DEFINE B(t) == /\ turn'[t].attempt \in 0..MaxAttempt
                   /\ turn'[t].state # "none" => turn'[t].attempt \in 1..MaxAttempt
<1>1. turn \in TurnType /\ Transcript \subseteq Items /\ cleared \subseteq Items /\ MaxAttempt \in Nat \ {0}
  BY WorkTypes, TranscriptItems, CompanionMemoryAssumption DEF BoundsHold
<1>2. CASE UNCHANGED <<turn, cleared>>
  BY <1>1, <1>2 DEF BoundsHold
<1>3. ASSUME NEW t \in Turns, NEW state, NEW attempt \in 1..MaxAttempt, Becomes(t, state, attempt),
             cleared' = cleared
      PROVE  (\A u \in Turns : B(u)) /\ cleared' \subseteq Items
  <2>1. turn'[t].attempt = attempt /\ \A u \in Turns \ {t} : turn'[u] = turn[u]
    BY <1>1, <1>3 DEF Becomes, TurnType
  <2> QED BY <1>1, <1>3, <2>1 DEF BoundsHold
<1>4. ASSUME NEW t \in Turns, CommitSent(t) \/ EndUnsent(t) \/ Revise(t) \/ Delete(t)
      PROVE  cleared' = cleared /\ \E state : \E attempt \in 1..MaxAttempt : Becomes(t, state, attempt)
  <2>1. cleared' = cleared
    BY <1>4 DEF CommitSent, EndUnsent, Revise, Delete
  <2>2. turn[t].attempt \in 0..MaxAttempt /\ (turn[t].state # "none" => turn[t].attempt \in 1..MaxAttempt)
    BY DEF BoundsHold
  <2>3. CASE CommitSent(t)
    <3>1. (IF turn[t].state = "none" THEN 1 ELSE turn[t].attempt) \in 1..MaxAttempt
      BY <1>1, <2>2
    <3> QED BY <2>1, <2>3, <3>1 DEF CommitSent
  <2>4. CASE EndUnsent(t)
    BY <2>1, <2>2, <2>4 DEF EndUnsent
  <2>5. CASE Revise(t)
    <3>1. turn[t].attempt + 1 \in 1..MaxAttempt
      BY <1>1, <2>2, <2>5 DEF Revise
    <3> QED BY <2>1, <2>5, <3>1 DEF Revise
  <2>6. CASE Delete(t)
    BY <2>1, <2>2, <2>6 DEF Delete
  <2> QED BY <1>4, <2>3, <2>4, <2>5, <2>6
<1>5. CASE Clear
  <2>1. cleared' = cleared \cup Transcript
    BY <1>5 DEF Clear
  <2>2. \A t \in Turns : turn'[t] = turn[t] \/ (turn[t].state # "none" /\ turn'[t] = [turn[t] EXCEPT !.state = "cleared"])
    BY <1>5 DEF Clear
  <2>3. \A t \in Turns : [turn[t] EXCEPT !.state = "cleared"].attempt = turn[t].attempt
    BY <1>1 DEF TurnType
  <2> QED BY <1>1, <2>1, <2>2, <2>3 DEF BoundsHold
<1>6. \/ UNCHANGED <<turn, cleared>>
      \/ \E t \in Turns : CommitSent(t) \/ EndUnsent(t) \/ Revise(t) \/ Delete(t)
      \/ Clear
  BY DEF Next, vars, mainVars, CommitAgain, Claim, SendPrepare, SendPromote, SkipPromote, SendPurge,
         Settle, Fail, Die, ChatPrepares, ChatPromotes, ChatHalfPromotes, ChatPurges, RequestLost
<1> QED BY <1>2, <1>3, <1>4, <1>5, <1>6

LEMMA OutboxBound ==
  ASSUME WorkFits, ChatFits, BoundsHold, [Next]_vars
  PROVE  Len(outbox') <= MaxEvents
<1>1. outbox \in Seq(EventRecord) /\ Len(outbox) \in Nat /\ MaxEvents \in Nat /\ Len(outbox) <= MaxEvents
  BY WorkTypes, CompanionMemoryAssumption DEF WorkFits, BoundsHold
<1>2. CASE Len(outbox') = Len(outbox)
  BY <1>1, <1>2
<1>3. ASSUME ScheduleProjection \/ ScheduleRebuild \/ SchedulePurge
      PROVE  Len(outbox') <= MaxEvents
  <2>1. \/ Len(outbox') = Len(outbox)
        \/ Len(outbox') = Len(outbox) + 1 /\ Len(outbox) < MaxEvents
    <3>1. ASSUME NEW kinds PROVE Len(Superseded(kinds)) = Len(outbox) /\ Superseded(kinds) \in Seq(EventRecord)
      BY <1>1, SupersededAdds
    <3>2. \A k \in {"project", "rebuild", "purge"} : Event(k) \in EventRecord
      BY DEF Event, EventRecord, Kinds, Statuses
    <3>3. CASE ScheduleProjection
      BY <1>1, <3>2, <3>3 DEF ScheduleProjection
    <3>4. CASE ScheduleRebuild
      BY <1>1, <3>1, <3>2, <3>4 DEF ScheduleRebuild
    <3>5. CASE SchedulePurge
      BY <1>1, <3>1, <3>2, <3>5 DEF SchedulePurge
    <3> QED BY <1>3, <3>3, <3>4, <3>5
  <2> QED BY <1>1, <2>1
<1>4. Len(outbox') = Len(outbox) \/ ScheduleProjection \/ ScheduleRebuild \/ SchedulePurge
  <2>1. ASSUME NEW t \in Turns, CommitSent(t) \/ CommitAgain(t) \/ EndUnsent(t) \/ Revise(t) \/ Delete(t)
        PROVE  Len(outbox') = Len(outbox) \/ ScheduleProjection \/ ScheduleRebuild
    BY <2>1 DEF CommitSent, CommitAgain, EndUnsent, Revise, Delete
  <2>2. ASSUME NEW w \in Deliveries, NEW e \in Events, Claim(w, e) PROVE Len(outbox') = Len(outbox)
    BY <2>2, ClaimShape DEF TurnsOver, WorkFits
  <2>3. ASSUME NEW w \in Deliveries, SkipPromote(w) \/ Settle(w) \/ Fail(w) \/ Die(w)
        PROVE  Len(outbox') = Len(outbox)
    BY <2>3, EndShape DEF TurnsOver, WorkFits
  <2>4. CASE outbox' = outbox
    BY <2>4
  <2>5. \/ outbox' = outbox
        \/ \E t \in Turns : CommitSent(t) \/ CommitAgain(t) \/ EndUnsent(t) \/ Revise(t) \/ Delete(t)
        \/ Clear
        \/ \E w \in Deliveries : \/ \E e \in Events : Claim(w, e)
                                 \/ SkipPromote(w) \/ Settle(w) \/ Fail(w) \/ Die(w)
    BY DEF Next, vars, mainVars, SendPrepare, SendPromote, SendPurge,
           ChatPrepares, ChatPromotes, ChatHalfPromotes, ChatPurges, RequestLost
  <2> QED BY <2>1, <2>2, <2>3, <2>4, <2>5 DEF Clear
<1> QED BY <1>2, <1>3, <1>4

LEMMA BoundsKept ==
  ASSUME WorkFits, ChatFits, BoundsHold, [Next]_vars
  PROVE  BoundsHold'
<1>1. MemoryInvariant /\ job \in JobType
  BY WorkTypes DEF WorkFits
<1>2. \A x \in Exports' : x.items \subseteq Items
  BY ExportMoves, TranscriptItems DEF BoundsHold, NewlyExported
<1>3. ASSUME NEW w \in Deliveries, job'[w].stage = "idle" PROVE job'[w] = Idle
  <2>1. CASE job'[w] = job[w]
    BY <1>3, <2>1 DEF BoundsHold
  <2>2. CASE job'[w] # job[w]
    <3>1. ASSUME NEW r \in requests, Takes(r) PROVE FALSE
      BY <1>1, <1>3, <2>2, <3>1 DEF Takes, Goes, JobType
    <3>2. ASSUME NEW v \in Deliveries, NEW what, NEW items, Sends(v, what, items) PROVE FALSE
      BY <1>3, <2>2, <3>2 DEF Sends
    <3>3. PICK v \in Deliveries : TurnsOver(v)
      BY <2>2, <3>1, <3>2, StepShapes DEF Commits, Withdraws
    <3> QED BY <1>3, <2>2, <3>3 DEF TurnsOver
  <2> QED BY <2>1, <2>2
<1> QED BY <1>1, <1>2, <1>3, TurnBounds, OutboxBound DEF BoundsHold

-----------------------------------------------------------------------------
\* The theorems.

\* Deliveries, requests and versions fit the outbox; what a rebuild overtook
\* is not published and what is due covers the transcript.
MemoryHolds ==
  /\ WorkFits /\ ChatFits /\ BoundsHold
  /\ RebuildsWait /\ ExportsKnown /\ FreshHolds /\ SafeWhenDone /\ SafeWhenSettled
  /\ LaneOrder /\ ClearedIsPurged /\ DoneIsShown /\ AllCovered

LEMMA InitMemory ==
  Init => MemoryHolds
<1> SUFFICES ASSUME Init PROVE MemoryHolds
  OBVIOUS
<1>1. /\ outbox = <<>> /\ requests = {} /\ job = [w \in Deliveries |-> Idle] /\ cleared = {}
      /\ turn = [t \in Turns |-> [state |-> "none", attempt |-> 0]]
      /\ canonical = NoVersion /\ candidates = {}
  BY DEF Init
<1>2. Events = {} /\ Len(outbox) = 0 /\ MaxEvents \in Nat /\ MaxAttempt \in Nat
  BY <1>1, CompanionMemoryAssumption DEF Events
<1>3. Exports = {}
  BY <1>1, InExports DEF Exporting, Idle
<1>4. WorkFits /\ ChatFits
  BY <1>1, InitHolds DEF WorkFits, RequestsFit, StagesFit, ChatFits, At, Idle
<1>5. BoundsHold
  BY <1>1, <1>2, <1>3 DEF BoundsHold
<1>6. Transcript = {}
  BY <1>1 DEF Transcript
<1>7. RebuildsWait /\ ExportsKnown /\ FreshHolds /\ LaneOrder /\ ClearedIsPurged /\ AllCovered
  BY <1>1, <1>2, <1>3, <1>6 DEF RebuildsWait, ExportsKnown, FreshHolds, LaneOrder, ClearedIsPurged, AllCovered
<1>8. SafeWhenDone /\ SafeWhenSettled /\ DoneIsShown
  BY <1>1 DEF SafeWhenDone, SafeWhenSettled, Safe, DoneIsShown, At, Idle
<1> QED BY <1>4, <1>5, <1>7, <1>8 DEF MemoryHolds

LEMMA NextMemory ==
  MemoryHolds /\ [Next]_vars => MemoryHolds'
<1> SUFFICES ASSUME MemoryHolds, [Next]_vars PROVE MemoryHolds'
  OBVIOUS
<1>1. /\ WorkFits /\ ChatFits /\ BoundsHold
      /\ RebuildsWait /\ ExportsKnown /\ FreshHolds /\ SafeWhenDone /\ SafeWhenSettled
      /\ LaneOrder /\ ClearedIsPurged /\ DoneIsShown /\ AllCovered
  BY DEF MemoryHolds
<1>2. WorkFits' /\ ChatFits' /\ BoundsHold'
  BY <1>1, FitsKept, BoundsKept
<1>3. RebuildsWait' /\ ExportsKnown' /\ FreshHolds'
  BY <1>1, RebuildsWaitKept, ExportsKnownKept, FreshHoldsKept
<1>4. SafeWhenDone' /\ SafeWhenSettled'
  BY <1>1, SafeWhenDoneKept, SafeWhenSettledKept
<1>5. LaneOrder' /\ ClearedIsPurged' /\ DoneIsShown' /\ AllCovered'
  BY <1>1, LaneOrderKept, ClearedIsPurgedKept, DoneIsShownKept, AllCoveredKept
<1> QED BY <1>2, <1>3, <1>4, <1>5 DEF MemoryHolds

\* The inductive invariant: every delivery, request, candidate and published
\* version is where Main's outbox and Chat's locks put it
\* (syncCompanionMemoryFromMain, promoteRelationshipRebuild).
THEOREM MemoryInvariance == Spec => []MemoryHolds
<1> QED BY InitMemory, NextMemory, PTL DEF Spec

LEMMA HoldsIsForgotten ==
  MemoryHolds => WithdrawnIsForgotten
<1> SUFFICES ASSUME MemoryHolds, Destructive = {} PROVE Content \ cleared \subseteq Transcript
  BY DEF WithdrawnIsForgotten
<1>1. CASE canonical = NoVersion
  BY <1>1 DEF Content
<1>2. CASE canonical # NoVersion
  <2>1. Says(canonical) \in Exports
    BY <1>2, InExports
  <2>2. FreshIn(outbox, canonical.version)
    BY <1>2 DEF MemoryHolds, SafeWhenSettled, Safe
  <2>3. Says(canonical).version = canonical.version /\ Says(canonical).items = canonical.items
    BY DEF Says
  <2>4. canonical.items \subseteq Transcript \cup cleared
    BY <2>1, <2>2, <2>3 DEF MemoryHolds, FreshHolds
  <2> QED BY <1>2, <2>4 DEF Content
<1> QED BY <1>1, <1>2

\* An item that an edit, a regeneration or a deletion withdrew is out of the
\* published memory once no rebuild or purge is left to deliver, however late
\* an older projection is prepared or promoted (companion-memory-authority.ts,
\* promoteRelationshipRebuild).
THEOREM WithdrawnLeaves == Spec => []WithdrawnIsForgotten
<1> QED BY MemoryInvariance, HoldsIsForgotten, PTL

LEMMA HoldsIsTranscript ==
  MemoryHolds => UnclearedMemoryIsTranscript
<1> SUFFICES ASSUME MemoryHolds, Undelivered(Kinds) = {}, \A e \in Events : outbox[e].kind # "purge"
             PROVE  Content = Transcript
  BY DEF UnclearedMemoryIsTranscript
<1>1. NeverCleared /\ cleared = {}
  BY DEF NeverCleared, MemoryHolds, ClearedIsPurged
<1>2. Destructive = {}
  BY DEF Undelivered, Destructive, Kinds
<1>3. Content \subseteq Transcript
  BY <1>1, <1>2, HoldsIsForgotten DEF WithdrawnIsForgotten
<1>4. ASSUME NEW i \in Transcript PROVE i \in Content
  <2>1. PICK e \in Events : Covers(e, i)
    BY <1>1 DEF MemoryHolds, AllCovered
  <2>2. outbox[e].status = "delivered"
    <3>1. outbox[e].kind \in Kinds
      BY EventKinds DEF Kinds, MemoryHolds, WorkFits, MemoryInvariant
    <3> QED BY <3>1 DEF Undelivered
  <2>3. Shown(e)
    BY <2>1, <2>2 DEF Covers
  <2>4. Says(canonical) \in Exports /\ Says(canonical).version = canonical.version
        /\ Says(canonical).items = canonical.items
    BY <2>3, InExports DEF Shown, Says
  <2> QED BY <2>1, <2>3, <2>4 DEF Covers, Shown, Content
<1> QED BY <1>3, <1>4

\* Of a relationship that was never cleared: when nothing is left to deliver,
\* memory says what the transcript says, whatever was absorbed, superseded,
\* retried or taken over on the way (scheduleCompanionMemoryProjection).
THEOREM MemoryConverges == Spec => []UnclearedMemoryIsTranscript
<1> QED BY MemoryInvariance, HoldsIsTranscript, PTL

LEMMA HoldsIsTyped ==
  MemoryHolds => MemoryTypeOK
<1> SUFFICES ASSUME MemoryHolds PROVE MemoryTypeOK
  OBVIOUS
<1>1. /\ outbox \in Seq(EventRecord) /\ Len(outbox) \in Nat /\ Events = 1..Len(outbox)
      /\ job \in JobType /\ requests \subseteq RequestType /\ turn \in TurnType
      /\ MaxEvents \in Nat /\ Len(outbox) <= MaxEvents
      /\ \A w \in Deliveries : job[w].stage # "idle" => job[w].event \in Events
  BY WorkTypes, CompanionMemoryAssumption DEF MemoryHolds, WorkFits, BoundsHold
<1>2. turn \in [Turns -> [state : {"none", "running", "sent", "unsent", "cleared", "deleted"},
                          attempt : 0..MaxAttempt]]
  BY <1>1 DEF MemoryHolds, BoundsHold, TurnType
<1>3. outbox \in Seq([kind : Kinds, status : Statuses, lease : Deliveries \cup {NoDelivery}])
  BY <1>1 DEF EventRecord
<1>4. \A x \in Exports : x.version \in 1..MaxEvents /\ x.items \subseteq Items
  <2>1. VersionIn(outbox, Len(outbox)) \in Nat /\ VersionIn(outbox, Len(outbox)) <= Len(outbox)
    BY <1>1, VersionCounts
  <2> QED BY <1>1, <2>1 DEF MemoryHolds, ExportsKnown, BoundsHold
<1>5. ASSUME NEW w \in Deliveries
      PROVE  /\ job[w].event \in 0..MaxEvents /\ job[w].items \subseteq Items
             /\ job[w].event \in Events \/ job[w] = Idle
  <2>1. CASE job[w].stage = "idle"
    BY <1>1, <2>1 DEF MemoryHolds, BoundsHold, Idle
  <2>2. CASE job[w].stage # "idle"
    <3>1. job[w].event \in Events
      BY <1>1, <2>2
    <3>2. CASE Exporting(w)
      <4>1. JobExport(w) \in Exports /\ JobExport(w).items = job[w].items
        BY <3>2, InExports DEF JobExport
      <4> QED BY <1>1, <1>4, <3>1, <4>1
    <3>3. CASE ~Exporting(w)
      <4>1. job[w].stage \in Stages
        BY <1>1 DEF JobType
      <4>2. job[w].stage = "claimed" \/ outbox[job[w].event].kind = "purge"
        BY <2>2, <3>3, <4>1 DEF Exporting, Stages, MemoryHolds, WorkFits, StagesFit, At
      <4>3. job[w].items = {}
        BY <2>2, <4>2 DEF MemoryHolds, WorkFits, MemoryInvariant, Shape, JobsFit, At
      <4> QED BY <1>1, <3>1, <4>3
    <3> QED BY <3>2, <3>3
  <2> QED BY <2>1, <2>2
<1>6. job \in [Deliveries -> [event : 0..MaxEvents, stage : Stages, items : SUBSET Items]]
  BY <1>1, <1>5 DEF JobType
<1>7. ASSUME NEW r \in requests
      PROVE  r \in [what : {"prepare", "promote", "purge"}, event : Events,
                    by : Deliveries, items : SUBSET Items]
  <2>1. r.event \in Events
    BY DEF MemoryHolds, WorkFits, RequestsFit
  <2>2. r.items \subseteq Items
    <3>1. CASE r.what = "purge"
      BY <3>1 DEF MemoryHolds, WorkFits, RequestsFit
    <3>2. CASE r.what # "purge"
      <4>1. RequestExport(r) \in Exports /\ RequestExport(r).items = r.items
        BY <3>2, InExports DEF RequestExport
      <4> QED BY <1>4, <4>1
    <3> QED BY <3>1, <3>2
  <2> QED BY <1>1, <2>1, <2>2 DEF RequestType
<1>8. ASSUME NEW c \in CandidateType, Says(c) \in Exports PROVE c \in Published
  <2>1. c.version \in 1..MaxEvents /\ c.items \subseteq Items
    BY <1>4, <1>8 DEF Says
  <2> QED BY <2>1 DEF CandidateType, Published
<1>9. (canonical = NoVersion \/ canonical \in Published) /\ candidates \subseteq Published
  BY <1>8, InExports DEF MemoryHolds, ChatFits
<1> QED BY <1>1, <1>2, <1>3, <1>5, <1>6, <1>7, <1>9 DEF MemoryTypeOK, MemoryHolds, BoundsHold

\* Every variable keeps its type: a version is never zero nor beyond the events
\* made, and only items of real attempts are ever exported
\* (companion-memory-authority.ts, agent-runtime/workspace.ts).
THEOREM MemoryTypes == Spec => []MemoryTypeOK
<1> QED BY MemoryInvariance, HoldsIsTyped, PTL
=============================================================================
