-------------------------------- MODULE Scribe --------------------------------
(***************************************************************************)
(* The incident scribe of chapter 6 (incident_scribe): Slack messages      *)
(* become timeline entries, a check may post a bounded number of nudges    *)
(* per incident, a drafter writes a postmortem from the timeline, and each *)
(* of the three emits an audit event.  The store is in memory and its      *)
(* methods never suspend; what does are the calls to the model and to the  *)
(* audit sink.  Slack delivers late, out of order, and again.              *)
(***************************************************************************)
EXTENDS Integers, Sequences, FiniteSets

CONSTANTS
    Incidents,
    Tasks,          \* handlers, checks and drafts running at one time
    Messages,       \* what is said in the channels
    NudgeMax, NudgeMin, HypothesisAfter,    \* the NUDGE_ settings
    RecentMax,      \* how far back _contradicts looks
    MaxEntries,     \* bound: entries per incident
    MaxUnreadable,  \* bound: messages per incident whose time cannot be read
    MaxDrafts,      \* bound: drafts per incident
    MaxTime,        \* bound: the clock
    None

Categories == {"detection", "hypothesis", "action", "observation", "decision"}

(* What a text says of the service, as _contradicts reads it.              *)
Sayings == {"nothing", "recovered", "still", "not recovered"}

(* A message in no incident's channel, or one that is no event, has no     *)
(* incident or category.  stamp: an ISO time, or Slack's epoch seconds.    *)
MessageType ==
    [incident : Incidents \cup {None}, category : Categories \cup {None},
     at : Nat, says : Sayings, stamp : {"iso", "epoch"}]

ASSUME ScribeAssumption ==
    /\ IsFiniteSet(Tasks)
    /\ Messages \subseteq MessageType
    /\ {NudgeMax, NudgeMin, HypothesisAfter, RecentMax, MaxEntries, MaxUnreadable,
        MaxDrafts, MaxTime} \subseteq Nat
    /\ None \notin Incidents

VARIABLES
    now,
    sink,       \* AUDIT_SINK, as the process was started
    timeline,   \* _entries: per incident, in the order they were stored
    nudges,     \* _nudges
    trail,      \* audit events recorded, per incident and action
    missed,     \* history: posts of an event that the gateway did not record
    posted,     \* history: nudges handed back to be posted
    happened,   \* history: what the scribe did, whatever it said of it
    task        \* per task: what it is waiting for

vars == <<now, sink, timeline, nudges, trail, missed, posted, happened, task>>

(* What the scribe does: a message is classified and stored, or classified *)
(* only, because its time cannot be read; a nudge is counted; a draft is   *)
(* written, of a timeline or of none.                                      *)
Deeds == {"stored", "unreadable", "nudged", "drafted", "drafted nothing"}

Actions   == {"message_classified", "nudge_posted", "draft_generated"}
EntryType == [category : Categories, at : Nat, says : Sayings]

(* because: the entries a nudge was decided on; entries: how many a draft  *)
(* was written from.                                                       *)
EventType ==
    [incident : Incidents, action : Actions, kind : {"none", "hypothesis", "contradiction"},
     because : SUBSET Nat, entries : Nat]

TaskType ==
    {[pc |-> "idle"]} \cup [pc : {"drafting", "auditing"}, event : EventType]

Idle == [pc |-> "idle"]

Init ==
    /\ now = 0
    /\ sink \in {"stdout", "gateway"}
    /\ timeline = [i \in Incidents |-> <<>>]
    /\ nudges = [i \in Incidents |-> 0]
    /\ trail = [s \in Incidents \X Actions |-> 0]
    /\ missed = [s \in Incidents \X Actions |-> 0]
    /\ posted = [i \in Incidents |-> 0]
    /\ happened = [p \in Incidents \X Deeds |-> 0]
    /\ task = [t \in Tasks |-> Idle]

-----------------------------------------------------------------------------
Free(t) == task[t].pc = "idle"

Event(i, action) ==
    [incident |-> i, action |-> action, kind |-> "none", because |-> {}, entries |-> 0]

Done(i, deed) == happened' = [happened EXCEPT ![<<i, deed>>] = @ + 1]

(* What a task that has no error hands back.                               *)
HandBack(e) ==
    posted' = IF e.action = "nudge_posted" THEN [posted EXCEPT ![e.incident] = @ + 1]
              ELSE posted

(* emit_audit: to standard output at once, or over HTTP.                   *)
Emit(t, e) ==
    IF sink = "stdout"
    THEN /\ trail' = [trail EXCEPT ![<<e.incident, e.action>>] = @ + 1]
         /\ task' = [task EXCEPT ![t] = Idle]
         /\ HandBack(e)
    ELSE /\ task' = [task EXCEPT ![t] = [pc |-> "auditing", event |-> e]]
         /\ UNCHANGED <<trail, posted>>

(* The gateway has recorded the event or not, and a refusal of its counts  *)
(* as an answer; without an answer the task ends with an error.            *)
AuditEnds(t) ==
    /\ task[t].pc = "auditing"
    /\ LET e == task[t].event
       IN  /\ \/ /\ trail' = [trail EXCEPT ![<<e.incident, e.action>>] = @ + 1]
                 /\ UNCHANGED missed
              \/ /\ missed' = [missed EXCEPT ![<<e.incident, e.action>>] = @ + 1]
                 /\ UNCHANGED trail
           /\ HandBack(e) \/ UNCHANGED posted
    /\ task' = [task EXCEPT ![t] = Idle]
    /\ UNCHANGED <<now, sink, timeline, nudges, happened>>

-----------------------------------------------------------------------------
(* The watcher.  Slack delivers any message that was sent, at any time.    *)
Sent(m) == m.at <= now

(* ingest_message of an event.                                             *)
Ingest(t, m) ==
    /\ Free(t) /\ Sent(m)
    /\ m.incident # None /\ m.category # None
    /\ m.stamp = "iso"
    /\ Len(timeline[m.incident]) < MaxEntries
    /\ timeline' = [timeline EXCEPT ![m.incident] =
                        Append(@, [category |-> m.category, at |-> m.at, says |-> m.says])]
    /\ Done(m.incident, "stored")
    /\ Emit(t, Event(m.incident, "message_classified"))
    /\ UNCHANGED <<now, sink, nudges, missed>>

(* fromisoformat raises for the ts of a live Slack event, after the message*)
(* has been classified: it is in no timeline, and no event tells of it.    *)
IngestUnreadable(m) ==
    /\ Sent(m)
    /\ m.incident # None /\ m.category # None
    /\ m.stamp = "epoch"
    /\ happened[<<m.incident, "unreadable">>] < MaxUnreadable
    /\ Done(m.incident, "unreadable")
    /\ UNCHANGED <<now, sink, timeline, nudges, trail, missed, posted, task>>

(* No incident, or no category, and there is nothing to store.             *)
IngestNothing(m) ==
    /\ Sent(m)
    /\ m.incident = None \/ m.category = None
    /\ UNCHANGED vars

-----------------------------------------------------------------------------
(* The nudges.  Entry j is later than k in the sorted timeline; the sort is*)
(* stable.                                                                 *)
Later(s, j, k) == s[j].at > s[k].at \/ (s[j].at = s[k].at /\ j > k)

Recent(s) ==
    {k \in DOMAIN s : Cardinality({j \in DOMAIN s : Later(s, j, k)}) < RecentMax}

(* "not recovered" contains "recovered".                                   *)
SaysRecovered(e) == e.says \in {"recovered", "not recovered"}
SaysStill(e)     == e.says \in {"still", "not recovered"}

Contradicts(s) ==
    /\ \E k \in Recent(s) : SaysRecovered(s[k])
    /\ \E k \in Recent(s) : SaysStill(s[k])

LacksHypothesis(s) ==
    /\ \A k \in DOMAIN s : s[k].category # "hypothesis"
    /\ \E k \in DOMAIN s : now - s[k].at > HypothesisAfter

(* Mutant: only nudges that were posted count.                             *)
MayNudge_CountsPosted(i) ==
    Len(timeline[i]) >= NudgeMin /\ posted[i] < NudgeMax

MayNudge(i) == Len(timeline[i]) >= NudgeMin /\ nudges[i] < NudgeMax

(* Which nudge, if any: the missing hypothesis goes first.                 *)
Nudge(s) ==
    CASE LacksHypothesis(s) -> "hypothesis"
      [] ~LacksHypothesis(s) /\ Contradicts(s) -> "contradiction"
      [] OTHER -> "none"

(* Mutant: a contradiction is posted without an event.                     *)
Check_Silent(t, i) ==
    /\ Free(t)
    /\ MayNudge(i) /\ Nudge(timeline[i]) # "none"
    /\ nudges' = [nudges EXCEPT ![i] = @ + 1] /\ Done(i, "nudged")
    /\ IF Nudge(timeline[i]) = "contradiction"
       THEN HandBack(Event(i, "nudge_posted")) /\ UNCHANGED <<trail, task>>
       ELSE Emit(t, Event(i, "nudge_posted"))
    /\ UNCHANGED <<now, sink, timeline, missed>>

(* maybe_nudge.                                                            *)
Check(t, i) ==
    /\ Free(t)
    /\ MayNudge(i) /\ Nudge(timeline[i]) # "none"
    /\ nudges' = [nudges EXCEPT ![i] = @ + 1] /\ Done(i, "nudged")
    /\ Emit(t, [Event(i, "nudge_posted") EXCEPT
                    !.kind = Nudge(timeline[i]), !.because = Recent(timeline[i])])
    /\ UNCHANGED <<now, sink, timeline, missed>>

-----------------------------------------------------------------------------
(* The drafter: the timeline it is given is the one of this moment.        *)
Draft(t, i) ==
    /\ Free(t)
    /\ happened[<<i, "drafted">>] + happened[<<i, "drafted nothing">>] < MaxDrafts
    /\ task' = [task EXCEPT ![t] =
                    [pc |-> "drafting",
                     event |-> [Event(i, "draft_generated") EXCEPT !.entries = Len(timeline[i])]]]
    /\ UNCHANGED <<now, sink, timeline, nudges, trail, missed, posted, happened>>

(* The model fails, or its answer is no PostmortemDraft.                   *)
DraftFails(t) ==
    /\ task[t].pc = "drafting"
    /\ task' = [task EXCEPT ![t] = Idle]
    /\ UNCHANGED <<now, sink, timeline, nudges, trail, missed, posted, happened>>

(* A draft of an empty timeline emits no event.                            *)
DraftReturned(t) ==
    /\ task[t].pc = "drafting"
    /\ LET e == task[t].event
       IN  IF e.entries = 0
           THEN /\ Done(e.incident, "drafted nothing")
                /\ task' = [task EXCEPT ![t] = Idle]
                /\ UNCHANGED <<trail, posted>>
           ELSE /\ Done(e.incident, "drafted")
                /\ Emit(t, e)
    /\ UNCHANGED <<now, sink, timeline, nudges, missed>>

Tick ==
    /\ now < MaxTime
    /\ now' = now + 1
    /\ UNCHANGED <<sink, timeline, nudges, trail, missed, posted, happened, task>>

Next ==
    \/ \E t \in Tasks :
        \/ \E m \in Messages : Ingest(t, m)
        \/ \E i \in Incidents : Check(t, i) \/ Draft(t, i)
        \/ DraftFails(t) \/ DraftReturned(t) \/ AuditEnds(t)
    \/ \E m \in Messages : IngestUnreadable(m) \/ IngestNothing(m)
    \/ Tick

Spec == Init /\ [][Next]_vars

-----------------------------------------------------------------------------
(* The type of every variable.                                             *)
STypeOK ==
    /\ now \in Nat /\ sink \in {"stdout", "gateway"}
    /\ timeline \in [Incidents -> Seq(EntryType)]
    /\ nudges \in [Incidents -> Nat]
    /\ trail \in [Incidents \X Actions -> Nat] /\ missed \in [Incidents \X Actions -> Nat]
    /\ posted \in [Incidents -> Nat] /\ happened \in [Incidents \X Deeds -> Nat]
    /\ task \in [Tasks -> TaskType]

(* Never more than NUDGE_MAX_PER_INCIDENT nudges are posted for an         *)
(* incident, however many checks overlap while the sink keeps them waiting,*)
(* and none is posted that was not counted (nudge.py:3-6).                 *)
Waiting(i, action) ==
    Cardinality({t \in Tasks : /\ task[t].pc = "auditing"
                               /\ task[t].event.incident = i
                               /\ task[t].event.action = action})

NudgeBudgetKept ==
    \A i \in Incidents :
        posted[i] + Waiting(i, "nudge_posted") <= nudges[i] /\ nudges[i] <= NudgeMax

(* The events that are due: one for every message that was classified and  *)
(* stored, for every nudge, and for every draft of a timeline.             *)
Due(i, action) ==
    CASE action = "message_classified" -> happened[<<i, "stored">>]
      [] action = "nudge_posted"       -> happened[<<i, "nudged">>]
      [] action = "draft_generated"    -> happened[<<i, "drafted">>]

(* The trail tells of everything that the scribe keeps or hands on, once   *)
(* (audit.py:3-5): each entry of a timeline, each nudge of the budget and  *)
(* each draft of a timeline has its own event, recorded, on its way, or    *)
(* posted to a gateway that did not record it.  On standard output nothing *)
(* is ever on its way or lost, and every nudge that was counted has been   *)
(* handed back.  Left out are the two deeds of which the scribe says       *)
(* nothing: TrailIsComplete.                                               *)
EveryActionAudited ==
    \A i \in Incidents :
        /\ Len(timeline[i]) = happened[<<i, "stored">>]
        /\ nudges[i] = happened[<<i, "nudged">>]
        /\ \A action \in Actions :
                trail[<<i, action>>] + missed[<<i, action>>] + Waiting(i, action)
                    = Due(i, action)
        /\ sink = "stdout" =>
                /\ posted[i] = nudges[i]
                /\ \A action \in Actions : trail[<<i, action>>] = Due(i, action)

(* "One complete answer, not three partial ones", of "every classified     *)
(* message, every nudge posted, every draft generated" (audit.py:3-5).     *)
(* Does not hold, standard output or not: a message whose time cannot be   *)
(* read is classified and then lost (watcher.py:34 and 42), and a draft of *)
(* an empty timeline is generated without an event (drafter.py:47).        *)
TrailIsComplete ==
    sink = "stdout" =>
        \A i \in Incidents :
            /\ trail[<<i, "message_classified">>]
                    = happened[<<i, "stored">>] + happened[<<i, "unreadable">>]
            /\ trail[<<i, "nudge_posted">>] = happened[<<i, "nudged">>]
            /\ trail[<<i, "draft_generated">>]
                    = happened[<<i, "drafted">>] + happened[<<i, "drafted nothing">>]

(* What the nudge says: "Two recent messages contradict on the state of the*)
(* service" (nudge.py:66).                                                 *)
ContradictionHasTwoSides ==
    \A t \in Tasks :
        task[t].pc = "auditing" /\ task[t].event.kind = "contradiction" =>
            \E j, k \in task[t].event.because :
                LET s == timeline[task[t].event.incident]
                IN  j # k /\ SaysRecovered(s[j]) /\ SaysStill(s[k])
=============================================================================
