------------------------------- MODULE Inner -------------------------------
(***************************************************************************)
(* The locked state transitions of the observation service                 *)
(* (crates/wf-observer-cli/src/service).  Everything behind Mutex<Inner>   *)
(* is one record, and every method of Inner is an operator from that       *)
(* record to the record it leaves behind, so that a handler is a           *)
(* composition of methods exactly as in the code.  The queues of the       *)
(* subscriptions are a field of the record too: Inner fills them under its *)
(* lock; only Subscription::next, in module Service, drains them.          *)
(*                                                                         *)
(* Data abstractions: one provider (the build registers one); a payload is *)
(* a member of Payloads; every frame has size 1; an armed deadline carries *)
(* no instant, and the caller says which deadlines it finds passed.        *)
(***************************************************************************)
EXTENDS Integers, Sequences, FiniteSets, SequencesExt

CONSTANTS
    SessionIds,       \* session identities; the order is the BTreeMap's
    Topics,           \* the capabilities of the provider's manifest
    SnapshotTopics,   \* those whose descriptor says snapshots
    EventTopics,      \* those whose descriptor says events
    Payloads,         \* JSON payloads
    Builds,           \* game builds a provider may report
    Reasons,          \* reasons a provider gives for an unavailable topic
    MaxSequence,      \* u64::MAX, for Inner.sequence
    MaxGeneration,    \* u64::MAX, for Topic.state.generation
    MaxEpoch,         \* u64::MAX, for Topic.epoch
    MaxSubscription,  \* u64::MAX, for Inner.next_subscription
    QueueBudget,      \* message_bytes: updates one queue may hold
    InitialBudget,    \* RETAINED_SNAPSHOT_BYTES, for a bootstrap
    RetainedBudget,   \* RETAINED_SNAPSHOT_BYTES, for retained snapshots
    None,             \* Option::None
    Keep              \* "the batch says nothing about this field"

Envelope ==
    [payload: Payloads, generation: 1..MaxGeneration, sequence: 0..MaxSequence]

ASSUME ConstantsAssumption ==
    /\ SessionIds \subseteq Nat \ {0} /\ IsFiniteSet(SessionIds)
    /\ Topics \subseteq Nat /\ IsFiniteSet(Topics)
    /\ SnapshotTopics \subseteq Topics
    /\ EventTopics \subseteq Topics
    /\ MaxSequence \in Nat /\ MaxGeneration \in Nat \ {0}
    /\ MaxEpoch \in Nat /\ MaxSubscription \in Nat
    /\ QueueBudget \in Nat /\ InitialBudget \in Nat /\ RetainedBudget \in Nat
    /\ None # Keep
    /\ None \notin Payloads /\ Keep \notin Payloads
    /\ None \notin Envelope
    /\ Reasons \cap {"Idle", "Initializing", "Available", "Keep"} = {}

\* wire::SubscriptionEnd: the terminals of a subscription.
Ends == {"Lagged", "SessionEnded", "ServiceStopped", "SequenceExhausted"}

ASSUME EndsAssumption == None \notin Ends

SubIds == 1..MaxSubscription
Keys == SessionIds \X Topics

\* SessionSelector::All; the other selectors are session identities.
All == 0

\* CapabilityHealth; unavailable because the service itself lost the topic
\* ("Failed"), or for a reason the provider gave.
Healths == {"Idle", "Initializing", "Available", "Failed"} \cup Reasons

\* Iteration order of the session map and of the topic map inside it.
Before(k, j) == k[1] < j[1] \/ (k[1] = j[1] /\ k[2] < j[2])

---------------------------------------------------------------------------
(* Queue: bounded subscription data and its terminal. *)

EmptyQueue ==
    [initial |-> <<>>, updates |-> <<>>, terminal |-> None, completed |-> FALSE]

Ended(q) == q.terminal # None \/ q.completed

\* Mutant: a Begin that was not sent yet is dropped with the rest.
DiscardAll(q) == [q EXCEPT !.initial = <<>>, !.updates = <<>>]

\* Contents::discard: only a Begin that is still unsent survives.
Discard(q) ==
    [q EXCEPT !.initial = IF @ # <<>> /\ Head(@).item = "Begin"
                          THEN <<Head(@)>> ELSE <<>>,
              !.updates = <<>>]

\* Mutant: discarding forgets to leave the terminal behind.
FinishSilently(q, end, discard) ==
    IF Ended(q) THEN q
    ELSE IF discard THEN Discard(q) ELSE [q EXCEPT !.terminal = end]

Finish(q, end, discard) ==
    IF Ended(q) THEN q
    ELSE [(IF discard THEN Discard(q) ELSE q) EXCEPT !.terminal = end]

\* Mutant: an item over the budget is dropped and the stream goes on.
OfferLossy(q, items) ==
    IF Ended(q) \/ Len(items) > QueueBudget - Len(q.updates) THEN q
    ELSE [q EXCEPT !.updates = @ \o items]

\* Queue::offer for a run of items.  The first one over the budget drops what
\* the earlier ones queued, and every later one is refused.
Offer(q, items) ==
    IF Ended(q) \/ items = <<>> THEN q
    ELSE IF Len(items) > QueueBudget - Len(q.updates)
         THEN [Discard(q) EXCEPT !.terminal = "Lagged"]
         ELSE [q EXCEPT !.updates = @ \o items]

\* Mutant: a terminal alone does not wake the reader.
CanPopData(q) == q.initial # <<>> \/ q.updates # <<>>

\* Queue::pop: the item it returns and the queue it leaves.
CanPop(q) == q.initial # <<>> \/ q.updates # <<>> \/ q.terminal # None

PopItem(q) ==
    IF q.initial # <<>> THEN Head(q.initial)
    ELSE IF q.updates # <<>> THEN Head(q.updates)
    ELSE [item |-> "Closed", end |-> q.terminal]

PopRest(q) ==
    IF q.initial # <<>> THEN [q EXCEPT !.initial = Tail(@)]
    ELSE IF q.updates # <<>> THEN [q EXCEPT !.updates = Tail(@)]
    ELSE [q EXCEPT !.terminal = None, !.completed = TRUE]

---------------------------------------------------------------------------
(* Subscribers and what they select. *)

Registered(st) == {id \in SubIds : st.subs[id].registered}

\* The subscribers without those of the set ids.
Unregistered(subs, ids) ==
    [id \in SubIds |-> IF id \in ids THEN [subs[id] EXCEPT !.registered = FALSE]
                       ELSE subs[id]]

MatchesSession(sub, s) == sub.sessions \in {All, s}

Matches(sub, s, t) == MatchesSession(sub, s) /\ t \in sub.topics

SessionUpdates == {"SessionStarted", "SessionChanged", "SessionEnded"}

\* Subscriber::matches_update, and matches_info for the session updates: a
\* selection is never empty and the one provider owns all of its topics.
MatchesUpdate(sub, u) ==
    /\ MatchesSession(sub, u.session)
    /\ u.kind \in SessionUpdates \/ u.topic \in sub.topics

Demands(st, s, t) == \E id \in Registered(st) : Matches(st.subs[id], s, t)

---------------------------------------------------------------------------
(* Topics and sessions. *)

\* The topic of a fresh session, as add_session inserts it.
InitialTopic ==
    [generation |-> 1, epoch |-> 0, demanded |-> FALSE, health |-> "Idle",
     snapshot |-> None, armed |-> FALSE]

\* wire::TopicSnapshot: what a topic shows to its subscribers.
TopicState(topic) ==
    [generation |-> topic.generation, health |-> topic.health,
     snapshot |-> topic.snapshot]

TopicChanged(s, t, topic) ==
    [kind |-> "TopicChanged", session |-> s, topic |-> t, state |-> TopicState(topic)]

TopicReset(s, t, topic) ==
    [kind |-> "TopicReset", session |-> s, topic |-> t, generation |-> topic.generation]

\* The key of S that is the n-th in the maps' order.
Ranked(S, n) ==
    CHOOSE k \in S : Cardinality({j \in S : j = k \/ Before(j, k)}) = n

\* One update per key of S, in the maps' order; F gives the update of a key.
PerKey(S, F(_)) == [i \in 1..Cardinality(S) |-> F(Ranked(S, i))]

---------------------------------------------------------------------------
(* Inner::close, advance, ensure_sequences and emit. *)

\* Mutant: closing withdraws demand and keeps the data.
CloseTopicKeepingData(topic) == [topic EXCEPT !.demanded = FALSE, !.health = "Idle"]

CloseTopic(topic) ==
    [topic EXCEPT !.demanded = FALSE, !.snapshot = None, !.health = "Idle",
                  !.armed = FALSE]

Close(st, end) ==
    [st EXCEPT
        !.stopped = TRUE,
        !.subs = Unregistered(st.subs, SubIds),
        !.queue = [id \in SubIds |->
                      IF st.subs[id].registered
                      THEN Finish(st.queue[id], end, TRUE)
                      ELSE st.queue[id]],
        !.topics = [s \in SessionIds |-> [t \in Topics |->
                      IF s \in st.sessions THEN CloseTopic(st.topics[s][t])
                      ELSE st.topics[s][t]]]]

\* Mutant: one number too many is given out.
HasSequencesOffByOne(st, n) == n <= MaxSequence - st.sequence + 1

HasSequences(st, n) == n <= MaxSequence - st.sequence

Advance(st) ==
    IF st.stopped THEN st
    ELSE IF HasSequences(st, 1) THEN [st EXCEPT !.sequence = @ + 1]
    ELSE Close(st, "SequenceExhausted")

\* The updates that still get a sequence number, each under its cursor.
Numbered(st, us) ==
    [i \in 1..(IF HasSequences(st, Len(us)) THEN Len(us)
               ELSE MaxSequence - st.sequence) |->
        [item |-> "Update", sequence |-> st.sequence + i, update |-> us[i]]]

\* The items that subscriber sub matches, in their order: SelectSeq, with a length
\* that the proofs can see.
Matching(sub, items) ==
    LET picked == {i \in DOMAIN items : MatchesUpdate(sub, items[i].update)}
        Nth(n) == CHOOSE i \in picked : Cardinality({j \in picked : j <= i}) = n
    IN  [n \in 1..Cardinality(picked) |-> items[Nth(n)]]

\* The queue of subscriber id once the items it matches were offered to it.
Offered(st, items, id) ==
    LET sub == st.subs[id]
    IN  IF sub.registered /\ sub.active
        THEN Offer(st.queue[id], Matching(sub, items)) ELSE st.queue[id]

\* Numbers the updates and offers them to the active subscribers.
Publish(st, us) ==
    [st EXCEPT !.sequence = @ + Len(Numbered(st, us)),
               !.queue = [id \in SubIds |-> Offered(st, Numbered(st, us), id)]]

\* Inner::emit for a run of updates: the one that finds no sequence number
\* closes the service, and the later ones find it stopped.
Emit(st, us) ==
    IF st.stopped THEN st
    ELSE IF HasSequences(st, Len(us)) THEN Publish(st, us)
    ELSE Close(Publish(st, us), "SequenceExhausted")

---------------------------------------------------------------------------
(* Inner::settle: demand follows the registered subscribers. *)

\* Mutant: a switch of demand does not move the epoch.
SwitchSameEpoch(topic, d) ==
    [topic EXCEPT !.demanded = d, !.snapshot = None, !.armed = d,
                  !.generation = IF d THEN @ + 1 ELSE @,
                  !.health = IF d THEN "Initializing" ELSE "Idle"]

\* Mutant: new demand starts without a deadline.
SwitchUnarmed(topic, d) ==
    [topic EXCEPT !.demanded = d, !.epoch = @ + 1, !.snapshot = None, !.armed = FALSE,
                  !.generation = IF d THEN @ + 1 ELSE @,
                  !.health = IF d THEN "Initializing" ELSE "Idle"]

\* The body of the loop for a topic whose demand became d.
Switch(topic, d) ==
    [topic EXCEPT !.demanded = d, !.epoch = @ + 1, !.snapshot = None, !.armed = d,
                  !.generation = IF d THEN @ + 1 ELSE @,
                  !.health = IF d THEN "Initializing" ELSE "Idle"]

\* Replaces the topics of the keys in S.
SetTopics(st, S, New(_)) ==
    [st EXCEPT !.topics = [s \in SessionIds |-> [t \in Topics |->
        IF <<s, t>> \in S THEN New(<<s, t>>) ELSE st.topics[s][t]]]]

\* Mutant: a subscriber whose queue ended keeps its demand.
DropNone(st) == st

\* Inner::settle's retain: a subscriber whose queue ended is forgotten.
DropEnded(st) ==
    [st EXCEPT !.subs = Unregistered(st.subs, {id \in SubIds : Ended(st.queue[id])})]

\* One round of the loop.  The keys before the first one whose counters are
\* exhausted are already switched when the service closes.  (The epoch of that
\* key itself may be one higher in the code: nothing reads it once stopped.)
SettleOnce(st0) ==
    LET st == DropEnded(st0)
        Topic(k) == st.topics[k[1]][k[2]]
        Wanted(k) == Demands(st, k[1], k[2])
        changed == {k \in Keys : k[1] \in st.sessions
                                 /\ Wanted(k) # Topic(k).demanded}
        exhausted == {k \in changed :
            \/ Topic(k).epoch = MaxEpoch
            \/ Wanted(k) /\ Topic(k).generation = MaxGeneration}
        reached == {k \in changed : \A j \in exhausted : Before(k, j)}
        New(k) == Switch(Topic(k), Wanted(k))
        Update(k) == IF Wanted(k) THEN TopicReset(k[1], k[2], New(k))
                     ELSE TopicChanged(k[1], k[2], New(k))
        switched == SetTopics(st, reached, New)
    IN  IF exhausted # {} THEN Close(switched, "SequenceExhausted")
        ELSE Emit(switched, PerKey(changed, Update))

\* A second round removes the subscribers the first round's resets overflowed.
\* It only withdraws demand, so its updates match nobody and it is the last.
Settle(st) ==
    LET once == SettleOnce(st)
    IN  IF \E id \in Registered(once) : Ended(once.queue[id])
        THEN SettleOnce(once) ELSE once

---------------------------------------------------------------------------
(* Inner::expire, for the keys whose deadline the caller finds passed. *)

ArmedKeys(st) == {k \in Keys : k[1] \in st.sessions /\ st.topics[k[1]][k[2]].armed}

Lapse(topic) ==
    [topic EXCEPT !.armed = FALSE, !.epoch = @ + 1, !.snapshot = None,
                  !.health = "Failed"]

Expire(st, due) ==
    LET Topic(k) == st.topics[k[1]][k[2]]
        exhausted == {k \in due : Topic(k).epoch = MaxEpoch}
        reached == {k \in due : \A j \in exhausted : Before(k, j)}
        New(k) == Lapse(Topic(k))
        Update(k) == TopicChanged(k[1], k[2], New(k))
        lapsed == SetTopics(st, reached, New)
    IN  IF exhausted # {} THEN Close(lapsed, "SequenceExhausted")
        ELSE Settle(Emit(lapsed, PerKey(due, Update)))

---------------------------------------------------------------------------
(* Inner::sync_runtime.  A status is whether discovery fails, and for every *)
(* target one of these, or the identity of the session Observing it.        *)

Absent == 0
Attaching == -1
Retrying == -2

\* The sessions a status observes.
Observed(status) == {status.targets[p] : p \in DOMAIN status.targets} \cap SessionIds

\* SessionEnded carries whether the session's target is now being retried.
EndReason(st, status, s) ==
    IF \E p \in DOMAIN status.targets :
          st.runtime.targets[p] = s /\ status.targets[p] = Retrying
    THEN "ProviderFailed" ELSE "TargetExited"

\* Announces the end of the sessions in E, forgets them, and finishes the
\* subscriptions to exactly one of them.  When the sequence runs out on the way
\* only the sessions already announced finish their subscriptions themselves.
EndSessions(st, status, E) ==
    LET order == SetToSortSeq(E, <)
        us == [i \in 1..Cardinality(E) |->
                 [kind |-> "SessionEnded", session |-> order[i],
                  reason |-> EndReason(st, status, order[i])]]
        announced == {s \in E : HasSequences(st, Cardinality({e \in E : e <= s}))}
        sent == Publish(st, us)
        own == {id \in Registered(st) : st.subs[id].sessions \in announced}
        left == [sent EXCEPT
            !.sessions = @ \ E,
            !.topics = [s \in SessionIds |-> IF s \in E
                          THEN [t \in Topics |-> InitialTopic] ELSE @[s]],
            !.build = [s \in SessionIds |-> IF s \in E THEN None ELSE @[s]],
            !.subs = Unregistered(@, own),
            !.queue = [id \in SubIds |->
                        IF id \in own THEN Finish(@[id], "SessionEnded", FALSE)
                        ELSE @[id]]]
    IN  IF announced = E THEN left ELSE Close(left, "SequenceExhausted")

\* add_session; the numbers of all its updates are reserved first.
AddSession(st, s) ==
    LET started == <<[kind |-> "SessionStarted", session |-> s, build |-> None]>>
        First(k) == TopicChanged(s, k[2], InitialTopic)
        us == started \o PerKey({s} \X Topics, First)
        inserted == [st EXCEPT !.sessions = @ \cup {s},
                               !.topics[s] = [t \in Topics |-> InitialTopic]]
    IN  IF st.stopped THEN st
        ELSE IF ~HasSequences(st, 1 + Cardinality(Topics))
             THEN Close(st, "SequenceExhausted")
             ELSE Emit(inserted, us)

\* The worker publishes after every attachment, so at most one session is new.
SyncRuntime(st, status) ==
    IF st.stopped \/ st.runtime = status THEN st
    ELSE LET new == Observed(status) \ st.sessions
             ended == EndSessions(st, status, st.sessions \ Observed(status))
             added == IF new = {} THEN ended
                      ELSE AddSession(ended, CHOOSE s \in new : TRUE)
         IN  Settle(Advance([added EXCEPT !.runtime = status]))

---------------------------------------------------------------------------
(* Inner::capture and ServiceView::subscribe. *)

\* The frame of a session itself, which comes before those of its topics.
SessionSlot == -1

\* The coherent bootstrap of a subscription: Begin, every selected session with
\* its selected topics, Ready.
Capture(st, sub) ==
    LET slots == {s \in st.sessions : MatchesSession(sub, s)}
                     \X ({SessionSlot} \cup sub.topics)
        Frame(k) ==
            IF k[2] = SessionSlot
            THEN [item |-> "Session", session |-> k[1], build |-> st.build[k[1]]]
            ELSE [item |-> "Topic", session |-> k[1], topic |-> k[2],
                  state |-> TopicState(st.topics[k[1]][k[2]])]
    IN  <<[item |-> "Begin", sequence |-> st.sequence]>>
        \o PerKey(slots, Frame)
        \o <<[item |-> "Ready", sequence |-> st.sequence]>>

Unregister(st, id) == [st EXCEPT !.subs = Unregistered(@, {id})]

\* The checks of subscribe that depend on the state.
Acceptable(st, sel) ==
    /\ ~st.stopped
    /\ sel.topics # {}
    /\ sel.sessions = All \/ sel.sessions \in st.sessions
    /\ st.next < MaxSubscription

\* subscribe after its checks: settle with the subscriber still inactive, take
\* the bootstrap, and only then let updates reach the queue.
Admit(st, sel) ==
    LET id == st.next + 1
        sub == [registered |-> TRUE, active |-> FALSE,
                sessions |-> sel.sessions, topics |-> sel.topics]
        settled == Settle([st EXCEPT !.next = id, !.subs[id] = sub,
                                     !.queue[id] = EmptyQueue])
        frames == Capture(settled, sub)
    IN  IF settled.subs[id].registered /\ Len(frames) <= InitialBudget
        THEN [settled EXCEPT !.subs[id].active = TRUE, !.queue[id].initial = frames]
        ELSE Settle(Unregister(settled, id))

\* Inner as ServiceState::new makes it; nothing is known about any target.
InitialInner(targets) ==
    [sequence |-> 0,
     stopped |-> FALSE,
     runtime |-> [targets |-> [p \in targets |-> Absent], error |-> FALSE],
     sessions |-> {},
     build |-> [s \in SessionIds |-> None],
     topics |-> [s \in SessionIds |-> [t \in Topics |-> InitialTopic]],
     next |-> 0,
     subs |-> [id \in SubIds |-> [registered |-> FALSE, active |-> FALSE,
                                  sessions |-> All, topics |-> {}]],
     queue |-> [id \in SubIds |-> EmptyQueue]]

=============================================================================
