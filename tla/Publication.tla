---------------------------- MODULE Publication ----------------------------
(***************************************************************************)
(* Staged provider output and its generation-fenced, atomic publication    *)
(* (service/publication.rs and service/batch.rs).                          *)
(*                                                                         *)
(* A batch is kept per topic as the net effect of the operations pushed    *)
(* for it: each push makes the assignments StagedPublication::prepare will *)
(* make for that operation, with Keep where prepare leaves the field of    *)
(* the current topic alone.  Operations on different topics commute except *)
(* for the order in which their resets and events are numbered; the model  *)
(* numbers them in topic order.                                            *)
(***************************************************************************)
EXTENDS Inner

CONSTANT MaxPushes   \* operations a provider pushes for one topic in one poll

ASSUME PushesAssumption == MaxPushes \in 1..3

\* What a batch says about a topic it has no operation for.
Untouched ==
    [touched |-> FALSE, reset |-> FALSE, health |-> "Keep", snapshot |-> Keep,
     armed |-> "Keep", events |-> <<>>]

\* EventSink::reset: also forgets the events pushed for the topic so far.
PushReset(e) ==
    [e EXCEPT !.touched = TRUE, !.reset = TRUE, !.health = "Initializing",
              !.snapshot = None, !.armed = "Arm", !.events = <<>>]

PushSnapshot(e, payload) ==
    [e EXCEPT !.touched = TRUE, !.health = "Available", !.snapshot = payload,
              !.armed = "Arm"]

PushEvent(e, payload) ==
    [e EXCEPT !.touched = TRUE, !.events = Append(@, payload)]

\* Mutant: a topic that became unavailable keeps its snapshot.
PushHealthKeeping(e, health) ==
    [e EXCEPT !.touched = TRUE, !.health = health,
              !.armed = IF health = "Available" THEN "Arm" ELSE "Clear"]

\* HealthSink::update.
PushHealth(e, health) ==
    IF health = "Available"
    THEN [e EXCEPT !.touched = TRUE, !.health = health, !.armed = "Arm"]
    ELSE [e EXCEPT !.touched = TRUE, !.health = health, !.snapshot = None,
                   !.armed = "Clear"]

\* The effects one more operation on topic t can give; a topic resets at most
\* once per poll, and only its declared kinds of data are accepted.
Pushed(t, E) ==
    E \cup {PushReset(e) : e \in {x \in E : ~x.reset}}
      \cup {PushHealth(e, h) : e \in E, h \in {"Available"} \cup Reasons}
      \cup (IF t \in SnapshotTopics
            THEN {PushSnapshot(e, v) : e \in E, v \in Payloads} ELSE {})
      \cup (IF t \in EventTopics
            THEN {PushEvent(e, v) : e \in E, v \in Payloads} ELSE {})

Effects(t) ==
    LET one == Pushed(t, {Untouched})
        two == Pushed(t, one)
    IN  IF MaxPushes = 1 THEN one ELSE IF MaxPushes = 2 THEN two ELSE Pushed(t, two)

\* What a provider may stage.  A batch the sink refused (a second reset, an
\* undeclared capability, too many bytes) fails the poll instead.
Batches == {b \in [Topics -> UNION {Effects(t) : t \in Topics}] :
               \A t \in Topics : b[t] \in Effects(t)}

\* PollBatch::reset_intents.
ResetIntents(batch) == {t \in Topics : batch[t].reset}

---------------------------------------------------------------------------
(* PollTicket: the demanded topics of a session under their fences. *)

\* PollTicket::current, where it is Some.
HasTicket(st, s) == ~st.stopped /\ s \in st.sessions

CurrentTicket(st, s) ==
    [t \in {u \in Topics : st.topics[s][u].demanded} |->
        [generation |-> st.topics[s][t].generation, epoch |-> st.topics[s][t].epoch]]

---------------------------------------------------------------------------
(* ServiceState::discard_poll. *)

Fail(topic, reset) ==
    [topic EXCEPT !.generation = IF reset THEN @ + 1 ELSE @,
                  !.epoch = IF reset THEN @ + 1 ELSE @,
                  !.health = "Failed", !.snapshot = None, !.armed = FALSE]

\* Mutant: a reset counts only while nothing lapsed.
AffectedSameEpoch(st, s, ticket, resets, failed) ==
    {t \in DOMAIN ticket :
        LET topic == st.topics[s][t] IN
        /\ topic.demanded
        /\ topic.generation = ticket[t].generation
        /\ topic.epoch = ticket[t].epoch
        /\ t \in resets \/ failed}

\* The ticket's topics a discarded poll still speaks for: the generation is the
\* one it sampled, and either the source reset or the poll itself failed.
Affected(st, s, ticket, resets, failed) ==
    {t \in DOMAIN ticket :
        LET topic == st.topics[s][t] IN
        /\ topic.demanded
        /\ topic.generation = ticket[t].generation
        /\ t \in resets \/ (failed /\ topic.epoch = ticket[t].epoch)}

DiscardPoll(st, s, ticket, resets, failed) ==
    LET affected == Affected(st, s, ticket, resets, failed)
        reset == affected \cap resets
        Topic(k) == st.topics[k[1]][k[2]]
        New(k) == Fail(Topic(k), k[2] \in reset)
        \* Two slots per topic: its reset, then its new state.
        slots == {<<t, 1>> : t \in reset} \cup {<<t, 2>> : t \in affected}
        Update(x) == IF x[2] = 1 THEN TopicReset(s, x[1], New(<<s, x[1]>>))
                     ELSE TopicChanged(s, x[1], New(<<s, x[1]>>))
        failedTopics == SetTopics(st, {s} \X affected, New)
    IN  IF ~HasTicket(st, s) THEN st
        ELSE IF \/ \E t \in reset : \/ st.topics[s][t].generation = MaxGeneration
                                    \/ st.topics[s][t].epoch = MaxEpoch
                \/ ~HasSequences(st, Cardinality(slots))
             THEN Close(st, "SequenceExhausted")
             ELSE Settle(Emit(failedTopics, PerKey(slots, Update)))

---------------------------------------------------------------------------
(* ServiceState::commit_poll. *)

\* Mutant: a snapshot after a reset carries the generation before it.
StagedOldGeneration(topic, e) ==
    [topic EXCEPT
        !.generation = IF e.reset THEN @ + 1 ELSE @,
        !.epoch = IF e.reset THEN @ + 1 ELSE @,
        !.health = IF e.health = "Keep" THEN @ ELSE e.health,
        !.snapshot = IF e.snapshot = Keep THEN @
                     ELSE IF e.snapshot = None THEN None
                     ELSE [payload |-> e.snapshot, generation |-> topic.generation,
                           sequence |-> 0],
        !.armed = IF e.armed = "Keep" THEN @ ELSE e.armed = "Arm"]

Staged(topic, e) ==
    LET generation == IF e.reset THEN topic.generation + 1 ELSE topic.generation
    IN  [topic EXCEPT
            !.generation = generation,
            !.epoch = IF e.reset THEN @ + 1 ELSE @,
            !.health = IF e.health = "Keep" THEN @ ELSE e.health,
            !.snapshot = IF e.snapshot = Keep THEN @
                         ELSE IF e.snapshot = None THEN None
                         ELSE [payload |-> e.snapshot, generation |-> generation,
                               sequence |-> 0],
            !.armed = IF e.armed = "Keep" THEN @ ELSE e.armed = "Arm"]

Touched(batch) == {t \in Topics : batch[t].touched}

\* Mutant: one current topic is enough.
FencedByAny(st, s, ticket) ==
    \E t \in DOMAIN ticket :
        /\ st.topics[s][t].demanded
        /\ st.topics[s][t].generation = ticket[t].generation
        /\ st.topics[s][t].epoch = ticket[t].epoch

\* The fence: every topic of the ticket is as the poll found it.
Fenced(st, s, ticket) ==
    \A t \in DOMAIN ticket :
        /\ st.topics[s][t].demanded
        /\ st.topics[s][t].generation = ticket[t].generation
        /\ st.topics[s][t].epoch = ticket[t].epoch

\* Mutant: the budget counts the snapshots of the polled session only.
RetainedHere(st, s, batch) ==
    {k \in {s} \X Topics :
        (IF batch[k[2]].touched THEN Staged(st.topics[s][k[2]], batch[k[2]])
         ELSE st.topics[s][k[2]]).snapshot # None}

\* The keys of all sessions that hold a snapshot once the batch is in.
RetainedAfter(st, s, batch) ==
    {k \in Keys :
        /\ k[1] \in st.sessions
        /\ (IF k[1] = s /\ batch[k[2]].touched
            THEN Staged(st.topics[s][k[2]], batch[k[2]])
            ELSE st.topics[k[1]][k[2]]).snapshot # None}

\* prepare and validate accept the batch: it is about demanded topics only, an
\* available snapshot topic has a snapshot, events come from an available topic,
\* and the retained snapshots fit.
Valid(st, s, ticket, batch) ==
    LET New(t) == Staged(st.topics[s][t], batch[t])
    IN  /\ Touched(batch) \subseteq DOMAIN ticket
        /\ \A t \in Touched(batch) :
              /\ New(t).health = "Available" /\ t \in SnapshotTopics
                     => New(t).snapshot # None
              /\ batch[t].events # <<>> => New(t).health = "Available"
        /\ Cardinality(RetainedAfter(st, s, batch)) <= RetainedBudget

Payload(snapshot) == IF snapshot = None THEN None ELSE snapshot.payload

\* The staged topic differs from what subscribers have.
Changed(old, new) ==
    \/ old.generation # new.generation
    \/ old.health # new.health
    \/ Payload(old.snapshot) # Payload(new.snapshot)

\* The events of a batch, as <<topic, position>>.
EventSlots(batch) ==
    {x \in Topics \X (1..MaxPushes) : x[2] <= Len(batch[x[1]].events)}

\* The upper bound of sequence numbers commit_poll reserves before it mutates.
Reservation(st, s, batch, build) ==
    Cardinality(ResetIntents(batch)) + Cardinality(Touched(batch))
        + Cardinality(EventSlots(batch)) + (IF build # st.build[s] THEN 1 ELSE 0)

\* "Stale" and "Exhausted" are Ok(false), "Rejected" is Err.
CommitOutcome(st, s, ticket, batch, build) ==
    IF ~HasTicket(st, s) \/ ~Fenced(st, s, ticket) THEN "Stale"
    ELSE IF \E t \in ResetIntents(batch) : \/ st.topics[s][t].generation = MaxGeneration
                                           \/ st.topics[s][t].epoch = MaxEpoch
         THEN "Exhausted"
    ELSE IF ~Valid(st, s, ticket, batch) THEN "Rejected"
    ELSE IF ~HasSequences(st, Reservation(st, s, batch, build)) THEN "Exhausted"
    ELSE "Committed"

\* StagedPublication::commit after the metadata: resets, changed topics, events.
\* A topic that is not changed keeps its snapshot and so its sequence number,
\* yet its deadline is renewed.
Commit(st, s, batch, build) ==
    LET Old(t) == st.topics[s][t]
        New(t) == Staged(Old(t), batch[t])
        resets == ResetIntents(batch)
        changed == {t \in Touched(batch) : Changed(Old(t), New(t))}
        events == EventSlots(batch)
        meta == IF build = st.build[s] THEN <<>>
                ELSE <<[kind |-> "SessionChanged", session |-> s, build |-> build]>>
        base == st.sequence + Len(meta) + Cardinality(resets)
        Number(t) == base + Cardinality({c \in changed : c <= t})
        Stamped(t) == IF New(t).snapshot = None THEN New(t)
                      ELSE [New(t) EXCEPT !.snapshot.sequence = Number(t)]
        Topic(k) == IF k[2] \in changed THEN Stamped(k[2])
                    ELSE [New(k[2]) EXCEPT !.snapshot = Old(k[2]).snapshot]
        Reset(k) == TopicReset(s, k[2], New(k[2]))
        Change(k) == TopicChanged(s, k[2], Stamped(k[2]))
        Event(x) == [kind |-> "Event", session |-> s, topic |-> x[1],
                     generation |-> New(x[1]).generation,
                     sequence |-> base + Cardinality(changed)
                         + Cardinality({y \in events : y = x \/ Before(y, x)}),
                     payload |-> batch[x[1]].events[x[2]]]
        stored == [SetTopics(st, {s} \X Touched(batch), Topic)
                       EXCEPT !.build[s] = build]
    IN  Settle(Emit(stored, meta \o PerKey({s} \X resets, Reset)
                                 \o PerKey({s} \X changed, Change)
                                 \o PerKey(events, Event)))

\* commit_poll as a whole.
CommitPoll(st, s, ticket, batch, build) ==
    LET outcome == CommitOutcome(st, s, ticket, batch, build)
    IN  IF outcome = "Committed" THEN Commit(st, s, batch, build)
        ELSE IF outcome = "Exhausted" THEN Close(st, "SequenceExhausted")
        ELSE st

=============================================================================
