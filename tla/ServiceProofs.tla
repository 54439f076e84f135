--------------------------- MODULE ServiceProofs ---------------------------
(***************************************************************************)
(* Proofs about Service for every value of its constants: the counters     *)
(* never leave their range, data is exposed only while it is fresh and     *)
(* demanded, and a stopped service holds nothing.                          *)
(*                                                                         *)
(* Every method of Inner preserves Good(st); the lemmas follow the order   *)
(* of the methods in modules Inner and Publication, and the theorems       *)
(* combine them, one action after the other.                               *)
(***************************************************************************)
EXTENDS Service, FiniteSetTheorems, TLAPS

Fields == {"sequence", "stopped", "runtime", "sessions", "build", "topics", "next",
           "subs", "queue"}

Typed(st) == DOMAIN st = Fields /\ WellTyped(st)

\* Every session, live or not: a session that is not live has initial topics.
Fresh(st) == \A s \in SessionIds, t \in Topics : FreshTopic(t, st.topics[s][t])

Stamps(st, n) == \A s \in SessionIds, t \in Topics : StampKnown(st.topics[s][t], n)

Empty(st) ==
    st.stopped =>
        /\ Registered(st) = {}
        /\ \A s \in st.sessions, t \in Topics :
              LET topic == st.topics[s][t] IN
              ~topic.demanded /\ ~topic.armed /\ topic.snapshot = None

\* What a method may rely on while it runs; Good is what it must restore.
Sound(st) == Typed(st) /\ Fresh(st) /\ Empty(st)

Good(st) == Sound(st) /\ Stamps(st, st.sequence)

---------------------------------------------------------------------------
(* Lists of updates and finite sets of keys. *)

\* A list of n updates has length n.
LEMMA LenList ==
    ASSUME NEW n \in Nat, NEW f, f = [i \in 1..n |-> f[i]]
    PROVE  Len(f) = n
  BY Z3

ListOf(x, n) == n \in Nat /\ x = [i \in 1..n |-> x[i]]

\* A list of m updates followed by one of n is one of m + n.
LEMMA ConcatList ==
    \A x, y, m, n : ListOf(x, m) /\ ListOf(y, n) => ListOf(x \o y, m + n)
<1> SUFFICES ASSUME NEW x, NEW y, NEW m, NEW n, ListOf(x, m), ListOf(y, n)
             PROVE  ListOf(x \o y, m + n)
  OBVIOUS
<1> DEFINE S == {x[i] : i \in 1..m} \cup {y[i] : i \in 1..n}
<1>1. m \in Nat /\ n \in Nat /\ m + n \in Nat BY DEF ListOf
<1>2. x \in [1..m -> S] BY DEF ListOf
<1>3. y \in [1..n -> S] BY DEF ListOf
<1> HIDE DEF S
<1>4. x \in Seq(S) /\ Len(x) = m BY <1>1, <1>2
<1>5. y \in Seq(S) /\ Len(y) = n BY <1>1, <1>3
<1>6. Len(x \o y) = m + n /\ x \o y \in Seq(S)
  BY <1>4, <1>5
<1>7. ASSUME NEW z \in Seq(S), NEW k \in Nat, Len(z) = k PROVE z = [i \in 1..k |-> z[i]]
  BY <1>7
<1> QED BY <1>1, <1>6, <1>7 DEF ListOf

\* Sets of topics and of keys are finite.
LEMMA FiniteKeys ==
    /\ \A S \in SUBSET Topics : IsFiniteSet(S) /\ Cardinality(S) \in Nat
    /\ \A S \in SUBSET Keys : IsFiniteSet(S) /\ Cardinality(S) \in Nat
    /\ \A S \in SUBSET SessionIds : IsFiniteSet(S) /\ Cardinality(S) \in Nat
<1>1. IsFiniteSet(Keys)
  BY FS_Product, ConstantsAssumption DEF Keys
<1> QED BY <1>1, FS_Subset, FS_CardinalityType, ConstantsAssumption

\* Sets of numbered slots of topics are finite.
LEMMA FiniteSlots ==
    ASSUME NEW n \in Nat, NEW S \in SUBSET (Topics \X (1..n))
    PROVE  IsFiniteSet(S) /\ Cardinality(S) \in Nat
<1>1. IsFiniteSet(1..n)
  <2>1. 1 \in Int /\ n \in Int
    OBVIOUS
  <2> QED BY <2>1, FS_Interval
<1>2. IsFiniteSet(Topics \X (1..n))
  BY <1>1, FS_Product, ConstantsAssumption
<1> QED BY <1>2, FS_Subset, FS_CardinalityType

---------------------------------------------------------------------------
(* Topics. *)

\* CloseTopic leaves an idle topic.
LEMMA CloseTopicFresh ==
    ASSUME NEW t \in Topics, NEW topic \in TopicType
    PROVE  LET c == CloseTopic(topic) IN
           /\ c \in TopicType /\ FreshTopic(t, c) /\ \A n : StampKnown(c, n)
           /\ ~c.demanded /\ ~c.armed /\ c.snapshot = None
  BY ConstantsAssumption DEF CloseTopic, TopicType, FreshTopic, StampKnown, Healths

\* The topics of a new session are idle.
LEMMA InitialTopicFresh ==
    ASSUME NEW t \in Topics
    PROVE  /\ InitialTopic \in TopicType /\ FreshTopic(t, InitialTopic)
           /\ \A n : StampKnown(InitialTopic, n)
           /\ ~InitialTopic.demanded /\ ~InitialTopic.armed /\ InitialTopic.snapshot = None
  BY ConstantsAssumption DEF InitialTopic, TopicType, FreshTopic, StampKnown, Healths

\* A switch of demand leaves a topic without data, armed exactly when demanded.
LEMMA SwitchFresh ==
    ASSUME NEW t \in Topics, NEW topic \in TopicType, NEW d \in BOOLEAN,
           topic.epoch # MaxEpoch, d => topic.generation # MaxGeneration
    PROVE  LET c == Switch(topic, d) IN
           c \in TopicType /\ FreshTopic(t, c) /\ \A n : StampKnown(c, n)
<1> DEFINE c == Switch(topic, d)
<1>1. /\ c.generation = IF d THEN topic.generation + 1 ELSE topic.generation
      /\ c.epoch = topic.epoch + 1 /\ c.demanded = d /\ c.armed = d
      /\ c.health = IF d THEN "Initializing" ELSE "Idle"
      /\ c.snapshot = None
  BY DEF Switch, TopicType
<1>2. /\ (IF d THEN topic.generation + 1 ELSE topic.generation) \in 1..MaxGeneration
      /\ topic.epoch + 1 \in 0..MaxEpoch
  BY ConstantsAssumption DEF TopicType, Healths
<1>3. c \in TopicType
  BY <1>1, <1>2 DEF Switch, TopicType, Healths
<1> HIDE DEF c
<1>4. FreshTopic(t, c) /\ \A n : StampKnown(c, n)
  BY <1>1 DEF FreshTopic, StampKnown, TopicType
<1> QED BY <1>3, <1>4 DEF c

\* A topic whose armed deadline passes loses its data and stays demanded.
LEMMA LapseFresh ==
    ASSUME NEW t \in Topics, NEW topic \in TopicType, FreshTopic(t, topic),
           topic.armed, topic.epoch # MaxEpoch
    PROVE  LET c == Lapse(topic) IN
           c \in TopicType /\ FreshTopic(t, c) /\ \A n : StampKnown(c, n)
<1> DEFINE c == Lapse(topic)
<1>1. /\ c.generation = topic.generation /\ c.epoch = topic.epoch + 1
      /\ c.demanded = topic.demanded /\ c.armed = FALSE
      /\ c.health = "Failed" /\ c.snapshot = None
  BY DEF Lapse, TopicType
<1>2. topic.epoch + 1 \in 0..MaxEpoch
  BY ConstantsAssumption DEF TopicType, Healths
<1>3. c \in TopicType
  BY <1>1, <1>2 DEF Lapse, TopicType, Healths
<1> HIDE DEF c
<1>4. FreshTopic(t, c) /\ \A n : StampKnown(c, n)
  BY <1>1 DEF FreshTopic, StampKnown, TopicType
<1> QED BY <1>3, <1>4 DEF c

\* A failed poll leaves a demanded topic without data and without a deadline.
LEMMA FailFresh ==
    ASSUME NEW t \in Topics, NEW topic \in TopicType, topic.demanded,
           NEW reset \in BOOLEAN,
           reset => topic.generation # MaxGeneration /\ topic.epoch # MaxEpoch
    PROVE  LET c == Fail(topic, reset) IN
           c \in TopicType /\ FreshTopic(t, c) /\ \A n : StampKnown(c, n)
<1> DEFINE c == Fail(topic, reset)
<1>1. /\ c.generation = IF reset THEN topic.generation + 1 ELSE topic.generation
      /\ c.epoch = IF reset THEN topic.epoch + 1 ELSE topic.epoch
      /\ c.demanded = topic.demanded /\ c.armed = FALSE
      /\ c.health = "Failed" /\ c.snapshot = None
  BY DEF Fail, TopicType
<1>2. /\ (IF reset THEN topic.generation + 1 ELSE topic.generation) \in 1..MaxGeneration
      /\ (IF reset THEN topic.epoch + 1 ELSE topic.epoch) \in 0..MaxEpoch
  BY ConstantsAssumption DEF TopicType, Healths
<1>3. c \in TopicType
  BY <1>1, <1>2 DEF Fail, TopicType, Healths
<1> HIDE DEF c
<1>4. FreshTopic(t, c) /\ \A n : StampKnown(c, n)
  BY <1>1 DEF FreshTopic, StampKnown, TopicType
<1> QED BY <1>3, <1>4 DEF c

\* Subscribers stay well formed when some are forgotten.
LEMMA UnregisteredSubs ==
    ASSUME NEW subs \in [SubIds -> SubType], NEW ids
    PROVE  /\ Unregistered(subs, ids) \in [SubIds -> SubType]
           /\ \A id \in SubIds : Unregistered(subs, ids)[id].registered
                                   <=> subs[id].registered /\ id \notin ids
<1>1. \A id \in SubIds :
        /\ [subs[id] EXCEPT !.registered = FALSE] \in SubType
        /\ [subs[id] EXCEPT !.registered = FALSE].registered = FALSE
  BY DEF SubType
<1> QED BY <1>1 DEF Unregistered

---------------------------------------------------------------------------
(* Inner::close, advance and emit. *)

\* Close empties the service, whatever state it is reached in.
LEMMA CloseGood ==
    ASSUME NEW st, Typed(st), Fresh(st), NEW end
    PROVE  /\ Stamps(st, st.sequence) => Good(Close(st, end))
           /\ Sound(Close(st, end))
           /\ Close(st, end).stopped
           /\ Close(st, end).sequence = st.sequence
           /\ Close(st, end).next = st.next
           /\ Close(st, end).runtime = st.runtime
<1> DEFINE c == Close(st, end)
<1>1. /\ DOMAIN c = Fields /\ c.stopped /\ c.sequence = st.sequence
      /\ c.sessions = st.sessions /\ c.next = st.next /\ c.runtime = st.runtime
      /\ c.subs = Unregistered(st.subs, SubIds)
      /\ c.topics = [s \in SessionIds |-> [t \in Topics |->
                      IF s \in st.sessions THEN CloseTopic(st.topics[s][t])
                      ELSE st.topics[s][t]]]
      /\ c.stopped \in BOOLEAN
  BY DEF Close, Typed, Fields
<1> HIDE DEF c
<1>2. \A s \in SessionIds, t \in Topics : st.topics[s][t] \in TopicType
  BY DEF Typed, WellTyped
<1>3. \A s \in SessionIds, t \in Topics :
        /\ c.topics[s][t] \in TopicType /\ FreshTopic(t, c.topics[s][t])
        /\ \A n : StampKnown(st.topics[s][t], n) => StampKnown(c.topics[s][t], n)
        /\ s \in st.sessions => /\ ~c.topics[s][t].demanded /\ ~c.topics[s][t].armed
                                /\ c.topics[s][t].snapshot = None
  <2> TAKE s \in SessionIds, t \in Topics
  <2>1. c.topics[s][t] = IF s \in st.sessions THEN CloseTopic(st.topics[s][t])
                         ELSE st.topics[s][t]
    BY <1>1
  <2> QED BY <2>1, <1>2, CloseTopicFresh DEF Fresh
<1>4. c.topics \in [SessionIds -> [Topics -> TopicType]]
  BY <1>1, <1>3
<1>5. c.subs \in [SubIds -> SubType] /\ Registered(c) = {}
  <2>1. st.subs \in [SubIds -> SubType]
    BY DEF Typed, WellTyped
  <2> QED BY <1>1, <2>1, UnregisteredSubs DEF Registered
<1>6. Typed(c)
  BY <1>1, <1>4, <1>5 DEF Typed, WellTyped
<1>7. Fresh(c)
  BY <1>3 DEF Fresh
<1>8. Empty(c)
  <2>1. c.sessions = st.sessions /\ st.sessions \subseteq SessionIds
    BY <1>1 DEF Typed, WellTyped
  <2>2. \A s \in c.sessions, t \in Topics :
          ~c.topics[s][t].demanded /\ ~c.topics[s][t].armed /\ c.topics[s][t].snapshot = None
    BY <1>3, <2>1
  <2> QED BY <1>5, <2>2 DEF Empty
<1>9. Stamps(st, st.sequence) => Stamps(c, c.sequence)
  BY <1>1, <1>3 DEF Stamps
<1>10. (Stamps(st, st.sequence) => Good(c)) /\ Sound(c)
  BY <1>6, <1>7, <1>8, <1>9 DEF Good, Sound
<1> QED BY <1>1, <1>10 DEF c

\* Publish gives out numbers and touches nothing else but queues.
LEMMA PublishFields ==
    ASSUME NEW st, Typed(st), NEW us, Len(us) \in Nat
    PROVE  LET p == Publish(st, us) IN
           /\ DOMAIN p = Fields
           /\ p.sequence = IF HasSequences(st, Len(us)) THEN st.sequence + Len(us)
                           ELSE MaxSequence
           /\ p.sequence \in st.sequence..MaxSequence
           /\ p.stopped = st.stopped /\ p.sessions = st.sessions /\ p.topics = st.topics
           /\ p.next = st.next /\ p.subs = st.subs /\ p.runtime = st.runtime
<1> DEFINE n == IF HasSequences(st, Len(us)) THEN Len(us) ELSE MaxSequence - st.sequence
           items == Numbered(st, us)
           p == Publish(st, us)
<1>1. n \in Nat /\ st.sequence \in Nat
  BY ConstantsAssumption DEF Typed, WellTyped, HasSequences
<1>2. items = [i \in 1..n |-> items[i]]
  BY DEF Numbered
<1>3. Len(items) = n
  <2> HIDE DEF items, n
  <2> QED BY <1>1, <1>2, LenList
<1>4. /\ st.sequence + n = IF HasSequences(st, Len(us)) THEN st.sequence + Len(us)
                           ELSE MaxSequence
      /\ st.sequence + n \in st.sequence..MaxSequence
  BY ConstantsAssumption DEF Typed, WellTyped, HasSequences
<1>5. p.sequence = st.sequence + n
  <2> HIDE DEF n
  <2> QED BY <1>3 DEF Publish, Typed, Fields
<1>6. /\ DOMAIN p = Fields
      /\ p.stopped = st.stopped /\ p.sessions = st.sessions /\ p.topics = st.topics
      /\ p.next = st.next /\ p.subs = st.subs /\ p.runtime = st.runtime
  BY DEF Publish, Typed, Fields
<1> QED BY <1>4, <1>5, <1>6

\* Typed, Fresh, Empty and Stamps look at a few fields only.
LEMMA SameFields ==
    ASSUME NEW st, NEW p, DOMAIN p = Fields, p.sequence \in 0..MaxSequence,
           p.stopped = st.stopped, p.sessions = st.sessions, p.topics = st.topics,
           p.next = st.next, p.subs = st.subs
    PROVE  /\ Typed(st) => Typed(p)
           /\ Fresh(st) => Fresh(p)
           /\ Empty(st) => Empty(p)
           /\ \A n : Stamps(st, n) => Stamps(p, n)
<1>1. Typed(st) => Typed(p)
  BY DEF Typed, WellTyped
<1>2. Fresh(st) => Fresh(p)
  BY DEF Fresh
<1>3. Empty(st) => Empty(p)
  BY DEF Empty, Registered
<1>4. \A n : Stamps(st, n) => Stamps(p, n)
  BY DEF Stamps
<1> QED BY <1>1, <1>2, <1>3, <1>4

\* A stamp that is known stays known as the sequence grows.
LEMMA StampsGrow ==
    ASSUME NEW st, NEW m \in Nat, NEW n \in Nat, m <= n, Stamps(st, m)
    PROVE  Stamps(st, n)
  BY DEF Stamps, StampKnown

\* Emit restores Good when the stamps of the topics are covered by the numbers
\* it gives out.
LEMMA EmitGood ==
    ASSUME NEW st, Sound(st), NEW us, Len(us) \in Nat,
           NEW n \in 0..MaxSequence, Stamps(st, n),
           n <= st.sequence \/ (~st.stopped /\ HasSequences(st, Len(us))
                                /\ n <= st.sequence + Len(us))
    PROVE  LET e == Emit(st, us) IN
           /\ Good(e) /\ e.next = st.next /\ e.runtime = st.runtime
           /\ e.sequence >= st.sequence
<1> DEFINE p == Publish(st, us)
<1>0. st.sequence \in Nat /\ MaxSequence \in Nat /\ n \in Nat
  BY ConstantsAssumption DEF Sound, Typed, WellTyped
<1>1. CASE st.stopped
  <2>1. n <= st.sequence
    BY <1>1
  <2> QED BY <1>0, <1>1, <2>1, StampsGrow DEF Emit, Good
<1>2. ASSUME ~st.stopped
      PROVE  /\ Typed(p) /\ Fresh(p) /\ Empty(p) /\ Stamps(p, p.sequence)
             /\ p.next = st.next /\ p.runtime = st.runtime
             /\ p.sequence >= st.sequence /\ p.sequence \in Nat
  <2>1. /\ DOMAIN p = Fields
        /\ p.sequence = IF HasSequences(st, Len(us)) THEN st.sequence + Len(us)
                           ELSE MaxSequence
        /\ p.sequence \in st.sequence..MaxSequence
        /\ p.stopped = st.stopped /\ p.sessions = st.sessions /\ p.topics = st.topics
        /\ p.next = st.next /\ p.subs = st.subs /\ p.runtime = st.runtime
    BY PublishFields DEF Sound
  <2> HIDE DEF p
  <2>2. p.sequence \in 0..MaxSequence /\ n <= p.sequence
    BY <2>1, <1>0
  <2>3. Typed(p) /\ Fresh(p) /\ Empty(p) /\ Stamps(p, n)
    BY <2>1, <2>2, SameFields DEF Sound
  <2> QED BY <1>0, <2>1, <2>2, <2>3, StampsGrow
<1>3. CASE ~st.stopped /\ HasSequences(st, Len(us))
  BY <1>2, <1>3 DEF Emit, Good, Sound
<1>4. CASE ~st.stopped /\ ~HasSequences(st, Len(us))
  <2>1. Emit(st, us) = Close(p, "SequenceExhausted")
    BY <1>4 DEF Emit
  <2> HIDE DEF p
  <2> QED BY <1>2, <1>4, <2>1, CloseGood
<1> QED BY <1>1, <1>3, <1>4

\* emit leaves the subscription numbers and the status alone.
LEMMA EmitFields ==
    ASSUME NEW st, Typed(st), NEW us, Len(us) \in Nat
    PROVE  Emit(st, us).next = st.next /\ Emit(st, us).runtime = st.runtime
<1> DEFINE p == Publish(st, us)
           c == Close(p, "SequenceExhausted")
<1>1. DOMAIN p = Fields /\ p.next = st.next /\ p.runtime = st.runtime
  BY PublishFields
<1>2. Emit(st, us) \in {st, p, c}
  BY DEF Emit
<1> HIDE DEF p
<1>3. c.next = p.next /\ c.runtime = p.runtime
  BY <1>1 DEF Close, Fields
<1> QED BY <1>1, <1>2, <1>3

\* The common case: every stamp is known already.
LEMMA EmitKeepsGood ==
    ASSUME NEW st, Good(st), NEW us, Len(us) \in Nat
    PROVE  LET e == Emit(st, us) IN
           /\ Good(e) /\ e.next = st.next /\ e.runtime = st.runtime
           /\ e.sequence >= st.sequence
<1>1. st.sequence \in 0..MaxSequence /\ st.sequence <= st.sequence
  BY ConstantsAssumption DEF Good, Sound, Typed, WellTyped
<1> QED BY <1>1, EmitGood DEF Good

\* Advance gives out one number or closes.
LEMMA AdvanceGood ==
    ASSUME NEW st, Good(st)
    PROVE  Good(Advance(st)) /\ Advance(st).next = st.next /\ Advance(st).runtime = st.runtime
<1> DEFINE a == [st EXCEPT !.sequence = @ + 1]
<1>1. CASE st.stopped
  BY <1>1 DEF Advance
<1>2. CASE ~st.stopped /\ HasSequences(st, 1)
  <2>0. st.sequence \in Nat /\ st.sequence + 1 \in 0..MaxSequence
    BY <1>2, ConstantsAssumption DEF HasSequences, Good, Sound, Typed, WellTyped
  <2>1. /\ DOMAIN a = Fields /\ a.sequence = st.sequence + 1
        /\ a.stopped = st.stopped /\ a.sessions = st.sessions /\ a.topics = st.topics
        /\ a.next = st.next /\ a.subs = st.subs /\ a.runtime = st.runtime
    BY DEF Good, Sound, Typed, Fields
  <2>2. Advance(st) = a
    BY <1>2 DEF Advance
  <2> HIDE DEF a
  <2>3. Typed(a) /\ Fresh(a) /\ Empty(a) /\ Stamps(a, st.sequence)
    BY <2>0, <2>1, SameFields DEF Good, Sound
  <2>4. Stamps(a, a.sequence)
    BY <2>0, <2>1, <2>3, StampsGrow
  <2> QED BY <2>1, <2>2, <2>3, <2>4 DEF Good, Sound
<1>3. CASE ~st.stopped /\ ~HasSequences(st, 1)
  BY <1>3, CloseGood DEF Advance, Good, Sound
<1> QED BY <1>1, <1>2, <1>3

---------------------------------------------------------------------------
(* Inner::settle and expire. *)

\* p is st with the topics of S replaced by fresh ones.
Replaced(st, S, p) ==
    /\ DOMAIN p = Fields /\ p.sequence = st.sequence /\ p.stopped = st.stopped
    /\ p.sessions = st.sessions /\ p.next = st.next /\ p.subs = st.subs
    /\ p.topics = [s \in SessionIds |-> [t \in Topics |-> p.topics[s][t]]]
    /\ st.stopped => S = {}
    /\ \A s \in SessionIds, t \in Topics :
          IF <<s, t>> \in S
          THEN p.topics[s][t] \in TopicType /\ FreshTopic(t, p.topics[s][t])
          ELSE p.topics[s][t] = st.topics[s][t]

\* The stamps of the new topics are known.
NewStamps(S, p, n) ==
    \A s \in SessionIds, t \in Topics : <<s, t>> \in S => StampKnown(p.topics[s][t], n)

\* Replacing topics by fresh ones keeps a state sound.
LEMMA ReplaceTopics ==
    ASSUME NEW st, Sound(st), NEW S, NEW p, Replaced(st, S, p)
    PROVE  /\ Sound(p)
           /\ \A n : Stamps(st, n) /\ NewStamps(S, p, n) => Stamps(p, n)
<1> USE DEF Replaced
<1>1. \A s \in SessionIds, t \in Topics :
        st.topics[s][t] \in TopicType /\ FreshTopic(t, st.topics[s][t])
  BY DEF Sound, Typed, WellTyped, Fresh
<1>2. \A s \in SessionIds, t \in Topics :
        p.topics[s][t] \in TopicType /\ FreshTopic(t, p.topics[s][t])
  BY <1>1
<1>3. p.topics \in [SessionIds -> [Topics -> TopicType]]
  BY <1>2
<1>4. Typed(p)
  BY <1>3 DEF Sound, Typed, WellTyped
<1>5. Fresh(p)
  BY <1>2 DEF Fresh
<1>6. Empty(p)
  <2> SUFFICES ASSUME p.stopped PROVE Empty(p)
    BY DEF Empty
  <2>1. \A s \in SessionIds, t \in Topics : p.topics[s][t] = st.topics[s][t]
    OBVIOUS
  <2>2. Registered(p) = Registered(st)
    BY DEF Registered
  <2>3. p.sessions \subseteq SessionIds
    BY DEF Sound, Typed, WellTyped
  <2> QED BY <2>1, <2>2, <2>3 DEF Sound, Empty
<1>7. \A n : Stamps(st, n) /\ NewStamps(S, p, n) => Stamps(p, n)
  BY DEF Stamps, NewStamps
<1> QED BY <1>4, <1>5, <1>6, <1>7 DEF Sound

\* Forgetting subscribers changes no topic.
LEMMA SubsGood ==
    ASSUME NEW st, Good(st), NEW p, DOMAIN p = Fields, p.sequence = st.sequence,
           p.stopped = st.stopped, p.sessions = st.sessions, p.topics = st.topics,
           p.next \in 0..MaxSubscription, p.subs \in [SubIds -> SubType],
           p.stopped => \A id \in SubIds : ~p.subs[id].registered
    PROVE  Good(p)
<1>1. Typed(p)
  BY DEF Good, Sound, Typed, WellTyped
<1>2. Fresh(p) /\ Stamps(p, p.sequence)
  BY DEF Good, Sound, Fresh, Stamps
<1>3. Empty(p)
  BY DEF Good, Sound, Empty, Registered
<1> QED BY <1>1, <1>2, <1>3 DEF Good, Sound

\* The subscribers whose queue ended are forgotten.
LEMMA DropEndedGood ==
    ASSUME NEW st, Good(st)
    PROVE  LET d == DropEnded(st) IN
           Good(d) /\ d.next = st.next /\ d.runtime = st.runtime /\ d.sequence = st.sequence
<1> DEFINE d == DropEnded(st)
           ended == {id \in SubIds : Ended(st.queue[id])}
<1>1. /\ DOMAIN d = Fields /\ d.sequence = st.sequence
      /\ d.stopped = st.stopped /\ d.sessions = st.sessions /\ d.topics = st.topics
      /\ d.next = st.next /\ d.runtime = st.runtime
      /\ d.subs = Unregistered(st.subs, ended)
  BY DEF DropEnded, Good, Sound, Typed, Fields
<1> HIDE DEF d
<1>2. st.subs \in [SubIds -> SubType] /\ d.next \in 0..MaxSubscription
  BY <1>1 DEF Good, Sound, Typed, WellTyped
<1>3. d.subs \in [SubIds -> SubType]
  BY <1>1, <1>2, UnregisteredSubs
<1>4. d.stopped => \A id \in SubIds : ~d.subs[id].registered
  BY <1>1, <1>2, UnregisteredSubs DEF Good, Sound, Empty, Registered
<1>5. Good(d)
  BY <1>1, <1>2, <1>3, <1>4, SubsGood
<1> QED BY <1>1, <1>5 DEF d

\* No key comes before itself.
LEMMA BeforeIrreflexive == \A k \in Keys : ~Before(k, k)
<1>1. SessionIds \subseteq Int /\ Topics \subseteq Int
  BY ConstantsAssumption
<1>2. \A x \in Int : ~(x < x)
  OBVIOUS
<1> TAKE k \in Keys
<1>3. k[1] \in SessionIds /\ k[2] \in Topics
  BY DEF Keys
<1> QED BY <1>1, <1>2, <1>3 DEF Before

\* The keys of a finite set have the ranks 1, 2, ... in the maps' order.
LEMMA RankedIn ==
    ASSUME NEW S \in SUBSET (Int \X Int), IsFiniteSet(S), NEW i \in 1..Cardinality(S)
    PROVE  Ranked(S, i) \in S
<1> DEFINE Upto(k) == {j \in S : j = k \/ Before(j, k)}
           n == Cardinality(S)
           f == [k \in S |-> Cardinality(Upto(k))]
<1>1. n \in Nat
  BY FS_CardinalityType
<1>2. ASSUME NEW k \in S
      PROVE  IsFiniteSet(Upto(k)) /\ Cardinality(Upto(k)) \in 1..n
  <2>1. Upto(k) \in SUBSET S /\ k \in Upto(k)
    OBVIOUS
  <2> HIDE DEF Upto
  <2>2. IsFiniteSet(Upto(k)) /\ Cardinality(Upto(k)) <= n
    BY <2>1, FS_Subset
  <2>3. Cardinality(Upto(k)) \in Nat /\ Cardinality(Upto(k)) # 0
    BY <2>1, <2>2, FS_CardinalityType, FS_EmptySet
  <2> QED BY <1>1, <2>2, <2>3
<1>3. ASSUME NEW k \in S, NEW j \in S, Before(j, k)
      PROVE  Cardinality(Upto(j)) # Cardinality(Upto(k))
  <2>1. /\ k[1] \in Int /\ k[2] \in Int /\ j[1] \in Int /\ j[2] \in Int
        /\ k = <<k[1], k[2]>> /\ j = <<j[1], j[2]>>
    OBVIOUS
  <2>2. \A x \in S : x[1] \in Int /\ x[2] \in Int
    OBVIOUS
  <2>3. ~Before(k, j) /\ k # j
    BY <1>3, <2>1 DEF Before
  <2>4. \A x \in S : Before(x, j) => Before(x, k)
    BY <1>3, <2>1, <2>2 DEF Before
  <2>5. Upto(j) \in SUBSET Upto(k) /\ k \in Upto(k) /\ k \notin Upto(j)
    BY <1>3, <2>3, <2>4
  <2>6. IsFiniteSet(Upto(k))
    BY <1>2
  <2> HIDE DEF Upto
  <2> QED BY <2>5, <2>6, FS_Subset
<1>4. f \in [S -> 1..n]
  <2> HIDE DEF Upto, n
  <2> QED BY <1>2
<1>5. ASSUME NEW k \in S, NEW j \in S, f[k] = f[j] PROVE k = j
  <2>1. /\ k[1] \in Int /\ k[2] \in Int /\ j[1] \in Int /\ j[2] \in Int
        /\ k = <<k[1], k[2]>> /\ j = <<j[1], j[2]>>
    OBVIOUS
  <2>2. Before(k, j) \/ Before(j, k) \/ k = j
    BY <2>1 DEF Before
  <2>3. f[k] = Cardinality(Upto(k)) /\ f[j] = Cardinality(Upto(j))
    OBVIOUS
  <2> HIDE DEF f, Upto
  <2> QED BY <1>3, <1>5, <2>2, <2>3
<1>6. f \in Injection(S, 1..n)
  <2> HIDE DEF f, n
  <2> QED BY <1>4, <1>5 DEF Injection, IsInjective
<1>7. IsFiniteSet(1..n) /\ Cardinality(1..n) = n
  <2> HIDE DEF n
  <2>1. IF 1 > n THEN n = 0 ELSE n - 1 + 1 = n
    BY <1>1
  <2> QED BY <1>1, <2>1, FS_Interval
<1>8. f \in Surjection(S, 1..n)
  <2> HIDE DEF f
  <2> QED BY <1>6, <1>7, FS_Injection
<1>9. \E k \in S : f[k] = i
  <2> HIDE DEF f
  <2> QED BY <1>8 DEF Surjection
<1>10. \E k \in S : Cardinality(Upto(k)) = i
  <2> HIDE DEF Upto
  <2> QED BY <1>9
<1> QED BY <1>10 DEF Ranked

\* p is st with other topics under the keys of S.
Rewritten(st, S, p) ==
    /\ DOMAIN p = Fields /\ p.sequence = st.sequence /\ p.stopped = st.stopped
    /\ p.runtime = st.runtime /\ p.sessions = st.sessions /\ p.next = st.next
    /\ p.subs = st.subs /\ p.queue = st.queue
    /\ \A s \in SessionIds, t \in Topics :
          <<s, t>> \notin S => p.topics[s][t] = st.topics[s][t]

\* The updates us are about keys of S.
AboutKeys(us, S) ==
    /\ Len(us) \in Nat /\ DOMAIN us = 1..Len(us)
    /\ \A i \in 1..Len(us) : /\ <<us[i].session, us[i].topic>> \in S
                              /\ us[i].kind \in {"TopicReset", "TopicChanged"}

\* The steps of one round of settle: from st it switches the demand of the keys of S,
\* which gives p, and closes the service or emits the updates us.
Round(st, S, p, us, e) ==
    /\ Good(st) /\ Good(p) /\ Rewritten(st, S, p) /\ AboutKeys(us, Keys)
    /\ \A s \in SessionIds, t \in Topics : <<s, t>> \in S =>
          /\ p.topics[s][t] = Switch(st.topics[s][t], Demands(st, s, t))
          /\ Demands(st, s, t) # st.topics[s][t].demanded
          /\ s \in st.sessions
    /\ \/ e = Close(p, "SequenceExhausted")
       \/ /\ e = Emit(p, us) /\ AboutKeys(us, S)
          /\ \A s \in st.sessions, t \in Topics :
                p.topics[s][t].demanded <=> Demands(st, s, t)

\* One round of settle.
LEMMA SettleOnceParts ==
    ASSUME NEW st0, Good(st0)
    PROVE  \E S, p, us : Round(DropEnded(st0), S, p, us, SettleOnce(st0))
<1> DEFINE st == DropEnded(st0)
           Topic(k) == st.topics[k[1]][k[2]]
           Wanted(k) == Demands(st, k[1], k[2])
           changed == {k \in Keys : k[1] \in st.sessions
                                    /\ Wanted(k) # Topic(k).demanded}
           exhausted == {k \in changed :
               \/ Topic(k).epoch = MaxEpoch
               \/ Wanted(k) /\ Topic(k).generation = MaxGeneration}
           reached == {k \in changed : \A j \in exhausted : Before(k, j)}
           New(k) == Switch(Topic(k), Wanted(k))
           Update(k) == IF Wanted(k) THEN TopicReset(k[1], k[2], New(k))
                        ELSE TopicChanged(k[1], k[2], New(k))
           p == SetTopics(st, reached, New)
           us == PerKey(changed, Update)
<1>1. SettleOnce(st0) = IF exhausted # {} THEN Close(p, "SequenceExhausted")
                        ELSE Emit(p, us)
  BY DEF SettleOnce
<1>2. Good(st) /\ st.next = st0.next /\ st.runtime = st0.runtime
  BY DropEndedGood
<1> HIDE DEF st
<1>3. st.stopped => changed = {}
  <2> SUFFICES ASSUME st.stopped, NEW k \in Keys, k[1] \in st.sessions
               PROVE  Wanted(k) = Topic(k).demanded
    OBVIOUS
  <2>1. k[1] \in SessionIds /\ k[2] \in Topics
    BY DEF Keys
  <2>2. Topic(k).demanded = FALSE
    <3>1. Topic(k) \in TopicType
      BY <1>2, <2>1 DEF Good, Sound, Typed, WellTyped
    <3>2. ~Topic(k).demanded
      BY <1>2, <2>1 DEF Good, Sound, Empty
    <3> QED BY <3>1, <3>2 DEF TopicType
  <2>3. Wanted(k) = FALSE
    BY <1>2 DEF Good, Sound, Empty, Demands
  <2> QED BY <2>2, <2>3
<1>4. AboutKeys(us, changed)
  <2>1. Cardinality(changed) \in Nat /\ IsFiniteSet(changed) /\ changed \in SUBSET Keys
    BY FiniteKeys
  <2>2. changed \in SUBSET (Int \X Int)
    <3>1. SessionIds \subseteq Int /\ Topics \subseteq Int
      BY ConstantsAssumption
    <3> HIDE DEF changed
    <3> QED BY <2>1, <3>1 DEF Keys
  <2>3. us = [i \in 1..Cardinality(changed) |-> Update(Ranked(changed, i))]
    BY DEF PerKey
  <2>4. \A k : /\ Update(k).session = k[1] /\ Update(k).topic = k[2]
               /\ Update(k).kind \in {"TopicReset", "TopicChanged"}
    BY DEF TopicReset, TopicChanged
  <2>5. \A k \in changed : k = <<k[1], k[2]>>
    BY DEF Keys
  <2> HIDE DEF us, changed, Update
  <2>6. Len(us) = Cardinality(changed)
    BY <2>1, <2>3, LenList
  <2>7. \A i \in 1..Len(us) : us[i] = Update(Ranked(changed, i))
                              /\ Ranked(changed, i) \in changed
    BY <2>1, <2>2, <2>3, <2>6, RankedIn
  <2>8. \A i \in 1..Len(us) : /\ <<us[i].session, us[i].topic>> \in changed
                               /\ us[i].kind \in {"TopicReset", "TopicChanged"}
    BY <2>4, <2>5, <2>7
  <2> QED BY <2>1, <2>3, <2>6, <2>8 DEF AboutKeys
<1>5. /\ DOMAIN p = Fields /\ p.sequence = st.sequence /\ p.stopped = st.stopped
      /\ p.sessions = st.sessions /\ p.next = st.next /\ p.subs = st.subs
      /\ p.runtime = st.runtime /\ p.queue = st.queue
      /\ p.topics = [s \in SessionIds |-> [t \in Topics |->
             IF <<s, t>> \in reached THEN New(<<s, t>>) ELSE st.topics[s][t]]]
  <2> HIDE DEF reached, New
  <2> QED BY <1>2 DEF SetTopics, Good, Sound, Typed, Fields
<1> HIDE DEF p, us
<1>6. ASSUME NEW s \in SessionIds, NEW t \in Topics, <<s, t>> \in reached
      PROVE  LET c == Switch(st.topics[s][t], Demands(st, s, t)) IN
             c \in TopicType /\ FreshTopic(t, c) /\ \A n : StampKnown(c, n)
  <2>1. st.topics[s][t] \in TopicType
    BY <1>2 DEF Good, Sound, Typed, WellTyped
  <2>2. <<s, t>> \notin exhausted /\ <<s, t>> \in changed
    BY <1>6, BeforeIrreflexive
  <2>3. /\ st.topics[s][t].epoch # MaxEpoch
        /\ Demands(st, s, t) => st.topics[s][t].generation # MaxGeneration
    BY <2>2
  <2>4. Demands(st, s, t) \in BOOLEAN
    BY DEF Demands
  <2> QED BY <2>1, <2>3, <2>4, SwitchFresh
<1>7. \A s \in SessionIds, t \in Topics :
        p.topics[s][t] = IF <<s, t>> \in reached
                         THEN Switch(st.topics[s][t], Demands(st, s, t))
                         ELSE st.topics[s][t]
  <2> HIDE DEF reached
  <2> QED BY <1>5
<1>8. st.stopped => reached = {}
  BY <1>3
<1> HIDE DEF reached, exhausted, changed, New
<1>9. p.topics = [s \in SessionIds |-> [t \in Topics |-> p.topics[s][t]]]
  <2> DEFINE tables == p.topics
             cell(s, t) == IF <<s, t>> \in reached THEN New(<<s, t>>) ELSE st.topics[s][t]
  <2>1. tables = [s \in SessionIds |-> [t \in Topics |-> cell(s, t)]]
    BY <1>5
  <2> HIDE DEF tables, cell
  <2>2. tables = [s \in SessionIds |-> [t \in Topics |-> tables[s][t]]]
    BY <2>1
  <2> QED BY <2>2 DEF tables
<1>10. Replaced(st, reached, p) /\ NewStamps(reached, p, st.sequence)
  <2>1. \A s \in SessionIds, t \in Topics :
          IF <<s, t>> \in reached
          THEN p.topics[s][t] \in TopicType /\ FreshTopic(t, p.topics[s][t])
          ELSE p.topics[s][t] = st.topics[s][t]
    BY <1>6, <1>7
  <2>2. NewStamps(reached, p, st.sequence)
    BY <1>6, <1>7 DEF NewStamps
  <2>3. Replaced(st, reached, p)
    BY <1>5, <1>8, <1>9, <2>1 DEF Replaced
  <2> QED BY <2>2, <2>3
<1>11. Sound(st) /\ Stamps(st, st.sequence)
  BY <1>2 DEF Good
<1>12. Good(p)
  BY <1>5, <1>10, <1>11, ReplaceTopics DEF Good
<1>13. AboutKeys(us, Keys)
  <2>1. changed \subseteq Keys
    BY DEF changed
  <2> QED BY <1>4, <2>1 DEF AboutKeys
<1>14. Rewritten(st, reached, p)
  BY <1>5, <1>7 DEF Rewritten
<1>15. \A s \in SessionIds, t \in Topics : <<s, t>> \in reached =>
         /\ p.topics[s][t] = Switch(st.topics[s][t], Demands(st, s, t))
         /\ Demands(st, s, t) # st.topics[s][t].demanded /\ s \in st.sessions
  <2>1. \A s \in SessionIds, t \in Topics : <<s, t>> \in reached =>
          Demands(st, s, t) # st.topics[s][t].demanded /\ s \in st.sessions
    BY DEF reached, changed
  <2> QED BY <1>7, <2>1
<1>16. CASE exhausted # {}
  <2>1. SettleOnce(st0) = Close(p, "SequenceExhausted")
    BY <1>1, <1>16
  <2>2. Round(st, reached, p, us, SettleOnce(st0))
    BY <1>2, <1>12, <1>13, <1>14, <1>15, <2>1 DEF Round
  <2> QED BY <2>2 DEF st
<1>17. CASE exhausted = {}
  <2>1. SettleOnce(st0) = Emit(p, us)
    BY <1>1, <1>17
  <2>2. reached = changed
    BY <1>17 DEF reached
  <2>3. \A s \in st.sessions, t \in Topics :
          p.topics[s][t].demanded <=> Demands(st, s, t)
    <3> SUFFICES ASSUME NEW s \in st.sessions, NEW t \in Topics
                 PROVE  p.topics[s][t].demanded <=> Demands(st, s, t)
      OBVIOUS
    <3>1. s \in SessionIds /\ st.topics[s][t] \in TopicType
      BY <1>2 DEF Good, Sound, Typed, WellTyped
    <3>2. CASE <<s, t>> \in changed
      <4>1. p.topics[s][t] = Switch(st.topics[s][t], Demands(st, s, t))
        BY <1>7, <2>2, <3>1, <3>2
      <4>2. \A d : Switch(st.topics[s][t], d).demanded = d
        BY <3>1 DEF Switch, TopicType
      <4> QED BY <4>1, <4>2
    <3>3. CASE <<s, t>> \notin changed
      <4>1. p.topics[s][t] = st.topics[s][t]
        BY <1>7, <2>2, <3>1, <3>3
      <4>2. Demands(st, s, t) = st.topics[s][t].demanded
        BY <3>1, <3>3 DEF changed, Keys
      <4> QED BY <4>1, <4>2
    <3> QED BY <3>2, <3>3
  <2>4. AboutKeys(us, reached)
    BY <1>4, <2>2
  <2>5. Round(st, reached, p, us, SettleOnce(st0))
    BY <1>2, <1>12, <1>13, <1>14, <1>15, <2>1, <2>3, <2>4 DEF Round
  <2> QED BY <2>5 DEF st
<1> QED BY <1>16, <1>17

\* One round of settle keeps the state good.
LEMMA SettleOnceGood ==
    ASSUME NEW st0, Good(st0)
    PROVE  LET e == SettleOnce(st0) IN
           Good(e) /\ e.next = st0.next /\ e.runtime = st0.runtime
<1> DEFINE st == DropEnded(st0)
           e == SettleOnce(st0)
<1>1. PICK S, p, us : Round(st, S, p, us, e)
  BY SettleOnceParts
<1>2. Good(st) /\ st.next = st0.next /\ st.runtime = st0.runtime
  BY DropEndedGood
<1> HIDE DEF st, e
<1>3. Good(p) /\ p.next = st0.next /\ p.runtime = st0.runtime /\ Len(us) \in Nat
  BY <1>1, <1>2 DEF Round, Rewritten, AboutKeys
<1>4. e = Close(p, "SequenceExhausted") \/ e = Emit(p, us)
  BY <1>1 DEF Round
<1>5. CASE e = Close(p, "SequenceExhausted")
  BY <1>3, <1>5, CloseGood DEF Good, Sound, e
<1>6. CASE e = Emit(p, us)
  BY <1>3, <1>6, EmitKeepsGood DEF e
<1> QED BY <1>4, <1>5, <1>6


\* settle as a whole.
LEMMA SettleGood ==
    ASSUME NEW st, Good(st)
    PROVE  Good(Settle(st)) /\ Settle(st).next = st.next /\ Settle(st).runtime = st.runtime
<1> DEFINE once == SettleOnce(st)
<1>1. Good(once) /\ once.next = st.next /\ once.runtime = st.runtime
  BY SettleOnceGood
<1>2. Settle(st) \in {once, SettleOnce(once)}
  BY DEF Settle
<1> HIDE DEF once
<1> QED BY <1>1, <1>2, SettleOnceGood

\* The steps of expire: the topics under the keys of S lapse.
Lapsing(st, S, p, us, e) ==
    /\ Good(p) /\ Rewritten(st, S, p) /\ Len(us) \in Nat
    /\ \A s \in SessionIds, t \in Topics : <<s, t>> \in S =>
          p.topics[s][t] = Lapse(st.topics[s][t])
    /\ e = Close(p, "SequenceExhausted") \/ e = Settle(Emit(p, us))

\* expire, for any set of keys whose deadlines are armed.
LEMMA ExpireParts ==
    ASSUME NEW st, Good(st), NEW due, due \subseteq ArmedKeys(st)
    PROVE  \E S, p, us : Lapsing(st, S, p, us, Expire(st, due))
<1> DEFINE Topic(k) == st.topics[k[1]][k[2]]
           exhausted == {k \in due : Topic(k).epoch = MaxEpoch}
           reached == {k \in due : \A j \in exhausted : Before(k, j)}
           New(k) == Lapse(Topic(k))
           Update(k) == TopicChanged(k[1], k[2], New(k))
           p == SetTopics(st, reached, New)
           us == PerKey(due, Update)
<1>1. Expire(st, due) = IF exhausted # {} THEN Close(p, "SequenceExhausted")
                        ELSE Settle(Emit(p, us))
  BY DEF Expire
<1>2. due \subseteq Keys
  BY DEF ArmedKeys
<1>3. st.stopped => due = {}
  <2> SUFFICES ASSUME st.stopped, NEW k \in due PROVE FALSE
    OBVIOUS
  <2>1. k \in Keys /\ k[1] \in st.sessions /\ st.topics[k[1]][k[2]].armed
    BY DEF ArmedKeys
  <2>2. k[2] \in Topics
    BY <2>1 DEF Keys
  <2> QED BY <2>1, <2>2 DEF Good, Sound, Empty
<1>4. Len(us) \in Nat
  <2>1. Cardinality(due) \in Nat
    BY <1>2, FiniteKeys
  <2>2. us = [i \in 1..Cardinality(due) |-> us[i]]
    BY DEF PerKey
  <2> HIDE DEF us
  <2> QED BY <2>1, <2>2, LenList
<1>5. /\ DOMAIN p = Fields /\ p.sequence = st.sequence /\ p.stopped = st.stopped
      /\ p.sessions = st.sessions /\ p.next = st.next /\ p.subs = st.subs
      /\ p.runtime = st.runtime /\ p.queue = st.queue
      /\ p.topics = [s \in SessionIds |-> [t \in Topics |->
             IF <<s, t>> \in reached THEN New(<<s, t>>) ELSE st.topics[s][t]]]
  <2> HIDE DEF reached, New
  <2> QED BY DEF SetTopics, Good, Sound, Typed, Fields
<1> HIDE DEF p, us
<1>6. ASSUME NEW s \in SessionIds, NEW t \in Topics, <<s, t>> \in reached
      PROVE  LET c == Lapse(st.topics[s][t]) IN
             c \in TopicType /\ FreshTopic(t, c) /\ \A n : StampKnown(c, n)
  <2>1. st.topics[s][t] \in TopicType /\ FreshTopic(t, st.topics[s][t])
    BY DEF Good, Sound, Typed, WellTyped, Fresh
  <2>2. <<s, t>> \in due /\ <<s, t>> \notin exhausted
    BY <1>2, <1>6, BeforeIrreflexive
  <2>3. st.topics[s][t].armed
    BY <2>2 DEF ArmedKeys
  <2>4. st.topics[s][t].epoch # MaxEpoch
    BY <2>2
  <2> QED BY <2>1, <2>3, <2>4, LapseFresh
<1>7. \A s \in SessionIds, t \in Topics :
        p.topics[s][t] = IF <<s, t>> \in reached THEN Lapse(st.topics[s][t])
                         ELSE st.topics[s][t]
  <2> HIDE DEF reached
  <2> QED BY <1>5
<1>8. st.stopped => reached = {}
  BY <1>3
<1>9. p.topics = [s \in SessionIds |-> [t \in Topics |-> p.topics[s][t]]]
  <2> HIDE DEF reached, exhausted, New
  <2> QED BY <1>5
<1> HIDE DEF reached, exhausted, New
<1>10. Replaced(st, reached, p) /\ NewStamps(reached, p, st.sequence)
  <2>1. \A s \in SessionIds, t \in Topics :
          IF <<s, t>> \in reached
          THEN p.topics[s][t] \in TopicType /\ FreshTopic(t, p.topics[s][t])
          ELSE p.topics[s][t] = st.topics[s][t]
    BY <1>6, <1>7
  <2>2. NewStamps(reached, p, st.sequence)
    BY <1>6, <1>7 DEF NewStamps
  <2>3. Replaced(st, reached, p)
    BY <1>5, <1>8, <1>9, <2>1 DEF Replaced
  <2> QED BY <2>2, <2>3
<1>11. Sound(st) /\ Stamps(st, st.sequence)
  BY DEF Good
<1>12. Good(p)
  BY <1>5, <1>10, <1>11, ReplaceTopics DEF Good
<1>13. Rewritten(st, reached, p)
  BY <1>5, <1>7 DEF Rewritten
<1>14. \A s \in SessionIds, t \in Topics : <<s, t>> \in reached =>
         p.topics[s][t] = Lapse(st.topics[s][t])
  BY <1>7
<1>15. Lapsing(st, reached, p, us, Expire(st, due))
  BY <1>1, <1>4, <1>12, <1>13, <1>14 DEF Lapsing
<1> QED BY <1>15

\* expire keeps the state good.
LEMMA ExpireGood ==
    ASSUME NEW st, Good(st), NEW due, due \subseteq ArmedKeys(st)
    PROVE  LET e == Expire(st, due) IN
           Good(e) /\ e.next = st.next /\ e.runtime = st.runtime
<1> DEFINE x == Expire(st, due)
<1>0. PICK S, p, us : Lapsing(st, S, p, us, x)
  BY ExpireParts
<1>1. /\ Good(p) /\ Rewritten(st, S, p) /\ Len(us) \in Nat
      /\ x = Close(p, "SequenceExhausted") \/ x = Settle(Emit(p, us))
  BY <1>0 DEF Lapsing
<1>2. p.next = st.next /\ p.runtime = st.runtime
  BY <1>1 DEF Rewritten
<1> HIDE DEF x
<1>3. CASE x = Close(p, "SequenceExhausted")
  BY <1>1, <1>2, <1>3, CloseGood DEF Good, Sound, x
<1>4. CASE x = Settle(Emit(p, us))
  <2> DEFINE e == Emit(p, us)
  <2>1. Good(e) /\ e.next = st.next /\ e.runtime = st.runtime
    BY <1>1, <1>2, EmitKeepsGood
  <2>2. x = Settle(e)
    BY <1>4
  <2> HIDE DEF e
  <2> QED BY <2>1, <2>2, SettleGood DEF x
<1> QED BY <1>1, <1>3, <1>4

---------------------------------------------------------------------------
(* Inner::sync_runtime. *)

\* The steps of an end of the sessions in E: the updates us are offered, the
\* subscriptions own finish, and the topics of the sessions are forgotten.
Leaving(st, E, own, us, left, e) ==
    /\ Good(left) /\ Len(us) \in Nat
    /\ left.stopped = st.stopped /\ left.next = st.next /\ left.runtime = st.runtime
    /\ left.sessions = st.sessions \ E
    /\ left.sequence \in st.sequence..MaxSequence
    /\ left.subs = Unregistered(st.subs, own)
    /\ left.queue = [id \in SubIds |->
          IF id \in own THEN Finish(Publish(st, us).queue[id], "SessionEnded", FALSE)
          ELSE Publish(st, us).queue[id]]
    /\ \A s \in SessionIds, t \in Topics :
          left.topics[s][t] = IF s \in E THEN InitialTopic ELSE st.topics[s][t]
    /\ e = left \/ e = Close(left, "SequenceExhausted")

\* The end of sessions forgets their topics.
LEMMA EndSessionsParts ==
    ASSUME NEW st, Good(st), ~st.stopped, NEW status, NEW E, E \subseteq st.sessions
    PROVE  \E own, us, left : Leaving(st, E, own, us, left, EndSessions(st, status, E))
<1> DEFINE order == SetToSortSeq(E, <)
           us == [i \in 1..Cardinality(E) |->
                    [kind |-> "SessionEnded", session |-> order[i],
                     reason |-> EndReason(st, status, order[i])]]
           announced == {s \in E : HasSequences(st, Cardinality({e \in E : e <= s}))}
           sent == Publish(st, us)
           own == {id \in Registered(st) : st.subs[id].sessions \in announced}
           left == [sent EXCEPT
               !.sessions = @ \ E,
               !.topics = [s \in SessionIds |-> IF s \in E
                             THEN [t \in Topics |-> InitialTopic] ELSE @[s]],
               !.build = [s \in SessionIds |-> IF s \in E THEN None ELSE @[s]],
               !.subs = Unregistered(@, own),
               !.queue = [id \in SubIds |->
                           IF id \in own THEN Finish(@[id], "SessionEnded", FALSE)
                           ELSE @[id]]]
<1>1. EndSessions(st, status, E) = IF announced = E THEN left
                                   ELSE Close(left, "SequenceExhausted")
  BY DEF EndSessions
<1>2. Len(us) \in Nat
  <2>1. Cardinality(E) \in Nat
    BY FiniteKeys DEF Good, Sound, Typed, WellTyped
  <2>2. us = [i \in 1..Cardinality(E) |-> us[i]]
    OBVIOUS
  <2> HIDE DEF us
  <2> QED BY <2>1, <2>2, LenList
<1> HIDE DEF us, announced, own
<1>3. /\ DOMAIN sent = Fields
      /\ sent.sequence \in st.sequence..MaxSequence
      /\ sent.stopped = st.stopped /\ sent.sessions = st.sessions
      /\ sent.topics = st.topics /\ sent.next = st.next /\ sent.subs = st.subs
      /\ sent.runtime = st.runtime
  BY <1>2, PublishFields DEF Good, Sound
<1> HIDE DEF sent
<1>4. /\ DOMAIN left = Fields /\ left.sequence = sent.sequence
      /\ left.stopped = st.stopped /\ left.next = st.next /\ left.runtime = st.runtime
      /\ left.sessions = st.sessions \ E
      /\ left.topics = [s \in SessionIds |-> IF s \in E
                          THEN [t \in Topics |-> InitialTopic] ELSE st.topics[s]]
      /\ left.subs = Unregistered(sent.subs, own)
  <2>1. /\ DOMAIN left = Fields /\ left.sequence = sent.sequence
        /\ left.stopped = sent.stopped /\ left.next = sent.next
        /\ left.runtime = sent.runtime
    BY <1>3 DEF Fields
  <2>2. left.sessions = sent.sessions \ E
    BY <1>3 DEF Fields
  <2>3. left.topics = [s \in SessionIds |-> IF s \in E
                         THEN [t \in Topics |-> InitialTopic] ELSE sent.topics[s]]
    BY <1>3 DEF Fields
  <2>4. left.subs = Unregistered(sent.subs, own)
    BY <1>3 DEF Fields
  <2> QED BY <1>3, <2>1, <2>2, <2>3, <2>4
<1>16. left.queue = [id \in SubIds |->
          IF id \in own THEN Finish(sent.queue[id], "SessionEnded", FALSE)
          ELSE sent.queue[id]]
  <2> DEFINE queue == [id \in SubIds |->
                IF id \in own THEN Finish(sent.queue[id], "SessionEnded", FALSE)
                ELSE sent.queue[id]]
  <2>1. left.queue = queue
    <3> HIDE DEF queue
    <3> QED BY <1>3 DEF Fields, queue
  <2> QED BY <2>1
<1> HIDE DEF left
<1>5. left.subs \in [SubIds -> SubType]
  BY <1>3, <1>4, UnregisteredSubs DEF Good, Sound, Typed, WellTyped
<1>6. left.sequence \in 0..MaxSequence /\ st.sequence \in Nat /\ left.sequence \in Nat
      /\ st.sequence <= left.sequence
  BY <1>3, <1>4, ConstantsAssumption DEF Good, Sound, Typed, WellTyped
<1>7. \A s \in SessionIds, t \in Topics :
        /\ left.topics[s][t] \in TopicType /\ FreshTopic(t, left.topics[s][t])
        /\ StampKnown(left.topics[s][t], st.sequence)
  <2> TAKE s \in SessionIds, t \in Topics
  <2>1. left.topics[s][t] \in {InitialTopic, st.topics[s][t]}
    BY <1>4
  <2>2. /\ st.topics[s][t] \in TopicType /\ FreshTopic(t, st.topics[s][t])
        /\ StampKnown(st.topics[s][t], st.sequence)
    BY DEF Good, Sound, Typed, WellTyped, Fresh, Stamps
  <2> QED BY <2>1, <2>2, InitialTopicFresh
<1>8. left.topics \in [SessionIds -> [Topics -> TopicType]]
  <2>1. \A s \in SessionIds : left.topics[s] \in [Topics -> TopicType]
    BY <1>4, InitialTopicFresh DEF Good, Sound, Typed, WellTyped
  <2> QED BY <1>4, <2>1
<1>9. Typed(left)
  <2> QED BY <1>4, <1>5, <1>6, <1>8 DEF Typed, WellTyped, Good, Sound
<1>10. Fresh(left) /\ Stamps(left, left.sequence)
  <2>1. Stamps(left, st.sequence)
    BY <1>7 DEF Stamps
  <2> QED BY <1>6, <1>7, <2>1, StampsGrow DEF Fresh
<1>11. Empty(left)
  BY <1>4 DEF Empty
<1>12. Good(left)
  BY <1>9, <1>10, <1>11 DEF Good, Sound
<1>13. \A s \in SessionIds, t \in Topics :
         left.topics[s][t] = IF s \in E THEN InitialTopic ELSE st.topics[s][t]
  BY <1>4
<1>14. /\ left.subs = Unregistered(st.subs, own)
       /\ left.sequence \in st.sequence..MaxSequence
  BY <1>3, <1>4
<1>15. Leaving(st, E, own, us, left, EndSessions(st, status, E))
  BY <1>1, <1>2, <1>4, <1>16, <1>12, <1>13, <1>14 DEF Leaving, sent
<1> QED BY <1>15

\* The end of sessions keeps the state good.
LEMMA EndSessionsGood ==
    ASSUME NEW st, Good(st), ~st.stopped, NEW status, NEW E, E \subseteq st.sessions
    PROVE  LET e == EndSessions(st, status, E) IN
           Good(e) /\ e.next = st.next /\ e.runtime = st.runtime
<1> DEFINE x == EndSessions(st, status, E)
<1>1. PICK own, us, left : Leaving(st, E, own, us, left, x)
  BY EndSessionsParts
<1> HIDE DEF x
<1>2. /\ Good(left) /\ left.next = st.next /\ left.runtime = st.runtime
      /\ x = left \/ x = Close(left, "SequenceExhausted")
  BY <1>1 DEF Leaving
<1> QED BY <1>2, CloseGood DEF Good, Sound, x

\* The steps of a start of session s.
Joining(st, s, p, us, e) ==
    /\ Good(p) /\ Len(us) \in Nat
    /\ p.sequence = st.sequence /\ p.stopped = st.stopped
    /\ p.next = st.next /\ p.runtime = st.runtime
    /\ p.sessions = st.sessions \cup {s} /\ p.subs = st.subs /\ p.queue = st.queue
    /\ \A x \in SessionIds, t \in Topics :
          p.topics[x][t] = IF x = s THEN InitialTopic ELSE st.topics[x][t]
    /\ e = Emit(p, us)

\* A new session arrives with initial topics.
LEMMA AddSessionParts ==
    ASSUME NEW st, Good(st), NEW s \in SessionIds
    PROVE  LET e == AddSession(st, s) IN
           \/ e = st
           \/ e = Close(st, "SequenceExhausted")
           \/ \E p, us : Joining(st, s, p, us, e)
<1> DEFINE started == <<[kind |-> "SessionStarted", session |-> s, build |-> None]>>
           First(k) == TopicChanged(s, k[2], InitialTopic)
           rest == PerKey({s} \X Topics, First)
           us == started \o rest
           p == [st EXCEPT !.sessions = @ \cup {s},
                           !.topics[s] = [t \in Topics |-> InitialTopic]]
<1>1. AddSession(st, s) = IF st.stopped THEN st
        ELSE IF ~HasSequences(st, 1 + Cardinality(Topics))
             THEN Close(st, "SequenceExhausted") ELSE Emit(p, us)
  BY DEF AddSession
<1>2. Len(us) \in Nat
  <2> DEFINE n == Cardinality({s} \X Topics)
  <2>1. n \in Nat
    <3>1. {s} \X Topics \subseteq Keys
      BY DEF Keys
    <3> QED BY <3>1, FiniteKeys
  <2>2. rest = [i \in 1..n |-> rest[i]]
    BY DEF PerKey
  <2>3. started = [i \in 1..1 |-> started[i]]
    OBVIOUS
  <2> HIDE DEF rest, n, started
  <2>4. us = [i \in 1..(1 + n) |-> us[i]] /\ 1 + n \in Nat
    <3>1. ListOf(rest, n) /\ ListOf(started, 1) BY <2>1, <2>2, <2>3 DEF ListOf
    <3>2. ListOf(us, 1 + n) BY <3>1, ConcatList
    <3> QED BY <3>2 DEF ListOf
  <2> HIDE DEF us
  <2> QED BY <2>4, LenList
<1> HIDE DEF us
<1>3. CASE st.stopped
  BY <1>1, <1>3
<1>4. CASE ~st.stopped /\ ~HasSequences(st, 1 + Cardinality(Topics))
  BY <1>1, <1>4
<1>5. CASE ~st.stopped /\ HasSequences(st, 1 + Cardinality(Topics))
  <2>1. /\ DOMAIN p = Fields /\ p.sequence = st.sequence /\ p.stopped = st.stopped
        /\ p.sessions = st.sessions \cup {s} /\ p.next = st.next /\ p.subs = st.subs
        /\ p.runtime = st.runtime /\ p.queue = st.queue
        /\ p.topics = [st.topics EXCEPT ![s] = [t \in Topics |-> InitialTopic]]
    BY DEF Good, Sound, Typed, Fields
  <2> HIDE DEF p
  <2>2. \A x \in SessionIds, t \in Topics :
          p.topics[x][t] = IF x = s THEN InitialTopic ELSE st.topics[x][t]
    BY <2>1 DEF Good, Sound, Typed, WellTyped
  <2>3. p.topics \in [SessionIds -> [Topics -> TopicType]]
    BY <2>1, InitialTopicFresh DEF Good, Sound, Typed, WellTyped
  <2>4. Typed(p)
    BY <2>1, <2>3 DEF Good, Sound, Typed, WellTyped
  <2>5. Fresh(p) /\ Stamps(p, p.sequence)
    BY <2>1, <2>2, InitialTopicFresh DEF Good, Sound, Fresh, Stamps
  <2>6. Empty(p)
    BY <1>5, <2>1 DEF Empty
  <2>7. Good(p)
    BY <2>4, <2>5, <2>6 DEF Good, Sound
  <2>8. AddSession(st, s) = Emit(p, us)
    BY <1>1, <1>5
  <2>9. Joining(st, s, p, us, AddSession(st, s))
    BY <1>2, <2>1, <2>2, <2>7, <2>8 DEF Joining
  <2> QED BY <2>9
<1> QED BY <1>3, <1>4, <1>5

\* A new session keeps the state good.
LEMMA AddSessionGood ==
    ASSUME NEW st, Good(st), NEW s \in SessionIds
    PROVE  LET e == AddSession(st, s) IN
           Good(e) /\ e.next = st.next /\ e.runtime = st.runtime
<1> DEFINE x == AddSession(st, s)
<1>1. \/ x = st
      \/ x = Close(st, "SequenceExhausted")
      \/ \E p, us : Joining(st, s, p, us, x)
  BY AddSessionParts
<1> HIDE DEF x
<1>2. CASE x = Close(st, "SequenceExhausted")
  BY <1>2, CloseGood DEF Good, Sound, x
<1>3. ASSUME NEW p, NEW us, Joining(st, s, p, us, x)
      PROVE  Good(x) /\ x.next = st.next /\ x.runtime = st.runtime
  BY <1>3, EmitKeepsGood DEF Joining
<1> QED BY <1>1, <1>2, <1>3 DEF x

\* sync_runtime as a whole.
LEMMA SyncRuntimeGood ==
    ASSUME NEW st, Good(st), NEW status
    PROVE  LET e == SyncRuntime(st, status) IN
           Good(e) /\ e.next = st.next /\ e.runtime \in {st.runtime, status}
<1> DEFINE new == Observed(status) \ st.sessions
           ended == EndSessions(st, status, st.sessions \ Observed(status))
           added == IF new = {} THEN ended
                    ELSE AddSession(ended, CHOOSE s \in new : TRUE)
           p == [added EXCEPT !.runtime = status]
<1>1. CASE st.stopped \/ st.runtime = status
  BY <1>1 DEF SyncRuntime
<1>2. CASE ~(st.stopped \/ st.runtime = status)
  <2>1. SyncRuntime(st, status) = Settle(Advance(p))
    BY <1>2 DEF SyncRuntime
  <2>2. Good(ended) /\ ended.next = st.next
    BY <1>2, EndSessionsGood
  <2>3. new # {} => (CHOOSE s \in new : TRUE) \in SessionIds
    BY DEF Observed
  <2> HIDE DEF ended, new
  <2>4. Good(added) /\ added.next = st.next
    BY <2>2, <2>3, AddSessionGood
  <2> HIDE DEF added
  <2>5. /\ DOMAIN p = Fields /\ p.sequence = added.sequence /\ p.stopped = added.stopped
        /\ p.sessions = added.sessions /\ p.next = added.next /\ p.subs = added.subs
        /\ p.runtime = status /\ p.topics = added.topics
    BY <2>4 DEF Good, Sound, Typed, Fields
  <2> HIDE DEF p
  <2>6. Good(p)
    <3>1. p.sequence \in 0..MaxSequence
      BY <2>4, <2>5 DEF Good, Sound, Typed, WellTyped
    <3> QED BY <2>4, <2>5, <3>1, SameFields DEF Good, Sound
  <2> DEFINE a == Advance(p)
  <2>7. Good(a) /\ a.next = st.next /\ a.runtime = status
    BY <2>4, <2>5, <2>6, AdvanceGood
  <2> HIDE DEF a
  <2>8. Good(Settle(a)) /\ Settle(a).next = st.next /\ Settle(a).runtime = status
    BY <2>7, SettleGood
  <2> QED BY <2>1, <2>8 DEF a
<1> QED BY <1>1, <1>2

---------------------------------------------------------------------------
(* subscribe and Drop. *)

\* One subscriber is forgotten.
LEMMA UnregisterGood ==
    ASSUME NEW st, Good(st), NEW id
    PROVE  LET e == Unregister(st, id) IN
           Good(e) /\ e.next = st.next /\ e.runtime = st.runtime
<1> DEFINE d == Unregister(st, id)
<1>1. /\ DOMAIN d = Fields /\ d.sequence = st.sequence
      /\ d.stopped = st.stopped /\ d.sessions = st.sessions /\ d.topics = st.topics
      /\ d.next = st.next /\ d.runtime = st.runtime
      /\ d.subs = Unregistered(st.subs, {id})
  BY DEF Unregister, Good, Sound, Typed, Fields
<1> HIDE DEF d
<1>2. st.subs \in [SubIds -> SubType] /\ d.next \in 0..MaxSubscription
  BY <1>1 DEF Good, Sound, Typed, WellTyped
<1>3. d.subs \in [SubIds -> SubType]
  BY <1>1, <1>2, UnregisteredSubs
<1>4. d.stopped => \A x \in SubIds : ~d.subs[x].registered
  BY <1>1, <1>2, UnregisteredSubs DEF Good, Sound, Empty, Registered
<1>5. Good(d)
  BY <1>1, <1>2, <1>3, <1>4, SubsGood
<1> QED BY <1>1, <1>5 DEF d

\* subscribe, from the identity it takes to the subscriber it activates or drops.
LEMMA AdmitGood ==
    ASSUME NEW st, Good(st), NEW sel \in Selections, Acceptable(st, sel)
    PROVE  LET e == Admit(st, sel) IN
           Good(e) /\ e.next = st.next + 1 /\ e.next \in SubIds /\ e.runtime = st.runtime
<1> DEFINE id == st.next + 1
           sub == [registered |-> TRUE, active |-> FALSE,
                   sessions |-> sel.sessions, topics |-> sel.topics]
           p == [st EXCEPT !.next = id, !.subs[id] = sub, !.queue[id] = EmptyQueue]
           settled == Settle(p)
           frames == Capture(settled, sub)
           q == [settled EXCEPT !.subs[id].active = TRUE, !.queue[id].initial = frames]
<1>1. Admit(st, sel) = IF settled.subs[id].registered /\ Len(frames) <= InitialBudget
                       THEN q ELSE Settle(Unregister(settled, id))
  BY DEF Admit
<1>2. id \in SubIds /\ id \in 0..MaxSubscription /\ ~st.stopped
  BY ConstantsAssumption DEF Acceptable, SubIds, Good, Sound, Typed, WellTyped
<1>3. sub \in SubType
  BY DEF SubType, Selections
<1> HIDE DEF id, sub
<1>4. /\ DOMAIN p = Fields /\ p.sequence = st.sequence /\ p.stopped = st.stopped
      /\ p.sessions = st.sessions /\ p.topics = st.topics /\ p.next = id
      /\ p.subs = [st.subs EXCEPT ![id] = sub] /\ p.runtime = st.runtime
  BY DEF Good, Sound, Typed, Fields
<1> HIDE DEF p
<1>5. Good(p)
  <2>1. p.subs \in [SubIds -> SubType]
    BY <1>3, <1>4 DEF Good, Sound, Typed, WellTyped
  <2> QED BY <1>2, <1>4, <2>1, SubsGood
<1>6. Good(settled) /\ settled.next = id /\ settled.runtime = st.runtime
  BY <1>4, <1>5, SettleGood
<1> HIDE DEF settled, frames
<1>7. CASE settled.subs[id].registered /\ Len(frames) <= InitialBudget
  <2>1. /\ DOMAIN q = Fields /\ q.sequence = settled.sequence
        /\ q.stopped = settled.stopped /\ q.sessions = settled.sessions
        /\ q.topics = settled.topics /\ q.next = id /\ q.runtime = st.runtime
        /\ q.subs = [settled.subs EXCEPT ![id].active = TRUE]
    BY <1>6 DEF Good, Sound, Typed, Fields
  <2> HIDE DEF q
  <2>2. q.subs \in [SubIds -> SubType]
    <3>1. settled.subs \in [SubIds -> SubType]
      BY <1>6 DEF Good, Sound, Typed, WellTyped
    <3>2. [settled.subs[id] EXCEPT !.active = TRUE] \in SubType
      BY <1>2, <3>1 DEF SubType
    <3> QED BY <2>1, <3>1, <3>2
  <2>3. ~q.stopped
    BY <1>2, <1>6, <1>7, <2>1 DEF Good, Sound, Empty, Registered
  <2>4. Good(q)
    BY <1>2, <1>6, <2>1, <2>2, <2>3, SubsGood
  <2> QED BY <1>1, <1>2, <1>7, <2>1, <2>4 DEF id
<1>8. CASE ~(settled.subs[id].registered /\ Len(frames) <= InitialBudget)
  <2> DEFINE u == Unregister(settled, id)
  <2>1. Good(u) /\ u.next = id /\ u.runtime = st.runtime
    BY <1>6, UnregisterGood
  <2>2. Admit(st, sel) = Settle(u)
    BY <1>1, <1>8
  <2> HIDE DEF u
  <2> QED BY <1>2, <2>1, <2>2, SettleGood DEF id
<1> QED BY <1>7, <1>8

---------------------------------------------------------------------------
(* discard_poll. *)

\* The steps of a discarded poll: it fails the topics in A and resets those in R.
Failing(st, s, A, R, p, us, e) ==
    /\ Good(p) /\ Rewritten(st, {s} \X A, p) /\ Len(us) \in Nat
    /\ \A t \in A : p.topics[s][t] = Fail(st.topics[s][t], t \in A \cap R)
    /\ e = Settle(Emit(p, us))

\* A discarded poll fails the topics it still speaks for.
LEMMA DiscardParts ==
    ASSUME NEW st, Good(st), NEW s, HasTicket(st, s),
           NEW ticket, DOMAIN ticket \subseteq Topics, NEW resets, NEW failed
    PROVE  LET affected == Affected(st, s, ticket, resets, failed)
               e == DiscardPoll(st, s, ticket, resets, failed) IN
           \/ e = Close(st, "SequenceExhausted")
           \/ \E p, us : Failing(st, s, affected, resets, p, us, e)
<1> DEFINE affected == Affected(st, s, ticket, resets, failed)
           reset == affected \cap resets
           Topic(k) == st.topics[k[1]][k[2]]
           New(k) == Fail(Topic(k), k[2] \in reset)
           slots == {<<t, 1>> : t \in reset} \cup {<<t, 2>> : t \in affected}
           Update(x) == IF x[2] = 1 THEN TopicReset(s, x[1], New(<<s, x[1]>>))
                        ELSE TopicChanged(s, x[1], New(<<s, x[1]>>))
           S == {s} \X affected
           p == SetTopics(st, S, New)
           us == PerKey(slots, Update)
           full == \/ \E t \in reset : \/ st.topics[s][t].generation = MaxGeneration
                                       \/ st.topics[s][t].epoch = MaxEpoch
                   \/ ~HasSequences(st, Cardinality(slots))
<1>1. DiscardPoll(st, s, ticket, resets, failed) =
        IF ~HasTicket(st, s) THEN st
        ELSE IF full THEN Close(st, "SequenceExhausted") ELSE Settle(Emit(p, us))
  BY DEF DiscardPoll
<1>3. CASE full
  BY <1>1, <1>3
<1>4. CASE ~full
  <2>1. s \in SessionIds /\ ~st.stopped
    BY DEF HasTicket, Good, Sound, Typed, WellTyped
  <2>2. /\ affected \subseteq Topics
        /\ \A t \in affected : st.topics[s][t].demanded
    BY DEF Affected
  <2>3. \A t \in reset : /\ st.topics[s][t].generation # MaxGeneration
                          /\ st.topics[s][t].epoch # MaxEpoch
    BY <1>4
  <2>4. Len(us) \in Nat
    <3>1. slots \subseteq Topics \X (1..2)
      BY <2>2
    <3>2. 2 \in Nat
      OBVIOUS
    <3>3. Cardinality(slots) \in Nat
      <4> HIDE DEF slots
      <4> QED BY <3>1, <3>2, FiniteSlots
    <3>4. us = [i \in 1..Cardinality(slots) |-> us[i]]
      BY DEF PerKey
    <3> HIDE DEF us, slots
    <3> QED BY <3>3, <3>4, LenList
  <2> HIDE DEF us, slots
  <2>5. /\ DOMAIN p = Fields /\ p.sequence = st.sequence /\ p.stopped = st.stopped
        /\ p.sessions = st.sessions /\ p.next = st.next /\ p.subs = st.subs
        /\ p.runtime = st.runtime /\ p.queue = st.queue
        /\ p.topics = [x \in SessionIds |-> [t \in Topics |->
               IF <<x, t>> \in S THEN New(<<x, t>>) ELSE st.topics[x][t]]]
    <3> HIDE DEF S, New
    <3> QED BY DEF SetTopics, Good, Sound, Typed, Fields
  <2> HIDE DEF p
  <2>6. \A x \in SessionIds, t \in Topics :
          <<x, t>> \in S =>
             LET c == Fail(st.topics[x][t], t \in reset) IN
             c \in TopicType /\ FreshTopic(t, c) /\ \A n : StampKnown(c, n)
    <3> SUFFICES ASSUME NEW x \in SessionIds, NEW t \in Topics, <<x, t>> \in S
                 PROVE  LET c == Fail(st.topics[x][t], t \in reset) IN
                        c \in TopicType /\ FreshTopic(t, c) /\ \A n : StampKnown(c, n)
      OBVIOUS
    <3>1. x = s /\ t \in affected
      OBVIOUS
    <3>2. st.topics[x][t] \in TopicType /\ st.topics[x][t].demanded
      BY <2>2, <3>1 DEF Good, Sound, Typed, WellTyped
    <3>3. t \in reset => /\ st.topics[x][t].generation # MaxGeneration
                         /\ st.topics[x][t].epoch # MaxEpoch
      BY <2>3, <3>1
    <3>4. (t \in reset) \in BOOLEAN
      OBVIOUS
    <3> HIDE DEF reset
    <3> QED BY <3>2, <3>3, <3>4, FailFresh
  <2>7. \A x \in SessionIds, t \in Topics :
          p.topics[x][t] = IF <<x, t>> \in S THEN Fail(st.topics[x][t], t \in reset)
                           ELSE st.topics[x][t]
    <3> HIDE DEF S, reset
    <3> QED BY <2>5
  <2>8. p.topics = [x \in SessionIds |-> [t \in Topics |-> p.topics[x][t]]]
    BY <2>5
  <2> HIDE DEF S, reset, New
  <2>9. Replaced(st, S, p)
    BY <2>1, <2>5, <2>6, <2>7, <2>8 DEF Replaced
  <2>10. NewStamps(S, p, st.sequence)
    BY <2>6, <2>7 DEF NewStamps
  <2>11. Sound(st) /\ Stamps(st, st.sequence)
    BY DEF Good
  <2>12. Good(p)
    BY <2>5, <2>9, <2>10, <2>11, ReplaceTopics DEF Good
  <2>13. Rewritten(st, S, p)
    BY <2>5, <2>7 DEF Rewritten
  <2>14. \A t \in affected : p.topics[s][t] = Fail(st.topics[s][t], t \in reset)
    <3>1. \A t \in affected : <<s, t>> \in S /\ t \in Topics
      BY <2>2 DEF S
    <3> QED BY <2>1, <2>7, <3>1
  <2>15. DiscardPoll(st, s, ticket, resets, failed) = Settle(Emit(p, us))
    BY <1>1, <1>4
  <2> HIDE DEF affected
  <2>16. Failing(st, s, affected, resets, p, us, DiscardPoll(st, s, ticket, resets, failed))
    BY <2>4, <2>12, <2>13, <2>14, <2>15 DEF S, reset, Failing
  <2> QED BY <2>16 DEF affected
<1> QED BY <1>3, <1>4

\* discard_poll keeps the state good.
LEMMA DiscardPollGood ==
    ASSUME NEW st, Good(st), NEW s, NEW ticket, DOMAIN ticket \subseteq Topics,
           NEW resets, NEW failed
    PROVE  LET e == DiscardPoll(st, s, ticket, resets, failed) IN
           Good(e) /\ e.next = st.next /\ e.runtime = st.runtime
<1> DEFINE x == DiscardPoll(st, s, ticket, resets, failed)
<1>1. CASE ~HasTicket(st, s)
  BY <1>1 DEF DiscardPoll
<1>2. CASE x = Close(st, "SequenceExhausted")
  BY <1>2, CloseGood DEF Good, Sound
<1>3. ASSUME NEW S, NEW p, NEW us, Good(p), Rewritten(st, S, p), Len(us) \in Nat,
             x = Settle(Emit(p, us))
      PROVE  Good(x) /\ x.next = st.next /\ x.runtime = st.runtime
  <2> DEFINE e == Emit(p, us)
  <2>1. Good(e) /\ e.next = st.next /\ e.runtime = st.runtime
    BY <1>3, EmitKeepsGood DEF Rewritten
  <2>2. x = Settle(e)
    BY <1>3
  <2> HIDE DEF e, x
  <2> QED BY <2>1, <2>2, SettleGood
<1>4. CASE HasTicket(st, s)
  <2> DEFINE A == Affected(st, s, ticket, resets, failed)
  <2>1. \/ x = Close(st, "SequenceExhausted")
        \/ \E p, us : Failing(st, s, A, resets, p, us, x)
    BY <1>4, DiscardParts
  <2> HIDE DEF A, x
  <2> QED BY <1>2, <1>3, <2>1 DEF x, Failing
<1> QED BY <1>1, <1>4

---------------------------------------------------------------------------
(* commit_poll. *)

\* What the operations pushed for one topic can add up to: a deadline follows
\* the health, and data comes with an available topic only.
EffectOK(e) ==
    /\ DOMAIN e = {"touched", "reset", "health", "snapshot", "armed", "events"}
    /\ e.reset \in BOOLEAN
    /\ e.health \in {"Keep", "Initializing", "Available"} \cup Reasons
    /\ e.snapshot \in {Keep, None} \cup Payloads
    /\ e.armed = IF e.health = "Keep" THEN "Keep"
                 ELSE IF e.health \in {"Initializing", "Available"} THEN "Arm" ELSE "Clear"
    /\ e.health = "Keep" => e.snapshot = Keep /\ ~e.reset
    /\ e.health \notin {"Keep", "Available"} => e.snapshot = None
    /\ e.reset => e.snapshot # Keep

\* One more operation on a topic.
LEMMA PushedOK ==
    ASSUME NEW t \in Topics, NEW E, \A e \in E : EffectOK(e)
    PROVE  \A e \in Pushed(t, E) : EffectOK(e)
<1>1. \A e \in E : EffectOK(PushReset(e))
  BY ConstantsAssumption DEF EffectOK, PushReset
<1>2. \A e \in E, v \in Payloads : EffectOK(PushSnapshot(e, v))
  BY ConstantsAssumption DEF EffectOK, PushSnapshot
<1>3. \A e \in E, v \in Payloads : EffectOK(PushEvent(e, v))
  BY ConstantsAssumption DEF EffectOK, PushEvent
<1>4. \A e \in E, h \in {"Available"} \cup Reasons : EffectOK(PushHealth(e, h))
  BY ConstantsAssumption DEF EffectOK, PushHealth
<1> QED BY <1>1, <1>2, <1>3, <1>4 DEF Pushed

\* Every topic of a batch.
LEMMA BatchOK ==
    ASSUME NEW batch \in Batches, NEW t \in Topics
    PROVE  EffectOK(batch[t])
<1>1. \A e \in {Untouched} : EffectOK(e)
  <2>1. /\ Untouched.reset = FALSE /\ Untouched.health = "Keep"
        /\ Untouched.snapshot = Keep /\ Untouched.armed = "Keep"
    BY DEF Untouched
  <2>2. DOMAIN Untouched = {"touched", "reset", "health", "snapshot", "armed", "events"}
    BY DEF Untouched
  <2> QED BY <2>1, <2>2 DEF EffectOK
<1> DEFINE one == Pushed(t, {Untouched})
           two == Pushed(t, one)
           three == Pushed(t, two)
<1>2. \A e \in one : EffectOK(e)
  BY <1>1, PushedOK
<1> HIDE DEF one
<1>3. \A e \in two : EffectOK(e)
  BY <1>2, PushedOK
<1> HIDE DEF two
<1>4. \A e \in three : EffectOK(e)
  BY <1>3, PushedOK
<1>5. batch[t] \in one \cup two \cup three
  BY DEF Batches, Effects, one, two
<1> QED BY <1>2, <1>3, <1>4, <1>5

\* What prepare makes of a demanded topic, once validate accepted it.
LEMMA StagedFresh ==
    ASSUME NEW t \in Topics, NEW topic \in TopicType, FreshTopic(t, topic),
           topic.demanded, NEW e, EffectOK(e),
           e.reset => topic.generation # MaxGeneration /\ topic.epoch # MaxEpoch,
           Staged(topic, e).health = "Available" /\ t \in SnapshotTopics
               => Staged(topic, e).snapshot # None
    PROVE  Staged(topic, e) \in TopicType /\ FreshTopic(t, Staged(topic, e))
<1> DEFINE c == Staged(topic, e)
           generation == IF e.reset THEN topic.generation + 1 ELSE topic.generation
           epoch == IF e.reset THEN topic.epoch + 1 ELSE topic.epoch
           health == IF e.health = "Keep" THEN topic.health ELSE e.health
           fresh == [payload |-> e.snapshot, generation |-> generation, sequence |-> 0]
           snapshot == IF e.snapshot = Keep THEN topic.snapshot
                       ELSE IF e.snapshot = None THEN None ELSE fresh
           armed == IF e.armed = "Keep" THEN topic.armed ELSE e.armed = "Arm"
<1>1. /\ c.generation = generation /\ c.epoch = epoch /\ c.demanded = topic.demanded
      /\ c.health = health /\ c.snapshot = snapshot /\ c.armed = armed
      /\ DOMAIN c = {"generation", "epoch", "demanded", "health", "snapshot", "armed"}
  BY DEF Staged, TopicType
<1>2. generation \in 1..MaxGeneration /\ epoch \in 0..MaxEpoch
  BY ConstantsAssumption DEF TopicType, EffectOK
<1>3. health \in Healths /\ armed \in BOOLEAN
  BY DEF TopicType, EffectOK, Healths
<1>4. snapshot \in {None} \cup Envelope
  <2>1. e.snapshot \in Payloads => fresh \in Envelope
    <3> HIDE DEF generation
    <3> QED BY <1>2, ConstantsAssumption DEF Envelope
  <2> HIDE DEF fresh
  <2> QED BY <2>1 DEF TopicType, EffectOK
<1>5. c \in TopicType
  <2> HIDE DEF generation, epoch, health, snapshot, armed
  <2> QED BY <1>1, <1>2, <1>3, <1>4 DEF TopicType, Staged
<1>6. armed <=> health \in {"Initializing", "Available"}
  BY ConstantsAssumption DEF EffectOK, FreshTopic
<1>7. health # "Idle"
  BY ConstantsAssumption DEF EffectOK, FreshTopic
<1>8. snapshot # None => health = "Available" /\ snapshot.generation = generation
  <2>1. fresh.generation = generation
    OBVIOUS
  <2> HIDE DEF fresh
  <2>2. CASE e.snapshot = Keep
    <3>1. ~e.reset /\ snapshot = topic.snapshot /\ e.health \in {"Keep", "Available"}
      BY <2>2, ConstantsAssumption DEF EffectOK
    <3> QED BY <3>1 DEF FreshTopic
  <2>3. CASE e.snapshot # Keep /\ e.snapshot # None
    <3>1. snapshot = fresh /\ e.health = "Available"
      BY <2>3 DEF EffectOK
    <3> HIDE DEF generation, snapshot
    <3> QED BY <2>1, <3>1
  <2> QED BY <2>2, <2>3
<1> HIDE DEF generation, epoch, health, snapshot, armed, c
<1>9. FreshTopic(t, c)
  BY <1>1, <1>6, <1>7, <1>8 DEF FreshTopic, c
<1> QED BY <1>5, <1>9 DEF c

\* A changed topic, with its snapshot under the number of its update.
LEMMA StampedFresh ==
    ASSUME NEW t \in Topics, NEW topic \in TopicType, FreshTopic(t, topic),
           topic.snapshot # None, NEW n \in 1..MaxSequence
    PROVE  LET c == [topic EXCEPT !.snapshot.sequence = n] IN
           /\ c \in TopicType /\ FreshTopic(t, c)
           /\ \A m \in Nat : n <= m => StampKnown(c, m)
<1> DEFINE c == [topic EXCEPT !.snapshot.sequence = n]
           v == [topic.snapshot EXCEPT !.sequence = n]
<1>1. topic.snapshot \in Envelope
  BY DEF TopicType
<1>2. v \in Envelope /\ v.generation = topic.snapshot.generation /\ v.sequence = n
  BY <1>1, ConstantsAssumption DEF Envelope
<1>3. c = [topic EXCEPT !.snapshot = v]
  OBVIOUS
<1> HIDE DEF v
<1>4. /\ c.generation = topic.generation /\ c.epoch = topic.epoch
      /\ c.demanded = topic.demanded /\ c.health = topic.health
      /\ c.snapshot = v /\ c.armed = topic.armed
  BY <1>3 DEF TopicType
<1>5. c \in TopicType
  BY <1>2, <1>3 DEF TopicType
<1>6. v # None
  BY <1>2, ConstantsAssumption
<1> HIDE DEF c
<1>7. FreshTopic(t, c)
  BY <1>2, <1>4, <1>6 DEF FreshTopic
<1>8. \A m \in Nat : n <= m => StampKnown(c, m)
  BY <1>2, <1>4 DEF StampKnown
<1> QED BY <1>5, <1>7, <1>8 DEF c

\* A topic that is not changed keeps its snapshot and takes the new deadline.
LEMMA UnchangedFresh ==
    ASSUME NEW t \in Topics, NEW old \in TopicType, FreshTopic(t, old),
           NEW new \in TopicType, FreshTopic(t, new), ~Changed(old, new)
    PROVE  LET c == [new EXCEPT !.snapshot = old.snapshot] IN
           /\ c \in TopicType /\ FreshTopic(t, c)
           /\ \A n : StampKnown(old, n) => StampKnown(c, n)
<1> DEFINE c == [new EXCEPT !.snapshot = old.snapshot]
<1>1. /\ c.generation = new.generation /\ c.epoch = new.epoch
      /\ c.demanded = new.demanded /\ c.health = new.health
      /\ c.snapshot = old.snapshot /\ c.armed = new.armed
  BY DEF TopicType
<1>2. c \in TopicType
  BY DEF TopicType
<1>3. new.generation = old.generation /\ new.health = old.health
  BY DEF Changed
<1> HIDE DEF c
<1>4. FreshTopic(t, c)
  BY <1>1, <1>3 DEF FreshTopic
<1>5. \A n : StampKnown(old, n) => StampKnown(c, n)
  BY <1>1 DEF StampKnown
<1> QED BY <1>2, <1>4, <1>5 DEF c

\* The number of a changed topic lies among the numbers of the changed topics.
LEMMA RankBounds ==
    ASSUME NEW C \in SUBSET Topics, NEW t \in C
    PROVE  Cardinality({c \in C : c <= t}) \in 1..Cardinality(C)
<1> DEFINE D == {c \in C : c <= t}
<1>1. t \in Int /\ t <= t
  BY ConstantsAssumption
<1>2. t \in D
  BY <1>1
<1>3. IsFiniteSet(C) /\ Cardinality(C) \in Nat /\ D \in SUBSET Topics /\ D \in SUBSET C
  BY FiniteKeys
<1> HIDE DEF D
<1>4. IsFiniteSet(D) /\ Cardinality(D) \in Nat /\ Cardinality(D) <= Cardinality(C)
  BY <1>3, FiniteKeys, FS_Subset
<1>5. Cardinality(D) # 0
  BY <1>2, <1>4, FS_EmptySet
<1> QED BY <1>3, <1>4, <1>5 DEF D

\* The updates of one session, one per topic of C.
LEMMA SessionKeys ==
    ASSUME NEW s, NEW C \in SUBSET Topics
    PROVE  Cardinality({s} \X C) = Cardinality(C) /\ Cardinality(C) \in Nat
<1>1. IsFiniteSet({s}) /\ Cardinality({s}) = 1
  BY FS_Singleton
<1>2. IsFiniteSet(C) /\ Cardinality(C) \in Nat
  BY FiniteKeys
<1>3. Cardinality({s} \X C) = Cardinality({s}) * Cardinality(C)
  BY <1>1, <1>2, FS_Product
<1> QED BY <1>1, <1>2, <1>3

\* What commit stores for a topic, apart from the number of its snapshot.
Stores(old, e, c) ==
    LET new == Staged(old, e) IN
    /\ new \in TopicType
    /\ c.generation = new.generation /\ c.epoch = new.epoch
    /\ c.demanded = new.demanded /\ c.armed = new.armed
    /\ c.snapshot = None <=> new.snapshot = None

\* The steps of a committed poll.
Committing(st, s, batch, p, us, e) ==
    /\ Sound(p) /\ Rewritten(st, {s} \X Touched(batch), p) /\ Len(us) \in Nat
    /\ \A t \in Touched(batch) : Stores(st.topics[s][t], batch[t], p.topics[s][t])
    /\ Good(Emit(p, us))
    /\ e = Settle(Emit(p, us))

\* A committed poll stores fresh topics under numbers it gives out itself.
LEMMA CommitParts ==
    ASSUME NEW st, Good(st), NEW s, NEW ticket, NEW batch \in Batches, NEW build,
           DOMAIN ticket \subseteq Topics,
           CommitOutcome(st, s, ticket, batch, build) = "Committed"
    PROVE  \E p, us : Committing(st, s, batch, p, us, Commit(st, s, batch, build))
<1> DEFINE Old(t) == st.topics[s][t]
           New(t) == Staged(Old(t), batch[t])
           resets == ResetIntents(batch)
           touched == Touched(batch)
           changed == {t \in Touched(batch) : Changed(Old(t), New(t))}
           events == EventSlots(batch)
           meta == IF build = st.build[s] THEN <<>>
                   ELSE <<[kind |-> "SessionChanged", session |-> s, build |-> build]>>
           base == st.sequence + Len(meta) + Cardinality(resets)
           Number(t) == base + Cardinality({c \in changed : c <= t})
           Stamped(t) == IF New(t).snapshot = None THEN New(t)
                         ELSE [New(t) EXCEPT !.snapshot.sequence = Number(t)]
           Topic(k) == IF k[2] \in changed THEN Stamped(k[2])
                       ELSE [New(k[2]) EXCEPT !.snapshot = Old(k[2]).snapshot]
           Reset(k) == TopicReset(s, k[2], New(k[2]))
           Change(k) == TopicChanged(s, k[2], Stamped(k[2]))
           Event(x) == [kind |-> "Event", session |-> s, topic |-> x[1],
                        generation |-> New(x[1]).generation,
                        sequence |-> base + Cardinality(changed)
                            + Cardinality({y \in events : y = x \/ Before(y, x)}),
                        payload |-> batch[x[1]].events[x[2]]]
           S == {s} \X touched
           set == SetTopics(st, S, Topic)
           p == [set EXCEPT !.build[s] = build]
           rs == PerKey({s} \X resets, Reset)
           cs == PerKey({s} \X changed, Change)
           es == PerKey(events, Event)
           us == meta \o rs \o cs \o es
           m == IF build # st.build[s] THEN 1 ELSE 0
           n == base + Cardinality(changed)
<1>1. Commit(st, s, batch, build) = Settle(Emit(p, us))
  BY DEF Commit
<1>2. /\ HasTicket(st, s) /\ Fenced(st, s, ticket) /\ Valid(st, s, ticket, batch)
      /\ \A t \in resets : st.topics[s][t].generation # MaxGeneration
                           /\ st.topics[s][t].epoch # MaxEpoch
      /\ HasSequences(st, Reservation(st, s, batch, build))
  BY DEF CommitOutcome
<1>3. s \in SessionIds /\ ~st.stopped /\ st.sequence \in 0..MaxSequence
  BY <1>2 DEF HasTicket, Good, Sound, Typed, WellTyped
<1>4. touched \in SUBSET Topics /\ resets \in SUBSET Topics /\ changed \in SUBSET Topics
      /\ changed \in SUBSET touched
  BY DEF Touched, ResetIntents
<1>5. events \in SUBSET (Topics \X (1..MaxPushes)) /\ MaxPushes \in Nat
  BY PushesAssumption DEF EventSlots
<1>6. /\ Cardinality(touched) \in Nat /\ Cardinality(resets) \in Nat
      /\ Cardinality(changed) \in Nat /\ Cardinality(changed) <= Cardinality(touched)
      /\ Cardinality(events) \in Nat
      /\ Cardinality({s} \X resets) = Cardinality(resets)
      /\ Cardinality({s} \X changed) = Cardinality(changed)
  <2> HIDE DEF touched, resets, changed, events
  <2>1. IsFiniteSet(touched)
    BY <1>4, FiniteKeys
  <2> QED BY <1>4, <1>5, <2>1, FiniteKeys, FiniteSlots, SessionKeys, FS_Subset
<1>7. meta = [i \in 1..m |-> meta[i]] /\ m \in Nat /\ Len(meta) = m
  <2>1. CASE build = st.build[s]
    BY <2>1
  <2>2. CASE build # st.build[s]
    BY <2>2
  <2> QED BY <2>1, <2>2
<1>8. Len(us) = m + Cardinality(resets) + Cardinality(changed) + Cardinality(events)
  <2>1. rs = [i \in 1..Cardinality(resets) |-> rs[i]]
    <3> HIDE DEF resets, Reset
    <3> QED BY <1>6 DEF PerKey
  <2>2. cs = [i \in 1..Cardinality(changed) |-> cs[i]]
    <3> HIDE DEF changed, Change
    <3> QED BY <1>6 DEF PerKey
  <2>3. es = [i \in 1..Cardinality(events) |-> es[i]]
    <3> HIDE DEF events, Event
    <3> QED BY DEF PerKey
  <2> HIDE DEF meta, m, rs, cs, es, resets, changed, events
  <2> DEFINE a == m + Cardinality(resets)
             b == a + Cardinality(changed)
             c == b + Cardinality(events)
             ab == meta \o rs
             abc == ab \o cs
             abcd == abc \o es
  <2>4. ListOf(meta, m) /\ ListOf(rs, Cardinality(resets))
        /\ ListOf(cs, Cardinality(changed)) /\ ListOf(es, Cardinality(events))
    BY <1>6, <1>7, <2>1, <2>2, <2>3 DEF ListOf
  <2>5. ListOf(ab, a)
    BY <2>4, ConcatList
  <2>6. ListOf(abc, b)
    <3> HIDE DEF ab, a
    <3> QED BY <2>4, <2>5, ConcatList
  <2>7. ListOf(abcd, c)
    <3> HIDE DEF abc, b
    <3> QED BY <2>4, <2>6, ConcatList
  <2>8. Len(us) = c
    <3>1. us = abcd
      OBVIOUS
    <3> HIDE DEF abcd, c, us
    <3> QED BY <2>7, <3>1, LenList DEF ListOf
  <2> QED BY <2>8
<1>9. /\ HasSequences(st, Len(us)) /\ n \in 0..MaxSequence
      /\ n <= st.sequence + Len(us) /\ Len(us) \in Nat /\ base \in Nat /\ n \in Nat
      /\ st.sequence <= n
  <2>1. Cardinality(resets) + Cardinality(touched) + Cardinality(events) + m
            <= MaxSequence - st.sequence
    BY <1>2 DEF HasSequences, Reservation
  <2> DEFINE r == Cardinality(resets)
             c == Cardinality(changed)
             v == Cardinality(events)
             h == Cardinality(touched)
             q == st.sequence
  <2>2. q \in Nat /\ q <= MaxSequence /\ MaxSequence \in Nat
    BY <1>3, ConstantsAssumption
  <2>3. r \in Nat /\ c \in Nat /\ v \in Nat /\ h \in Nat /\ m \in Nat /\ c <= h
    BY <1>6, <1>7
  <2>4. r + h + v + m <= MaxSequence - q
    BY <2>1
  <2>5. n = q + m + r + c /\ base = q + m + r /\ Len(us) = m + r + c + v
    BY <1>7, <1>8
  <2>6. HasSequences(st, Len(us)) <=> Len(us) <= MaxSequence - q
    BY DEF HasSequences
  <2> HIDE DEF resets, touched, changed, events, m, meta, us, r, c, v, h, q, n, base
  <2>7. /\ m + r + c + v <= MaxSequence - q /\ q + m + r + c \in 0..MaxSequence
        /\ q + m + r + c <= q + (m + r + c + v) /\ q <= q + m + r + c
        /\ q + m + r \in Nat /\ m + r + c + v \in Nat /\ q + m + r + c \in Nat
    BY <2>2, <2>3, <2>4
  <2> QED BY <2>5, <2>6, <2>7 DEF q
<1>10. /\ DOMAIN p = Fields /\ p.sequence = st.sequence /\ p.stopped = st.stopped
       /\ p.sessions = st.sessions /\ p.next = st.next /\ p.subs = st.subs
       /\ p.runtime = st.runtime /\ p.queue = st.queue
       /\ p.topics = [x \in SessionIds |-> [t \in Topics |->
              IF <<x, t>> \in S THEN Topic(<<x, t>>) ELSE st.topics[x][t]]]
  <2> HIDE DEF S, Topic
  <2>1. /\ DOMAIN set = Fields /\ set.sequence = st.sequence /\ set.stopped = st.stopped
        /\ set.sessions = st.sessions /\ set.next = st.next /\ set.subs = st.subs
        /\ set.runtime = st.runtime /\ set.queue = st.queue
        /\ set.topics = [x \in SessionIds |-> [t \in Topics |->
              IF <<x, t>> \in S THEN Topic(<<x, t>>) ELSE st.topics[x][t]]]
    BY DEF SetTopics, Good, Sound, Typed, Fields
  <2> HIDE DEF set
  <2> QED BY <2>1 DEF Fields
<1> HIDE DEF p, us, n, base
<1>11. ASSUME NEW t \in touched
       PROVE  LET c == IF t \in changed THEN Stamped(t)
                       ELSE [New(t) EXCEPT !.snapshot = Old(t).snapshot] IN
              /\ c \in TopicType /\ FreshTopic(t, c) /\ StampKnown(c, n)
              /\ Stores(Old(t), batch[t], c)
  <2>1. t \in Topics /\ Old(t) \in TopicType /\ FreshTopic(t, Old(t))
    BY <1>3, <1>4 DEF Good, Sound, Typed, WellTyped, Fresh
  <2>2. Old(t).demanded
    BY <1>2 DEF Valid, Fenced
  <2>3. /\ batch[t].reset => Old(t).generation # MaxGeneration /\ Old(t).epoch # MaxEpoch
        /\ New(t).health = "Available" /\ t \in SnapshotTopics => New(t).snapshot # None
    BY <1>2, <2>1 DEF Valid, ResetIntents
  <2>4. EffectOK(batch[t])
    BY <2>1, BatchOK
  <2>5. New(t) \in TopicType /\ FreshTopic(t, New(t))
    <3> HIDE DEF Old
    <3> QED BY <2>1, <2>2, <2>3, <2>4, StagedFresh
  <2>6. CASE t \in changed /\ New(t).snapshot # None
    <3>1. Cardinality({c \in changed : c <= t}) \in 1..Cardinality(changed)
      <4> HIDE DEF changed
      <4> QED BY <1>4, <2>6, RankBounds
    <3>2. Number(t) \in 1..MaxSequence /\ Number(t) <= n
      <4> HIDE DEF changed
      <4> QED BY <1>6, <1>9, <3>1, ConstantsAssumption DEF n
    <3> HIDE DEF changed, Number
    <3> DEFINE new == New(t)
               c == [new EXCEPT !.snapshot.sequence = Number(t)]
    <3>3. new \in TopicType /\ FreshTopic(t, new) /\ new.snapshot # None
      BY <2>5, <2>6
    <3> HIDE DEF new
    <3>4. /\ c \in TopicType /\ FreshTopic(t, c)
          /\ \A m2 \in Nat : Number(t) <= m2 => StampKnown(c, m2)
      BY <2>1, <3>2, <3>3, StampedFresh
    <3>5. /\ c.generation = new.generation /\ c.epoch = new.epoch
          /\ c.demanded = new.demanded /\ c.armed = new.armed /\ c.snapshot # None
      <4>1. c = [new EXCEPT !.snapshot = [new.snapshot EXCEPT !.sequence = Number(t)]]
        OBVIOUS
      <4> DEFINE v == [new.snapshot EXCEPT !.sequence = Number(t)]
      <4>2. new.snapshot \in Envelope
        BY <3>3 DEF TopicType
      <4>3. v \in Envelope
        BY <3>2, <4>2, ConstantsAssumption DEF Envelope
      <4>4. v # None
        BY <4>3, ConstantsAssumption
      <4> HIDE DEF v
      <4> QED BY <3>3, <4>1, <4>4 DEF TopicType, v
    <3>6. Stores(Old(t), batch[t], c)
      <4> HIDE DEF c
      <4> QED BY <3>3, <3>5 DEF Stores, new
    <3>7. c = IF t \in changed THEN Stamped(t)
              ELSE [New(t) EXCEPT !.snapshot = Old(t).snapshot]
      BY <2>6 DEF new
    <3> HIDE DEF c
    <3> QED BY <1>9, <3>2, <3>4, <3>6, <3>7
  <2>7. CASE t \in changed /\ New(t).snapshot = None
    <3>1. Stores(Old(t), batch[t], New(t))
      BY <2>5 DEF Stores
    <3> HIDE DEF changed, New, Number
    <3> QED BY <2>5, <2>7, <3>1 DEF StampKnown
  <2>8. CASE t \notin changed
    <3>1. ~Changed(Old(t), New(t))
      BY <2>8
    <3>2. StampKnown(Old(t), n)
      <4>1. Stamps(st, n)
        BY <1>3, <1>9, StampsGrow, ConstantsAssumption DEF Good
      <4> QED BY <1>3, <2>1, <4>1 DEF Stamps
    <3> HIDE DEF changed
    <3> DEFINE old == Old(t)
               new == New(t)
               c == [new EXCEPT !.snapshot = old.snapshot]
    <3>3. new \in TopicType /\ FreshTopic(t, new) /\ old \in TopicType
      BY <2>1, <2>5
    <3>4. c \in TopicType /\ FreshTopic(t, c) /\ StampKnown(c, n)
      <4> HIDE DEF new, old
      <4> QED BY <2>1, <2>5, <3>1, <3>2, UnchangedFresh DEF new, old
    <3>5. old.snapshot = None <=> new.snapshot = None
      <4>1. Payload(old.snapshot) = Payload(new.snapshot)
        BY <3>1 DEF Changed
      <4>2. \A v \in Envelope : v # None /\ v.payload # None
        BY ConstantsAssumption DEF Envelope
      <4>3. old.snapshot \in {None} \cup Envelope /\ new.snapshot \in {None} \cup Envelope
        <5> HIDE DEF old, new
        <5> QED BY <3>3 DEF TopicType
      <4> HIDE DEF old, new
      <4> QED BY <4>1, <4>2, <4>3 DEF Payload
    <3>6. /\ c.generation = new.generation /\ c.epoch = new.epoch
          /\ c.demanded = new.demanded /\ c.armed = new.armed /\ c.snapshot = old.snapshot
      <4> HIDE DEF old, new
      <4> QED BY <3>3 DEF TopicType
    <3>7. Stores(old, batch[t], c)
      <4> HIDE DEF c, old
      <4> QED BY <3>3, <3>5, <3>6 DEF Stores, new, old
    <3>8. c = IF t \in changed THEN Stamped(t)
              ELSE [New(t) EXCEPT !.snapshot = Old(t).snapshot]
      BY <2>8
    <3> HIDE DEF c, new
    <3> QED BY <3>4, <3>7, <3>8
  <2> QED BY <2>6, <2>7, <2>8
<1>12. \A x \in SessionIds, t \in Topics : <<x, t>> \in S =>
         /\ p.topics[x][t] \in TopicType /\ FreshTopic(t, p.topics[x][t])
         /\ StampKnown(p.topics[x][t], n)
         /\ Stores(Old(t), batch[t], p.topics[x][t])
  <2> SUFFICES ASSUME NEW x \in SessionIds, NEW t \in Topics, <<x, t>> \in S
               PROVE  /\ p.topics[x][t] \in TopicType /\ FreshTopic(t, p.topics[x][t])
                      /\ StampKnown(p.topics[x][t], n)
                      /\ Stores(Old(t), batch[t], p.topics[x][t])
    OBVIOUS
  <2>1. t \in touched
    OBVIOUS
  <2>2. p.topics[x][t] = Topic(<<x, t>>)
    <3> HIDE DEF S, Topic
    <3> QED BY <1>10
  <2>3. Topic(<<x, t>>) = IF t \in changed THEN Stamped(t)
                          ELSE [New(t) EXCEPT !.snapshot = Old(t).snapshot]
    <3> HIDE DEF changed, Stamped, New, Old
    <3> QED OBVIOUS
  <2> HIDE DEF Topic, changed, Stamped, New, Old, touched
  <2> QED BY <1>11, <2>1, <2>2, <2>3
<1>13. \A x \in SessionIds, t \in Topics : <<x, t>> \notin S =>
         p.topics[x][t] = st.topics[x][t]
  <2> HIDE DEF S, Topic
  <2> QED BY <1>10
<1>14. p.topics = [x \in SessionIds |-> [t \in Topics |-> p.topics[x][t]]]
  <2> HIDE DEF S, Topic
  <2> QED BY <1>10
<1> HIDE DEF S, Topic, changed, resets, touched, events, New, Old
<1>15. Replaced(st, S, p) /\ NewStamps(S, p, n)
  BY <1>3, <1>10, <1>12, <1>13, <1>14 DEF Replaced, NewStamps
<1>16. Stamps(st, n)
  BY <1>3, <1>9, StampsGrow, ConstantsAssumption DEF Good
<1>17. Sound(p) /\ Stamps(p, n)
  BY <1>15, <1>16, ReplaceTopics DEF Good
<1>18. HasSequences(p, Len(us)) /\ ~p.stopped
  BY <1>3, <1>9, <1>10 DEF HasSequences
<1> DEFINE e == Emit(p, us)
<1>19. Good(e) /\ e.next = st.next /\ e.runtime = st.runtime
  BY <1>9, <1>10, <1>17, <1>18, EmitGood
<1>20. Rewritten(st, S, p)
  BY <1>10, <1>13 DEF Rewritten
<1>21. \A t \in touched : Stores(st.topics[s][t], batch[t], p.topics[s][t])
  <2>1. \A t \in touched : <<s, t>> \in S /\ t \in Topics
    BY <1>4 DEF S
  <2> QED BY <1>3, <1>12, <2>1 DEF Old
<1> HIDE DEF e
<1>22. Committing(st, s, batch, p, us, Commit(st, s, batch, build))
  BY <1>1, <1>9, <1>17, <1>19, <1>20, <1>21 DEF S, touched, e, Committing
<1> QED BY <1>22

\* commit keeps the state good.
LEMMA CommitGood ==
    ASSUME NEW st, Good(st), NEW s, NEW ticket, NEW batch \in Batches, NEW build,
           DOMAIN ticket \subseteq Topics,
           CommitOutcome(st, s, ticket, batch, build) = "Committed"
    PROVE  LET e == Commit(st, s, batch, build) IN
           Good(e) /\ e.next = st.next /\ e.runtime = st.runtime
<1> DEFINE x == Commit(st, s, batch, build)
<1>1. PICK p, us : Committing(st, s, batch, p, us, x)
  BY CommitParts
<1> DEFINE e == Emit(p, us)
<1>2. e.next = st.next /\ e.runtime = st.runtime
  <2>1. Typed(p) /\ p.next = st.next /\ p.runtime = st.runtime
    BY <1>1 DEF Rewritten, Sound, Committing
  <2> QED BY <1>1, <2>1, EmitFields DEF Committing
<1>3. Good(e) /\ x = Settle(e)
  BY <1>1 DEF Committing
<1> HIDE DEF e, x
<1> QED BY <1>2, <1>3, SettleGood DEF x

\* commit_poll, whatever its outcome.
LEMMA CommitPollGood ==
    ASSUME NEW st, Good(st), NEW s, NEW ticket, NEW batch \in Batches, NEW build,
           DOMAIN ticket \subseteq Topics
    PROVE  LET e == CommitPoll(st, s, ticket, batch, build) IN
           Good(e) /\ e.next = st.next /\ e.runtime = st.runtime
<1>1. CASE CommitOutcome(st, s, ticket, batch, build) = "Committed"
  BY <1>1, CommitGood DEF CommitPoll
<1>2. CASE CommitOutcome(st, s, ticket, batch, build) = "Exhausted"
  BY <1>2, CloseGood DEF CommitPoll, Good, Sound
<1>3. CASE CommitOutcome(st, s, ticket, batch, build) \notin {"Committed", "Exhausted"}
  BY <1>3 DEF CommitPoll
<1> QED BY <1>1, <1>2, <1>3

---------------------------------------------------------------------------
(* The inductive invariant and the actions. *)

Runtimes ==
    [targets: [Targets -> {Absent, Attaching, Retrying} \cup SessionIds], error: BOOLEAN]

PollOK(pl) ==
    /\ DOMAIN pl = {"phase", "session", "ticket", "resets", "failed"}
    /\ pl.phase \in {"None", "Sampling", "Refused"}
    /\ pl.phase # "None" => pl.session \in SessionIds
    /\ DOMAIN pl.ticket \subseteq Topics

\* Good is more than the theorems ask for: it covers the topics of sessions that
\* are not live, which add_session relies on, and the shape of the records.
IInv ==
    /\ Good(inner)
    /\ inner.runtime \in Runtimes
    /\ handles \subseteq SubIds
    /\ PollOK(poll)

\* No poll in flight is a well-formed poll.
LEMMA NoPollOK == PollOK(NoPoll)
<1>1. /\ NoPoll.phase = "None" /\ NoPoll.ticket = <<>>
      /\ DOMAIN NoPoll = {"phase", "session", "ticket", "resets", "failed"}
  BY DEF NoPoll
<1>2. DOMAIN NoPoll.ticket = {}
  BY <1>1
<1> QED BY <1>1, <1>2 DEF PollOK

\* The initial state.
LEMMA InitInv == Init => IInv
<1> SUFFICES ASSUME Init PROVE IInv
  OBVIOUS
<1> DEFINE st == InitialInner(Targets)
           sub == [registered |-> FALSE, active |-> FALSE, sessions |-> All, topics |-> {}]
<1>1. /\ DOMAIN st = Fields /\ st.sequence = 0 /\ st.stopped = FALSE /\ st.sessions = {}
      /\ st.next = 0
      /\ st.topics = [s \in SessionIds |-> [t \in Topics |-> InitialTopic]]
      /\ st.subs = [id \in SubIds |-> sub]
      /\ st.runtime = [targets |-> [p \in Targets |-> Absent], error |-> FALSE]
  BY DEF InitialInner, Fields
<1>2. sub \in SubType
  BY DEF SubType
<1>3. inner = st
  BY DEF Init
<1> HIDE DEF st, sub
<1>4. Good(st)
  <2>1. Typed(st)
    <3>1. st.topics \in [SessionIds -> [Topics -> TopicType]]
      BY <1>1, InitialTopicFresh
    <3>2. st.subs \in [SubIds -> SubType]
      BY <1>1, <1>2
    <3>3. 0 \in 0..MaxSequence /\ 0 \in 0..MaxSubscription
      BY ConstantsAssumption
    <3>4. st.stopped \in BOOLEAN /\ st.sessions \subseteq SessionIds
      BY <1>1
    <3> QED BY <1>1, <3>1, <3>2, <3>3, <3>4 DEF Typed, WellTyped
  <2>2. \A s \in SessionIds, t \in Topics : st.topics[s][t] = InitialTopic
    BY <1>1
  <2>3. Fresh(st)
    BY <2>2, InitialTopicFresh DEF Fresh
  <2>4. Stamps(st, st.sequence)
    BY <2>2, InitialTopicFresh DEF Stamps
  <2>5. Empty(st)
    BY <1>1 DEF Empty
  <2> QED BY <2>1, <2>3, <2>4, <2>5 DEF Good, Sound
<1>5. st.runtime \in Runtimes
  BY <1>1 DEF Runtimes
<1> QED BY <1>3, <1>4, <1>5, NoPollOK DEF Init, IInv

\* update_lifecycle, for any well-formed status.
LEMMA UpdateLifecycleInv ==
    ASSUME IInv, NEW targets \in [Targets -> {Absent, Attaching, Retrying} \cup SessionIds],
           NEW error \in BOOLEAN, UpdateLifecycle(targets, error)
    PROVE  IInv'
<1> DEFINE status == [targets |-> targets, error |-> error]
<1>1. status \in Runtimes
  BY DEF Runtimes
<1>2. /\ inner' = SyncRuntime(inner, status)
      /\ handles' = handles /\ poll' = poll
  BY DEF UpdateLifecycle
<1> HIDE DEF status
<1>3. Good(inner') /\ inner'.runtime \in {inner.runtime, status}
  BY <1>2, SyncRuntimeGood DEF IInv
<1> QED BY <1>1, <1>2, <1>3 DEF IInv

\* The lifecycle worker publishes.
LEMMA PublishInv ==
    ASSUME IInv,
           \/ \E gone \in SUBSET Targets : PublishRetained(gone)
           \/ PublishDiscoveryFailed
           \/ \E gone \in SUBSET Targets : PublishDiscovered(gone)
           \/ \E p \in Targets : PublishAttaching(p)
           \/ \E p \in Targets, a \in {Retrying} \cup (SessionIds \ used) :
                 PublishAttached(p, a)
           \/ PublishRetired
    PROVE  IInv'
<1> DEFINE Activities == {Absent, Attaching, Retrying} \cup SessionIds
<1>0. /\ inner.runtime.targets \in [Targets -> Activities]
      /\ inner.runtime.error \in BOOLEAN
      /\ FALSE \in BOOLEAN /\ TRUE \in BOOLEAN
      /\ Absent \in Activities /\ Attaching \in Activities /\ Retrying \in Activities
  BY DEF IInv, Runtimes
<1>1. ASSUME NEW gone, PublishRetained(gone) PROVE IInv'
  <2>1. Without(gone) \in [Targets -> Activities]
    BY <1>0 DEF Without, Activity
  <2> QED BY <1>0, <1>1, <2>1, UpdateLifecycleInv DEF PublishRetained
<1>2. ASSUME PublishDiscoveryFailed PROVE IInv'
  BY <1>0, <1>2, UpdateLifecycleInv DEF PublishDiscoveryFailed
<1>3. ASSUME NEW gone, PublishDiscovered(gone) PROVE IInv'
  <2>1. Without(gone) \in [Targets -> Activities]
    BY <1>0 DEF Without, Activity
  <2> QED BY <1>0, <1>3, <2>1, UpdateLifecycleInv DEF PublishDiscovered
<1>4. ASSUME NEW p \in Targets, PublishAttaching(p) PROVE IInv'
  <2>1. [inner.runtime.targets EXCEPT ![p] = Attaching] \in [Targets -> Activities]
    BY <1>0
  <2> QED BY <1>0, <1>4, <2>1, UpdateLifecycleInv DEF PublishAttaching
<1>5. ASSUME NEW p \in Targets, NEW a \in {Retrying} \cup (SessionIds \ used),
             PublishAttached(p, a)
      PROVE  IInv'
  <2>1. [inner.runtime.targets EXCEPT ![p] = a] \in [Targets -> Activities]
    BY <1>0
  <2> QED BY <1>0, <1>5, <2>1, UpdateLifecycleInv DEF PublishAttached
<1>6. ASSUME PublishRetired PROVE IInv'
  <2> DEFINE targets == [p \in Targets |-> IF Activity(p) \in retired THEN Retrying
                                           ELSE Activity(p)]
  <2>1. targets \in [Targets -> Activities]
    BY <1>0 DEF Activity
  <2>2. UpdateLifecycle(targets, inner.runtime.error)
    BY <1>6 DEF PublishRetired
  <2> HIDE DEF targets
  <2> QED BY <1>0, <2>1, <2>2, UpdateLifecycleInv
<1> QED BY <1>1, <1>2, <1>3, <1>4, <1>5, <1>6

\* The worker polls.
LEMMA PollInv ==
    ASSUME IInv,
           \/ \E s \in SessionIds : StartPoll(s)
           \/ \E batch \in Batches, b \in Builds : CommitStep(batch, b)
           \/ DiscardRefused
           \/ \E resets \in SUBSET Topics : ProviderFails(resets)
           \/ VerificationFails
    PROVE  IInv'
<1>1. ASSUME NEW s \in SessionIds, StartPoll(s) PROVE IInv'
  <2> DEFINE ticket == CurrentTicket(inner, s)
  <2>1. DOMAIN ticket \subseteq Topics
    BY DEF CurrentTicket
  <2>2. /\ poll' = [NoPoll EXCEPT !.phase = "Sampling", !.session = s, !.ticket = ticket]
        /\ inner' = inner /\ handles' = handles
    BY <1>1 DEF StartPoll
  <2> HIDE DEF ticket
  <2>3. /\ poll'.phase = "Sampling" /\ poll'.session = s /\ poll'.ticket = ticket
        /\ DOMAIN poll' = {"phase", "session", "ticket", "resets", "failed"}
    BY <2>2 DEF NoPoll
  <2>4. PollOK(poll')
    BY <2>1, <2>3 DEF PollOK
  <2> QED BY <2>2, <2>4 DEF IInv
<1>2. ASSUME NEW batch \in Batches, NEW b, CommitStep(batch, b) PROVE IInv'
  <2> DEFINE outcome == CommitOutcome(inner, poll.session, poll.ticket, batch, b)
             resets == ResetIntents(batch)
             refused == [poll EXCEPT !.phase = "Refused", !.resets = resets,
                                     !.failed = outcome = "Rejected"]
  <2>1. /\ poll.phase = "Sampling" /\ handles' = handles
        /\ inner' = CommitPoll(inner, poll.session, poll.ticket, batch, b)
        /\ poll' = IF outcome = "Committed" THEN NoPoll ELSE refused
    BY <1>2 DEF CommitStep
  <2>2. Good(inner') /\ inner'.runtime = inner.runtime
    BY <2>1, CommitPollGood DEF IInv, PollOK
  <2> HIDE DEF outcome, resets
  <2>3. /\ refused.phase = "Refused" /\ refused.session = poll.session
        /\ refused.ticket = poll.ticket
        /\ DOMAIN refused = {"phase", "session", "ticket", "resets", "failed"}
    BY DEF IInv, PollOK
  <2> HIDE DEF refused
  <2>4. PollOK(refused)
    BY <2>1, <2>3 DEF IInv, PollOK
  <2> QED BY <2>1, <2>2, <2>4, NoPollOK DEF IInv
<1>3. ASSUME DiscardRefused PROVE IInv'
  <2>1. /\ inner' = DiscardPoll(inner, poll.session, poll.ticket, poll.resets, poll.failed)
        /\ poll' = NoPoll /\ handles' = handles
    BY <1>3 DEF DiscardRefused
  <2>2. Good(inner') /\ inner'.runtime = inner.runtime
    BY <2>1, DiscardPollGood DEF IInv, PollOK
  <2> QED BY <2>1, <2>2, NoPollOK DEF IInv
<1>4. ASSUME NEW resets, ProviderFails(resets) PROVE IInv'
  <2>1. /\ poll.phase = "Sampling" /\ handles' = handles /\ inner' = inner
        /\ poll' = [poll EXCEPT !.phase = "Refused", !.resets = resets, !.failed = TRUE]
    BY <1>4 DEF ProviderFails
  <2>2. /\ poll'.phase = "Refused" /\ poll'.session = poll.session
        /\ poll'.ticket = poll.ticket
        /\ DOMAIN poll' = {"phase", "session", "ticket", "resets", "failed"}
    BY <2>1 DEF IInv, PollOK
  <2>3. PollOK(poll')
    BY <2>1, <2>2 DEF IInv, PollOK
  <2> QED BY <2>1, <2>3 DEF IInv
<1>5. ASSUME VerificationFails PROVE IInv'
  <2>1. /\ inner' = DiscardPoll(inner, poll.session, poll.ticket, {}, TRUE)
        /\ poll' = NoPoll /\ handles' = handles
    BY <1>5 DEF VerificationFails
  <2> DEFINE none == {}
             yes == TRUE
             e == DiscardPoll(inner, poll.session, poll.ticket, none, yes)
  <2>2. Good(e) /\ e.runtime = inner.runtime
    <3>1. Good(inner) /\ DOMAIN poll.ticket \subseteq Topics
      BY DEF IInv, PollOK
    <3> HIDE DEF none, yes
    <3> QED BY <3>1, DiscardPollGood
  <2> HIDE DEF e
  <2>3. Good(inner') /\ inner'.runtime = inner.runtime
    BY <2>1, <2>2 DEF e
  <2> QED BY <2>1, <2>3, NoPollOK DEF IInv
<1> QED BY <1>1, <1>2, <1>3, <1>4, <1>5

\* A queue alone changes: nothing Good looks at.
LEMMA QueueGood ==
    ASSUME NEW st, Good(st), NEW queue
    PROVE  LET q == [st EXCEPT !.queue = queue] IN Good(q) /\ q.runtime = st.runtime
<1> DEFINE q == [st EXCEPT !.queue = queue]
<1>1. /\ DOMAIN q = Fields /\ q.sequence = st.sequence /\ q.stopped = st.stopped
      /\ q.sessions = st.sessions /\ q.topics = st.topics /\ q.next = st.next
      /\ q.subs = st.subs /\ q.runtime = st.runtime
  BY DEF Good, Sound, Typed, Fields
<1>2. st.sequence \in 0..MaxSequence
  BY DEF Good, Sound, Typed, WellTyped
<1> HIDE DEF q
<1>3. Typed(q) /\ Fresh(q) /\ Empty(q) /\ Stamps(q, st.sequence)
  BY <1>1, <1>2, SameFields DEF Good, Sound
<1> QED BY <1>1, <1>3 DEF Good, Sound, q

\* Requests, streams, maintenance and shutdown.
LEMMA RequestInv ==
    ASSUME IInv, Requests \/ \E id \in SubIds : Receive(id)
    PROVE  IInv'
<1>1. ASSUME NEW due, ExpireStep(due) PROVE IInv'
  BY <1>1, ExpireGood DEF ExpireStep, IInv
<1>2. ASSUME NEW sel \in Selections, NEW due, Subscribe(sel, due) PROVE IInv'
  <2> DEFINE st == Expire(inner, due)
             admitted == Admit(st, sel)
  <2>1. Good(st) /\ st.runtime = inner.runtime
    BY <1>2, ExpireGood DEF Subscribe, IInv
  <2>2. /\ Acceptable(st, sel) /\ inner' = admitted /\ poll' = poll
        /\ handles' \subseteq handles \cup {admitted.next}
    BY <1>2 DEF Subscribe
  <2> HIDE DEF st
  <2>3. Good(admitted) /\ admitted.next \in SubIds /\ admitted.runtime = st.runtime
    BY <2>1, <2>2, AdmitGood
  <2> HIDE DEF admitted
  <2> QED BY <2>1, <2>2, <2>3 DEF IInv
<1>3. ASSUME NEW id \in SubIds, DropSubscription(id) PROVE IInv'
  <2> DEFINE st == Settle(Unregister(inner, id))
             queue == [st.queue EXCEPT ![id] = EmptyQueue]
  <2>1. Good(st) /\ st.runtime = inner.runtime
    <3>1. Good(Unregister(inner, id)) /\ Unregister(inner, id).runtime = inner.runtime
      BY UnregisterGood DEF IInv
    <3> QED BY <3>1, SettleGood
  <2>2. /\ inner' = [st EXCEPT !.queue = queue] /\ poll' = poll
        /\ handles' \subseteq handles
    BY <1>3 DEF DropSubscription
  <2> HIDE DEF st, queue
  <2>3. Good(inner') /\ inner'.runtime = inner.runtime
    BY <2>1, <2>2, QueueGood
  <2> QED BY <2>2, <2>3 DEF IInv
<1>4. ASSUME Shutdown PROVE IInv'
  BY <1>4, CloseGood DEF Shutdown, IInv, Good, Sound
<1>5. ASSUME NEW id \in SubIds, Receive(id) PROVE IInv'
  <2> DEFINE queue == [inner.queue EXCEPT ![id] = PopRest(@)]
  <2>1. inner' = [inner EXCEPT !.queue = queue] /\ poll' = poll /\ handles' = handles
    BY <1>5 DEF Receive
  <2> HIDE DEF queue
  <2>2. Good(inner') /\ inner'.runtime = inner.runtime
    BY <2>1, QueueGood DEF IInv
  <2> QED BY <2>1, <2>2 DEF IInv
<1> QED BY <1>1, <1>2, <1>3, <1>4, <1>5 DEF Requests

\* Every step of the service.
LEMMA NextInv == IInv /\ [Next]_vars => IInv'
<1> SUFFICES ASSUME IInv, [Next]_vars PROVE IInv'
  OBVIOUS
<1>1. CASE Worker
  BY <1>1, PublishInv, PollInv DEF Worker
<1>2. CASE Requests \/ \E id \in SubIds : Receive(id)
  BY <1>2, RequestInv
<1>3. CASE UNCHANGED vars
  BY <1>3 DEF vars, IInv
<1> QED BY <1>1, <1>2, <1>3 DEF Next

\* The inductive invariant holds.
LEMMA IInvHolds == Spec => []IInv
  BY InitInv, NextInv, PTL DEF Spec

---------------------------------------------------------------------------
(* Results. *)

\* Type correctness: sequence, generations, epochs and subscription numbers
\* never leave their machine range (emit, settle, expire, discard_poll and
\* commit_poll close the service first), and every topic and poll stays well
\* formed, however the threads interleave.
THEOREM TypeCorrect == Spec => []TypeOK
<1>1. IInv => TypeOK
  BY DEF IInv, PollOK, Runtimes, Good, Sound, Typed, TypeOK
<1> QED BY <1>1, IInvHolds, PTL

\* No stale data: for any number of sessions, topics and subscribers and any
\* machine range, a topic shows data only while it is demanded and its deadline
\* is armed, under its current generation and a number already given out.
THEOREM FreshnessHolds == Spec => []Freshness
<1>1. IInv => Freshness
  BY DEF IInv, Good, Sound, Typed, WellTyped, Fresh, Stamps, Freshness
<1> QED BY <1>1, IInvHolds, PTL

\* A stopped service, whether it was asked to stop or ran out of numbers in the
\* middle of a handler, keeps no subscriber, no demand and no data.
THEOREM StoppedHolds == Spec => []StoppedHoldsNothing
<1>1. IInv => StoppedHoldsNothing
  BY DEF IInv, Good, Sound, Empty, StoppedHoldsNothing
<1> QED BY <1>1, IInvHolds, PTL

=============================================================================
