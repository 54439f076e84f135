---------------------------- MODULE FenceProofs ----------------------------
(***************************************************************************)
(* The action properties of Service for every value of its constants: the  *)
(* numbers and fences only grow, a declared source reset survives a        *)
(* refused poll, and no late output is published.                          *)
(*                                                                         *)
(* Every method of Inner is shown to move the topics forward (Rises), to   *)
(* expose no data of its own (Silent) and to end freshness only under a    *)
(* new epoch (Held).  The three relations are transitive, so a handler has *)
(* them because the methods it is composed of do; a commit is the one that *)
(* is not silent.                                                          *)
(***************************************************************************)
EXTENDS ServiceProofs

\* A topic moved forward; stopped is whether the service is, afterwards.
Ahead(was, is, stopped) ==
    /\ is.generation >= was.generation /\ is.epoch >= was.epoch
    /\ ~was.demanded /\ is.demanded => is.generation > was.generation
    /\ ~stopped /\ was.demanded # is.demanded => is.epoch > was.epoch

Numbers(st, e) ==
    /\ e.sequence >= st.sequence
    /\ st.stopped => e.stopped /\ e.sequence = st.sequence

\* The topics of the sessions in S moved forward.
Rises(S, st, e) ==
    /\ Numbers(st, e)
    /\ \A s \in S, t \in Topics : Ahead(st.topics[s][t], e.topics[s][t], e.stopped)

\* No topic shows data it did not show before.
Silent(st, e) ==
    \A s \in SessionIds, t \in Topics :
        e.topics[s][t].snapshot \in {None, st.topics[s][t].snapshot}

\* A topic that is not fresh any more has a new epoch.
Held(st, e) ==
    \A s \in SessionIds, t \in Topics :
        ~e.stopped /\ st.topics[s][t].armed /\ ~e.topics[s][t].armed
            => e.topics[s][t].epoch > st.topics[s][t].epoch

Calm(st, e) ==
    /\ e.sessions = st.sessions
    /\ Rises(SessionIds, st, e) /\ Silent(st, e) /\ Held(st, e)

---------------------------------------------------------------------------
(* The relations compose. *)

\* The counters of a topic are integers and its flags are Boolean.
LEMMA TopicFields ==
    ASSUME NEW st, Typed(st), NEW s \in SessionIds, NEW t \in Topics
    PROVE  LET topic == st.topics[s][t] IN
           /\ topic \in TopicType
           /\ topic.generation \in Int /\ topic.epoch \in Int
           /\ topic.demanded \in BOOLEAN /\ topic.armed \in BOOLEAN
<1>1. st.topics[s][t] \in TopicType
  BY DEF Typed, WellTyped
<1> QED BY <1>1, ConstantsAssumption DEF TopicType

\* Moving forward composes.
LEMMA RisesTrans ==
    ASSUME NEW a, NEW b, NEW c, Typed(a), Typed(b), Typed(c),
           NEW S \in SUBSET SessionIds, Rises(S, a, b), Rises(S, b, c)
    PROVE  Rises(S, a, c)
<1>1. a.sequence \in Int /\ b.sequence \in Int /\ c.sequence \in Int
  BY ConstantsAssumption DEF Typed, WellTyped
<1>2. Numbers(a, c)
  BY <1>1 DEF Rises, Numbers
<1>3. b.stopped => c.stopped
  BY DEF Rises, Numbers
<1>4. ASSUME NEW s \in S, NEW t \in Topics
      PROVE  Ahead(a.topics[s][t], c.topics[s][t], c.stopped)
  <2> DEFINE x == a.topics[s][t]
             y == b.topics[s][t]
             z == c.topics[s][t]
  <2>1. /\ x.generation \in Int /\ y.generation \in Int /\ z.generation \in Int
        /\ x.epoch \in Int /\ y.epoch \in Int /\ z.epoch \in Int
    BY TopicFields
  <2>2. x.demanded \in BOOLEAN /\ y.demanded \in BOOLEAN /\ z.demanded \in BOOLEAN
    BY TopicFields
  <2>3. Ahead(x, y, b.stopped) /\ Ahead(y, z, c.stopped)
    BY DEF Rises
  <2> HIDE DEF x, y, z
  <2>4. z.generation >= x.generation /\ z.epoch >= x.epoch
    BY <2>1, <2>3 DEF Ahead
  <2>5. ~x.demanded /\ z.demanded => z.generation > x.generation
    BY <2>1, <2>3 DEF Ahead
  <2>6. ASSUME ~c.stopped, x.demanded # z.demanded PROVE z.epoch > x.epoch
    <3>1. x.demanded # y.demanded \/ y.demanded # z.demanded
      BY <2>6
    <3> QED BY <1>3, <2>1, <2>3, <2>6, <3>1 DEF Ahead
  <2>7. Ahead(x, z, c.stopped)
    BY <2>4, <2>5, <2>6 DEF Ahead
  <2> QED BY <2>7 DEF x, z
<1> QED BY <1>2, <1>4 DEF Rises

\* Silence composes.
LEMMA SilentTrans ==
    ASSUME NEW a, NEW b, NEW c, Silent(a, b), Silent(b, c)
    PROVE  Silent(a, c)
  BY DEF Silent

\* Calm composes.
LEMMA CalmTrans ==
    ASSUME NEW a, NEW b, NEW c, Typed(a), Typed(b), Typed(c), Calm(a, b), Calm(b, c)
    PROVE  Calm(a, c)
<1>1. Rises(SessionIds, a, c) /\ Silent(a, c) /\ c.sessions = a.sessions
  BY RisesTrans, SilentTrans DEF Calm
<1>2. Held(a, c)
  <2> SUFFICES ASSUME NEW s \in SessionIds, NEW t \in Topics, ~c.stopped,
                      a.topics[s][t].armed, ~c.topics[s][t].armed
               PROVE  c.topics[s][t].epoch > a.topics[s][t].epoch
    BY DEF Held
  <2>1. ~b.stopped
    BY DEF Calm, Rises, Numbers
  <2>2. /\ a.topics[s][t].epoch \in Int /\ b.topics[s][t].epoch \in Int
        /\ c.topics[s][t].epoch \in Int
    BY TopicFields
  <2>3. /\ b.topics[s][t].epoch >= a.topics[s][t].epoch
        /\ c.topics[s][t].epoch >= b.topics[s][t].epoch
    BY DEF Calm, Rises, Ahead
  <2>4. CASE b.topics[s][t].armed
    <3>1. c.topics[s][t].epoch > b.topics[s][t].epoch
      BY <2>4 DEF Calm, Held
    <3> QED BY <2>2, <2>3, <3>1
  <2>5. CASE ~b.topics[s][t].armed
    <3>1. b.topics[s][t].epoch > a.topics[s][t].epoch
      BY <2>1, <2>5 DEF Calm, Held
    <3> QED BY <2>2, <2>3, <3>1
  <2> QED BY <2>4, <2>5
<1> QED BY <1>1, <1>2 DEF Calm

---------------------------------------------------------------------------
(* The methods of Inner. *)

\* A method that leaves the topics alone.
LEMMA SameTopicsCalm ==
    ASSUME NEW st, Typed(st), NEW e, e.topics = st.topics, e.sessions = st.sessions,
           Numbers(st, e)
    PROVE  Calm(st, e)
<1>1. \A s \in SessionIds, t \in Topics :
        /\ e.topics[s][t] = st.topics[s][t]
        /\ st.topics[s][t].generation \in Int /\ st.topics[s][t].epoch \in Int
  BY TopicFields
<1>2. \A s \in SessionIds, t \in Topics : Ahead(st.topics[s][t], e.topics[s][t], e.stopped)
  BY <1>1 DEF Ahead
<1>3. Silent(st, e) /\ Held(st, e)
  BY <1>1 DEF Silent, Held
<1> QED BY <1>2, <1>3 DEF Calm, Rises

\* A topic that lost its data under a new epoch.
Renewed(was, is) ==
    /\ is.epoch > was.epoch /\ is.generation >= was.generation
    /\ ~was.demanded /\ is.demanded => is.generation > was.generation
    /\ is.snapshot = None

\* A method that renews the topics of some keys.
LEMMA RenewedCalm ==
    ASSUME NEW st, Typed(st), NEW e, e.sessions = st.sessions, Numbers(st, e), NEW S,
           \A s \in SessionIds, t \in Topics :
              IF <<s, t>> \in S THEN Renewed(st.topics[s][t], e.topics[s][t])
              ELSE e.topics[s][t] = st.topics[s][t],
           \A s \in SessionIds, t \in Topics : e.topics[s][t].epoch \in Int
    PROVE  Calm(st, e)
<1>1. ASSUME NEW s \in SessionIds, NEW t \in Topics
      PROVE  /\ Ahead(st.topics[s][t], e.topics[s][t], e.stopped)
             /\ e.topics[s][t].snapshot \in {None, st.topics[s][t].snapshot}
             /\ st.topics[s][t].armed /\ ~e.topics[s][t].armed
                    => e.topics[s][t].epoch > st.topics[s][t].epoch
  <2>1. st.topics[s][t].generation \in Int /\ st.topics[s][t].epoch \in Int
    BY TopicFields
  <2>2. CASE <<s, t>> \in S
    <3>1. Renewed(st.topics[s][t], e.topics[s][t]) /\ e.topics[s][t].epoch \in Int
      BY <2>2
    <3>2. e.topics[s][t].epoch >= st.topics[s][t].epoch
      BY <2>1, <3>1 DEF Renewed
    <3> QED BY <3>1, <3>2 DEF Renewed, Ahead
  <2>3. CASE <<s, t>> \notin S
    <3>1. e.topics[s][t] = st.topics[s][t]
      BY <2>3
    <3> QED BY <2>1, <3>1 DEF Ahead
  <2> QED BY <2>2, <2>3
<1> QED BY <1>1 DEF Calm, Rises, Silent, Held

\* Closing withdraws demand and data and moves no counter.
LEMMA CloseCalm ==
    ASSUME NEW st, Typed(st), NEW end
    PROVE  Calm(st, Close(st, end)) /\ Close(st, end).stopped
<1> DEFINE e == Close(st, end)
<1>1. /\ e.stopped /\ e.sequence = st.sequence /\ e.sessions = st.sessions
      /\ e.topics = [s \in SessionIds |-> [t \in Topics |->
                      IF s \in st.sessions THEN CloseTopic(st.topics[s][t])
                      ELSE st.topics[s][t]]]
  BY DEF Close, Typed, Fields
<1> HIDE DEF e
<1>2. st.sequence \in Int
  BY ConstantsAssumption DEF Typed, WellTyped
<1>3. Numbers(st, e)
  BY <1>1, <1>2 DEF Numbers
<1>4. ASSUME NEW s \in SessionIds, NEW t \in Topics
      PROVE  /\ Ahead(st.topics[s][t], e.topics[s][t], e.stopped)
             /\ e.topics[s][t].snapshot \in {None, st.topics[s][t].snapshot}
  <2> DEFINE w == st.topics[s][t]
             c == CloseTopic(w)
  <2>1. w \in TopicType /\ w.generation \in Int /\ w.epoch \in Int
    BY TopicFields
  <2>2. /\ c.generation = w.generation /\ c.epoch = w.epoch
        /\ c.demanded = FALSE /\ c.snapshot = None
    BY <2>1 DEF CloseTopic, TopicType
  <2>3. e.topics[s][t] = IF s \in st.sessions THEN c ELSE w
    BY <1>1
  <2> HIDE DEF c
  <2> QED BY <1>1, <2>1, <2>2, <2>3 DEF Ahead
<1> QED BY <1>1, <1>3, <1>4 DEF Calm, Rises, Silent, Held, e

\* A closed service is well formed.
LEMMA CloseTyped ==
    ASSUME NEW st, Typed(st), NEW end
    PROVE  Typed(Close(st, end))
<1> DEFINE e == Close(st, end)
<1>1. /\ DOMAIN e = Fields /\ e.stopped \in BOOLEAN /\ e.sequence = st.sequence
      /\ e.sessions = st.sessions /\ e.next = st.next
      /\ e.subs = Unregistered(st.subs, SubIds)
      /\ e.topics = [s \in SessionIds |-> [t \in Topics |->
                      IF s \in st.sessions THEN CloseTopic(st.topics[s][t])
                      ELSE st.topics[s][t]]]
  BY DEF Close, Typed, Fields
<1> HIDE DEF e
<1>2. \A s \in SessionIds, t \in Topics : e.topics[s][t] \in TopicType
  BY <1>1, TopicFields, CloseTopicFresh
<1>3. e.topics \in [SessionIds -> [Topics -> TopicType]]
  BY <1>1, <1>2
<1>4. e.subs \in [SubIds -> SubType]
  BY <1>1, UnregisteredSubs DEF Typed, WellTyped
<1> QED BY <1>1, <1>3, <1>4 DEF Typed, WellTyped, e

\* Publishing gives out numbers.
LEMMA PublishCalm ==
    ASSUME NEW st, Typed(st), ~st.stopped, NEW us, Len(us) \in Nat
    PROVE  Calm(st, Publish(st, us)) /\ Typed(Publish(st, us))
<1> DEFINE p == Publish(st, us)
<1>1. /\ DOMAIN p = Fields /\ p.sequence \in st.sequence..MaxSequence
      /\ p.stopped = st.stopped /\ p.sessions = st.sessions /\ p.topics = st.topics
      /\ p.next = st.next /\ p.subs = st.subs
  BY PublishFields
<1> HIDE DEF p
<1>2. st.sequence \in Nat
  BY ConstantsAssumption DEF Typed, WellTyped
<1>3. Numbers(st, p) /\ p.sequence \in 0..MaxSequence
  BY <1>1, <1>2, ConstantsAssumption DEF Numbers
<1>4. Typed(p)
  BY <1>1, <1>3, SameFields
<1> QED BY <1>1, <1>3, <1>4, SameTopicsCalm DEF p

\* emit.
LEMMA EmitCalm ==
    ASSUME NEW st, Typed(st), NEW us, Len(us) \in Nat
    PROVE  Calm(st, Emit(st, us))
<1> DEFINE p == Publish(st, us)
<1>0. st.sequence \in Int
  BY ConstantsAssumption DEF Typed, WellTyped
<1>1. CASE st.stopped
  <2>1. Emit(st, us) = st /\ Numbers(st, st)
    BY <1>0, <1>1 DEF Emit, Numbers
  <2> QED BY <2>1, SameTopicsCalm
<1>2. CASE ~st.stopped
  <2>1. Calm(st, p) /\ Typed(p)
    BY <1>2, PublishCalm
  <2>2. Emit(st, us) \in {p, Close(p, "SequenceExhausted")}
    BY <1>2 DEF Emit
  <2> DEFINE c == Close(p, "SequenceExhausted")
  <2> HIDE DEF p
  <2>3. Calm(p, c)
    BY <2>1, CloseCalm
  <2>4. Typed(c)
    BY <2>1, CloseTyped
  <2> HIDE DEF c
  <2> QED BY <2>1, <2>2, <2>3, <2>4, CalmTrans DEF c
<1> QED BY <1>1, <1>2

\* advance.
LEMMA AdvanceCalm ==
    ASSUME NEW st, Good(st)
    PROVE  Calm(st, Advance(st))
<1> DEFINE a == [st EXCEPT !.sequence = @ + 1]
<1>0. Typed(st) /\ st.sequence \in Int
  BY ConstantsAssumption DEF Good, Sound, Typed, WellTyped
<1>1. Advance(st) \in {st, a, Close(st, "SequenceExhausted")} /\ (st.stopped => Advance(st) = st)
  BY DEF Advance
<1>2. Calm(st, st)
  BY <1>0, SameTopicsCalm DEF Numbers
<1>3. ~st.stopped => Calm(st, a)
  <2>1. /\ a.sequence = st.sequence + 1 /\ a.sessions = st.sessions
        /\ a.topics = st.topics /\ a.stopped = st.stopped
    BY <1>0 DEF Typed, Fields
  <2> HIDE DEF a
  <2> QED BY <1>0, <2>1, SameTopicsCalm DEF Numbers
<1>4. Calm(st, Close(st, "SequenceExhausted"))
  BY <1>0, CloseCalm
<1> QED BY <1>1, <1>2, <1>3, <1>4

\* Forgetting subscribers touches no topic.
LEMMA SubsCalm ==
    ASSUME NEW st, Good(st), NEW ids
    PROVE  Calm(st, [st EXCEPT !.subs = Unregistered(st.subs, ids)])
<1> DEFINE e == [st EXCEPT !.subs = Unregistered(st.subs, ids)]
<1>1. /\ e.sequence = st.sequence /\ e.sessions = st.sessions
      /\ e.topics = st.topics /\ e.stopped = st.stopped
  BY DEF Good, Sound, Typed, Fields
<1>2. Typed(st) /\ st.sequence \in Int
  BY ConstantsAssumption DEF Good, Sound, Typed, WellTyped
<1> HIDE DEF e
<1>3. Calm(st, e)
  BY <1>1, <1>2, SameTopicsCalm DEF Numbers
<1> QED BY <1>3 DEF e

\* A method that rewrites the topics under some keys and renews each of them.
LEMMA RewrittenCalm ==
    ASSUME NEW st, Typed(st), NEW S, NEW p, Typed(p), Rewritten(st, S, p),
           \A s \in SessionIds, t \in Topics : <<s, t>> \in S =>
              Renewed(st.topics[s][t], p.topics[s][t])
    PROVE  Calm(st, p)
<1>1. Numbers(st, p) /\ p.sessions = st.sessions
  <2>1. st.sequence \in Int
    BY ConstantsAssumption DEF Typed, WellTyped
  <2> QED BY <2>1 DEF Rewritten, Numbers
<1>2. \A s \in SessionIds, t \in Topics : p.topics[s][t].epoch \in Int
  BY TopicFields
<1>3. \A s \in SessionIds, t \in Topics :
        IF <<s, t>> \in S THEN Renewed(st.topics[s][t], p.topics[s][t])
        ELSE p.topics[s][t] = st.topics[s][t]
  BY DEF Rewritten
<1> QED BY <1>1, <1>2, <1>3, RenewedCalm

\* A switch of demand and a lapse renew the topic.
LEMMA SwitchRenews ==
    ASSUME NEW topic \in TopicType, NEW d \in BOOLEAN
    PROVE  Renewed(topic, Switch(topic, d)) /\ Renewed(topic, Lapse(topic))
<1>1. topic.generation \in Int /\ topic.epoch \in Int
  BY ConstantsAssumption DEF TopicType
<1> DEFINE c == Switch(topic, d)
           l == Lapse(topic)
<1>2. /\ c.epoch = topic.epoch + 1 /\ c.demanded = d /\ c.snapshot = None
      /\ c.generation = IF d THEN topic.generation + 1 ELSE topic.generation
  BY DEF Switch, TopicType
<1>3. /\ l.epoch = topic.epoch + 1 /\ l.demanded = topic.demanded /\ l.snapshot = None
      /\ l.generation = topic.generation
  BY DEF Lapse, TopicType
<1> HIDE DEF c, l
<1> QED BY <1>1, <1>2, <1>3 DEF Renewed, c, l

\* One round of settle.
LEMMA SettleOnceCalm ==
    ASSUME NEW st0, Good(st0)
    PROVE  Calm(st0, SettleOnce(st0))
<1> DEFINE st == DropEnded(st0)
           e == SettleOnce(st0)
<1>1. PICK S, p, us : Round(st, S, p, us, e)
  BY SettleOnceParts
<1>2. Calm(st0, st)
  BY SubsCalm DEF DropEnded
<1>3. Good(e)
  BY SettleOnceGood
<1> HIDE DEF st, e
<1>4. Typed(st0) /\ Typed(st) /\ Typed(p) /\ Typed(e) /\ Len(us) \in Nat
  BY <1>1, <1>3 DEF Round, Good, Sound, AboutKeys
<1>5. Calm(st, p)
  <2>1. \A s \in SessionIds, t \in Topics : <<s, t>> \in S =>
          Renewed(st.topics[s][t], p.topics[s][t])
    <3> SUFFICES ASSUME NEW s \in SessionIds, NEW t \in Topics, <<s, t>> \in S
                 PROVE  Renewed(st.topics[s][t], p.topics[s][t])
      OBVIOUS
    <3>1. p.topics[s][t] = Switch(st.topics[s][t], Demands(st, s, t))
      BY <1>1 DEF Round
    <3>2. Demands(st, s, t) \in BOOLEAN /\ st.topics[s][t] \in TopicType
      BY <1>4, TopicFields DEF Demands
    <3> QED BY <3>1, <3>2, SwitchRenews
  <2>2. Rewritten(st, S, p)
    BY <1>1 DEF Round
  <2> QED BY <1>4, <2>1, <2>2, RewrittenCalm
<1>6. Calm(p, e)
  <2>1. e = Close(p, "SequenceExhausted") \/ e = Emit(p, us)
    BY <1>1 DEF Round
  <2> QED BY <1>4, <2>1, CloseCalm, EmitCalm
<1>7. Calm(st, e)
  BY <1>4, <1>5, <1>6, CalmTrans
<1>8. Calm(st0, e)
  BY <1>2, <1>4, <1>7, CalmTrans
<1> QED BY <1>8 DEF e

\* settle.
LEMMA SettleCalm ==
    ASSUME NEW st, Good(st)
    PROVE  Calm(st, Settle(st))
<1> DEFINE once == SettleOnce(st)
           twice == SettleOnce(once)
<1>1. Good(once) /\ Calm(st, once)
  BY SettleOnceGood, SettleOnceCalm
<1>2. Settle(st) \in {once, twice}
  BY DEF Settle
<1> HIDE DEF once
<1>3. Good(twice) /\ Calm(once, twice)
  BY <1>1, SettleOnceGood, SettleOnceCalm
<1> HIDE DEF twice
<1>4. Calm(st, twice)
  BY <1>1, <1>3, CalmTrans DEF Good, Sound
<1> QED BY <1>1, <1>2, <1>4

\* Emit and then settle, which ends most handlers.
LEMMA EmitSettleCalm ==
    ASSUME NEW p, Typed(p), NEW us, Len(us) \in Nat, Good(Emit(p, us))
    PROVE  Calm(p, Settle(Emit(p, us)))
<1> DEFINE m == Emit(p, us)
           e == Settle(m)
<1>1. Calm(p, m) /\ Good(m)
  BY EmitCalm
<1> HIDE DEF m
<1>2. Calm(m, e) /\ Good(e)
  BY <1>1, SettleCalm, SettleGood
<1> HIDE DEF e
<1>3. Calm(p, e)
  BY <1>1, <1>2, CalmTrans DEF Good, Sound
<1> QED BY <1>3 DEF e, m

\* expire.
LEMMA ExpireCalm ==
    ASSUME NEW st, Good(st), NEW due, due \subseteq ArmedKeys(st)
    PROVE  Calm(st, Expire(st, due))
<1> DEFINE e == Expire(st, due)
<1>1. PICK S, p, us : Lapsing(st, S, p, us, e)
  BY ExpireParts
<1>2. Good(e)
  BY ExpireGood
<1> HIDE DEF e
<1>3. /\ Typed(st) /\ Typed(p) /\ Typed(e) /\ Good(p) /\ Len(us) \in Nat
      /\ Rewritten(st, S, p)
  BY <1>1, <1>2 DEF Lapsing, Good, Sound
<1>4. Calm(st, p)
  <2>1. \A s \in SessionIds, t \in Topics : <<s, t>> \in S =>
          Renewed(st.topics[s][t], p.topics[s][t])
    <3> SUFFICES ASSUME NEW s \in SessionIds, NEW t \in Topics, <<s, t>> \in S
                 PROVE  Renewed(st.topics[s][t], p.topics[s][t])
      OBVIOUS
    <3>1. p.topics[s][t] = Lapse(st.topics[s][t]) /\ st.topics[s][t] \in TopicType
      BY <1>1, <1>3, TopicFields DEF Lapsing
    <3> QED BY <3>1, SwitchRenews
  <2> QED BY <1>3, <2>1, RewrittenCalm
<1>5. Calm(p, e)
  <2>1. e = Close(p, "SequenceExhausted") \/ e = Settle(Emit(p, us))
    BY <1>1 DEF Lapsing
  <2>2. Good(Emit(p, us))
    BY <1>3, EmitKeepsGood
  <2> QED BY <1>3, <2>1, <2>2, CloseCalm, EmitSettleCalm
<1>6. Calm(st, e)
  BY <1>3, <1>4, <1>5, CalmTrans
<1> QED BY <1>6 DEF e

\* subscribe, from the identity it takes to the subscriber it activates or drops.
LEMMA AdmitCalm ==
    ASSUME NEW st, Good(st), NEW sel \in Selections, Acceptable(st, sel)
    PROVE  Calm(st, Admit(st, sel))
<1> DEFINE id == st.next + 1
           sub == [registered |-> TRUE, active |-> FALSE,
                   sessions |-> sel.sessions, topics |-> sel.topics]
           p == [st EXCEPT !.next = id, !.subs[id] = sub, !.queue[id] = EmptyQueue]
           settled == Settle(p)
           frames == Capture(settled, sub)
           q == [settled EXCEPT !.subs[id].active = TRUE, !.queue[id].initial = frames]
           u == Unregister(settled, id)
           e == Admit(st, sel)
<1>1. e \in {q, Settle(u)}
  BY DEF Admit
<1>2. id \in SubIds /\ id \in 0..MaxSubscription /\ ~st.stopped
  BY ConstantsAssumption DEF Acceptable, SubIds, Good, Sound, Typed, WellTyped
<1>3. sub \in SubType
  BY DEF SubType, Selections
<1>4. Good(e)
  BY AdmitGood
<1> HIDE DEF id, sub, e
<1>5. /\ DOMAIN p = Fields /\ p.sequence = st.sequence /\ p.stopped = st.stopped
      /\ p.sessions = st.sessions /\ p.topics = st.topics /\ p.next = id
      /\ p.subs = [st.subs EXCEPT ![id] = sub]
  BY DEF Good, Sound, Typed, Fields
<1> HIDE DEF p
<1>6. Good(p)
  <2>1. p.subs \in [SubIds -> SubType]
    BY <1>3, <1>5 DEF Good, Sound, Typed, WellTyped
  <2> QED BY <1>2, <1>5, <2>1, SubsGood
<1>7. st.sequence \in Int /\ Typed(st)
  BY ConstantsAssumption DEF Good, Sound, Typed, WellTyped
<1>8. Calm(st, p)
  BY <1>5, <1>7, SameTopicsCalm DEF Numbers
<1>9. Good(settled) /\ Calm(p, settled)
  BY <1>6, SettleGood, SettleCalm
<1> HIDE DEF settled, frames
<1>10. Calm(st, settled)
  BY <1>6, <1>8, <1>9, CalmTrans DEF Good, Sound
<1>11. CASE e = q
  <2>1. /\ q.sequence = settled.sequence /\ q.stopped = settled.stopped
        /\ q.sessions = settled.sessions /\ q.topics = settled.topics
    BY <1>9 DEF Good, Sound, Typed, Fields
  <2>2. settled.sequence \in Int /\ Typed(settled)
    BY <1>9, ConstantsAssumption DEF Good, Sound, Typed, WellTyped
  <2> HIDE DEF q
  <2>3. Calm(settled, q)
    BY <2>1, <2>2, SameTopicsCalm DEF Numbers
  <2> QED BY <1>4, <1>10, <1>11, <2>2, <2>3, CalmTrans DEF Good, Sound, e
<1>12. CASE e = Settle(u)
  <2>1. Good(u) /\ Calm(settled, u)
    <3>1. u = [settled EXCEPT !.subs = Unregistered(settled.subs, {id})]
      BY DEF Unregister
    <3> QED BY <1>9, <3>1, UnregisterGood, SubsCalm
  <2> HIDE DEF u
  <2>2. Calm(u, e)
    BY <1>12, <2>1, SettleCalm
  <2>3. Calm(settled, e)
    BY <1>4, <1>9, <2>1, <2>2, CalmTrans DEF Good, Sound
  <2> QED BY <1>4, <1>9, <1>10, <2>3, CalmTrans DEF Good, Sound, e
<1> QED BY <1>1, <1>11, <1>12

---------------------------------------------------------------------------
(* The worker's methods, which are not calm: discard_poll ends freshness under *)
(* the old epoch, commit_poll shows data, sync_runtime ends sessions.          *)

\* Calm, except that freshness may end under the same epoch.
Quiet(st, e) == e.sessions = st.sessions /\ Rises(SessionIds, st, e) /\ Silent(st, e)

\* Quiet steps compose.
LEMMA QuietTrans ==
    ASSUME NEW a, NEW b, NEW c, Typed(a), Typed(b), Typed(c), Quiet(a, b), Quiet(b, c)
    PROVE  Quiet(a, c)
  BY RisesTrans, SilentTrans DEF Quiet

\* A failed topic moves forward, and by a generation when it was reset.
LEMMA FailAhead ==
    ASSUME NEW topic \in TopicType, NEW reset \in BOOLEAN
    PROVE  LET c == Fail(topic, reset) IN
           /\ \A stopped : Ahead(topic, c, stopped)
           /\ c.snapshot = None
           /\ reset => c.generation > topic.generation
<1> DEFINE c == Fail(topic, reset)
<1>1. topic.generation \in Int /\ topic.epoch \in Int
  BY ConstantsAssumption DEF TopicType
<1>2. /\ c.epoch = (IF reset THEN topic.epoch + 1 ELSE topic.epoch)
      /\ c.generation = (IF reset THEN topic.generation + 1 ELSE topic.generation)
      /\ c.demanded = topic.demanded /\ c.snapshot = None
  BY DEF Fail, TopicType
<1> HIDE DEF c
<1>3. c.epoch >= topic.epoch /\ c.generation >= topic.generation
  BY <1>1, <1>2
<1>4. reset => c.generation > topic.generation
  BY <1>1, <1>2
<1>5. \A stopped : Ahead(topic, c, stopped)
  BY <1>2, <1>3 DEF Ahead
<1> QED BY <1>2, <1>4, <1>5 DEF c

\* A discarded poll is quiet, and a reset it declared ends the generation that the
\* poll sampled.
LEMMA DiscardPollQuiet ==
    ASSUME NEW st, Good(st), NEW s, NEW ticket, DOMAIN ticket \subseteq Topics,
           NEW resets, NEW failed
    PROVE  LET e == DiscardPoll(st, s, ticket, resets, failed) IN
           /\ Quiet(st, e)
           /\ s \in st.sessions =>
                 \A t \in resets \cap DOMAIN ticket :
                     ticket[t].generation \in Int
                         /\ ticket[t].generation <= st.topics[s][t].generation =>
                     \/ e.stopped
                     \/ ~e.topics[s][t].demanded
                     \/ e.topics[s][t].generation > ticket[t].generation
<1> DEFINE e == DiscardPoll(st, s, ticket, resets, failed)
           affected == Affected(st, s, ticket, resets, failed)
<1>0. Good(e) /\ Typed(st) /\ Typed(e) /\ Sound(st)
  BY DiscardPollGood DEF Good, Sound
<1>1. CASE ~HasTicket(st, s)
  <2>0. e = st
    BY <1>1 DEF DiscardPoll
  <2>1. e = st /\ st.sequence \in Int
    <3> HIDE DEF e
    <3> QED BY <1>0, <2>0, ConstantsAssumption DEF Typed, WellTyped
  <2> HIDE DEF e
  <2>2. Calm(st, e)
    BY <1>0, <2>1, SameTopicsCalm DEF Numbers
  <2>3. Quiet(st, e) /\ (s \in st.sessions => e.stopped)
    BY <1>1, <2>1, <2>2 DEF HasTicket, Calm, Quiet
  <2> QED BY <2>3 DEF e
<1>2. CASE HasTicket(st, s) /\ e = Close(st, "SequenceExhausted")
  <2>1. Calm(st, e) /\ e.stopped
    BY <1>0, <1>2, CloseCalm
  <2> QED BY <2>1 DEF Calm, Quiet
<1>3. ASSUME HasTicket(st, s), NEW p, NEW us, Failing(st, s, affected, resets, p, us, e)
      PROVE  /\ Quiet(st, e)
             /\ \A t \in resets \cap DOMAIN ticket :
                     ticket[t].generation \in Int
                         /\ ticket[t].generation <= st.topics[s][t].generation =>
                     \/ e.stopped
                     \/ ~e.topics[s][t].demanded
                     \/ e.topics[s][t].generation > ticket[t].generation
  <2>1. s \in SessionIds /\ affected \subseteq Topics
    BY <1>0, <1>3 DEF HasTicket, Typed, WellTyped, Affected
  <2>2. /\ Good(p) /\ Typed(p) /\ Rewritten(st, {s} \X affected, p) /\ Len(us) \in Nat
        /\ e = Settle(Emit(p, us))
    BY <1>3 DEF Failing, Good, Sound
  <2>3. Calm(p, e)
    BY <2>2, EmitKeepsGood, EmitSettleCalm
  <2>4. ASSUME NEW t \in affected
        PROVE  /\ Ahead(st.topics[s][t], p.topics[s][t], p.stopped)
               /\ p.topics[s][t].snapshot = None
               /\ t \in resets => p.topics[s][t].generation > st.topics[s][t].generation
    <3> HIDE DEF affected, e
    <3> DEFINE r == t \in affected \cap resets
    <3>1. p.topics[s][t] = Fail(st.topics[s][t], r)
      BY <1>3 DEF Failing
    <3>2. st.topics[s][t] \in TopicType /\ r \in BOOLEAN
      BY <1>0, <2>1, TopicFields
    <3>3. t \in resets => r
      OBVIOUS
    <3> HIDE DEF r
    <3> QED BY <3>1, <3>2, <3>3, FailAhead
  <2> HIDE DEF affected, e
  <2>5. Quiet(st, p)
    <3>1. Numbers(st, p) /\ p.sessions = st.sessions
      <4>1. st.sequence \in Int
        BY <1>0, ConstantsAssumption DEF Typed, WellTyped
      <4> QED BY <2>2, <4>1 DEF Rewritten, Numbers
    <3>2. ASSUME NEW x \in SessionIds, NEW t \in Topics
          PROVE  /\ Ahead(st.topics[x][t], p.topics[x][t], p.stopped)
                 /\ p.topics[x][t].snapshot \in {None, st.topics[x][t].snapshot}
      <4>1. CASE x = s /\ t \in affected
        BY <2>4, <4>1
      <4>2. CASE ~(x = s /\ t \in affected)
        <5>1. p.topics[x][t] = st.topics[x][t]
          BY <2>2, <4>2 DEF Rewritten
        <5>2. st.topics[x][t].generation \in Int /\ st.topics[x][t].epoch \in Int
          BY <1>0, TopicFields
        <5> QED BY <5>1, <5>2 DEF Ahead
      <4> QED BY <4>1, <4>2
    <3> QED BY <3>1, <3>2 DEF Quiet, Rises, Silent
  <2>6. Quiet(st, e)
    BY <1>0, <2>2, <2>3, <2>5, QuietTrans DEF Calm, Quiet
  <2>7. ASSUME NEW t \in resets \cap DOMAIN ticket, ticket[t].generation \in Int,
               ticket[t].generation <= st.topics[s][t].generation,
               ~e.stopped, e.topics[s][t].demanded
        PROVE  e.topics[s][t].generation > ticket[t].generation
    <3>1. t \in Topics
      OBVIOUS
    <3>2. /\ st.topics[s][t].generation \in Int /\ p.topics[s][t].generation \in Int
          /\ e.topics[s][t].generation \in Int
      BY <1>0, <2>1, <2>2, <3>1, TopicFields
    <3>3. Ahead(p.topics[s][t], e.topics[s][t], e.stopped)
      BY <2>1, <2>3, <3>1 DEF Calm, Rises
    <3>4. CASE t \in affected
      <4>1. p.topics[s][t].generation > st.topics[s][t].generation
        BY <2>4, <3>4
      <4>2. e.topics[s][t].generation >= p.topics[s][t].generation
        BY <3>3 DEF Ahead
      <4> QED BY <2>7, <3>2, <4>1, <4>2
    <3>5. CASE t \notin affected
      <4>1. p.topics[s][t] = st.topics[s][t]
        BY <2>1, <2>2, <3>1, <3>5 DEF Rewritten
      <4>2. ~st.topics[s][t].demanded \/ st.topics[s][t].generation # ticket[t].generation
        BY <3>5 DEF affected, Affected
      <4>3. e.topics[s][t].generation >= st.topics[s][t].generation
        BY <3>3, <4>1 DEF Ahead
      <4>4. ~st.topics[s][t].demanded =>
               e.topics[s][t].generation > st.topics[s][t].generation
        BY <2>7, <3>3, <4>1 DEF Ahead
      <4> QED BY <2>7, <3>2, <4>2, <4>3, <4>4
    <3> QED BY <3>4, <3>5
  <2> QED BY <2>6, <2>7 DEF e
<1>4. CASE HasTicket(st, s)
  <2>1. \/ e = Close(st, "SequenceExhausted")
        \/ \E p, us : Failing(st, s, affected, resets, p, us, e)
    BY <1>4, DiscardParts
  <2> QED BY <1>2, <1>3, <1>4, <2>1
<1> QED BY <1>1, <1>4

\* What commit stores has moved forward.
LEMMA StoresAhead ==
    ASSUME NEW old \in TopicType, NEW b, NEW c, Stores(old, b, c), c.generation \in Int
    PROVE  \A stopped : Ahead(old, c, stopped)
<1> DEFINE new == Staged(old, b)
<1>1. old.generation \in Int /\ old.epoch \in Int
  BY ConstantsAssumption DEF TopicType
<1>2. /\ new.epoch = (IF b.reset THEN old.epoch + 1 ELSE old.epoch)
      /\ new.generation = (IF b.reset THEN old.generation + 1 ELSE old.generation)
      /\ new.demanded = old.demanded
  BY DEF Staged, TopicType
<1>3. c.epoch = new.epoch /\ c.generation = new.generation /\ c.demanded = new.demanded
  BY DEF Stores
<1> HIDE DEF new
<1>4. c.epoch >= old.epoch /\ c.generation >= old.generation /\ c.demanded = old.demanded
  BY <1>1, <1>2, <1>3
<1> QED BY <1>4 DEF Ahead

\* commit_poll moves every topic forward; it shows data of the topics it touched, and
\* only when it commits.
LEMMA CommitPollRises ==
    ASSUME NEW st, Good(st), NEW s, NEW ticket, NEW batch \in Batches, NEW build,
           DOMAIN ticket \subseteq Topics
    PROVE  LET e == CommitPoll(st, s, ticket, batch, build)
               committed == CommitOutcome(st, s, ticket, batch, build) = "Committed" IN
           /\ e.sessions = st.sessions /\ Rises(SessionIds, st, e)
           /\ ~committed => Calm(st, e)
           /\ committed =>
                 \A x \in SessionIds, t \in Topics :
                     ~(x = s /\ t \in Touched(batch)) =>
                         e.topics[x][t].snapshot \in {None, st.topics[x][t].snapshot}
<1> DEFINE outcome == CommitOutcome(st, s, ticket, batch, build)
           e == CommitPoll(st, s, ticket, batch, build)
<1>0. Typed(st) /\ Good(e) /\ Typed(e)
  BY CommitPollGood DEF Good, Sound
<1>1. CASE outcome # "Committed"
  <2>1. e \in {st, Close(st, "SequenceExhausted")}
    BY <1>1 DEF CommitPoll
  <2>2. Calm(st, st)
    <3>1. st.sequence \in Int
      BY <1>0, ConstantsAssumption DEF Typed, WellTyped
    <3> QED BY <1>0, <3>1, SameTopicsCalm DEF Numbers
  <2> HIDE DEF e
  <2>3. Calm(st, e)
    BY <1>0, <2>1, <2>2, CloseCalm
  <2> QED BY <1>1, <2>3 DEF e, Calm
<1>2. CASE outcome = "Committed"
  <2>1. e = Commit(st, s, batch, build)
    BY <1>2 DEF CommitPoll
  <2>2. PICK p, us : Committing(st, s, batch, p, us, e)
    BY <1>2, <2>1, CommitParts
  <2>3. /\ Typed(p) /\ Rewritten(st, {s} \X Touched(batch), p) /\ Len(us) \in Nat
        /\ Good(Emit(p, us)) /\ e = Settle(Emit(p, us))
        /\ \A t \in Touched(batch) : Stores(st.topics[s][t], batch[t], p.topics[s][t])
    BY <2>2 DEF Committing, Sound
  <2> HIDE DEF e
  <2>4. Calm(p, e)
    BY <2>3, EmitSettleCalm
  <2>5. Numbers(st, p) /\ p.sessions = st.sessions
    <3>1. st.sequence \in Int
      BY <1>0, ConstantsAssumption DEF Typed, WellTyped
    <3> QED BY <2>3, <3>1 DEF Rewritten, Numbers
  <2>6. ASSUME NEW x \in SessionIds, NEW t \in Topics
        PROVE  Ahead(st.topics[x][t], p.topics[x][t], p.stopped)
    <3>1. /\ st.topics[x][t] \in TopicType /\ p.topics[x][t].generation \in Int
          /\ st.topics[x][t].generation \in Int /\ st.topics[x][t].epoch \in Int
      BY <1>0, <2>3, TopicFields
    <3>2. CASE x = s /\ t \in Touched(batch)
      <4>1. Stores(st.topics[x][t], batch[t], p.topics[x][t])
        BY <2>3, <3>2
      <4> QED BY <3>1, <4>1, StoresAhead
    <3>3. CASE ~(x = s /\ t \in Touched(batch))
      <4>1. p.topics[x][t] = st.topics[x][t]
        BY <2>3, <3>3 DEF Rewritten
      <4> QED BY <3>1, <4>1 DEF Ahead
    <3> QED BY <3>2, <3>3
  <2>7. Rises(SessionIds, st, p)
    BY <2>5, <2>6 DEF Rises
  <2>8. Rises(SessionIds, st, e) /\ e.sessions = st.sessions
    BY <1>0, <2>3, <2>4, <2>5, <2>7, RisesTrans DEF Calm
  <2>9. ASSUME NEW x \in SessionIds, NEW t \in Topics, ~(x = s /\ t \in Touched(batch))
        PROVE  e.topics[x][t].snapshot \in {None, st.topics[x][t].snapshot}
    <3>1. p.topics[x][t] = st.topics[x][t]
      BY <2>3, <2>9 DEF Rewritten
    <3> QED BY <2>4, <3>1 DEF Calm, Silent
  <2> QED BY <1>2, <2>8, <2>9 DEF e
<1> QED BY <1>1, <1>2

\* The end of sessions leaves the others where they were.
LEMMA EndSessionsRises ==
    ASSUME NEW st, Good(st), ~st.stopped, NEW status, NEW E, E \subseteq st.sessions
    PROVE  LET e == EndSessions(st, status, E) IN
           /\ e.sessions = st.sessions \ E
           /\ Rises(SessionIds \ E, st, e) /\ Silent(st, e)
<1> DEFINE e == EndSessions(st, status, E)
           S == SessionIds \ E
<1>0. Typed(st) /\ Good(e) /\ Typed(e)
  BY EndSessionsGood DEF Good, Sound
<1>1. PICK own, us, left : Leaving(st, E, own, us, left, e)
  BY EndSessionsParts
<1> HIDE DEF e
<1>2. /\ Typed(left) /\ left.stopped = st.stopped /\ left.sessions = st.sessions \ E
      /\ \A s \in SessionIds, t \in Topics :
            left.topics[s][t] = IF s \in E THEN InitialTopic ELSE st.topics[s][t]
      /\ e = left \/ e = Close(left, "SequenceExhausted")
  BY <1>1 DEF Leaving, Good, Sound
<1>3. Numbers(st, left)
  <2>1. st.sequence \in Int /\ left.sequence \in st.sequence..MaxSequence /\ MaxSequence \in Int
    BY <1>0, <1>1, ConstantsAssumption DEF Typed, WellTyped, Leaving
  <2>2. left.sequence >= st.sequence
    BY <2>1
  <2> QED BY <2>2 DEF Numbers
<1>4. Rises(S, st, left)
  <2>1. ASSUME NEW s \in S, NEW t \in Topics
        PROVE  Ahead(st.topics[s][t], left.topics[s][t], left.stopped)
    <3>1. /\ left.topics[s][t] = st.topics[s][t]
          /\ st.topics[s][t].generation \in Int /\ st.topics[s][t].epoch \in Int
      BY <1>0, <1>2, TopicFields
    <3> QED BY <3>1 DEF Ahead
  <2> QED BY <1>3, <2>1 DEF Rises
<1>5. Silent(st, left)
  BY <1>2, InitialTopicFresh DEF Silent
<1>6. CASE e = left
  BY <1>2, <1>4, <1>5, <1>6 DEF e
<1>7. CASE e = Close(left, "SequenceExhausted")
  <2>1. Calm(left, e)
    BY <1>2, <1>7, CloseCalm
  <2>2. Rises(S, left, e) /\ S \in SUBSET SessionIds
    BY <2>1 DEF Calm, Rises
  <2>3. Rises(S, st, e)
    BY <1>0, <1>2, <1>4, <2>2, RisesTrans
  <2>4. Silent(st, e) /\ e.sessions = left.sessions
    BY <1>5, <2>1, SilentTrans DEF Calm
  <2> QED BY <1>2, <2>3, <2>4 DEF e
<1> QED BY <1>2, <1>6, <1>7

\* A session that is new has no data.
Bare(st, e) ==
    \A s \in e.sessions \ st.sessions, t \in Topics : e.topics[s][t].snapshot = None

\* A new session leaves the others where they were.
LEMMA AddSessionRises ==
    ASSUME NEW st, Good(st), NEW s \in SessionIds
    PROVE  LET e == AddSession(st, s) IN
           /\ e.sessions \subseteq st.sessions \cup {s}
           /\ Rises(SessionIds \ {s}, st, e) /\ Silent(st, e) /\ Bare(st, e)
<1> DEFINE e == AddSession(st, s)
           S == SessionIds \ {s}
<1>0. Typed(st) /\ Good(e) /\ Typed(e) /\ S \in SUBSET SessionIds
  BY AddSessionGood DEF Good, Sound
<1>1. \/ e = st
      \/ e = Close(st, "SequenceExhausted")
      \/ \E p, us : Joining(st, s, p, us, e)
  BY AddSessionParts
<1> HIDE DEF e
<1>2. st.sequence \in Int
  BY <1>0, ConstantsAssumption DEF Typed, WellTyped
<1>3. CASE e \in {st, Close(st, "SequenceExhausted")}
  <2>1. Calm(st, e)
    BY <1>0, <1>2, <1>3, CloseCalm, SameTopicsCalm DEF Numbers
  <2> QED BY <2>1 DEF Calm, Rises, Bare, e
<1>4. ASSUME NEW p, NEW us, Joining(st, s, p, us, e)
      PROVE  /\ e.sessions \subseteq st.sessions \cup {s}
             /\ Rises(SessionIds \ {s}, st, e) /\ Silent(st, e) /\ Bare(st, e)
  <2>1. /\ Typed(p) /\ p.stopped = st.stopped /\ p.sessions = st.sessions \cup {s}
        /\ p.sequence = st.sequence
        /\ \A x \in SessionIds, t \in Topics :
              p.topics[x][t] = IF x = s THEN InitialTopic ELSE st.topics[x][t]
    BY <1>4 DEF Joining, Good, Sound
  <2>2. Calm(p, e)
    BY <1>4, <2>1, EmitCalm DEF Joining
  <2>3. Rises(S, st, p)
    <3>1. Numbers(st, p)
      BY <1>2, <2>1 DEF Numbers
    <3>2. ASSUME NEW x \in S, NEW t \in Topics
          PROVE  Ahead(st.topics[x][t], p.topics[x][t], p.stopped)
      <4>1. /\ p.topics[x][t] = st.topics[x][t]
            /\ st.topics[x][t].generation \in Int /\ st.topics[x][t].epoch \in Int
        BY <1>0, <2>1, TopicFields
      <4> QED BY <4>1 DEF Ahead
    <3> QED BY <3>1, <3>2 DEF Rises
  <2>4. Silent(st, p)
    BY <2>1, InitialTopicFresh DEF Silent
  <2>5. Rises(S, p, e)
    BY <2>2 DEF Calm, Rises
  <2>6. Rises(S, st, e)
    BY <1>0, <2>1, <2>3, <2>5, RisesTrans
  <2>7. Silent(st, e) /\ e.sessions = p.sessions
    BY <2>2, <2>4, SilentTrans DEF Calm
  <2>8. \A t \in Topics : e.topics[s][t].snapshot = None
    <3>1. \A t \in Topics : p.topics[s][t].snapshot = None
      BY <2>1, InitialTopicFresh
    <3> QED BY <2>2, <3>1 DEF Calm, Silent
  <2>9. Bare(st, e)
    BY <2>1, <2>7, <2>8 DEF Bare
  <2> QED BY <2>1, <2>6, <2>7, <2>9
<1> QED BY <1>1, <1>3, <1>4 DEF e

\* sync_runtime: the sessions that stay move forward, and no data appears.
LEMMA SyncRuntimeRises ==
    ASSUME NEW st, Good(st), NEW status
    PROVE  LET e == SyncRuntime(st, status) IN
           Rises(st.sessions \cap e.sessions, st, e) /\ Silent(st, e) /\ Bare(st, e)
<1> DEFINE new == Observed(status) \ st.sessions
           E == st.sessions \ Observed(status)
           s == CHOOSE s \in new : TRUE
           ended == EndSessions(st, status, E)
           added == IF new = {} THEN ended ELSE AddSession(ended, s)
           p == [added EXCEPT !.runtime = status]
           a == Advance(p)
           e == SyncRuntime(st, status)
<1>0. Typed(st) /\ st.sequence \in Int /\ st.sessions \subseteq SessionIds
  BY ConstantsAssumption DEF Good, Sound, Typed, WellTyped
<1>1. CASE st.stopped \/ st.runtime = status
  <2>1. e = st
    BY <1>1 DEF SyncRuntime
  <2> HIDE DEF e
  <2>2. Calm(st, e)
    BY <1>0, <2>1, SameTopicsCalm DEF Numbers
  <2> QED BY <1>0, <2>2 DEF Calm, Rises, Bare, e
<1>2. CASE ~(st.stopped \/ st.runtime = status)
  <2>1. e = Settle(a)
    BY <1>2 DEF SyncRuntime
  <2>2. Good(e)
    BY SyncRuntimeGood
  <2> HIDE DEF e
  <2>3. new # {} => s \in new
    OBVIOUS
  <2>4. new \subseteq SessionIds /\ new \cap st.sessions = {} /\ E \subseteq st.sessions
    BY DEF Observed
  <2> HIDE DEF s, new, E
  <2>5. /\ Good(ended) /\ ended.sessions = st.sessions \ E
        /\ Rises(SessionIds \ E, st, ended) /\ Silent(st, ended)
    <3>1. Good(ended)
      BY <1>2, <2>4, EndSessionsGood
    <3>2. /\ ended.sessions = st.sessions \ E
          /\ Rises(SessionIds \ E, st, ended) /\ Silent(st, ended)
      BY <1>2, <2>4, EndSessionsRises
    <3> QED BY <3>1, <3>2
  <2> HIDE DEF ended
  <2>6. /\ Good(added) /\ added.sessions \subseteq ended.sessions \cup (SessionIds \ st.sessions)
        /\ Rises(st.sessions, ended, added) /\ Silent(ended, added) /\ Bare(ended, added)
    <3>1. CASE new = {}
      <4>1. ended.sequence \in Int /\ Typed(ended)
        BY <2>5, ConstantsAssumption DEF Good, Sound, Typed, WellTyped
      <4>2. Calm(ended, ended)
        BY <4>1, SameTopicsCalm DEF Numbers
      <4> QED BY <1>0, <2>5, <3>1, <4>2 DEF Calm, Rises, Bare
    <3>2. CASE new # {}
      <4>1. s \in SessionIds /\ s \notin st.sessions
        BY <2>3, <2>4, <3>2
      <4>2. added = AddSession(ended, s)
        BY <3>2
      <4> HIDE DEF added
      <4>3. /\ Good(added) /\ added.sessions \subseteq ended.sessions \cup {s}
            /\ Rises(SessionIds \ {s}, ended, added) /\ Silent(ended, added)
            /\ Bare(ended, added)
        BY <2>5, <4>1, <4>2, AddSessionGood, AddSessionRises
      <4>4. Rises(st.sessions, ended, added)
        BY <1>0, <4>1, <4>3 DEF Rises
      <4> QED BY <4>1, <4>3, <4>4
    <3> QED BY <3>1, <3>2
  <2> HIDE DEF added
  <2>7. /\ DOMAIN p = Fields /\ p.sequence = added.sequence /\ p.stopped = added.stopped
        /\ p.sessions = added.sessions /\ p.next = added.next /\ p.subs = added.subs
        /\ p.topics = added.topics
    BY <2>6 DEF Good, Sound, Typed, Fields
  <2> HIDE DEF p
  <2>8. added.sequence \in 0..MaxSequence /\ added.sequence \in Int /\ Typed(added)
    BY <2>6, ConstantsAssumption DEF Good, Sound, Typed, WellTyped
  <2>9. Good(p) /\ Calm(added, p)
    <3>1. Good(p)
      BY <2>6, <2>7, <2>8, SameFields DEF Good, Sound
    <3> QED BY <2>7, <2>8, <3>1, SameTopicsCalm DEF Numbers
  <2>10. Good(a) /\ Calm(p, a)
    BY <2>9, AdvanceGood, AdvanceCalm
  <2> HIDE DEF a
  <2>11. Calm(a, e)
    BY <2>1, <2>10, SettleCalm
  <2>12. Calm(added, e)
    <3>1. Calm(added, a)
      BY <2>6, <2>9, <2>10, CalmTrans DEF Good, Sound
    <3> QED BY <2>2, <2>6, <2>10, <2>11, <3>1, CalmTrans DEF Good, Sound
  <2>13. Silent(st, e)
    BY <2>5, <2>6, <2>12, SilentTrans DEF Calm
  <2>19. Bare(st, e)
    <3> SUFFICES ASSUME NEW x \in e.sessions \ st.sessions, NEW t \in Topics
                 PROVE  e.topics[x][t].snapshot = None
      BY DEF Bare
    <3>1. x \in SessionIds /\ x \in added.sessions \ ended.sessions
      BY <2>2, <2>5, <2>12 DEF Calm, Good, Sound, Typed, WellTyped
    <3>2. added.topics[x][t].snapshot = None
      BY <2>6, <3>1 DEF Bare
    <3> QED BY <2>12, <3>1, <3>2 DEF Calm, Silent
  <2> DEFINE S == st.sessions \cap e.sessions
  <2>14. S \in SUBSET SessionIds /\ S \cap E = {}
    <3>1. e.sessions \subseteq (st.sessions \ E) \cup (SessionIds \ st.sessions)
      BY <2>5, <2>6, <2>12 DEF Calm
    <3> QED BY <1>0, <3>1
  <2>15. Rises(S, st, ended) /\ Rises(S, ended, added) /\ Rises(S, added, e)
    BY <1>0, <2>5, <2>6, <2>12, <2>14 DEF Calm, Rises
  <2> HIDE DEF S
  <2>16. Typed(st) /\ Typed(ended) /\ Typed(added) /\ Typed(e)
    BY <2>2, <2>5, <2>6 DEF Good, Sound
  <2>17. Rises(S, st, added)
    BY <2>14, <2>15, <2>16, RisesTrans
  <2>18. Rises(S, st, e)
    BY <2>14, <2>15, <2>16, <2>17, RisesTrans
  <2> QED BY <2>13, <2>19, <2>18 DEF S, e
<1> QED BY <1>1, <1>2

---------------------------------------------------------------------------
(* The actions. *)

\* A queue alone changes.
LEMMA QueueCalm ==
    ASSUME NEW st, Good(st), NEW queue
    PROVE  Calm(st, [st EXCEPT !.queue = queue])
<1> DEFINE e == [st EXCEPT !.queue = queue]
<1>1. /\ e.sequence = st.sequence /\ e.sessions = st.sessions
      /\ e.topics = st.topics /\ e.stopped = st.stopped
  BY DEF Good, Sound, Typed, Fields
<1>2. Typed(st) /\ st.sequence \in Int
  BY ConstantsAssumption DEF Good, Sound, Typed, WellTyped
<1> HIDE DEF e
<1>3. Calm(st, e)
  BY <1>1, <1>2, SameTopicsCalm DEF Numbers
<1> QED BY <1>3 DEF e

\* A state that stays as it is, is calm.
LEMMA SameCalm ==
    ASSUME NEW st, Good(st)
    PROVE  Calm(st, st)
<1>1. Typed(st) /\ st.sequence \in Int
  BY ConstantsAssumption DEF Good, Sound, Typed, WellTyped
<1> QED BY <1>1, SameTopicsCalm DEF Numbers

\* Requests, streams, maintenance and shutdown are calm and leave the poll alone.
LEMMA RequestCalm ==
    ASSUME IInv, Requests \/ \E id \in SubIds : Receive(id)
    PROVE  Calm(inner, inner') /\ poll' = poll
<1>1. ASSUME NEW due, ExpireStep(due) PROVE Calm(inner, inner') /\ poll' = poll
  BY <1>1, ExpireCalm DEF ExpireStep, IInv
<1>2. ASSUME NEW sel \in Selections, NEW due, Subscribe(sel, due)
      PROVE  Calm(inner, inner') /\ poll' = poll
  <2> DEFINE st == Expire(inner, due)
  <2>1. Good(st) /\ Calm(inner, st)
    BY <1>2, ExpireGood, ExpireCalm DEF Subscribe, IInv
  <2>2. Acceptable(st, sel) /\ inner' = Admit(st, sel) /\ poll' = poll
    BY <1>2 DEF Subscribe
  <2> HIDE DEF st
  <2>3. Good(inner') /\ Calm(st, inner')
    BY <2>1, <2>2, AdmitGood, AdmitCalm
  <2>4. Typed(inner) /\ Typed(st) /\ Typed(inner')
    BY <2>1, <2>3 DEF IInv, Good, Sound
  <2> QED BY <2>1, <2>2, <2>3, <2>4, CalmTrans
<1>3. ASSUME NEW id \in SubIds, DropSubscription(id)
      PROVE  Calm(inner, inner') /\ poll' = poll
  <2> DEFINE u == Unregister(inner, id)
             st == Settle(u)
             queue == [st.queue EXCEPT ![id] = EmptyQueue]
  <2>1. Good(u) /\ Calm(inner, u)
    <3>1. u = [inner EXCEPT !.subs = Unregistered(inner.subs, {id})]
      BY DEF Unregister
    <3> QED BY <3>1, UnregisterGood, SubsCalm DEF IInv
  <2>2. inner' = [st EXCEPT !.queue = queue] /\ poll' = poll
    BY <1>3 DEF DropSubscription
  <2> HIDE DEF u
  <2>3. Good(st) /\ Calm(u, st)
    BY <2>1, SettleGood, SettleCalm
  <2> HIDE DEF st, queue
  <2>4. Good(inner') /\ Calm(st, inner')
    BY <2>2, <2>3, QueueGood, QueueCalm
  <2>5. Typed(inner) /\ Typed(u) /\ Typed(st) /\ Typed(inner')
    BY <2>1, <2>3, <2>4 DEF IInv, Good, Sound
  <2>6. Calm(inner, st)
    BY <2>1, <2>3, <2>5, CalmTrans
  <2> QED BY <2>2, <2>4, <2>5, <2>6, CalmTrans
<1>4. ASSUME Shutdown PROVE Calm(inner, inner') /\ poll' = poll
  BY <1>4, CloseCalm DEF Shutdown, IInv, Good, Sound
<1>5. ASSUME NEW id \in SubIds, Receive(id) PROVE Calm(inner, inner') /\ poll' = poll
  <2> DEFINE queue == [inner.queue EXCEPT ![id] = PopRest(@)]
  <2>1. inner' = [inner EXCEPT !.queue = queue] /\ poll' = poll
    BY <1>5 DEF Receive
  <2> HIDE DEF queue
  <2> QED BY <2>1, QueueCalm DEF IInv
<1> QED BY <1>1, <1>2, <1>3, <1>4, <1>5 DEF Requests

\* What a publication of the lifecycle worker does.
LEMMA PublishRises ==
    ASSUME IInv,
           \/ \E gone \in SUBSET Targets : PublishRetained(gone)
           \/ PublishDiscoveryFailed
           \/ \E gone \in SUBSET Targets : PublishDiscovered(gone)
           \/ \E p \in Targets : PublishAttaching(p)
           \/ \E p \in Targets, a \in {Retrying} \cup (SessionIds \ used) :
                 PublishAttached(p, a)
           \/ PublishRetired
    PROVE  /\ Rises(inner.sessions \cap inner'.sessions, inner, inner')
           /\ Silent(inner, inner') /\ Bare(inner, inner')
           /\ poll.phase = "None" /\ poll' = poll
<1>1. PICK targets, error : UpdateLifecycle(targets, error)
  BY DEF PublishRetained, PublishDiscoveryFailed, PublishDiscovered, PublishAttaching,
         PublishAttached, PublishRetired
<1> DEFINE status == [targets |-> targets, error |-> error]
<1>2. inner' = SyncRuntime(inner, status) /\ poll.phase = "None" /\ poll' = poll
  BY <1>1 DEF UpdateLifecycle
<1> HIDE DEF status
<1> QED BY <1>2, SyncRuntimeRises DEF IInv

---------------------------------------------------------------------------
(* The fence of the poll in flight. *)

\* The topics of a ticket are never behind it, and one that lapsed since (crossed)
\* shows it: nobody demands it, or one of its two fences moved.
Behind(fence, topic) ==
    /\ fence.generation \in Int /\ fence.epoch \in Int
    /\ fence.generation <= topic.generation /\ fence.epoch <= topic.epoch

Lapsed(fence, topic) ==
    \/ ~topic.demanded
    \/ topic.generation > fence.generation
    \/ topic.epoch > fence.epoch

TicketFenced(st, pl, cr) ==
    pl.phase # "None" =>
        /\ pl.session \in st.sessions
        /\ \A t \in DOMAIN pl.ticket :
              LET topic == st.topics[pl.session][t] IN
              /\ Behind(pl.ticket[t], topic)
              /\ t \in cr => Lapsed(pl.ticket[t], topic)

FInv == IInv /\ TicketFenced(inner, poll, crossed)

\* A fence stays behind a topic that moves forward, and what lapsed stays lapsed.
LEMMA FenceAhead ==
    ASSUME NEW was \in TopicType, NEW is \in TopicType, NEW fence,
           NEW stopped, Ahead(was, is, stopped), Behind(fence, was)
    PROVE  /\ Behind(fence, is)
           /\ Lapsed(fence, was) => Lapsed(fence, is)
           /\ is.generation # was.generation => Lapsed(fence, is)
           /\ is.epoch > was.epoch => Lapsed(fence, is)
<1>1. /\ was.generation \in Int /\ was.epoch \in Int
      /\ is.generation \in Int /\ is.epoch \in Int
  BY ConstantsAssumption DEF TopicType
<1>2. is.generation >= was.generation /\ is.epoch >= was.epoch
  BY DEF Ahead
<1>3. Behind(fence, is)
  BY <1>1, <1>2 DEF Behind
<1>4. is.generation # was.generation => is.generation > fence.generation
  BY <1>1, <1>2 DEF Behind
<1>5. is.epoch > was.epoch => is.epoch > fence.epoch
  BY <1>1, <1>2 DEF Behind
<1>6. was.generation > fence.generation => is.generation > fence.generation
  BY <1>1, <1>2 DEF Behind
<1>7. was.epoch > fence.epoch => is.epoch > fence.epoch
  BY <1>1, <1>2 DEF Behind
<1>8. ~was.demanded => ~is.demanded \/ is.generation # was.generation
  <2>1. ~was.demanded /\ is.demanded => is.generation > was.generation
    BY DEF Ahead
  <2> QED BY <1>1, <2>1
<1> QED BY <1>3, <1>4, <1>5, <1>6, <1>7, <1>8 DEF Lapsed

\* A calm step keeps the fence, and History records what it crosses.
LEMMA CalmFenced ==
    ASSUME FInv, Good(inner'), Calm(inner, inner'), poll.phase # "None",
           poll'.session = poll.session, poll'.ticket = poll.ticket,
           crossed' = History
    PROVE  TicketFenced(inner', poll', crossed')
<1> SUFFICES ASSUME poll'.phase # "None"
             PROVE  TicketFenced(inner', poll', crossed')
  BY DEF TicketFenced
<1> DEFINE s == poll.session
<1>1. s \in inner.sessions /\ s \in SessionIds /\ inner'.sessions = inner.sessions
  BY DEF FInv, TicketFenced, IInv, PollOK, Calm
<1>2. ASSUME NEW t \in DOMAIN poll.ticket
      PROVE  /\ Behind(poll.ticket[t], inner'.topics[s][t])
             /\ t \in crossed' => Lapsed(poll.ticket[t], inner'.topics[s][t])
  <2> DEFINE was == inner.topics[s][t]
             is == inner'.topics[s][t]
             fence == poll.ticket[t]
  <2>1. t \in Topics
    BY DEF FInv, IInv, PollOK
  <2>2. was \in TopicType /\ is \in TopicType
    <3>1. Typed(inner) /\ Typed(inner')
      BY DEF FInv, IInv, Good, Sound
    <3> QED BY <1>1, <2>1, <3>1, TopicFields
  <2>3. Ahead(was, is, inner'.stopped)
    BY <1>1, <2>1 DEF Calm, Rises
  <2>4. Behind(fence, was) /\ (t \in crossed => Lapsed(fence, was))
    BY DEF FInv, TicketFenced
  <2>5. ~inner'.stopped /\ was.armed /\ ~is.armed => is.epoch > was.epoch
    BY <1>1, <2>1 DEF Calm, Held
  <2>6. inner'.stopped => ~is.demanded
    BY <1>1, <2>1 DEF Good, Sound, Empty
  <2>7. t \in crossed' => \/ t \in crossed
                          \/ ~is.demanded
                          \/ was.armed /\ ~is.armed
                          \/ is.generation # was.generation
    BY DEF History
  <2> HIDE DEF was, is, fence
  <2>8. /\ Behind(fence, is)
        /\ Lapsed(fence, was) => Lapsed(fence, is)
        /\ is.generation # was.generation => Lapsed(fence, is)
        /\ is.epoch > was.epoch => Lapsed(fence, is)
    BY <2>2, <2>3, <2>4, FenceAhead
  <2>9. ~is.demanded => Lapsed(fence, is)
    BY DEF Lapsed
  <2> QED BY <2>4, <2>5, <2>6, <2>7, <2>8, <2>9 DEF was, is, fence
<1> QED BY <1>1, <1>2 DEF TicketFenced

\* No poll in flight has no fence.
LEMMA NoPollFenced ==
    ASSUME NEW st, NEW cr
    PROVE  TicketFenced(st, NoPoll, cr)
<1>1. NoPoll.phase = "None"
  BY DEF NoPoll
<1> QED BY <1>1 DEF TicketFenced

\* The worker's poll.
LEMMA PollFenced ==
    ASSUME FInv, Good(inner'), crossed' = History,
           \/ \E s \in SessionIds : StartPoll(s)
           \/ \E batch \in Batches, b \in Builds : CommitStep(batch, b)
           \/ DiscardRefused
           \/ \E resets \in SUBSET Topics : ProviderFails(resets)
           \/ VerificationFails
    PROVE  TicketFenced(inner', poll', crossed')
<1>0. Good(inner) /\ DOMAIN poll.ticket \subseteq Topics
      /\ DOMAIN poll = {"phase", "session", "ticket", "resets", "failed"}
  BY DEF FInv, IInv, PollOK
<1>1. ASSUME NEW s \in SessionIds, StartPoll(s)
      PROVE  TicketFenced(inner', poll', crossed')
  <2> DEFINE ticket == CurrentTicket(inner, s)
  <2>1. crossed' = {}
    BY <1>1 DEF StartPoll, History
  <2>2. /\ DOMAIN ticket \subseteq Topics
        /\ \A t \in DOMAIN ticket : /\ ticket[t].generation = inner.topics[s][t].generation
                                     /\ ticket[t].epoch = inner.topics[s][t].epoch
    BY DEF CurrentTicket
  <2>3. /\ poll' = [NoPoll EXCEPT !.phase = "Sampling", !.session = s, !.ticket = ticket]
        /\ inner' = inner /\ s \in inner.sessions
    BY <1>1 DEF StartPoll, HasTicket
  <2> HIDE DEF ticket
  <2>4. poll'.session = s /\ poll'.ticket = ticket
    BY <2>3 DEF NoPoll
  <2>5. ASSUME NEW t \in DOMAIN ticket PROVE Behind(ticket[t], inner.topics[s][t])
    <3>1. inner.topics[s][t].generation \in Int /\ inner.topics[s][t].epoch \in Int
      BY <1>0, <2>2, TopicFields DEF Good, Sound
    <3> QED BY <2>2, <3>1 DEF Behind
  <2> QED BY <2>1, <2>3, <2>4, <2>5 DEF TicketFenced
<1>2. ASSUME NEW batch \in Batches, NEW b, CommitStep(batch, b)
      PROVE  TicketFenced(inner', poll', crossed')
  <2> DEFINE outcome == CommitOutcome(inner, poll.session, poll.ticket, batch, b)
             resets == ResetIntents(batch)
             refused == [poll EXCEPT !.phase = "Refused", !.resets = resets,
                                     !.failed = outcome = "Rejected"]
  <2>1. /\ poll.phase = "Sampling"
        /\ inner' = CommitPoll(inner, poll.session, poll.ticket, batch, b)
        /\ poll' = IF outcome = "Committed" THEN NoPoll ELSE refused
    BY <1>2 DEF CommitStep
  <2>2. outcome # "Committed" => Calm(inner, inner')
    BY <1>0, <2>1, CommitPollRises
  <2> HIDE DEF outcome, resets
  <2>3. refused.session = poll.session /\ refused.ticket = poll.ticket
    BY <1>0
  <2> HIDE DEF refused
  <2>4. CASE outcome = "Committed"
    BY <2>1, <2>4, NoPollFenced
  <2>5. CASE outcome # "Committed"
    BY <2>1, <2>2, <2>3, <2>5, CalmFenced
  <2> QED BY <2>4, <2>5
<1>3. ASSUME DiscardRefused \/ VerificationFails
      PROVE  TicketFenced(inner', poll', crossed')
  BY <1>3, NoPollFenced DEF DiscardRefused, VerificationFails
<1>4. ASSUME NEW resets, ProviderFails(resets)
      PROVE  TicketFenced(inner', poll', crossed')
  <2>1. /\ poll.phase = "Sampling" /\ inner' = inner
        /\ poll' = [poll EXCEPT !.phase = "Refused", !.resets = resets, !.failed = TRUE]
    BY <1>4 DEF ProviderFails
  <2>2. poll'.session = poll.session /\ poll'.ticket = poll.ticket
    BY <1>0, <2>1
  <2>3. Calm(inner, inner')
    BY <1>0, <2>1, SameCalm
  <2> QED BY <2>1, <2>2, <2>3, CalmFenced
<1> QED BY <1>1, <1>2, <1>3, <1>4

\* The inductive invariant of the fences.
LEMMA FenceInv == Spec => []FInv
<1>1. Init => FInv
  BY InitInv, NoPollFenced DEF Init, FInv
<1>2. FInv /\ [Next]_vars => FInv'
  <2> SUFFICES ASSUME FInv, [Next]_vars PROVE FInv'
    OBVIOUS
  <2>1. IInv'
    BY NextInv DEF FInv
  <2>2. IInv /\ Good(inner')
    BY <2>1 DEF FInv, IInv
  <2>3. ASSUME Worker, crossed' = History PROVE TicketFenced(inner', poll', crossed')
    <3>1. poll.phase = "None" /\ poll' = poll => TicketFenced(inner', poll', crossed')
      BY DEF TicketFenced
    <3> QED BY <2>2, <2>3, <3>1, PublishRises, PollFenced DEF Worker
  <2>4. ASSUME Requests \/ \E id \in SubIds : Receive(id), crossed' = History
        PROVE  TicketFenced(inner', poll', crossed')
    <3>1. Calm(inner, inner') /\ poll' = poll
      BY <2>2, <2>4, RequestCalm
    <3>2. CASE poll.phase = "None"
      BY <3>1, <3>2 DEF TicketFenced
    <3>3. CASE poll.phase # "None"
      BY <2>2, <2>4, <3>1, <3>3, CalmFenced
    <3> QED BY <3>2, <3>3
  <2>5. CASE UNCHANGED vars
    BY <2>5 DEF vars, FInv, TicketFenced, IInv
  <2>6. CASE Next
    BY <2>1, <2>3, <2>4, <2>6 DEF Next, FInv
  <2> QED BY <2>5, <2>6
<1> QED BY <1>1, <1>2, PTL DEF Spec

---------------------------------------------------------------------------
(* Results. *)

\* Every step, of whatever actor, moves the numbers and the surviving topics forward.
LEMMA StepRises ==
    ASSUME IInv, Next
    PROVE  Rises(inner.sessions \cap inner'.sessions, inner, inner')
<1> DEFINE S == inner.sessions \cap inner'.sessions
<1>0. Good(inner) /\ DOMAIN poll.ticket \subseteq Topics /\ S \subseteq SessionIds
  BY DEF IInv, PollOK, Good, Sound, Typed, WellTyped
<1>1. ASSUME Rises(SessionIds, inner, inner') PROVE Rises(S, inner, inner')
  BY <1>0, <1>1 DEF Rises
<1>2. ASSUME Calm(inner, inner') PROVE Rises(S, inner, inner')
  BY <1>1, <1>2 DEF Calm
<1>3. ASSUME NEW s, StartPoll(s) PROVE Rises(S, inner, inner')
  BY <1>0, <1>2, <1>3, SameCalm DEF StartPoll
<1>4. ASSUME NEW batch \in Batches, NEW b, CommitStep(batch, b)
      PROVE  Rises(S, inner, inner')
  BY <1>0, <1>1, <1>4, CommitPollRises DEF CommitStep
<1>5. ASSUME NEW resets, ProviderFails(resets) PROVE Rises(S, inner, inner')
  BY <1>0, <1>2, <1>5, SameCalm DEF ProviderFails
<1>6. ASSUME NEW resets, NEW failed,
             inner' = DiscardPoll(inner, poll.session, poll.ticket, resets, failed)
      PROVE  Rises(S, inner, inner')
  BY <1>0, <1>1, <1>6, DiscardPollQuiet DEF Quiet
<1>7. ASSUME DiscardRefused \/ VerificationFails PROVE Rises(S, inner, inner')
  BY <1>6, <1>7 DEF DiscardRefused, VerificationFails
<1>8. ASSUME Requests \/ \E id \in SubIds : Receive(id) PROVE Rises(S, inner, inner')
  BY <1>2, <1>8, RequestCalm
<1> QED BY <1>3, <1>4, <1>5, <1>7, <1>8, PublishRises DEF Next, Worker

\* The sequence and the fences of a live session only grow, an end of demand always
\* moves the epoch, new demand always moves the generation, and a stopped service
\* gives out no number: for any number of sessions, topics and subscribers, and
\* when a counter reaches the end of its machine range in the middle of a handler.
THEOREM FencesGrow == Spec => FencesMonotone
<1> DEFINE A == /\ inner'.sequence >= inner.sequence
                /\ inner.stopped => inner'.sequence = inner.sequence
                /\ \A s \in inner.sessions \cap inner'.sessions, t \in Topics :
                      LET was == inner.topics[s][t]
                          is == inner'.topics[s][t]
                      IN  /\ is.generation >= was.generation /\ is.epoch >= was.epoch
                          /\ ~inner'.stopped /\ was.demanded # is.demanded
                                 => is.epoch > was.epoch
                          /\ ~was.demanded /\ is.demanded => is.generation > was.generation
<1>1. IInv /\ Next => A
  <2> SUFFICES ASSUME IInv, Next PROVE A
    OBVIOUS
  <2>1. Rises(inner.sessions \cap inner'.sessions, inner, inner')
    BY StepRises
  <2> QED BY <2>1 DEF Rises, Numbers, Ahead
<1>2. IInv /\ [Next]_vars => [A]_vars
  BY <1>1
<1> QED BY <1>2, IInvHolds, PTL DEF Spec, FencesMonotone

\* A source reset is never lost: however a refused or failed poll interleaves with
\* subscriptions, expiry and their settles, discard_poll leaves no demanded topic in
\* the generation that was sampled before the reset.
THEOREM ResetsKept == Spec => ResetsSurvive
<1> DEFINE A == poll.phase = "Refused" /\ poll'.phase = "None" =>
                  \A t \in poll.resets \cap DOMAIN poll.ticket :
                      LET topic == inner'.topics[poll.session][t] IN
                      \/ inner'.stopped
                      \/ ~topic.demanded
                      \/ topic.generation > poll.ticket[t].generation
<1>1. FInv /\ Next => A
  <2> SUFFICES ASSUME FInv, Next, poll.phase = "Refused", poll'.phase = "None" PROVE A
    OBVIOUS
  <2>1. DiscardRefused
    <3>1. ~(Requests \/ \E id \in SubIds : Receive(id))
      BY RequestCalm DEF FInv
    <3>2. Worker
      BY <3>1 DEF Next
    <3> QED BY <3>2, PublishRises
            DEF Worker, FInv, StartPoll, CommitStep, ProviderFails, VerificationFails
  <2>2. inner' = DiscardPoll(inner, poll.session, poll.ticket, poll.resets, poll.failed)
    BY <2>1 DEF DiscardRefused
  <2>3. /\ Good(inner) /\ DOMAIN poll.ticket \subseteq Topics
        /\ poll.session \in inner.sessions
        /\ \A t \in DOMAIN poll.ticket :
              /\ poll.ticket[t].generation \in Int
              /\ poll.ticket[t].generation <= inner.topics[poll.session][t].generation
    BY DEF FInv, IInv, PollOK, TicketFenced, Behind
  <2>4. \A t \in poll.resets \cap DOMAIN poll.ticket :
           \/ inner'.stopped
           \/ ~inner'.topics[poll.session][t].demanded
           \/ inner'.topics[poll.session][t].generation > poll.ticket[t].generation
    BY <2>2, <2>3, DiscardPollQuiet
  <2> QED BY <2>4
<1>2. FInv /\ [Next]_vars => [A]_vars
  BY <1>1
<1> QED BY <1>2, FenceInv, PTL DEF Spec, ResetsSurvive

\* Late output is never published: data of a topic appears only through the commit of
\* a poll whose ticket names the topic, and only if the topic was demanded, did not
\* expire and kept its generation ever since that ticket was taken.
THEOREM LateOutputRefused == Spec => NoLateOutput
<1> DEFINE A == \A s \in SessionIds, t \in Topics :
                  Publishes(s, t) => /\ poll.phase = "Sampling" /\ poll.session = s
                                     /\ t \in DOMAIN poll.ticket
                                     /\ t \notin crossed
<1>1. FInv /\ Next => A
  <2> SUFFICES ASSUME FInv, Next PROVE A
    OBVIOUS
  <2>0. IInv /\ Good(inner) /\ DOMAIN poll.ticket \subseteq Topics
    BY DEF FInv, IInv, PollOK
  <2>1. ASSUME Silent(inner, inner') PROVE A
    BY <2>1 DEF Silent, Publishes
  <2>2. ASSUME Calm(inner, inner') PROVE A
    BY <2>1, <2>2 DEF Calm
  <2>3. ASSUME NEW s, StartPoll(s) PROVE A
    BY <2>0, <2>2, <2>3, SameCalm DEF StartPoll
  <2>4. ASSUME NEW resets, ProviderFails(resets) PROVE A
    BY <2>0, <2>2, <2>4, SameCalm DEF ProviderFails
  <2>5. ASSUME NEW resets, NEW failed,
               inner' = DiscardPoll(inner, poll.session, poll.ticket, resets, failed)
        PROVE  A
    BY <2>0, <2>1, <2>5, DiscardPollQuiet DEF Quiet
  <2>6. ASSUME DiscardRefused \/ VerificationFails PROVE A
    BY <2>5, <2>6 DEF DiscardRefused, VerificationFails
  <2>7. ASSUME Requests \/ \E id \in SubIds : Receive(id) PROVE A
    BY <2>0, <2>2, <2>7, RequestCalm
  <2>8. ASSUME NEW batch \in Batches, NEW b, CommitStep(batch, b) PROVE A
    <3> DEFINE outcome == CommitOutcome(inner, poll.session, poll.ticket, batch, b)
    <3>1. /\ poll.phase = "Sampling"
          /\ inner' = CommitPoll(inner, poll.session, poll.ticket, batch, b)
      BY <2>8 DEF CommitStep
    <3>2. CASE outcome # "Committed"
      <4>1. Calm(inner, inner')
        BY <2>0, <3>1, <3>2, CommitPollRises
      <4> QED BY <2>2, <4>1
    <3>3. CASE outcome = "Committed"
      <4>1. Fenced(inner, poll.session, poll.ticket) /\ Touched(batch) \subseteq DOMAIN poll.ticket
        BY <3>3 DEF CommitOutcome, Valid
      <4>2. \A s \in SessionIds, t \in Topics :
              Publishes(s, t) => s = poll.session /\ t \in Touched(batch)
        BY <2>0, <3>1, <3>3, CommitPollRises DEF Publishes
      <4>3. ASSUME NEW t \in DOMAIN poll.ticket PROVE t \notin crossed
        <5>1. ~Lapsed(poll.ticket[t], inner.topics[poll.session][t])
          <6>1. poll.ticket[t].generation \in Int /\ poll.ticket[t].epoch \in Int
            BY <3>1 DEF FInv, TicketFenced, Behind
          <6>2. /\ inner.topics[poll.session][t].demanded
                /\ inner.topics[poll.session][t].generation = poll.ticket[t].generation
                /\ inner.topics[poll.session][t].epoch = poll.ticket[t].epoch
            BY <4>1 DEF Fenced
          <6> QED BY <6>1, <6>2 DEF Lapsed
        <5> QED BY <3>1, <5>1 DEF FInv, TicketFenced
      <4> QED BY <3>1, <4>1, <4>2, <4>3
    <3> QED BY <3>2, <3>3
  <2> HIDE DEF A
  <2> QED BY <2>0, <2>1, <2>3, <2>4, <2>6, <2>7, <2>8, PublishRises DEF Next, Worker
<1>2. FInv /\ [Next]_vars => [A]_vars
  BY <1>1
<1> QED BY <1>2, FenceInv, PTL DEF Spec, NoLateOutput

=============================================================================
