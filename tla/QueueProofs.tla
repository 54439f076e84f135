---------------------------- MODULE QueueProofs ----------------------------
(***************************************************************************)
(* The subscriptions of Service for every value of its constants: demand   *)
(* is exactly what the registered subscribers ask for, no reader waits for *)
(* a terminal that never comes, and queues and retained snapshots stay     *)
(* within their budgets.                                                   *)
(*                                                                         *)
(* Every method of Inner serves the subscriptions (Served): it leaves      *)
(* well-formed queues, brings no ended queue back, and forgets a           *)
(* subscriber only with a terminal in its queue.  Settle reaches its       *)
(* fixpoint in the two rounds the model gives it, because the second one   *)
(* only withdraws demand and its updates match nobody.                     *)
(***************************************************************************)
EXTENDS FenceProofs

---------------------------------------------------------------------------
(* Lists and queues. *)

IsList(x) == Len(x) \in Nat /\ x = [i \in 1..Len(x) |-> x[i]]

\* A queue of Inner, within its budgets.
QueueOK(q) ==
    /\ DOMAIN q = {"initial", "updates", "terminal", "completed"}
    /\ IsList(q.initial) /\ Len(q.initial) <= InitialBudget
    /\ IsList(q.updates) /\ Len(q.updates) <= QueueBudget
    /\ q.completed \in BOOLEAN

\* A list is a sequence, and a sequence is a list.
LEMMA ListSeq ==
    /\ \A x : IsList(x) => x \in Seq({x[i] : i \in 1..Len(x)})
    /\ \A S : \A x \in Seq(S) : IsList(x)
<1>1. ASSUME NEW x, IsList(x) PROVE x \in Seq({x[i] : i \in 1..Len(x)})
  <2> DEFINE n == Len(x)
             S == {x[i] : i \in 1..n}
  <2>1. x \in [1..n -> S] /\ n \in Nat
    BY <1>1 DEF IsList
  <2> HIDE DEF n, S
  <2>2. x \in Seq(S)
    BY <2>1
  <2> QED BY <2>2 DEF n, S
<1>2. ASSUME NEW S, NEW x \in Seq(S) PROVE IsList(x)
  BY DEF IsList
<1> QED BY <1>1, <1>2

\* The lists that the queues are made of.
LEMMA Lists ==
    /\ IsList(<<>>) /\ Len(<<>>) = 0
    /\ \A x : IsList(x) => x = <<>> \/ Len(x) > 0
    /\ \A x : IsList(<<x>>) /\ Len(<<x>>) = 1
    /\ \A x : IsList(x) /\ x # <<>> => IsList(Tail(x)) /\ Len(Tail(x)) = Len(x) - 1
    /\ \A x, y : IsList(x) /\ IsList(y) => IsList(x \o y) /\ Len(x \o y) = Len(x) + Len(y)
<1>1. IsList(<<>>) /\ Len(<<>>) = 0
  BY DEF IsList
<1>2. ASSUME NEW x, IsList(x) PROVE x = <<>> \/ Len(x) > 0
  <2> DEFINE S == {x[i] : i \in 1..Len(x)}
  <2>1. x \in Seq(S)
    BY <1>2, ListSeq
  <2> HIDE DEF S
  <2> QED BY <2>1
<1>3. ASSUME NEW x PROVE IsList(<<x>>) /\ Len(<<x>>) = 1
  BY DEF IsList
<1>4. ASSUME NEW x, IsList(x), x # <<>>
      PROVE  IsList(Tail(x)) /\ Len(Tail(x)) = Len(x) - 1
  <2> DEFINE S == {x[i] : i \in 1..Len(x)}
  <2>1. x \in Seq(S)
    BY <1>4, ListSeq
  <2> HIDE DEF S
  <2>2. Tail(x) \in Seq(S) /\ Len(Tail(x)) = Len(x) - 1
    BY <1>4, <2>1
  <2> QED BY <2>2, ListSeq
<1>5. ASSUME NEW x, NEW y, IsList(x), IsList(y)
      PROVE  IsList(x \o y) /\ Len(x \o y) = Len(x) + Len(y)
  <2> DEFINE S == {x[i] : i \in 1..Len(x)}
             T == {y[i] : i \in 1..Len(y)}
  <2>1. x \in Seq(S) /\ y \in Seq(T)
    BY <1>5, ListSeq
  <2> HIDE DEF S, T
  <2>2. x \in Seq(S \cup T) /\ y \in Seq(S \cup T)
    BY <2>1
  <2>3. x \o y \in Seq(S \cup T) /\ Len(x \o y) = Len(x) + Len(y)
    BY <2>2
  <2> QED BY <2>3, ListSeq
<1> QED BY <1>1, <1>2, <1>3, <1>4, <1>5

\* A new queue.
LEMMA EmptyQueueOK ==
    QueueOK(EmptyQueue) /\ ~Ended(EmptyQueue) /\ EmptyQueue.initial = <<>>
<1>1. /\ DOMAIN EmptyQueue = {"initial", "updates", "terminal", "completed"}
      /\ EmptyQueue.initial = <<>> /\ EmptyQueue.updates = <<>>
      /\ EmptyQueue.terminal = None /\ EmptyQueue.completed = FALSE
  BY DEF EmptyQueue
<1>2. IsList(<<>>) /\ Len(<<>>) <= InitialBudget /\ Len(<<>>) <= QueueBudget
  BY Lists, ConstantsAssumption
<1> DEFINE q == EmptyQueue
<1> HIDE DEF q
<1>3. QueueOK(q)
  BY <1>1, <1>2 DEF QueueOK, q
<1> QED BY <1>1, <1>3 DEF Ended, q

\* Contents::discard never makes a queue longer.
LEMMA DiscardOK ==
    ASSUME NEW q, QueueOK(q)
    PROVE  /\ QueueOK(Discard(q)) /\ Discard(q).terminal = q.terminal
           /\ Discard(q).completed = q.completed
           /\ q.initial = <<>> => Discard(q).initial = <<>>
<1> DEFINE d == Discard(q)
           begin == IF q.initial # <<>> /\ Head(q.initial).item = "Begin"
                    THEN <<Head(q.initial)>> ELSE <<>>
<1>1. /\ DOMAIN d = {"initial", "updates", "terminal", "completed"}
      /\ d.initial = begin /\ d.updates = <<>>
      /\ d.terminal = q.terminal /\ d.completed = q.completed
  BY DEF Discard, QueueOK
<1>2. IsList(begin) /\ Len(begin) <= InitialBudget
  <2>1. begin = <<>> \/ (q.initial # <<>> /\ begin = <<Head(q.initial)>>)
    OBVIOUS
  <2>2. InitialBudget \in Nat /\ Len(q.initial) \in Nat /\ Len(q.initial) <= InitialBudget
        /\ IsList(q.initial)
    BY ConstantsAssumption DEF QueueOK, IsList
  <2> HIDE DEF begin
  <2>3. CASE begin = <<>>
    BY <2>2, <2>3, Lists
  <2>4. CASE q.initial # <<>> /\ begin = <<Head(q.initial)>>
    <3>1. Len(q.initial) > 0
      BY <2>2, <2>4, Lists
    <3>2. IsList(begin) /\ Len(begin) = 1
      BY <2>4, Lists
    <3> QED BY <2>2, <3>1, <3>2
  <2> QED BY <2>1, <2>3, <2>4
<1>3. q.initial = <<>> => begin = <<>>
  OBVIOUS
<1>4. QueueBudget \in Nat /\ q.completed \in BOOLEAN
  BY ConstantsAssumption DEF QueueOK
<1> HIDE DEF d, begin
<1>5. QueueOK(d)
  BY <1>1, <1>2, <1>4, Lists DEF QueueOK
<1> QED BY <1>1, <1>3, <1>5 DEF d

\* q became r: well formed, not reopened, and without a bootstrap it did not have.
Moved(q, r) ==
    /\ QueueOK(r)
    /\ Ended(q) => Ended(r)
    /\ q.initial = <<>> => r.initial = <<>>

\* A terminal in place.
LEMMA TerminalOK ==
    ASSUME NEW q, QueueOK(q), NEW end \in Ends
    PROVE  LET r == [q EXCEPT !.terminal = end] IN Moved(q, r) /\ Ended(r)
<1> DEFINE r == [q EXCEPT !.terminal = end]
<1>1. /\ DOMAIN r = {"initial", "updates", "terminal", "completed"}
      /\ r.initial = q.initial /\ r.updates = q.updates
      /\ r.terminal = end /\ r.completed = q.completed
  BY DEF QueueOK
<1>2. end # None
  BY EndsAssumption
<1> HIDE DEF r
<1>3. QueueOK(r)
  BY <1>1 DEF QueueOK
<1> QED BY <1>1, <1>2, <1>3 DEF Moved, Ended, r

\* Queue::finish.
LEMMA FinishOK ==
    ASSUME NEW q, QueueOK(q), NEW end \in Ends, NEW discard \in BOOLEAN
    PROVE  Moved(q, Finish(q, end, discard)) /\ Ended(Finish(q, end, discard))
<1> DEFINE d == IF discard THEN Discard(q) ELSE q
           f == [d EXCEPT !.terminal = end]
<1>1. QueueOK(d) /\ (q.initial = <<>> => d.initial = <<>>)
  BY DiscardOK
<1>2. Finish(q, end, discard) = IF Ended(q) THEN q ELSE f
  BY DEF Finish
<1> HIDE DEF d
<1>3. Moved(d, f) /\ Ended(f)
  BY <1>1, TerminalOK
<1> HIDE DEF f
<1> QED BY <1>1, <1>2, <1>3 DEF Moved

\* Queue::offer.
LEMMA OfferOK ==
    ASSUME NEW q, QueueOK(q), NEW items, IsList(items)
    PROVE  Moved(q, Offer(q, items))
<1> DEFINE d == Discard(q)
           lagged == [d EXCEPT !.terminal = "Lagged"]
           longer == [q EXCEPT !.updates = q.updates \o items]
<1>1. Offer(q, items) = IF Ended(q) \/ items = <<>> THEN q
        ELSE IF Len(items) > QueueBudget - Len(q.updates) THEN lagged ELSE longer
  BY DEF Offer
<1>2. Moved(q, q)
  BY DEF Moved
<1>3. Moved(q, lagged)
  <2>1. QueueOK(d) /\ (q.initial = <<>> => d.initial = <<>>)
    BY DiscardOK
  <2>2. "Lagged" \in Ends
    BY DEF Ends
  <2> HIDE DEF d
  <2>3. Moved(d, lagged) /\ Ended(lagged)
    BY <2>1, <2>2, TerminalOK
  <2> HIDE DEF lagged
  <2> QED BY <2>1, <2>3 DEF Moved
<1>4. ASSUME ~(Len(items) > QueueBudget - Len(q.updates))
      PROVE  Moved(q, longer)
  <2> DEFINE us == q.updates \o items
  <2>1. IsList(us) /\ Len(us) = Len(q.updates) + Len(items)
    BY Lists DEF QueueOK
  <2>2. Len(q.updates) \in Nat /\ Len(items) \in Nat /\ QueueBudget \in Nat
    BY ConstantsAssumption DEF QueueOK, IsList
  <2>3. Len(us) <= QueueBudget
    BY <1>4, <2>1, <2>2
  <2> HIDE DEF us
  <2>4. /\ DOMAIN longer = {"initial", "updates", "terminal", "completed"}
        /\ longer.initial = q.initial /\ longer.updates = us
        /\ longer.terminal = q.terminal /\ longer.completed = q.completed
    BY DEF QueueOK, us
  <2> HIDE DEF longer
  <2>5. QueueOK(longer)
    BY <2>1, <2>3, <2>4 DEF QueueOK
  <2> QED BY <2>4, <2>5 DEF Moved, Ended
<1> HIDE DEF lagged, longer
<1> QED BY <1>1, <1>2, <1>3, <1>4

\* Queue::pop: an open queue stays open.
LEMMA PopOK ==
    ASSUME NEW q, QueueOK(q), CanPop(q)
    PROVE  QueueOK(PopRest(q)) /\ (Ended(PopRest(q)) <=> Ended(q))
<1> DEFINE r == PopRest(q)
           i == [q EXCEPT !.initial = Tail(q.initial)]
           u == [q EXCEPT !.updates = Tail(q.updates)]
           c == [q EXCEPT !.terminal = None, !.completed = TRUE]
<1>1. r = IF q.initial # <<>> THEN i ELSE IF q.updates # <<>> THEN u ELSE c
  BY DEF PopRest
<1>2. /\ DOMAIN i = {"initial", "updates", "terminal", "completed"}
      /\ DOMAIN u = {"initial", "updates", "terminal", "completed"}
      /\ DOMAIN c = {"initial", "updates", "terminal", "completed"}
      /\ i.initial = Tail(q.initial) /\ i.updates = q.updates
      /\ i.terminal = q.terminal /\ i.completed = q.completed
      /\ u.initial = q.initial /\ u.updates = Tail(q.updates)
      /\ u.terminal = q.terminal /\ u.completed = q.completed
      /\ c.initial = q.initial /\ c.updates = q.updates
      /\ c.terminal = None /\ c.completed = TRUE
  BY DEF QueueOK
<1>3. /\ IsList(q.initial) /\ Len(q.initial) \in Nat
      /\ IsList(q.updates) /\ Len(q.updates) \in Nat
      /\ InitialBudget \in Nat /\ QueueBudget \in Nat
      /\ q.completed \in BOOLEAN
  BY ConstantsAssumption DEF QueueOK, IsList
<1> HIDE DEF r, i, u, c
<1>4. CASE q.initial # <<>>
  <2>1. IsList(i.initial) /\ Len(i.initial) = Len(q.initial) - 1
    BY <1>2, <1>3, <1>4, Lists
  <2>2. Len(i.initial) <= InitialBudget
    BY <1>3, <2>1 DEF QueueOK
  <2>3. QueueOK(i)
    BY <1>2, <2>1, <2>2 DEF QueueOK
  <2> QED BY <1>1, <1>2, <1>4, <2>3 DEF Ended, r
<1>5. CASE q.initial = <<>> /\ q.updates # <<>>
  <2>1. IsList(u.updates) /\ Len(u.updates) = Len(q.updates) - 1
    BY <1>2, <1>3, <1>5, Lists
  <2>2. Len(u.updates) <= QueueBudget
    BY <1>3, <2>1 DEF QueueOK
  <2>3. QueueOK(u)
    BY <1>2, <2>1, <2>2 DEF QueueOK
  <2> QED BY <1>1, <1>2, <1>5, <2>3 DEF Ended, r
<1>6. CASE q.initial = <<>> /\ q.updates = <<>>
  <2>1. q.terminal # None
    BY <1>6 DEF CanPop
  <2>2. QueueOK(c)
    BY <1>2 DEF QueueOK
  <2>3. Ended(q) /\ Ended(c)
    BY <1>2, <2>1 DEF Ended
  <2> QED BY <1>1, <1>6, <2>2, <2>3 DEF r
<1> QED BY <1>4, <1>5, <1>6

\* The items a subscriber matches are a list, and there are none when nothing matches.
LEMMA MatchingList ==
    ASSUME NEW sub, NEW items, NEW n \in Nat, DOMAIN items = 1..n
    PROVE  /\ IsList(Matching(sub, items))
           /\ (\A i \in 1..n : ~MatchesUpdate(sub, items[i].update))
                 => Matching(sub, items) = <<>>
<1> DEFINE picked == {i \in DOMAIN items : MatchesUpdate(sub, items[i].update)}
           Nth(k) == CHOOSE i \in picked : Cardinality({j \in picked : j <= i}) = k
           m == Cardinality(picked)
           list == [k \in 1..m |-> items[Nth(k)]]
<1>1. Matching(sub, items) = list
  BY DEF Matching
<1>2. m \in Nat
  <2>1. IsFiniteSet(1..n)
    <3>1. 1 \in Int /\ n \in Int
      OBVIOUS
    <3> QED BY <3>1, FS_Interval
  <2>2. picked \in SUBSET (1..n)
    OBVIOUS
  <2> HIDE DEF picked
  <2> QED BY <2>1, <2>2, FS_Subset, FS_CardinalityType
<1>3. ASSUME \A i \in 1..n : ~MatchesUpdate(sub, items[i].update) PROVE m = 0
  <2>1. picked = {}
    BY <1>3
  <2> HIDE DEF picked
  <2> QED BY <2>1, FS_EmptySet
<1> HIDE DEF picked, m, Nth
<1>4. list = [k \in 1..m |-> list[k]]
  OBVIOUS
<1> HIDE DEF list
<1>5. Len(list) = m
  BY <1>2, <1>4, LenList
<1>6. IsList(list)
  BY <1>2, <1>4, <1>5 DEF IsList
<1> QED BY <1>1, <1>3, <1>5, <1>6, Lists

---------------------------------------------------------------------------
(* Every method serves the subscriptions. *)

Queues(st) ==
    /\ st.queue = [id \in SubIds |-> st.queue[id]]
    /\ \A id \in SubIds : QueueOK(st.queue[id])

\* From st to e: the queues move on, nobody is registered anew, and a subscriber of S
\* that is forgotten is left a terminal.
Served(S, st, e) ==
    /\ Queues(e)
    /\ \A id \in SubIds :
          /\ Moved(st.queue[id], e.queue[id])
          /\ e.subs[id].registered => st.subs[id].registered
    /\ \A id \in S :
          st.subs[id].registered /\ ~e.subs[id].registered => Ended(e.queue[id])

\* Serving composes.
LEMMA ServedTrans ==
    ASSUME NEW S \in SUBSET SubIds, NEW a, NEW b, NEW c, Served(S, a, b), Served(S, b, c)
    PROVE  Served(S, a, c)
  BY DEF Served, Moved

\* Serving all is serving some.
LEMMA ServedSome ==
    ASSUME NEW S \in SUBSET SubIds, NEW a, NEW b, Served(SubIds, a, b)
    PROVE  Served(S, a, b)
  BY DEF Served

\* Queues and subscribers that stay as they are.
LEMMA SameServed ==
    ASSUME NEW st, Queues(st), NEW e, e.queue = st.queue, e.subs = st.subs
    PROVE  Served(SubIds, st, e)
  BY DEF Served, Moved, Queues

\* close leaves every subscriber a terminal.
LEMMA CloseServed ==
    ASSUME NEW st, Typed(st), Queues(st), NEW end \in Ends
    PROVE  Served(SubIds, st, Close(st, end))
<1> DEFINE e == Close(st, end)
<1>1. /\ e.subs = Unregistered(st.subs, SubIds)
      /\ e.queue = [id \in SubIds |-> IF st.subs[id].registered
                                      THEN Finish(st.queue[id], end, TRUE)
                                      ELSE st.queue[id]]
  BY DEF Close, Typed, Fields
<1>2. \A id \in SubIds : ~e.subs[id].registered
  <2>1. st.subs \in [SubIds -> SubType]
    BY DEF Typed, WellTyped
  <2> QED BY <1>1, <2>1, UnregisteredSubs
<1> HIDE DEF e
<1>3. ASSUME NEW id \in SubIds
      PROVE  /\ Moved(st.queue[id], e.queue[id])
             /\ st.subs[id].registered => Ended(e.queue[id])
  <2>1. QueueOK(st.queue[id])
    BY DEF Queues
  <2> DEFINE q == st.queue[id]
             f == Finish(q, end, TRUE)
  <2>2. Moved(q, f) /\ Ended(f)
    BY <2>1, FinishOK
  <2>3. e.queue[id] = IF st.subs[id].registered THEN f ELSE q
    BY <1>1
  <2>4. Moved(q, q)
    BY <2>1 DEF Moved
  <2> HIDE DEF f, q
  <2> QED BY <2>2, <2>3, <2>4 DEF q
<1>4. Queues(e)
  BY <1>1, <1>3 DEF Queues, Moved
<1>5. Served(SubIds, st, e)
  BY <1>2, <1>3, <1>4 DEF Served
<1> QED BY <1>5 DEF e

\* The numbered updates are a list of at most the updates there are.
LEMMA NumberedList ==
    ASSUME NEW st, Typed(st), NEW us, Len(us) \in Nat
    PROVE  \E n \in Nat : /\ n <= Len(us) /\ DOMAIN Numbered(st, us) = 1..n
                          /\ \A i \in 1..n : Numbered(st, us)[i].update = us[i]
<1> DEFINE n == IF HasSequences(st, Len(us)) THEN Len(us) ELSE MaxSequence - st.sequence
           items == Numbered(st, us)
<1>1. n \in Nat /\ n <= Len(us)
  BY ConstantsAssumption DEF Typed, WellTyped, HasSequences
<1>2. items = [i \in 1..n |-> [item |-> "Update", sequence |-> st.sequence + i,
                               update |-> us[i]]]
  BY DEF Numbered
<1> HIDE DEF n, items
<1>3. DOMAIN items = 1..n /\ \A i \in 1..n : items[i].update = us[i]
  BY <1>2
<1> QED BY <1>1, <1>3 DEF items

\* Publish offers to each active subscriber the updates it matches.
LEMMA PublishServed ==
    ASSUME NEW st, Typed(st), Queues(st), NEW us, Len(us) \in Nat
    PROVE  /\ Served(SubIds, st, Publish(st, us))
           /\ \A id \in SubIds :
                 (\A i \in 1..Len(us) : ~MatchesUpdate(st.subs[id], us[i]))
                     => Publish(st, us).queue[id] = st.queue[id]
<1> DEFINE e == Publish(st, us)
           items == Numbered(st, us)
<1>1. PICK n \in Nat : /\ n <= Len(us) /\ DOMAIN items = 1..n
                       /\ \A i \in 1..n : items[i].update = us[i]
  BY NumberedList
<1>2. /\ e.subs = st.subs
      /\ e.queue = [id \in SubIds |-> Offered(st, items, id)]
  BY DEF Publish, Typed, Fields
<1> HIDE DEF e, items
<1>3. ASSUME NEW id \in SubIds
      PROVE  /\ Moved(st.queue[id], e.queue[id])
             /\ (\A i \in 1..Len(us) : ~MatchesUpdate(st.subs[id], us[i]))
                     => e.queue[id] = st.queue[id]
  <2> DEFINE q == st.queue[id]
             sub == st.subs[id]
             list == Matching(sub, items)
             o == Offer(q, list)
  <2>1. QueueOK(q)
    BY DEF Queues
  <2>2. IsList(list) /\ ((\A i \in 1..n : ~MatchesUpdate(sub, items[i].update)) => list = <<>>)
    <3> HIDE DEF sub
    <3> QED BY <1>1, MatchingList
  <2>3. e.queue[id] = o \/ e.queue[id] = q
    BY <1>2 DEF Offered
  <2>4. (\A i \in 1..Len(us) : ~MatchesUpdate(sub, us[i])) => list = <<>>
    <3> HIDE DEF sub, list
    <3> QED BY <1>1, <2>2
  <2> HIDE DEF list, q, sub
  <2>5. list = <<>> => o = q
    BY DEF Offer
  <2>6. Moved(q, o) /\ Moved(q, q)
    BY <2>1, <2>2, OfferOK DEF Moved
  <2> HIDE DEF o
  <2> QED BY <2>3, <2>4, <2>5, <2>6 DEF q, sub
<1>4. Queues(e)
  BY <1>2, <1>3 DEF Queues, Moved
<1>5. Served(SubIds, st, e)
  BY <1>2, <1>3, <1>4 DEF Served
<1> QED BY <1>3, <1>5 DEF e

\* emit.
LEMMA EmitServed ==
    ASSUME NEW st, Typed(st), Queues(st), NEW us, Len(us) \in Nat
    PROVE  Served(SubIds, st, Emit(st, us))
<1> DEFINE p == Publish(st, us)
           c == Close(p, "SequenceExhausted")
<1>1. Served(SubIds, st, p) /\ Queues(p)
  BY PublishServed DEF Served
<1>2. Typed(p)
  <2>1. /\ DOMAIN p = Fields /\ p.sequence \in st.sequence..MaxSequence
        /\ p.stopped = st.stopped /\ p.sessions = st.sessions /\ p.topics = st.topics
        /\ p.next = st.next /\ p.subs = st.subs
    BY PublishFields
  <2>2. st.sequence \in Nat
    BY DEF Typed, WellTyped
  <2> HIDE DEF p
  <2>3. p.sequence \in 0..MaxSequence
    BY <2>1, <2>2, ConstantsAssumption
  <2> QED BY <2>1, <2>3, SameFields
<1>3. Emit(st, us) \in {st, p, c}
  BY DEF Emit
<1>4. Served(SubIds, st, st)
  BY SameServed
<1>5. "SequenceExhausted" \in Ends
  BY DEF Ends
<1> HIDE DEF p
<1>6. Served(SubIds, p, c)
  BY <1>1, <1>2, <1>5, CloseServed
<1> HIDE DEF c
<1>7. Served(SubIds, st, c)
  BY <1>1, <1>6, ServedTrans
<1> QED BY <1>1, <1>3, <1>4, <1>7

\* The service closes because a counter is exhausted.
LEMMA ExhaustedServed ==
    ASSUME NEW st, Typed(st), Queues(st)
    PROVE  Served(SubIds, st, Close(st, "SequenceExhausted"))
<1>1. "SequenceExhausted" \in Ends
  BY DEF Ends
<1> QED BY <1>1, CloseServed

\* advance.
LEMMA AdvanceServed ==
    ASSUME NEW st, Typed(st), Queues(st)
    PROVE  Served(SubIds, st, Advance(st))
<1> DEFINE a == [st EXCEPT !.sequence = @ + 1]
<1>1. Advance(st) \in {st, a, Close(st, "SequenceExhausted")}
  BY DEF Advance
<1>2. a.queue = st.queue /\ a.subs = st.subs
  BY DEF Typed, Fields
<1> HIDE DEF a
<1> QED BY <1>1, <1>2, SameServed, ExhaustedServed

\* settle forgets only subscribers whose queue ended.
LEMMA DropEndedServed ==
    ASSUME NEW st, Typed(st), Queues(st)
    PROVE  LET d == DropEnded(st) IN
           /\ Served(SubIds, st, d) /\ d.queue = st.queue /\ d.topics = st.topics
           /\ d.sessions = st.sessions /\ d.stopped = st.stopped
           /\ \A id \in SubIds : /\ d.subs[id].registered => ~Ended(d.queue[id])
                                 /\ d.subs[id].sessions = st.subs[id].sessions
                                 /\ d.subs[id].topics = st.subs[id].topics
<1> DEFINE ended == {id \in SubIds : Ended(st.queue[id])}
           d == DropEnded(st)
<1>1. /\ d.queue = st.queue /\ d.subs = Unregistered(st.subs, ended)
      /\ d.topics = st.topics /\ d.sessions = st.sessions /\ d.stopped = st.stopped
  BY DEF DropEnded, Typed, Fields
<1>2. st.subs \in [SubIds -> SubType]
  BY DEF Typed, WellTyped
<1>3. \A id \in SubIds : d.subs[id].registered <=> st.subs[id].registered /\ id \notin ended
  BY <1>1, <1>2, UnregisteredSubs
<1>4. \A id \in SubIds : /\ d.subs[id].sessions = st.subs[id].sessions
                         /\ d.subs[id].topics = st.subs[id].topics
  <2> HIDE DEF d, ended
  <2> QED BY <1>1, <1>2 DEF Unregistered, SubType
<1> HIDE DEF d
<1>5. Served(SubIds, st, d)
  BY <1>1, <1>3 DEF Served, Queues, Moved
<1> QED BY <1>1, <1>3, <1>4, <1>5 DEF d

\* Topics change, subscriptions do not.
LEMMA RewrittenServed ==
    ASSUME NEW st, Queues(st), NEW S, NEW p, Rewritten(st, S, p)
    PROVE  Served(SubIds, st, p) /\ Queues(p)
<1>1. p.queue = st.queue /\ p.subs = st.subs
  BY DEF Rewritten
<1>2. Served(SubIds, st, p)
  BY <1>1, SameServed
<1> QED BY <1>2 DEF Served

\* One round of settle.
LEMMA SettleOnceServed ==
    ASSUME NEW st0, Good(st0), Queues(st0)
    PROVE  Served(SubIds, st0, SettleOnce(st0))
<1> DEFINE st == DropEnded(st0)
           e == SettleOnce(st0)
<1>1. PICK S, p, us : Round(st, S, p, us, e)
  BY SettleOnceParts
<1>2. Served(SubIds, st0, st) /\ Queues(st)
  BY DropEndedServed DEF Good, Sound, Served
<1> HIDE DEF st, e
<1>3. Typed(p) /\ Len(us) \in Nat /\ Rewritten(st, S, p)
  BY <1>1 DEF Round, Good, Sound, AboutKeys
<1>4. Served(SubIds, st, p) /\ Queues(p)
  BY <1>2, <1>3, RewrittenServed
<1>5. e = Close(p, "SequenceExhausted") \/ e = Emit(p, us)
  BY <1>1 DEF Round
<1>6. Served(SubIds, p, e)
  BY <1>3, <1>4, <1>5, ExhaustedServed, EmitServed
<1>7. Served(SubIds, st, e)
  BY <1>4, <1>6, ServedTrans
<1>8. Served(SubIds, st0, e)
  BY <1>2, <1>7, ServedTrans
<1> QED BY <1>8 DEF e

\* settle.
LEMMA SettleServed ==
    ASSUME NEW st, Good(st), Queues(st)
    PROVE  Served(SubIds, st, Settle(st))
<1> DEFINE once == SettleOnce(st)
           twice == SettleOnce(once)
<1>1. Good(once) /\ Served(SubIds, st, once)
  BY SettleOnceGood, SettleOnceServed
<1>2. Settle(st) \in {once, twice}
  BY DEF Settle
<1> HIDE DEF once
<1>3. Served(SubIds, once, twice)
  BY <1>1, SettleOnceServed DEF Served
<1> HIDE DEF twice
<1>4. Served(SubIds, st, twice)
  BY <1>1, <1>3, ServedTrans
<1> QED BY <1>1, <1>2, <1>4

\* Emit and then settle, which ends most handlers.
LEMMA EmitSettleServed ==
    ASSUME NEW p, Typed(p), Queues(p), NEW us, Len(us) \in Nat, Good(Emit(p, us))
    PROVE  Served(SubIds, p, Settle(Emit(p, us)))
<1> DEFINE m == Emit(p, us)
           e == Settle(m)
<1>1. Served(SubIds, p, m) /\ Good(m)
  BY EmitServed
<1> HIDE DEF m
<1>2. Served(SubIds, m, e)
  BY <1>1, SettleServed DEF Served
<1> HIDE DEF e
<1>3. Served(SubIds, p, e)
  BY <1>1, <1>2, ServedTrans
<1> QED BY <1>3 DEF e, m

\* expire.
LEMMA ExpireServed ==
    ASSUME NEW st, Good(st), Queues(st), NEW due, due \subseteq ArmedKeys(st)
    PROVE  Served(SubIds, st, Expire(st, due))
<1> DEFINE e == Expire(st, due)
<1>1. PICK S, p, us : Lapsing(st, S, p, us, e)
  BY ExpireParts
<1> HIDE DEF e
<1>2. /\ Typed(p) /\ Good(p) /\ Len(us) \in Nat /\ Rewritten(st, S, p)
      /\ e = Close(p, "SequenceExhausted") \/ e = Settle(Emit(p, us))
  BY <1>1 DEF Lapsing, Good, Sound
<1>3. Served(SubIds, st, p) /\ Queues(p)
  BY <1>2, RewrittenServed
<1>4. Good(Emit(p, us))
  BY <1>2, EmitKeepsGood
<1>5. Served(SubIds, p, e)
  BY <1>2, <1>3, <1>4, ExhaustedServed, EmitSettleServed
<1>6. Served(SubIds, st, e)
  BY <1>3, <1>5, ServedTrans
<1> QED BY <1>6 DEF e

\* discard_poll.
LEMMA DiscardPollServed ==
    ASSUME NEW st, Good(st), Queues(st), NEW s, NEW ticket, DOMAIN ticket \subseteq Topics,
           NEW resets, NEW failed
    PROVE  Served(SubIds, st, DiscardPoll(st, s, ticket, resets, failed))
<1> DEFINE e == DiscardPoll(st, s, ticket, resets, failed)
           A == Affected(st, s, ticket, resets, failed)
<1>1. CASE ~HasTicket(st, s)
  BY <1>1, SameServed DEF DiscardPoll
<1>2. CASE HasTicket(st, s)
  <2>1. \/ e = Close(st, "SequenceExhausted")
        \/ \E p, us : Failing(st, s, A, resets, p, us, e)
    BY <1>2, DiscardParts
  <2>2. CASE e = Close(st, "SequenceExhausted")
    BY <2>2, ExhaustedServed DEF Good, Sound
  <2> HIDE DEF e, A
  <2>3. ASSUME NEW p, NEW us, Failing(st, s, A, resets, p, us, e)
        PROVE  Served(SubIds, st, e)
    <3>1. /\ Good(p) /\ Typed(p) /\ Len(us) \in Nat /\ Rewritten(st, {s} \X A, p)
          /\ e = Settle(Emit(p, us))
      BY <2>3 DEF Failing, Good, Sound
    <3>2. Served(SubIds, st, p) /\ Queues(p)
      BY <3>1, RewrittenServed
    <3>3. Good(Emit(p, us))
      BY <3>1, EmitKeepsGood
    <3>4. Served(SubIds, p, e)
      BY <3>1, <3>2, <3>3, EmitSettleServed
    <3> QED BY <3>2, <3>4, ServedTrans
  <2> QED BY <2>1, <2>2, <2>3 DEF e
<1> QED BY <1>1, <1>2

\* commit_poll.
LEMMA CommitPollServed ==
    ASSUME NEW st, Good(st), Queues(st), NEW s, NEW ticket, NEW batch \in Batches,
           NEW build, DOMAIN ticket \subseteq Topics
    PROVE  Served(SubIds, st, CommitPoll(st, s, ticket, batch, build))
<1> DEFINE outcome == CommitOutcome(st, s, ticket, batch, build)
           e == CommitPoll(st, s, ticket, batch, build)
<1>1. CASE outcome # "Committed"
  <2>1. e \in {st, Close(st, "SequenceExhausted")}
    BY <1>1 DEF CommitPoll
  <2>2. Typed(st)
    BY DEF Good, Sound
  <2> HIDE DEF e
  <2>3. Served(SubIds, st, e)
    BY <2>1, <2>2, SameServed, ExhaustedServed
  <2> QED BY <2>3 DEF e
<1>2. CASE outcome = "Committed"
  <2>1. e = Commit(st, s, batch, build)
    BY <1>2 DEF CommitPoll
  <2>2. \E p, us : Committing(st, s, batch, p, us, e)
    BY <1>2, <2>1, CommitParts
  <2> HIDE DEF e
  <2>3. PICK p, us : Committing(st, s, batch, p, us, e)
    BY <2>2
  <2>4. /\ Typed(p) /\ Len(us) \in Nat /\ Rewritten(st, {s} \X Touched(batch), p)
        /\ Good(Emit(p, us)) /\ e = Settle(Emit(p, us))
    BY <2>3 DEF Committing, Sound
  <2>5. Served(SubIds, st, p) /\ Queues(p)
    BY <2>4, RewrittenServed
  <2>6. Served(SubIds, p, e)
    BY <2>4, <2>5, EmitSettleServed
  <2>7. Served(SubIds, st, e)
    BY <2>5, <2>6, ServedTrans
  <2> QED BY <2>7 DEF e
<1> QED BY <1>1, <1>2

\* The end of a session finishes the subscriptions to it that it forgets.
LEMMA EndSessionsServed ==
    ASSUME NEW st, Good(st), Queues(st), ~st.stopped, NEW status, NEW E,
           E \subseteq st.sessions
    PROVE  Served(SubIds, st, EndSessions(st, status, E))
<1> DEFINE e == EndSessions(st, status, E)
<1>1. PICK own, us, left : Leaving(st, E, own, us, left, e)
  BY EndSessionsParts
<1> HIDE DEF e
<1> DEFINE p == Publish(st, us)
<1>2. /\ Typed(st) /\ Typed(left) /\ Len(us) \in Nat
      /\ left.subs = Unregistered(st.subs, own)
      /\ left.queue = [id \in SubIds |-> IF id \in own
                          THEN Finish(p.queue[id], "SessionEnded", FALSE)
                          ELSE p.queue[id]]
      /\ e = left \/ e = Close(left, "SequenceExhausted")
  BY <1>1 DEF Leaving, Good, Sound
<1>3. Served(SubIds, st, p)
  BY <1>2, PublishServed
<1> HIDE DEF p
<1>4. \A id \in SubIds : left.subs[id].registered <=> st.subs[id].registered /\ id \notin own
  BY <1>2, UnregisteredSubs DEF Typed, WellTyped
<1>5. ASSUME NEW id \in SubIds
      PROVE  /\ Moved(p.queue[id], left.queue[id])
             /\ id \in own => Ended(left.queue[id])
  <2> DEFINE q == p.queue[id]
             f == Finish(q, "SessionEnded", FALSE)
  <2>1. QueueOK(q) /\ "SessionEnded" \in Ends
    BY <1>3 DEF Served, Queues, Ends
  <2> HIDE DEF q
  <2>2. Moved(q, f) /\ Ended(f) /\ Moved(q, q)
    BY <2>1, FinishOK DEF Moved
  <2>3. left.queue[id] = IF id \in own THEN f ELSE q
    BY <1>2 DEF q
  <2> HIDE DEF f
  <2> QED BY <2>2, <2>3 DEF q
<1>6. Queues(left)
  BY <1>2, <1>5 DEF Queues, Moved
<1>7. \A id \in SubIds : Moved(st.queue[id], left.queue[id])
  BY <1>3, <1>5 DEF Served, Moved
<1>8. Served(SubIds, st, left)
  BY <1>4, <1>5, <1>6, <1>7 DEF Served
<1>9. e = Close(left, "SequenceExhausted") => Served(SubIds, left, e)
  BY <1>2, <1>6, ExhaustedServed
<1>10. Served(SubIds, st, e)
  BY <1>2, <1>8, <1>9, ServedTrans
<1> QED BY <1>10 DEF e

\* A new session.
LEMMA AddSessionServed ==
    ASSUME NEW st, Good(st), Queues(st), NEW s \in SessionIds
    PROVE  Served(SubIds, st, AddSession(st, s))
<1> DEFINE e == AddSession(st, s)
<1>1. \/ e = st
      \/ e = Close(st, "SequenceExhausted")
      \/ \E p, us : Joining(st, s, p, us, e)
  BY AddSessionParts
<1>2. Typed(st)
  BY DEF Good, Sound
<1> HIDE DEF e
<1>3. CASE e = st
  BY <1>3, SameServed DEF e
<1>4. CASE e = Close(st, "SequenceExhausted")
  BY <1>2, <1>4, ExhaustedServed DEF e
<1>5. ASSUME NEW p, NEW us, Joining(st, s, p, us, e) PROVE Served(SubIds, st, e)
  <2>1. /\ Typed(p) /\ Len(us) \in Nat /\ p.subs = st.subs /\ p.queue = st.queue
        /\ e = Emit(p, us)
    BY <1>5 DEF Joining, Good, Sound
  <2>2. Served(SubIds, st, p)
    BY <2>1, SameServed
  <2>3. Served(SubIds, p, e)
    BY <2>1, <2>2, EmitServed DEF Served
  <2> QED BY <2>2, <2>3, ServedTrans
<1> QED BY <1>1, <1>3, <1>4, <1>5 DEF e

\* The last step of sync_runtime settles a state a.
Synced(st, a, e) == Good(a) /\ Served(SubIds, st, a) /\ e = Settle(a)

\* sync_runtime up to its settle.
LEMMA SyncRuntimeParts ==
    ASSUME NEW st, Good(st), Queues(st), NEW status
    PROVE  LET e == SyncRuntime(st, status) IN
           e = st \/ \E a : Synced(st, a, e)
<1> DEFINE new == Observed(status) \ st.sessions
           E == st.sessions \ Observed(status)
           s == CHOOSE s \in new : TRUE
           ended == EndSessions(st, status, E)
           added == IF new = {} THEN ended ELSE AddSession(ended, s)
           p == [added EXCEPT !.runtime = status]
           a == Advance(p)
           e == SyncRuntime(st, status)
<1>1. CASE st.stopped \/ st.runtime = status
  BY <1>1 DEF SyncRuntime
<1>2. CASE ~(st.stopped \/ st.runtime = status)
  <2>1. e = Settle(a)
    BY <1>2 DEF SyncRuntime
  <2> HIDE DEF e
  <2>2. Good(ended) /\ Served(SubIds, st, ended)
    <3>1. E \subseteq st.sessions
      OBVIOUS
    <3> HIDE DEF E
    <3>2. Good(ended)
      BY <1>2, <3>1, EndSessionsGood
    <3> QED BY <1>2, <3>1, <3>2, EndSessionsServed
  <2>3. new # {} => s \in SessionIds
    BY DEF Observed
  <2> HIDE DEF ended, new, s
  <2>4. Queues(ended)
    BY <2>2 DEF Served
  <2>5. Good(added) /\ Served(SubIds, ended, added)
    <3>1. new # {} => Good(added) /\ Served(SubIds, ended, added)
      BY <2>2, <2>3, <2>4, AddSessionGood, AddSessionServed
    <3>2. new = {} => Good(added) /\ Served(SubIds, ended, added)
      BY <2>2, <2>4, SameServed
    <3> QED BY <3>1, <3>2
  <2> HIDE DEF added
  <2>6. /\ DOMAIN p = Fields /\ p.sequence = added.sequence /\ p.stopped = added.stopped
        /\ p.sessions = added.sessions /\ p.next = added.next /\ p.subs = added.subs
        /\ p.topics = added.topics /\ p.queue = added.queue
    BY <2>5 DEF Good, Sound, Typed, Fields
  <2> HIDE DEF p
  <2>7. Good(p) /\ Served(SubIds, added, p) /\ Queues(p)
    <3>1. added.sequence \in 0..MaxSequence /\ Queues(added)
      BY <2>5 DEF Good, Sound, Typed, WellTyped, Served
    <3>2. Good(p)
      BY <2>5, <2>6, <3>1, SameFields DEF Good, Sound
    <3>3. Served(SubIds, added, p)
      BY <2>6, <3>1, SameServed
    <3> QED BY <3>2, <3>3 DEF Served
  <2>8. Good(a) /\ Served(SubIds, p, a)
    <3>1. Good(a)
      BY <2>7, AdvanceGood
    <3> QED BY <2>7, <3>1, AdvanceServed DEF Good, Sound
  <2> HIDE DEF a
  <2>9. Served(SubIds, st, added)
    BY <2>2, <2>5, ServedTrans
  <2>10. Served(SubIds, st, p)
    BY <2>7, <2>9, ServedTrans
  <2>11. Served(SubIds, st, a)
    BY <2>8, <2>10, ServedTrans
  <2>12. Synced(st, a, e)
    BY <2>1, <2>8, <2>11 DEF Synced
  <2> QED BY <2>12 DEF e
<1> QED BY <1>1, <1>2

\* sync_runtime.
LEMMA SyncRuntimeServed ==
    ASSUME NEW st, Good(st), Queues(st), NEW status
    PROVE  Served(SubIds, st, SyncRuntime(st, status))
<1> DEFINE e == SyncRuntime(st, status)
<1>1. e = st \/ \E a : Synced(st, a, e)
  BY SyncRuntimeParts
<1> HIDE DEF e
<1>2. CASE e = st
  BY <1>2, SameServed DEF e
<1>3. ASSUME NEW a, Synced(st, a, e) PROVE Served(SubIds, st, e)
  <2>1. Good(a) /\ Queues(a) /\ Served(SubIds, st, a) /\ e = Settle(a)
    BY <1>3 DEF Synced, Served
  <2>2. Served(SubIds, a, e)
    BY <2>1, SettleServed
  <2> QED BY <2>1, <2>2, ServedTrans
<1> QED BY <1>1, <1>2, <1>3 DEF e

\* One subscriber is forgotten; what it is owed is its owner's business.
LEMMA UnregisterServed ==
    ASSUME NEW st, Good(st), Queues(st), NEW id \in SubIds
    PROVE  Served(SubIds \ {id}, st, Unregister(st, id))
<1> DEFINE u == Unregister(st, id)
<1>1. u.queue = st.queue /\ u.subs = Unregistered(st.subs, {id})
  BY DEF Unregister, Good, Sound, Typed, Fields
<1>2. \A x \in SubIds : u.subs[x].registered <=> st.subs[x].registered /\ x # id
  BY <1>1, UnregisteredSubs DEF Good, Sound, Typed, WellTyped
<1> HIDE DEF u
<1>3. Served(SubIds \ {id}, st, u)
  BY <1>1, <1>2 DEF Served, Moved, Queues
<1> QED BY <1>3 DEF u

---------------------------------------------------------------------------
(* Settle reaches its fixpoint. *)

\* Demand is what the registered subscribers ask for.
DemandMet(st) ==
    \A s \in st.sessions, t \in Topics :
        st.topics[s][t].demanded <=> Demands(st, s, t)

\* DemandExact of a state.
Exact(st) == DemandMet(st) /\ \A id \in Registered(st) : ~Ended(st.queue[id])

\* A stopped service demands nothing for nobody.
LEMMA StoppedExact ==
    ASSUME NEW st, Good(st), st.stopped
    PROVE  Exact(st)
<1>1. /\ Registered(st) = {}
      /\ \A s \in st.sessions, t \in Topics : ~st.topics[s][t].demanded
  BY DEF Good, Sound, Empty
<1> QED BY <1>1 DEF Exact, DemandMet, Demands

\* A state with the topics, the sessions and the subscribers of another one.
LEMMA SameDemand ==
    ASSUME NEW st, NEW e, e.sessions = st.sessions, e.topics = st.topics, e.subs = st.subs
    PROVE  /\ Registered(e) = Registered(st)
           /\ \A s, t : Demands(e, s, t) <=> Demands(st, s, t)
           /\ DemandMet(st) => DemandMet(e)
<1>1. Registered(e) = Registered(st)
  BY DEF Registered
<1>2. \A s, t : Demands(e, s, t) <=> Demands(st, s, t)
  BY <1>1 DEF Demands
<1>3. DemandMet(st) => DemandMet(e)
  BY <1>2 DEF DemandMet
<1> QED BY <1>1, <1>2, <1>3

\* One round: the service stopped, or demand is exact.  When nothing but withdrawals
\* was left to do, no queue of a registered subscriber ended either.
LEMMA SettleOnceExact ==
    ASSUME NEW st0, Good(st0), Queues(st0)
    PROVE  LET e == SettleOnce(st0) IN
           /\ DemandMet(e)
           /\ DemandMet(st0) => Exact(e)
<1> DEFINE st == DropEnded(st0)
           e == SettleOnce(st0)
<1>1. PICK S, p, us : Round(st, S, p, us, e)
  BY SettleOnceParts
<1>2. Good(e)
  BY SettleOnceGood
<1>3. /\ Served(SubIds, st0, st) /\ st.queue = st0.queue /\ st.topics = st0.topics
      /\ st.sessions = st0.sessions
      /\ \A id \in SubIds : /\ st.subs[id].registered => ~Ended(st.queue[id])
                            /\ st.subs[id].sessions = st0.subs[id].sessions
                            /\ st.subs[id].topics = st0.subs[id].topics
  BY DropEndedServed DEF Good, Sound
<1> HIDE DEF st, e
<1>4. CASE e.stopped
  BY <1>2, <1>4, StoppedExact DEF Exact, e
<1>5. CASE ~e.stopped
  <2>1. Good(p) /\ Typed(p) /\ Rewritten(st, S, p) /\ Len(us) \in Nat
    BY <1>1 DEF Round, AboutKeys, Good, Sound
  <2>2. Close(p, "SequenceExhausted").stopped
    BY <2>1, CloseGood DEF Good, Sound
  <2>3. /\ e = Emit(p, us) /\ AboutKeys(us, S)
        /\ \A s \in st.sessions, t \in Topics :
              p.topics[s][t].demanded <=> Demands(st, s, t)
    BY <1>1, <1>5, <2>2 DEF Round
  <2> DEFINE m == Publish(p, us)
  <2>4. e = m
    <3>1. /\ DOMAIN m = Fields /\ m.sequence \in p.sequence..MaxSequence
          /\ m.stopped = p.stopped /\ m.sessions = p.sessions /\ m.topics = p.topics
          /\ m.next = p.next /\ m.subs = p.subs
      BY <2>1, PublishFields
    <3>2. p.sequence \in Nat
      BY <2>1 DEF Typed, WellTyped
    <3>3. IF p.stopped THEN e = p ELSE e \in {m, Close(m, "SequenceExhausted")}
      BY <2>3 DEF Emit
    <3> HIDE DEF m
    <3>4. m.sequence \in 0..MaxSequence
      BY <3>1, <3>2, ConstantsAssumption
    <3>5. Typed(m) /\ Fresh(m)
      BY <2>1, <3>1, <3>4, SameFields DEF Good, Sound
    <3>6. Close(m, "SequenceExhausted").stopped
      BY <3>5, CloseGood
    <3> QED BY <1>5, <3>3, <3>6
  <2>5. /\ e.sessions = p.sessions /\ e.topics = p.topics /\ e.subs = p.subs
        /\ p.sessions = st.sessions /\ p.subs = st.subs /\ p.queue = st.queue
    BY <2>1, <2>4, PublishFields DEF Rewritten
  <2>6. DemandMet(e)
    <3>1. \A s, t : Demands(p, s, t) <=> Demands(st, s, t)
      BY <2>5 DEF Demands, Registered
    <3>2. DemandMet(p)
      BY <2>3, <2>5, <3>1 DEF DemandMet
    <3> QED BY <2>5, <3>2, SameDemand
  <2>7. ASSUME DemandMet(st0) PROVE Exact(e)
    <3>1. ASSUME NEW s \in SessionIds, NEW t \in Topics, <<s, t>> \in S
          PROVE  ~Demands(st, s, t)
      <4>1. SUFFICES ASSUME Demands(st, s, t) PROVE FALSE
        OBVIOUS
      <4>2. PICK id \in SubIds : st.subs[id].registered /\ Matches(st.subs[id], s, t)
        BY <4>1 DEF Demands, Registered
      <4>3. st0.subs[id].registered /\ Matches(st0.subs[id], s, t)
        BY <1>3, <4>2 DEF Served, Matches, MatchesSession
      <4>4. Demands(st0, s, t)
        BY <4>3 DEF Demands, Registered
      <4>5. s \in st.sessions /\ Demands(st, s, t) # st.topics[s][t].demanded
        BY <1>1, <3>1 DEF Round
      <4>6. st.topics[s][t].demanded \in BOOLEAN
        BY <1>1, TopicFields DEF Round, Good, Sound
      <4>7. st.topics[s][t].demanded
        BY <1>3, <2>7, <4>4, <4>5 DEF DemandMet
      <4>8. Demands(st, s, t) = TRUE /\ st.topics[s][t].demanded = TRUE
        BY <4>1, <4>6, <4>7 DEF Demands
      <4> QED BY <4>5, <4>8
    <3>2. ASSUME NEW id \in Registered(e) PROVE ~Ended(e.queue[id])
      <4>1. id \in SubIds /\ st.subs[id].registered
        BY <2>5 DEF Registered
      <4>2. ASSUME NEW i \in 1..Len(us), MatchesUpdate(p.subs[id], us[i]) PROVE FALSE
        <5> DEFINE s == us[i].session
                   t == us[i].topic
        <5>1. <<s, t>> \in S /\ us[i].kind \in {"TopicReset", "TopicChanged"}
          BY <2>3 DEF AboutKeys
        <5>2. s \in SessionIds /\ t \in Topics
          BY <1>1 DEF Round, AboutKeys, Keys
        <5>3. Matches(st.subs[id], s, t)
          BY <2>5, <4>2, <5>1 DEF MatchesUpdate, Matches, SessionUpdates
        <5> HIDE DEF s, t
        <5>4. Demands(st, s, t)
          BY <4>1, <5>3 DEF Demands, Registered
        <5> QED BY <3>1, <5>1, <5>2, <5>4
      <4>3. Queues(p)
        BY <1>3, <2>5 DEF Served, Queues
      <4>4. e.queue[id] = p.queue[id]
        BY <2>1, <2>4, <4>1, <4>2, <4>3, PublishServed
      <4> QED BY <1>3, <2>5, <4>1, <4>4
    <3> QED BY <2>6, <3>2 DEF Exact
  <2> QED BY <2>6, <2>7 DEF e
<1> QED BY <1>4, <1>5

\* settle, from any good state: two rounds are enough.
LEMMA SettleExact ==
    ASSUME NEW st, Good(st), Queues(st)
    PROVE  Exact(Settle(st))
<1> DEFINE once == SettleOnce(st)
           twice == SettleOnce(once)
<1>1. Good(once) /\ DemandMet(once)
  <2>1. Good(once)
    BY SettleOnceGood
  <2> QED BY <2>1, SettleOnceExact
<1>2. Queues(once)
  BY SettleOnceServed DEF Served
<1>3. Settle(st) = IF \E id \in Registered(once) : Ended(once.queue[id])
                   THEN twice ELSE once
  BY DEF Settle
<1> HIDE DEF once
<1>4. Exact(twice)
  BY <1>1, <1>2, SettleOnceExact
<1> HIDE DEF twice
<1> QED BY <1>1, <1>3, <1>4 DEF Exact

\* close, and emit followed by settle, are how the handlers end.
LEMMA HandlerExact ==
    ASSUME NEW p, Typed(p), Fresh(p), Queues(p), NEW us, Len(us) \in Nat
    PROVE  /\ \A end : Good(Close(p, end)) => Exact(Close(p, end))
           /\ Good(Emit(p, us)) => Exact(Settle(Emit(p, us)))
<1>1. ASSUME NEW end, Good(Close(p, end)) PROVE Exact(Close(p, end))
  BY <1>1, CloseGood, StoppedExact
<1>2. ASSUME Good(Emit(p, us)) PROVE Exact(Settle(Emit(p, us)))
  <2> DEFINE m == Emit(p, us)
  <2>1. Good(m) /\ Queues(m)
    BY <1>2, EmitServed DEF Served
  <2> HIDE DEF m
  <2>2. Exact(Settle(m))
    BY <2>1, SettleExact
  <2> QED BY <2>2 DEF m
<1> QED BY <1>1, <1>2

\* expire.
LEMMA ExpireExact ==
    ASSUME NEW st, Good(st), Queues(st), NEW due, due \subseteq ArmedKeys(st)
    PROVE  Exact(Expire(st, due))
<1> DEFINE e == Expire(st, due)
<1>1. PICK S, p, us : Lapsing(st, S, p, us, e)
  BY ExpireParts
<1>2. Good(e)
  BY ExpireGood
<1> HIDE DEF e
<1>3. /\ Good(p) /\ Typed(p) /\ Fresh(p) /\ Len(us) \in Nat /\ Rewritten(st, S, p)
      /\ e = Close(p, "SequenceExhausted") \/ e = Settle(Emit(p, us))
  BY <1>1 DEF Lapsing, Good, Sound
<1>4. Queues(p) /\ Good(Emit(p, us))
  <2>1. Queues(p)
    BY <1>3, RewrittenServed
  <2> QED BY <1>3, <2>1, EmitKeepsGood
<1>5. Exact(e)
  BY <1>2, <1>3, <1>4, HandlerExact
<1> QED BY <1>5 DEF e

\* discard_poll.
LEMMA DiscardPollExact ==
    ASSUME NEW st, Good(st), Queues(st), Exact(st), NEW s, NEW ticket,
           DOMAIN ticket \subseteq Topics, NEW resets, NEW failed
    PROVE  Exact(DiscardPoll(st, s, ticket, resets, failed))
<1> DEFINE e == DiscardPoll(st, s, ticket, resets, failed)
           A == Affected(st, s, ticket, resets, failed)
<1>1. CASE ~HasTicket(st, s)
  BY <1>1 DEF DiscardPoll
<1>2. CASE HasTicket(st, s)
  <2>1. \/ e = Close(st, "SequenceExhausted")
        \/ \E p, us : Failing(st, s, A, resets, p, us, e)
    BY <1>2, DiscardParts
  <2>2. Good(e)
    BY DiscardPollGood
  <2> HIDE DEF e, A
  <2>3. CASE e = Close(st, "SequenceExhausted")
    <3>1. e.stopped
      BY <2>3, CloseGood DEF Good, Sound
    <3> QED BY <2>2, <3>1, StoppedExact DEF e
  <2>4. ASSUME NEW p, NEW us, Failing(st, s, A, resets, p, us, e)
        PROVE  Exact(e)
    <3>1. /\ Good(p) /\ Typed(p) /\ Fresh(p) /\ Len(us) \in Nat
          /\ Rewritten(st, {s} \X A, p) /\ e = Settle(Emit(p, us))
      BY <2>4 DEF Failing, Good, Sound
    <3>2. Queues(p)
      BY <3>1, RewrittenServed
    <3>3. Good(Emit(p, us))
      BY <3>1, EmitKeepsGood
    <3> QED BY <3>1, <3>2, <3>3, HandlerExact
  <2> QED BY <2>1, <2>3, <2>4 DEF e
<1> QED BY <1>1, <1>2

\* commit_poll.
LEMMA CommitPollExact ==
    ASSUME NEW st, Good(st), Queues(st), Exact(st), NEW s, NEW ticket,
           NEW batch \in Batches, NEW build, DOMAIN ticket \subseteq Topics
    PROVE  Exact(CommitPoll(st, s, ticket, batch, build))
<1> DEFINE outcome == CommitOutcome(st, s, ticket, batch, build)
           e == CommitPoll(st, s, ticket, batch, build)
<1>0. Good(e)
  BY CommitPollGood
<1>1. CASE outcome # "Committed"
  <2>1. e = st \/ e = Close(st, "SequenceExhausted")
    BY <1>1 DEF CommitPoll
  <2>2. Close(st, "SequenceExhausted").stopped
    BY CloseGood DEF Good, Sound
  <2> HIDE DEF e
  <2>3. Exact(e)
    BY <1>0, <2>1, <2>2, StoppedExact
  <2> QED BY <2>3 DEF e
<1>2. CASE outcome = "Committed"
  <2>1. e = Commit(st, s, batch, build)
    BY <1>2 DEF CommitPoll
  <2>2. \E p, us : Committing(st, s, batch, p, us, e)
    BY <1>2, <2>1, CommitParts
  <2> HIDE DEF e
  <2>3. PICK p, us : Committing(st, s, batch, p, us, e)
    BY <2>2
  <2>4. /\ Typed(p) /\ Fresh(p) /\ Len(us) \in Nat
        /\ Rewritten(st, {s} \X Touched(batch), p)
        /\ Good(Emit(p, us)) /\ e = Settle(Emit(p, us))
    BY <2>3 DEF Committing, Sound
  <2>5. Queues(p)
    BY <2>4, RewrittenServed
  <2>6. Exact(e)
    BY <2>4, <2>5, HandlerExact
  <2> QED BY <2>6 DEF e
<1> QED BY <1>1, <1>2

\* sync_runtime.
LEMMA SyncRuntimeExact ==
    ASSUME NEW st, Good(st), Queues(st), Exact(st), NEW status
    PROVE  Exact(SyncRuntime(st, status))
<1> DEFINE e == SyncRuntime(st, status)
<1>1. e = st \/ \E a : Synced(st, a, e)
  BY SyncRuntimeParts
<1> HIDE DEF e
<1>2. ASSUME NEW a, Synced(st, a, e) PROVE Exact(e)
  BY <1>2, SettleExact DEF Synced, Served
<1> QED BY <1>1, <1>2 DEF e

---------------------------------------------------------------------------
(* subscribe. *)

\* The bootstrap is a list.
LEMMA CaptureList ==
    ASSUME NEW st, Typed(st), NEW sub, sub.topics \subseteq Topics
    PROVE  IsList(Capture(st, sub))
<1> DEFINE slots == {s \in st.sessions : MatchesSession(sub, s)}
                        \X ({SessionSlot} \cup sub.topics)
           Frame(k) ==
               IF k[2] = SessionSlot
               THEN [item |-> "Session", session |-> k[1], build |-> st.build[k[1]]]
               ELSE [item |-> "Topic", session |-> k[1], topic |-> k[2],
                     state |-> TopicState(st.topics[k[1]][k[2]])]
           body == PerKey(slots, Frame)
           begin == <<[item |-> "Begin", sequence |-> st.sequence]>>
           ready == <<[item |-> "Ready", sequence |-> st.sequence]>>
           n == Cardinality(slots)
<1>1. Capture(st, sub) = (begin \o body) \o ready
  BY DEF Capture
<1>2. n \in Nat
  <2> DEFINE A == {s \in st.sessions : MatchesSession(sub, s)}
             B == {SessionSlot} \cup sub.topics
  <2>1. A \in SUBSET SessionIds /\ sub.topics \in SUBSET Topics
    BY DEF Typed, WellTyped
  <2>2. IsFiniteSet(A) /\ IsFiniteSet(sub.topics)
    BY <2>1, FiniteKeys
  <2>3. IsFiniteSet({SessionSlot})
    BY FS_Singleton
  <2>4. IsFiniteSet(B)
    BY <2>2, <2>3, FS_Union
  <2> HIDE DEF A, B
  <2>5. IsFiniteSet(A \X B)
    BY <2>2, <2>4, FS_Product
  <2> QED BY <2>5, FS_CardinalityType DEF A, B
<1>3. body = [i \in 1..n |-> body[i]]
  BY DEF PerKey
<1>4. IsList(begin) /\ IsList(ready)
  BY Lists
<1> HIDE DEF n, body, begin, ready
<1>5. IsList(body)
  BY <1>2, <1>3, LenList DEF IsList
<1>6. IsList(begin \o body)
  BY <1>4, <1>5, Lists
<1>7. IsList((begin \o body) \o ready)
  BY <1>4, <1>6, Lists
<1> QED BY <1>1, <1>7

\* The reader of id has its terminal ahead of it or behind it, or its subscriber is
\* still registered.
Waits(st, id) == st.subs[id].registered \/ Ended(st.queue[id])

\* Serving leaves no reader behind.
LEMMA ServedWaits ==
    ASSUME NEW S \in SUBSET SubIds, NEW st, NEW e, Served(S, st, e)
    PROVE  \A id \in S : Waits(st, id) => Waits(e, id)
  BY DEF Served, Moved, Waits

\* subscribe: the others are served, the new reader gets a bootstrap only when its
\* subscriber is registered, and demand is exact with it or without it.
LEMMA AdmitServed ==
    ASSUME NEW st, Good(st), Queues(st), NEW sel \in Selections, Acceptable(st, sel)
    PROVE  LET id == st.next + 1
               e == Admit(st, sel) IN
           /\ Queues(e) /\ Exact(e)
           /\ \A x \in SubIds \ {id} : Waits(st, x) => Waits(e, x)
           /\ e.queue[id].initial # <<>> => e.subs[id].registered
<1> DEFINE id == st.next + 1
           sub == [registered |-> TRUE, active |-> FALSE,
                   sessions |-> sel.sessions, topics |-> sel.topics]
           p == [st EXCEPT !.next = id, !.subs[id] = sub, !.queue[id] = EmptyQueue]
           settled == Settle(p)
           frames == Capture(settled, sub)
           q == [settled EXCEPT !.subs[id].active = TRUE, !.queue[id].initial = frames]
           u == Unregister(settled, id)
           e == Admit(st, sel)
           S == SubIds \ {id}
<1>1. e = IF settled.subs[id].registered /\ Len(frames) <= InitialBudget
          THEN q ELSE Settle(u)
  BY DEF Admit
<1>2. id \in SubIds /\ id \in 0..MaxSubscription /\ ~st.stopped
  BY ConstantsAssumption DEF Acceptable, SubIds, Good, Sound, Typed, WellTyped
<1>3. sub \in SubType /\ sub.topics \subseteq Topics
  BY DEF SubType, Selections
<1> HIDE DEF id, sub, e
<1>4. /\ DOMAIN p = Fields /\ p.sequence = st.sequence /\ p.stopped = st.stopped
      /\ p.sessions = st.sessions /\ p.topics = st.topics /\ p.next = id
      /\ p.subs = [st.subs EXCEPT ![id] = sub]
      /\ p.queue = [st.queue EXCEPT ![id] = EmptyQueue]
  BY DEF Good, Sound, Typed, Fields
<1> HIDE DEF p
<1>5. Good(p)
  <2>1. p.subs \in [SubIds -> SubType]
    BY <1>3, <1>4 DEF Good, Sound, Typed, WellTyped
  <2> QED BY <1>2, <1>4, <2>1, SubsGood
<1>6. /\ p.queue = [x \in SubIds |-> p.queue[x]]
      /\ p.queue[id] = EmptyQueue
      /\ \A x \in S : p.queue[x] = st.queue[x] /\ p.subs[x] = st.subs[x]
  BY <1>2, <1>4 DEF Queues, Good, Sound, Typed, WellTyped
<1>7. Queues(p)
  BY <1>6, EmptyQueueOK DEF Queues
<1>8. Good(settled) /\ Served(SubIds, p, settled) /\ Exact(settled)
  <2>1. Good(settled)
    BY <1>5, SettleGood
  <2>2. Served(SubIds, p, settled)
    BY <1>5, <1>7, SettleServed
  <2> QED BY <1>5, <1>7, <2>1, <2>2, SettleExact
<1> HIDE DEF settled
<1>9. Queues(settled) /\ Typed(settled)
  BY <1>8 DEF Served, Good, Sound
<1>10. \A x \in S : Waits(st, x) => Waits(settled, x)
  <2>1. \A x \in S : Waits(st, x) => Waits(p, x)
    BY <1>6 DEF Waits
  <2> QED BY <1>8, <2>1, ServedWaits
<1>11. settled.queue[id].initial = <<>>
  BY <1>2, <1>6, <1>8, EmptyQueueOK DEF Served, Moved
<1>12. IsList(frames)
  BY <1>3, <1>9, CaptureList
<1> HIDE DEF frames
<1>13. CASE settled.subs[id].registered /\ Len(frames) <= InitialBudget
  <2>1. e = q
    BY <1>1, <1>13
  <2>2. /\ q.sessions = settled.sessions /\ q.topics = settled.topics
        /\ q.subs = [settled.subs EXCEPT ![id].active = TRUE]
        /\ q.queue = [settled.queue EXCEPT ![id].initial = frames]
    BY <1>9 DEF Typed, Fields
  <2> HIDE DEF q
  <2> DEFINE old == settled.queue[id]
             new == [old EXCEPT !.initial = frames]
  <2>3. QueueOK(old)
    BY <1>2, <1>9 DEF Queues
  <2>4. /\ DOMAIN new = {"initial", "updates", "terminal", "completed"}
        /\ new.initial = frames /\ new.updates = old.updates
        /\ new.terminal = old.terminal /\ new.completed = old.completed
    BY <2>3 DEF QueueOK
  <2>5. /\ q.queue[id] = new
        /\ q.queue = [x \in SubIds |-> q.queue[x]]
        /\ \A x \in S : q.queue[x] = settled.queue[x]
    BY <1>2, <1>9, <2>2 DEF Queues
  <2> HIDE DEF old, new
  <2>6. QueueOK(new) /\ (Ended(new) <=> Ended(old))
    BY <1>12, <1>13, <2>3, <2>4 DEF QueueOK, Ended
  <2>7. Queues(q)
    BY <1>9, <2>5, <2>6 DEF Queues
  <2>8. \A x \in SubIds : Ended(q.queue[x]) <=> Ended(settled.queue[x])
    BY <2>5, <2>6 DEF old
  <2>9. \A x \in SubIds : /\ q.subs[x].registered <=> settled.subs[x].registered
                          /\ q.subs[x].sessions = settled.subs[x].sessions
                          /\ q.subs[x].topics = settled.subs[x].topics
    BY <1>2, <1>9, <2>2 DEF Typed, WellTyped, SubType
  <2>10. Registered(q) = Registered(settled)
    BY <2>9 DEF Registered
  <2>11. \A s, t : Demands(q, s, t) <=> Demands(settled, s, t)
    BY <2>9, <2>10 DEF Demands, Matches, MatchesSession, Registered
  <2>12. Exact(q)
    BY <1>8, <2>2, <2>8, <2>10, <2>11 DEF Exact, DemandMet, Registered
  <2>13. \A x \in S : Waits(st, x) => Waits(q, x)
    BY <1>10, <2>8, <2>9 DEF Waits
  <2> QED BY <1>2, <1>13, <2>1, <2>7, <2>9, <2>12, <2>13 DEF e, id
<1>14. CASE ~(settled.subs[id].registered /\ Len(frames) <= InitialBudget)
  <2>1. e = Settle(u)
    BY <1>1, <1>14
  <2>2. Good(u) /\ Served(S, settled, u)
    <3>1. Good(u)
      BY <1>8, UnregisterGood
    <3> QED BY <1>2, <1>8, <1>9, <3>1, UnregisterServed
  <2> HIDE DEF u
  <2>3. Queues(u)
    BY <2>2 DEF Served
  <2>4. Served(SubIds, u, e)
    BY <2>1, <2>2, <2>3, SettleServed
  <2>5. Exact(e)
    BY <2>1, <2>2, <2>3, SettleExact
  <2>6. \A x \in S : Waits(settled, x) => Waits(e, x)
    BY <2>2, <2>4, ServedWaits
  <2>7. e.queue[id].initial = <<>>
    BY <1>2, <1>11, <2>2, <2>4 DEF Served, Moved
  <2>8. Queues(e)
    BY <2>4 DEF Served
  <2> QED BY <1>10, <2>5, <2>6, <2>7, <2>8 DEF e, id
<1> QED BY <1>13, <1>14

---------------------------------------------------------------------------
(* Retained snapshots. *)

\* The keys that hold a snapshot.
Retained(st) ==
    {k \in Keys : k[1] \in st.sessions /\ st.topics[k[1]][k[2]].snapshot # None}

RetainedFit(st) == Cardinality(Retained(st)) <= RetainedBudget

\* Fewer keys fit as well.
LEMMA FewerFit ==
    ASSUME NEW S \in SUBSET Keys, NEW T \in SUBSET S, Cardinality(S) <= RetainedBudget
    PROVE  Cardinality(T) <= RetainedBudget
<1>1. IsFiniteSet(S) /\ Cardinality(S) \in Nat /\ T \in SUBSET Keys
  BY FiniteKeys
<1>2. Cardinality(T) \in Nat
  BY <1>1, FiniteKeys
<1>3. Cardinality(T) <= Cardinality(S)
  BY <1>1, FS_Subset
<1> QED BY <1>1, <1>2, <1>3, ConstantsAssumption

\* A step that shows no data retains no more than before.
LEMMA SilentFit ==
    ASSUME NEW st, NEW e, Typed(e), RetainedFit(st), Silent(st, e), Bare(st, e)
    PROVE  RetainedFit(e)
<1>1. ASSUME NEW k \in Retained(e) PROVE k \in Retained(st)
  <2>1. /\ k \in Keys /\ k[1] \in SessionIds /\ k[2] \in Topics
        /\ k[1] \in e.sessions /\ e.topics[k[1]][k[2]].snapshot # None
    BY DEF Retained, Keys
  <2>2. k[1] \in st.sessions
    BY <2>1 DEF Bare
  <2>3. st.topics[k[1]][k[2]].snapshot # None
    BY <2>1 DEF Silent
  <2> QED BY <2>1, <2>2, <2>3 DEF Retained
<1>2. Retained(st) \in SUBSET Keys /\ Retained(e) \in SUBSET Retained(st)
  BY <1>1 DEF Retained
<1> QED BY <1>2, FewerFit DEF RetainedFit

\* The same for a calm step, which starts no session.
LEMMA CalmFit ==
    ASSUME NEW st, NEW e, Typed(e), RetainedFit(st), e.sessions = st.sessions, Silent(st, e)
    PROVE  RetainedFit(e)
  BY SilentFit DEF Bare

\* A commit retains what prepare counted: the snapshots of all sessions.
LEMMA CommitFit ==
    ASSUME NEW st, Good(st), NEW s, NEW ticket, NEW batch \in Batches, NEW build,
           DOMAIN ticket \subseteq Topics,
           CommitOutcome(st, s, ticket, batch, build) = "Committed"
    PROVE  RetainedFit(Commit(st, s, batch, build))
<1> DEFINE e == Commit(st, s, batch, build)
           A == RetainedAfter(st, s, batch)
<1>1. PICK p, us : Committing(st, s, batch, p, us, e)
  BY CommitParts
<1>2. Good(e)
  BY CommitGood
<1>3. Cardinality(A) <= RetainedBudget
  BY DEF CommitOutcome, Valid
<1> HIDE DEF e
<1>4. /\ Typed(p) /\ Len(us) \in Nat /\ Rewritten(st, {s} \X Touched(batch), p)
      /\ Good(Emit(p, us)) /\ e = Settle(Emit(p, us))
      /\ \A t \in Touched(batch) : Stores(st.topics[s][t], batch[t], p.topics[s][t])
  BY <1>1 DEF Committing, Sound
<1>5. ASSUME NEW k \in Retained(p) PROVE k \in A
  <2> DEFINE new == IF k[1] = s /\ batch[k[2]].touched
                    THEN Staged(st.topics[s][k[2]], batch[k[2]])
                    ELSE st.topics[k[1]][k[2]]
  <2>1. /\ k \in Keys /\ k[1] \in SessionIds /\ k[2] \in Topics
        /\ k[1] \in st.sessions /\ p.topics[k[1]][k[2]].snapshot # None
    BY <1>4, <1>5 DEF Retained, Keys, Rewritten
  <2>2. CASE k[1] = s /\ batch[k[2]].touched
    <3>1. k[2] \in Touched(batch)
      BY <2>1, <2>2 DEF Touched
    <3>2. Staged(st.topics[s][k[2]], batch[k[2]]).snapshot # None
      BY <1>4, <2>1, <2>2, <3>1 DEF Stores
    <3> QED BY <2>1, <2>2, <3>2 DEF RetainedAfter
  <2>3. CASE ~(k[1] = s /\ batch[k[2]].touched)
    <3>1. <<k[1], k[2]>> \notin {s} \X Touched(batch)
      BY <2>3 DEF Touched
    <3>2. p.topics[k[1]][k[2]] = st.topics[k[1]][k[2]]
      BY <1>4, <2>1, <3>1 DEF Rewritten
    <3> QED BY <2>1, <2>3, <3>2 DEF RetainedAfter
  <2> QED BY <2>2, <2>3
<1>6. A \in SUBSET Keys /\ Retained(p) \in SUBSET A
  BY <1>5 DEF RetainedAfter
<1> HIDE DEF A
<1>7. RetainedFit(p)
  BY <1>3, <1>6, FewerFit DEF RetainedFit
<1>8. Calm(p, e)
  BY <1>4, EmitSettleCalm
<1>9. RetainedFit(e)
  BY <1>2, <1>7, <1>8, CalmFit DEF Calm, Good, Sound
<1> QED BY <1>9 DEF e

\* commit_poll, whatever its outcome.
LEMMA CommitPollFit ==
    ASSUME NEW st, Good(st), RetainedFit(st), NEW s, NEW ticket, NEW batch \in Batches,
           NEW build, DOMAIN ticket \subseteq Topics
    PROVE  RetainedFit(CommitPoll(st, s, ticket, batch, build))
<1> DEFINE e == CommitPoll(st, s, ticket, batch, build)
<1>1. CASE CommitOutcome(st, s, ticket, batch, build) = "Committed"
  BY <1>1, CommitFit DEF CommitPoll
<1>2. CASE CommitOutcome(st, s, ticket, batch, build) # "Committed"
  <2>1. Calm(st, e) /\ Good(e)
    BY <1>2, CommitPollRises, CommitPollGood
  <2> HIDE DEF e
  <2>2. RetainedFit(e)
    BY <2>1, CalmFit DEF Calm, Good, Sound
  <2> QED BY <2>2 DEF e
<1> QED BY <1>1, <1>2

---------------------------------------------------------------------------
(* The inductive invariant and the actions. *)

\* Nobody reads under a number that was not given out, so that a new subscription
\* meets no old reader.
QueuesHold(st, readers) ==
    /\ Queues(st) /\ Exact(st) /\ RetainedFit(st)
    /\ readers \subseteq 1..st.next
    /\ \A id \in readers : Waits(st, id)

QInv == IInv /\ QueuesHold(inner, handles)

\* A handler that serves everyone, settles demand and shows no data it did not count.
LEMMA ServedHold ==
    ASSUME NEW st, NEW readers \in SUBSET SubIds, QueuesHold(st, readers),
           NEW e, Served(SubIds, st, e), Exact(e), RetainedFit(e), e.next = st.next
    PROVE  QueuesHold(e, readers)
<1>1. \A id \in SubIds : Waits(st, id) => Waits(e, id)
  BY ServedWaits
<1> QED BY <1>1 DEF QueuesHold, Served

\* The initial state.
LEMMA InitQueues == Init => QInv
<1> SUFFICES ASSUME Init PROVE QInv
  OBVIOUS
<1> DEFINE sub == [registered |-> FALSE, active |-> FALSE, sessions |-> All, topics |-> {}]
<1>1. IInv
  BY InitInv
<1>2. /\ inner.sessions = {} /\ inner.next = 0
      /\ inner.subs = [id \in SubIds |-> sub]
      /\ inner.queue = [id \in SubIds |-> EmptyQueue]
      /\ handles = {}
  BY DEF Init, InitialInner
<1>3. \A id \in SubIds : ~inner.subs[id].registered
  BY <1>2
<1>4. Queues(inner)
  BY <1>2, EmptyQueueOK DEF Queues
<1>5. Exact(inner)
  BY <1>2, <1>3 DEF Exact, DemandMet, Registered
<1>6. RetainedFit(inner)
  <2>1. Retained(inner) = {}
    BY <1>2 DEF Retained
  <2> QED BY <2>1, FS_EmptySet, ConstantsAssumption DEF RetainedFit
<1> QED BY <1>1, <1>2, <1>4, <1>5, <1>6 DEF QInv, QueuesHold

\* The lifecycle worker publishes.
LEMMA PublishQueues ==
    ASSUME QInv,
           \/ \E gone \in SUBSET Targets : PublishRetained(gone)
           \/ PublishDiscoveryFailed
           \/ \E gone \in SUBSET Targets : PublishDiscovered(gone)
           \/ \E p \in Targets : PublishAttaching(p)
           \/ \E p \in Targets, a \in {Retrying} \cup (SessionIds \ used) :
                 PublishAttached(p, a)
           \/ PublishRetired
    PROVE  QueuesHold(inner', handles')
<1>1. PICK targets, error : UpdateLifecycle(targets, error)
  BY DEF PublishRetained, PublishDiscoveryFailed, PublishDiscovered, PublishAttaching,
         PublishAttached, PublishRetired
<1> DEFINE status == [targets |-> targets, error |-> error]
           e == SyncRuntime(inner, status)
<1>2. inner' = e /\ handles' = handles
  BY <1>1 DEF UpdateLifecycle
<1>3. /\ Good(inner) /\ Queues(inner) /\ Exact(inner) /\ RetainedFit(inner)
      /\ handles \subseteq SubIds
  BY DEF QInv, IInv, QueuesHold
<1> HIDE DEF status
<1>4. Good(e) /\ e.next = inner.next
  BY <1>3, SyncRuntimeGood
<1>5. Served(SubIds, inner, e)
  BY <1>3, SyncRuntimeServed
<1>6. Exact(e)
  BY <1>3, SyncRuntimeExact
<1>7. Silent(inner, e) /\ Bare(inner, e)
  BY <1>3, SyncRuntimeRises
<1> HIDE DEF e
<1>8. RetainedFit(e)
  BY <1>3, <1>4, <1>7, SilentFit DEF Good, Sound
<1>9. QueuesHold(e, handles)
  BY <1>3, <1>4, <1>5, <1>6, <1>8, ServedHold DEF QInv
<1> QED BY <1>2, <1>9

\* A poll is discarded.
LEMMA DiscardQueues ==
    ASSUME QInv, NEW resets, NEW failed,
           inner' = DiscardPoll(inner, poll.session, poll.ticket, resets, failed),
           handles' = handles
    PROVE  QueuesHold(inner', handles')
<1> DEFINE e == DiscardPoll(inner, poll.session, poll.ticket, resets, failed)
<1>1. /\ Good(inner) /\ Queues(inner) /\ Exact(inner) /\ RetainedFit(inner)
      /\ handles \subseteq SubIds /\ DOMAIN poll.ticket \subseteq Topics
  BY DEF QInv, IInv, PollOK, QueuesHold
<1>2. Good(e) /\ e.next = inner.next
  BY <1>1, DiscardPollGood
<1>3. Served(SubIds, inner, e)
  BY <1>1, DiscardPollServed
<1>4. Exact(e)
  BY <1>1, DiscardPollExact
<1>5. Quiet(inner, e)
  BY <1>1, DiscardPollQuiet
<1>6. inner' = e
  OBVIOUS
<1> HIDE DEF e
<1>7. RetainedFit(e)
  BY <1>1, <1>2, <1>5, CalmFit DEF Quiet, Good, Sound
<1>8. QueuesHold(e, handles)
  BY <1>1, <1>2, <1>3, <1>4, <1>7, ServedHold DEF QInv
<1> QED BY <1>6, <1>8

\* The worker polls.
LEMMA PollQueues ==
    ASSUME QInv,
           \/ \E s \in SessionIds : StartPoll(s)
           \/ \E batch \in Batches, b \in Builds : CommitStep(batch, b)
           \/ DiscardRefused
           \/ \E resets \in SUBSET Topics : ProviderFails(resets)
           \/ VerificationFails
    PROVE  QueuesHold(inner', handles')
<1>0. /\ Good(inner) /\ Queues(inner) /\ Exact(inner) /\ RetainedFit(inner)
      /\ handles \subseteq SubIds /\ DOMAIN poll.ticket \subseteq Topics
  BY DEF QInv, IInv, PollOK, QueuesHold
<1>1. ASSUME inner' = inner, handles' = handles PROVE QueuesHold(inner', handles')
  BY <1>1 DEF QInv
<1>2. ASSUME NEW batch \in Batches, NEW b, CommitStep(batch, b)
      PROVE  QueuesHold(inner', handles')
  <2> DEFINE e == CommitPoll(inner, poll.session, poll.ticket, batch, b)
  <2>1. inner' = e /\ handles' = handles
    BY <1>2 DEF CommitStep
  <2>2. Good(e) /\ e.next = inner.next
    BY <1>0, CommitPollGood
  <2>3. Served(SubIds, inner, e)
    BY <1>0, CommitPollServed
  <2>4. Exact(e)
    BY <1>0, CommitPollExact
  <2>5. RetainedFit(e)
    BY <1>0, CommitPollFit
  <2> HIDE DEF e
  <2>6. QueuesHold(e, handles)
    BY <1>0, <2>2, <2>3, <2>4, <2>5, ServedHold DEF QInv
  <2> QED BY <2>1, <2>6
<1>3. ASSUME DiscardRefused \/ VerificationFails PROVE QueuesHold(inner', handles')
  BY <1>3, DiscardQueues DEF DiscardRefused, VerificationFails
<1> QED BY <1>1, <1>2, <1>3 DEF StartPoll, ProviderFails

\* Subscriptions come, are read and go.
LEMMA StreamQueues ==
    ASSUME QInv, NEW id \in SubIds, DropSubscription(id) \/ Receive(id)
    PROVE  QueuesHold(inner', handles')
<1>0. /\ Good(inner) /\ Queues(inner) /\ Exact(inner) /\ RetainedFit(inner)
      /\ handles \subseteq SubIds /\ handles \subseteq 1..inner.next
      /\ \A x \in handles : Waits(inner, x)
  BY DEF QInv, IInv, QueuesHold
<1>1. CASE DropSubscription(id)
  <2> DEFINE u == Unregister(inner, id)
             st == Settle(u)
             queue == [st.queue EXCEPT ![id] = EmptyQueue]
             e == [st EXCEPT !.queue = queue]
  <2>1. inner' = e /\ handles' = handles \ {id}
    BY <1>1 DEF DropSubscription
  <2>2. Good(u) /\ u.next = inner.next /\ Calm(inner, u)
    <3>1. u = [inner EXCEPT !.subs = Unregistered(inner.subs, {id})]
      BY DEF Unregister
    <3> QED BY <1>0, <3>1, UnregisterGood, SubsCalm
  <2>3. Served(SubIds \ {id}, inner, u)
    BY <1>0, UnregisterServed
  <2> HIDE DEF u
  <2>4. Queues(u) /\ RetainedFit(u)
    BY <1>0, <2>2, <2>3, CalmFit DEF Served, Calm, Good, Sound
  <2>5. Good(st) /\ st.next = inner.next
    BY <2>2, SettleGood
  <2>6. Served(SubIds, u, st) /\ Calm(u, st)
    BY <2>2, <2>4, SettleServed, SettleCalm
  <2>7. Exact(st)
    BY <2>2, <2>4, SettleExact
  <2> HIDE DEF st
  <2>8. RetainedFit(st) /\ Queues(st)
    BY <2>4, <2>5, <2>6, CalmFit DEF Served, Calm, Good, Sound
  <2>9. /\ e.queue = queue /\ e.subs = st.subs /\ e.sessions = st.sessions
        /\ e.topics = st.topics /\ e.next = st.next
    BY <2>5 DEF Good, Sound, Typed, Fields
  <2>10. /\ queue = [x \in SubIds |-> queue[x]] /\ queue[id] = EmptyQueue
         /\ \A x \in SubIds \ {id} : queue[x] = st.queue[x]
    BY <2>8 DEF Queues
  <2> HIDE DEF e, queue
  <2>11. Queues(e)
    BY <2>8, <2>9, <2>10, EmptyQueueOK DEF Queues
  <2>12. Registered(e) = Registered(st) /\ DemandMet(e)
    BY <2>7, <2>9, SameDemand DEF Exact
  <2>13. Exact(e)
    BY <2>7, <2>9, <2>10, <2>12, EmptyQueueOK DEF Exact, Registered
  <2>14. RetainedFit(e)
    BY <2>8, <2>9 DEF RetainedFit, Retained
  <2>15. \A x \in handles \ {id} : Waits(e, x)
    <3>1. \A x \in handles \ {id} : Waits(u, x)
      BY <1>0, <2>3, ServedWaits
    <3>2. \A x \in handles \ {id} : Waits(st, x)
      BY <1>0, <2>6, <3>1, ServedWaits
    <3> QED BY <1>0, <2>9, <2>10, <3>2 DEF Waits
  <2>16. handles \ {id} \subseteq 1..e.next
    BY <1>0, <2>5, <2>9
  <2>17. QueuesHold(e, handles \ {id})
    BY <2>11, <2>13, <2>14, <2>15, <2>16 DEF QueuesHold
  <2> QED BY <2>1, <2>17
<1>2. CASE Receive(id)
  <2> DEFINE old == inner.queue[id]
             new == PopRest(old)
             queue == [inner.queue EXCEPT ![id] = new]
             e == [inner EXCEPT !.queue = queue]
  <2>1. inner' = e /\ handles' = handles /\ CanPop(old)
    BY <1>2 DEF Receive
  <2>2. QueueOK(new) /\ (Ended(new) <=> Ended(old))
    <3>1. QueueOK(old)
      BY <1>0 DEF Queues
    <3> HIDE DEF old
    <3> QED BY <2>1, <3>1, PopOK
  <2> HIDE DEF new
  <2>3. /\ e.queue = queue /\ e.subs = inner.subs /\ e.sessions = inner.sessions
        /\ e.topics = inner.topics /\ e.next = inner.next
    BY <1>0 DEF Good, Sound, Typed, Fields
  <2>4. /\ queue = [x \in SubIds |-> queue[x]] /\ queue[id] = new
        /\ \A x \in SubIds \ {id} : queue[x] = inner.queue[x]
    BY <1>0 DEF Queues
  <2> HIDE DEF e, queue
  <2>5. Queues(e)
    BY <1>0, <2>2, <2>3, <2>4 DEF Queues
  <2>6. \A x \in SubIds : Ended(e.queue[x]) <=> Ended(inner.queue[x])
    BY <2>2, <2>3, <2>4 DEF old
  <2>7. Registered(e) = Registered(inner) /\ DemandMet(e)
    BY <1>0, <2>3, SameDemand DEF Exact
  <2>8. Exact(e)
    BY <1>0, <2>6, <2>7 DEF Exact, Registered
  <2>9. RetainedFit(e)
    BY <1>0, <2>3 DEF RetainedFit, Retained
  <2>10. \A x \in handles : Waits(e, x)
    BY <1>0, <2>3, <2>6 DEF Waits
  <2>11. QueuesHold(e, handles)
    BY <1>0, <2>3, <2>5, <2>8, <2>9, <2>10 DEF QueuesHold
  <2> QED BY <2>1, <2>11
<1> QED BY <1>1, <1>2

\* Requests, maintenance and shutdown.
LEMMA RequestQueues ==
    ASSUME QInv, Requests \/ \E id \in SubIds : Receive(id)
    PROVE  QueuesHold(inner', handles')
<1>0. /\ Good(inner) /\ Queues(inner) /\ Exact(inner) /\ RetainedFit(inner)
      /\ handles \subseteq SubIds /\ handles \subseteq 1..inner.next
      /\ \A x \in handles : Waits(inner, x)
  BY DEF QInv, IInv, QueuesHold
<1>1. ASSUME NEW due, due \subseteq ArmedKeys(inner)
      PROVE  LET st == Expire(inner, due) IN
             Good(st) /\ st.next = inner.next /\ QueuesHold(st, handles)
  <2> DEFINE st == Expire(inner, due)
  <2>1. Good(st) /\ st.next = inner.next
    BY <1>0, <1>1, ExpireGood
  <2>2. Served(SubIds, inner, st)
    BY <1>0, <1>1, ExpireServed
  <2>3. Exact(st)
    BY <1>0, <1>1, ExpireExact
  <2>4. Calm(inner, st)
    BY <1>0, <1>1, ExpireCalm
  <2> HIDE DEF st
  <2>5. RetainedFit(st)
    BY <1>0, <2>1, <2>4, CalmFit DEF Calm, Good, Sound
  <2>6. QueuesHold(st, handles)
    BY <1>0, <2>1, <2>2, <2>3, <2>5, ServedHold DEF QInv
  <2> QED BY <2>1, <2>6 DEF st
<1>2. ASSUME NEW due, ExpireStep(due) PROVE QueuesHold(inner', handles')
  BY <1>1, <1>2 DEF ExpireStep
<1>3. ASSUME NEW sel \in Selections, NEW due, Subscribe(sel, due)
      PROVE  QueuesHold(inner', handles')
  <2> DEFINE st == Expire(inner, due)
             e == Admit(st, sel)
             id == st.next + 1
  <2>1. /\ due \subseteq ArmedKeys(inner) /\ Acceptable(st, sel) /\ inner' = e
        /\ handles' = IF e.queue[e.next].initial = <<>> THEN handles
                      ELSE handles \cup {e.next}
    BY <1>3 DEF Subscribe
  <2>2. Good(st) /\ st.next = inner.next /\ QueuesHold(st, handles)
    BY <1>1, <2>1
  <2> HIDE DEF st
  <2>3. Good(e) /\ e.next = id /\ id \in SubIds
    BY <2>1, <2>2, AdmitGood
  <2>4. /\ Queues(e) /\ Exact(e)
        /\ \A x \in SubIds \ {id} : Waits(st, x) => Waits(e, x)
        /\ e.queue[id].initial # <<>> => e.subs[id].registered
    BY <2>1, <2>2, AdmitServed DEF QueuesHold
  <2>5. Calm(st, e)
    BY <2>1, <2>2, AdmitCalm
  <2> HIDE DEF e
  <2>6. RetainedFit(e)
    BY <2>2, <2>3, <2>5, CalmFit DEF QueuesHold, Calm, Good, Sound
  <2>7. inner.next \in Nat /\ id = inner.next + 1
    BY <1>0, <2>2 DEF Good, Sound, Typed, WellTyped
  <2>8. id \notin handles /\ handles \cup {id} \subseteq 1..e.next
    <3> DEFINE n == inner.next
    <3>1. handles \subseteq 1..n /\ n \in Nat /\ e.next = n + 1 /\ id = n + 1
      BY <1>0, <2>3, <2>7
    <3> HIDE DEF n, id
    <3> QED BY <3>1
  <2>9. \A x \in handles : Waits(e, x)
    BY <1>0, <2>2, <2>4, <2>8 DEF QueuesHold
  <2>10. \A x \in handles' : Waits(e, x)
    BY <2>1, <2>3, <2>4, <2>9 DEF Waits
  <2>11. handles' \subseteq 1..e.next
    BY <2>1, <2>3, <2>8
  <2>12. QueuesHold(e, handles')
    BY <2>4, <2>6, <2>10, <2>11 DEF QueuesHold
  <2> QED BY <2>1, <2>12
<1>4. ASSUME Shutdown PROVE QueuesHold(inner', handles')
  <2> DEFINE e == Close(inner, "ServiceStopped")
  <2>1. inner' = e /\ handles' = handles
    BY <1>4 DEF Shutdown
  <2>2. Typed(inner) /\ Fresh(inner) /\ Stamps(inner, inner.sequence)
        /\ "ServiceStopped" \in Ends
    BY <1>0 DEF Good, Sound, Ends
  <2>3. Good(e) /\ e.stopped /\ e.next = inner.next
    BY <2>2, CloseGood
  <2>4. Served(SubIds, inner, e)
    BY <1>0, <2>2, CloseServed
  <2>5. Calm(inner, e)
    BY <2>2, CloseCalm
  <2> HIDE DEF e
  <2>6. Exact(e)
    BY <2>3, StoppedExact
  <2>7. RetainedFit(e)
    BY <1>0, <2>3, <2>5, CalmFit DEF Calm, Good, Sound
  <2>8. QueuesHold(e, handles)
    BY <1>0, <2>3, <2>4, <2>6, <2>7, ServedHold DEF QInv
  <2> QED BY <2>1, <2>8
<1> QED BY <1>2, <1>3, <1>4, StreamQueues DEF Requests

\* The inductive invariant of the subscriptions.
LEMMA QueueInv == Spec => []QInv
<1>1. QInv /\ [Next]_vars => QInv'
  <2> SUFFICES ASSUME QInv, [Next]_vars PROVE QInv'
    OBVIOUS
  <2>1. IInv'
    BY NextInv DEF QInv
  <2>2. CASE Worker
    BY <2>1, <2>2, PublishQueues, PollQueues DEF Worker, QInv
  <2>3. CASE Requests \/ \E id \in SubIds : Receive(id)
    BY <2>1, <2>3, RequestQueues DEF QInv
  <2>4. CASE UNCHANGED vars
    BY <2>1, <2>4 DEF vars, QInv
  <2> QED BY <2>2, <2>3, <2>4 DEF Next
<1> QED BY <1>1, InitQueues, PTL DEF Spec

---------------------------------------------------------------------------
(* Results. *)

\* Demand is exact after every handler: for any number of sessions, topics and
\* subscribers, settle reaches its fixpoint although its own resets may overflow
\* queues, and no overflowed, ended or dropped subscription leaves demand behind.
THEOREM DemandHolds == Spec => []DemandExact
<1>1. QInv => DemandExact
  BY DEF QInv, QueuesHold, Exact, DemandMet, DemandExact
<1> QED BY <1>1, QueueInv, PTL

\* No reader is stranded: whichever handler forgets a subscriber, and in whatever
\* order lag, the end of its session, a refused bootstrap, shutdown and exhausted
\* numbers meet, its stream finds a terminal in the queue or has received it.
THEOREM ReadersHold == Spec => []NoStrandedReader
<1>1. QInv => NoStrandedReader
  BY DEF QInv, QueuesHold, Waits, NoStrandedReader
<1> QED BY <1>1, QueueInv, PTL

\* Memory is bounded: every queue stays within the budgets offer and subscribe check,
\* and the snapshots of all sessions together within the one commit_poll checks.
THEOREM BudgetsHold == Spec => []WithinBudgets
<1>1. QInv => WithinBudgets
  BY DEF QInv, QueuesHold, Queues, QueueOK, RetainedFit, Retained, WithinBudgets
<1> QED BY <1>1, QueueInv, PTL

=============================================================================
