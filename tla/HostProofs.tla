----------------------------- MODULE HostProofs -----------------------------
(***************************************************************************)
(* Proofs about Host for every value of its constants: the provider's      *)
(* state always belongs to the generation its output is fenced with, no    *)
(* lifetime is begun twice, and the worker never sleeps through a change   *)
(* of demand.  Then proofs about the Lifecycle of the worker itself: it    *)
(* sleeps only when all it knows is published, and drops no attachment     *)
(* that works.                                                             *)
(***************************************************************************)
EXTENDS Host, Sequences, FiniteSetTheorems, TLAPS

Polling == pc \in {"verify", "provider", "verifyAgain", "commit", "discard"}

\* Every reset moves both counters, everything else stays below MaxEpoch.
Fence(x) ==
    /\ x.generation \in 0..MaxGeneration /\ x.epoch \in Nat
    /\ x.epoch <= MaxEpoch + x.generation

IsTicket(x) ==
    /\ DOMAIN x \subseteq Topics
    /\ x \in [DOMAIN x -> [generation : Nat, epoch : Nat]]
    /\ \A t \in DOMAIN x : Fence(x[t])

TopicsInv ==
    /\ topic \in [Topics -> [demanded : BOOLEAN, generation : Nat, epoch : Nat]]
    /\ \A t \in Topics : Fence(topic[t])

WorkerInv ==
    /\ revision \in Nat /\ seen \in Nat /\ seen <= revision
    /\ stopped \in BOOLEAN /\ attached \in BOOLEAN
    /\ pc \in {"top", "poll", "verify", "provider", "verifyAgain", "commit", "discard",
               "wait", "asleep"}
    /\ begun \subseteq Topics

HostInv ==
    /\ DOMAIN host = {"lastDemand", "generations", "nextPoll"}
    /\ host.lastDemand # NoTicket => IsTicket(host.lastDemand)
    /\ host.generations # NoTicket => IsTicket(host.generations)
    /\ host.nextPoll \in {"None", "Later", "Due"}

\* The ticket is there exactly while a poll is under way, and its generations are
\* never ahead of the service's.
PollInv ==
    /\ ~Polling => ticket = NoTicket /\ result = NoResult
    /\ Polling => /\ attached
                  /\ IsTicket(ticket)
                  /\ \A t \in DOMAIN ticket : ticket[t].generation <= topic[t].generation
    /\ pc \in {"provider", "verifyAgain", "commit", "discard"} => host.generations = ticket
    /\ pc = "commit" => host.lastDemand = ticket /\ result.schedule # "Failed"
    /\ result.resets \subseteq Topics
    /\ Polling => result.resets \subseteq DOMAIN ticket
    /\ result.schedule \in {"None", "Later", "Failed"}

\* The provider was never told of t, or of an earlier lifetime only.
Unbegun(t) == baseline[t] = MaxGeneration + 1 \/ baseline[t] < topic[t].generation

\* What the host remembers is what the provider was told; a demanded topic that
\* the remembered ticket does not have is in a lifetime of its own.
BaselineInv ==
    /\ baseline \in [Topics -> 0..(MaxGeneration + 1)]
    /\ \A t \in Topics : baseline[t] = MaxGeneration + 1 \/ baseline[t] <= topic[t].generation
    /\ host.generations = NoTicket => baseline = NoBaseline
    /\ host.generations # NoTicket =>
          \A t \in Topics :
             IF t \in DOMAIN host.generations
             THEN baseline[t] = host.generations[t].generation
             ELSE topic[t].demanded => Unbegun(t)

\* The same for the ticket of the poll under way: the topics it lacks, and those
\* it will begin.
TicketInv ==
    /\ Polling => \A t \in Topics \ DOMAIN ticket : topic[t].demanded => Unbegun(t)
    /\ pc = "verify" /\ host.generations # NoTicket =>
          \A t \in DOMAIN ticket \ DOMAIN host.generations :
             baseline[t] = MaxGeneration + 1 \/ baseline[t] < ticket[t].generation

\* Unless the revision moved since the worker read it, the demand is the one the
\* poll was made for.
SleepInv ==
    /\ Polling /\ revision = seen /\ ~stopped => SameDemand(Current, ticket)
    /\ pc = "wait" /\ attached /\ revision = seen /\ ~stopped
           => SameDemand(Current, host.lastDemand)
    /\ pc = "asleep" /\ attached => SameDemand(Current, host.lastDemand)

IInv == TopicsInv /\ WorkerInv /\ HostInv /\ PollInv /\ BaselineInv /\ TicketInv /\ SleepInv

-----------------------------------------------------------------------------
(* Tickets. *)

\* A ticket is not None.
LEMMA TicketSome == \A x : IsTicket(x) => x # NoTicket
  BY TicketAssumption DEF IsTicket

Counters(tp) ==
    /\ tp \in [Topics -> [demanded : BOOLEAN, generation : Nat, epoch : Nat]]
    /\ \A t \in Topics : Fence(tp[t])

\* The demanded topics of tp under their fences.
TicketOf(tp) ==
    [t \in {u \in Topics : tp[u].demanded} |->
        [generation |-> tp[t].generation, epoch |-> tp[t].epoch]]

\* PollTicket::current is a ticket of the demanded topics.
LEMMA TicketOfIsTicket ==
    ASSUME NEW tp, Counters(tp)
    PROVE  /\ DOMAIN TicketOf(tp) = {t \in Topics : tp[t].demanded}
           /\ \A t \in DOMAIN TicketOf(tp) : TicketOf(tp)[t].generation = tp[t].generation
           /\ IsTicket(TicketOf(tp))
<1> DEFINE c == TicketOf(tp)
<1>0. DOMAIN c = {t \in Topics : tp[t].demanded}
  BY DEF TicketOf
<1>1. \A t \in DOMAIN c : c[t] = [generation |-> tp[t].generation, epoch |-> tp[t].epoch]
  BY DEF TicketOf
<1>2. c = [t \in DOMAIN c |-> c[t]]
  BY DEF TicketOf
<1> HIDE DEF c
<1>3. \A t \in DOMAIN c :
        /\ c[t] \in [generation : Nat, epoch : Nat]
        /\ c[t].generation = tp[t].generation
        /\ Fence(c[t])
  <2> TAKE t \in DOMAIN c
  <2>1. /\ tp[t] \in [demanded : BOOLEAN, generation : Nat, epoch : Nat]
        /\ Fence(tp[t])
    BY <1>0 DEF Counters
  <2>2. tp[t].generation \in Nat /\ tp[t].epoch \in Nat
    BY <2>1
  <2>3. /\ c[t] \in [generation : Nat, epoch : Nat]
        /\ c[t].generation = tp[t].generation /\ c[t].epoch = tp[t].epoch
    BY <1>1, <2>2
  <2> QED BY <2>1, <2>3 DEF Fence
<1>4. c \in [DOMAIN c -> [generation : Nat, epoch : Nat]]
  BY <1>2, <1>3
<1> QED BY <1>0, <1>3, <1>4 DEF IsTicket, c

\* The same for the service's topics.
LEMMA CurrentIsTicket ==
    ASSUME TopicsInv
    PROVE  /\ DOMAIN Current = {t \in Topics : topic[t].demanded}
           /\ \A t \in DOMAIN Current : Current[t].generation = topic[t].generation
           /\ IsTicket(Current)
<1>1. Current = TicketOf(topic) /\ Counters(topic)
  BY DEF Current, TicketOf, TopicsInv, Counters
<1> QED BY <1>1, TicketOfIsTicket

\* The same for the topics a step leaves.
LEMMA NextIsTicket ==
    ASSUME TopicsInv'
    PROVE  /\ DOMAIN Current' = {t \in Topics : topic'[t].demanded}
           /\ \A t \in DOMAIN Current' : Current'[t].generation = topic'[t].generation
           /\ IsTicket(Current')
<1>1. Current' = TicketOf(topic') /\ Counters(topic')
  BY DEF Current, TicketOf, TopicsInv, Counters, Fence
<1> QED BY <1>1, TicketOfIsTicket

\* rebase_resets moves the generations of the resets by one.
LEMMA RebaseIsTicket ==
    ASSUME NEW x, IsTicket(x), NEW resets,
           \A t \in resets \cap DOMAIN x : x[t].generation # MaxGeneration
    PROVE  LET r == RebaseResets(x, resets) IN
           /\ IsTicket(r) /\ DOMAIN r = DOMAIN x
           /\ \A t \in DOMAIN x :
                 r[t].generation = IF t \in resets THEN x[t].generation + 1
                                   ELSE x[t].generation
<1> DEFINE r == RebaseResets(x, resets)
           next(t) == [generation |-> x[t].generation + 1, epoch |-> x[t].epoch + 1]
<1>1. r = [t \in DOMAIN x |-> IF t \in resets THEN next(t) ELSE x[t]]
  BY TicketSome DEF RebaseResets
<1>2. \A t \in DOMAIN x :
        /\ x[t] \in [generation : Nat, epoch : Nat] /\ Fence(x[t])
        /\ t \in resets => next(t) \in [generation : Nat, epoch : Nat] /\ Fence(next(t))
        /\ next(t).generation = x[t].generation + 1
  BY BoundsAssumption DEF IsTicket, Fence
<1> HIDE DEF r, next
<1>3. DOMAIN r = DOMAIN x /\ \A t \in DOMAIN x : r[t] = IF t \in resets THEN next(t) ELSE x[t]
  BY <1>1
<1>4. r \in [DOMAIN r -> [generation : Nat, epoch : Nat]]
  BY <1>1, <1>2, <1>3
<1>5. \A t \in DOMAIN r : Fence(r[t])
  BY <1>2, <1>3
<1> QED BY <1>2, <1>3, <1>4, <1>5 DEF IsTicket, r

-----------------------------------------------------------------------------
(* The initial state and the actions. *)

\* Nothing is demanded and no poll was made.
LEMMA InitInv == Init => IInv
<1> SUFFICES ASSUME Init PROVE IInv
  OBVIOUS
<1> USE DEF Init
<1>1. TopicsInv
  <2> DEFINE first == [demanded |-> FALSE, generation |-> 0, epoch |-> 0]
  <2>1. first \in [demanded : BOOLEAN, generation : Nat, epoch : Nat] /\ Fence(first)
    BY BoundsAssumption DEF Fence
  <2>2. topic = [t \in Topics |-> first]
    OBVIOUS
  <2> HIDE DEF first
  <2>3. \A t \in Topics : topic[t] = first
    BY <2>2
  <2>4. topic \in [Topics -> [demanded : BOOLEAN, generation : Nat, epoch : Nat]]
    BY <2>1, <2>2
  <2> QED BY <2>1, <2>3, <2>4 DEF TopicsInv
<1>2. WorkerInv
  <2>1. revision \in Nat /\ seen \in Nat /\ seen <= revision
    OBVIOUS
  <2> QED BY <2>1 DEF WorkerInv
<1>3. /\ HostInv /\ host.generations = NoTicket
  BY DEF HostInv, NewHost
<1>4. PollInv
  BY DEF PollInv, Polling, NoResult
<1>5. BaselineInv
  BY <1>3, BoundsAssumption DEF BaselineInv, NoBaseline
<1>6. TicketInv /\ SleepInv
  BY DEF TicketInv, SleepInv, Polling
<1> QED BY <1>1, <1>2, <1>3, <1>4, <1>5, <1>6 DEF IInv

\* Subscribers, expiry and shutdown: whatever they do to the demand, they move the
\* revision, and new demand has a new generation.
LEMMA ServiceStep ==
    ASSUME IInv, TopicsInv', revision' = revision + 1, NotifyAll, stopped' \in BOOLEAN,
           \A t \in Topics : /\ topic'[t].generation >= topic[t].generation
                             /\ ~topic[t].demanded /\ topic'[t].demanded
                                    => topic'[t].generation > topic[t].generation,
           UNCHANGED <<seen, attached, host, ticket, result, baseline, begun>>
    PROVE  IInv'
<1> USE DEF IInv
<1>1. /\ Polling' <=> Polling
      /\ pc' # "asleep"
      /\ \A x \in {"verify", "provider", "verifyAgain", "commit", "discard"} : pc' = x <=> pc = x
      /\ WorkerInv'
  BY DEF NotifyAll, WorkerInv, Polling
<1>2. HostInv'
  BY DEF HostInv, IsTicket, Fence
<1>3. \A t \in Topics : topic[t].generation \in Nat /\ topic'[t].generation \in Nat
  BY DEF TopicsInv
<1>4. PollInv'
  <2>1. \A t \in DOMAIN ticket : Polling => ticket[t].generation \in Nat
    BY DEF PollInv, IsTicket, Fence
  <2>2. Polling => DOMAIN ticket \subseteq Topics
    BY DEF PollInv, IsTicket
  <2>3. Polling' => \A t \in DOMAIN ticket' : ticket'[t].generation <= topic'[t].generation
    BY <1>1, <1>3, <2>1, <2>2 DEF PollInv
  <2>4. Polling' => attached' /\ IsTicket(ticket)'
    BY <1>1 DEF PollInv, IsTicket, Fence
  <2> QED BY <1>1, <2>3, <2>4 DEF PollInv
<1>5. \A t \in Topics : baseline[t] \in Nat
  BY BoundsAssumption DEF BaselineInv
<1>6. \A t \in Topics :
        /\ baseline[t] = MaxGeneration + 1 \/ baseline[t] <= topic'[t].generation
        /\ (topic[t].demanded => Unbegun(t)) => (topic'[t].demanded => Unbegun(t)')
  BY <1>3, <1>5, BoundsAssumption DEF BaselineInv, Unbegun
<1>7. BaselineInv'
  BY <1>6 DEF BaselineInv, NoBaseline
<1>8. TicketInv'
  BY <1>1, <1>6 DEF TicketInv
<1>9. SleepInv'
  BY <1>1 DEF SleepInv, WorkerInv
<1> QED BY <1>1, <1>2, <1>4, <1>7, <1>8, <1>9

\* Closing withdraws every demand and moves no counter.
LEMMA ClosedTopics ==
    ASSUME TopicsInv, topic' = Closed
    PROVE  /\ TopicsInv'
           /\ \A t \in Topics : topic'[t].generation = topic[t].generation /\ ~topic'[t].demanded
<1>1. \A t \in Topics :
        /\ topic'[t] \in [demanded : BOOLEAN, generation : Nat, epoch : Nat]
        /\ topic'[t].generation = topic[t].generation /\ topic'[t].epoch = topic[t].epoch
        /\ topic'[t].demanded = FALSE
  BY DEF Closed, TopicsInv
<1>2. topic' \in [Topics -> [demanded : BOOLEAN, generation : Nat, epoch : Nat]]
  BY <1>1 DEF Closed
<1>3. \A t \in Topics : Fence(topic'[t])
  BY <1>1 DEF TopicsInv, Fence
<1> QED BY <1>1, <1>2, <1>3 DEF TopicsInv, Fence

\* One topic gets new counters.
LEMMA OneTopic ==
    ASSUME TopicsInv, NEW u \in Topics,
           NEW c \in [demanded : BOOLEAN, generation : Nat, epoch : Nat], Fence(c),
           topic' = [topic EXCEPT ![u] = c]
    PROVE  /\ TopicsInv'
           /\ \A t \in Topics : topic'[t] = IF t = u THEN c ELSE topic[t]
<1>1. \A t \in Topics : topic'[t] = IF t = u THEN c ELSE topic[t]
  BY DEF TopicsInv
<1>2. topic' \in [Topics -> [demanded : BOOLEAN, generation : Nat, epoch : Nat]]
  BY DEF TopicsInv
<1>3. \A t \in Topics : Fence(topic'[t])
  BY <1>1 DEF TopicsInv
<1> QED BY <1>1, <1>2, <1>3 DEF TopicsInv, Fence

\* subscribe and drop.
LEMMA ChangeDemandInv ==
    ASSUME IInv, NEW u \in Topics, ChangeDemand(u)
    PROVE  IInv'
<1> DEFINE c == Flipped(u)
<1>1. /\ TopicsInv /\ stopped \in BOOLEAN
      /\ topic[u] \in [demanded : BOOLEAN, generation : Nat, epoch : Nat]
      /\ Fence(topic[u]) /\ topic[u].epoch < MaxEpoch
  BY DEF IInv, TopicsInv, WorkerInv, ChangeDemand
<1>2. CASE ~topic[u].demanded /\ topic[u].generation = MaxGeneration
  <2>1. topic' = Closed /\ stopped' = TRUE
    BY <1>2 DEF ChangeDemand
  <2>2. TopicsInv' /\ \A t \in Topics : /\ topic'[t].generation >= topic[t].generation
                                        /\ ~topic'[t].demanded
    <3>1. \A t \in Topics : topic[t].generation \in Nat
      BY <1>1 DEF TopicsInv
    <3> QED BY <1>1, <2>1, <3>1, ClosedTopics
  <2> QED BY <2>1, <2>2, ServiceStep DEF ChangeDemand
<1>3. CASE ~(~topic[u].demanded /\ topic[u].generation = MaxGeneration)
  <2>1. topic' = [topic EXCEPT ![u] = c] /\ stopped' = stopped
    BY <1>3 DEF ChangeDemand
  <2>2. /\ c.demanded = ~topic[u].demanded /\ c.epoch = topic[u].epoch + 1
        /\ c.generation = IF topic[u].demanded THEN topic[u].generation
                          ELSE topic[u].generation + 1
        /\ c \in [demanded : BOOLEAN, generation : Nat, epoch : Nat]
    <3> DEFINE d == ~topic[u].demanded
               g == IF topic[u].demanded THEN topic[u].generation ELSE topic[u].generation + 1
               e == topic[u].epoch + 1
    <3>1. d \in BOOLEAN /\ g \in Nat /\ e \in Nat
      BY <1>1
    <3>2. c = [topic[u] EXCEPT !.demanded = d, !.epoch = e, !.generation = g]
      BY DEF Flipped
    <3> HIDE DEF c, d, g, e
    <3>3. /\ c.demanded = d /\ c.epoch = e /\ c.generation = g
          /\ c \in [demanded : BOOLEAN, generation : Nat, epoch : Nat]
      BY <1>1, <3>1, <3>2
    <3> QED BY <3>3 DEF d, g, e
  <2> HIDE DEF c
  <2>3. Fence(c)
    BY <1>1, <1>3, <2>2, BoundsAssumption DEF Fence
  <2>4. TopicsInv' /\ \A t \in Topics : topic'[t] = IF t = u THEN c ELSE topic[t]
    BY <1>1, <2>1, <2>2, <2>3, OneTopic
  <2>5. \A t \in Topics : /\ topic'[t].generation >= topic[t].generation
                          /\ ~topic[t].demanded /\ topic'[t].demanded
                                 => topic'[t].generation > topic[t].generation
    <3>1. \A t \in Topics : topic[t].generation \in Nat
      BY <1>1 DEF TopicsInv
    <3> QED BY <1>1, <2>2, <2>4, <3>1
  <2> QED BY <1>1, <2>1, <2>4, <2>5, ServiceStep DEF ChangeDemand
<1> QED BY <1>2, <1>3

\* expire.
LEMMA ExpireInv ==
    ASSUME IInv, NEW u \in Topics, Expire(u)
    PROVE  IInv'
<1> DEFINE c == [topic[u] EXCEPT !.epoch = @ + 1]
<1>1. /\ TopicsInv /\ stopped \in BOOLEAN
      /\ topic[u] \in [demanded : BOOLEAN, generation : Nat, epoch : Nat]
      /\ Fence(topic[u]) /\ topic[u].epoch < MaxEpoch
  BY DEF IInv, TopicsInv, WorkerInv, Expire
<1>2. /\ c.demanded = topic[u].demanded /\ c.epoch = topic[u].epoch + 1
      /\ c.generation = topic[u].generation
      /\ c \in [demanded : BOOLEAN, generation : Nat, epoch : Nat]
  BY <1>1
<1>3. topic' = [topic EXCEPT ![u] = c]
  BY DEF Expire
<1> HIDE DEF c
<1>4. Fence(c)
  BY <1>1, <1>2, BoundsAssumption DEF Fence
<1>5. TopicsInv' /\ \A t \in Topics : topic'[t] = IF t = u THEN c ELSE topic[t]
  BY <1>1, <1>2, <1>3, <1>4, OneTopic
<1>6. \A t \in Topics : /\ topic'[t].generation >= topic[t].generation
                        /\ ~topic[t].demanded /\ topic'[t].demanded
                               => topic'[t].generation > topic[t].generation
  <2>1. \A t \in Topics : topic[t].generation \in Nat
    BY <1>1 DEF TopicsInv
  <2> QED BY <1>1, <1>2, <1>5, <2>1
<1> QED BY <1>1, <1>5, <1>6, ServiceStep DEF Expire

\* shutdown.
LEMMA ShutdownInv ==
    ASSUME IInv, Shutdown
    PROVE  IInv'
<1>1. TopicsInv' /\ \A t \in Topics : /\ topic'[t].generation >= topic[t].generation
                                      /\ ~topic'[t].demanded
  <2>1. \A t \in Topics : topic[t].generation \in Nat
    BY DEF IInv, TopicsInv
  <2> QED BY <2>1, ClosedTopics DEF IInv, Shutdown
<1> QED BY <1>1, ServiceStep DEF Shutdown

\* While the service stands still, so does the demand it has.
LEMMA SameService ==
    ASSUME TopicsInv, topic' = topic
    PROVE  TopicsInv' /\ Current' = Current
  BY DEF TopicsInv, Current, Fence

\* A step of the worker outside of a poll.
LEMMA BetweenPolls ==
    ASSUME IInv, ~Polling, pc' \in {"top", "poll", "wait", "asleep"},
           seen' \in {seen, revision},
           UNCHANGED <<service, attached, host, ticket, result, baseline, begun>>,
           pc' = "wait" /\ attached /\ revision = seen' /\ ~stopped
               => SameDemand(Current, host.lastDemand),
           pc' = "asleep" /\ attached => SameDemand(Current, host.lastDemand)
    PROVE  IInv'
<1> USE DEF IInv, service
<1>1. TopicsInv' /\ Current' = Current
  BY SameService
<1>2. ~Polling'
  BY DEF Polling
<1>3. WorkerInv'
  BY DEF WorkerInv
<1>4. HostInv'
  BY DEF HostInv, IsTicket, Fence
<1>5. PollInv'
  BY <1>2 DEF PollInv, Polling
<1>6. BaselineInv'
  BY DEF BaselineInv, NoBaseline, Unbegun
<1>7. TicketInv'
  BY <1>2 DEF TicketInv, Polling
<1>8. SleepInv'
  BY <1>1, <1>2 DEF SleepInv, SameDemand
<1> QED BY <1>1, <1>3, <1>4, <1>5, <1>6, <1>7, <1>8

\* The top of the loop, a skipped poll, and the wait.
LEMMA LoopInv ==
    ASSUME IInv, ReadRevision \/ SkipPoll \/ Wait \/ WaitTimesOut
    PROVE  IInv'
<1>1. CASE ReadRevision
  BY <1>1, BetweenPolls DEF ReadRevision, Polling
<1>2. CASE SkipPoll
  BY <1>2, BetweenPolls DEF SkipPoll, Polling, Changed
<1>3. CASE Wait
  <2>1. pc = "wait" /\ attached /\ revision = seen /\ ~stopped
           => SameDemand(Current, host.lastDemand)
    BY DEF IInv, SleepInv
  <2> QED BY <1>3, <2>1, BetweenPolls DEF Wait, Polling
<1>4. CASE WaitTimesOut
  BY <1>4, BetweenPolls DEF WaitTimesOut, Polling
<1> QED BY <1>1, <1>2, <1>3, <1>4

\* A deadline passes.
LEMMA DeadlineInv ==
    ASSUME IInv, DeadlinePasses
    PROVE  IInv'
<1> USE DEF IInv, service, DeadlinePasses
<1>1. TopicsInv' /\ Current' = Current
  BY SameService
<1>2. /\ DOMAIN host' = {"lastDemand", "generations", "nextPoll"}
      /\ host'.lastDemand = host.lastDemand /\ host'.generations = host.generations
      /\ host'.nextPoll = "Due"
  BY DEF HostInv
<1>3. WorkerInv' /\ (Polling' <=> Polling)
  BY DEF WorkerInv, Polling
<1>4. HostInv'
  BY <1>2 DEF HostInv, IsTicket, Fence
<1>5. PollInv'
  BY <1>2, <1>3 DEF PollInv, IsTicket, Fence
<1>6. BaselineInv'
  BY <1>2 DEF BaselineInv, NoBaseline, Unbegun
<1>7. TicketInv'
  BY <1>2, <1>3 DEF TicketInv, Unbegun
<1>8. SleepInv'
  BY <1>1, <1>2, <1>3 DEF SleepInv, SameDemand
<1> QED BY <1>1, <1>3, <1>4, <1>5, <1>6, <1>7, <1>8

\* The poll takes its ticket.
LEMMA TakeTicketInv ==
    ASSUME IInv, TakeTicket
    PROVE  IInv'
<1> USE DEF IInv, service, TakeTicket
<1>1. /\ TopicsInv' /\ Current' = Current /\ ticket' = Current
      /\ pc' = "verify" /\ Polling' /\ ~Polling
  BY SameService DEF Polling
<1>2. /\ DOMAIN ticket' = {t \in Topics : topic[t].demanded}
      /\ \A t \in DOMAIN ticket' : ticket'[t].generation = topic[t].generation
      /\ IsTicket(ticket')
  BY <1>1, CurrentIsTicket
<1>3. WorkerInv'
  BY DEF WorkerInv
<1>4. HostInv'
  BY DEF HostInv, IsTicket, Fence
<1>5. PollInv'
  <2>1. IsTicket(ticket)' /\ attached' /\ pc' = "verify"
    BY <1>1, <1>2 DEF IsTicket, Fence
  <2>2. \A t \in DOMAIN ticket' : ticket'[t].generation <= topic'[t].generation
    <3>1. \A t \in Topics : topic[t].generation \in Nat
      BY DEF TopicsInv
    <3> QED BY <1>2, <3>1
  <2>3. result' = NoResult /\ result'.resets = {} /\ result'.schedule = "None"
    BY <1>1 DEF PollInv, NoResult
  <2> QED BY <1>1, <2>1, <2>2, <2>3 DEF PollInv
<1>6. BaselineInv'
  BY DEF BaselineInv, NoBaseline, Unbegun
<1>7. TicketInv'
  <2>1. \A t \in Topics \ DOMAIN ticket' : ~topic'[t].demanded
    BY <1>2
  <2>2. ASSUME host.generations # NoTicket, NEW t \in DOMAIN ticket' \ DOMAIN host.generations
        PROVE  baseline[t] = MaxGeneration + 1 \/ baseline[t] < ticket'[t].generation
    <3>1. t \in Topics /\ topic[t].demanded /\ ticket'[t].generation = topic[t].generation
      BY <1>2, <2>2
    <3>2. Unbegun(t)
      BY <2>2, <3>1 DEF BaselineInv
    <3> QED BY <3>1, <3>2 DEF Unbegun
  <2> QED BY <1>1, <2>1, <2>2 DEF TicketInv
<1>8. SleepInv'
  <2>1. SameDemand(Current', ticket')
    BY <1>1, <1>2, TicketSome DEF SameDemand
  <2> QED BY <1>1, <2>1 DEF SleepInv, SameDemand
<1> QED BY <1>1, <1>3, <1>4, <1>5, <1>6, <1>7, <1>8

\* What begin_generation leaves the provider with, and what it is called for.
LEMMA BeginEffect ==
    ASSUME IInv, BeginPoll
    PROVE  /\ \A t \in DOMAIN ticket : baseline'[t] = ticket[t].generation
           /\ \A t \in Topics \ DOMAIN ticket : baseline'[t] = baseline[t]
           /\ \A t \in begun' : baseline[t] # ticket[t].generation
           /\ begun' \subseteq DOMAIN ticket
<1> USE DEF IInv
<1>1. /\ pc = "verify" /\ Polling
      /\ begun' = {t \in DOMAIN ticket : ~SameGeneration(ticket, host.generations, t)}
      /\ baseline' = [t \in Topics |-> IF t \in begun' THEN ticket[t].generation
                                                       ELSE baseline[t]]
  BY DEF BeginPoll, Polling
<1>2. /\ IsTicket(ticket) /\ DOMAIN ticket \subseteq Topics
      /\ \A t \in DOMAIN ticket : ticket[t].generation \in 0..MaxGeneration
  BY <1>1 DEF PollInv, IsTicket, Fence
<1>3. ASSUME NEW t \in DOMAIN ticket, t \notin begun'
      PROVE  baseline[t] = ticket[t].generation
  <2>1. SameGeneration(ticket, host.generations, t)
    BY <1>1, <1>3
  <2>2. /\ host.generations # NoTicket /\ t \in DOMAIN host.generations /\ t \in Topics
        /\ host.generations[t].generation = ticket[t].generation
    BY <1>2, <2>1 DEF SameGeneration
  <2> QED BY <2>2 DEF BaselineInv
<1>4. ASSUME NEW t \in begun'
      PROVE  baseline[t] # ticket[t].generation
  <2>1. /\ t \in DOMAIN ticket /\ t \in Topics /\ ticket[t].generation \in 0..MaxGeneration
        /\ ~SameGeneration(ticket, host.generations, t)
    BY <1>1, <1>2, <1>4
  <2>2. CASE host.generations = NoTicket
    <3>1. baseline[t] = MaxGeneration + 1
      BY <2>1, <2>2 DEF BaselineInv, NoBaseline
    <3> QED BY <2>1, <3>1, BoundsAssumption
  <2>3. CASE host.generations # NoTicket /\ t \in DOMAIN host.generations
    <3>1. baseline[t] = host.generations[t].generation
      BY <2>1, <2>3 DEF BaselineInv
    <3> QED BY <2>1, <2>3, <3>1 DEF SameGeneration
  <2>4. CASE host.generations # NoTicket /\ t \notin DOMAIN host.generations
    <3>1. baseline[t] = MaxGeneration + 1 \/ baseline[t] < ticket[t].generation
      BY <1>1, <2>1, <2>4 DEF TicketInv
    <3>2. baseline[t] \in Nat
      BY <2>1, BoundsAssumption DEF BaselineInv
    <3> QED BY <2>1, <3>1, <3>2, BoundsAssumption
  <2> QED BY <2>2, <2>3, <2>4
<1>5. \A t \in Topics : baseline'[t] = IF t \in begun' THEN ticket[t].generation ELSE baseline[t]
  BY <1>1
<1>6. begun' \subseteq DOMAIN ticket
  BY <1>1
<1>7. \A t \in DOMAIN ticket : baseline'[t] = ticket[t].generation
  BY <1>2, <1>3, <1>5
<1> QED BY <1>4, <1>5, <1>6, <1>7

\* The new lifetimes are begun.
LEMMA BeginPollInv ==
    ASSUME IInv, BeginPoll
    PROVE  IInv'
<1> USE DEF IInv, service
<1>1. /\ pc = "verify" /\ pc' = "provider" /\ Polling /\ Polling'
      /\ UNCHANGED <<service, seen, attached, ticket, result>>
      /\ host' = [host EXCEPT !.generations = ticket]
  BY DEF BeginPoll, Polling
<1>2. TopicsInv' /\ Current' = Current
  BY <1>1, SameService
<1>3. /\ DOMAIN host' = {"lastDemand", "generations", "nextPoll"}
      /\ host'.lastDemand = host.lastDemand /\ host'.generations = ticket
      /\ host'.nextPoll = host.nextPoll
  BY <1>1 DEF HostInv
<1>4. /\ \A t \in DOMAIN ticket : baseline'[t] = ticket[t].generation
      /\ \A t \in Topics \ DOMAIN ticket : baseline'[t] = baseline[t]
      /\ begun' \subseteq DOMAIN ticket
  BY BeginEffect
<1>5. /\ IsTicket(ticket) /\ DOMAIN ticket \subseteq Topics /\ ticket # NoTicket
      /\ \A t \in DOMAIN ticket : ticket[t].generation \in 0..MaxGeneration
      /\ \A t \in DOMAIN ticket : ticket[t].generation <= topic[t].generation
  BY <1>1, TicketSome DEF PollInv, IsTicket, Fence
<1>6. WorkerInv'
  BY <1>1, <1>4, <1>5 DEF WorkerInv
<1>7. HostInv'
  BY <1>3, <1>5 DEF HostInv, IsTicket, Fence
<1>8. PollInv'
  BY <1>1, <1>3, <1>5 DEF PollInv, IsTicket, Fence
<1>9. \A t \in Topics \ DOMAIN ticket : topic'[t].demanded => Unbegun(t)'
  BY <1>1, <1>4 DEF TicketInv, Unbegun
<1>10. BaselineInv'
  <2>1. baseline' = [t \in Topics |-> baseline'[t]]
    BY DEF BeginPoll
  <2>2. \A t \in Topics : baseline'[t] \in 0..(MaxGeneration + 1)
    <3>1. \A t \in DOMAIN ticket : ticket[t].generation \in 0..(MaxGeneration + 1)
      BY <1>5, BoundsAssumption
    <3> QED BY <1>4, <3>1 DEF BaselineInv
  <2>3. baseline' \in [Topics -> 0..(MaxGeneration + 1)]
    BY <2>1, <2>2
  <2>4. \A t \in Topics : baseline'[t] = MaxGeneration + 1 \/ baseline'[t] <= topic'[t].generation
    BY <1>1, <1>4, <1>5 DEF BaselineInv
  <2> QED BY <1>3, <1>4, <1>5, <1>9, <2>3, <2>4 DEF BaselineInv
<1>11. TicketInv'
  BY <1>1, <1>9 DEF TicketInv
<1>12. SleepInv'
  BY <1>1, <1>2 DEF SleepInv, SameDemand
<1> QED BY <1>2, <1>6, <1>7, <1>8, <1>10, <1>11, <1>12

\* The provider samples, and its answer is remembered.
LEMMA SampleInv ==
    ASSUME IInv, ProviderPolls \/ Remember
    PROVE  IInv'
<1> USE DEF IInv, service
<1>1. /\ Polling /\ Polling' /\ pc \in {"provider", "verifyAgain"}
      /\ pc' \in {"verifyAgain", "commit", "discard"}
      /\ UNCHANGED <<service, seen, attached, ticket, baseline, begun>>
  BY DEF ProviderPolls, Remember, Polling
<1>2. TopicsInv' /\ Current' = Current
  BY <1>1, SameService
<1>3. /\ IsTicket(ticket) /\ DOMAIN ticket \subseteq Topics /\ host.generations = ticket
  BY <1>1 DEF PollInv, IsTicket
<1>4. /\ DOMAIN host' = {"lastDemand", "generations", "nextPoll"}
      /\ host'.generations = ticket /\ host'.lastDemand \in {host.lastDemand, ticket}
      /\ host'.nextPoll \in {"None", "Later", "Due"}
      /\ pc' = "commit" => host'.lastDemand = ticket
  <2>1. CASE ProviderPolls
    BY <1>3, <2>1 DEF ProviderPolls, HostInv
  <2>2. CASE Remember
    <3>1. result.schedule \in {"None", "Later", "Failed"}
      BY DEF PollInv
    <3> QED BY <1>3, <2>2, <3>1 DEF Remember, HostInv
  <2> QED BY <2>1, <2>2
<1>5. /\ result'.resets \subseteq DOMAIN ticket
      /\ result'.schedule \in {"None", "Later", "Failed"}
      /\ pc' = "commit" => result'.schedule # "Failed"
  <2>1. CASE ProviderPolls
    BY <2>1 DEF ProviderPolls
  <2>2. CASE Remember
    BY <1>1, <2>2 DEF Remember, PollInv
  <2> QED BY <2>1, <2>2
<1>6. WorkerInv'
  BY <1>1 DEF WorkerInv
<1>7. HostInv'
  BY <1>3, <1>4 DEF HostInv, IsTicket, Fence
<1>8. PollInv'
  BY <1>1, <1>3, <1>4, <1>5 DEF PollInv, IsTicket, Fence
<1>9. BaselineInv'
  BY <1>1, <1>3, <1>4 DEF BaselineInv, NoBaseline, Unbegun
<1>10. TicketInv'
  BY <1>1 DEF TicketInv, Unbegun
<1>11. SleepInv'
  BY <1>1, <1>2 DEF SleepInv, SameDemand
<1> QED BY <1>2, <1>6, <1>7, <1>8, <1>9, <1>10, <1>11

\* A refused commit leaves the poll to be discarded, and may close the service.
LEMMA CommitRefusedInv ==
    ASSUME IInv, CommitRefused
    PROVE  IInv'
<1> USE DEF IInv, service
<1>1. /\ pc = "commit" /\ pc' = "discard" /\ Polling /\ Polling'
      /\ UNCHANGED <<seen, attached, host, ticket, result, baseline, begun>>
  BY DEF CommitRefused, Polling
<1>2. \/ topic' = topic /\ stopped' = stopped /\ revision' = revision
      \/ topic' = Closed /\ stopped' = TRUE /\ revision' = revision + 1
  BY DEF CommitRefused
<1>3. /\ TopicsInv'
      /\ \A t \in Topics : topic'[t].generation = topic[t].generation
      /\ \A t \in Topics : topic'[t].demanded => topic[t].demanded
  BY <1>2, SameService, ClosedTopics
<1>4. WorkerInv'
  <2>1. revision' \in Nat /\ seen' \in Nat /\ seen' <= revision'
    BY <1>1, <1>2 DEF WorkerInv
  <2>2. stopped' \in BOOLEAN
    BY <1>2 DEF WorkerInv
  <2> QED BY <1>1, <2>1, <2>2 DEF WorkerInv
<1>5. HostInv'
  BY <1>1 DEF HostInv, IsTicket, Fence
<1>6. PollInv'
  <2>1. DOMAIN ticket \subseteq Topics
    BY <1>1 DEF PollInv, IsTicket
  <2> QED BY <1>1, <1>3, <2>1 DEF PollInv, IsTicket, Fence
<1>7. BaselineInv'
  BY <1>1, <1>3 DEF BaselineInv, NoBaseline, Unbegun
<1>8. TicketInv'
  BY <1>1, <1>3 DEF TicketInv, Unbegun
<1>9. SleepInv'
  <2>1. CASE topic' = topic /\ stopped' = stopped /\ revision' = revision
    BY <1>1, <2>1, SameService DEF SleepInv, SameDemand
  <2>2. CASE topic' = Closed /\ stopped' = TRUE /\ revision' = revision + 1
    BY <1>1, <2>2 DEF SleepInv
  <2> QED BY <1>2, <2>1, <2>2
<1> QED BY <1>3, <1>4, <1>5, <1>6, <1>7, <1>8, <1>9

\* The topics after source resets that stay in range.
LEMMA ResetTopics ==
    ASSUME TopicsInv, NEW resets, ~Exhausted(resets), resets \subseteq Topics, NEW u \in Topics
    PROVE  LET c == Reset(resets)[u] IN
           /\ c \in [demanded : BOOLEAN, generation : Nat, epoch : Nat] /\ Fence(c)
           /\ c.demanded = topic[u].demanded
           /\ c.generation = IF u \in resets THEN topic[u].generation + 1
                             ELSE topic[u].generation
           /\ Reset(resets) = [t \in Topics |-> Reset(resets)[t]]
<1> DEFINE r == [topic[u] EXCEPT !.generation = @ + 1, !.epoch = @ + 1]
           c == Reset(resets)[u]
<1>1. topic[u] \in [demanded : BOOLEAN, generation : Nat, epoch : Nat] /\ Fence(topic[u])
  BY DEF TopicsInv
<1>2. c = IF u \in resets THEN r ELSE topic[u]
  BY DEF Reset
<1>3. /\ r \in [demanded : BOOLEAN, generation : Nat, epoch : Nat]
      /\ r.demanded = topic[u].demanded /\ r.generation = topic[u].generation + 1
      /\ r.epoch = topic[u].epoch + 1
  <2> DEFINE w == topic[u]
             g == w.generation + 1
             e == w.epoch + 1
  <2>1. r = [w EXCEPT !.generation = g, !.epoch = e] /\ g \in Nat /\ e \in Nat
    BY <1>1
  <2> HIDE DEF r, g, e
  <2>2. /\ r \in [demanded : BOOLEAN, generation : Nat, epoch : Nat]
        /\ r.demanded = w.demanded /\ r.generation = g /\ r.epoch = e
    BY <1>1, <2>1
  <2> QED BY <2>2 DEF g, e
<1>4. u \in resets => topic[u].generation # MaxGeneration
  BY DEF Exhausted
<1> HIDE DEF r, c
<1>5. u \in resets => Fence(r)
  BY <1>1, <1>3, <1>4, BoundsAssumption DEF Fence
<1>6. Reset(resets) = [t \in Topics |-> Reset(resets)[t]]
  BY DEF Reset
<1>7. /\ c \in [demanded : BOOLEAN, generation : Nat, epoch : Nat] /\ Fence(c)
      /\ c.demanded = topic[u].demanded
  BY <1>1, <1>2, <1>3, <1>5
<1>8. c.generation = IF u \in resets THEN topic[u].generation + 1 ELSE topic[u].generation
  BY <1>1, <1>2, <1>3
<1> QED BY <1>6, <1>7, <1>8 DEF c

\* The topics after an accepted commit: resets move the generation, the topics that
\* lost their last stream lose their demand.
LEMMA CommitTopics ==
    ASSUME IInv, CommitAccepted
    PROVE  /\ TopicsInv'
           /\ \A t \in Topics :
                 /\ topic'[t].generation = IF t \in result.resets THEN topic[t].generation + 1
                                           ELSE topic[t].generation
                 /\ topic'[t].demanded => topic[t].demanded
                 /\ revision' = revision => topic'[t].demanded = topic[t].demanded
           /\ revision' \in {revision, revision + 1}
<1> DEFINE R == Reset(result.resets)
<1>1. PICK lost \in {S \in SUBSET DOMAIN ticket : \A t \in S : R[t].epoch < MaxEpoch} :
        /\ topic' = [t \in Topics |->
              IF t \in lost THEN [R[t] EXCEPT !.demanded = FALSE, !.epoch = @ + 1] ELSE R[t]]
        /\ revision' = IF lost = {} THEN revision ELSE revision + 1
  BY DEF CommitAccepted
<1>2. TopicsInv /\ result.resets \subseteq Topics /\ ~Exhausted(result.resets) /\ revision \in Nat
  BY DEF CommitAccepted, IInv, PollInv, WorkerInv
<1>3. ASSUME NEW t \in Topics
      PROVE  /\ topic'[t] \in [demanded : BOOLEAN, generation : Nat, epoch : Nat]
             /\ Fence(topic'[t])
             /\ topic'[t].generation = IF t \in result.resets THEN topic[t].generation + 1
                                       ELSE topic[t].generation
             /\ topic'[t].demanded => topic[t].demanded
             /\ t \notin lost => topic'[t].demanded = topic[t].demanded
  <2> DEFINE c == R[t]
             l == [c EXCEPT !.demanded = FALSE, !.epoch = @ + 1]
  <2>1. /\ c \in [demanded : BOOLEAN, generation : Nat, epoch : Nat] /\ Fence(c)
        /\ c.demanded = topic[t].demanded
        /\ c.generation = IF t \in result.resets THEN topic[t].generation + 1
                          ELSE topic[t].generation
    BY <1>2, ResetTopics
  <2>2. topic'[t] = IF t \in lost THEN l ELSE c
    BY <1>1
  <2>3. t \in lost => c.epoch < MaxEpoch
    BY <1>1
  <2> HIDE DEF c
  <2>4. /\ l \in [demanded : BOOLEAN, generation : Nat, epoch : Nat]
        /\ l.generation = c.generation /\ l.demanded = FALSE /\ l.epoch = c.epoch + 1
    <3> DEFINE e == c.epoch + 1
               no == FALSE
    <3>1. l = [c EXCEPT !.demanded = no, !.epoch = e] /\ e \in Nat /\ no \in BOOLEAN
      BY <2>1
    <3> HIDE DEF l, e, no
    <3>2. /\ l \in [demanded : BOOLEAN, generation : Nat, epoch : Nat]
          /\ l.generation = c.generation /\ l.demanded = no /\ l.epoch = e
      BY <2>1, <3>1
    <3> QED BY <3>2 DEF e, no
  <2> HIDE DEF l
  <2>5. t \in lost => Fence(l)
    BY <2>1, <2>3, <2>4, BoundsAssumption DEF Fence
  <2>6. CASE t \in lost
    BY <2>1, <2>2, <2>4, <2>5, <2>6
  <2>7. CASE t \notin lost
    BY <2>1, <2>2, <2>7
  <2> QED BY <2>6, <2>7
<1>4. topic' \in [Topics -> [demanded : BOOLEAN, generation : Nat, epoch : Nat]]
  <2>1. topic' = [t \in Topics |-> topic'[t]]
    BY <1>1
  <2> QED BY <1>3, <2>1
<1>5. TopicsInv'
  BY <1>3, <1>4 DEF TopicsInv, Fence
<1>6. revision' = revision => lost = {}
  <2>1. lost # {} => revision' = revision + 1
    BY <1>1
  <2> QED BY <1>2, <2>1
<1>7. revision' \in {revision, revision + 1}
  BY <1>1
<1> QED BY <1>3, <1>5, <1>6, <1>7

\* An accepted commit: the provider's own resets move the remembered tickets along.
LEMMA CommitAcceptedInv ==
    ASSUME IInv, CommitAccepted
    PROVE  IInv'
<1> USE DEF IInv
<1> DEFINE R == result.resets
<1>1. /\ pc = "commit" /\ pc' = "wait" /\ Polling /\ ~Polling'
      /\ ticket' = NoTicket /\ result' = NoResult
      /\ UNCHANGED <<stopped, seen, attached, begun>>
      /\ ~Fenced /\ ~Exhausted(R)
      /\ host' = [host EXCEPT !.generations = RebaseResets(host.generations, R),
                              !.lastDemand = RebaseResets(@, R)]
      /\ baseline' = [t \in Topics |-> IF t \in R THEN ticket[t].generation + 1
                                       ELSE baseline[t]]
  BY DEF CommitAccepted, Polling, RebasedGenerations
<1>2. /\ IsTicket(ticket) /\ ticket # NoTicket /\ R \subseteq DOMAIN ticket
      /\ DOMAIN ticket \subseteq Topics
      /\ host.generations = ticket /\ host.lastDemand = ticket
  BY <1>1, TicketSome DEF PollInv, IsTicket
<1>3. \A t \in DOMAIN ticket : /\ topic[t].generation = ticket[t].generation
                               /\ ticket[t].generation \in 0..MaxGeneration
  BY <1>1, <1>2 DEF Fenced, IsTicket, Fence
<1>4. \A t \in R : ticket[t].generation # MaxGeneration
  BY <1>1, <1>2, <1>3 DEF Exhausted
<1> DEFINE r == RebaseResets(ticket, R)
<1>5. /\ IsTicket(r) /\ r # NoTicket /\ DOMAIN r = DOMAIN ticket
      /\ \A t \in DOMAIN ticket :
            r[t].generation = IF t \in R THEN ticket[t].generation + 1
                              ELSE ticket[t].generation
  BY <1>2, <1>4, RebaseIsTicket, TicketSome
<1> HIDE DEF r
<1>6. /\ DOMAIN host' = {"lastDemand", "generations", "nextPoll"}
      /\ host'.lastDemand = r /\ host'.generations = r /\ host'.nextPoll = host.nextPoll
  BY <1>1, <1>2 DEF HostInv, r
<1> HIDE DEF R
<1>7. /\ TopicsInv'
      /\ \A t \in Topics :
            /\ topic'[t].generation = IF t \in R THEN topic[t].generation + 1
                                      ELSE topic[t].generation
            /\ topic'[t].demanded => topic[t].demanded
            /\ revision' = revision => topic'[t].demanded = topic[t].demanded
      /\ revision' \in {revision, revision + 1}
  BY CommitTopics DEF R
<1>8. WorkerInv'
  <2>1. revision' \in Nat /\ seen' \in Nat /\ seen' <= revision'
    BY <1>1, <1>7 DEF WorkerInv
  <2> QED BY <1>1, <2>1 DEF WorkerInv
<1>9. HostInv'
  BY <1>5, <1>6 DEF HostInv, IsTicket, Fence
<1>10. PollInv'
  <2>1. result'.resets = {} /\ result'.schedule = "None"
    BY <1>1 DEF NoResult
  <2> QED BY <1>1, <2>1 DEF PollInv, Polling
<1>11. \A t \in Topics : baseline'[t] = IF t \in R THEN ticket[t].generation + 1
                                        ELSE baseline[t]
  BY <1>1
<1>12. \A t \in DOMAIN ticket : baseline[t] = ticket[t].generation
  BY <1>2 DEF BaselineInv
<1>13. BaselineInv'
  <2>1. baseline' \in [Topics -> 0..(MaxGeneration + 1)]
    <3>1. \A t \in R : ticket[t].generation + 1 \in 0..(MaxGeneration + 1)
      BY <1>2, <1>3, BoundsAssumption
    <3>2. \A t \in Topics : baseline'[t] \in 0..(MaxGeneration + 1)
      BY <1>11, <3>1 DEF BaselineInv
    <3>3. baseline' = [t \in Topics |-> baseline'[t]]
      BY <1>1
    <3> QED BY <3>2, <3>3
  <2>2. \A t \in Topics : baseline'[t] = MaxGeneration + 1 \/ baseline'[t] <= topic'[t].generation
    <3> TAKE t \in Topics
    <3>0. topic[t].generation \in Nat
      BY DEF TopicsInv
    <3>1. CASE t \in R
      BY <1>2, <1>3, <1>7, <1>11, <3>0, <3>1
    <3>2. CASE t \notin R
      BY <1>7, <1>11, <3>2 DEF BaselineInv
    <3> QED BY <3>1, <3>2
  <2>3. \A t \in DOMAIN r : baseline'[t] = r[t].generation
    BY <1>2, <1>5, <1>11, <1>12
  <2>4. ASSUME NEW t \in Topics \ DOMAIN r, topic'[t].demanded
        PROVE  Unbegun(t)'
    <3>1. t \notin R /\ topic[t].demanded /\ topic'[t].generation = topic[t].generation
      BY <1>2, <1>5, <1>7, <2>4
    <3>2. Unbegun(t) /\ baseline'[t] = baseline[t]
      BY <1>2, <1>5, <1>11, <2>4, <3>1 DEF BaselineInv
    <3> QED BY <3>1, <3>2 DEF Unbegun
  <2> QED BY <1>5, <1>6, <2>1, <2>2, <2>3, <2>4 DEF BaselineInv
<1>14. TicketInv'
  BY <1>1 DEF TicketInv
<1>15. ASSUME revision' = seen', ~stopped'
       PROVE  SameDemand(Current', r)
  <2>1. revision = seen /\ revision' = revision
    BY <1>1, <1>7, <1>15 DEF WorkerInv
  <2>2. SameDemand(Current, ticket)
    BY <1>1, <1>15, <2>1 DEF SleepInv
  <2>3. DOMAIN ticket = {t \in Topics : topic[t].demanded}
    BY <2>2, CurrentIsTicket DEF SameDemand
  <2>4. DOMAIN Current' = DOMAIN r
    BY <1>5, <1>7, <2>1, <2>3, NextIsTicket
  <2>5. \A t \in DOMAIN r : topic'[t].generation = r[t].generation
    BY <1>2, <1>3, <1>5, <1>7
  <2> QED BY <1>5, <1>7, <2>4, <2>5, NextIsTicket DEF SameDemand
<1>16. SleepInv'
  BY <1>1, <1>6, <1>15 DEF SleepInv, SameDemand
<1> QED BY <1>7, <1>8, <1>9, <1>10, <1>13, <1>14, <1>16

\* The service after a discarded poll, and what the host remembers of it.
LEMMA DiscardEffect ==
    ASSUME IInv, Discard
    PROVE  /\ TopicsInv'
           /\ \A t \in Topics :
                 /\ t \notin DOMAIN ticket => topic'[t].generation = topic[t].generation
                 /\ topic'[t].generation >= topic[t].generation
                 /\ topic'[t].demanded => topic[t].demanded
           /\ revision' \in {revision, revision + 1} /\ stopped' \in BOOLEAN
           /\ host'.lastDemand # NoTicket => IsTicket(host'.lastDemand)
           /\ revision' = seen' /\ ~stopped' => SameDemand(Current', host'.lastDemand)
<1> USE DEF IInv
<1> DEFINE A == Applied(result.resets)
<1>1. /\ pc = "discard" /\ Polling /\ seen' = seen
      /\ DOMAIN host = {"lastDemand", "generations", "nextPoll"}
  BY DEF Discard, Polling, HostInv
<1>2. /\ IsTicket(ticket) /\ DOMAIN ticket \subseteq Topics /\ A \subseteq DOMAIN ticket
      /\ \A t \in A : topic[t].generation = ticket[t].generation
  BY <1>1 DEF PollInv, IsTicket, Applied
<1>3. \A t \in Topics : topic[t].generation \in Nat
  BY DEF TopicsInv
<1>4. CASE stopped
  <2>1. UNCHANGED service /\ host'.lastDemand = NoTicket
    BY <1>1, <1>4 DEF Discard
  <2>2. TopicsInv'
    BY <2>1, SameService DEF service
  <2> QED BY <1>3, <1>4, <2>1, <2>2 DEF service, WorkerInv
<1>5. CASE ~stopped /\ Exhausted(A)
  <2>1. topic' = Closed /\ stopped' = TRUE /\ revision' = revision + 1
        /\ host'.lastDemand = NoTicket
    BY <1>1, <1>5 DEF Discard
  <2>2. TopicsInv' /\ \A t \in Topics : /\ topic'[t].generation = topic[t].generation
                                        /\ ~topic'[t].demanded
    BY <2>1, ClosedTopics
  <2> QED BY <1>3, <2>1, <2>2
<1>6. CASE ~stopped /\ ~Exhausted(A)
  <2> DEFINE r == RebaseResets(ticket, A)
  <2>1. /\ topic' = Reset(A) /\ revision' = revision /\ stopped' = stopped
        /\ host' = [host EXCEPT !.nextPoll = Retry,
                      !.lastDemand = IF SameDemand(Current', r) THEN Current' ELSE NoTicket]
    BY <1>6 DEF Discard
  <2>2. host'.lastDemand = IF SameDemand(Current', r) THEN Current' ELSE NoTicket
    <3> HIDE DEF r
    <3> QED BY <1>1, <2>1
  <2>3. \A t \in Topics :
          /\ topic'[t] \in [demanded : BOOLEAN, generation : Nat, epoch : Nat]
          /\ Fence(topic'[t])
          /\ topic'[t].demanded = topic[t].demanded
          /\ topic'[t].generation = IF t \in A THEN topic[t].generation + 1
                                    ELSE topic[t].generation
          /\ topic' = [u \in Topics |-> topic'[u]]
    <3>1. A \subseteq Topics /\ TopicsInv /\ ~Exhausted(A)
      BY <1>2, <1>6
    <3> HIDE DEF A
    <3> QED BY <2>1, <3>1, ResetTopics
  <2>4. TopicsInv'
    <3>1. topic' = [u \in Topics |-> topic'[u]]
      BY <2>1 DEF Reset
    <3>2. topic' \in [Topics -> [demanded : BOOLEAN, generation : Nat, epoch : Nat]]
      BY <2>3, <3>1
    <3> QED BY <2>3, <3>2 DEF TopicsInv, Fence
  <2>5. \A t \in A : ticket[t].generation # MaxGeneration
    BY <1>2, <1>6 DEF Exhausted
  <2>6. /\ IsTicket(r) /\ r # NoTicket /\ DOMAIN r = DOMAIN ticket
        /\ \A t \in DOMAIN ticket :
              r[t].generation = IF t \in A THEN ticket[t].generation + 1
                                ELSE ticket[t].generation
    BY <1>2, <2>5, RebaseIsTicket, TicketSome
  <2> HIDE DEF r
  <2>7. ASSUME revision' = seen'
        PROVE  SameDemand(Current', r)
    <3>1. SameDemand(Current, ticket)
      BY <1>1, <1>6, <2>1, <2>7 DEF SleepInv
    <3>2. /\ DOMAIN ticket = {t \in Topics : topic[t].demanded}
          /\ \A t \in DOMAIN ticket : topic[t].generation = ticket[t].generation
      BY <3>1, CurrentIsTicket DEF SameDemand
    <3>3. DOMAIN Current' = DOMAIN r
      BY <2>3, <2>4, <2>6, <3>2, NextIsTicket
    <3>4. \A t \in DOMAIN r : topic'[t].generation = r[t].generation
      BY <1>2, <2>3, <2>6, <3>2
    <3> QED BY <2>4, <2>6, <3>3, <3>4, NextIsTicket DEF SameDemand
  <2>8. IsTicket(Current') /\ Current' # NoTicket
    BY <2>4, NextIsTicket, TicketSome
  <2>9. revision' = seen' => SameDemand(Current', host'.lastDemand)
    BY <2>2, <2>7, <2>8 DEF SameDemand
  <2>10. \A t \in Topics :
           /\ t \notin DOMAIN ticket => topic'[t].generation = topic[t].generation
           /\ topic'[t].generation >= topic[t].generation
           /\ topic'[t].demanded => topic[t].demanded
    BY <1>2, <1>3, <2>3
  <2>11. host'.lastDemand # NoTicket => IsTicket(host'.lastDemand)
    BY <2>2, <2>8
  <2> QED BY <2>1, <2>4, <2>9, <2>10, <2>11 DEF WorkerInv
<1> QED BY <1>4, <1>5, <1>6

\* A discarded poll.
LEMMA DiscardInv ==
    ASSUME IInv, Discard
    PROVE  IInv'
<1> USE DEF IInv
<1>1. /\ pc = "discard" /\ pc' = "wait" /\ Polling /\ ~Polling'
      /\ ticket' = NoTicket /\ result' = NoResult
      /\ UNCHANGED <<seen, attached, baseline, begun>>
  BY DEF Discard, Polling
<1>2. /\ TopicsInv'
      /\ \A t \in Topics :
            /\ t \notin DOMAIN ticket => topic'[t].generation = topic[t].generation
            /\ topic'[t].generation >= topic[t].generation
            /\ topic'[t].demanded => topic[t].demanded
      /\ revision' \in {revision, revision + 1} /\ stopped' \in BOOLEAN
      /\ host'.lastDemand # NoTicket => IsTicket(host'.lastDemand)
      /\ revision' = seen' /\ ~stopped' => SameDemand(Current', host'.lastDemand)
  BY DiscardEffect
<1>3. /\ DOMAIN host' = {"lastDemand", "generations", "nextPoll"}
      /\ host'.generations = host.generations /\ host'.nextPoll = "Later"
  BY DEF Discard, HostInv, Retry
<1>4. WorkerInv'
  <2>1. revision' \in Nat /\ seen' \in Nat /\ seen' <= revision'
    <3>1. revision' \in {revision, revision + 1} /\ seen' = seen
      BY <1>1, <1>2
    <3> QED BY <3>1 DEF WorkerInv
  <2> QED BY <1>1, <1>2, <2>1 DEF WorkerInv
<1>5. HostInv'
  BY <1>2, <1>3 DEF HostInv, IsTicket, Fence
<1>6. PollInv'
  <2>1. result'.resets = {} /\ result'.schedule = "None"
    BY <1>1 DEF NoResult
  <2> QED BY <1>1, <2>1 DEF PollInv, Polling
<1>7. BaselineInv'
  <2>1. \A t \in Topics : /\ topic[t].generation \in Nat /\ topic'[t].generation \in Nat
                          /\ baseline[t] \in Nat
    BY <1>2, BoundsAssumption DEF TopicsInv, BaselineInv
  <2>2. \A t \in Topics : baseline'[t] = MaxGeneration + 1 \/ baseline'[t] <= topic'[t].generation
    BY <1>1, <1>2, <2>1 DEF BaselineInv
  <2>3. \A t \in Topics : (topic[t].demanded => Unbegun(t))
                              => (topic'[t].demanded => Unbegun(t)')
    BY <1>1, <1>2, <2>1, BoundsAssumption DEF Unbegun
  <2> QED BY <1>1, <1>3, <2>2, <2>3 DEF BaselineInv, NoBaseline
<1>8. TicketInv'
  BY <1>1 DEF TicketInv
<1>9. SleepInv'
  BY <1>1, <1>2 DEF SleepInv, SameDemand
<1> QED BY <1>2, <1>4, <1>5, <1>6, <1>7, <1>8, <1>9

\* A verification fails and the session is retired.
LEMMA RetireInv ==
    ASSUME IInv, Retire
    PROVE  IInv'
<1> USE DEF IInv, service, Retire
<1>1. TopicsInv' /\ Current' = Current /\ ~Polling'
  BY SameService DEF Polling
<1>2. /\ DOMAIN host' = {"lastDemand", "generations", "nextPoll"}
      /\ host'.lastDemand = NoTicket /\ host'.generations = NoTicket
      /\ host'.nextPoll = "None"
  BY DEF NewHost
<1>3. WorkerInv'
  BY DEF WorkerInv
<1>4. HostInv'
  BY <1>2 DEF HostInv
<1>5. PollInv'
  <2>1. result'.resets = {} /\ result'.schedule = "None"
    BY DEF NoResult
  <2> QED BY <1>1, <2>1 DEF PollInv, Polling
<1>6. BaselineInv'
  <2>1. \A t \in Topics : baseline'[t] = MaxGeneration + 1
    BY DEF NoBaseline
  <2>2. baseline' \in [Topics -> 0..(MaxGeneration + 1)]
    BY BoundsAssumption DEF NoBaseline
  <2> QED BY <1>2, <2>1, <2>2 DEF BaselineInv, NoBaseline
<1>7. TicketInv' /\ SleepInv'
  BY <1>1 DEF TicketInv, SleepInv, Polling
<1> QED BY <1>1, <1>3, <1>4, <1>5, <1>6, <1>7

\* A step that changes nothing.
LEMMA StutterInv ==
    ASSUME IInv, UNCHANGED vars
    PROVE  IInv'
<1> USE DEF IInv, vars, service
<1>1. TopicsInv' /\ Current' = Current /\ (Polling' <=> Polling)
  BY SameService DEF Polling
<1>2. WorkerInv'
  BY DEF WorkerInv
<1>3. HostInv'
  BY DEF HostInv, IsTicket, Fence
<1>4. PollInv'
  BY <1>1 DEF PollInv, IsTicket, Fence
<1>5. BaselineInv' /\ TicketInv'
  BY <1>1 DEF BaselineInv, TicketInv, NoBaseline, Unbegun
<1>6. SleepInv'
  BY <1>1 DEF SleepInv, SameDemand
<1> QED BY <1>1, <1>2, <1>3, <1>4, <1>5, <1>6

\* Every step preserves the invariant.
LEMMA NextInv == IInv /\ [Next]_vars => IInv'
<1> SUFFICES ASSUME IInv, [Next]_vars PROVE IInv'
  OBVIOUS
<1>1. CASE Worker
  BY <1>1, LoopInv, TakeTicketInv, BeginPollInv, SampleInv, CommitRefusedInv,
     CommitAcceptedInv, DiscardInv DEF Worker
<1>2. CASE WaitTimesOut \/ Retire \/ DeadlinePasses \/ Shutdown
  BY <1>2, LoopInv, RetireInv, DeadlineInv, ShutdownInv
<1>3. CASE \E t \in Topics : ChangeDemand(t) \/ Expire(t)
  BY <1>3, ChangeDemandInv, ExpireInv
<1>4. CASE UNCHANGED vars
  BY <1>4, StutterInv
<1> QED BY <1>1, <1>2, <1>3, <1>4 DEF Next

\* The inductive invariant holds in every reachable state.
LEMMA IInvHolds == Spec => []IInv
  BY InitInv, NextInv, PTL DEF Spec

-----------------------------------------------------------------------------
(* The theorems. *)

\* The worker's place, the service's counters and the three copies of a ticket that
\* HostedSession::poll keeps stay in range, however often a reset rebases them.
THEOREM TypeCorrect == Spec => []TypeOK
<1>1. ASSUME NEW x, IsTicket(x) PROVE x \in Tickets
  <2> DEFINE F == [generation : 0..MaxGeneration, epoch : 0..(MaxEpoch + MaxGeneration)]
  <2>1. \A t \in DOMAIN x : x[t] \in F
    BY <1>1, BoundsAssumption DEF IsTicket, Fence
  <2>2. x \in [DOMAIN x -> F] /\ DOMAIN x \in SUBSET Topics
    BY <1>1, <2>1 DEF IsTicket
  <2> HIDE DEF F
  <2> QED BY <2>2 DEF Tickets, F
<1>2. IInv => TypeOK
  <2> SUFFICES ASSUME IInv PROVE TypeOK
    OBVIOUS
  <2> USE DEF IInv
  <2>1. topic \in [Topics -> [demanded : BOOLEAN, generation : 0..MaxGeneration,
                              epoch : 0..(MaxEpoch + MaxGeneration)]]
    <3>1. \A t \in Topics :
            /\ topic[t] \in [demanded : BOOLEAN, generation : Nat, epoch : Nat]
            /\ topic[t].generation \in 0..MaxGeneration
            /\ topic[t].epoch \in 0..(MaxEpoch + MaxGeneration)
      BY BoundsAssumption DEF TopicsInv, Fence
    <3> QED BY <3>1 DEF TopicsInv
  <2>2. seen \in 0..revision /\ revision \in Nat
    BY DEF WorkerInv
  <2>3. ticket \in Tickets /\ host.lastDemand \in Tickets /\ host.generations \in Tickets
    <3>1. NoTicket \in Tickets
      BY DEF Tickets
    <3> QED BY <1>1, <3>1 DEF PollInv, HostInv
  <2> QED BY <2>1, <2>2, <2>3 DEF TypeOK, WorkerInv, HostInv, PollInv, BaselineInv
<1> QED BY <1>2, IInvHolds, PTL

\* Whatever subscribers, expiry, resets and failed polls did before: when the provider
\* samples a topic, and until its output is committed, the state it keeps for the
\* topic belongs to the generation the output is fenced with.
THEOREM BaselineHolds == Spec => []BaselineCurrent
<1>1. IInv => BaselineCurrent
  BY TicketSome DEF IInv, PollInv, BaselineInv, BaselineCurrent, Polling, IsTicket
<1> QED BY <1>1, IInvHolds, PTL

\* The worker never sleeps through a change of demand.
THEOREM SleepHolds == Spec => []NoSleepThroughDemand
<1>1. IInv => NoSleepThroughDemand
  BY DEF IInv, SleepInv, NoSleepThroughDemand
<1> QED BY <1>1, IInvHolds, PTL

\* begin_generation is called for lifetimes the provider does not know only.
THEOREM BegunOnce == Spec => NeverBegunTwice
<1>1. ASSUME IInv, [Next]_vars, pc = "verify", pc' = "provider"
      PROVE  \A t \in begun' : baseline[t] # ticket[t].generation
  <2>1. BeginPoll
    <3>1. pc # pc'
      BY <1>1
    <3>2. Next
      BY <1>1, <3>1 DEF vars
    <3>3. \A t \in Topics : ~ChangeDemand(t) /\ ~Expire(t)
      BY <1>1 DEF ChangeDemand, Expire, NotifyAll
    <3>4. ~Shutdown /\ ~DeadlinePasses
      BY <1>1 DEF Shutdown, DeadlinePasses, NotifyAll
    <3>5. ~Retire /\ ~WaitTimesOut
      BY <1>1 DEF Retire, WaitTimesOut
    <3> QED BY <1>1, <3>2, <3>3, <3>4, <3>5
            DEF Next, Worker, ReadRevision, SkipPoll, TakeTicket, ProviderPolls, Remember,
                CommitRefused, CommitAccepted, Discard, Wait
  <2> QED BY <1>1, <2>1, BeginEffect
<1>2. IInv /\ [Next]_vars =>
        [pc = "verify" /\ pc' = "provider" =>
            \A t \in begun' : baseline[t] # ticket[t].generation]_vars
  BY <1>1
<1> QED BY <1>2, IInvHolds, PTL DEF Spec, NeverBegunTwice

-----------------------------------------------------------------------------
(* The lifecycle worker, for every number of processes and every interval:  *)
(* while it sleeps, what it shows is what it knows and no attempt is left   *)
(* half-way, and it drops no attachment that still works.                   *)

CONSTANTS Processes, None, DiscoveryInterval, RetryInterval
VARIABLES os, targets, error, next, todo, fresh, stop, published, file, worker

Lifecycle == INSTANCE Lifecycle WITH pc <- worker, service <- published

\* Where the worker is: between a change of what it knows and its publication, between
\* the two halves of one, where both are done, and in an attempt to attach.
Publishing == {"publish1", "publish2", "publish3", "publish4", "publish5", "publish6"}
Filings == {"file1", "file2", "file3", "file4", "file5", "file6"}
Shown == {"step", "discover", "candidate", "attach", "wait"}
Attempting == {"publish4", "file4", "attach"}
Ends == {"stopped", "failed"}

Entries == [activity : {"Attaching", "Observing", "Retrying"}, left : Nat]
IsAttaching(p) == targets[p] # None /\ targets[p].activity = "Attaching"

TargetsOK ==
    /\ targets \in [Processes -> {None} \cup Entries]
    /\ \A p \in Processes : targets[p] # None =>
          /\ targets[p].left > 0 => targets[p].activity = "Retrying"
          /\ os[p] # "unborn"

WorkerOK ==
    /\ os \in [Processes -> {"unborn", "running", "exited"}]
    /\ next \in 0..RetryInterval \cup 0..DiscoveryInterval
    /\ worker \in Publishing \cup Filings \cup Shown \cup Ends \cup {"poll"}

\* The candidates that are left to try are processes that were seen running.
TodoOK ==
    /\ todo \in Seq(Processes)
    /\ \A i \in 1..Len(todo) : os[todo[i]] # "unborn"

\* A target is being attached exactly while the worker is in that attempt.
AttemptOK ==
    /\ worker \in Attempting => todo # <<>> /\ IsAttaching(Head(todo))
    /\ \A p \in Processes :
          IsAttaching(p) => worker \in Ends \/ (worker \in Attempting /\ p = Head(todo))

\* Each half of a publication shows what the worker knows until that changes again.
ShownOK ==
    /\ worker \in Filings \cup Shown => published = Lifecycle!Status
    /\ worker \in Shown => file = Lifecycle!Status
    /\ worker = "poll" /\ ~fresh => published = Lifecycle!Status /\ file = Lifecycle!Status
    /\ fresh => worker \in {"poll"} \cup Ends

LifeInv == TargetsOK /\ WorkerOK /\ TodoOK /\ AttemptOK /\ ShownOK

\* The candidates in the order they are tried.
LEMMA Candidates ==
    ASSUME NEW S, IsFiniteSet(S)
    PROVE  LET s == Lifecycle!SetToSeq(S) IN s \in Seq(S)
<1>1. Cardinality(S) \in Nat /\ \E f : f \in Bijection(1..Cardinality(S), S)
  BY FS_CardinalityType DEF ExistsBijection
<1>2. PICK f \in Bijection(1..Cardinality(S), S) : TRUE BY <1>1
<1>3. Lifecycle!Cardinality(S) = Cardinality(S)
  BY Zenon DEF Lifecycle!Cardinality, Cardinality
<1>4. f \in [1..Cardinality(S) -> S] /\ Lifecycle!IsInjective(f)
  BY <1>2 DEF Bijection, Injection, IsInjective, Lifecycle!IsInjective
<1>5. Lifecycle!SetToSeq(S) \in [1..Cardinality(S) -> S]
  BY <1>3, <1>4 DEF Lifecycle!SetToSeq
<1> QED BY <1>1, <1>5

LEMMA LifeInit == ASSUME Lifecycle!LifecycleAssumption PROVE Lifecycle!Init => LifeInv
<1> SUFFICES ASSUME Lifecycle!Init PROVE LifeInv OBVIOUS
<1> USE DEF Lifecycle!Init
<1>1. TargetsOK /\ WorkerOK /\ TodoOK
  BY DEF TargetsOK, WorkerOK, TodoOK, Shown, Lifecycle!LifecycleAssumption
<1>2. AttemptOK BY DEF AttemptOK, IsAttaching, Attempting
<1>3. ShownOK
  <2>1. Lifecycle!NoStatus = Lifecycle!Status
    BY DEF Lifecycle!Status, Lifecycle!NoStatus
  <2> QED BY <2>1 DEF ShownOK
<1> QED BY <1>1, <1>2, <1>3 DEF LifeInv

\* Steps that change nothing the worker knows or shows, and move it at most to where
\* the same is promised: processes start and exit, the worker stops, fails or goes on.
LEMMA QuietInv ==
    ASSUME LifeInv,
           UNCHANGED <<targets, error, next, todo, fresh, published, file>>,
           os' \in [Processes -> {"unborn", "running", "exited"}],
           \A p \in Processes : os'[p] = "unborn" => os[p] = "unborn",
           \/ worker' = worker \/ worker' \in Ends
           \/ worker \in {"wait", "discover", "candidate"} /\ worker' \in {"step", "poll"}
    PROVE  LifeInv'
<1> USE DEF LifeInv
<1>1. TargetsOK' BY DEF TargetsOK
<1>2. WorkerOK' BY DEF WorkerOK, Shown
<1>3. TodoOK' BY DEF TodoOK
<1>4. AttemptOK' BY DEF AttemptOK, IsAttaching, Attempting, Ends
<1>5. ShownOK' BY DEF ShownOK, Lifecycle!Status, Shown, Filings, Ends
<1> QED BY <1>1, <1>2, <1>3, <1>4, <1>5

\* The world and the worker's moves of that kind.
LEMMA WorldInv ==
    ASSUME LifeInv,
           \/ \E p \in Processes : Lifecycle!Launch(p) \/ Lifecycle!ExitGame(p)
           \/ Lifecycle!RequestStop
    PROVE  LifeInv'
<1> UNCHANGED <<targets, error, next, todo, fresh, published, file, worker>>
  BY DEF Lifecycle!Launch, Lifecycle!ExitGame, Lifecycle!RequestStop
<1>1. /\ os' \in [Processes -> {"unborn", "running", "exited"}]
      /\ \A p \in Processes : os'[p] = "unborn" => os[p] = "unborn"
  BY DEF LifeInv, WorkerOK, Lifecycle!Launch, Lifecycle!ExitGame, Lifecycle!RequestStop
<1> QED BY <1>1, QuietInv

LEMMA MovesInv ==
    ASSUME LifeInv,
           \/ Lifecycle!Wake \/ Lifecycle!Stopping \/ Lifecycle!NotDue \/ Lifecycle!StepEnds
           \/ \E places : Lifecycle!PublishFails(places)
    PROVE  LifeInv'
<1>1. /\ UNCHANGED <<targets, error, next, todo, fresh, published, file, os>>
      /\ \/ worker' \in Ends
         \/ worker \in {"wait", "discover", "candidate"} /\ worker' \in {"step", "poll"}
  BY DEF Lifecycle!Wake, Lifecycle!Stopping, Lifecycle!NotDue, Lifecycle!StepEnds,
         Lifecycle!PublishFails, Lifecycle!world, Ends
<1>2. os \in [Processes -> {"unborn", "running", "exited"}] BY DEF LifeInv, WorkerOK
<1> QED BY <1>1, <1>2, QuietInv

\* publish: the service, then the file, then where the step goes on.
LEMMA PublishInv ==
    ASSUME LifeInv, Lifecycle!Publish
    PROVE  LifeInv'
<1> USE DEF LifeInv
<1>1. PICK place \in DOMAIN Lifecycle!After :
        \/ Lifecycle!PublishService(place, Lifecycle!Filing[place])
        \/ Lifecycle!PublishFile(Lifecycle!Filing[place], Lifecycle!After[place])
  BY DEF Lifecycle!Publish
<1>2. /\ UNCHANGED <<os, targets, error, next, todo, fresh>>
      /\ \/ /\ worker = place /\ worker' = Lifecycle!Filing[place]
            /\ published' = Lifecycle!Status /\ file' = file
         \/ /\ worker = Lifecycle!Filing[place] /\ worker' = Lifecycle!After[place]
            /\ file' = Lifecycle!Status /\ published' = published
  BY <1>1 DEF Lifecycle!PublishService, Lifecycle!PublishFile, Lifecycle!world
<1>3. Lifecycle!Status' = Lifecycle!Status BY <1>2 DEF Lifecycle!Status
<1>4. \/ /\ worker = "publish4" /\ worker' = "file4"
      \/ /\ worker = "file4" /\ worker' = "attach"
      \/ /\ worker \in Publishing \ {"publish4"} /\ worker' \in Filings \ {"file4"}
      \/ /\ worker \in Filings \ {"file4"}
         /\ worker' \in {"discover", "poll", "candidate", "wait"}
  BY <1>2 DEF Lifecycle!After, Lifecycle!Filing, Publishing, Filings
<1>5. TargetsOK' BY <1>2 DEF TargetsOK
<1>6. WorkerOK' BY <1>2, <1>4 DEF WorkerOK, Shown, Filings
<1>7. TodoOK' BY <1>2 DEF TodoOK
<1>8. AttemptOK'
  BY <1>2, <1>4 DEF AttemptOK, IsAttaching, Attempting, Publishing, Filings, Ends
<1>9. ~fresh' /\ worker \notin {"poll"} \cup Ends
  BY <1>2, <1>4 DEF ShownOK, Publishing, Filings, Ends
<1>10. \/ worker \in Publishing /\ worker' \in Filings /\ published' = Lifecycle!Status
       \/ /\ worker \in Filings /\ worker' \in Shown \cup {"poll"}
          /\ file' = Lifecycle!Status /\ published' = published
  BY <1>2, <1>4 DEF Lifecycle!After, Lifecycle!Filing, Publishing, Filings, Shown
<1>11. ShownOK' BY <1>3, <1>9, <1>10 DEF ShownOK, Publishing, Filings, Shown
<1> QED BY <1>5, <1>6, <1>7, <1>8, <1>11

\* Time passes: deadlines come closer, which is not shown.
LEMMA WaitInv ==
    ASSUME Lifecycle!LifecycleAssumption, LifeInv, Lifecycle!Wait
    PROVE  LifeInv'
<1> USE DEF LifeInv
<1>1. /\ worker = "wait" /\ worker' = "step" /\ next' = Lifecycle!Sooner(next)
      /\ targets' = [p \in Processes |->
                       IF targets[p] = None THEN None
                       ELSE [targets[p] EXCEPT !.left = Lifecycle!Sooner(@)]]
      /\ UNCHANGED <<os, error, todo, fresh, published, file>>
  BY DEF Lifecycle!Wait, Lifecycle!world
<1>2. ASSUME NEW p \in Processes
      PROVE  /\ targets'[p] \in {None} \cup Entries
             /\ targets'[p] = None <=> targets[p] = None
             /\ targets[p] # None => /\ targets'[p].activity = targets[p].activity
                                     /\ targets'[p].left > 0 => targets[p].left > 0
  <2>1. CASE targets[p] = None BY <1>1, <2>1
  <2>2. CASE targets[p] # None
    <3>1. targets[p] \in Entries BY <2>2 DEF TargetsOK
    <3>2. targets'[p] = [targets[p] EXCEPT !.left = Lifecycle!Sooner(@)] BY <1>1, <2>2
    <3>3. targets'[p] \in Entries
      BY <3>1, <3>2 DEF Entries, Lifecycle!Sooner
    <3>4. targets'[p] # None BY <3>3 DEF Lifecycle!LifecycleAssumption, Entries
    <3> QED BY <2>2, <3>1, <3>2, <3>3, <3>4 DEF Entries, Lifecycle!Sooner
  <2> QED BY <2>1, <2>2
<1>3. TargetsOK' BY <1>1, <1>2 DEF TargetsOK
<1>4. WorkerOK'
  <2>1. next' \in 0..RetryInterval \cup 0..DiscoveryInterval
    BY <1>1 DEF WorkerOK, Lifecycle!Sooner, Lifecycle!LifecycleAssumption
  <2> QED BY <1>1, <2>1 DEF WorkerOK, Shown
<1>5. TodoOK' BY <1>1 DEF TodoOK
<1>6. AttemptOK' BY <1>1, <1>2 DEF AttemptOK, IsAttaching, Attempting, Ends
<1>7. Lifecycle!Status' = Lifecycle!Status BY <1>1, <1>2 DEF Lifecycle!Status
<1>8. ShownOK' BY <1>1, <1>7 DEF ShownOK, Shown, Filings, Ends
<1> QED BY <1>3, <1>4, <1>5, <1>6, <1>8

\* The changes of what is known before candidates are tried: dropped processes, a
\* discovery and its failure.  Each goes on to a publication.
LEMMA DropInv ==
    ASSUME LifeInv, Lifecycle!DropExited
    PROVE  LifeInv'
<1> USE DEF LifeInv
<1>1. /\ worker = "step" /\ worker' = "publish1"
      /\ \A p \in Processes : targets'[p] \in {targets[p], None}
      /\ DOMAIN targets' = Processes
      /\ UNCHANGED <<os, error, next, todo, fresh, published, file>>
  BY DEF Lifecycle!DropExited, Lifecycle!world
<1>2. TargetsOK'
  <2>1. targets' = [p \in Processes |-> targets'[p]] BY DEF Lifecycle!DropExited
  <2> QED BY <1>1, <2>1 DEF TargetsOK
<1>3. WorkerOK' BY <1>1 DEF WorkerOK, Publishing
<1>4. TodoOK' BY <1>1 DEF TodoOK
<1>5. AttemptOK' BY <1>1 DEF AttemptOK, IsAttaching, Attempting, Ends
<1>6. ShownOK' BY <1>1 DEF ShownOK, Shown, Filings, Ends
<1> QED BY <1>2, <1>3, <1>4, <1>5, <1>6

LEMMA DiscoveryInv ==
    ASSUME Lifecycle!LifecycleAssumption, LifeInv,
           Lifecycle!DiscoveryFails \/ Lifecycle!Discover
    PROVE  LifeInv'
<1> USE DEF LifeInv
<1>1. CASE Lifecycle!DiscoveryFails
  <2>1. /\ worker = "discover" /\ worker' = "publish2" /\ next' = RetryInterval
        /\ UNCHANGED <<os, targets, todo, fresh, published, file>>
    BY <1>1 DEF Lifecycle!DiscoveryFails, Lifecycle!world
  <2>2. TargetsOK' /\ TodoOK' BY <2>1 DEF TargetsOK, TodoOK
  <2>3. WorkerOK' BY <2>1 DEF WorkerOK, Publishing, Lifecycle!LifecycleAssumption
  <2>4. AttemptOK' BY <2>1 DEF AttemptOK, IsAttaching, Attempting, Ends
  <2>5. ShownOK' BY <2>1 DEF ShownOK, Shown, Filings, Ends
  <2> QED BY <2>2, <2>3, <2>4, <2>5
<1>2. CASE Lifecycle!Discover
  <2>1. PICK candidates \in SUBSET {p \in Processes : os[p] = "running"} :
          /\ todo' = Lifecycle!SetToSeq(candidates)
          /\ targets' = [p \in Processes |->
                           IF Lifecycle!Kept(candidates, p) THEN targets[p] ELSE None]
    BY <1>2 DEF Lifecycle!Discover
  <2>2. /\ worker = "discover" /\ worker' = "publish3" /\ next' = DiscoveryInterval
        /\ UNCHANGED <<os, fresh, published, file>>
    BY <1>2 DEF Lifecycle!Discover, Lifecycle!world
  <2>3. TargetsOK' BY <2>1, <2>2 DEF TargetsOK
  <2>4. WorkerOK' BY <2>2 DEF WorkerOK, Publishing, Lifecycle!LifecycleAssumption
  <2>5. TodoOK'
    <3>5. IsFiniteSet(Processes)
      BY Zenon DEF Lifecycle!LifecycleAssumption, Lifecycle!IsFiniteSet, IsFiniteSet
    <3>6. candidates \subseteq Processes BY <2>1
    <3>1. IsFiniteSet(candidates) BY <3>5, <3>6, FS_Subset
    <3>2. todo' \in Seq(candidates) BY <2>1, <3>1, Candidates
    <3>3. \A i \in 1..Len(todo') : todo'[i] \in candidates BY <3>2
    <3>4. \A q \in candidates : q \in Processes /\ os[q] = "running" BY <2>1
    <3> QED BY <2>2, <3>2, <3>3, <3>4 DEF TodoOK
  <2>6. AttemptOK' BY <2>1, <2>2 DEF AttemptOK, IsAttaching, Attempting, Ends
  <2>7. ShownOK' BY <2>2 DEF ShownOK, Shown, Filings, Ends
  <2> QED BY <2>3, <2>4, <2>5, <2>6, <2>7
<1> QED BY <1>1, <1>2

\* What is left of the candidates after the first.
LEMMA TailOK ==
    ASSUME TodoOK, todo # <<>>
    PROVE  /\ Head(todo) \in Processes /\ os[Head(todo)] # "unborn"
           /\ Tail(todo) \in Seq(Processes)
           /\ \A i \in 1..Len(Tail(todo)) : os[Tail(todo)[i]] # "unborn"
BY DEF TodoOK

\* The candidates: skipped, or attempted to the end.
LEMMA CandidateInv ==
    ASSUME Lifecycle!LifecycleAssumption, LifeInv,
           \/ Lifecycle!Skip \/ Lifecycle!BeginAttach
           \/ \E ok \in BOOLEAN : Lifecycle!AttachEnds(ok)
    PROVE  LifeInv'
<1> USE DEF LifeInv
<1>1. CASE Lifecycle!Skip
  <2>1. /\ worker = "candidate" /\ todo # <<>> /\ todo' = Tail(todo)
        /\ UNCHANGED <<os, targets, error, next, fresh, published, file, worker>>
    BY <1>1 DEF Lifecycle!Skip, Lifecycle!world
  <2>2. TargetsOK' /\ WorkerOK' BY <2>1 DEF TargetsOK, WorkerOK
  <2>3. TodoOK' BY <2>1, TailOK DEF TodoOK
  <2>4. AttemptOK' BY <2>1 DEF AttemptOK, IsAttaching, Attempting, Ends
  <2>5. ShownOK' BY <2>1 DEF ShownOK, Lifecycle!Status, Shown, Filings, Ends
  <2> QED BY <2>2, <2>3, <2>4, <2>5
<1>2. CASE Lifecycle!BeginAttach
  <2>1. /\ worker = "candidate" /\ todo # <<>> /\ worker' = "publish4"
        /\ targets' = [targets EXCEPT ![Head(todo)] = [activity |-> "Attaching", left |-> 0]]
        /\ UNCHANGED <<os, error, next, todo, fresh, published, file>>
    BY <1>2 DEF Lifecycle!BeginAttach, Lifecycle!world, Lifecycle!Target
  <2>2. [activity |-> "Attaching", left |-> 0] \in Entries BY DEF Entries
  <2>3. Head(todo) \in Processes /\ os[Head(todo)] # "unborn" BY <2>1, TailOK
  <2>4. TargetsOK' BY <2>1, <2>2, <2>3 DEF TargetsOK
  <2>5. WorkerOK' /\ TodoOK' BY <2>1 DEF WorkerOK, TodoOK, Publishing
  <2>6. [activity |-> "Attaching", left |-> 0] # None
    BY <2>2 DEF Lifecycle!LifecycleAssumption, Entries
  <2>7. IsAttaching(Head(todo))'
    BY <2>1, <2>3, <2>6 DEF IsAttaching, TargetsOK
  <2>8. AttemptOK'
    BY <2>1, <2>3, <2>7 DEF AttemptOK, IsAttaching, Attempting, Ends, TargetsOK
  <2>9. ShownOK' BY <2>1 DEF ShownOK, Shown, Filings, Ends
  <2> QED BY <2>4, <2>5, <2>8, <2>9
<1>3. ASSUME NEW ok \in BOOLEAN, Lifecycle!AttachEnds(ok) PROVE LifeInv'
  <2> DEFINE after == IF ok THEN [activity |-> "Observing", left |-> 0]
                      ELSE [activity |-> "Retrying", left |-> RetryInterval]
  <2>1. /\ worker = "attach" /\ worker' = "publish5" /\ todo' = Tail(todo)
        /\ targets' = [targets EXCEPT ![Head(todo)] = after]
        /\ UNCHANGED <<os, error, next, fresh, published, file>>
    BY <1>3 DEF Lifecycle!AttachEnds, Lifecycle!world, Lifecycle!Target
  <2>2. /\ after \in Entries /\ after.activity # "Attaching"
        /\ after.left > 0 => after.activity = "Retrying"
    BY DEF Entries, Lifecycle!LifecycleAssumption
  <2>3. todo # <<>> BY <2>1 DEF AttemptOK, Attempting
  <2> HIDE DEF after
  <2>4. TargetsOK' BY <2>1, <2>2, <2>3, TailOK DEF TargetsOK
  <2>5. WorkerOK' BY <2>1 DEF WorkerOK, Publishing
  <2>6. TodoOK' BY <2>1, <2>3, TailOK DEF TodoOK
  <2>7. AttemptOK'
    BY <2>1, <2>2, <2>3, TailOK DEF AttemptOK, IsAttaching, Attempting, Ends, TargetsOK
  <2>8. ShownOK' BY <2>1 DEF ShownOK, Shown, Filings, Ends
  <2> QED BY <2>4, <2>5, <2>6, <2>7, <2>8
<1> QED BY <1>1, <1>2, <1>3

\* The polls: a session that fails is retired, and that is published before the worker
\* sleeps.
LEMMA PolledInv ==
    ASSUME Lifecycle!LifecycleAssumption, LifeInv,
           Lifecycle!Polled \/ \E p \in Processes : Lifecycle!Retire(p)
    PROVE  LifeInv'
<1> USE DEF LifeInv
<1>1. CASE Lifecycle!Polled
  <2>1. /\ worker = "poll" /\ ~fresh' /\ worker' = IF fresh THEN "publish6" ELSE "wait"
        /\ UNCHANGED <<os, targets, error, next, todo, published, file>>
    BY <1>1 DEF Lifecycle!Polled, Lifecycle!world
  <2>2. TargetsOK' /\ TodoOK' BY <2>1 DEF TargetsOK, TodoOK
  <2>3. WorkerOK' BY <2>1 DEF WorkerOK, Publishing, Shown
  <2>4. AttemptOK' BY <2>1 DEF AttemptOK, IsAttaching, Attempting, Ends
  <2>5. Lifecycle!Status' = Lifecycle!Status BY <2>1 DEF Lifecycle!Status
  <2>6. ShownOK' BY <2>1, <2>5 DEF ShownOK, Shown, Filings, Ends
  <2> QED BY <2>2, <2>3, <2>4, <2>6
<1>2. ASSUME NEW p \in Processes, Lifecycle!Retire(p) PROVE LifeInv'
  <2> DEFINE after == [activity |-> "Retrying", left |-> RetryInterval]
  <2>1. /\ worker = "poll" /\ fresh' /\ targets[p] # None
        /\ targets' = [targets EXCEPT ![p] = after]
        /\ UNCHANGED <<os, error, next, todo, published, file, worker>>
    BY <1>2 DEF Lifecycle!Retire, Lifecycle!world, Lifecycle!Target, Lifecycle!Attached
  <2>2. after \in Entries /\ after.activity = "Retrying"
    BY DEF Entries, Lifecycle!LifecycleAssumption
  <2> HIDE DEF after
  <2>3. TargetsOK' BY <2>1, <2>2 DEF TargetsOK
  <2>4. WorkerOK' /\ TodoOK' BY <2>1 DEF WorkerOK, TodoOK
  <2>5. AttemptOK' BY <2>1, <2>2 DEF AttemptOK, IsAttaching, Attempting, Ends, TargetsOK
  <2>6. ShownOK' BY <2>1 DEF ShownOK, Shown, Filings, Ends
  <2> QED BY <2>3, <2>4, <2>5, <2>6
<1> QED BY <1>1, <1>2

LEMMA LifeSteps ==
    ASSUME Lifecycle!LifecycleAssumption
    PROVE  LifeInv /\ [Lifecycle!Next]_Lifecycle!vars => LifeInv'
<1> SUFFICES ASSUME LifeInv, [Lifecycle!Next]_Lifecycle!vars PROVE LifeInv' OBVIOUS
<1>1. CASE Lifecycle!Worker
  BY <1>1, MovesInv, PublishInv, WaitInv, DropInv, DiscoveryInv, CandidateInv, PolledInv
     DEF Lifecycle!Worker
<1>2. CASE Lifecycle!Next /\ ~Lifecycle!Worker
  BY <1>2, MovesInv, WorldInv, PolledInv DEF Lifecycle!Next
<1>3. CASE UNCHANGED Lifecycle!vars
  <2>1. os \in [Processes -> {"unborn", "running", "exited"}] BY DEF LifeInv, WorkerOK
  <2> QED BY <1>3, <2>1, QuietInv DEF Lifecycle!vars
<1> QED BY <1>1, <1>2, <1>3

LEMMA LifeAlways == ASSUME Lifecycle!LifecycleAssumption PROVE Lifecycle!Spec => []LifeInv
BY LifeInit, LifeSteps, PTL DEF Lifecycle!Spec

\* run, step, publish: whenever the worker sleeps, the service and the registration file
\* both show what it knows, whichever branch of the step or the polls changed that, and
\* every target is observed or has a retry.
THEOREM SleepsSettled ==
    ASSUME Lifecycle!LifecycleAssumption
    PROVE  Lifecycle!Spec => [](/\ Lifecycle!TypeOK
                                /\ Lifecycle!PublishedBeforeSleep
                                /\ Lifecycle!SettledBeforeSleep)
<1>1. ASSUME LifeInv PROVE Lifecycle!TypeOK
  <2>1. \A p \in Processes : targets[p] # None =>
          /\ targets[p].activity \in {"Attaching", "Observing", "Retrying"}
          /\ targets[p].left > 0 => targets[p].activity = "Retrying"
          /\ os[p] # "unborn"
    BY <1>1 DEF LifeInv, TargetsOK, Entries
  <2> QED BY <1>1, <2>1 DEF LifeInv, WorkerOK, Lifecycle!TypeOK
<1>2. LifeInv => Lifecycle!PublishedBeforeSleep
  BY DEF LifeInv, ShownOK, Shown, Filings, Lifecycle!PublishedBeforeSleep
<1>3. LifeInv => Lifecycle!SettledBeforeSleep
  BY DEF LifeInv, AttemptOK, IsAttaching, Attempting, Ends, Lifecycle!SettledBeforeSleep
<1> QED BY <1>1, <1>2, <1>3, LifeAlways, PTL

\* step, retain: an attachment to a process that runs is dropped only by its own failed
\* poll, never by a discovery that missed it or by an attempt to attach to another.
THEOREM KeepsVerified ==
    ASSUME Lifecycle!LifecycleAssumption
    PROVE  Lifecycle!Spec => [][Lifecycle!VerifiedIsKept]_Lifecycle!vars
<1>1. ASSUME LifeInv, Lifecycle!Next PROVE Lifecycle!VerifiedIsKept
  <2> SUFFICES ASSUME NEW p \in Processes, Lifecycle!Attached(p), os[p] = "running",
                      ~Lifecycle!Attached(p)'
               PROVE  Lifecycle!Retire(p)
    BY DEF Lifecycle!VerifiedIsKept
  <2>1. targets[p] # None /\ targets[p].activity = "Observing" BY DEF Lifecycle!Attached
  <2>2. targets'[p] = None \/ targets'[p].activity # "Observing"
    BY DEF Lifecycle!Attached
  <2>3. targets[p] # targets'[p] BY <2>1, <2>2
  <2>4. ASSUME NEW q \in Processes, Lifecycle!Retire(q) PROVE p = q
    <3>1. \E x : targets' = [targets EXCEPT ![q] = x] BY <2>4 DEF Lifecycle!Retire
    <3> QED BY <2>3, <3>1 DEF LifeInv, TargetsOK
  <2>5. ASSUME Lifecycle!Wait PROVE FALSE
    <3>1. targets'[p] = [targets[p] EXCEPT !.left = Lifecycle!Sooner(@)]
      BY <2>1, <2>5 DEF Lifecycle!Wait
    <3>2. targets[p] \in Entries BY <1>1, <2>1 DEF LifeInv, TargetsOK
    <3>3. targets'[p] \in Entries /\ targets'[p].activity = "Observing"
      BY <2>1, <3>1, <3>2 DEF Entries, Lifecycle!Sooner
    <3> QED BY <2>2, <3>3 DEF Lifecycle!LifecycleAssumption, Entries
  <2>6. ASSUME Lifecycle!DropExited \/ Lifecycle!Discover PROVE FALSE
    BY <2>3, <2>6 DEF Lifecycle!DropExited, Lifecycle!Discover, Lifecycle!Kept
  <2>7. ASSUME Lifecycle!BeginAttach PROVE FALSE
    <3>1. \E x : targets' = [targets EXCEPT ![Head(todo)] = x]
      BY <2>7 DEF Lifecycle!BeginAttach
    <3>2. p = Head(todo) BY <1>1, <2>3, <3>1 DEF LifeInv, TargetsOK
    <3> QED BY <2>7, <3>2 DEF Lifecycle!BeginAttach
  <2>8. ASSUME NEW ok \in BOOLEAN, Lifecycle!AttachEnds(ok) PROVE FALSE
    <3>1. worker = "attach" /\ \E x : targets' = [targets EXCEPT ![Head(todo)] = x]
      BY <2>8 DEF Lifecycle!AttachEnds
    <3>2. p = Head(todo) BY <1>1, <2>3, <3>1 DEF LifeInv, TargetsOK
    <3> QED BY <1>1, <2>1, <3>1, <3>2 DEF LifeInv, AttemptOK, IsAttaching, Attempting
  <2>9. ASSUME targets' = targets PROVE FALSE BY <2>3, <2>9
  <2>10. \/ targets' = targets \/ Lifecycle!Wait \/ Lifecycle!DropExited
         \/ Lifecycle!Discover \/ Lifecycle!BeginAttach
         \/ \E ok \in BOOLEAN : Lifecycle!AttachEnds(ok)
         \/ \E q \in Processes : Lifecycle!Retire(q)
    BY <1>1 DEF Lifecycle!Next, Lifecycle!Worker, Lifecycle!Stopping, Lifecycle!Publish,
         Lifecycle!PublishService, Lifecycle!PublishFile, Lifecycle!NotDue,
         Lifecycle!DiscoveryFails, Lifecycle!Skip, Lifecycle!StepEnds, Lifecycle!Polled,
         Lifecycle!Wake, Lifecycle!RequestStop, Lifecycle!Launch, Lifecycle!ExitGame,
         Lifecycle!PublishFails
  <2>11. PICK q \in Processes : Lifecycle!Retire(q)
    BY <2>5, <2>6, <2>7, <2>8, <2>9, <2>10
  <2> QED BY <2>4, <2>11
<1> QED BY <1>1, LifeAlways, PTL DEF Lifecycle!Spec
=============================================================================
