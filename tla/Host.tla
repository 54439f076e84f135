-------------------------------- MODULE Host --------------------------------
(***************************************************************************)
(* provider_host/session.rs, HostedSession::poll, in the worker loop of    *)
(* lifecycle/worker.rs: which polls happen, which topic lifetimes the      *)
(* provider is told to begin, and when the worker may sleep.  Subscribers, *)
(* expiry and shutdown change the service between any two critical         *)
(* sections of a poll.                                                     *)
(*                                                                         *)
(* The service is reduced to what a poll reads and writes of it: demand,   *)
(* generation and epoch of the topics of the observed session, the wake-up *)
(* revision, and whether it is closed.                                     *)
(***************************************************************************)
EXTENDS Naturals, FiniteSets

CONSTANTS
    Topics,         \* the capabilities of the manifest
    NoTicket,       \* the None of an Option<PollTicket>
    MaxGeneration,  \* the last generation (u64::MAX)
    MaxEpoch        \* bound on demand changes and expiries

ASSUME BoundsAssumption == MaxGeneration \in Nat /\ MaxEpoch \in Nat

\* None is no ticket.
ASSUME TicketAssumption ==
    \A S \in SUBSET Topics : NoTicket \notin [S -> [generation : Nat, epoch : Nat]]

VARIABLES
    topic,        \* Topics -> demanded, generation, epoch
    revision,     \* Inner::revision
    stopped,      \* Inner::stopped
    pc,           \* where the worker is
    seen,         \* the revision read at the top of the loop
    attached,     \* this HostedSession is not retired
    host,         \* its last_demand, generations and next_poll
    ticket,       \* the PollTicket of the poll under way
    result,       \* what the provider returned: schedule and reset intents
    baseline,     \* the generation each topic's provider state belongs to
    begun         \* the topics begun at the start of the last poll

service == <<topic, revision, stopped>>
vars == <<service, pc, seen, attached, host, ticket, result, baseline, begun>>

NoResult == [schedule |-> "None", resets |-> {}]
NewHost == [lastDemand |-> NoTicket, generations |-> NoTicket, nextPoll |-> "None"]
NoBaseline == [t \in Topics |-> MaxGeneration + 1]

-----------------------------------------------------------------------------
(* PollTicket: a function on the demanded topics. *)

Current ==
    [t \in {u \in Topics : topic[u].demanded} |->
        [generation |-> topic[t].generation, epoch |-> topic[t].epoch]]

SameDemand(a, b) ==
    /\ b # NoTicket
    /\ DOMAIN a = DOMAIN b
    /\ \A t \in DOMAIN a : a[t].generation = b[t].generation

\* Mutant: a topic the last poll already had is taken to be the same lifetime.
SameTopic(a, b, t) == b # NoTicket /\ t \in DOMAIN a /\ t \in DOMAIN b

SameGeneration(a, b, t) ==
    /\ b # NoTicket
    /\ t \in DOMAIN a /\ t \in DOMAIN b
    /\ a[t].generation = b[t].generation

\* rebase_resets saturates; a committed reset was below the limit.
RebaseResets(a, resets) ==
    IF a = NoTicket THEN a
    ELSE [t \in DOMAIN a |->
            IF t \in resets
            THEN [generation |-> a[t].generation + 1, epoch |-> a[t].epoch + 1]
            ELSE a[t]]

\* Mutant: only last_demand is rebased.
GenerationsKept(resets) == host.generations

RebasedGenerations(resets) == RebaseResets(host.generations, resets)

-----------------------------------------------------------------------------
Init ==
    /\ topic = [t \in Topics |-> [demanded |-> FALSE, generation |-> 0, epoch |-> 0]]
    /\ revision = 0 /\ stopped = FALSE
    /\ pc = "top" /\ seen = 0
    /\ attached = TRUE /\ host = NewHost
    /\ ticket = NoTicket /\ result = NoResult
    /\ baseline = NoBaseline /\ begun = {}

\* Condvar::notify_all: only a worker that already sleeps is woken.
NotifyAll == pc' = IF pc = "asleep" THEN "top" ELSE pc

Flipped(t) ==
    [topic[t] EXCEPT !.demanded = ~@, !.epoch = @ + 1,
                     !.generation = IF topic[t].demanded THEN @ ELSE @ + 1]

\* Generation exhaustion closes the service: every topic loses its demand.
Closed == [t \in Topics |-> [topic[t] EXCEPT !.demanded = FALSE]]

\* subscribe and drop: settle switches the demand of a topic.
ChangeDemand(t) ==
    /\ ~stopped /\ topic[t].epoch < MaxEpoch
    /\ IF ~topic[t].demanded /\ topic[t].generation = MaxGeneration
       THEN topic' = Closed /\ stopped' = TRUE
       ELSE topic' = [topic EXCEPT ![t] = Flipped(t)] /\ UNCHANGED stopped
    /\ revision' = revision + 1
    /\ NotifyAll
    /\ UNCHANGED <<seen, attached, host, ticket, result, baseline, begun>>

\* expire: the epoch fences output, the generation stays.
Expire(t) ==
    /\ ~stopped /\ topic[t].demanded /\ topic[t].epoch < MaxEpoch
    /\ topic' = [topic EXCEPT ![t].epoch = @ + 1]
    /\ revision' = revision + 1
    /\ NotifyAll
    /\ UNCHANGED <<stopped, seen, attached, host, ticket, result, baseline, begun>>

Shutdown ==
    /\ ~stopped
    /\ stopped' = TRUE /\ topic' = Closed /\ revision' = revision + 1
    /\ NotifyAll
    /\ UNCHANGED <<seen, attached, host, ticket, result, baseline, begun>>

\* A deadline set by an earlier poll passes.
DeadlinePasses ==
    /\ host.nextPoll = "Later"
    /\ host' = [host EXCEPT !.nextPoll = "Due"]
    /\ UNCHANGED <<service, pc, seen, attached, ticket, result, baseline, begun>>

-----------------------------------------------------------------------------
(* The worker. *)

ReadRevision ==
    /\ pc = "top"
    /\ seen' = revision
    /\ pc' = "poll"
    /\ UNCHANGED <<service, attached, host, ticket, result, baseline, begun>>

\* is_none_or: no poll yet, or one made for another demand.
Changed == ~SameDemand(Current, host.lastDemand)

\* No session to poll, or neither a new demand nor a passed deadline.
SkipPoll ==
    /\ pc = "poll"
    /\ ~attached \/ stopped \/ (~Changed /\ host.nextPoll # "Due")
    /\ pc' = "wait"
    /\ UNCHANGED <<service, seen, attached, host, ticket, result, baseline, begun>>

TakeTicket ==
    /\ pc = "poll"
    /\ attached /\ ~stopped
    /\ Changed \/ host.nextPoll = "Due"
    /\ ticket' = Current
    /\ pc' = "verify"
    /\ UNCHANGED <<service, seen, attached, host, result, baseline, begun>>

\* begin_generation for every demanded topic whose lifetime is new to the host.
BeginPoll ==
    /\ pc = "verify"
    /\ begun' = {t \in DOMAIN ticket : ~SameGeneration(ticket, host.generations, t)}
    /\ baseline' = [t \in Topics |-> IF t \in begun' THEN ticket[t].generation
                                                     ELSE baseline[t]]
    /\ host' = [host EXCEPT !.generations = ticket]
    /\ pc' = "provider"
    /\ UNCHANGED <<service, seen, attached, ticket, result>>

\* The provider samples without any lock and returns a schedule or an error.
ProviderPolls ==
    /\ pc = "provider"
    /\ \E resets \in SUBSET DOMAIN ticket, schedule \in {"None", "Later", "Failed"} :
          result' = [schedule |-> schedule, resets |-> resets]
    /\ pc' = "verifyAgain"
    /\ UNCHANGED <<service, seen, attached, host, ticket, baseline, begun>>

Remember ==
    /\ pc = "verifyAgain"
    /\ IF result.schedule = "Failed"
       THEN host' = [host EXCEPT !.lastDemand = ticket] /\ pc' = "discard"
       ELSE host' = [host EXCEPT !.lastDemand = ticket, !.nextPoll = result.schedule]
            /\ pc' = "commit"
    /\ UNCHANGED <<service, seen, attached, ticket, result, baseline, begun>>

Fenced ==
    \/ stopped
    \/ \E t \in DOMAIN ticket :
          \/ ~topic[t].demanded
          \/ topic[t].generation # ticket[t].generation
          \/ topic[t].epoch # ticket[t].epoch

\* Mutant: generations are taken to be endless.
NeverExhausted(resets) == FALSE

Exhausted(resets) == \E t \in resets : topic[t].generation = MaxGeneration

\* The generation and epoch a source reset establishes.
Reset(resets) ==
    [t \in Topics |-> IF t \in resets
                      THEN [topic[t] EXCEPT !.generation = @ + 1, !.epoch = @ + 1]
                      ELSE topic[t]]

\* commit_poll refuses a fenced or unacceptable batch; a reset past the last
\* generation closes the service.
CommitRefused ==
    /\ pc = "commit"
    /\ IF ~Fenced /\ Exhausted(result.resets)
       THEN topic' = Closed /\ stopped' = TRUE /\ revision' = revision + 1
       ELSE UNCHANGED service
    /\ pc' = "discard"
    /\ UNCHANGED <<seen, attached, host, ticket, result, baseline, begun>>

\* The commit reaches the queues; streams that overflow lose their demand in the
\* settle it ends with.  poll_completed(true) confirms the provider's own resets.
CommitAccepted ==
    /\ pc = "commit"
    /\ ~Fenced /\ ~Exhausted(result.resets)
    /\ \E lost \in {S \in SUBSET DOMAIN ticket :
                      \A t \in S : Reset(result.resets)[t].epoch < MaxEpoch} :
          /\ topic' = [t \in Topics |->
                IF t \in lost
                THEN [Reset(result.resets)[t] EXCEPT !.demanded = FALSE, !.epoch = @ + 1]
                ELSE Reset(result.resets)[t]]
          /\ revision' = IF lost = {} THEN revision ELSE revision + 1
    /\ host' = [host EXCEPT
                    !.generations = RebasedGenerations(result.resets),
                    !.lastDemand = RebaseResets(@, result.resets)]
    /\ baseline' = [t \in Topics |-> IF t \in result.resets
                                     THEN ticket[t].generation + 1 ELSE baseline[t]]
    /\ pc' = "wait" /\ ticket' = NoTicket /\ result' = NoResult
    /\ UNCHANGED <<stopped, seen, attached, begun>>

\* Source resets of an unpublished poll that the service still applies.
Applied(resets) ==
    {t \in resets : topic[t].demanded /\ topic[t].generation = ticket[t].generation}

\* One second after the end of a poll that was not published.
Retry == "Later"

\* discard_poll after poll_completed(false): own resets survive, and the ticket
\* it returns is current only if nothing else changed.
Discard ==
    /\ pc = "discard"
    /\ IF stopped
       THEN host' = [host EXCEPT !.lastDemand = NoTicket, !.nextPoll = Retry]
            /\ UNCHANGED service
       ELSE IF Exhausted(Applied(result.resets))
       THEN /\ topic' = Closed /\ stopped' = TRUE /\ revision' = revision + 1
            /\ host' = [host EXCEPT !.lastDemand = NoTicket, !.nextPoll = Retry]
       ELSE /\ topic' = Reset(Applied(result.resets))
            /\ host' = [host EXCEPT
                 !.nextPoll = Retry,
                 !.lastDemand =
                     IF SameDemand(Current', RebaseResets(ticket, Applied(result.resets)))
                     THEN Current' ELSE NoTicket]
            /\ UNCHANGED <<revision, stopped>>
    /\ pc' = "wait" /\ ticket' = NoTicket /\ result' = NoResult
    /\ UNCHANGED <<seen, attached, baseline, begun>>

\* Either verification fails: fail_poll, and the worker drops this HostedSession.
\* The target's next attachment starts a new one, with a new session.
Retire ==
    /\ pc \in {"verify", "verifyAgain"}
    /\ attached' = FALSE
    /\ host' = NewHost /\ baseline' = NoBaseline /\ begun' = {}
    /\ ticket' = NoTicket /\ result' = NoResult
    /\ pc' = "wait"
    /\ UNCHANGED <<service, seen>>

\* Mutant: sleeps although the revision moved.
WaitBlindly ==
    /\ pc = "wait"
    /\ pc' = "asleep"
    /\ UNCHANGED <<service, seen, attached, host, ticket, result, baseline, begun>>

Wait ==
    /\ pc = "wait"
    /\ pc' = IF revision = seen /\ ~stopped THEN "asleep" ELSE "top"
    /\ UNCHANGED <<service, seen, attached, host, ticket, result, baseline, begun>>

\* The wait is bounded: 100 ms or the nearest deadline.
WaitTimesOut ==
    /\ pc = "asleep"
    /\ pc' = "top"
    /\ UNCHANGED <<service, seen, attached, host, ticket, result, baseline, begun>>

Worker ==
    \/ ReadRevision \/ SkipPoll \/ TakeTicket \/ BeginPoll \/ ProviderPolls \/ Remember
    \/ CommitRefused \/ CommitAccepted \/ Discard \/ Wait

Next ==
    \/ Worker \/ WaitTimesOut \/ Retire
    \/ DeadlinePasses \/ Shutdown
    \/ \E t \in Topics : ChangeDemand(t) \/ Expire(t)

Spec == Init /\ [][Next]_vars

-----------------------------------------------------------------------------
Tickets == {NoTicket} \union
    UNION {[S -> [generation : 0..MaxGeneration, epoch : 0..(MaxEpoch + MaxGeneration)]] :
           S \in SUBSET Topics}

\* Types: the three copies of a ticket the host keeps, and the worker's place.
TypeOK ==
    /\ topic \in [Topics -> [demanded : BOOLEAN, generation : 0..MaxGeneration,
                             epoch : 0..(MaxEpoch + MaxGeneration)]]
    /\ revision \in Nat /\ seen \in 0..revision
    /\ stopped \in BOOLEAN /\ attached \in BOOLEAN
    /\ pc \in {"top", "poll", "verify", "provider", "verifyAgain", "commit", "discard",
               "wait", "asleep"}
    /\ ticket \in Tickets /\ host.lastDemand \in Tickets /\ host.generations \in Tickets
    /\ host.nextPoll \in {"None", "Later", "Due"}
    /\ result.resets \subseteq Topics /\ begun \subseteq Topics
    /\ baseline \in [Topics -> 0..(MaxGeneration + 1)]

\* When the provider samples a topic, the state it keeps for that topic belongs to
\* the generation its output is fenced with: it was told of every reset of the
\* host's, whether demand lapsed and resumed between two polls, a reset was applied
\* by discard_poll, or a committed reset moved the remembered tickets.
BaselineCurrent ==
    pc \in {"provider", "verifyAgain", "commit"} =>
        \A t \in DOMAIN ticket : baseline[t] = ticket[t].generation

\* begin_generation is never called for the lifetime the provider itself started
\* with an accepted source reset (ProviderSession's contract), so an event reader
\* does not lose the baseline it just established.
NeverBegunTwice ==
    [][pc = "verify" /\ pc' = "provider" =>
         \A t \in begun' : baseline[t] # ticket[t].generation]_vars

\* The worker never sleeps through a demand change: while it sleeps, the last poll
\* was made for exactly the demand and generations of the service.
NoSleepThroughDemand ==
    pc = "asleep" /\ attached => SameDemand(Current, host.lastDemand)

Needless(t) == stopped \/ ~attached \/ ~topic[t].demanded
PolledFor(t) == Needless(t) \/ SameDemand(Current, host.lastDemand)
Reached(t) == Needless(t) \/ baseline[t] = topic[t].generation

=============================================================================
