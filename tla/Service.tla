------------------------------ MODULE Service ------------------------------
(***************************************************************************)
(* The observation service as its threads see it: every handler that takes *)
(* the lock of Inner is one action.  The actors are the lifecycle worker   *)
(* (one thread: it publishes statuses and runs one provider poll at a      *)
(* time), the subscription streams, the 100 ms maintenance task together   *)
(* with every request that expires first, and whoever stops the service.   *)
(*                                                                         *)
(* A provider runs without the lock between PollTicket::current and        *)
(* commit_poll, and a refused commit releases the lock again before        *)
(* discard_poll: those windows are the phases of the variable poll.        *)
(***************************************************************************)
EXTENDS Publication

CONSTANTS
    Targets,             \* game processes the worker may attach to
    EnumerationMayFail   \* whether the platform's process enumeration can fail

ASSUME EnumerationAssumption == EnumerationMayFail \in BOOLEAN

VARIABLES
    inner,     \* Mutex<Inner>, with the subscriptions' queues
    handles,   \* ids whose Subscription is still owned by a stream
    poll,      \* the worker's poll in flight
    used,      \* session identities drawn so far; they are random and fresh
    retired,   \* sessions whose attachment failed verification, unpublished
    crossed    \* history: ticket topics that lapsed while the poll was in flight

vars == <<inner, handles, poll, used, retired, crossed>>

NoPoll ==
    [phase |-> "None", session |-> None, ticket |-> <<>>, resets |-> {},
     failed |-> FALSE]

Init ==
    /\ inner = InitialInner(Targets)
    /\ handles = {}
    /\ poll = NoPoll
    /\ used = {}
    /\ retired = {}
    /\ crossed = {}

---------------------------------------------------------------------------
(* The lifecycle worker publishes a status wherever one may have changed. *)

\* update_lifecycle.  The thread that publishes is the one that polls.
UpdateLifecycle(targets, error) ==
    LET status == [targets |-> targets, error |-> error]
    IN  /\ poll.phase = "None"
        /\ ~inner.stopped
        /\ inner' = SyncRuntime(inner, status)
        /\ used' = used \cup Observed(status)
        /\ retired' = {}
        /\ UNCHANGED <<handles, poll>>

Activity(p) == inner.runtime.targets[p]
Attachments == {p \in Targets : Activity(p) \in SessionIds}
Attempts == {p \in Targets : Activity(p) = Retrying}

Without(gone) ==
    [p \in Targets |-> IF p \in gone THEN Absent ELSE Activity(p)]

\* Lifecycle::step makes one attachment at a time and polls only between steps.
BetweenAttachments == \A p \in Targets : Activity(p) # Attaching

\* The step forgets attachments that are no longer current.
PublishRetained(gone) ==
    /\ retired = {} /\ BetweenAttachments
    /\ gone # {} /\ gone \subseteq Attachments
    /\ UpdateLifecycle(Without(gone), inner.runtime.error)

\* Discovery failed.
PublishDiscoveryFailed ==
    /\ retired = {} /\ BetweenAttachments
    /\ EnumerationMayFail /\ ~inner.runtime.error
    /\ UpdateLifecycle(inner.runtime.targets, TRUE)

\* Discovery succeeded; failed attempts it no longer lists are forgotten.
PublishDiscovered(gone) ==
    /\ retired = {} /\ BetweenAttachments
    /\ inner.runtime.error \/ gone # {}
    /\ gone \subseteq Attempts
    /\ UpdateLifecycle(Without(gone), FALSE)

PublishAttaching(p) ==
    /\ retired = {} /\ BetweenAttachments
    /\ ~inner.runtime.error
    /\ Activity(p) \in {Absent, Retrying}
    /\ UpdateLifecycle([inner.runtime.targets EXCEPT ![p] = Attaching], FALSE)

\* The attachment succeeded under a fresh session identity, or is retried later.
PublishAttached(p, activity) ==
    /\ Activity(p) = Attaching
    /\ UpdateLifecycle([inner.runtime.targets EXCEPT ![p] = activity], FALSE)

\* After a round of polls: targets whose attachment failed verification.
PublishRetired ==
    /\ retired # {}
    /\ UpdateLifecycle([p \in Targets |-> IF Activity(p) \in retired THEN Retrying
                                           ELSE Activity(p)], inner.runtime.error)

---------------------------------------------------------------------------
(* HostedSession::poll, the part that reads and writes the service. *)

\* HostedSession::poll takes a ticket; the host verified the process.
StartPoll(s) ==
    /\ poll.phase = "None" /\ BetweenAttachments
    /\ s \in Observed(inner.runtime) \ retired
    /\ HasTicket(inner, s)
    /\ poll' = [NoPoll EXCEPT !.phase = "Sampling", !.session = s,
                              !.ticket = CurrentTicket(inner, s)]
    /\ UNCHANGED <<inner, handles, used, retired>>

\* commit_poll after the process verified again.  A refusal is answered by
\* discard_poll under a second acquisition of the lock.
CommitStep(batch, build) ==
    LET outcome == CommitOutcome(inner, poll.session, poll.ticket, batch, build)
    IN  /\ poll.phase = "Sampling"
        /\ inner' = CommitPoll(inner, poll.session, poll.ticket, batch, build)
        /\ poll' = IF outcome = "Committed" THEN NoPoll
                   ELSE [poll EXCEPT !.phase = "Refused",
                                     !.resets = ResetIntents(batch),
                                     !.failed = outcome = "Rejected"]
        /\ UNCHANGED <<handles, used, retired>>

\* The provider returned an error, or ignored one of its sink: its data is lost,
\* the resets it had declared are not.
ProviderFails(resets) ==
    /\ poll.phase = "Sampling"
    /\ poll' = [poll EXCEPT !.phase = "Refused", !.resets = resets, !.failed = TRUE]
    /\ UNCHANGED <<inner, handles, used, retired>>

DiscardRefused ==
    /\ poll.phase = "Refused"
    /\ inner' = DiscardPoll(inner, poll.session, poll.ticket, poll.resets, poll.failed)
    /\ poll' = NoPoll
    /\ UNCHANGED <<handles, used, retired>>

\* Verification failed before or after the provider ran: its resets are not
\* trusted either, and the attachment is dropped.
VerificationFails ==
    /\ poll.phase = "Sampling"
    /\ inner' = DiscardPoll(inner, poll.session, poll.ticket, {}, TRUE)
    /\ retired' = retired \cup {poll.session}
    /\ poll' = NoPoll
    /\ UNCHANGED <<handles, used>>

---------------------------------------------------------------------------
(* Requests, streams, maintenance and shutdown. *)

\* ServiceState::expire, and status and snapshot, which expire before they read.
ExpireStep(due) ==
    /\ due # {} /\ due \subseteq ArmedKeys(inner)
    /\ inner' = Expire(inner, due)
    /\ UNCHANGED <<handles, poll, used, retired>>

\* A selection without topics is refused like any other invalid one.
Selections == [sessions: {All} \cup SessionIds, topics: SUBSET Topics \ {{}}]

\* ServiceView::subscribe.  It expires first; a request that is refused then
\* changes nothing more, and is an ExpireStep.
Subscribe(sel, due) ==
    LET st == Expire(inner, due)
        admitted == Admit(st, sel)
    IN  /\ due \subseteq ArmedKeys(inner)
        /\ Acceptable(st, sel)
        /\ inner' = admitted
        /\ handles' = IF admitted.queue[admitted.next].initial = <<>> THEN handles
                      ELSE handles \cup {admitted.next}
        /\ UNCHANGED <<poll, used, retired>>

\* Subscription::next returns an item.
Receive(id) ==
    /\ id \in handles
    /\ CanPop(inner.queue[id])
    /\ inner' = [inner EXCEPT !.queue[id] = PopRest(@)]
    /\ UNCHANGED <<handles, poll, used, retired>>

\* Drop for Subscription.
DropSubscription(id) ==
    /\ id \in handles
    /\ inner' = [Settle(Unregister(inner, id)) EXCEPT !.queue[id] = EmptyQueue]
    /\ handles' = handles \ {id}
    /\ UNCHANGED <<poll, used, retired>>

Shutdown ==
    /\ inner' = Close(inner, "ServiceStopped")
    /\ UNCHANGED <<handles, poll, used, retired>>

---------------------------------------------------------------------------

\* History: while a poll is in flight, the ticket topics whose demand, freshness
\* or generation the other actors ended.
History ==
    IF poll.phase = "None" \/ poll'.phase = "None" THEN {}
    ELSE crossed \cup
         {t \in DOMAIN poll.ticket :
            LET was == inner.topics[poll.session][t]
                is == inner'.topics[poll.session][t]
            IN  \/ ~is.demanded
                \/ was.armed /\ ~is.armed
                \/ is.generation # was.generation}

Worker ==
    \/ \E gone \in SUBSET Targets : PublishRetained(gone)
    \/ PublishDiscoveryFailed
    \/ \E gone \in SUBSET Targets : PublishDiscovered(gone)
    \/ \E p \in Targets : PublishAttaching(p)
    \/ \E p \in Targets, a \in {Retrying} \cup (SessionIds \ used) : PublishAttached(p, a)
    \/ PublishRetired
    \/ \E s \in SessionIds : StartPoll(s)
    \/ \E batch \in Batches, b \in Builds : CommitStep(batch, b)
    \/ DiscardRefused
    \/ \E resets \in SUBSET Topics : ProviderFails(resets)
    \/ VerificationFails

Requests ==
    \/ \E due \in SUBSET ArmedKeys(inner) : ExpireStep(due)
    \/ \E sel \in Selections, due \in SUBSET ArmedKeys(inner) : Subscribe(sel, due)
    \/ \E id \in SubIds : DropSubscription(id)
    \/ Shutdown

Next ==
    /\ Worker \/ Requests \/ \E id \in SubIds : Receive(id)
    /\ crossed' = History

Spec == Init /\ [][Next]_vars

---------------------------------------------------------------------------
(* Types. *)

TopicType ==
    [generation: 1..MaxGeneration, epoch: 0..MaxEpoch, demanded: BOOLEAN,
     health: Healths, snapshot: {None} \cup Envelope, armed: BOOLEAN]

SubType ==
    [registered: BOOLEAN, active: BOOLEAN, sessions: {All} \cup SessionIds,
     topics: SUBSET Topics]

\* Every counter stays in its machine range and every topic is well formed.
WellTyped(st) ==
    /\ st.sequence \in 0..MaxSequence
    /\ st.stopped \in BOOLEAN
    /\ st.sessions \subseteq SessionIds
    /\ st.topics \in [SessionIds -> [Topics -> TopicType]]
    /\ st.next \in 0..MaxSubscription
    /\ st.subs \in [SubIds -> SubType]

TypeOK ==
    /\ WellTyped(inner)
    /\ inner.runtime \in [targets: [Targets -> {Absent, Attaching, Retrying} \cup SessionIds],
                          error: BOOLEAN]
    /\ handles \subseteq SubIds
    /\ poll.phase \in {"None", "Sampling", "Refused"}
    /\ poll.phase # "None" => poll.session \in SessionIds
    /\ DOMAIN poll.ticket \subseteq Topics

---------------------------------------------------------------------------
(* Safety. *)

\* Demand is exactly what the registered subscribers ask for, after every
\* handler: settle reaches its fixpoint even when its own resets overflow a
\* queue, and an overflowed, ended or dropped subscription leaves no demand.
DemandExact ==
    /\ \A s \in inner.sessions, t \in Topics :
          inner.topics[s][t].demanded <=> Demands(inner, s, t)
    /\ \A id \in Registered(inner) : ~Ended(inner.queue[id])

\* A topic exposes data only while it is demanded and its freshness deadline is
\* armed; nothing that promises data later is without a deadline; and a snapshot
\* belongs to the current generation and to a number already given out.
FreshTopic(t, topic) ==
    /\ topic.armed <=> topic.health \in {"Initializing", "Available"}
    /\ topic.demanded <=> topic.health # "Idle"
    /\ topic.snapshot # None =>
          topic.health = "Available" /\ topic.snapshot.generation = topic.generation
    /\ topic.health = "Available" /\ t \in SnapshotTopics => topic.snapshot # None

StampKnown(topic, sequence) ==
    topic.snapshot # None => topic.snapshot.sequence \in 1..sequence

Freshness ==
    \A s \in inner.sessions, t \in Topics :
        /\ FreshTopic(t, inner.topics[s][t])
        /\ StampKnown(inner.topics[s][t], inner.sequence)

\* No reader is stranded: a stream whose subscription the service forgot finds a
\* terminal in its queue, or has received it.
NoStrandedReader ==
    \A id \in handles : inner.subs[id].registered \/ Ended(inner.queue[id])

\* A stopped service holds no subscriber, no demand and no data.
StoppedHoldsNothing ==
    inner.stopped =>
        /\ Registered(inner) = {}
        /\ \A s \in inner.sessions, t \in Topics :
              LET topic == inner.topics[s][t] IN
              ~topic.demanded /\ ~topic.armed /\ topic.snapshot = None

\* Memory is bounded: no queue outgrows its budget, and the snapshots retained
\* for all sessions together fit theirs, whichever session's poll added the last.
WithinBudgets ==
    /\ \A id \in SubIds :
          /\ Len(inner.queue[id].updates) <= QueueBudget
          /\ Len(inner.queue[id].initial) <= InitialBudget
    /\ Cardinality({k \in Keys : k[1] \in inner.sessions
                                 /\ inner.topics[k[1]][k[2]].snapshot # None})
          <= RetainedBudget

---------------------------------------------------------------------------
(* Action properties. *)

\* Data appears in a step.
Publishes(s, t) ==
    inner'.topics[s][t].snapshot \notin {None, inner.topics[s][t].snapshot}

\* Late output: a poll publishes a topic only if, ever since its ticket, the
\* topic was demanded, did not expire and kept its generation.
NoLateOutput ==
    [][\A s \in SessionIds, t \in Topics :
          Publishes(s, t) => /\ poll.phase = "Sampling" /\ poll.session = s
                             /\ t \in DOMAIN poll.ticket
                             /\ t \notin crossed]_vars

\* A source reset is never lost: when a poll that declared one ends refused or
\* failed, even if the topic lapsed meanwhile, the generation it sampled is over,
\* unless nobody demands the topic any more or the service stopped.
ResetsSurvive ==
    [][poll.phase = "Refused" /\ poll'.phase = "None" =>
          \A t \in poll.resets \cap DOMAIN poll.ticket :
              LET topic == inner'.topics[poll.session][t] IN
              \/ inner'.stopped
              \/ ~topic.demanded
              \/ topic.generation > poll.ticket[t].generation]_vars

\* Numbers are never taken back or reused: the sequence and the fences of a live
\* session only grow, an end of demand or of freshness always moves the epoch,
\* and a stopped service gives out no number.
FencesMonotone ==
    [][/\ inner'.sequence >= inner.sequence
       /\ inner.stopped => inner'.sequence = inner.sequence
       /\ \A s \in inner.sessions \cap inner'.sessions, t \in Topics :
             LET was == inner.topics[s][t]
                 is == inner'.topics[s][t]
             IN  /\ is.generation >= was.generation /\ is.epoch >= was.epoch
                 /\ ~inner'.stopped /\ was.demanded # is.demanded => is.epoch > was.epoch
                 /\ ~was.demanded /\ is.demanded => is.generation > was.generation]_vars

\* For model checking: targets are compared for equality only.
TargetSymmetry == Permutations(Targets)
=============================================================================
