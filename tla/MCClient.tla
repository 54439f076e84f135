------------------------------ MODULE MCClient ------------------------------
(***************************************************************************)
(* What a client of the service is made of, in one model: the delta stream *)
(* of one subscription (Delivery), the feeds that listeners share          *)
(* (SharedFeeds), the watches over a listener (Watch) and the requests and *)
(* queries (Queries).                                                      *)
(*                                                                         *)
(* A behaviour is one of a single part, the one in part; a part with       *)
(* several bounds is here several times. The members of Pair are           *)
(* interchangeable: the calls on a watch, the targets.                     *)
(***************************************************************************)
EXTENDS Delivery, FiniteSets, TLC

CONSTANTS
    Parts,          \* the parts to check
    MaxSequence,    \* bound on the items of a stream
    s1, t1, t2, p1, p2,         \* a session, topics and payloads of Delivery
    l1, l2, m1, m2,             \* listeners; calls or targets
    None, Closer,
    Waiting, Unavailable, Bad, Absent

VARIABLES
    part,          \* the part at work
    closed, lock, registry, feed, task, queue, call, feedReader, finishing, job, closing,
    count, topic, changed, events, terminal, watchCache, released, shut, published,
    occurred, returned, lost, cancels, watchEnded, up, run, record, targets, health, used,
    client, handle, calls, only

partVars == <<part, sequence, taken, generation, ended, updating, topics, base, readAcks,
              frames, acks, deltas, known, pending, cache, status, closed, lock, registry,
              feed, task, queue, call, feedReader, finishing, job, closing, count, topic,
              changed, events, terminal, watchCache, released, shut, published, occurred,
              returned, lost, cancels, watchEnded, up, run, record, targets, health, used,
              client, handle, calls, only>>

MCPayloads == {p1, p2}
MCHash == [p \in MCPayloads |-> IF p = p1 THEN 1 ELSE 2]
MCCap(n) == n < MaxSequence

OneTopic == {t1}
TwoTopics == {t1, t2}
Both == {l1, l2}
SameTopic == (l1 :> <<t1>>) @@ (l2 :> <<t1>>)
MoreTopics == (l1 :> <<t1, t2>>) @@ (l2 :> <<t2>>)

Pair == {m1, m2}
Symmetry == Permutations(Pair)

\* Two listeners of one feed, one of which reads events.
Events == INSTANCE SharedFeeds WITH
    Listeners <- Both, Budget <- 1, Topics <- OneTopic, Selection <- SameTopic,
    WantsEvents <- {l1}, Readers <- {l1}, Incarnations <- 1, MaxGeneration <- 2,
    MaxEvents <- 2, Faults <- {"Failed", "Resync", "Cancel", "Timeout"},
    reader <- feedReader

\* A listener of two feeds and one of the second alone.
Selections == INSTANCE SharedFeeds WITH
    Listeners <- Both, Budget <- 1, Topics <- TwoTopics, Selection <- MoreTopics,
    WantsEvents <- {}, Readers <- {}, Incarnations <- 1, MaxGeneration <- 0,
    MaxEvents <- 0, Faults <- {"Ended"}, reader <- feedReader

\* A feed that is replaced by a new one while the manager closes.
Restarts == INSTANCE SharedFeeds WITH
    Listeners <- Both, Budget <- 1, Topics <- OneTopic, Selection <- SameTopic,
    WantsEvents <- {}, Readers <- {}, Incarnations <- 2, MaxGeneration <- 0,
    MaxEvents <- 0, Faults <- {"Close"}, reader <- feedReader

\* Two calls on a snapshot watch, whose Arcs reuse addresses.
Watched == INSTANCE Watch WITH
    Values <- MCPayloads, Mode <- "snapshot", Executed <- FALSE, Calls <- Pair,
    MaxAddress <- 2, MaxPublished <- 3, MaxCancels <- 0, cache <- watchCache,
    ended <- watchEnded

\* An event watch whose callers cancel, directly and through runtime::execute.
Queue == INSTANCE Watch WITH
    Values <- {}, Mode <- "events", Executed <- FALSE, Calls <- Pair, MaxAddress <- 2,
    MaxPublished <- 2, MaxCancels <- 1, cache <- watchCache, ended <- watchEnded

ByApi == INSTANCE Watch WITH
    Values <- {}, Mode <- "events", Executed <- TRUE, Calls <- Pair, MaxAddress <- 2,
    MaxPublished <- 1, MaxCancels <- 1, cache <- watchCache, ended <- watchEnded

\* A one-shot read.
OneShot == INSTANCE Watch WITH
    Values <- MCPayloads, Mode <- "read", Executed <- FALSE, Calls <- {m1},
    MaxAddress <- 2, MaxPublished <- 4, MaxCancels <- 0, cache <- watchCache,
    ended <- watchEnded

\* One request while targets come and go.
Status == INSTANCE Queries WITH
    Calls <- {1}, Targets <- Pair, SessionIds <- {1, 2}, MaxRuns <- 1, topics <- health

\* One request across two runs of the service.
Runs == INSTANCE Queries WITH
    Calls <- {1}, Targets <- {m1}, SessionIds <- {1}, MaxRuns <- 2, topics <- health

\* Two clones of a client, one of which closes it.
Closing == INSTANCE Queries WITH
    Calls <- {1, 2}, Targets <- {m1}, SessionIds <- {1}, MaxRuns <- 1, topics <- health

\* The bounds of every part, which its own module states.
ASSUME PartsAssumption ==
    /\ Events!SharedAssumption /\ Selections!SharedAssumption /\ Restarts!SharedAssumption
    /\ Watched!WatchAssumption /\ Queue!WatchAssumption
    /\ ByApi!WatchAssumption /\ OneShot!WatchAssumption
    /\ Status!QueriesAssumption /\ Runs!QueriesAssumption /\ Closing!QueriesAssumption

\* The variables of the parts that are not at work hold no value, and keep it.
Idle == "unused"

Unused ==
    /\ part # "delivery" => deltas
    /\ part \in {"delivery", "status", "runs", "close"} =>
          /\ closed = Idle /\ lock = Idle /\ call = Idle
    /\ part \notin {"events", "selections", "restarts"} =>
          /\ registry = Idle /\ feed = Idle /\ task = Idle /\ queue = Idle
          /\ feedReader = Idle /\ finishing = Idle /\ job = Idle /\ closing = Idle
          /\ count = Idle
    /\ part \notin {"snapshots", "queue", "executed", "read"} =>
          /\ topic = Idle /\ changed = Idle /\ events = Idle /\ terminal = Idle
          /\ watchCache = Idle /\ released = Idle /\ shut = Idle /\ published = Idle
          /\ occurred = Idle /\ returned = Idle /\ lost = Idle /\ cancels = Idle
          /\ watchEnded = Idle
    /\ part \notin {"status", "runs", "close"} =>
          /\ up = Idle /\ run = Idle /\ record = Idle /\ targets = Idle /\ health = Idle
          /\ used = Idle /\ client = Idle /\ handle = Idle /\ calls = Idle /\ only = Idle

Kept ==
    /\ part # "delivery" =>
          UNCHANGED <<sequence, taken, generation, ended, updating, topics, base,
                       readAcks, frames, acks, deltas, known, pending, cache, status>>
    /\ part \in {"delivery", "status", "runs", "close"} =>
          UNCHANGED <<closed, lock, call>>
    /\ part \notin {"events", "selections", "restarts"} =>
          UNCHANGED <<registry, feed, task, queue, feedReader, finishing, job, closing,
                       count>>
    /\ part \notin {"snapshots", "queue", "executed", "read"} =>
          UNCHANGED <<topic, changed, events, terminal, watchCache, released, shut,
                       published, occurred, returned, lost, cancels, watchEnded>>
    /\ part \notin {"status", "runs", "close"} =>
          UNCHANGED <<up, run, record, targets, health, used, client, handle, calls, only>>

PartInit ==
    /\ part \in Parts
    /\ Init
    /\ part = "events" => Events!Init
    /\ part = "selections" => Selections!Init
    /\ part = "restarts" => Restarts!Init
    /\ part = "snapshots" => Watched!Init
    /\ part = "queue" => Queue!Init
    /\ part = "executed" => ByApi!Init
    /\ part = "read" => OneShot!Init
    /\ part = "status" => Status!Init
    /\ part = "runs" => Runs!Init
    /\ part = "close" => Closing!Init
    /\ Unused

PartNext ==
    /\ \/ part = "delivery" /\ Next
       \/ part = "events" /\ Events!Next
       \/ part = "selections" /\ Selections!Next
       \/ part = "restarts" /\ Restarts!Next
       \/ part = "snapshots" /\ Watched!Next
       \/ part = "queue" /\ Queue!Next
       \/ part = "executed" /\ ByApi!Next
       \/ part = "read" /\ OneShot!Next
       \/ part = "status" /\ Status!Next
       \/ part = "runs" /\ Runs!Next
       \/ part = "close" /\ Closing!Next
    /\ Kept /\ UNCHANGED part

PartSpec == PartInit /\ [][PartNext]_partVars

-----------------------------------------------------------------------------
(* Properties. *)

\* Types of the state of every part.
PartsTypeOK ==
    /\ part = "events" => Events!TypeOK
    /\ part = "selections" => Selections!TypeOK
    /\ part = "restarts" => Restarts!TypeOK
    /\ part = "snapshots" => Watched!TypeOK
    /\ part = "queue" => Queue!TypeOK
    /\ part = "executed" => ByApi!TypeOK
    /\ part = "read" => OneShot!TypeOK
    /\ part = "status" => Status!TypeOK
    /\ part = "runs" => Runs!TypeOK
    /\ part = "close" => Closing!TypeOK

\* A client is only told what is so, and in order. The states a listener holds
\* mirror its feed and its queued events are of the current generation; a decoded
\* value is the one of the state it is returned with, although states reuse
\* addresses and calls run concurrently; of the events none is lost, repeated or
\* reordered, but for the one a cancelled call of the exported API had taken; the
\* answer to a query is about the session it was asked for, across restarts that
\* reuse identifiers, and a session chosen as the only one was the only one.
ToldIsTrue ==
    /\ part = "events" => Events!ListenersMirrorFeed
    /\ part = "selections" => Selections!ListenersMirrorFeed
    /\ part = "restarts" => Restarts!ListenersMirrorFeed
    /\ part = "events" => Events!EventsCurrent
    /\ part = "snapshots" => Watched!DecodedIsCurrent
    /\ part = "queue" => Queue!EventsAccounted
    /\ part = "executed" => ByApi!EventsAccounted
    /\ part = "queue" => Queue!EventsInOrder
    /\ part = "executed" => ByApi!EventsInOrder
    /\ part = "status" => Status!SnapshotIsTheSessions
    /\ part = "runs" => Runs!SnapshotIsTheSessions
    /\ part = "status" => Status!SingleWasOnly
    /\ part = "runs" => Runs!SingleWasOnly

\* What ends is reported and releases what it held. No listener stays attached to
\* a feed that is gone and no feed goes on without one; a failed subscribe call
\* names the failure that caused it; the end of a feed and a payload that does
\* not decode reach the pending calls and end the demand; a one-shot read and a
\* failed connection leave nothing behind.
EndsAreReported ==
    /\ part = "events" => Events!NoOrphanedListener
    /\ part = "selections" => Selections!NoOrphanedListener
    /\ part = "restarts" => Restarts!NoOrphanedListener
    /\ part = "selections" => Selections!NoStrandedFeed
    /\ part = "selections" => Selections!SetupReportsCause
    /\ part = "snapshots" => Watched!EndIsReported
    /\ part = "queue" => Queue!EndIsReported
    /\ part = "executed" => ByApi!EndIsReported
    /\ part = "snapshots" => Watched!FailureReleases
    /\ part = "read" => OneShot!ReadReleases
    /\ part = "runs" => Runs!FailedIsReleased
    /\ part = "close" => Closing!FailedIsReleased

\* After close has returned no request of any clone succeeds, the ones under way
\* included (Client::request, Client::close).
NothingAfterClose == [][part = "close" => Closing!NothingAfterClose]_partVars
=============================================================================
