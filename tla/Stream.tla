------------------------------- MODULE Stream -------------------------------
(***************************************************************************)
(* The service composed with the SDK client at the far end of every        *)
(* subscription.  An item a stream takes from its queue reaches its client *)
(* in order (one QUIC stream, read by one task).  On the way a snapshot    *)
(* may travel as a delta against an acknowledged baseline; the stream is   *)
(* taken here after that reconstruction.                                   *)
(***************************************************************************)
EXTENDS Service, Validation

VARIABLE client   \* per subscription, the SDK's Validation and Feed cache

streamVars == <<inner, handles, poll, used, retired, crossed, client>>

StreamInit == Init /\ client = [id \in SubIds |-> NewClient]

\* Subscription::next on the service, Reader::next in the SDK.
Deliver(id) ==
    /\ client[id].phase # "Failed"
    /\ Receive(id)
    /\ client' = [client EXCEPT
           ![id] = Accept(@, inner.subs[id], PopItem(inner.queue[id]))]

\* A dropped subscription takes its client along.
StreamNext ==
    /\ \/ /\ Worker \/ Requests
          /\ client' = [id \in SubIds |-> IF id \in handles' THEN client[id] ELSE NewClient]
       \/ \E id \in SubIds : Deliver(id)
    /\ crossed' = History

\* The maintenance task finds the deadline of a topic passed that is still
\* Initializing; Overdue(k) is when it can.
Overdue(k) == k \in ArmedKeys(inner) /\ inner.topics[k[1]][k[2]].health = "Initializing"

LapseInitializing(k) ==
    /\ Overdue(k)
    /\ \E due \in SUBSET ArmedKeys(inner) : k \in due /\ ExpireStep(due)
    /\ UNCHANGED client
    /\ crossed' = History

\* Streams are served by tasks of their own, so a queued item is delivered; and
\* the maintenance task runs every 100 ms.  Only a new generation renews the
\* deadline of a topic that is still Initializing, so it is found passed; the
\* deadline of an Available topic may be renewed for ever and is not assumed to
\* be.  The second conjunct is weak fairness of LapseInitializing, with its
\* enabling condition written out for TLC.
StreamFairness ==
    /\ \A id \in SubIds : WF_streamVars(Deliver(id) /\ crossed' = History)
    /\ \A k \in Keys : []<>~Overdue(k) \/ []<><<LapseInitializing(k)>>_streamVars

StreamSpec == StreamInit /\ [][StreamNext]_streamVars

FairStreamSpec == StreamSpec /\ StreamFairness

---------------------------------------------------------------------------
(* Safety. *)

\* No stream the service produces is refused by the SDK: bootstrap is complete,
\* numbers grow, generations change by resets only, snapshots and events match.
SdkAccepts == \A id \in SubIds : client[id].phase # "Failed"

\* What the client will have once it has read its queue.
Caught(id) ==
    LET Read(c, i) == Accept(c, inner.subs[id], i)
    IN  FoldLeft(Read, client[id], inner.queue[id].initial \o inner.queue[id].updates)

\* No update is missed, doubled or reordered: a registered subscriber that reads
\* everything queued for it ends with exactly the service's state of the sessions
\* and topics it selected.
CatchesUp ==
    \A id \in Registered(inner) \cap handles :
        LET c == Caught(id)
            sub == inner.subs[id]
        IN  /\ c.phase = "Ready"
            /\ c.sequence <= inner.sequence
            /\ c.sessions = {s \in inner.sessions : MatchesSession(sub, s)}
            /\ \A s \in c.sessions :
                  /\ c.builds[s] = inner.build[s]
                  /\ \A t \in sub.topics :
                        c.topics[s][t] = TopicState(inner.topics[s][t])

\* A stream that is over tells why: every client of a forgotten subscription
\* reads a valid prefix that ends in Closed.
ClosesProperly ==
    \A id \in handles \ Registered(inner) :
        client[id].phase = "Closed"
        \/ /\ inner.queue[id].terminal # None
           /\ Begun(Caught(id))

---------------------------------------------------------------------------
(* Liveness. *)

\* A subscription the service forgot is told so, unless its stream goes first.
ForgottenIsTold ==
    \A id \in SubIds :
        id \in handles /\ ~inner.subs[id].registered
            ~> id \notin handles \/ client[id].phase = "Closed"

\* No generation of a topic stays Initializing: the provider publishes it or its
\* deadline makes it Unavailable.  (The first generation is never demanded.)
InitializingEnds ==
    \A s \in SessionIds, t \in Topics, g \in 2..MaxGeneration :
        LET Waiting == /\ s \in inner.sessions
                       /\ inner.topics[s][t].generation = g
                       /\ inner.topics[s][t].health = "Initializing"
        IN  Waiting ~> ~Waiting

=============================================================================
