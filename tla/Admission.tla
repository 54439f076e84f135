----------------------------- MODULE Admission ------------------------------
(***************************************************************************)
(* Admission of connections, requests and subscription streams by the      *)
(* transport (transport/connection.rs, requests.rs and server.rs).  The    *)
(* tasks of one connection are interchangeable, so each connection keeps   *)
(* the number of its tasks in every stage:                                 *)
(*   header    reading the request, under a global and a local permit      *)
(*   reply     writing an answer, under the same permits                   *)
(*   global    in Streams::open, with the global slot and not yet the      *)
(*             local one                                                   *)
(*   slot      the slot is taken and the service has not answered yet      *)
(*   refusing  the service refused: the slot is being dropped              *)
(*   serving   an established subscription, which gave its permits back    *)
(*   dropping  its slot is being dropped                                   *)
(***************************************************************************)
EXTENDS Naturals, FiniteSets, FiniteSetsExt

CONSTANTS
    Peers,               \* remote endpoints, one connection of each
    Remote, Approved,    \* the access mode is remote; the allowlist
    Connections,         \* CONNECTIONS
    Requests,            \* REQUESTS
    RequestsPerConnection,
    Global, PerConnection,   \* SubscriptionLimits
    SessionScopes, SessionTopics   \* "four complete Warframe session scopes"

LimitsAssumption ==
    /\ Remote \in BOOLEAN /\ Approved \subseteq Peers
    /\ {Connections, Requests, RequestsPerConnection, Global, PerConnection} \subseteq Nat \ {0}
    /\ {SessionScopes, SessionTopics} \subseteq Nat

VARIABLES
    server,         \* up, closing, or down once Server::shutdown has returned
    conn,           \* each peer: idle, rejected, open, closing, or dropped by the router
    tasks,          \* the number of its tasks in each stage
    connections,    \* free connection slots
    requests,       \* free request permits, of all connections
    perConnection,  \* and of each
    global, local,  \* free subscription permits, of all connections and of each
    active,         \* Streams::active
    credit          \* the streams the peer may have open

vars == <<server, conn, tasks, connections, requests, perConnection, global, local, active, credit>>
requestVars == <<requests, perConnection>>
slotVars == <<global, local, active, credit>>
connVars == <<server, conn, connections>>

Stages == {"header", "reply", "global", "slot", "refusing", "serving", "dropping"}
Idle == [s \in Stages |-> 0]
Total(p) == SumFunctionOnSet(tasks[p], Stages)

Init ==
    /\ server = "up" /\ connections = Connections /\ requests = Requests /\ global = Global
    /\ conn = [p \in Peers |-> "idle"]
    /\ tasks = [p \in Peers |-> Idle]
    /\ perConnection = [p \in Peers |-> RequestsPerConnection]
    /\ local = [p \in Peers |-> PerConnection]
    /\ active = [p \in Peers |-> 0]
    /\ credit = [p \in Peers |-> RequestsPerConnection]

-----------------------------------------------------------------------------
(* A task moves from one stage to the next; None ends or starts it. *)

Move(p, from, to) ==
    /\ tasks[p][from] > 0
    /\ tasks' = [tasks EXCEPT ![p][from] = @ - 1, ![p][to] = @ + 1]

End(p, from) ==
    /\ tasks[p][from] > 0
    /\ tasks' = [tasks EXCEPT ![p][from] = @ - 1]

ReleaseRequest(p) ==
    /\ requests' = requests + 1
    /\ perConnection' = [perConnection EXCEPT ![p] = @ + 1]

-----------------------------------------------------------------------------
(* Handler::accept *)

\* Policy::permits
Permits(p) == ~Remote \/ p \in Approved

\* The new connection has its own semaphores and no stream.
Accept(p) ==
    /\ server = "up" /\ conn[p] = "idle" /\ Permits(p) /\ connections > 0
    /\ conn' = [conn EXCEPT ![p] = "open"]
    /\ connections' = connections - 1
    /\ perConnection' = [perConnection EXCEPT ![p] = RequestsPerConnection]
    /\ local' = [local EXCEPT ![p] = PerConnection]
    /\ active' = [active EXCEPT ![p] = 0]
    /\ credit' = [credit EXCEPT ![p] = RequestsPerConnection]
    /\ UNCHANGED <<server, tasks, requests, global>>

\* A reader without approval, or one too many: nothing is allocated.
Reject(p) ==
    /\ server = "up" /\ conn[p] = "idle" /\ (~Permits(p) \/ connections = 0)
    /\ conn' = [conn EXCEPT ![p] = "rejected"]
    /\ UNCHANGED <<server, tasks, connections, requestVars, slotVars>>

Retry(p) ==
    /\ conn[p] = "rejected"
    /\ conn' = [conn EXCEPT ![p] = "idle"]
    /\ UNCHANGED <<server, tasks, connections, requestVars, slotVars>>

\* The peer opens a stream within its credit.  Both permits or neither: a stream
\* without them is reset and leaves nothing behind.
OpenStream(p) ==
    /\ conn[p] = "open" /\ Total(p) < credit[p]
    /\ requests > 0 /\ perConnection[p] > 0
    /\ requests' = requests - 1
    /\ perConnection' = [perConnection EXCEPT ![p] = @ - 1]
    /\ tasks' = [tasks EXCEPT ![p]["header"] = @ + 1]
    /\ UNCHANGED <<connVars, slotVars>>

\* accept_bi fails: the peer left or the endpoint closes.  From here on every
\* task is aborted, which ends it at the await it is in.
Disconnect(p) ==
    /\ conn[p] = "open"
    /\ conn' = [conn EXCEPT ![p] = "closing"]
    /\ UNCHANGED <<server, tasks, connections, requestVars, slotVars>>

\* tasks.shutdown has joined every task.
Release(p) ==
    /\ conn[p] = "closing" /\ Total(p) = 0
    /\ conn' = [conn EXCEPT ![p] = "idle"]
    /\ connections' = connections + 1
    /\ UNCHANGED <<server, tasks, requestVars, slotVars>>

-----------------------------------------------------------------------------
(* requests::serve and dispatch *)

\* Ping, catalog, status and snapshot are answered at once.
Answer(p) ==
    /\ Move(p, "header", "reply")
    /\ UNCHANGED <<connVars, requestVars, slotVars>>

\* The header is late, malformed or aborted.
HeaderFails(p) ==
    /\ End(p, "header") /\ ReleaseRequest(p)
    /\ UNCHANGED <<connVars, slotVars>>

\* The answer is written, or fails, is late or is aborted.
Replied(p) ==
    /\ End(p, "reply") /\ ReleaseRequest(p)
    /\ UNCHANGED <<connVars, slotVars>>

\* Subscribe: Streams::open takes the global permit first.
OpenGlobal(p) ==
    /\ IF global > 0
       THEN Move(p, "header", "global") /\ global' = global - 1
       ELSE Move(p, "header", "reply") /\ UNCHANGED global
    /\ UNCHANGED <<connVars, requestVars, local, active, credit>>

\* Mutant: the refused open keeps the global permit.
OpenLocalLeaking(p) ==
    /\ IF local[p] > 0
       THEN /\ Move(p, "global", "slot")
            /\ local' = [local EXCEPT ![p] = @ - 1]
            /\ active' = [active EXCEPT ![p] = @ + 1]
            /\ credit' = [credit EXCEPT ![p] = active[p] + 1 + RequestsPerConnection]
            /\ UNCHANGED global
       ELSE /\ Move(p, "global", "reply")
            /\ UNCHANGED slotVars
    /\ UNCHANGED <<connVars, requestVars>>

\* Then the local one, and raises the peer's credit.
OpenLocal(p) ==
    /\ IF local[p] > 0
       THEN /\ Move(p, "global", "slot")
            /\ local' = [local EXCEPT ![p] = @ - 1]
            /\ active' = [active EXCEPT ![p] = @ + 1]
            /\ credit' = [credit EXCEPT ![p] = active[p] + 1 + RequestsPerConnection]
            /\ UNCHANGED global
       ELSE /\ Move(p, "global", "reply")
            /\ global' = global + 1
            /\ UNCHANGED <<local, active, credit>>
    /\ UNCHANGED <<connVars, requestVars>>

SlotInactive(p) ==
    /\ active' = [active EXCEPT ![p] = @ - 1]
    /\ credit' = [credit EXCEPT ![p] = active[p] - 1 + RequestsPerConnection]
    /\ UNCHANGED <<global, local>>

\* Then its permits are dropped.
SlotReleased(p) ==
    /\ global' = global + 1
    /\ local' = [local EXCEPT ![p] = @ + 1]
    /\ UNCHANGED <<active, credit>>

\* The service refuses the request, and the error is written after the slot is gone.
Refuse(p) ==
    /\ Move(p, "slot", "refusing") /\ SlotInactive(p)
    /\ UNCHANGED <<connVars, requestVars>>

Refused(p) ==
    /\ Move(p, "refusing", "reply") /\ SlotReleased(p)
    /\ UNCHANGED <<connVars, requestVars>>

\* The service accepts it; the request permits go back.
Establish(p) ==
    /\ Move(p, "slot", "serving") /\ ReleaseRequest(p)
    /\ UNCHANGED <<connVars, slotVars>>

\* delivery::serve returns or is aborted: the subscription goes, then the slot.
EndDelivery(p) ==
    /\ Move(p, "serving", "dropping") /\ SlotInactive(p)
    /\ UNCHANGED <<connVars, requestVars>>

EndedDelivery(p) ==
    /\ End(p, "dropping") /\ SlotReleased(p)
    /\ UNCHANGED <<connVars, requestVars>>

-----------------------------------------------------------------------------
(* Server::shutdown *)

Shutdown ==
    /\ server = "up"
    /\ server' = "closing"
    /\ UNCHANGED <<conn, tasks, connections, requestVars, slotVars>>

\* Mutant: the tasks are waited for before the router is shut down.
DropAcceptLast(p) ==
    /\ server = "closing" /\ conn[p] \in {"open", "closing"}
    /\ \A q \in Peers : Total(q) = 0
    /\ conn' = [conn EXCEPT ![p] = "dropped"]
    /\ connections' = connections + 1
    /\ UNCHANGED <<server, tasks, requestVars, slotVars>>

\* The router drops an accept that has not returned: its JoinSet aborts the tasks
\* without waiting for them, and its slot is free at once.
DropAccept(p) ==
    /\ server = "closing" /\ conn[p] \in {"open", "closing"}
    /\ conn' = [conn EXCEPT ![p] = "dropped"]
    /\ connections' = connections + 1
    /\ UNCHANGED <<server, tasks, requestVars, slotVars>>

RouterDown == \A p \in Peers : conn[p] \notin {"open", "closing"}

\* requests.close and wait: no tracked task is left.
Down ==
    /\ server = "closing" /\ RouterDown
    /\ \A p \in Peers : Total(p) = 0
    /\ server' = "down"
    /\ UNCHANGED <<conn, tasks, connections, requestVars, slotVars>>

-----------------------------------------------------------------------------

Task(p) ==
    \/ Answer(p) \/ HeaderFails(p) \/ Replied(p)
    \/ OpenGlobal(p) \/ OpenLocal(p)
    \/ Refuse(p) \/ Refused(p) \/ Establish(p)
    \/ EndDelivery(p) \/ EndedDelivery(p)

Connection(p) ==
    Accept(p) \/ Reject(p) \/ Retry(p) \/ OpenStream(p) \/ Disconnect(p) \/ Release(p) \/ DropAccept(p)

Next == Shutdown \/ Down \/ \E p \in Peers : Task(p) \/ Connection(p)

Spec == Init /\ [][Next]_vars

-----------------------------------------------------------------------------
(* Properties. *)

InStages(p, stages) == SumFunctionOnSet(tasks[p], stages)
HoldsRequest(p) == InStages(p, {"header", "reply", "global", "slot", "refusing"})
HoldsGlobal(p) == InStages(p, {"global", "slot", "refusing", "serving", "dropping"})
HoldsLocal(p) == InStages(p, {"slot", "refusing", "serving", "dropping"})
OverPeers(f) == SumFunctionOnSet(f, Peers)

\* Shape of the state.
TypeOK ==
    /\ server \in {"up", "closing", "down"}
    /\ conn \in [Peers -> {"idle", "rejected", "open", "closing", "dropped"}]
    /\ tasks \in [Peers -> [Stages -> Nat]]
    /\ connections \in 0..Connections /\ requests \in 0..Requests /\ global \in 0..Global
    /\ perConnection \in [Peers -> 0..RequestsPerConnection]
    /\ local \in [Peers -> 0..PerConnection]

\* No permit is lost or given back twice: every semaphore lacks exactly the
\* permits of the tasks in the stages that hold one (serve, Streams::open and
\* StreamSlot::drop, with every early return between them).
Conserved ==
    /\ requests + OverPeers([p \in Peers |-> HoldsRequest(p)]) = Requests
    /\ global + OverPeers([p \in Peers |-> HoldsGlobal(p)]) = Global
    /\ connections + Cardinality({p \in Peers : conn[p] \in {"open", "closing"}}) = Connections
    /\ \A p \in Peers : conn[p] \in {"open", "closing"} =>
          /\ perConnection[p] + HoldsRequest(p) = RequestsPerConnection
          /\ local[p] + HoldsLocal(p) = PerConnection

\* Streams: established subscriptions never use up the credit a peer needs for
\* its requests, and a dropped one takes its own credit away.
HeadroomKept == \A p \in Peers : conn[p] = "open" =>
    credit[p] = RequestsPerConnection + InStages(p, {"slot", "serving"})

\* accept: "Aborting a connection's requests drops every subscription before the
\* accepted connection releases its resource slot": a peer without a slot holds
\* nothing, so the connection slots bound the subscriptions and requests.
SlotOutlivesTasks == \A p \in Peers : conn[p] \in {"idle", "rejected"} => Total(p) = 0

\* Server::shutdown: when it returns, no task holds the service any more and all
\* permits are back.
ShutdownIsClean == server = "down" =>
    /\ \A p \in Peers : Total(p) = 0
    /\ requests = Requests /\ global = Global /\ connections = Connections

\* Permits are neither lost nor given out twice, whatever ends first: those that are
\* out are held by a task, subscriptions leave a peer the credit for its requests, a
\* connection slot outlives its tasks, and shutdown gets every permit back.
LimitsKept == Conserved /\ HeadroomKept /\ SlotOutlivesTasks /\ ShutdownIsClean

\* SubscriptionLimits::default: "Allow four complete Warframe session scopes per
\* connection": a connection is out of slots only when it holds that many streams.
ScopesFit == \A p \in Peers : local[p] = 0 => HoldsLocal(p) >= SessionScopes * SessionTopics
=============================================================================
