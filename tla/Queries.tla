------------------------------- MODULE Queries ---------------------------------
(***************************************************************************)
(* An SDK client and its requests (client.rs, local.rs, capability.rs and  *)
(* the exported api/client.rs, api/warframe.rs), and how the service       *)
(* answers them from its state (service/state.rs).  Streams are the        *)
(* subject of other modules; here are connecting, finding a session,       *)
(* asking for its cached snapshot, and closing, while games come and go    *)
(* and the service crashes and starts again.                               *)
(*                                                                         *)
(* A session has one topic.  Session identifiers are unique within a run   *)
(* of the service and may come again in another run.                       *)
(***************************************************************************)
EXTENDS Integers, FiniteSets

CONSTANTS
    Calls,          \* requests that may be under way at once
    Targets,        \* processes of the game
    SessionIds,
    MaxRuns         \* bound on the runs of the service

QueriesAssumption ==
    /\ IsFiniteSet(Targets)
    /\ IsFiniteSet(SessionIds) /\ SessionIds \subseteq Nat \ {0}
    /\ MaxRuns \in Nat \ {0}

VARIABLES
    up,         \* whether the service runs
    run,        \* its run_id
    record,     \* the run whose ticket is in runtime.json
    targets,    \* activity of every target: a session, or none
    topics,     \* the topic of every session
    used,       \* session identifiers of this run
    client,     \* the connection
    handle,     \* the session the application has chosen
    calls,      \* the requests
    only        \* sessions that were the only ones at some time of a call

service == <<up, run, record, targets, topics, used>>
vars == <<up, run, record, targets, topics, used, client, handle, calls, only>>

NoSession == [run |-> 0, id |-> 0]
NoTarget == 0
Attaching == -1       \* attaching, or retrying after a failure
Activities == SessionIds \cup {NoTarget, Attaching}
Anywhere == 0         \* the address is an endpoint ID, not a ticket
Refs == [run : 1 .. MaxRuns, id : SessionIds]

Idle == [health |-> "idle", deadline |-> "none"]
Healths == {"idle", "initializing", "unavailable", "available"}
NoClient == [phase |-> "none", at |-> Anywhere, closed |-> FALSE, endpoint |-> "none", shut |-> FALSE]
NoCall == [kind |-> "none", phase |-> "none", ref |-> NoSession, answer |-> [is |-> "none"]]

Error(e) == [is |-> "error", error |-> e]

-----------------------------------------------------------------------------
(* The service and the games.                                               *)

\* The sessions of Warframe, as the service's list of targets has them.
Warframe(ts) == {[run |-> run, id |-> ts[p]] : p \in {q \in Targets : ts[q] \in SessionIds}}

\* What the calls under way could have seen.
Seen(ts) ==
    only' = [c \in Calls |->
        IF calls[c].phase = "sent" /\ Cardinality(Warframe(ts)) = 1 THEN only[c] \cup Warframe(ts)
        ELSE only[c]]

\* A target is found, a session of it begins, it goes.
Observe(p, activity) ==
    /\ up /\ targets[p] # activity
    /\ activity \in SessionIds => activity \notin used
    /\ targets' = [targets EXCEPT ![p] = activity]
    /\ used' = used \cup ({activity} \cap SessionIds)
    /\ topics' = [s \in SessionIds |-> IF s \in {targets[p], activity} THEN Idle ELSE topics[s]]
    /\ Seen(targets')
    /\ UNCHANGED <<up, run, record, client, handle, calls>>

\* The worker publishes for the topic, and time passes.
Sample(s, topic) ==
    /\ up /\ \E p \in Targets : targets[p] = s
    /\ topics' = [topics EXCEPT ![s] = topic]
    /\ UNCHANGED <<up, run, record, targets, used, client, handle, calls, only>>

Publish(s, health) ==
    Sample(s, [health |-> health, deadline |-> IF health \in {"idle", "unavailable"} THEN "none" ELSE "ahead"])

DeadlinePasses(s) ==
    /\ topics[s].deadline = "ahead"
    /\ Sample(s, [topics[s] EXCEPT !.deadline = "passed"])

Crash ==
    /\ up /\ up' = FALSE
    /\ targets' = [p \in Targets |-> NoTarget]
    /\ topics' = [s \in SessionIds |-> Idle]
    /\ used' = {}
    /\ UNCHANGED <<run, record, client, handle, calls, only>>

\* Another run registers itself when it is ready.
Start ==
    /\ ~up /\ run < MaxRuns
    /\ up' = TRUE /\ run' = run + 1
    /\ UNCHANGED <<record, targets, topics, used, client, handle, calls, only>>

Register ==
    /\ up /\ record # run
    /\ record' = run
    /\ UNCHANGED <<up, run, targets, topics, used, client, handle, calls, only>>

\* Inner::expire, before every answer.
Expire ==
    [s \in SessionIds |-> IF topics[s].deadline = "passed"
                          THEN [health |-> "unavailable", deadline |-> "none"] ELSE topics[s]]

\* Inner::session, where the run is the service's.
Find(ref) == ref.run = run /\ \E p \in Targets : targets[p] = ref.id

\* ServiceView::status and ServiceView::snapshot.  What is answered is recorded
\* with the run it comes from and with whether it was late.
Status == [is |-> "status", sessions |-> Warframe(targets)]

Snapshot(ref) ==
    IF ~Find(ref) THEN Error(IF ref.run # run THEN "service_restarted" ELSE "unknown_session")
    ELSE LET topic == Expire[ref.id] IN
         CASE topic.health = "idle" -> Error("idle")
           [] topic.health = "initializing" -> Error("not_sampled")
           [] topic.health = "unavailable" -> Error("unavailable")
           [] topic.health = "available" ->
                [is |-> "data", source |-> [run |-> run, id |-> ref.id], late |-> topic.deadline = "passed"]

Reachable == up /\ client.at \in {Anywhere, run}

Answer(c) ==
    /\ Reachable /\ calls[c].phase = "sent"
    /\ topics' = IF calls[c].kind = "connect" THEN topics ELSE Expire
    /\ calls' = [calls EXCEPT ![c].phase = "answered", ![c].answer =
                    CASE calls[c].kind = "connect" -> [is |-> "pong"]
                      [] calls[c].kind = "single" -> Status
                      [] calls[c].kind = "cached" -> Snapshot(calls[c].ref)]
    /\ UNCHANGED <<up, run, record, targets, used, client, handle, only>>

\* The transport reports what it cannot deliver.
Lose(c) ==
    /\ calls[c].phase = "sent" /\ ~Reachable
    /\ calls' = [calls EXCEPT ![c].phase = "answered", ![c].answer = Error("transport")]
    /\ UNCHANGED <<service, client, handle, only>>

-----------------------------------------------------------------------------
(* The client.                                                              *)

Send(c, kind, ref) ==
    /\ calls' = [calls EXCEPT ![c] = [kind |-> kind, phase |-> "sent", ref |-> ref, answer |-> [is |-> "none"]]]
    /\ only' = [only EXCEPT ![c] = IF Cardinality(Warframe(targets)) = 1 THEN Warframe(targets) ELSE {}]

\* connect_endpoint, or connect_local with the ticket of the record: the
\* endpoint is bound and the service is pinged.
Connect(c, at) ==
    /\ client.phase = "none" /\ calls[c].phase = "none"
    /\ client' = [NoClient EXCEPT !.phase = "pinging", !.at = at, !.endpoint = "bound"]
    /\ Send(c, "connect", NoSession)
    /\ UNCHANGED <<service, handle>>

ConnectLocal(c) == record > 0 /\ Connect(c, record)

\* sessions and single_session ask for the status, cached for the snapshot of
\* the session a handle is bound to.
AskSingle(c) ==
    /\ client.phase = "open" /\ calls[c].phase = "none"
    /\ Send(c, "single", NoSession)
    /\ UNCHANGED <<service, client, handle>>

AskCached(c) ==
    /\ client.phase = "open" /\ calls[c].phase = "none" /\ handle # NoSession
    /\ Send(c, "cached", handle)
    /\ UNCHANGED <<service, client, handle>>

\* request: the token first, then the answer.
Select(c) ==
    /\ calls[c].phase \in {"sent", "answered"}
    /\ client.closed \/ calls[c].phase = "answered"
    /\ calls' = [calls EXCEPT ![c].phase = "selected",
                              ![c].answer = IF client.closed THEN Error("closed") ELSE @]
    /\ UNCHANGED <<service, client, handle, only>>

Return(c, answer) == calls' = [calls EXCEPT ![c].phase = "returned", ![c].answer = answer]

TimeOut(c) ==
    /\ calls[c].phase = "sent" /\ ~client.closed
    /\ Return(c, Error("timeout"))
    /\ UNCHANGED <<service, client, handle, only>>

\* Mutant: the token is not looked at again.
AsAnswered(c) == calls[c].answer

\* The client may have been closed since.
Checked(c) == IF client.closed THEN Error("closed") ELSE calls[c].answer

OneSession(sessions) == Cardinality(sessions) = 1

\* What a caller makes of the answer: exactly one session, the identity of a
\* snapshot, and no snapshot where none was taken.
Interpret(c, answer) ==
    IF answer.is = "status"
    THEN IF OneSession(answer.sessions)
         THEN [is |-> "session", ref |-> CHOOSE ref \in answer.sessions : TRUE]
         ELSE Error(IF answer.sessions = {} THEN "no_session" ELSE "ambiguous")
    ELSE IF answer.is = "data" /\ answer.source # calls[c].ref THEN Error("protocol")
    ELSE IF calls[c].kind = "cached" /\ answer \in {Error("idle"), Error("not_sampled")} THEN [is |-> "absent"]
    ELSE answer

Finish(c) ==
    /\ calls[c].phase = "selected"
    /\ Return(c, Interpret(c, Checked(c)))
    /\ UNCHANGED <<service, client, handle, only>>

Open == [client EXCEPT !.phase = "open"]

\* A connection that fails is closed before the error is returned.
Release == [client EXCEPT !.phase = "releasing", !.closed = TRUE]

\* The application takes a result.  The client of a connection that succeeded
\* is its own, a session becomes its handle.
Take(c) ==
    /\ calls[c].phase = "returned"
    /\ client' = IF calls[c].kind # "connect" THEN client
                 ELSE IF calls[c].answer.is = "pong" THEN Open ELSE Release
    /\ handle' = IF calls[c].answer.is = "session" THEN calls[c].answer.ref ELSE handle
    /\ calls' = [calls EXCEPT ![c] = NoCall]
    /\ only' = [only EXCEPT ![c] = {}]
    /\ UNCHANGED service

\* Client::close: the token, then the endpoint.  The exported calls run as
\* tasks of their own and may be cancelled at any time; a client that is dropped
\* cancels its token.
Close ==
    /\ client.phase = "open" /\ ~client.closed
    /\ client' = [client EXCEPT !.closed = TRUE]
    /\ UNCHANGED <<service, handle, calls, only>>

EndpointCloses ==
    /\ client.closed /\ client.endpoint = "bound"
    /\ client' = [client EXCEPT !.endpoint = "closed", !.shut = TRUE,
                                !.phase = IF @ = "releasing" THEN "failed" ELSE @]
    /\ UNCHANGED <<service, handle, calls, only>>

Cancel(c) ==
    /\ calls[c].phase \in {"sent", "answered", "selected"}
    /\ calls' = [calls EXCEPT ![c] = NoCall]
    /\ only' = [only EXCEPT ![c] = {}]
    /\ client' = IF calls[c].kind = "connect" THEN NoClient ELSE client
    /\ UNCHANGED <<service, handle>>

Drop ==
    /\ client.phase = "failed" \/ client.shut
    /\ \A c \in Calls : calls[c] = NoCall
    /\ client' = NoClient
    /\ UNCHANGED <<service, handle, calls, only>>

-----------------------------------------------------------------------------

Init ==
    /\ up = FALSE /\ run = 0 /\ record = 0 /\ used = {}
    /\ targets = [p \in Targets |-> NoTarget]
    /\ topics = [s \in SessionIds |-> Idle]
    /\ client = NoClient /\ handle = NoSession
    /\ calls = [c \in Calls |-> NoCall]
    /\ only = [c \in Calls |-> {}]

World ==
    \/ \E p \in Targets, a \in Activities : Observe(p, a)
    \/ \E s \in SessionIds : DeadlinePasses(s) \/ \E h \in Healths : Publish(s, h)
    \/ Crash \/ Start \/ Register

Request(c) == Answer(c) \/ Lose(c) \/ Select(c) \/ TimeOut(c) \/ Finish(c) \/ Take(c)

Application ==
    \/ Close \/ Drop
    \/ \E c \in Calls : ConnectLocal(c) \/ Connect(c, Anywhere) \/ AskSingle(c) \/ AskCached(c) \/ Cancel(c)

Next == World \/ Application \/ EndpointCloses \/ \E c \in Calls : Request(c)

Spec == Init /\ [][Next]_vars

-----------------------------------------------------------------------------
(* Properties.                                                              *)

\* Values.
TypeOK ==
    /\ up \in BOOLEAN /\ run \in 0 .. MaxRuns /\ record \in 0 .. run
    /\ targets \in [Targets -> Activities] /\ used \subseteq SessionIds
    /\ topics \in [SessionIds -> [health : Healths, deadline : {"none", "ahead", "passed"}]]
    /\ handle \in Refs \cup {NoSession}
    /\ only \in [Calls -> SUBSET Refs]
    /\ client.closed \in BOOLEAN /\ client.shut \in BOOLEAN
    /\ \A c \in Calls : calls[c].phase \in {"none", "sent", "answered", "selected", "returned"}

\* A snapshot an application gets is of the session it asked for: of that
\* session's run too, however often the service was started since and whatever
\* identifiers its new sessions have; and it was within its sampling deadline when
\* the service answered, also if the worker had not run since the deadline
\* (Inner::session, ServiceView::snapshot, Client::snapshot).
SnapshotIsTheSessions ==
    \A c \in Calls : calls[c].phase = "returned" /\ calls[c].answer.is = "data" =>
        calls[c].answer.source = calls[c].ref /\ ~calls[c].answer.late

\* The session single_session chooses was, at some time of the call, the only one
\* of Warframe (ServiceView::status, Warframe::single_session).
SingleWasOnly ==
    \A c \in Calls : calls[c].phase = "returned" /\ calls[c].answer.is = "session" =>
        calls[c].answer.ref \in only[c]

\* After close has returned no request of any clone succeeds, the ones under way
\* included (Client::request, Client::close).
NothingAfterClose ==
    \A c \in Calls : client.shut /\ calls'[c].phase = "returned" /\ calls[c].phase # "returned" =>
        calls'[c].answer.is = "error"

\* A connection that failed has released its endpoint before the caller hears of
\* it (connect_with_identity).
FailedIsReleased == client.phase = "failed" => client.endpoint = "closed"

=============================================================================
