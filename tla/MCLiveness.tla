----------------------------- MODULE MCLiveness -----------------------------
(***************************************************************************)
(* What must eventually happen, part by part: the worker polls what is     *)
(* demanded (Host), calls on shared feeds and watches wake (SharedFeeds,   *)
(* Watch), chat catches up (Chat), a stop is honoured (Agent, Lifecycle),  *)
(* permits return (Admission) and requests end (Queries).                  *)
(*                                                                         *)
(* A behaviour is one of a single part, the one in part.                   *)
(***************************************************************************)
EXTENDS Integers, Sequences, FiniteSets, TLC

CONSTANTS
    Parts,          \* the parts to check
    t1, t2, l1, l2, tty,   \* topics, listeners, a terminal
    None, Closer, NoTicket,
    Waiting, Unavailable, Bad, Absent

VARIABLES
    part,          \* the part at work
    demand, revision, stopped, worker, seen, attached, host, ticket, result, baseline,
    begun, closed, lock, registry, feed, task, queue, call, reader, finishing, job,
    closing, count, game, written, history, cursor, pending, staged, polling, delivered,
    floor, saved, record, request, commandLock, agentLock, agents, cmd, os, processes,
    error, next, todo, fresh, stop, shown, file, server, conn, tasks, connections,
    requests, perConnection, global, local, active, credit, topic, changed, events,
    watchClosed, terminal, watchLock, cache, receive, released, shut, published, occurred,
    returned, lost, cancels, ended, up, run, registered, targets, topics, used, client,
    handle, calls, only

vars == <<part, demand, revision, stopped, worker, seen, attached, host, ticket, result,
          baseline, begun, closed, lock, registry, feed, task, queue, call, reader,
          finishing, job, closing, count, game, written, history, cursor, pending, staged,
          polling, delivered, floor, saved, record, request, commandLock, agentLock,
          agents, cmd, os, processes, error, next, todo, fresh, stop, shown, file, server,
          conn, tasks, connections, requests, perConnection, global, local, active,
          credit, topic, changed, events, watchClosed, terminal, watchLock, cache,
          receive, released, shut, published, occurred, returned, lost, cancels, ended,
          up, run, registered, targets, topics, used, client, handle, calls, only>>

OneTopic == {t1}
Topics2 == {t1, t2}
Listeners2 == {l1, l2}
OneListener == {l1}
AloneTopic == (l1 :> <<t1>>)
SameTopic == (l1 :> <<t1>>) @@ (l2 :> <<t1>>)

\* The worker loop, woken by the service alone, and with its clock.
Host == INSTANCE Host WITH
    Topics <- Topics2, MaxGeneration <- 2, MaxEpoch <- 1, topic <- demand, pc <- worker

Timed == INSTANCE Host WITH
    Topics <- OneTopic, MaxGeneration <- 2, MaxEpoch <- 3, topic <- demand, pc <- worker

\* Two listeners of a feed that fails, and of a manager that is closed.
Feeding == INSTANCE SharedFeeds WITH
    Listeners <- Listeners2, Topics <- OneTopic, Selection <- SameTopic, Readers <- {l1},
    Budget <- 1, Incarnations <- 1, WantsEvents <- {l1}, MaxGeneration <- 1,
    MaxEvents <- 1, Faults <- {"Failed", "Cancel"}

Closing == INSTANCE SharedFeeds WITH
    Listeners <- OneListener, Topics <- OneTopic, Selection <- AloneTopic,
    Readers <- {l1}, Budget <- 1, Incarnations <- 1, WantsEvents <- {},
    MaxGeneration <- 0, MaxEvents <- 0, Faults <- {"Close"}

\* A backlog larger than one publication.
Chat == INSTANCE Chat WITH
    Keys <- {"k"}, Retained <- 2, MaxEvents <- 1, MaxChannels <- 1, MaxConversation <- 2,
    MaxInstances <- 1, MaxMessages <- 3

\* One terminal and two agents.
Agent == INSTANCE Agent WITH
    Commands <- {tty}, Policies <- {"local"}, MaxAgents <- 2, Killable <- {tty}

\* Two games.
Lifecycle == INSTANCE Lifecycle WITH
    Processes <- {"p", "q"}, DiscoveryInterval <- 1, RetryInterval <- 2, pc <- worker,
    service <- shown, targets <- processes

\* Two readers that stall, stay subscribed and leave as they like.
Admission == INSTANCE Admission WITH
    Peers <- {"p", "q"}, Remote <- FALSE, Approved <- {"p", "q"}, Connections <- 2,
    Requests <- 2, RequestsPerConnection <- 2, Global <- 2, PerConnection <- 1,
    SessionScopes <- 0, SessionTopics <- 0

\* A one-shot read, and a watch shut down while calls run.
Reading == INSTANCE Watch WITH
    Values <- {1, 2}, Mode <- "read", Executed <- FALSE, Calls <- {"c"}, MaxAddress <- 2,
    MaxPublished <- 3, MaxCancels <- 0, closed <- watchClosed, lock <- watchLock,
    call <- receive

Shutting == INSTANCE Watch WITH
    Values <- {1}, Mode <- "snapshot", Executed <- TRUE, Calls <- {"c", "d"},
    MaxAddress <- 1, MaxPublished <- 0, MaxCancels <- 1, closed <- watchClosed,
    lock <- watchLock, call <- receive

\* A request to a service that restarts.
Requests == INSTANCE Queries WITH
    Calls <- {1}, Targets <- {"t"}, SessionIds <- {1}, MaxRuns <- 2, record <- registered

\* The bounds of every part, which its own module states.
ASSUME PartsAssumption ==
    /\ Feeding!SharedAssumption /\ Closing!SharedAssumption
    /\ Chat!BoundsAssumption /\ Agent!AgentAssumption /\ Lifecycle!LifecycleAssumption
    /\ Admission!LimitsAssumption /\ Reading!WatchAssumption /\ Shutting!WatchAssumption
    /\ Requests!QueriesAssumption

\* The variables of the parts that are not at work hold no value, and keep it.
Idle == "unused"

Unused ==
    /\ part \notin {"host", "timed"} =>
          /\ demand = Idle /\ revision = Idle /\ stopped = Idle /\ seen = Idle
          /\ attached = Idle /\ host = Idle /\ ticket = Idle /\ result = Idle
          /\ baseline = Idle /\ begun = Idle
    /\ part \notin {"host", "timed", "lifecycle"} =>
          /\ worker = Idle
    /\ part \notin {"feeds", "closing"} =>
          /\ closed = Idle /\ lock = Idle /\ registry = Idle /\ feed = Idle /\ task = Idle
          /\ queue = Idle /\ call = Idle /\ reader = Idle /\ finishing = Idle
          /\ job = Idle /\ closing = Idle /\ count = Idle
    /\ part # "chat" =>
          /\ game = Idle /\ written = Idle /\ history = Idle /\ cursor = Idle
          /\ pending = Idle /\ staged = Idle /\ polling = Idle /\ delivered = Idle
          /\ floor = Idle
    /\ part # "agent" =>
          /\ saved = Idle /\ record = Idle /\ request = Idle /\ commandLock = Idle
          /\ agentLock = Idle /\ agents = Idle /\ cmd = Idle
    /\ part # "lifecycle" =>
          /\ os = Idle /\ processes = Idle /\ error = Idle /\ next = Idle /\ todo = Idle
          /\ fresh = Idle /\ stop = Idle /\ shown = Idle /\ file = Idle
    /\ part # "admission" =>
          /\ server = Idle /\ conn = Idle /\ tasks = Idle /\ connections = Idle
          /\ requests = Idle /\ perConnection = Idle /\ global = Idle /\ local = Idle
          /\ active = Idle /\ credit = Idle
    /\ part \notin {"read", "shutdown"} =>
          /\ topic = Idle /\ changed = Idle /\ events = Idle /\ watchClosed = Idle
          /\ terminal = Idle /\ watchLock = Idle /\ cache = Idle /\ receive = Idle
          /\ released = Idle /\ shut = Idle /\ published = Idle /\ occurred = Idle
          /\ returned = Idle /\ lost = Idle /\ cancels = Idle /\ ended = Idle
    /\ part # "requests" =>
          /\ up = Idle /\ run = Idle /\ registered = Idle /\ targets = Idle
          /\ topics = Idle /\ used = Idle /\ client = Idle /\ handle = Idle
          /\ calls = Idle /\ only = Idle

Kept ==
    /\ part \notin {"host", "timed"} =>
          UNCHANGED <<demand, revision, stopped, seen, attached, host, ticket, result,
                       baseline, begun>>
    /\ part \notin {"host", "timed", "lifecycle"} =>
          UNCHANGED <<worker>>
    /\ part \notin {"feeds", "closing"} =>
          UNCHANGED <<closed, lock, registry, feed, task, queue, call, reader, finishing,
                       job, closing, count>>
    /\ part # "chat" =>
          UNCHANGED <<game, written, history, cursor, pending, staged, polling,
                       delivered, floor>>
    /\ part # "agent" =>
          UNCHANGED <<saved, record, request, commandLock, agentLock, agents, cmd>>
    /\ part # "lifecycle" =>
          UNCHANGED <<os, processes, error, next, todo, fresh, stop, shown, file>>
    /\ part # "admission" =>
          UNCHANGED <<server, conn, tasks, connections, requests, perConnection, global,
                       local, active, credit>>
    /\ part \notin {"read", "shutdown"} =>
          UNCHANGED <<topic, changed, events, watchClosed, terminal, watchLock, cache,
                       receive, released, shut, published, occurred, returned, lost,
                       cancels, ended>>
    /\ part # "requests" =>
          UNCHANGED <<up, run, registered, targets, topics, used, client, handle, calls,
                       only>>

Init ==
    /\ part \in Parts
    /\ part = "host" => Host!Init
    /\ part = "timed" => Timed!Init
    /\ part = "feeds" => Feeding!Init
    /\ part = "closing" => Closing!Init
    /\ part = "chat" => Chat!Init
    /\ part = "agent" => Agent!Init
    /\ part = "lifecycle" => Lifecycle!Init
    /\ part = "admission" => Admission!Init
    /\ part = "read" => Reading!Init
    /\ part = "shutdown" => Shutting!Init
    /\ part = "requests" => Requests!Init
    /\ Unused

Next ==
    /\ \/ part = "host" /\ Host!Next
       \/ part = "timed" /\ Timed!Next
       \/ part = "feeds" /\ Feeding!Next
       \/ part = "closing" /\ Closing!Next
       \/ part = "chat" /\ Chat!Next
       \/ part = "agent" /\ Agent!Next
       \/ part = "lifecycle" /\ Lifecycle!Next
       \/ part = "admission" /\ Admission!Next
       \/ part = "read" /\ Reading!Next
       \/ part = "shutdown" /\ Shutting!Next
       \/ part = "requests" /\ Requests!Next
    /\ Kept /\ UNCHANGED part

\* The worker thread runs.  Part host relies on neither the timeout of its wait nor on
\* a deadline; part timed on both.
HostFairness ==
    /\ WF_(Host!vars)(part = "host" /\ Host!Worker)
    /\ WF_(Timed!vars)(part = "timed" /\ Timed!Worker)
    /\ WF_(Timed!vars)(part = "timed" /\ Timed!WaitTimesOut)
    /\ WF_(Timed!vars)(part = "timed" /\ Timed!DeadlinePasses)

\* The runtime polls every task that can proceed.  Nothing is assumed of the
\* service, of timeouts or of the application.
FeedFairness ==
    /\ \A f \in Feeding!Feeds : WF_(Feeding!vars)(part = "feeds" /\ Feeding!FeedTask(f))
    /\ \A t \in Feeding!Tasks : WF_(Feeding!vars)(part = "feeds" /\ Feeding!FinishTask(t))
    /\ \A l \in Listeners2 :
          /\ WF_(Feeding!vars)(part = "feeds" /\ Feeding!ListenerTask(l))
          /\ WF_(Feeding!vars)(part = "feeds" /\ Feeding!Setup(l))
          /\ WF_(Feeding!vars)(part = "feeds" /\ Feeding!ReaderTask(l))
    /\ WF_(Feeding!vars)(part = "feeds" /\ Feeding!CloseTask)

ClosingFairness ==
    /\ \A f \in Closing!Feeds : WF_(Closing!vars)(part = "closing" /\ Closing!FeedTask(f))
    /\ \A t \in Closing!Tasks : WF_(Closing!vars)(part = "closing" /\ Closing!FinishTask(t))
    /\ \A l \in OneListener :
          /\ WF_(Closing!vars)(part = "closing" /\ Closing!ListenerTask(l))
          /\ WF_(Closing!vars)(part = "closing" /\ Closing!Setup(l))
          /\ WF_(Closing!vars)(part = "closing" /\ Closing!ReaderTask(l))
    /\ WF_(Closing!vars)(part = "closing" /\ Closing!CloseTask)

\* Chat is polled again, and an accepted poll is not refused for ever.
ChatFairness ==
    /\ SF_(Chat!vars)(part = "chat" /\ Chat!Poll)
    /\ WF_(Chat!vars)(part = "chat" /\ (Chat!Committed \/ Chat!Rejected))
    /\ SF_(Chat!vars)(part = "chat" /\ Chat!Committed /\ staged)

\* A process that is not blocked is scheduled; the native calls of the lifecycle
\* thread return.
AgentFairness ==
    /\ \A a \in Agent!Agents : WF_(Agent!vars)(part = "agent" /\ Agent!AgentStep(a))
    /\ WF_(Agent!vars)(part = "agent" /\ Agent!CommandStep(tty))
    /\ WF_(Lifecycle!vars)(part = "lifecycle" /\ Lifecycle!Worker)

\* Both deadlines of IO_DEADLINE expire, code between two awaits goes on, an aborted
\* task ends, and the router drops what it must; an established subscription may last
\* for as long as its connection.
AdmissionFairness ==
    /\ WF_(Admission!vars)(part = "admission" /\ Admission!Down)
    /\ \A p \in {"p", "q"} :
          /\ WF_(Admission!vars)(part = "admission" /\ Admission!HeaderFails(p))
          /\ WF_(Admission!vars)(part = "admission" /\ Admission!Replied(p))
          /\ WF_(Admission!vars)(part = "admission" /\ Admission!OpenLocal(p))
          /\ WF_(Admission!vars)(part = "admission" /\ Admission!Refused(p))
          /\ WF_(Admission!vars)(part = "admission" /\ (Admission!Refuse(p) \/ Admission!Establish(p)))
          /\ WF_(Admission!vars)(part = "admission" /\ Admission!EndedDelivery(p))
          /\ WF_(Admission!vars)(part = "admission" /\ conn[p] # "open" /\ Admission!EndDelivery(p))
          /\ WF_(Admission!vars)(part = "admission" /\ Admission!Release(p))
          /\ WF_(Admission!vars)(part = "admission" /\ Admission!DropAccept(p))

\* Started calls go on, a task that was cancelled is dropped, and deadlines expire.
WatchFairness ==
    /\ WF_(Reading!vars)(part = "read" /\ Reading!Joined)
    /\ WF_(Reading!vars)(part = "read" /\ ~receive["c"].gone /\ Reading!Take("c"))
    /\ WF_(Reading!vars)(part = "read" /\ Reading!Abort("c"))
    /\ WF_(Reading!vars)(part = "read" /\ Reading!Timeout("c"))
    /\ WF_(Reading!vars)(part = "read" /\ (\/ Reading!DecodeState("c") \/ Reading!DecodeEvent("c")
                                           \/ Reading!NoItem("c")))
    /\ WF_(Reading!vars)(part = "read" /\ Reading!FinishRead("c"))
    /\ WF_(Shutting!vars)(part = "shutdown" /\ Shutting!Joined)
    /\ \A c \in {"c", "d"} :
          /\ WF_(Shutting!vars)(part = "shutdown" /\ ~receive[c].gone /\ Shutting!Take(c))
          /\ WF_(Shutting!vars)(part = "shutdown" /\ Shutting!Abort(c))
          /\ WF_(Shutting!vars)(part = "shutdown" /\ Shutting!Timeout(c))
          /\ WF_(Shutting!vars)(part = "shutdown" /\ (\/ Shutting!DecodeState(c)
                                                      \/ Shutting!DecodeEvent(c)
                                                      \/ Shutting!NoItem(c)))
          /\ WF_(Shutting!vars)(part = "shutdown" /\ Shutting!FinishRead(c))

\* The client's tasks run and its timers fire; the service need not answer.
RequestFairness ==
    /\ WF_(Requests!vars)(part = "requests" /\ Requests!EndpointCloses)
    /\ WF_(Requests!vars)(part = "requests" /\ (Requests!Select(1) \/ Requests!TimeOut(1)))
    /\ WF_(Requests!vars)(part = "requests" /\ Requests!Finish(1))
    /\ WF_(Requests!vars)(part = "requests" /\ Requests!Take(1))

Spec ==
    /\ Init /\ [][Next]_vars
    /\ HostFairness /\ FeedFairness /\ ClosingFairness /\ ChatFairness /\ AgentFairness
    /\ AdmissionFairness /\ WatchFairness /\ RequestFairness

-----------------------------------------------------------------------------
(* Properties. *)

\* What each part has to serve, and when it is served.  The members of a set of
\* topics, listeners or processes are interchangeable: one stands for all.
Demand ==
    CASE part = "host" -> demand[t1].demanded
      [] part = "timed" -> demand[t1].demanded
      [] part = "lifecycle" -> os["p"] = "exited" /\ Lifecycle!Observed("p")
      [] part = "admission" -> requests = 0
      [] OTHER -> FALSE

DemandServed ==
    CASE part = "host" -> Host!PolledFor(t1)
      [] part = "timed" -> Timed!Reached(t1)
      [] part = "lifecycle" -> ~Lifecycle!Observed("p") \/ Lifecycle!Ended
      [] part = "admission" -> requests > 0
      [] OTHER -> TRUE

\* The agent's worker and its limits serve whatever is asked of them.  New demand is
\* polled for without any timeout, by the wake-up revision alone; every lifetime of
\* a demanded topic reaches the provider, after failed and refused polls too; the
\* exit of a game is noticed and its session withdrawn; the permits for requests
\* come back, whatever the peers that hold them do; and once the game falls silent
\* and chat is not cleared again, the cursor reaches the end of every channel.
DemandIsServed ==
    /\ Demand ~> DemandServed
    /\ <>[][part = "chat" => Chat!Silent]_(Chat!vars) => []<>(part = "chat" => Chat!CaughtUp)

Pending ==
    CASE part = "feeds" -> Feeding!CanSetUp(l2)
      [] part = "read" -> receive["c"].for = "read" /\ receive["c"].at # "done"
      [] part = "requests" -> calls[1].phase = "sent"
      [] OTHER -> FALSE

Returned ==
    CASE part = "feeds" -> call[l2].pc # "asleep"
      [] part = "read" -> receive["c"].at = "done"
      [] part = "requests" -> calls[1].phase = "none"
      [] OTHER -> TRUE

\* No call of a client waits for ever.  A subscribe call that waits for a feed goes
\* on once the feed is ready, ended or stopped (Feed::wait_ready misses no
\* notification), and a pending next once its listener has a state, an event or an
\* end; the deadline of a one-shot read covers setup and value; a request ends
\* whatever the service does (Client::request).
CallsReturn ==
    /\ Pending ~> Returned
    /\ (part = "feeds" /\ Feeding!CanRead(l1))
            ~> (part = "feeds" => reader[l1] = "idle" \/ Feeding!NothingToRead(l1))

Stopping ==
    CASE part = "closing" -> closed
      [] part = "agent" -> Agent!Serving(1) /\ request = 1
      [] part = "lifecycle" -> stop
      [] part = "admission" -> server = "closing"
      [] part = "shutdown" -> shut = "joining"
      [] OTHER -> FALSE

Stopped ==
    CASE part = "closing" -> Closing!Returned(l1)
      [] part = "agent" -> ~Agent!Alive(1)
      [] part = "lifecycle" -> Lifecycle!Ended
      [] part = "admission" -> server = "down"
      [] part = "shutdown" -> shut = "done"
      [] OTHER -> TRUE

\* Whatever is told to stop ends.  Client::close wakes the pending operations; a stop
\* request that names an agent which serves ends it, even if the command gave up or
\* was killed; a stop ends the lifecycle worker from wherever it is;
\* Server::shutdown returns; the shutdown of a watch returns although a receive was
\* pending or cancelled.
StopsEnd == Stopping ~> Stopped
=============================================================================
