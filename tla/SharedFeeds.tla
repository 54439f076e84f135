---------------------------- MODULE SharedFeeds ----------------------------
(***************************************************************************)
(* The SDK's shared feeds: subscription/manager.rs, feed.rs and            *)
(* listener.rs under one client.  Subscribe calls attach listeners to one  *)
(* feed per selection; each feed's task publishes its state and events to  *)
(* them; listeners, feeds and the client close in any order.               *)
(*                                                                         *)
(* Every lock region is one step.  The locks nest in the order registry,   *)
(* feed, listener; only the registry lock is held across steps.  A feed    *)
(* state is the generation of its topic in the observed session, NoState    *)
(* before the first bootstrap and after the session ended.  What a stream  *)
(* may carry is in Delivery and Validation.                                *)
(***************************************************************************)
EXTENDS Naturals, Sequences, FiniteSets

CONSTANTS
    Listeners, Topics,
    Selection,          \* the topics of a listener's subscribe call, in order
    WantsEvents,        \* listeners with receive_events
    Readers,            \* bound: listeners whose application calls next
    Faults,             \* bound: what goes wrong in this instance, of AllFaults
    Budget,             \* events a listener may buffer
    Incarnations,       \* bound: feeds ever started for a selection
    MaxGeneration,      \* bound: source resets
    MaxEvents,          \* bound: events of all feeds
    Closer,             \* the task in Client::close
    None

AllFaults == {"Ended", "Failed", "Resync", "Close", "Timeout", "Cancel"}

Feeds == Topics \X (1..Incarnations)
Topic(f) == f[1]
NoState == 0
Generations == 1..MaxGeneration
Ends == {"Ended", "Failed", "Lagged", "Closed"}

\* A subscribe call sorts its topics, drops duplicates and refuses none at all.
SharedAssumption ==
    /\ Faults \subseteq AllFaults
    /\ Selection \in [Listeners -> Seq(Topics) \ {<<>>}]
    /\ \A l \in Listeners : \A i, j \in DOMAIN Selection[l] :
          Selection[l][i] = Selection[l][j] => i = j
    /\ WantsEvents \subseteq Listeners /\ Readers \subseteq Listeners
    /\ Budget \in Nat /\ Incarnations \in Nat /\ MaxGeneration \in Nat /\ MaxEvents \in Nat
    /\ Closer \notin Feeds
    /\ None \notin Listeners /\ None \notin Ends \cup {"Protocol", "Timeout"}
    /\ \A fs \in SUBSET Feeds : fs # None
    /\ None \notin [feeds : SUBSET Feeds, by : Feeds \cup {Closer} \cup Listeners]
    /\ None \notin [feed : Feeds, end : Ends, targets : SUBSET Listeners]

VARIABLES
    closed,         \* Connection::closed
    lock,           \* the subscribe call that holds Manager::feeds, or None
    registry,       \* Manager::feeds
    feed,           \* Feed and its State
    task,           \* Feed::run of each feed
    queue,          \* Listener and its Queue
    call,           \* the subscribe call of each listener
    reader,         \* the task in Subscription::next of each listener
    finishing,      \* feeds that Listener::finish has yet to detach from
    job,            \* a running Feed::finish, by the task in it
    closing,        \* feeds that Manager::close has yet to finish
    count           \* events so far

vars == <<closed, lock, registry, feed, task, queue, call, reader, finishing, job, closing, count>>

-----------------------------------------------------------------------------
(* Listener. *)

\* Mutant: a new state leaves the buffered events alone.
AllEvents(events, t, g) == events

\* Events of a topic are kept only while their generation is current.
KeptEvents(events, t, g) ==
    SelectSeq(events, LAMBDA e : e.topic # t \/ e.generation = g)

\* Listener::state
SetState(q, t, g) ==
    IF q.closed THEN q
    ELSE [q EXCEPT !.events = KeptEvents(@, t, g),
                   !.states[t] = g, !.changed = TRUE, !.permit = TRUE]

NewQueue ==
    [feeds |-> {}, states |-> [t \in Topics |-> NoState], changed |-> FALSE,
     events |-> <<>>, terminal |-> None, closed |-> FALSE, permit |-> FALSE]

\* Listener::finish by task a, as far as the queue lock is held.
CloseQueue(l, end, a) ==
    IF queue[l].closed
    THEN /\ queue' = IF end = None THEN [queue EXCEPT ![l].terminal = None] ELSE queue
         /\ UNCHANGED finishing
    ELSE /\ queue' = [queue EXCEPT ![l] =
                [NewQueue EXCEPT !.closed = TRUE, !.terminal = end, !.permit = queue[l].permit]]
         /\ finishing' = [finishing EXCEPT ![l] = [feeds |-> queue[l].feeds, by |-> a]]

\* Feed::detach, on the feed's record.
Detached(fd, l) ==
    IF fd.listeners \ {l} = {}
    THEN [fd EXCEPT !.listeners = {}, !.stop = TRUE, !.current = NoState]
    ELSE [fd EXCEPT !.listeners = @ \ {l}]

\* The rest of Listener::finish: detach from every feed, then wake the reader.
DetachNext(l) ==
    /\ finishing[l] # None
    /\ \E f \in finishing[l].feeds :
          /\ feed' = [feed EXCEPT ![f] = Detached(@, l)]
          /\ finishing' = [finishing EXCEPT ![l].feeds = @ \ {f}]
    /\ UNCHANGED <<closed, lock, registry, task, queue, call, reader, job, closing, count>>

WakeReader(l) ==
    /\ finishing[l] # None /\ finishing[l].feeds = {}
    /\ queue' = [queue EXCEPT ![l].permit = TRUE]
    /\ finishing' = [finishing EXCEPT ![l] = None]
    /\ UNCHANGED <<closed, lock, registry, feed, task, call, reader, job, closing, count>>

\* Task a is inside Listener::finish.
Busy(a) == \E l \in Listeners : finishing[l] # None /\ finishing[l].by = a

-----------------------------------------------------------------------------
(* Feed. *)

NewFeed == [listeners |-> {}, current |-> NoState, ready |-> FALSE, terminal |-> None,
            stop |-> FALSE]

\* Feed::publish_state
Published(fd, t) ==
    [l \in Listeners |-> IF fd.ready /\ l \in fd.listeners
                         THEN SetState(queue[l], t, fd.current) ELSE queue[l]]

Receiving(f) == task[f].pc = "receive"

\* Feed::change: bootstrap topics, resets, new topics and ended sessions.
Change(f, g) ==
    /\ Receiving(f)
    /\ LET fd == [feed[f] EXCEPT !.current = g]
       IN  /\ feed' = [feed EXCEPT ![f] = fd]
           /\ queue' = Published(fd, Topic(f))
    /\ UNCHANGED <<closed, lock, registry, task, call, reader, finishing, job, closing, count>>

BootstrapTopic(f) ==
    ~feed[f].ready /\ feed[f].current = NoState /\ \E g \in Generations : Change(f, g)

ResetTopic(f) ==
    /\ feed[f].ready /\ feed[f].current \in 1..(MaxGeneration - 1)
    /\ Change(f, feed[f].current + 1)

EndSession(f) == feed[f].ready /\ feed[f].current # NoState /\ Change(f, NoState)

\* Mutant: a ready feed notifies nobody.
NotifyNobody(f) == UNCHANGED call

\* Every task waiting in Feed::wait_ready for f.
Notify(f) ==
    call' = [l \in Listeners |->
               IF call[l].pc \in {"inspect", "asleep"} /\ call[l].selected[call[l].turn] = f
               THEN [call[l] EXCEPT !.woken = TRUE] ELSE call[l]]

FeedReady(f) ==
    /\ Receiving(f) /\ ~feed[f].ready
    /\ LET fd == [feed[f] EXCEPT !.ready = TRUE]
       IN  /\ feed' = [feed EXCEPT ![f] = fd]
           /\ queue' = Published(fd, Topic(f))
    /\ Notify(f)
    /\ UNCHANGED <<closed, lock, registry, task, reader, finishing, job, closing, count>>

\* Feed::receive, after a delta that does not apply: publish the empty state, then
\* bootstrap again without deltas.
DiscardState(f) ==
    LET fd == [feed[f] EXCEPT !.current = NoState]
    IN  /\ feed' = [feed EXCEPT ![f] = [fd EXCEPT !.ready = FALSE]]
        /\ queue' = Published(fd, Topic(f))

Resync(f) ==
    /\ Receiving(f) /\ task[f].deltas /\ "Resync" \in Faults
    /\ task' = [task EXCEPT ![f].deltas = FALSE]
    /\ DiscardState(f)
    /\ UNCHANGED <<closed, lock, registry, call, reader, finishing, job, closing, count>>

\* An event goes to the listeners attached when it arrives, outside the feed's lock.
ReceiveEvent(f) ==
    /\ Receiving(f) /\ feed[f].ready /\ feed[f].current # NoState /\ count < MaxEvents
    /\ task' = [task EXCEPT ![f] = [@ EXCEPT !.pc = "deliver", !.targets = feed[f].listeners,
                                             !.generation = feed[f].current]]
    /\ count' = count + 1
    /\ UNCHANGED <<closed, lock, registry, feed, queue, call, reader, finishing, job, closing>>

\* Mutant: the budget is checked before the event is counted.
OverflowsLate(l) == Len(queue[l].events) > Budget

Overflows(l) == Len(queue[l].events) >= Budget

\* Listener::event
DeliverEvent(f, l) ==
    /\ task[f].pc = "deliver" /\ l \in task[f].targets /\ ~Busy(f)
    /\ task' = [task EXCEPT ![f].targets = @ \ {l}]
    /\ LET e == [topic |-> Topic(f), generation |-> task[f].generation]
       IN  IF l \notin WantsEvents \/ queue[l].closed
           THEN UNCHANGED <<queue, finishing>>
           ELSE IF Overflows(l)
           THEN CloseQueue(l, "Lagged", f)
           ELSE /\ queue' = [queue EXCEPT ![l].events = Append(@, e), ![l].permit = TRUE]
                /\ UNCHANGED finishing
    /\ UNCHANGED <<closed, lock, registry, feed, call, reader, job, closing, count>>

Delivered(f) ==
    /\ task[f].pc = "deliver" /\ task[f].targets = {} /\ ~Busy(f)
    /\ task' = [task EXCEPT ![f] = [@ EXCEPT !.pc = "receive", !.generation = 0]]
    /\ UNCHANGED <<closed, lock, registry, feed, queue, call, reader, finishing, job, closing, count>>

\* Feed::finish by task a, as far as the feed's lock is held.
StartFinish(a, f, end) ==
    /\ feed' = [feed EXCEPT ![f] = [@ EXCEPT !.stop = TRUE, !.current = NoState, !.terminal = end]]
    /\ job' = [job EXCEPT ![a] = [feed |-> f, end |-> end, targets |-> feed[f].listeners]]

FinishListener(a) ==
    /\ job[a] # None /\ ~Busy(a)
    /\ \E l \in job[a].targets :
          /\ CloseQueue(l, job[a].end, a)
          /\ job' = [job EXCEPT ![a].targets = @ \ {l}]
    /\ UNCHANGED <<closed, lock, registry, feed, task, call, reader, closing, count>>

EndFinish(a) ==
    /\ job[a] # None /\ ~Busy(a) /\ job[a].targets = {}
    /\ Notify(job[a].feed)
    /\ job' = [job EXCEPT ![a] = None]
    /\ UNCHANGED <<closed, lock, registry, feed, task, queue, reader, finishing, closing, count>>

Done == [pc |-> "done", deltas |-> FALSE, targets |-> {}, generation |-> 0]

\* Feed::run: the stream ended or failed, or the client closed.  The task may be
\* past the cancellations it checks first.
RunEnds(f, end) ==
    /\ Receiving(f)
    /\ task' = [task EXCEPT ![f] = Done]
    /\ StartFinish(f, f, IF closed THEN "Closed" ELSE end)
    /\ UNCHANGED <<closed, lock, registry, queue, call, reader, finishing, closing, count>>

RunClosed(f) == closed /\ RunEnds(f, "Closed")

RunStops(f) ==
    /\ Receiving(f) /\ feed[f].stop /\ ~closed
    /\ task' = [task EXCEPT ![f] = Done]
    /\ UNCHANGED <<closed, lock, registry, feed, queue, call, reader, finishing, job, closing, count>>

-----------------------------------------------------------------------------
(* Manager::subscribe. *)

NewCall == [pc |-> "idle", turn |-> 1, feed |-> None, start |-> FALSE, selected |-> <<>>,
            woken |-> FALSE, error |-> None]

Fail(l, error) == call' = [call EXCEPT ![l] = [NewCall EXCEPT !.pc = "drop", !.error = error]]

Subscribe(l) ==
    /\ call[l].pc = "idle"
    /\ IF closed THEN Fail(l, "Closed") ELSE call' = [call EXCEPT ![l].pc = "select"]
    /\ UNCHANGED <<closed, lock, registry, feed, task, queue, reader, finishing, job, closing, count>>

\* Feed::attach refuses a stopped feed.
Attachable(f) == f \in registry /\ ~feed[f].stop

Fresh(f) == task[f].pc = "new" /\ feed[f] = NewFeed

Attach(l, f) ==
    /\ feed' = [feed EXCEPT ![f].listeners = @ \union {l}]
    /\ queue' = IF feed[f].ready
                THEN [queue EXCEPT ![l] = SetState(@, Topic(f), feed[f].current)] ELSE queue

\* Under the registry lock: attach to the selection's feed, or to a new one.
SelectFeed(l) ==
    /\ call[l].pc = "select" /\ lock = None
    /\ IF closed
       THEN Fail(l, "Closed") /\ UNCHANGED <<lock, registry, feed, queue>>
       ELSE LET t == Selection[l][call[l].turn]
                live == {f \in Feeds : Topic(f) = t /\ Attachable(f)}
            IN  /\ registry' = {f \in registry : ~feed[f].stop}
                /\ lock' = l
                /\ \E f \in Feeds :
                      /\ Topic(f) = t
                      /\ IF live # {} THEN f \in live
                         ELSE Fresh(f) /\ \A n \in 1..(f[2] - 1) : ~Fresh(<<t, n>>)
                      /\ Attach(l, f)
                      /\ call' = [call EXCEPT ![l] = [@ EXCEPT !.pc = "register", !.feed = f,
                                                               !.start = (live = {})]]
    /\ UNCHANGED <<closed, task, reader, finishing, job, closing, count>>

WithdrawAttachment(fd, l) == Detached(fd, l)

\* Listener::check_open, on a closed listener.
OpenError(l) ==
    IF queue[l].terminal = None THEN "Closed"
    ELSE IF queue[l].terminal = "Ended" THEN "Protocol" ELSE queue[l].terminal

\* Listener::register, and the start of a new feed.
Register(l) ==
    /\ call[l].pc = "register"
    /\ lock' = None
    /\ LET f == call[l].feed
       IN  IF queue[l].closed
           THEN /\ feed' = [feed EXCEPT ![f] = WithdrawAttachment(@, l)]
                /\ Fail(l, OpenError(l))
                /\ UNCHANGED <<registry, task, queue>>
           ELSE /\ queue' = [queue EXCEPT ![l].feeds = @ \union {f}]
                /\ registry' = IF call[l].start THEN registry \union {f} ELSE registry
                /\ task' = IF call[l].start THEN [task EXCEPT ![f].pc = "receive"] ELSE task
                /\ call' = [call EXCEPT ![l] =
                      IF @.turn < Len(Selection[l])
                      THEN [@ EXCEPT !.pc = "select", !.turn = call[l].turn + 1, !.feed = None,
                                     !.start = FALSE, !.selected = Append(call[l].selected, f)]
                      ELSE [@ EXCEPT !.pc = "enable", !.turn = 1, !.feed = None,
                                     !.start = FALSE, !.selected = Append(call[l].selected, f)]]
                /\ UNCHANGED feed
    /\ UNCHANGED <<closed, reader, finishing, job, closing, count>>

Awaited(l) == feed[call[l].selected[call[l].turn]]

\* Feed::wait_ready registers with the notification before it inspects the feed.
EnableNotified(l) ==
    /\ call[l].pc = "enable"
    /\ call' = [call EXCEPT ![l] = [@ EXCEPT !.pc = "inspect", !.woken = FALSE]]
    /\ UNCHANGED <<closed, lock, registry, feed, task, queue, reader, finishing, job, closing, count>>

ReadyError(fd) ==
    CASE fd.terminal = "Ended" -> "Protocol"
      [] fd.terminal \notin {None, "Ended"} -> fd.terminal
      [] fd.terminal = None /\ fd.stop -> "Closed"
      [] OTHER -> None

InspectFeed(l) ==
    /\ call[l].pc = "inspect"
    /\ LET error == ReadyError(Awaited(l))
       IN  call' = [call EXCEPT ![l] =
              IF error # None THEN [@ EXCEPT !.pc = "check", !.woken = FALSE, !.error = error]
              ELSE IF Awaited(l).ready THEN [@ EXCEPT !.pc = "check", !.woken = FALSE]
              ELSE [@ EXCEPT !.pc = "asleep"]]
    /\ UNCHANGED <<closed, lock, registry, feed, task, queue, reader, finishing, job, closing, count>>

Wake(l) ==
    /\ call[l].pc = "asleep" /\ (call[l].woken \/ Awaited(l).stop)
    /\ call' = [call EXCEPT ![l] = [@ EXCEPT !.pc = "enable", !.woken = FALSE]]
    /\ UNCHANGED <<closed, lock, registry, feed, task, queue, reader, finishing, job, closing, count>>

\* Mutant: the feed's error is returned without looking at the listener's.
FeedError(l) == call[l].error

SetupError(l) == IF queue[l].closed THEN OpenError(l) ELSE call[l].error

\* check_open, then the feed's result; then the next feed, or success.
CheckOpen(l) ==
    /\ call[l].pc = "check"
    /\ IF SetupError(l) # None THEN Fail(l, SetupError(l))
       ELSE call' = [call EXCEPT ![l] =
               IF @.turn < Len(Selection[l])
               THEN [@ EXCEPT !.pc = "enable", !.turn = call[l].turn + 1]
               ELSE [NewCall EXCEPT !.pc = "open"]]
    /\ UNCHANGED <<closed, lock, registry, feed, task, queue, reader, finishing, job, closing, count>>

\* The biased select on the client's cancellation, the caller's timeout, or the
\* caller dropping the future.
AbortSetup(l, error) ==
    /\ call[l].pc \in {"enable", "inspect", "asleep"}
    /\ Fail(l, error)
    /\ UNCHANGED <<closed, lock, registry, feed, task, queue, reader, finishing, job, closing, count>>

SeeClosed(l) == closed /\ AbortSetup(l, "Closed")
Timeout(l) == "Timeout" \in Faults /\ AbortSetup(l, "Timeout")

\* The Subscription of a failed call is dropped.
DropSubscription(l) ==
    /\ call[l].pc = "drop" /\ ~Busy(l)
    /\ CloseQueue(l, None, l)
    /\ call' = [call EXCEPT ![l].pc = "failed"]
    /\ UNCHANGED <<closed, lock, registry, feed, task, reader, job, closing, count>>

-----------------------------------------------------------------------------
(* Subscription::next, close, and Client::close. *)

CallNext(l) ==
    /\ l \in Readers /\ call[l].pc = "open" /\ reader[l] = "idle"
    /\ reader' = [reader EXCEPT ![l] = "poll"]
    /\ UNCHANGED <<closed, lock, registry, feed, task, queue, call, finishing, job, closing, count>>

\* Terminal, then closed, then a changed state, then events.
PollQueue(l) ==
    /\ reader[l] = "poll"
    /\ LET q == queue[l]
       IN  CASE q.terminal # None ->
                    /\ reader' = [reader EXCEPT ![l] = "idle"]
                    /\ queue' = [queue EXCEPT ![l].terminal = None]
             [] q.terminal = None /\ q.closed ->
                    reader' = [reader EXCEPT ![l] = "idle"] /\ UNCHANGED queue
             [] q.terminal = None /\ ~q.closed /\ q.changed ->
                    /\ reader' = [reader EXCEPT ![l] = "idle"]
                    /\ queue' = [queue EXCEPT ![l].changed = FALSE]
             [] q.terminal = None /\ ~q.closed /\ ~q.changed /\ q.events # <<>> ->
                    /\ reader' = [reader EXCEPT ![l] = "idle"]
                    /\ queue' = [queue EXCEPT ![l].events = Tail(@)]
             [] OTHER -> reader' = [reader EXCEPT ![l] = "asleep"] /\ UNCHANGED queue
    /\ UNCHANGED <<closed, lock, registry, feed, task, call, finishing, job, closing, count>>

ReaderWakes(l) ==
    /\ reader[l] = "asleep" /\ queue[l].permit
    /\ reader' = [reader EXCEPT ![l] = "poll"]
    /\ queue' = [queue EXCEPT ![l].permit = FALSE]
    /\ UNCHANGED <<closed, lock, registry, feed, task, call, finishing, job, closing, count>>

\* The caller drops the pending future.
CancelNext(l) ==
    /\ reader[l] = "asleep" /\ "Cancel" \in Faults
    /\ reader' = [reader EXCEPT ![l] = "idle"]
    /\ UNCHANGED <<closed, lock, registry, feed, task, queue, call, finishing, job, closing, count>>

CloseSubscription(l) ==
    /\ call[l].pc = "open" /\ ~Busy(l)
    /\ ~queue[l].closed \/ queue[l].terminal # None
    /\ CloseQueue(l, None, l)
    /\ UNCHANGED <<closed, lock, registry, feed, task, call, reader, job, closing, count>>

CloseClient ==
    /\ ~closed /\ "Close" \in Faults /\ closed' = TRUE
    /\ UNCHANGED <<lock, registry, feed, task, queue, call, reader, finishing, job, closing, count>>

DrainFeeds ==
    /\ closed /\ closing = None /\ lock = None
    /\ closing' = registry /\ registry' = {}
    /\ UNCHANGED <<closed, lock, feed, task, queue, call, reader, finishing, job, count>>

CloseFeed ==
    /\ closing # None /\ job[Closer] = None
    /\ \E f \in closing :
          /\ closing' = closing \ {f}
          /\ StartFinish(Closer, f, "Closed")
    /\ UNCHANGED <<closed, lock, registry, task, queue, call, reader, finishing, count>>

-----------------------------------------------------------------------------
Tasks == Feeds \union {Closer}

Init ==
    /\ closed = FALSE /\ lock = None /\ registry = {} /\ closing = None /\ count = 0
    /\ feed = [f \in Feeds |-> NewFeed]
    /\ task = [f \in Feeds |-> [pc |-> "new", deltas |-> TRUE, targets |-> {}, generation |-> 0]]
    /\ queue = [l \in Listeners |-> NewQueue]
    /\ call = [l \in Listeners |-> NewCall]
    /\ reader = [l \in Listeners |-> "idle"]
    /\ finishing = [l \in Listeners |-> None]
    /\ job = [a \in Tasks |-> None]

Upstream(f) ==
    \/ BootstrapTopic(f) \/ ResetTopic(f) \/ EndSession(f) \/ FeedReady(f) \/ Resync(f)
    \/ ReceiveEvent(f) \/ \E end \in Faults \intersect {"Ended", "Failed"} : RunEnds(f, end)

FeedTask(f) == Delivered(f) \/ RunClosed(f) \/ RunStops(f) \/ \E l \in Listeners : DeliverEvent(f, l)
FinishTask(a) == FinishListener(a) \/ EndFinish(a)
ListenerTask(l) == DetachNext(l) \/ WakeReader(l)
Setup(l) ==
    \/ SelectFeed(l) \/ Register(l) \/ EnableNotified(l) \/ InspectFeed(l) \/ Wake(l)
    \/ CheckOpen(l) \/ SeeClosed(l) \/ DropSubscription(l)
ReaderTask(l) == PollQueue(l) \/ ReaderWakes(l)
User(l) == Subscribe(l) \/ CallNext(l) \/ CancelNext(l) \/ CloseSubscription(l)
CloseTask == DrainFeeds \/ CloseFeed

Next ==
    \/ \E f \in Feeds : Upstream(f) \/ FeedTask(f)
    \/ \E a \in Tasks : FinishTask(a)
    \/ \E l \in Listeners : ListenerTask(l) \/ Setup(l) \/ Timeout(l) \/ ReaderTask(l) \/ User(l)
    \/ CloseClient \/ CloseTask

Spec == Init /\ [][Next]_vars

-----------------------------------------------------------------------------
(* Properties. *)

TypeOK ==
    /\ closed \in BOOLEAN /\ lock \in Listeners \union {None} /\ registry \subseteq Feeds
    /\ \A f \in Feeds :
          /\ feed[f].listeners \subseteq Listeners /\ feed[f].current \in 0..MaxGeneration
          /\ feed[f].terminal \in Ends \union {None} /\ feed[f].stop \in BOOLEAN
          /\ task[f].pc \in {"new", "receive", "deliver", "done"}
    /\ \A l \in Listeners :
          /\ queue[l].feeds \subseteq Feeds /\ queue[l].states \in [Topics -> 0..MaxGeneration]
          /\ Len(queue[l].events) <= Budget /\ queue[l].terminal \in Ends \union {None}
          /\ reader[l] \in {"idle", "poll", "asleep"}

\* "Buffered events expire when their session or generation ends" (listener.rs:21):
\* every buffered event belongs to the generation in its listener's own state.
EventsCurrent ==
    \A l \in Listeners : \A i \in 1..Len(queue[l].events) :
        queue[l].states[queue[l].events[i].topic] = queue[l].events[i].generation

\* A listener shows exactly the state of its feed, and no data at all while the feed
\* bootstraps (for the first time, or after a delta that did not apply).
ListenersMirrorFeed ==
    \A f \in Feeds : ~feed[f].stop => \A l \in feed[f].listeners : ~queue[l].closed =>
        queue[l].states[Topic(f)] = IF feed[f].ready THEN feed[f].current ELSE NoState

\* Task a is about to finish l.
AboutToFinish(a, l) == job[a] # None /\ l \in job[a].targets

\* "Closing it releases only its interest" (listener.rs:31): an open listener's feed
\* stops only if some task is on its way to tell that listener why.
NoOrphanedListener ==
    \A l \in Listeners : ~queue[l].closed =>
        \A f \in queue[l].feeds : feed[f].stop => \E a \in Tasks : AboutToFinish(a, l)

\* "The last listener closes each feed": a feed that is not stopped has a listener
\* that is open, or closing and still to detach.
NoStrandedFeed ==
    \A f \in Feeds : ~Fresh(f) /\ ~feed[f].stop =>
        \E l \in feed[f].listeners :
            \/ f \in queue[l].feeds
            \/ finishing[l] # None /\ f \in finishing[l].feeds
            \/ lock = l /\ call[l].feed = f

\* A subscribe call that fails reports the cause: Closed only if the client closed.
SetupReportsCause ==
    \A l \in Listeners : call[l].error = "Closed" /\ call[l].pc \in {"drop", "failed"} => closed

CanSetUp(l) == call[l].pc = "asleep" /\ (Awaited(l).ready \/ Awaited(l).stop)
CanRead(l) == reader[l] = "asleep" /\ (queue[l].changed \/ queue[l].events # <<>> \/ queue[l].closed)
NothingToRead(l) == ~queue[l].closed /\ ~queue[l].changed /\ queue[l].events = <<>>
Returned(l) == reader[l] # "asleep" /\ call[l].pc \in {"idle", "open", "failed"}

=============================================================================
