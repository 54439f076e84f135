------------------------------- MODULE Watch --------------------------------
(***************************************************************************)
(* A typed watch over one SDK listener (watch.rs), its one-shot read       *)
(* (capability.rs) and the calls of the exported API (api/runtime.rs and   *)
(* api/*_watch.rs), which run on the SDK's runtime in a task of their own  *)
(* that outlives a caller who gave up.  A call is a slot of call:          *)
(*   reading  in Subscription::next, which holds the listener's lock       *)
(*   taken    a state, an event or an end is in hand, and not yet decoded  *)
(*   result   the call has returned (raw) or its task has (API)            *)
(* The listener is what SharedFeeds has of it: the topic of its newest     *)
(* state with the address of its Arc, the changed flag, the queued events  *)
(* and the terminal result.                                                *)
(***************************************************************************)
EXTENDS Naturals, Sequences, FiniteSets

CONSTANTS
    Calls,          \* slots for calls in progress
    Mode,           \* snapshot, events, or read (Capability::read)
    Executed,       \* the calls go through runtime::execute
    Values,         \* decoded snapshots
    Waiting, Unavailable, Bad, Absent,   \* a topic without one, malformed, and no topic
    MaxAddress,     \* bound: Arcs alive at the same time
    MaxPublished,   \* bound: states and events
    MaxCancels      \* bound: cancellations

Addresses == 1..MaxAddress
Bodies == Values \cup {Waiting, Unavailable, Bad, Absent}

WatchAssumption ==
    /\ Mode \in {"snapshot", "events", "read"} /\ Executed \in BOOLEAN
    /\ MaxAddress \in Nat \ {0} /\ {MaxPublished, MaxCancels} \subseteq Nat
    /\ {Waiting, Unavailable, Bad, Absent} \cap Values = {}

VARIABLES
    topic,      \* the topic of the newest state
    changed, events, closed, terminal,   \* the rest of the listener's queue
    lock,       \* the call that holds the listener's reading lock, if any
    cache,      \* SnapshotWatch::decoded; address 0 when empty
    call,       \* the calls
    released,   \* the watch was closed on this side
    shut,       \* SnapshotWatch::shutdown: no, joining or done
    published, occurred, returned, lost, cancels, ended   \* history: what was published and what became of it

listener == <<topic, changed, events, closed, terminal>>
history == <<published, occurred, returned, lost, cancels, ended>>
vars == <<listener, lock, cache, call, released, shut, history>>

NoArc == [addr |-> 0, body |-> Absent]
NoObservation == [kind |-> "none", topic |-> NoArc, event |-> 0]
NoCall == [at |-> "idle", for |-> "next", gone |-> FALSE, item |-> NoObservation, value |-> Absent,
           ok |-> TRUE, floor |-> 0]

Init ==
    /\ topic \in [addr : {1}, body : {Waiting, Unavailable}] \cup {NoArc}
    /\ changed = TRUE /\ events = <<>> /\ closed = FALSE /\ terminal = FALSE
    /\ lock = {} /\ cache = NoArc /\ released = FALSE /\ shut = "no"
    /\ call = [c \in Calls |-> NoCall]
    /\ published = 0 /\ occurred = {} /\ returned = {} /\ lost = {} /\ cancels = 0 /\ ended = "no"

-----------------------------------------------------------------------------
(* The feed behind the listener. *)

\* Addresses in use: an Arc is freed with its last holder.
Live == {topic.addr, cache.addr} \cup {call[c].item.topic.addr : c \in Calls}

\* Listener::state
Publish ==
    /\ ~closed /\ published < MaxPublished
    /\ \E a \in Addresses \ Live, b \in Bodies \ {Absent} : topic' = [addr |-> a, body |-> b]
    /\ changed' = TRUE /\ published' = published + 1
    /\ UNCHANGED <<events, closed, terminal, lock, cache, call, released, shut>>
    /\ UNCHANGED <<occurred, returned, lost, cancels, ended>>

\* Listener::event
Occur ==
    /\ ~closed /\ Mode = "events" /\ published < MaxPublished
    /\ published' = published + 1
    /\ events' = Append(events, published + 1) /\ occurred' = occurred \cup {published + 1}
    /\ UNCHANGED <<topic, changed, closed, terminal, lock, cache, call, released, shut>>
    /\ UNCHANGED <<returned, lost, cancels, ended>>

EndUpstream ==
    /\ ~closed
    /\ closed' = TRUE /\ terminal' = TRUE /\ events' = <<>> /\ changed' = FALSE
    /\ ended' = "unread"
    /\ UNCHANGED <<topic, lock, cache, call, released, shut, published, occurred, returned, lost, cancels>>

\* Subscription::close: an end that nobody has read yet is dropped as well.
CloseListener ==
    /\ closed' = TRUE /\ terminal' = FALSE /\ events' = <<>> /\ changed' = FALSE
    /\ released' = TRUE
    /\ UNCHANGED topic

-----------------------------------------------------------------------------
(* Calls. *)

\* try_lock: the lock passes straight to a shutdown that waits for it.
Lockable == lock = {} /\ shut # "joining"

\* A second receive is refused while one is pending, and changes nothing.
BeginNext(c) ==
    /\ Mode # "read" /\ call[c].at = "idle"
    /\ call' = [call EXCEPT ![c] =
          IF Lockable THEN [NoCall EXCEPT !.at = "reading",
                                !.floor = IF returned = {} THEN 0 ELSE CHOOSE e \in returned : \A f \in returned : f <= e]
          ELSE [NoCall EXCEPT !.at = "result", !.ok = FALSE]]
    /\ lock' = IF Lockable THEN {c} ELSE lock
    /\ UNCHANGED <<listener, cache, released, shut, history>>

\* events.pop_front
NextEvent == [event |-> Head(events), rest |-> Tail(events)]

\* What Subscription::next finds: an end once, then nothing; a state before events.
TakeEnd(c) ==
    /\ terminal
    /\ call' = [call EXCEPT ![c].at = "taken", ![c].item.kind = "ended"]
    /\ terminal' = FALSE /\ ended' = "read"
    /\ UNCHANGED <<changed, events>>

TakeNothing(c) ==
    /\ ~terminal /\ closed
    /\ call' = [call EXCEPT ![c].at = "taken"]
    /\ UNCHANGED <<terminal, changed, events, ended>>

TakeState(c) ==
    /\ ~closed /\ changed
    /\ call' = [call EXCEPT ![c].at = "taken", ![c].item = [NoObservation EXCEPT !.kind = "state", !.topic = topic]]
    /\ changed' = FALSE
    /\ UNCHANGED <<terminal, events, ended>>

TakeEvent(c) ==
    /\ ~closed /\ ~changed /\ events # <<>>
    /\ call' = [call EXCEPT ![c].at = "taken", ![c].item = [NoObservation EXCEPT !.kind = "event", !.event = NextEvent.event]]
    /\ events' = NextEvent.rest
    /\ UNCHANGED <<terminal, changed, ended>>

\* Subscription::next finds something, takes it and releases the lock.
Take(c) ==
    /\ call[c].at = "reading"
    /\ TakeEnd(c) \/ TakeNothing(c) \/ TakeState(c) \/ TakeEvent(c)
    /\ lock' = {}
    /\ UNCHANGED <<topic, closed, cache, released, shut, published, occurred, returned, lost, cancels>>

\* SnapshotWatch::current and EventWatch::current read the newest state, then decode it.
BeginCurrent(c) ==
    /\ Mode # "read" /\ call[c].at = "idle" /\ ~closed
    /\ call' = [call EXCEPT ![c] = [NoCall EXCEPT !.at = "taken", !.for = "current",
                                       !.item = [NoObservation EXCEPT !.kind = "state", !.topic = topic]]]
    /\ UNCHANGED <<listener, lock, cache, released, shut, history>>

\* SnapshotWatch::decode, under the lock of the cache.
Hit(t) == Mode # "events" /\ t.addr # 0 /\ cache.addr = t.addr
Decoded(t) == IF Hit(t) THEN cache.body ELSE IF t.body = Absent THEN Waiting ELSE t.body
Cached(t) == IF Hit(t) THEN cache ELSE IF t.body \in Values THEN t ELSE NoArc

\* A state; a receive that cannot decode it closes the watch, current does not.
DecodeState(c) ==
    LET t == call[c].item.topic
    IN  /\ call[c].at = "taken" /\ call[c].item.kind = "state"
        /\ call' = [call EXCEPT ![c].at = "result", ![c].value = Decoded(t), ![c].ok = Decoded(t) # Bad]
        /\ cache' = IF Mode = "events" THEN NoArc ELSE Cached(t)
        /\ IF Decoded(t) = Bad /\ call[c].for # "current"
           THEN CloseListener
           ELSE UNCHANGED <<listener, released>>
        /\ UNCHANGED <<lock, shut, history>>

\* An event, which may be malformed too; then the watch is closed.
DecodeEvent(c) ==
    /\ call[c].at = "taken" /\ call[c].item.kind = "event"
    /\ \/ /\ call' = [call EXCEPT ![c].at = "result"]
          /\ UNCHANGED <<listener, released>>
       \/ /\ call' = [call EXCEPT ![c].at = "result", ![c].ok = FALSE]
          /\ CloseListener
    /\ UNCHANGED <<lock, cache, shut, history>>

\* The end of the feed is an error; afterwards, and after a close, there is nothing.
NoItem(c) ==
    /\ call[c].at = "taken" /\ call[c].item.kind \in {"ended", "none"}
    /\ call' = [call EXCEPT ![c].at = "result", ![c].ok = call[c].item.kind = "none"]
    /\ UNCHANGED <<listener, lock, cache, released, shut, history>>

\* The caller has the result.
Return(c) ==
    /\ call[c].at = "result" /\ ~call[c].gone /\ call[c].for # "read"
    /\ returned' = IF call[c].item.kind = "event" THEN returned \cup {call[c].item.event} ELSE returned
    /\ call' = [call EXCEPT ![c] = NoCall]
    /\ UNCHANGED <<listener, lock, cache, released, shut, published, occurred, lost, cancels, ended>>

-----------------------------------------------------------------------------
(* Cancellation. *)

\* A raw future is dropped at its await; the task of runtime::execute is told to
\* abort, and goes on until its next await.
Cancel(c) ==
    /\ cancels < MaxCancels /\ call[c].for = "next" /\ ~call[c].gone
    /\ IF Executed
       THEN /\ call[c].at # "idle"
            /\ call' = [call EXCEPT ![c].gone = TRUE]
            /\ UNCHANGED lock
       ELSE /\ call[c].at = "reading"
            /\ call' = [call EXCEPT ![c] = NoCall]
            /\ lock' = {}
    /\ cancels' = cancels + 1
    /\ UNCHANGED <<listener, cache, released, shut, published, occurred, returned, lost, ended>>

\* AbortOnDropHandle: the runtime drops the task, with what it may have taken.
Abort(c) ==
    /\ call[c].gone /\ call[c].at \in {"reading", "result"}
    /\ lock' = lock \ {c}
    /\ lost' = IF call[c].at = "result" /\ call[c].item.kind \in {"state", "event", "ended"}
               THEN lost \cup {[by |-> cancels, item |-> call[c].item.kind, event |-> call[c].item.event]}
               ELSE lost
    /\ call' = [call EXCEPT ![c] = NoCall]
    /\ UNCHANGED <<listener, cache, released, shut, published, occurred, returned, cancels, ended>>

-----------------------------------------------------------------------------
(* Close, shutdown, and the one-shot read. *)

Close ==
    /\ Mode # "read" /\ ~released
    /\ CloseListener /\ cache' = NoArc
    /\ UNCHANGED <<lock, call, shut, history>>

Shutdown ==
    /\ Mode # "read" /\ shut = "no"
    /\ shut' = "joining"
    /\ CloseListener /\ cache' = NoArc
    /\ UNCHANGED <<lock, call, history>>

\* shutdown returns once it has had the reading lock.
Joined ==
    /\ shut = "joining" /\ lock = {}
    /\ shut' = "done"
    /\ UNCHANGED <<listener, lock, cache, call, released, history>>

\* Capability::read_with_timeout: receive until a value or an error is there.
BeginRead(c) ==
    /\ Mode = "read" /\ call[c].at = "idle" /\ ~released
    /\ lock' = {c}
    /\ call' = [call EXCEPT ![c] = [NoCall EXCEPT !.at = "reading", !.for = "read"]]
    /\ UNCHANGED <<listener, cache, released, shut, history>>

\* Initialization is waited through; the watch is dropped with the result.
FinishRead(c) ==
    /\ call[c].for = "read" /\ call[c].at = "result"
    /\ IF call[c].ok /\ call[c].value = Waiting
       THEN /\ call' = [call EXCEPT ![c].at = "reading", ![c].item = NoObservation]
            /\ lock' = {c}
            /\ UNCHANGED <<listener, released>>
       ELSE /\ call' = [call EXCEPT ![c].at = "done", ![c].ok = call[c].ok /\ call[c].value \in Values]
            /\ CloseListener /\ UNCHANGED lock
    /\ UNCHANGED <<cache, shut, history>>

\* The deadline, or the caller, ends it at its await.
Timeout(c) ==
    /\ call[c].for = "read" /\ call[c].at = "reading"
    /\ call' = [call EXCEPT ![c].at = "done", ![c].ok = FALSE, ![c].item = NoObservation]
    /\ lock' = {}
    /\ CloseListener
    /\ UNCHANGED <<cache, shut, history>>

-----------------------------------------------------------------------------

Feed == Publish \/ Occur \/ EndUpstream

Step(c) ==
    \/ BeginNext(c) \/ Take(c) \/ BeginCurrent(c)
    \/ DecodeState(c) \/ DecodeEvent(c) \/ NoItem(c) \/ Return(c)
    \/ Cancel(c) \/ Abort(c)
    \/ BeginRead(c) \/ FinishRead(c) \/ Timeout(c)

Next == Feed \/ Close \/ Shutdown \/ Joined \/ \E c \in Calls : Step(c)

Spec == Init /\ [][Next]_vars

-----------------------------------------------------------------------------
(* Properties. *)

\* Shape of the state.
TypeOK ==
    /\ topic \in [addr : Addresses, body : Bodies] \cup {NoArc}
    /\ cache \in [addr : Addresses, body : Values] \cup {NoArc}
    /\ terminal => closed
    /\ \A c \in Calls : call[c].at \in {"idle", "reading", "taken", "result", "done"}
    /\ lock \in {{}} \cup {{c} : c \in Calls}

\* SnapshotWatch::decode compares addresses, not contents: what a call returns is
\* still the decoded form of the state it took, whatever other calls cached
\* meanwhile and however addresses are reused.
DecodedIsCurrent == \A c \in Calls :
    call[c].at = "result" /\ call[c].item.kind = "state" =>
        LET b == call[c].item.topic.body
        IN  call[c].value = IF b = Absent THEN Waiting ELSE b

\* "Cancellation consumes no item": every event is still queued, in the hands of a
\* call, or was returned; only a call that went through runtime::execute can lose
\* the one it had taken, and then its caller had cancelled it.
EventsAccounted ==
    /\ lost # {} => Executed /\ Cardinality(lost) <= cancels
    /\ ~closed /\ Mode = "events" =>
          \A e \in occurred :
             Cardinality({i \in DOMAIN events : events[i] = e}) +
             Cardinality({c \in Calls : call[c].item.event = e}) +
             Cardinality(returned \cap {e}) + Cardinality({l \in lost : l.event = e}) = 1

\* Occurrences retain order: a call that began after an event was returned gets a
\* later one.
EventsInOrder == \A c \in Calls :
    call[c].item.kind = "event" => call[c].item.event > call[c].floor

\* next returns None only after this side closed the watch, or the end of the feed
\* was handed to a call as an error.
EndIsReported == \A c \in Calls :
    call[c].at = "taken" /\ call[c].item.kind = "none" => released \/ ended = "read"

\* A receive that fails to decode releases the demand; a refused one does not.
FailureReleases == \A c \in Calls :
    call[c].at = "result" /\ ~call[c].ok /\ call[c].for = "next" /\ call[c].item.kind \in {"state", "event"} => closed

\* Capability::read: it ends with a value or an error, never with a topic that is
\* still waiting or unavailable, and no demand is left behind.
ReadReleases == \A c \in Calls :
    call[c].at = "done" => closed /\ (call[c].ok => call[c].value \in Values)

=============================================================================
