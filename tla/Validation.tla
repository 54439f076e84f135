----------------------------- MODULE Validation -----------------------------
(***************************************************************************)
(* The client end of a subscription stream in the SDK: Validation::accept  *)
(* (crates/wf-observer-sdk/src/subscription/validation.rs) and the cache   *)
(* Feed::receive_once keeps from the items it accepts (feed.rs).           *)
(*                                                                         *)
(* A client remembers its bootstrap cursor, the last sequence number, the  *)
(* sessions it saw begin and, for every topic of theirs it was told about, *)
(* the state; the generations Validation tracks are those of the states.   *)
(***************************************************************************)
EXTENDS Inner

\* Validation::new with an empty FeedState.
NewClient ==
    [phase |-> "New", begin |-> 0, sequence |-> 0, sessions |-> {},
     builds |-> [s \in SessionIds |-> None],
     topics |-> [s \in SessionIds |-> [t \in Topics |-> None]]]

Begun(c) == c.phase \in {"Bootstrap", "Ready"}

Known(c, s, t) == c.topics[s][t] # None

\* Validation::selected and source: the peer may speak of selected data only.
Selected(sub, s) == MatchesSession(sub, s)

Source(c, sub, s, t) == s \in c.sessions /\ t \in sub.topics

\* Validation::topic: a state belongs to the generation already announced, and
\* its snapshot to that state and to a number not beyond the stream's.
TopicAccepted(c, sub, s, t, state, bootstrap) ==
    /\ Source(c, sub, s, t)
    /\ state.generation > 0
    /\ Known(c, s, t) => ~bootstrap /\ c.topics[s][t].generation = state.generation
    /\ state.snapshot # None =>
          /\ state.health = "Available"
          /\ state.snapshot.generation = state.generation
          /\ state.snapshot.sequence \in 1..c.sequence

\* Validation::update, for a client that already took the update's number.
UpdateAccepted(c, sub, u) ==
    CASE u.kind = "SessionStarted" -> Selected(sub, u.session) /\ u.session \notin c.sessions
      [] u.kind = "SessionChanged" -> Selected(sub, u.session) /\ u.session \in c.sessions
      [] u.kind = "SessionEnded" -> u.session \in c.sessions
      [] u.kind = "TopicReset" ->
            /\ Source(c, sub, u.session, u.topic)
            /\ Known(c, u.session, u.topic)
            /\ u.generation > c.topics[u.session][u.topic].generation
      [] u.kind = "TopicChanged" ->
            TopicAccepted(c, sub, u.session, u.topic, u.state, FALSE)
      [] u.kind = "Event" ->
            /\ Source(c, sub, u.session, u.topic)
            /\ Known(c, u.session, u.topic)
            /\ c.topics[u.session][u.topic].generation = u.generation
            /\ u.sequence = c.sequence

\* Validation::accept.
Accepted(c, sub, i) ==
    CASE i.item = "Begin" -> c.phase = "New"
      [] i.item = "Session" ->
            c.phase = "Bootstrap" /\ Selected(sub, i.session) /\ i.session \notin c.sessions
      [] i.item = "Topic" ->
            c.phase = "Bootstrap" /\ TopicAccepted(c, sub, i.session, i.topic, i.state, TRUE)
      [] i.item = "Ready" ->
            /\ c.phase = "Bootstrap" /\ i.sequence = c.begin
            /\ \A s \in c.sessions, t \in sub.topics : Known(c, s, t)
      [] i.item = "Update" ->
            /\ c.phase = "Ready" /\ i.sequence > c.sequence
            /\ UpdateAccepted([c EXCEPT !.sequence = i.sequence], sub, i.update)
      [] i.item = "Closed" -> Begun(c)

\* The cache after an update; a reset leaves the topic Initializing and empty.
Applied(c, u) ==
    CASE u.kind = "SessionStarted" ->
            [c EXCEPT !.sessions = @ \cup {u.session}, !.builds[u.session] = u.build]
      [] u.kind = "SessionChanged" -> [c EXCEPT !.builds[u.session] = u.build]
      [] u.kind = "SessionEnded" ->
            [c EXCEPT !.sessions = @ \ {u.session}, !.builds[u.session] = None,
                      !.topics[u.session] = [t \in Topics |-> None]]
      [] u.kind = "TopicReset" ->
            [c EXCEPT !.topics[u.session][u.topic] =
                [generation |-> u.generation, health |-> "Initializing", snapshot |-> None]]
      [] u.kind = "TopicChanged" -> [c EXCEPT !.topics[u.session][u.topic] = u.state]
      [] u.kind = "Event" -> c

\* One item: refused, or accepted and applied.  A feed that refused an item
\* fails and reads no further.
Accept(c, sub, i) ==
    IF ~Accepted(c, sub, i) THEN [c EXCEPT !.phase = "Failed"]
    ELSE CASE i.item = "Begin" ->
                [c EXCEPT !.phase = "Bootstrap", !.begin = i.sequence, !.sequence = i.sequence]
           [] i.item = "Session" ->
                [c EXCEPT !.sessions = @ \cup {i.session}, !.builds[i.session] = i.build]
           [] i.item = "Topic" -> [c EXCEPT !.topics[i.session][i.topic] = i.state]
           [] i.item = "Ready" -> [c EXCEPT !.phase = "Ready"]
           [] i.item = "Update" -> Applied([c EXCEPT !.sequence = i.sequence], i.update)
           [] i.item = "Closed" -> [NewClient EXCEPT !.phase = "Closed"]

=============================================================================
