------------------------------ MODULE Delivery ------------------------------
(***************************************************************************)
(* One subscription stream between transport/delivery.rs (encode, ACKs)    *)
(* and the SDK's subscription/reader.rs (reconstruct, acknowledge): which  *)
(* snapshots travel as patches, and against which baselines both sides     *)
(* apply them while acknowledgements are under way, late, or lost.         *)
(*                                                                         *)
(* Both directions of the stream deliver in order.  A patch is the pair of *)
(* payloads it was computed from; applied to another payload it fails or   *)
(* gives a value with another hash.                                        *)
(***************************************************************************)
EXTENDS StreamItems

CONSTANTS
    DeltaTopics,        \* topics whose manifest asks for delta delivery
    Hash,               \* JsonPayload::hash
    Nothing,            \* the None of an Option
    Cap(_)              \* bound on the items of a stream, for model checking

Hashes == {Hash[p] : p \in Payloads}
Acks == [metadata : Metadata, hash : Hashes]
Baselines == [snapshot : Snapshots, acknowledged : BOOLEAN]

ASSUME DeltaAssumption ==
    /\ DeltaTopics \subseteq Topics
    /\ Nothing \notin Snapshots \union Acks \union Baselines

VARIABLES
    sequence,       \* the number of the last item taken from the subscription
    taken,          \* that item
    generation,     \* of each key, as the service numbers it
    ended,          \* sessions whose end was sent
    updating,       \* the bootstrap is sent
    topics,         \* Delivery::topics
    base,           \* Delivery::baselines
    readAcks,       \* the service still reads acknowledgements
    frames,         \* service to SDK
    acks,           \* SDK to service
    deltas,         \* Reader::deltas: the ACK side was not closed at the start
    known,          \* Reader::baselines
    pending,        \* Reader::pending_ack
    cache,          \* what the feed has installed and published
    status          \* open, closed (the feed failed), or resync

service == <<sequence, taken, generation, ended, updating>>
reader == <<deltas, known, pending, cache, status>>
vars == <<service, topics, base, readAcks, frames, acks, reader>>

-----------------------------------------------------------------------------
(* Frames. *)

PlainFrame(item) == [wire |-> "Plain", item |-> item]
FullFrame(cursor, s) ==
    [wire |-> "Full", cursor |-> cursor, metadata |-> s.metadata, payload |-> s.payload]

\* Mutant: the frame names its own number as the baseline's.
DeltaFrameOwnSequence(cursor, b, s) ==
    [wire |-> "Delta", cursor |-> cursor, metadata |-> s.metadata,
     base |-> s.metadata.sequence, hash |-> Hash[s.payload],
     patch |-> [from |-> b.payload, to |-> s.payload]]

\* SnapshotPayload::between
DeltaFrame(cursor, b, s) ==
    [wire |-> "Delta", cursor |-> cursor, metadata |-> s.metadata,
     base |-> b.metadata.sequence, hash |-> Hash[s.payload],
     patch |-> [from |-> b.payload, to |-> s.payload]]

\* The baseline a delta may be applied to.
BaselineFits(b, frame) ==
    /\ b # Nothing
    /\ b.metadata.key = frame.metadata.key
    /\ b.metadata.generation = frame.metadata.generation
    /\ b.metadata.sequence = frame.base
    /\ frame.base < frame.metadata.sequence

\* SnapshotFrame::reconstruct: whether a frame yields an item, and which.
Reconstructs(frame, b) ==
    frame.wire = "Delta" => /\ BaselineFits(b, frame)
                            /\ b.payload = frame.patch.from
                            /\ Hash[frame.patch.to] = frame.hash

Reconstruct(frame) ==
    CASE frame.wire = "Plain" -> frame.item
      [] frame.wire = "Full" ->
            DataItem(frame.cursor, [metadata |-> frame.metadata, payload |-> frame.payload])
      [] frame.wire = "Delta" ->
            DataItem(frame.cursor, [metadata |-> frame.metadata, payload |-> frame.patch.to])

-----------------------------------------------------------------------------
(* Delivery::encode. *)

Forget(item) ==
    [k \in Keys |-> IF Touches(item, k) THEN Nothing ELSE base[k]]

\* A patch needs an acknowledged baseline of the same source and generation.
Eligible(s) ==
    /\ base[s.metadata.key] # Nothing
    /\ base[s.metadata.key].acknowledged
    /\ base[s.metadata.key].snapshot.metadata.generation = s.metadata.generation

Send(frame) == frames' = Append(frames, frame)

Encode(item) ==
    \/ /\ item.kind \in {"Reset", "Ended"}
       /\ Send(PlainFrame(item))
       /\ base' = Forget(item)
    \/ /\ item.kind \in {"Data", "State"}
       /\ item.key[2] \notin topics
       /\ Send(PlainFrame(item))
       /\ UNCHANGED base
    \/ /\ item.kind = "State"
       /\ item.key[2] \in topics
       /\ Send(PlainFrame(item))
       /\ base' = Forget(item)
    \/ /\ item.kind = "Data"
       /\ item.key[2] \in topics
       /\ \/ Send(FullFrame(item.cursor, item.snapshot))
          \/ /\ Eligible(item.snapshot)   \* and the patch is smaller
             /\ Send(DeltaFrame(item.cursor, base[item.key].snapshot, item.snapshot))
       /\ base' = [base EXCEPT ![item.key] =
                     [snapshot |-> item.snapshot, acknowledged |-> FALSE]]

\* serve: the next item of the subscription is encoded and written.
Take(item) ==
    /\ status = "open"
    /\ Cap(sequence)
    /\ sequence' = sequence + 1 /\ taken' = item
    /\ Encode(item)
    /\ UNCHANGED <<topics, readAcks, acks, reader>>

Live(k) == k[1] \notin ended

Stamp(k, p) ==
    [metadata |-> [key |-> k, generation |-> generation[k], sequence |-> sequence + 1],
     payload |-> p]

SendData(k, p) ==
    /\ Live(k)
    /\ Take(DataItem(updating, Stamp(k, p)))
    /\ UNCHANGED <<generation, ended, updating>>

SendState(k) ==
    /\ Live(k)
    /\ Take(StateItem(updating, k, generation[k], "Unavailable"))
    /\ UNCHANGED <<generation, ended, updating>>

SendReset(k) ==
    /\ Live(k) /\ updating
    /\ generation' = [generation EXCEPT ![k] = @ + 1]
    /\ Take(ResetItem(k, generation[k] + 1))
    /\ UNCHANGED <<ended, updating>>

SendEnded(s) ==
    /\ s \notin ended /\ updating
    /\ ended' = ended \union {s}
    /\ Take(EndedItem(s))
    /\ UNCHANGED <<generation, updating>>

SendReady ==
    /\ ~updating
    /\ updating' = TRUE
    /\ UNCHANGED <<sequence, taken, generation, ended, topics, base, readAcks, frames, acks, reader>>

-----------------------------------------------------------------------------
(* Acknowledgements at the service. *)

\* Mutant: an acknowledgement confirms whatever the baseline now is.
ConfirmsKey(ack) == base[ack.metadata.key] # Nothing

Confirms(ack) ==
    /\ base[ack.metadata.key] # Nothing
    /\ base[ack.metadata.key].snapshot.metadata = ack.metadata
    /\ Hash[base[ack.metadata.key].snapshot.payload] = ack.hash

\* Delivery::acknowledge; an ACK of a replaced baseline is ignored.
ReadAck ==
    /\ status = "open" /\ readAcks /\ acks # <<>>
    /\ acks' = Tail(acks)
    /\ base' = IF Confirms(Head(acks))
               THEN [base EXCEPT ![Head(acks).metadata.key].acknowledged = TRUE]
               ELSE base
    /\ UNCHANGED <<service, topics, readAcks, frames, reader>>

\* The ACK side is closed or broken: from now on complete updates only.
AckSideEnds ==
    /\ status = "open" /\ readAcks
    /\ readAcks' = FALSE
    /\ base' = [k \in Keys |-> Nothing]
    /\ topics' = {}
    /\ UNCHANGED <<service, frames, acks, reader>>

-----------------------------------------------------------------------------
(* Reader::next and the feed's installation, then Reader::acknowledge. *)

Remembered(frame, item) ==
    IF item.kind = "Data"
    THEN IF frame.wire # "Plain" /\ deltas
         THEN [known EXCEPT ![item.key] = item.snapshot] ELSE known
    ELSE [k \in Keys |-> IF Touches(item, k) THEN Nothing ELSE known[k]]

Baseline(frame) == IF frame.wire = "Plain" THEN Nothing ELSE known[frame.metadata.key]

Installs(frame, item) ==
    /\ cache' = Apply(cache, item)
    /\ known' = Remembered(frame, item)
    /\ pending' = IF frame.wire # "Plain" /\ deltas
                  THEN [metadata |-> frame.metadata, hash |-> Hash[item.snapshot.payload]]
                  ELSE Nothing

\* A delta that cannot be applied ends this stream; the feed bootstraps again.
Resyncs == status' = "resync" /\ UNCHANGED <<cache, known, pending>>

Receive ==
    /\ status = "open" /\ frames # <<>> /\ pending = Nothing
    /\ IF Reconstructs(Head(frames), Baseline(Head(frames)))
       THEN /\ frames' = Tail(frames)
            /\ Installs(Head(frames), Reconstruct(Head(frames)))
            /\ UNCHANGED status
       ELSE /\ frames' = <<>>
            /\ Resyncs
    /\ UNCHANGED <<service, topics, base, readAcks, acks, deltas>>

Acknowledge ==
    /\ status = "open" /\ pending # Nothing
    /\ acks' = Append(acks, pending)
    /\ pending' = Nothing
    /\ UNCHANGED <<service, topics, base, readAcks, frames, deltas, known, cache, status>>

\* Writing the acknowledgement fails or takes longer than 5 seconds.
AcknowledgeFails ==
    /\ status = "open" /\ pending # Nothing
    /\ status' = "closed"
    /\ UNCHANGED <<service, topics, base, readAcks, frames, acks, deltas, known, pending, cache>>

-----------------------------------------------------------------------------
\* A feed opens its stream with deltas, or without after a resync.
Init ==
    /\ sequence = 0 /\ taken = NoEntry /\ generation = [k \in Keys |-> 0]
    /\ ended = {} /\ updating = FALSE
    /\ topics = DeltaTopics
    /\ base = [k \in Keys |-> Nothing]
    /\ readAcks = (DeltaTopics # {})
    /\ frames = <<>> /\ acks = <<>>
    /\ deltas \in BOOLEAN
    /\ known = [k \in Keys |-> Nothing]
    /\ pending = Nothing
    /\ cache = [k \in Keys |-> NoEntry]
    /\ status = "open"

Next ==
    \/ \E k \in Keys, p \in Payloads : SendData(k, p)
    \/ \E k \in Keys : SendState(k) \/ SendReset(k)
    \/ \E s \in Sessions : SendEnded(s)
    \/ SendReady
    \/ ReadAck \/ AckSideEnds
    \/ Receive \/ Acknowledge \/ AcknowledgeFails

Spec == Init /\ [][Next]_vars

-----------------------------------------------------------------------------
(* Properties. *)

\* The frames under way, as the items the service took from the subscription.
Decoded == [i \in 1..Len(frames) |-> Reconstruct(frames[i])]

Plain == INSTANCE PlainStream WITH pipe <- Decoded

\* Delta delivery implements the plain stream: what the feed installs is, item by
\* item, what the service encoded, and no delta ever makes it start over.
ImplementsPlainStream == Plain!PSpec

FrameTouches(frame, k) ==
    IF frame.wire = "Plain" THEN Touches(frame.item, k) ELSE frame.metadata.key = k

\* "Confirms applied state, not receipt of transport bytes" (delta.rs): while the
\* service holds a baseline for acknowledged, the SDK has exactly that snapshot
\* installed, and nothing under way replaces it.
AcknowledgedIsInstalled ==
    \A k \in Keys : status = "open" /\ base[k] # Nothing => (base[k].acknowledged =>
        /\ known[k] = base[k].snapshot
        /\ cache[k].kind = "Data" /\ cache[k].snapshot = base[k].snapshot
        /\ \A i \in 1..Len(frames) : ~FrameTouches(frames[i], k))

\* The service's own deltas never force a new bootstrap, whenever acknowledgements
\* arrive and wherever the ACK side breaks.
NeverResyncs == status # "resync"

\* A feed that closed its ACK side is never sent a delta.
FullOnlyGetsNoDelta ==
    ~deltas => \A i \in 1..Len(frames) : frames[i].wire # "Delta"

\* Deltas always apply: the service and the SDK agree on every acknowledged
\* baseline, no delta makes the feed bootstrap again, and none is sent to a feed that
\* cannot acknowledge.
DeltasApply == AcknowledgedIsInstalled /\ NeverResyncs /\ FullOnlyGetsNoDelta

Frames ==
    [wire : {"Plain"}, item : Items]
    \union [wire : {"Full"}, cursor : BOOLEAN, metadata : Metadata, payload : Payloads]
    \union [wire : {"Delta"}, cursor : BOOLEAN, metadata : Metadata, base : Nat,
            hash : Hashes, patch : [from : Payloads, to : Payloads]]

\* Types: a baseline on either side is filed under the key it is a snapshot of.
TypeOK ==
    /\ sequence \in Nat /\ generation \in [Keys -> Nat]
    /\ ended \subseteq Sessions /\ updating \in BOOLEAN
    /\ topics \subseteq DeltaTopics /\ readAcks \in BOOLEAN /\ deltas \in BOOLEAN
    /\ base \in [Keys -> {Nothing} \union Baselines]
    /\ known \in [Keys -> {Nothing} \union Snapshots]
    /\ \A k \in Keys : base[k] # Nothing => base[k].snapshot.metadata.key = k
    /\ \A k \in Keys : known[k] # Nothing => known[k].metadata.key = k
    /\ pending \in {Nothing} \union Acks
    /\ acks \in Seq(Acks) /\ frames \in Seq(Frames)
    /\ DOMAIN cache = Keys
    /\ status \in {"open", "closed", "resync"}
=============================================================================
