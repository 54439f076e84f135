--------------------------- MODULE DeliveryProofs ---------------------------
(***************************************************************************)
(* Delta delivery implements the plain stream, for every set of sessions,  *)
(* topics and payloads and every hash function.  Then what callers of the  *)
(* SDK are told, for any number of them: requests (Queries), watches       *)
(* (Watch) and the feeds that watches share (SharedFeeds).                 *)
(*                                                                         *)
(* The argument for delivery: a baseline the service holds for             *)
(* acknowledged is the one the SDK has, and no frame under way touches its *)
(* key (AckedInv).  To be preserved by the arrival of an acknowledgement   *)
(* this needs the same of every acknowledgement under way that still       *)
(* matches the baseline (AckInv), and of the frame it will acknowledge,    *)
(* that it is the last one for its key (LastInv).  A delta is sent against *)
(* an acknowledged baseline, so when it arrives the SDK still has it       *)
(* (DeltaInv).                                                             *)
(***************************************************************************)
EXTENDS Delivery, FiniteSets, FiniteSetTheorems, SequenceTheorems, TLAPS

\* The payload a snapshot frame stands for.
Data(f) == IF f.wire = "Full" THEN f.payload ELSE f.patch.to

\* No frame under way touches the key.
Quiet(k) == \A i \in 1..Len(frames) : ~FrameTouches(frames[i], k)

\* The SDK holds the service's baseline, and nothing under way changes that.
Settled(k) ==
    /\ known[k] = base[k].snapshot
    /\ cache[k].kind = "Data" /\ cache[k].snapshot = base[k].snapshot
    /\ Quiet(k)

\* An acknowledgement is under way, or about to be written.
InFlight(ack) == ack = pending \/ \E i \in 1..Len(acks) : acks[i] = ack

SeqInv ==
    /\ \A i \in 1..Len(frames) :
          frames[i].wire # "Plain" => frames[i].metadata.sequence <= sequence
    /\ \A ack \in Acks : InFlight(ack) => ack.metadata.sequence <= sequence
    /\ \A k \in Keys : base[k] # Nothing => base[k].snapshot.metadata.sequence <= sequence

AckedInv == \A k \in Keys : base[k] # Nothing => (base[k].acknowledged => Settled(k))

AckInv ==
    \A ack \in Acks : InFlight(ack) =>
        \A k \in Keys : base[k] # Nothing =>
            (base[k].snapshot.metadata = ack.metadata => Settled(k))

LastInv ==
    \A k \in Keys, i \in 1..Len(frames) :
        /\ base[k] # Nothing
        /\ frames[i].wire # "Plain"
        /\ frames[i].metadata = base[k].snapshot.metadata
        => /\ Data(frames[i]) = base[k].snapshot.payload
           /\ \A j \in (i + 1)..Len(frames) : ~FrameTouches(frames[j], k)

DeltaInv ==
    \A i \in 1..Len(frames) : frames[i].wire = "Delta" =>
        /\ Reconstructs(frames[i], known[frames[i].metadata.key])
        /\ \A j \in 1..(i - 1) : ~FrameTouches(frames[j], frames[i].metadata.key)

\* Delta encoding and baselines end together.
TopicsInv == \A k \in Keys : k[2] \notin topics => base[k] = Nothing

FullOnlyInv ==
    ~deltas => /\ \A ack \in Acks : ~InFlight(ack)
               /\ \A k \in Keys : base[k] # Nothing => ~base[k].acknowledged
               /\ \A i \in 1..Len(frames) : frames[i].wire # "Delta"

Inv ==
    /\ TypeOK
    /\ NeverResyncs
    /\ SeqInv /\ AckedInv /\ AckInv /\ LastInv /\ DeltaInv /\ TopicsInv /\ FullOnlyInv

-----------------------------------------------------------------------------
\* Every frame is plain, or a snapshot of its key.
LEMMA FrameShape ==
    ASSUME NEW f \in Frames
    PROVE  /\ f.wire \in {"Plain", "Full", "Delta"}
           /\ f.wire = "Plain" => f.item \in Items
           /\ f.wire # "Plain" => f.metadata \in Metadata /\ Data(f) \in Payloads
           /\ f.wire = "Full" => f.cursor \in BOOLEAN /\ f.payload \in Payloads
           /\ f.wire = "Delta" => f.cursor \in BOOLEAN /\ f.patch.to \in Payloads
BY DEF Frames, Data

LEMMA ItemShape ==
    ASSUME NEW x \in Items
    PROVE  /\ x.kind \in {"Data", "State", "Reset", "Ended"}
           /\ x.kind = "Ended" => x.session \in Sessions
           /\ x.kind # "Ended" => x.key \in Keys
           /\ x.kind = "Data" => x.snapshot \in Snapshots
BY DEF Items, DataItems, StateItems, ResetItems, EndedItems

\* What reconstruct returns for a snapshot frame.
LEMMA Reconstructed ==
    ASSUME NEW f \in Frames, f.wire # "Plain"
    PROVE  /\ Reconstruct(f).kind = "Data"
           /\ Reconstruct(f).key = f.metadata.key
           /\ Reconstruct(f).snapshot = [metadata |-> f.metadata, payload |-> Data(f)]
           /\ [metadata |-> f.metadata, payload |-> Data(f)] \in Snapshots
<1>1. f.wire \in {"Full", "Delta"} /\ f.metadata \in Metadata /\ Data(f) \in Payloads
  BY FrameShape
<1>2. [metadata |-> f.metadata, payload |-> Data(f)] \in Snapshots
  BY <1>1 DEF Snapshots
<1>3. Reconstruct(f) = DataItem(f.cursor, [metadata |-> f.metadata, payload |-> Data(f)])
  BY <1>1 DEF Reconstruct, Data
<1> QED
  BY <1>2, <1>3 DEF DataItem

\* Initially nothing is under way and no baseline exists.
LEMMA InitInv == Init => Inv
<1> SUFFICES ASSUME Init PROVE Inv
  OBVIOUS
<1>1. TypeOK
  <2>1. readAcks \in BOOLEAN
    BY DEF Init
  <2>2. base \in [Keys -> {Nothing} \union Baselines] /\ \A k \in Keys : base[k] = Nothing
    BY DEF Init
  <2>3. known \in [Keys -> {Nothing} \union Snapshots] /\ \A k \in Keys : known[k] = Nothing
    BY DEF Init
  <2>4. acks \in Seq(Acks) /\ frames \in Seq(Frames)
    BY DEF Init
  <2>5. generation \in [Keys -> Nat] /\ DOMAIN cache = Keys
    BY DEF Init
  <2> QED
    BY <2>1, <2>2, <2>3, <2>4, <2>5 DEF Init, TypeOK
<1>2. frames = <<>> /\ acks = <<>> /\ pending = Nothing /\ Len(frames) = 0 /\ Len(acks) = 0
  BY DEF Init
<1>3. \A ack \in Acks : ~InFlight(ack)
  BY <1>2, DeltaAssumption DEF InFlight
<1> QED
  BY <1>1, <1>2, <1>3 DEF Init, Inv, NeverResyncs, SeqInv, AckedInv, AckInv, LastInv, DeltaInv,
     TopicsInv, FullOnlyInv
-----------------------------------------------------------------------------
(* A step that sends a frame. *)

\* The baselines a frame leaves behind: untouched keys keep theirs, touched ones
\* lose it, or have the frame's snapshot, not acknowledged.
Rebased(f) ==
    /\ base' \in [Keys -> {Nothing} \union Baselines]
    /\ \A k \in Keys : ~FrameTouches(f, k) => base'[k] = base[k]
    /\ \A k \in Keys : FrameTouches(f, k) /\ base'[k] # Nothing =>
          /\ base'[k].acknowledged = FALSE
          /\ f.wire # "Plain"
          /\ base'[k].snapshot = [metadata |-> f.metadata, payload |-> Data(f)]

\* A delta is made against an acknowledged baseline.
SoundDelta(f) ==
    f.wire = "Delta" =>
        /\ base[f.metadata.key] # Nothing
        /\ base[f.metadata.key].acknowledged
        /\ Reconstructs(f, base[f.metadata.key].snapshot)

\* Sending a frame preserves the invariant.
LEMMA SendInv ==
    ASSUME Inv, NEW f \in Frames,
           frames' = Append(frames, f), Rebased(f), SoundDelta(f),
           f.wire # "Plain" => f.metadata.sequence = sequence + 1,
           sequence' = sequence + 1,
           generation' \in [Keys -> Nat], ended' \subseteq Sessions,
           TopicsInv',
           UNCHANGED <<updating, topics, readAcks, acks, reader>>
    PROVE  Inv'
<1> DEFINE n == Len(frames)
<1>1. /\ n \in Nat /\ Len(frames') = n + 1 /\ frames' \in Seq(Frames)
      /\ \A i \in 1..n : frames'[i] = frames[i]
      /\ frames'[n + 1] = f
  BY AppendProperties DEF Inv, TypeOK
<1>2. \A i \in 1..n : frames[i] \in Frames
  BY ElementOfSeq DEF Inv, TypeOK
<1>3. /\ sequence \in Nat
      /\ f.wire # "Plain" => f.metadata.sequence \in Nat
  BY FrameShape DEF Inv, TypeOK, Metadata
<1>4. UNCHANGED <<deltas, known, pending, cache, status, acks, topics>>
  BY DEF reader
<1>5. \A ack : InFlight(ack)' <=> InFlight(ack)
  BY <1>4 DEF InFlight
<1>6. \A k \in Keys : ~FrameTouches(f, k) => (Quiet(k) => Quiet(k)')
  BY <1>1 DEF Quiet
<1>7. \A k \in Keys : ~FrameTouches(f, k) => (Settled(k) => Settled(k)')
  BY <1>6, <1>4 DEF Settled, Rebased
<1>8. TypeOK'
  <2>1. \A k \in Keys : base'[k] # Nothing => base'[k].snapshot.metadata.key = k
    <3> SUFFICES ASSUME NEW k \in Keys, base'[k] # Nothing
                 PROVE  base'[k].snapshot.metadata.key = k
      OBVIOUS
    <3>1. CASE ~FrameTouches(f, k)
      BY <3>1 DEF Rebased, Inv, TypeOK
    <3>2. CASE FrameTouches(f, k)
      BY <3>2 DEF Rebased, FrameTouches
    <3> QED
      BY <3>1, <3>2
  <2> QED
    BY <2>1, <1>1, <1>4 DEF Inv, TypeOK, Rebased
<1>9. NeverResyncs'
  BY <1>4 DEF Inv, NeverResyncs
<1>10. SeqInv'
  <2>1. \A i \in 1..Len(frames') :
           frames'[i].wire # "Plain" => frames'[i].metadata.sequence <= sequence'
    <3> SUFFICES ASSUME NEW i \in 1..(n + 1), frames'[i].wire # "Plain"
                 PROVE  frames'[i].metadata.sequence <= sequence + 1
      BY <1>1
    <3>1. CASE i \in 1..n
      <4>1. frames[i].metadata.sequence \in Nat
        BY <3>1, <1>1, <1>2, FrameShape DEF Metadata
      <4> QED
        BY <4>1, <3>1, <1>1, <1>3 DEF Inv, SeqInv
    <3>2. CASE i = n + 1
      BY <3>2, <1>1, <1>3
    <3> QED
      BY <3>1, <3>2, <1>1
  <2>2. \A ack \in Acks : InFlight(ack)' => ack.metadata.sequence <= sequence'
    BY <1>5, <1>3 DEF Inv, SeqInv, Acks, Metadata
  <2>3. \A k \in Keys : base'[k] # Nothing => base'[k].snapshot.metadata.sequence <= sequence'
    <3> SUFFICES ASSUME NEW k \in Keys, base'[k] # Nothing
                 PROVE  base'[k].snapshot.metadata.sequence <= sequence + 1
      OBVIOUS
    <3>1. CASE ~FrameTouches(f, k)
      <4>1. base[k].snapshot.metadata.sequence \in Nat /\ base[k] = base'[k]
        BY <3>1 DEF Rebased, Baselines, Snapshots, Metadata
      <4> QED
        BY <4>1, <1>3 DEF Inv, SeqInv
    <3>2. CASE FrameTouches(f, k)
      BY <3>2, <1>3 DEF Rebased
    <3> QED
      BY <3>1, <3>2
  <2> QED
    BY <2>1, <2>2, <2>3 DEF SeqInv
<1>11. AckedInv'
  <2> SUFFICES ASSUME NEW k \in Keys, base'[k] # Nothing, base'[k].acknowledged
               PROVE  Settled(k)'
    BY DEF AckedInv
  <2>1. ~FrameTouches(f, k)
    BY DEF Rebased
  <2> QED
    BY <2>1, <1>7 DEF Rebased, Inv, AckedInv
<1>12. AckInv'
  <2> SUFFICES ASSUME NEW ack \in Acks, InFlight(ack)', NEW k \in Keys, base'[k] # Nothing,
                      base'[k].snapshot.metadata = ack.metadata
               PROVE  Settled(k)'
    BY DEF AckInv
  <2>1. InFlight(ack) /\ ack.metadata.sequence <= sequence /\ ack.metadata.sequence \in Nat
    BY <1>5 DEF Inv, SeqInv, Acks, Metadata
  <2>2. ~FrameTouches(f, k)
    BY <2>1, <1>3 DEF Rebased
  <2> QED
    BY <2>1, <2>2, <1>7 DEF Rebased, Inv, AckInv
<1>13. LastInv'
  <2> SUFFICES ASSUME NEW k \in Keys, NEW i \in 1..(n + 1), base'[k] # Nothing,
                      frames'[i].wire # "Plain",
                      frames'[i].metadata = base'[k].snapshot.metadata
               PROVE  /\ Data(frames'[i]) = base'[k].snapshot.payload
                      /\ \A j \in (i + 1)..(n + 1) : ~FrameTouches(frames'[j], k)
    BY <1>1 DEF LastInv
  <2>1. CASE i \in 1..n
    <3>1. frames'[i] = frames[i] /\ frames[i].metadata.sequence \in Nat
          /\ frames[i].metadata.sequence <= sequence
      BY <2>1, <1>1, <1>2, FrameShape DEF Metadata, Inv, SeqInv
    <3>2. ~FrameTouches(f, k)
      BY <3>1, <1>3 DEF Rebased
    <3>3. base'[k] = base[k]
      BY <3>2 DEF Rebased
    <3>4. /\ Data(frames[i]) = base[k].snapshot.payload
          /\ \A j \in (i + 1)..n : ~FrameTouches(frames[j], k)
      BY <2>1, <3>1, <3>3 DEF Inv, LastInv
    <3>5. \A j \in (i + 1)..(n + 1) : ~FrameTouches(frames'[j], k)
      <4> SUFFICES ASSUME NEW j \in (i + 1)..(n + 1) PROVE ~FrameTouches(frames'[j], k)
        OBVIOUS
      <4>1. CASE j = n + 1
        BY <4>1, <3>2, <1>1
      <4>2. CASE j # n + 1
        <5>1. j \in (i + 1)..n /\ j \in 1..n
          BY <4>2, <2>1, <1>1
        <5> QED
          BY <5>1, <3>4, <1>1
      <4> QED
        BY <4>1, <4>2
    <3> QED
      BY <3>1, <3>3, <3>4, <3>5
  <2>2. CASE i = n + 1
    <3>1. frames'[i] = f /\ f.metadata.sequence = sequence + 1
      BY <2>2, <1>1
    <3>2. FrameTouches(f, k)
      <4>1. ASSUME ~FrameTouches(f, k) PROVE FALSE
        <5>1. base[k] = base'[k] /\ base[k].snapshot.metadata.sequence \in Nat
          BY <4>1 DEF Rebased, Baselines, Snapshots, Metadata
        <5>2. base[k].snapshot.metadata.sequence <= sequence
          BY <5>1 DEF Inv, SeqInv
        <5> QED
          BY <5>1, <5>2, <3>1, <1>3
      <4> QED
        BY <4>1
    <3> QED
      BY <3>1, <3>2, <2>2, <1>1 DEF Rebased
  <2> QED
    BY <2>1, <2>2, <1>1
<1>14. DeltaInv'
  <2> SUFFICES ASSUME NEW i \in 1..(n + 1), frames'[i].wire = "Delta"
               PROVE  /\ Reconstructs(frames'[i], known[frames'[i].metadata.key])
                      /\ \A j \in 1..(i - 1) :
                            ~FrameTouches(frames'[j], frames'[i].metadata.key)
    BY <1>1, <1>4 DEF DeltaInv
  <2>1. CASE i \in 1..n
    BY <2>1, <1>1 DEF Inv, DeltaInv
  <2>2. CASE i = n + 1
    <3>1. frames'[i] = f /\ f.metadata.key \in Keys
      BY <2>2, <1>1, FrameShape DEF Metadata
    <3>2. Settled(f.metadata.key) /\ Reconstructs(f, base[f.metadata.key].snapshot)
      BY <3>1 DEF SoundDelta, Inv, AckedInv
    <3> QED
      BY <3>1, <3>2, <2>2, <1>1 DEF Settled, Quiet
  <2> QED
    BY <2>1, <2>2, <1>1
<1>15. FullOnlyInv'
  <2> SUFFICES ASSUME ~deltas
               PROVE  /\ \A ack \in Acks : ~InFlight(ack)
                      /\ \A k \in Keys : base'[k] # Nothing => ~base'[k].acknowledged
                      /\ \A i \in 1..(n + 1) : frames'[i].wire # "Delta"
    BY <1>1, <1>4, <1>5 DEF FullOnlyInv
  <2>1. \A ack \in Acks : ~InFlight(ack)
    BY DEF Inv, FullOnlyInv
  <2>2. \A k \in Keys : base'[k] # Nothing => ~base'[k].acknowledged
    BY DEF Inv, FullOnlyInv, Rebased
  <2>3. f.wire # "Delta"
    BY FrameShape DEF SoundDelta, Inv, FullOnlyInv, Metadata
  <2> QED
    BY <2>1, <2>2, <2>3, <1>1 DEF Inv, FullOnlyInv
<1> QED
  BY <1>8, <1>9, <1>10, <1>11, <1>12, <1>13, <1>14, <1>15 DEF Inv

-----------------------------------------------------------------------------
(* The actions. *)

\* Encoding a well-formed item sends a frame of the kind SendInv is about, and
\* reconstructing that frame gives the item back.
LEMMA EncodeSends ==
    ASSUME Inv, NEW x \in Items, Encode(x), UNCHANGED topics,
           x.kind = "Data" => /\ x = DataItem(x.cursor, x.snapshot)
                              /\ x.snapshot.metadata.sequence = sequence + 1
    PROVE  \E f \in Frames :
              /\ frames' = Append(frames, f) /\ Rebased(f) /\ SoundDelta(f)
              /\ f.wire # "Plain" => f.metadata.sequence = sequence + 1
              /\ Reconstruct(f) = x
              /\ TopicsInv'
<1> USE DEF Inv
<1>1. base \in [Keys -> {Nothing} \union Baselines]
  BY DEF TypeOK
<1>2. PlainFrame(x) \in Frames /\ PlainFrame(x).wire = "Plain" /\ PlainFrame(x).item = x
      /\ Reconstruct(PlainFrame(x)) = x /\ \A k : FrameTouches(PlainFrame(x), k) = Touches(x, k)
  BY DEF PlainFrame, Frames, Reconstruct, FrameTouches
<1>3. CASE base' = Forget(x) /\ Send(PlainFrame(x))
  <2>1. Rebased(PlainFrame(x)) /\ TopicsInv'
    BY <1>1, <1>2, <1>3 DEF Rebased, Forget, TopicsInv
  <2>2. SoundDelta(PlainFrame(x))
    BY <1>2 DEF SoundDelta
  <2> QED
    BY <2>1, <2>2, <1>2, <1>3 DEF Send
<1>4. CASE x.kind \in {"Data", "State"} /\ x.key[2] \notin topics /\ Send(PlainFrame(x))
           /\ UNCHANGED base
  <2>1. \A k \in Keys : Touches(x, k) => base[k] = Nothing
    BY <1>4 DEF Touches, TopicsInv
  <2>2. Rebased(PlainFrame(x)) /\ TopicsInv'
    BY <1>1, <1>2, <1>4, <2>1 DEF Rebased, TopicsInv
  <2>3. SoundDelta(PlainFrame(x))
    BY <1>2 DEF SoundDelta
  <2> QED
    BY <2>2, <2>3, <1>2, <1>4 DEF Send
<1>5. ASSUME x.kind = "Data", x.key[2] \in topics,
             base' = [base EXCEPT ![x.key] = [snapshot |-> x.snapshot, acknowledged |-> FALSE]],
             NEW f \in Frames, Send(f), f.wire # "Plain", f.metadata = x.snapshot.metadata,
             Data(f) = x.snapshot.payload, SoundDelta(f), Reconstruct(f) = x
      PROVE  \E g \in Frames :
              /\ frames' = Append(frames, g) /\ Rebased(g) /\ SoundDelta(g)
              /\ g.wire # "Plain" => g.metadata.sequence = sequence + 1
              /\ Reconstruct(g) = x
              /\ TopicsInv'
  <2>1. x.snapshot \in Snapshots /\ x.key \in Keys /\ x.key = x.snapshot.metadata.key
    BY <1>5, ItemShape DEF DataItem
  <2>2. x.snapshot = [metadata |-> f.metadata, payload |-> Data(f)]
    BY <2>1, <1>5 DEF Snapshots
  <2>3. [snapshot |-> x.snapshot, acknowledged |-> FALSE] \in Baselines
    BY <2>1 DEF Baselines
  <2>4. \A k \in Keys : FrameTouches(f, k) <=> k = x.key
    BY <2>1, <1>5 DEF FrameTouches
  <2>5. Rebased(f)
    BY <1>1, <1>5, <2>1, <2>2, <2>3, <2>4 DEF Rebased
  <2>6. TopicsInv'
    BY <1>1, <1>5, <2>1 DEF TopicsInv
  <2> QED
    BY <1>5, <2>5, <2>6 DEF Send
<1>6. CASE x.kind = "Data" /\ x.key[2] \in topics
  <2>0. x.snapshot \in Snapshots /\ x.key = x.snapshot.metadata.key /\ x.key \in Keys
        /\ x.cursor \in BOOLEAN
    BY <1>6, ItemShape DEF DataItem, Items, DataItems, StateItems, ResetItems, EndedItems
  <2>1. base' = [base EXCEPT ![x.key] = [snapshot |-> x.snapshot, acknowledged |-> FALSE]]
    BY <1>6 DEF Encode
  <2>2. CASE Send(FullFrame(x.cursor, x.snapshot))
    <3> DEFINE f == FullFrame(x.cursor, x.snapshot)
    <3>1. /\ f \in Frames /\ f.wire = "Full" /\ f.metadata = x.snapshot.metadata
          /\ f.payload = x.snapshot.payload /\ f.cursor = x.cursor
      BY <2>0 DEF FullFrame, Frames, Snapshots
    <3>2. [metadata |-> f.metadata, payload |-> f.payload] = x.snapshot
      BY <2>0, <3>1 DEF Snapshots
    <3>3. Reconstruct(f) = x
      BY <3>1, <3>2, <1>6 DEF Reconstruct
    <3>4. SoundDelta(f) /\ Data(f) = x.snapshot.payload /\ f.wire # "Plain"
      BY <3>1 DEF SoundDelta, Data
    <3> HIDE DEF f
    <3>5. Send(f)
      BY <2>2 DEF f
    <3> QED
      BY <1>5, <1>6, <2>1, <3>1, <3>3, <3>4, <3>5
  <2>3. CASE Eligible(x.snapshot)
             /\ Send(DeltaFrame(x.cursor, base[x.key].snapshot, x.snapshot))
    <3> DEFINE b == base[x.key].snapshot
               f == DeltaFrame(x.cursor, b, x.snapshot)
    <3>0. base[x.key] # Nothing /\ base[x.key].acknowledged /\ b \in Snapshots
          /\ b.metadata.generation = x.snapshot.metadata.generation
          /\ b.metadata.key = x.key
          /\ b.metadata.sequence <= sequence /\ b.metadata.sequence \in Nat
      BY <2>0, <2>3, <1>1 DEF Eligible, Baselines, TypeOK, SeqInv, Snapshots, Metadata
    <3>1. /\ f \in Frames /\ f.wire = "Delta" /\ f.metadata = x.snapshot.metadata
          /\ f.cursor = x.cursor /\ f.base = b.metadata.sequence
          /\ f.patch.from = b.payload /\ f.patch.to = x.snapshot.payload
          /\ f.hash = Hash[x.snapshot.payload]
      BY <2>0, <3>0 DEF DeltaFrame, Frames, Snapshots, Hashes
    <3>2. [metadata |-> f.metadata, payload |-> f.patch.to] = x.snapshot
      BY <2>0, <3>1 DEF Snapshots
    <3>3. Reconstruct(f) = x
      BY <3>1, <3>2, <1>6 DEF Reconstruct
    <3>4. Data(f) = x.snapshot.payload /\ f.wire # "Plain"
      BY <3>1 DEF Data
    <3>5. b # Nothing
      BY <3>0, DeltaAssumption
    <3>6. SoundDelta(f)
      <4>0. x.snapshot.metadata.sequence = sequence + 1 /\ sequence \in Nat
        BY <1>6 DEF Inv, TypeOK
      <4>1. f.metadata.key = x.key /\ f.base < f.metadata.sequence
        <5> HIDE DEF f, b
        <5> QED BY <3>0, <3>1, <2>0, <4>0
      <4> QED
        BY <4>1, <3>0, <3>1, <3>5 DEF SoundDelta, Reconstructs, BaselineFits
    <3> HIDE DEF f
    <3>7. Send(f)
      BY <2>3 DEF f
    <3> QED
      BY <1>5, <1>6, <2>1, <3>1, <3>3, <3>4, <3>6, <3>7
  <2> QED
    BY <2>2, <2>3, <1>6 DEF Encode
<1> QED
  BY <1>3, <1>4, <1>6, ItemShape DEF Encode

\* Taking an item from the subscription preserves the invariant and is a step of
\* the plain stream's pipe.
LEMMA TakeStep ==
    ASSUME Inv, NEW x \in Items, Take(x),
           x.kind = "Data" => /\ x = DataItem(x.cursor, x.snapshot)
                              /\ x.snapshot.metadata.sequence = sequence + 1,
           generation' \in [Keys -> Nat], ended' \subseteq Sessions, UNCHANGED updating
    PROVE  Inv' /\ \E f \in Frames : frames' = Append(frames, f) /\ Reconstruct(f) = taken'
<1>1. Encode(x) /\ UNCHANGED <<topics, readAcks, acks, reader>> /\ sequence' = sequence + 1
      /\ taken' = x
  BY DEF Take
<1>2. PICK f \in Frames :
        /\ frames' = Append(frames, f) /\ Rebased(f) /\ SoundDelta(f)
        /\ f.wire # "Plain" => f.metadata.sequence = sequence + 1
        /\ Reconstruct(f) = x
        /\ TopicsInv'
  BY <1>1, EncodeSends
<1>3. UNCHANGED <<updating, topics, readAcks, acks, reader>>
  BY <1>1
<1>4. Inv'
  BY <1>1, <1>2, <1>3, SendInv
<1> QED
  BY <1>1, <1>2, <1>4

\* The four kinds of items.
LEMMA SendStep ==
    ASSUME Inv,
           \/ \E k \in Keys, p \in Payloads : SendData(k, p)
           \/ \E k \in Keys : SendState(k) \/ SendReset(k)
           \/ \E s \in Sessions : SendEnded(s)
    PROVE  Inv' /\ \E f \in Frames : frames' = Append(frames, f) /\ Reconstruct(f) = taken'
<1>0. /\ sequence \in Nat /\ generation \in [Keys -> Nat] /\ updating \in BOOLEAN
      /\ ended \subseteq Sessions
  BY DEF Inv, TypeOK
<1>1. ASSUME NEW k \in Keys, NEW p \in Payloads, SendData(k, p)
      PROVE  Inv' /\ \E f \in Frames : frames' = Append(frames, f) /\ Reconstruct(f) = taken'
  <2> DEFINE x == DataItem(updating, Stamp(k, p))
  <2>1. Stamp(k, p) \in Snapshots /\ Stamp(k, p).metadata.sequence = sequence + 1
        /\ Stamp(k, p).metadata.key = k /\ Stamp(k, p).metadata.generation \in Nat
    BY <1>0 DEF Stamp, Snapshots, Metadata
  <2>2. x \in Items /\ x.snapshot = Stamp(k, p) /\ x.cursor = updating
    BY <2>1, <1>0 DEF DataItem, Items, DataItems
  <2>3. x = DataItem(x.cursor, x.snapshot) /\ x.snapshot.metadata.sequence = sequence + 1
    BY <2>1, <2>2
  <2> HIDE DEF x
  <2>4. Take(x) /\ UNCHANGED <<generation, ended, updating>>
    BY <1>1 DEF SendData, x
  <2> QED
    BY <2>2, <2>3, <2>4, <1>0, TakeStep
<1>2. ASSUME NEW k \in Keys, SendState(k)
      PROVE  Inv' /\ \E f \in Frames : frames' = Append(frames, f) /\ Reconstruct(f) = taken'
  <2> DEFINE x == StateItem(updating, k, generation[k], "Unavailable")
  <2>1. x \in Items /\ x.kind = "State"
    BY <1>0 DEF StateItem, Items, StateItems
  <2> HIDE DEF x
  <2>2. Take(x) /\ UNCHANGED <<generation, ended, updating>>
    BY <1>2 DEF SendState, x
  <2> QED
    BY <2>1, <2>2, <1>0, TakeStep
<1>3. ASSUME NEW k \in Keys, SendReset(k)
      PROVE  Inv' /\ \E f \in Frames : frames' = Append(frames, f) /\ Reconstruct(f) = taken'
  <2> DEFINE x == ResetItem(k, generation[k] + 1)
  <2>1. x \in Items /\ x.kind = "Reset"
    BY <1>0 DEF ResetItem, Items, ResetItems
  <2> HIDE DEF x
  <2>2. Take(x) /\ UNCHANGED <<ended, updating>> /\ generation' \in [Keys -> Nat]
    BY <1>0, <1>3 DEF SendReset, x
  <2> QED
    BY <2>1, <2>2, <1>0, TakeStep
<1>4. ASSUME NEW s \in Sessions, SendEnded(s)
      PROVE  Inv' /\ \E f \in Frames : frames' = Append(frames, f) /\ Reconstruct(f) = taken'
  <2> DEFINE x == EndedItem(s)
  <2>1. x \in Items /\ x.kind = "Ended"
    BY DEF EndedItem, Items, EndedItems
  <2> HIDE DEF x
  <2>2. Take(x) /\ UNCHANGED <<generation, updating>> /\ ended' \subseteq Sessions
    BY <1>0, <1>4 DEF SendEnded, x
  <2> QED
    BY <2>1, <2>2, <1>0, TakeStep
<1> QED
  BY <1>1, <1>2, <1>3, <1>4

-----------------------------------------------------------------------------
\* The head of the stream always reconstructs.
LEMMA HeadReconstructs ==
    ASSUME Inv, frames # <<>>
    PROVE  /\ Head(frames) \in Frames /\ Head(frames) = frames[1]
           /\ Reconstructs(Head(frames), Baseline(Head(frames)))
<1>1. Len(frames) \in Nat /\ 1 \in 1..Len(frames) /\ Head(frames) = frames[1]
      /\ frames[1] \in Frames
  BY HeadTailProperties, EmptySeq, ElementOfSeq, LenProperties DEF Inv, TypeOK
<1>2. frames[1].wire = "Delta" => Reconstructs(frames[1], known[frames[1].metadata.key])
  BY <1>1 DEF Inv, DeltaInv
<1> QED
  BY <1>1, <1>2 DEF Reconstructs, Baseline

\* What installing a frame leaves alone, and what it makes of its own key.
LEMMA InstallEffect ==
    ASSUME Inv, NEW f \in Frames, Installs(f, Reconstruct(f))
    PROVE  /\ known' \in [Keys -> {Nothing} \union Snapshots]
           /\ \A k \in Keys : known'[k] # Nothing => known'[k].metadata.key = k
           /\ DOMAIN cache' = Keys
           /\ \A k \in Keys : ~FrameTouches(f, k) =>
                 known'[k] = known[k] /\ cache'[k] = cache[k]
           /\ f.wire # "Plain" /\ deltas =>
                 LET k == f.metadata.key
                     s == [metadata |-> f.metadata, payload |-> Data(f)]
                 IN  /\ known'[k] = s /\ cache'[k].kind = "Data" /\ cache'[k].snapshot = s
                     /\ pending' \in Acks /\ pending'.metadata = f.metadata
           /\ ~(f.wire # "Plain" /\ deltas) => pending' = Nothing
<1> DEFINE x == Reconstruct(f)
<1>0. known \in [Keys -> {Nothing} \union Snapshots]
      /\ \A k \in Keys : known[k] # Nothing => known[k].metadata.key = k
  BY DEF Inv, TypeOK
<1>1. CASE f.wire = "Plain"
  <2>1. x = f.item /\ x \in Items /\ \A k : FrameTouches(f, k) = Touches(x, k)
    BY <1>1, FrameShape DEF Reconstruct, FrameTouches
  <2>2. known' = IF x.kind = "Data" THEN known
                 ELSE [k \in Keys |-> IF Touches(x, k) THEN Nothing ELSE known[k]]
    BY <1>1 DEF Installs, Remembered
  <2>3. cache' = [k \in Keys |-> IF Touches(x, k) THEN Entry(x) ELSE cache[k]]
    BY DEF Installs, Apply
  <2>4. pending' = Nothing
    BY <1>1 DEF Installs
  <2> HIDE DEF x
  <2> QED
    BY <1>0, <1>1, <2>1, <2>2, <2>3, <2>4
<1>2. CASE f.wire # "Plain"
  <2> DEFINE s == [metadata |-> f.metadata, payload |-> Data(f)]
  <2>1. x.kind = "Data" /\ x.key = f.metadata.key /\ x.snapshot = s /\ s \in Snapshots
    BY <1>2, Reconstructed
  <2>2. f.metadata \in Metadata /\ f.metadata.key \in Keys /\ Data(f) \in Payloads
    BY <1>2, FrameShape DEF Metadata
  <2>3. \A k : Touches(x, k) <=> k = f.metadata.key
    BY <2>1 DEF Touches
  <2>4. \A k : FrameTouches(f, k) <=> f.metadata.key = k
    BY <1>2 DEF FrameTouches
  <2>5. known' = IF deltas THEN [known EXCEPT ![x.key] = x.snapshot] ELSE known
    BY <1>2, <2>1 DEF Installs, Remembered
  <2>6. cache' = [k \in Keys |-> IF Touches(x, k) THEN Entry(x) ELSE cache[k]] /\ Entry(x) = x
    BY <2>1 DEF Installs, Apply, Entry
  <2>7. pending' = IF deltas THEN [metadata |-> f.metadata, hash |-> Hash[x.snapshot.payload]]
                   ELSE Nothing
    BY <1>2 DEF Installs
  <2>8. [metadata |-> f.metadata, hash |-> Hash[x.snapshot.payload]] \in Acks
    BY <2>1, <2>2 DEF Acks, Hashes
  <2> HIDE DEF x
  <2>9. known' \in [Keys -> {Nothing} \union Snapshots]
        /\ \A k \in Keys : known'[k] # Nothing => known'[k].metadata.key = k
    BY <1>0, <2>1, <2>2, <2>5
  <2>10. \A k \in Keys : ~FrameTouches(f, k) => known'[k] = known[k] /\ cache'[k] = cache[k]
    BY <1>0, <2>1, <2>3, <2>4, <2>5, <2>6
  <2>11. deltas => /\ known'[f.metadata.key] = s
                   /\ cache'[f.metadata.key].kind = "Data"
                   /\ cache'[f.metadata.key].snapshot = s
    BY <1>0, <2>1, <2>2, <2>3, <2>5, <2>6
  <2>12. deltas => pending' \in Acks /\ pending'.metadata = f.metadata
    BY <2>7, <2>8
  <2> QED
    BY <1>2, <2>6, <2>7, <2>9, <2>10, <2>11, <2>12
<1> QED
  BY <1>1, <1>2

\* Receiving never resyncs: it installs the head of the stream.
LEMMA ReceiveInstalls ==
    ASSUME Inv, Receive
    PROVE  /\ frames # <<>> /\ frames' = Tail(frames)
           /\ Installs(Head(frames), Reconstruct(Head(frames)))
           /\ pending = Nothing
           /\ UNCHANGED <<service, topics, base, readAcks, acks, deltas, status>>
BY HeadReconstructs DEF Receive

\* Receiving preserves the invariant.
LEMMA ReceiveInv ==
    ASSUME Inv, Receive
    PROVE  Inv'
<1> DEFINE n == Len(frames)
           f == Head(frames)
           K == f.metadata.key
<1>0. f \in Frames /\ f = frames[1]
  BY ReceiveInstalls, HeadReconstructs
<1>1. /\ n \in Nat \ {0} /\ Len(frames') = n - 1 /\ frames' \in Seq(Frames)
      /\ \A i \in 1..(n - 1) : frames'[i] = frames[i + 1]
  <2>1. frames \in Seq(Frames) /\ frames # <<>> /\ frames' = Tail(frames)
    BY ReceiveInstalls DEF Inv, TypeOK
  <2>2. n \in Nat \ {0}
    BY <2>1, EmptySeq, LenProperties
  <2> QED BY <2>1, <2>2, HeadTailProperties
<1>2. UNCHANGED <<sequence, generation, ended, updating, topics, base, readAcks, acks, deltas,
                  status>> /\ pending = Nothing
  BY ReceiveInstalls DEF service
<1>3. Installs(f, Reconstruct(f))
  BY ReceiveInstalls
<1> HIDE DEF f
<1>4. /\ known' \in [Keys -> {Nothing} \union Snapshots]
      /\ \A k \in Keys : known'[k] # Nothing => known'[k].metadata.key = k
      /\ DOMAIN cache' = Keys
      /\ \A k \in Keys : ~FrameTouches(f, k) => known'[k] = known[k] /\ cache'[k] = cache[k]
  BY <1>0, <1>3, InstallEffect
<1>5. ASSUME f.wire # "Plain", deltas
      PROVE  /\ K \in Keys /\ known'[K] = [metadata |-> f.metadata, payload |-> Data(f)]
             /\ cache'[K].kind = "Data"
             /\ cache'[K].snapshot = [metadata |-> f.metadata, payload |-> Data(f)]
             /\ pending' \in Acks /\ pending'.metadata = f.metadata
  BY <1>0, <1>3, <1>5, InstallEffect, FrameShape DEF Metadata
<1>6. ~(f.wire # "Plain" /\ deltas) => pending' = Nothing
  BY <1>0, <1>3, InstallEffect
<1>7. \A k \in Keys : Quiet(k) => ~FrameTouches(f, k)
  BY <1>0, <1>1 DEF Quiet
<1>8. \A k \in Keys : Settled(k) => Settled(k)'
  <2> SUFFICES ASSUME NEW k \in Keys, Settled(k) PROVE Settled(k)'
    OBVIOUS
  <2>1. ~FrameTouches(f, k) /\ known'[k] = known[k] /\ cache'[k] = cache[k]
    BY <1>4, <1>7 DEF Settled
  <2>2. Quiet(k)'
    BY <1>1 DEF Settled, Quiet
  <2> QED
    BY <2>1, <2>2, <1>2 DEF Settled
<1>9. \A ack \in Acks : InFlight(ack)' =>
         InFlight(ack) \/ (f.wire # "Plain" /\ deltas /\ ack.metadata = f.metadata)
  BY <1>2, <1>5, <1>6, DeltaAssumption DEF InFlight
<1>10. TypeOK'
  <2>1. pending' \in {Nothing} \union Acks
    BY <1>5, <1>6
  <2> QED
    BY <2>1, <1>1, <1>2, <1>4 DEF Inv, TypeOK
<1>11. NeverResyncs' /\ AckedInv' /\ TopicsInv'
  BY <1>2, <1>8 DEF Inv, NeverResyncs, AckedInv, TopicsInv
<1>12. SeqInv'
  BY <1>0, <1>1, <1>2, <1>9 DEF Inv, SeqInv
<1>13. AckInv'
  <2> SUFFICES ASSUME NEW ack \in Acks, InFlight(ack)', NEW k \in Keys, base[k] # Nothing,
                      base[k].snapshot.metadata = ack.metadata
               PROVE  Settled(k)'
    BY <1>2 DEF AckInv
  <2>1. CASE InFlight(ack)
    BY <2>1, <1>8 DEF Inv, AckInv
  <2>2. CASE f.wire # "Plain" /\ deltas /\ ack.metadata = f.metadata
    <3>1. Data(f) = base[k].snapshot.payload
          /\ \A j \in 2..n : ~FrameTouches(frames[j], k)
      BY <2>2, <1>0, <1>1 DEF Inv, LastInv
    <3>2. K = k
      BY <2>2 DEF Inv, TypeOK
    <3>3. base[k].snapshot \in Snapshots
      BY DEF Inv, TypeOK, Baselines
    <3>4. base[k].snapshot = [metadata |-> f.metadata, payload |-> Data(f)]
      BY <2>2, <3>1, <3>3 DEF Snapshots
    <3>5. Quiet(k)'
      BY <3>1, <1>1 DEF Quiet
    <3> QED
      BY <3>2, <3>4, <3>5, <2>2, <1>2, <1>5 DEF Settled
  <2> QED
    BY <2>1, <2>2, <1>9
<1>14. LastInv'
  <2> SUFFICES ASSUME NEW k \in Keys, NEW i \in 1..(n - 1), base[k] # Nothing,
                      frames'[i].wire # "Plain",
                      frames'[i].metadata = base[k].snapshot.metadata
               PROVE  /\ Data(frames'[i]) = base[k].snapshot.payload
                      /\ \A j \in (i + 1)..(n - 1) : ~FrameTouches(frames'[j], k)
    BY <1>1, <1>2 DEF LastInv
  <2>1. i + 1 \in 1..n /\ frames'[i] = frames[i + 1]
    BY <1>1
  <2>2. Data(frames[i + 1]) = base[k].snapshot.payload
        /\ \A j \in (i + 2)..n : ~FrameTouches(frames[j], k)
    BY <2>1 DEF Inv, LastInv
  <2>3. \A j \in (i + 1)..(n - 1) : j + 1 \in (i + 2)..n /\ frames'[j] = frames[j + 1]
    BY <1>1
  <2> QED
    BY <2>1, <2>2, <2>3
<1>15. DeltaInv'
  <2> SUFFICES ASSUME NEW i \in 1..(n - 1), frames'[i].wire = "Delta"
               PROVE  /\ Reconstructs(frames'[i], known'[frames'[i].metadata.key])
                      /\ \A j \in 1..(i - 1) :
                            ~FrameTouches(frames'[j], frames'[i].metadata.key)
    BY <1>1 DEF DeltaInv
  <2>1. i + 1 \in 1..n /\ frames'[i] = frames[i + 1] /\ 1 \in 1..i /\ frames[i + 1] \in Frames
    BY <1>1, ElementOfSeq DEF Inv, TypeOK
  <2>2. /\ Reconstructs(frames[i + 1], known[frames[i + 1].metadata.key])
        /\ \A j \in 1..i : ~FrameTouches(frames[j], frames[i + 1].metadata.key)
    BY <2>1 DEF Inv, DeltaInv
  <2>3. frames[i + 1].metadata.key \in Keys
    BY <2>1, FrameShape DEF Metadata
  <2>4. known'[frames[i + 1].metadata.key] = known[frames[i + 1].metadata.key]
    BY <2>1, <2>2, <2>3, <1>0, <1>4
  <2>5. \A j \in 1..(i - 1) : j + 1 \in 1..i /\ frames'[j] = frames[j + 1]
    BY <1>1
  <2> QED
    BY <2>1, <2>2, <2>4, <2>5
<1>16. FullOnlyInv'
  BY <1>1, <1>2, <1>9 DEF Inv, FullOnlyInv
<1> QED
  BY <1>10, <1>11, <1>12, <1>13, <1>14, <1>15, <1>16 DEF Inv

-----------------------------------------------------------------------------
\* Writing an acknowledgement, or failing to, changes nothing else.
LEMMA AcknowledgeInv ==
    ASSUME Inv, Acknowledge \/ AcknowledgeFails \/ SendReady
    PROVE  Inv'
<1>1. CASE Acknowledge
  <2>1. /\ acks' = Append(acks, pending) /\ pending \in Acks /\ pending' = Nothing
        /\ UNCHANGED <<service, topics, base, readAcks, frames, deltas, known, cache, status>>
    BY <1>1 DEF Acknowledge, Inv, TypeOK
  <2>2. acks' \in Seq(Acks) /\ Len(acks) \in Nat /\ Len(acks') = Len(acks) + 1
        /\ (\A i \in 1..Len(acks) : acks'[i] = acks[i]) /\ acks'[Len(acks) + 1] = pending
    BY <2>1, AppendProperties, LenProperties DEF Inv, TypeOK
  <2>3. \A ack \in Acks : InFlight(ack)' => InFlight(ack)
    BY <2>1, <2>2, DeltaAssumption DEF InFlight
  <2>4. UNCHANGED <<sequence, generation, ended, updating>>
    BY <2>1 DEF service
  <2>5. \A k \in Keys : Settled(k)' <=> Settled(k)
    BY <2>1 DEF Settled, Quiet
  <2>6. TypeOK'
    BY <2>1, <2>2, <2>4 DEF Inv, TypeOK
  <2>7. NeverResyncs' /\ SeqInv' /\ AckedInv' /\ AckInv'
    BY <2>1, <2>3, <2>4, <2>5 DEF Inv, NeverResyncs, SeqInv, AckedInv, AckInv
  <2>8. LastInv' /\ DeltaInv' /\ TopicsInv' /\ FullOnlyInv'
    BY <2>1, <2>3 DEF Inv, LastInv, DeltaInv, TopicsInv, FullOnlyInv
  <2> QED
    BY <2>6, <2>7, <2>8 DEF Inv
<1>2. CASE AcknowledgeFails \/ SendReady
  <2>1. /\ UNCHANGED <<sequence, generation, ended, topics, base, readAcks, frames, acks, deltas,
                       known, pending, cache>>
        /\ status' \in {"closed", status} /\ updating' \in BOOLEAN
    BY <1>2 DEF AcknowledgeFails, SendReady, reader, service, Inv, TypeOK
  <2>2. \A ack \in Acks : InFlight(ack)' <=> InFlight(ack)
    BY <2>1 DEF InFlight
  <2>3. \A k \in Keys : Settled(k)' <=> Settled(k)
    BY <2>1 DEF Settled, Quiet
  <2>4. TypeOK' /\ NeverResyncs'
    BY <2>1 DEF Inv, TypeOK, NeverResyncs
  <2>5. SeqInv' /\ AckedInv' /\ AckInv'
    BY <2>1, <2>2, <2>3 DEF Inv, SeqInv, AckedInv, AckInv
  <2>6. LastInv' /\ DeltaInv' /\ TopicsInv' /\ FullOnlyInv'
    BY <2>1, <2>2 DEF Inv, LastInv, DeltaInv, TopicsInv, FullOnlyInv
  <2> QED
    BY <2>4, <2>5, <2>6 DEF Inv
<1> QED
  BY <1>1, <1>2

\* Reading an acknowledgement confirms only a baseline that is settled.
LEMMA ReadAckInv ==
    ASSUME Inv, ReadAck
    PROVE  Inv'
<1> DEFINE ack == Head(acks)
           K == ack.metadata.key
<1>1. /\ acks # <<>> /\ acks' = Tail(acks)
      /\ UNCHANGED <<sequence, generation, ended, updating, topics, readAcks, frames, deltas,
                     known, pending, cache, status>>
  BY DEF ReadAck, service, reader
<1>2. /\ acks' \in Seq(Acks) /\ ack \in Acks /\ Len(acks) \in Nat \ {0} /\ ack = acks[1]
      /\ Len(acks') = Len(acks) - 1
      /\ \A i \in 1..(Len(acks) - 1) : acks'[i] = acks[i + 1]
  BY <1>1, HeadTailProperties, EmptySeq, LenProperties, ElementOfSeq DEF Inv, TypeOK
<1>3. InFlight(ack) /\ K \in Keys
  BY <1>2 DEF InFlight, Acks, Metadata
<1>4. \A a \in Acks : InFlight(a)' => InFlight(a)
  BY <1>1, <1>2 DEF InFlight
<1>5. base' = IF Confirms(ack) THEN [base EXCEPT ![K].acknowledged = TRUE] ELSE base
  BY DEF ReadAck
<1> HIDE DEF ack
<1>6. base \in [Keys -> {Nothing} \union Baselines]
  BY DEF Inv, TypeOK
<1>7. /\ base' \in [Keys -> {Nothing} \union Baselines]
      /\ \A k \in Keys : base'[k] # Nothing =>
            /\ base[k] # Nothing /\ base'[k].snapshot = base[k].snapshot
            /\ base'[k].acknowledged => base[k].acknowledged
                                        \/ base[k].snapshot.metadata = ack.metadata
      /\ \A k \in Keys : base[k] = Nothing => base'[k] = Nothing
  <2>1. CASE ~Confirms(ack)
    BY <2>1, <1>5, <1>6
  <2>2. CASE Confirms(ack)
    <3>1. base[K] \in Baselines /\ base[K].snapshot.metadata = ack.metadata /\ base[K] # Nothing
      BY <2>2, <1>3, <1>6 DEF Confirms
    <3>2. [base[K] EXCEPT !.acknowledged = TRUE] \in Baselines
          /\ [base[K] EXCEPT !.acknowledged = TRUE].snapshot = base[K].snapshot
      BY <3>1 DEF Baselines
    <3>3. base' = [base EXCEPT ![K] = [base[K] EXCEPT !.acknowledged = TRUE]]
      BY <2>2, <1>5
    <3> QED
      BY <3>1, <3>2, <3>3, <1>3, <1>6
  <2> QED
    BY <2>1, <2>2
<1>8. \A k \in Keys : base'[k] # Nothing => (Settled(k) => Settled(k)')
  BY <1>1, <1>7 DEF Settled, Quiet
<1>9. TypeOK' /\ NeverResyncs'
  BY <1>1, <1>2, <1>7 DEF Inv, TypeOK, NeverResyncs
<1>10. SeqInv'
  BY <1>1, <1>4, <1>7 DEF Inv, SeqInv
<1>11. AckedInv'
  BY <1>3, <1>7, <1>8, <1>2 DEF Inv, AckedInv, AckInv
<1>12. AckInv'
  BY <1>4, <1>7, <1>8 DEF Inv, AckInv
<1>13. LastInv'
  BY <1>1, <1>7 DEF Inv, LastInv
<1>14. DeltaInv' /\ TopicsInv'
  BY <1>1, <1>7 DEF Inv, DeltaInv, TopicsInv
<1>15. FullOnlyInv'
  <2> SUFFICES ASSUME ~deltas PROVE FALSE
    BY <1>1 DEF FullOnlyInv
  <2> QED
    BY <1>2, <1>3 DEF Inv, FullOnlyInv
<1> QED
  BY <1>9, <1>10, <1>11, <1>12, <1>13, <1>14, <1>15 DEF Inv

\* Without baselines there is nothing left to go stale.
LEMMA AckSideEndsInv ==
    ASSUME Inv, AckSideEnds
    PROVE  Inv'
<1>1. /\ UNCHANGED <<sequence, generation, ended, updating, frames, acks, deltas, known, pending,
                     cache, status>>
      /\ topics' = {} /\ readAcks' = FALSE /\ base' = [k \in Keys |-> Nothing]
  BY DEF AckSideEnds, service, reader
<1>2. \A k \in Keys : base'[k] = Nothing
  BY <1>1
<1>3. \A ack \in Acks : InFlight(ack)' <=> InFlight(ack)
  BY <1>1 DEF InFlight
<1>4. TypeOK' /\ NeverResyncs'
  BY <1>1, <1>2 DEF Inv, TypeOK, NeverResyncs
<1>5. SeqInv' /\ AckedInv' /\ AckInv' /\ LastInv' /\ TopicsInv'
  BY <1>1, <1>2, <1>3 DEF Inv, SeqInv, AckedInv, AckInv, LastInv, TopicsInv
<1>6. DeltaInv' /\ FullOnlyInv'
  BY <1>1, <1>2, <1>3 DEF Inv, DeltaInv, FullOnlyInv
<1> QED
  BY <1>4, <1>5, <1>6 DEF Inv

\* A step that changes nothing.
LEMMA StutterInv ==
    ASSUME Inv, UNCHANGED vars
    PROVE  Inv'
<1>1. UNCHANGED <<sequence, generation, ended, updating, topics, base, readAcks, frames, acks,
                  deltas, known, pending, cache, status>>
  BY DEF vars, service, reader
<1>2. \A ack : InFlight(ack)' <=> InFlight(ack)
  BY <1>1 DEF InFlight
<1>3. \A k : Settled(k)' <=> Settled(k)
  BY <1>1 DEF Settled, Quiet
<1>4. TypeOK' /\ NeverResyncs' /\ SeqInv' /\ AckedInv' /\ AckInv'
  BY <1>1, <1>2, <1>3 DEF Inv, TypeOK, NeverResyncs, SeqInv, AckedInv, AckInv
<1>5. LastInv' /\ DeltaInv' /\ TopicsInv' /\ FullOnlyInv'
  BY <1>1, <1>2 DEF Inv, LastInv, DeltaInv, TopicsInv, FullOnlyInv
<1> QED
  BY <1>4, <1>5 DEF Inv

\* The invariant is inductive.
LEMMA NextInv == Inv /\ [Next]_vars => Inv'
<1> SUFFICES ASSUME Inv, [Next]_vars PROVE Inv'
  OBVIOUS
<1> QED
  BY SendStep, ReceiveInv, AcknowledgeInv, ReadAckInv, AckSideEndsInv, StutterInv DEF Next

\* The invariant holds throughout.
THEOREM Invariant == Spec => []Inv
BY InitInv, NextInv, PTL DEF Spec

\* While the service holds a baseline for acknowledged (Delivery::acknowledge), the
\* SDK has installed exactly that snapshot and nothing under way replaces it.
THEOREM AcknowledgedHolds == Spec => []AcknowledgedIsInstalled
<1>1. Inv => AcknowledgedIsInstalled
  BY DEF Inv, AckedInv, Settled, Quiet, AcknowledgedIsInstalled
<1> QED
  BY <1>1, Invariant, PTL

\* reconstruct never fails on what encode produced: no delta forces a new bootstrap.
THEOREM NoResync == Spec => []NeverResyncs
<1>1. Inv => NeverResyncs
  BY DEF Inv
<1> QED
  BY <1>1, Invariant, PTL

\* A stream whose ACK side was closed (receive_once without deltas) carries no delta.
THEOREM FullOnlyHolds == Spec => []FullOnlyGetsNoDelta
<1>1. Inv => FullOnlyGetsNoDelta
  BY DEF Inv, FullOnlyInv, FullOnlyGetsNoDelta
<1> QED
  BY <1>1, Invariant, PTL

\* The three together: delta delivery (delivery.rs, reader.rs) never breaks a stream.
THEOREM DeltasHold == Spec => []DeltasApply
BY AcknowledgedHolds, NoResync, FullOnlyHolds, PTL DEF DeltasApply

-----------------------------------------------------------------------------
(* Refinement. *)

\* Append and Tail, as functions.
LEMMA AppendFunction ==
    ASSUME NEW R, NEW s \in Seq(R), NEW x \in R
    PROVE  Append(s, x) = [i \in 1..(Len(s) + 1) |-> IF i <= Len(s) THEN s[i] ELSE x]
<1> DEFINE n == Len(s)
           F == [i \in 1..(n + 1) |-> IF i <= n THEN s[i] ELSE x]
<1>1. n \in Nat /\ Append(s, x) \in Seq(R) /\ Len(Append(s, x)) = n + 1
  BY AppendProperties, LenProperties
<1>2. Append(s, x) = [i \in 1..(n + 1) |-> Append(s, x)[i]]
  BY <1>1, LenProperties
<1>3. \A i \in 1..(n + 1) : Append(s, x)[i] = F[i]
  BY <1>1, AppendProperties
<1> QED
  BY <1>2, <1>3, Zenon

LEMMA TailFunction ==
    ASSUME NEW R, NEW s \in Seq(R), s # <<>>
    PROVE  /\ Len(s) \in Nat \ {0} /\ Head(s) = s[1]
           /\ Tail(s) = [i \in 1..(Len(s) - 1) |-> s[i + 1]]
<1>1. Len(s) \in Nat \ {0} /\ Head(s) = s[1]
  BY EmptySeq, LenProperties, HeadTailProperties
<1>2. Tail(s) = [i \in 1..(Len(s) - 1) |-> s[i + 1]]
  <2>1. Tail(s) \in Seq(R) /\ Len(Tail(s)) = Len(s) - 1
    BY HeadTailProperties
  <2>2. Tail(s) = [i \in 1..(Len(s) - 1) |-> Tail(s)[i]]
    BY <2>1, LenProperties
  <2>3. \A i \in 1..(Len(s) - 1) : Tail(s)[i] = s[i + 1]
    BY <1>1, HeadTailProperties
  <2> QED
    BY <2>2, <2>3, Zenon
<1> QED
  BY <1>1, <1>2

\* The frames under way decode to a sequence, one item per frame.
LEMMA DecodedSeq ==
    ASSUME Inv
    PROVE  /\ Decoded \in Seq({Reconstruct(g) : g \in Frames})
           /\ Len(frames) \in Nat /\ Len(Decoded) = Len(frames)
           /\ \A i \in 1..Len(frames) : Decoded[i] = Reconstruct(frames[i])
<1> DEFINE n == Len(frames)
           R == {Reconstruct(g) : g \in Frames}
<1>1. n \in Nat
  BY LenProperties DEF Inv, TypeOK
<1>2. \A i \in 1..n : Reconstruct(frames[i]) \in R
  BY ElementOfSeq DEF Inv, TypeOK
<1> QED
  BY <1>1, <1>2 DEF Decoded

LEMMA DecodedAppend ==
    ASSUME Inv, NEW f \in Frames, frames' = Append(frames, f)
    PROVE  Decoded' = Append(Decoded, Reconstruct(f))
<1> DEFINE n == Len(frames)
           R == {Reconstruct(g) : g \in Frames}
<1>1. /\ n \in Nat /\ Len(frames') = n + 1
      /\ \A i \in 1..n : frames'[i] = frames[i]
      /\ frames'[n + 1] = f
  BY AppendProperties DEF Inv, TypeOK
<1>2. Decoded' = [i \in 1..(n + 1) |-> Reconstruct(frames'[i])]
  BY <1>1 DEF Decoded
<1>3. Append(Decoded, Reconstruct(f))
        = [i \in 1..(Len(Decoded) + 1) |-> IF i <= Len(Decoded) THEN Decoded[i] ELSE Reconstruct(f)]
  <2>1. Reconstruct(f) \in R
    OBVIOUS
  <2> QED
    BY <2>1, DecodedSeq, AppendFunction
<1>4. Append(Decoded, Reconstruct(f))
        = [i \in 1..(n + 1) |-> IF i <= n THEN Decoded[i] ELSE Reconstruct(f)]
  BY <1>3, DecodedSeq
<1>5. \A i \in 1..(n + 1) :
        Reconstruct(frames'[i]) = IF i <= n THEN Decoded[i] ELSE Reconstruct(f)
  <2> SUFFICES ASSUME NEW i \in 1..(n + 1)
               PROVE  Reconstruct(frames'[i]) = IF i <= n THEN Decoded[i] ELSE Reconstruct(f)
    OBVIOUS
  <2>1. CASE i <= n
    <3>1. i \in 1..n
      BY <2>1, <1>1
    <3>2. frames'[i] = frames[i] /\ Decoded[i] = Reconstruct(frames[i])
      BY <3>1, <1>1, DecodedSeq
    <3> QED
      BY <2>1, <3>2
  <2>2. CASE ~(i <= n)
    <3>1. i = n + 1
      BY <2>2, <1>1
    <3> QED
      BY <2>2, <3>1, <1>1
  <2> QED
    BY <2>1, <2>2
<1> HIDE DEF n, R
<1> QED
  BY <1>2, <1>4, <1>5, Zenon

LEMMA DecodedTail ==
    ASSUME Inv, frames # <<>>, frames' = Tail(frames)
    PROVE  /\ Decoded # <<>> /\ Head(Decoded) = Reconstruct(Head(frames))
           /\ Decoded' = Tail(Decoded)
<1> DEFINE n == Len(frames)
<1>1. /\ n \in Nat \ {0} /\ Len(frames') = n - 1 /\ Head(frames) = frames[1]
      /\ \A i \in 1..(n - 1) : frames'[i] = frames[i + 1]
  BY HeadTailProperties, EmptySeq, LenProperties DEF Inv, TypeOK
<1>2. Decoded # <<>>
  BY <1>1, DecodedSeq
<1>3. Head(Decoded) = Decoded[1] /\ Tail(Decoded) = [i \in 1..(Len(Decoded) - 1) |-> Decoded[i + 1]]
  BY <1>2, DecodedSeq, TailFunction
<1>4. Tail(Decoded) = [i \in 1..(n - 1) |-> Decoded[i + 1]]
  BY <1>3, DecodedSeq
<1>5. Decoded' = [i \in 1..(n - 1) |-> Reconstruct(frames'[i])]
  BY <1>1 DEF Decoded
<1>6. \A i \in 1..(n - 1) : Decoded[i + 1] = Reconstruct(frames'[i])
  <2> SUFFICES ASSUME NEW i \in 1..(n - 1)
               PROVE  Decoded[i + 1] = Reconstruct(frames'[i])
    OBVIOUS
  <2>1. i + 1 \in 1..n
    BY <1>1
  <2> QED
    BY <2>1, <1>1, DecodedSeq
<1>7. Decoded[1] = Reconstruct(Head(frames))
  <2>1. 1 \in 1..n
    BY <1>1
  <2> QED
    BY <2>1, <1>1, DecodedSeq
<1>8. Decoded' = Tail(Decoded)
  <2> HIDE DEF n
  <2> QED
    BY <1>4, <1>5, <1>6, Zenon
<1> QED
  BY <1>2, <1>3, <1>7, <1>8

\* encode, the acknowledgements and reconstruct together implement the plain
\* stream: the feed installs the items the service took from the subscription,
\* complete, once, and in order.
THEOREM Refinement == Spec => ImplementsPlainStream
<1>1. Init => Plain!PInit
  BY DEF Init, Plain!PInit, Decoded, NoEntry, Plain!NoEntry, Keys, Plain!Keys
<1>2. Inv /\ [Next]_vars => [Plain!Deliver \/ Plain!Install]_(Plain!pvars)
  <2> SUFFICES ASSUME Inv, [Next]_vars
               PROVE  Plain!Deliver \/ Plain!Install \/ UNCHANGED Plain!pvars
    OBVIOUS
  <2>1. CASE \/ \E k \in Keys, p \in Payloads : SendData(k, p)
             \/ \E k \in Keys : SendState(k) \/ SendReset(k)
             \/ \E s \in Sessions : SendEnded(s)
    <3>1. PICK f \in Frames : frames' = Append(frames, f) /\ Reconstruct(f) = taken'
      BY <2>1, SendStep
    <3>2. UNCHANGED cache
      BY <2>1 DEF SendData, SendState, SendReset, SendEnded, Take, reader
    <3> QED
      BY <3>1, <3>2, DecodedAppend DEF Plain!Deliver
  <2>2. CASE Receive
    <3>1. frames # <<>> /\ frames' = Tail(frames) /\ UNCHANGED taken
          /\ cache' = Apply(cache, Reconstruct(Head(frames)))
      BY <2>2, ReceiveInstalls DEF service, Installs
    <3>2. \A c, x : Apply(c, x) = Plain!Apply(c, x)
      BY DEF Apply, Plain!Apply, Touches, Plain!Touches, Entry, Plain!Entry, Keys, Plain!Keys,
             StateItem, Plain!StateItem
    <3> QED
      BY <3>1, <3>2, DecodedTail DEF Plain!Install
  <2>3. CASE Acknowledge \/ AcknowledgeFails \/ SendReady \/ ReadAck \/ AckSideEnds
             \/ UNCHANGED vars
    <3>1. UNCHANGED <<frames, taken, cache>>
      BY <2>3 DEF Acknowledge, AcknowledgeFails, SendReady, ReadAck, AckSideEnds, vars, service,
                  reader
    <3> QED
      BY <3>1 DEF Plain!pvars, Decoded
  <2> QED
    BY <2>1, <2>2, <2>3 DEF Next
<1> QED
  BY <1>1, <1>2, Invariant, PTL DEF Spec, ImplementsPlainStream, Plain!PSpec

-----------------------------------------------------------------------------
(* The requests of an SDK client, for every number of calls, targets,       *)
(* sessions and runs of the service: a snapshot is the one that was asked   *)
(* for, a session was the only one, and a closed client answers nothing.    *)

CONSTANTS Calls, Targets, SessionIds, MaxRuns
VARIABLES up, run, record, targets, health, used, client, handle, calls, only

Queries == INSTANCE Queries WITH topics <- health

Phases == {"none", "sent", "answered", "selected", "returned"}
TopicStates == [health : Queries!Healths, deadline : {"none", "ahead", "passed"}]
Found(ts) == Queries!Warframe(ts)

\* A service that is down has no targets, so no session.
RunsOK ==
    /\ up \in BOOLEAN /\ run \in 0 .. MaxRuns /\ record \in 0 .. run
    /\ up => run # 0
    /\ targets \in [Targets -> Queries!Activities] /\ used \subseteq SessionIds
    /\ ~up => \A p \in Targets : targets[p] = Queries!NoTarget
    /\ health \in [SessionIds -> TopicStates]
    /\ handle \in Queries!Refs \cup {Queries!NoSession}
    /\ only \in [Calls -> SUBSET Queries!Refs]

\* The token of an endpoint that is closed was cancelled before.
ClientOK ==
    /\ client = [phase |-> client.phase, at |-> client.at, closed |-> client.closed,
                 endpoint |-> client.endpoint, shut |-> client.shut]
    /\ client.closed \in BOOLEAN /\ client.shut \in BOOLEAN
    /\ client.shut => client.closed
    /\ client.phase = "failed" => client.endpoint = "closed"

\* What a call may hold.  An answer of the service was within its deadline, a list of
\* sessions that has one was complete at some time of the call, and what the caller is
\* told of either is true.
CallOK(x, seen) ==
    /\ x = [kind |-> x.kind, phase |-> x.phase, ref |-> x.ref, answer |-> x.answer]
    /\ x.phase \in Phases
    /\ x.phase = "sent" => x.kind \in {"connect", "single", "cached"}
    /\ x.kind = "cached" => x.ref \in Queries!Refs
    /\ x.answer.is = "data" =>
          ~x.answer.late /\ (x.phase = "returned" => x.answer.source = x.ref)
    /\ x.answer.is = "status" /\ Queries!OneSession(x.answer.sessions) =>
          x.answer.sessions \subseteq seen
    /\ x.answer.is = "session" => x.phase = "returned" /\ x.answer.ref \in seen
    /\ x.phase = "sent" /\ Queries!OneSession(Found(targets)) =>
          Found(targets) \subseteq seen

CallsOK ==
    /\ calls = [c \in Calls |-> calls[c]]
    /\ \A c \in Calls : CallOK(calls[c], only[c])

QueriesInv == RunsOK /\ ClientOK /\ CallsOK

\* No session, no answer.
LEMMA NoneFound == ~Queries!OneSession({})
<1>1. Queries!Cardinality({}) = Cardinality({})
  BY Zenon DEF Queries!Cardinality, Cardinality
<1> QED BY <1>1, FS_EmptySet DEF Queries!OneSession

LEMMA FreshCallOK ==
    ASSUME NEW seen
    PROVE  CallOK(Queries!NoCall, seen)
BY DEF CallOK, Queries!NoCall, Phases

LEMMA QueriesInit == ASSUME Queries!QueriesAssumption PROVE Queries!Init => QueriesInv
<1> SUFFICES ASSUME Queries!Init PROVE QueriesInv OBVIOUS
<1> USE DEF Queries!Init
<1>1. RunsOK
  <2>1. Queries!Idle \in TopicStates BY DEF Queries!Idle, TopicStates, Queries!Healths
  <2>2. run \in 0 .. MaxRuns /\ record \in 0 .. run /\ used \subseteq SessionIds
    BY DEF Queries!QueriesAssumption
  <2>5. ~up /\ up \in BOOLEAN BY Zenon
  <2>3. targets \in [Targets -> Queries!Activities] BY DEF Queries!Activities
  <2>4. only \in [Calls -> SUBSET Queries!Refs] OBVIOUS
  <2> QED BY <2>1, <2>2, <2>3, <2>4, <2>5 DEF RunsOK
<1>2. ClientOK BY DEF ClientOK, Queries!NoClient
<1>3. CallsOK BY FreshCallOK DEF CallsOK
<1> QED BY <1>1, <1>2, <1>3 DEF QueriesInv

\* The sessions of the list are sessions of this run.
LEMMA FoundRefs ==
    ASSUME RunsOK, NEW ts
    PROVE  /\ up => Found(ts) \subseteq Queries!Refs
           /\ (\A p \in Targets : ts[p] = Queries!NoTarget) /\ Queries!QueriesAssumption
                => Found(ts) = {}
<1>1. ASSUME up PROVE Found(ts) \subseteq Queries!Refs
  <2>1. run \in 1 .. MaxRuns BY <1>1 DEF RunsOK
  <2> QED BY <2>1 DEF Found, Queries!Warframe, Queries!Refs
<1>2. ASSUME \A p \in Targets : ts[p] = Queries!NoTarget, Queries!QueriesAssumption
      PROVE  Found(ts) = {}
  <2>1. Queries!NoTarget \notin SessionIds
    BY <1>2 DEF Queries!QueriesAssumption, Queries!NoTarget
  <2> QED BY <1>2, <2>1 DEF Found, Queries!Warframe
<1> QED BY <1>1, <1>2

\* The calls where only the world moves: what is found now may be seen by those sent.
LEMMA CallsKept ==
    ASSUME CallsOK, UNCHANGED calls,
           \A c \in Calls : only[c] \subseteq only'[c],
           \A c \in Calls : calls[c].phase = "sent" /\ Queries!OneSession(Found(targets)')
                => Found(targets)' \subseteq only'[c]
    PROVE  CallsOK'
<1> SUFFICES ASSUME NEW c \in Calls PROVE CallOK(calls[c], only[c])'
  BY DEF CallsOK
<1>1. CallOK(calls[c], only[c]) BY DEF CallsOK
<1> QED BY <1>1 DEF CallOK

\* Targets are found and go; topics change; the service crashes, starts and registers.
LEMMA ObserveInv ==
    ASSUME Queries!QueriesAssumption, QueriesInv,
           NEW p \in Targets, NEW a \in Queries!Activities, Queries!Observe(p, a)
    PROVE  QueriesInv'
<1> USE DEF QueriesInv
<1>1. /\ up /\ targets' = [targets EXCEPT ![p] = a]
      /\ used' = used \cup ({a} \cap SessionIds)
      /\ health' = [s \in SessionIds |->
                      IF s \in {targets[p], a} THEN Queries!Idle ELSE health[s]]
      /\ Queries!Seen(targets')
      /\ UNCHANGED <<up, run, record, client, handle, calls>>
  BY DEF Queries!Observe
<1>2. Queries!Idle \in TopicStates BY DEF Queries!Idle, TopicStates, Queries!Healths
<1>3. Found(targets') \subseteq Queries!Refs BY <1>1, FoundRefs
<1>4. only' = [c \in Calls |->
                 IF calls[c].phase = "sent" /\ Queries!OneSession(Found(targets'))
                 THEN only[c] \cup Found(targets') ELSE only[c]]
  BY <1>1 DEF Queries!Seen, Queries!OneSession, Found
<1>5. Found(targets)' = Found(targets') BY <1>1 DEF Found, Queries!Warframe
<1>6. RunsOK'
  <2>1. only' \in [Calls -> SUBSET Queries!Refs] BY <1>3, <1>4 DEF RunsOK
  <2>2. health' \in [SessionIds -> TopicStates] BY <1>1, <1>2 DEF RunsOK
  <2> QED BY <1>1, <2>1, <2>2 DEF RunsOK
<1>7. ClientOK' BY <1>1 DEF ClientOK
<1>8. CallsOK' BY <1>1, <1>4, <1>5, CallsKept
<1> QED BY <1>6, <1>7, <1>8

LEMMA SampleInv ==
    ASSUME QueriesInv, NEW s \in SessionIds, NEW t \in TopicStates, Queries!Sample(s, t)
    PROVE  QueriesInv'
<1> USE DEF QueriesInv
<1>1. /\ health' = [health EXCEPT ![s] = t]
      /\ UNCHANGED <<up, run, record, targets, used, client, handle, calls, only>>
  BY DEF Queries!Sample
<1>2. RunsOK' BY <1>1 DEF RunsOK
<1>3. ClientOK' BY <1>1 DEF ClientOK
<1>4. Found(targets)' = Found(targets) BY <1>1 DEF Found, Queries!Warframe
<1>5. CallsOK'
  <2>1. \A c \in Calls : calls[c].phase = "sent" /\ Queries!OneSession(Found(targets))
            => Found(targets) \subseteq only[c]
    BY DEF CallsOK, CallOK
  <2> QED BY <1>1, <1>4, <2>1, CallsKept
<1> QED BY <1>2, <1>3, <1>5

LEMMA RunsInv ==
    ASSUME Queries!QueriesAssumption, QueriesInv,
           Queries!Crash \/ Queries!Start \/ Queries!Register
    PROVE  QueriesInv'
<1> USE DEF QueriesInv
<1>1. UNCHANGED <<client, handle, calls, only>>
  BY DEF Queries!Crash, Queries!Start, Queries!Register
<1>2. RunsOK'
  <2>1. CASE Queries!Crash
    <3>1. Queries!Idle \in TopicStates BY DEF Queries!Idle, TopicStates, Queries!Healths
    <3> QED BY <1>1, <2>1, <3>1 DEF RunsOK, Queries!Crash, Queries!Activities
  <2>2. CASE Queries!Start
    BY <1>1, <2>2 DEF RunsOK, Queries!Start, Queries!QueriesAssumption
  <2>3. CASE Queries!Register BY <1>1, <2>3 DEF RunsOK, Queries!Register
  <2> QED BY <2>1, <2>2, <2>3
<1>3. ClientOK' BY <1>1 DEF ClientOK
<1>4. CallsOK'
  <2>1. CASE Queries!Register
    <3>1. Found(targets)' = Found(targets)
      BY <2>1 DEF Queries!Register, Found, Queries!Warframe
    <3>2. \A c \in Calls : calls[c].phase = "sent" /\ Queries!OneSession(Found(targets))
              => Found(targets) \subseteq only[c]
      BY DEF CallsOK, CallOK
    <3> QED BY <1>1, <3>1, <3>2, CallsKept
  <2>2. CASE Queries!Crash \/ Queries!Start
    <3>1. \A p \in Targets : targets'[p] = Queries!NoTarget
      BY <2>2 DEF Queries!Crash, Queries!Start, RunsOK
    <3>2. Found(targets)' = {}
      <4>1. Queries!NoTarget \notin SessionIds
        BY DEF Queries!QueriesAssumption, Queries!NoTarget
      <4> QED BY <3>1, <4>1 DEF Found, Queries!Warframe
    <3> QED BY <1>1, <3>2, NoneFound, CallsKept
  <2> QED BY <2>1, <2>2
<1> QED BY <1>2, <1>3, <1>4

LEMMA QWorldInv ==
    ASSUME Queries!QueriesAssumption, QueriesInv, Queries!World
    PROVE  QueriesInv'
<1>1. ASSUME NEW s \in SessionIds, Queries!DeadlinePasses(s) PROVE QueriesInv'
  <2>1. health[s] \in TopicStates BY DEF QueriesInv, RunsOK
  <2>2. [health[s] EXCEPT !.deadline = "passed"] \in TopicStates BY <2>1 DEF TopicStates
  <2> QED BY <1>1, <2>2, SampleInv DEF Queries!DeadlinePasses
<1>2. ASSUME NEW s \in SessionIds, NEW h \in Queries!Healths, Queries!Publish(s, h)
      PROVE  QueriesInv'
  <2>1. [health |-> h,
         deadline |-> IF h \in {"idle", "unavailable"} THEN "none" ELSE "ahead"]
          \in TopicStates
    BY DEF TopicStates
  <2> QED BY <1>2, <2>1, SampleInv DEF Queries!Publish
<1> QED BY <1>1, <1>2, ObserveInv, RunsInv DEF Queries!World

\* One call changes, and what it may have seen; the service moves at most by what it
\* was asked.
LEMMA OneCall ==
    ASSUME QueriesInv, NEW c \in Calls, NEW x, NEW seen,
           calls' = [calls EXCEPT ![c] = x],
           only' = [only EXCEPT ![c] = seen],
           UNCHANGED <<targets, run>>, CallOK(x, seen)
    PROVE  CallsOK'
<1>1. Found(targets)' = Found(targets) BY DEF Found, Queries!Warframe
<1>2. CallsOK /\ only = [d \in Calls |-> only[d]] BY DEF QueriesInv, RunsOK
<1>3. ASSUME NEW d \in Calls PROVE CallOK(calls[d], only[d])'
  <2>1. CASE d = c
    <3>1. calls'[d] = x /\ only'[d] = seen BY <1>2, <2>1 DEF CallsOK
    <3> QED BY <1>1, <3>1 DEF CallOK
  <2>2. CASE d # c
    <3>1. calls'[d] = calls[d] /\ only'[d] = only[d] BY <1>2, <2>2 DEF CallsOK
    <3>2. CallOK(calls[d], only[d]) BY <1>2 DEF CallsOK
    <3> QED BY <1>1, <3>1, <3>2 DEF CallOK
  <2> QED BY <2>1, <2>2
<1> QED BY <1>2, <1>3 DEF CallsOK

\* The same where what it may have seen stays.
LEMMA SameSeen ==
    ASSUME QueriesInv, NEW c \in Calls, NEW x, calls' = [calls EXCEPT ![c] = x],
           UNCHANGED <<targets, run, only>>, CallOK(x, only[c])
    PROVE  CallsOK'
<1>1. only' = [only EXCEPT ![c] = only[c]] BY DEF QueriesInv, RunsOK
<1> QED BY <1>1, OneCall

\* Inner::expire leaves no topic available past its deadline.
LEMMA ExpireOK ==
    ASSUME RunsOK
    PROVE  /\ Queries!Expire \in [SessionIds -> TopicStates]
           /\ \A s \in SessionIds : Queries!Expire[s].health = "available"
                  => Queries!Expire[s].deadline # "passed"
<1>1. [health |-> "unavailable", deadline |-> "none"] \in TopicStates
  BY DEF TopicStates, Queries!Healths
<1>2. ASSUME NEW s \in SessionIds
      PROVE  /\ Queries!Expire[s] \in TopicStates
             /\ Queries!Expire[s].health = "available"
                  => Queries!Expire[s].deadline # "passed"
  <2>1. health[s] \in TopicStates BY DEF RunsOK
  <2> QED BY <1>1, <2>1 DEF Queries!Expire
<1>3. Queries!Expire = [s \in SessionIds |-> Queries!Expire[s]] BY DEF Queries!Expire
<1> QED BY <1>2, <1>3

\* What the service answers of a session is of that session, and in time.
LEMMA SnapshotOK ==
    ASSUME RunsOK, NEW ref \in Queries!Refs
    PROVE  LET answer == Queries!Snapshot(ref)
           IN  /\ answer.is \in {"error", "data"}
               /\ answer.is = "data" => ~answer.late
<1>1. ref.id \in SessionIds BY DEF Queries!Refs
<1>2. Queries!Expire[ref.id] \in TopicStates BY <1>1, ExpireOK
<1> DEFINE t == Queries!Expire[ref.id]
<1>3. /\ t.health \in {"idle", "initializing", "unavailable", "available"}
      /\ t.health = "available" => t.deadline # "passed"
  BY <1>1, <1>2, ExpireOK DEF TopicStates, Queries!Healths
<1>4. CASE ~Queries!Find(ref) BY <1>4 DEF Queries!Snapshot, Queries!Error
<1>5. CASE Queries!Find(ref) /\ t.health # "available"
  <2>1. \E e : Queries!Snapshot(ref) = Queries!Error(e)
    BY <1>3, <1>5 DEF Queries!Snapshot
  <2> QED BY <2>1 DEF Queries!Error
<1>6. CASE Queries!Find(ref) /\ t.health = "available"
  <2>1. Queries!Snapshot(ref)
          = [is |-> "data", source |-> [run |-> run, id |-> ref.id],
             late |-> t.deadline = "passed"]
    BY <1>6 DEF Queries!Snapshot
  <2>2. (t.deadline = "passed") = FALSE BY <1>3, <1>6
  <2> HIDE DEF t
  <2>3. Queries!Snapshot(ref)
          = [is |-> "data", source |-> [run |-> run, id |-> ref.id], late |-> FALSE]
    BY <2>1, <2>2, Zenon
  <2>4. Queries!Snapshot(ref).is = "data" /\ Queries!Snapshot(ref).late = FALSE
    BY <2>3
  <2> QED BY <2>4
<1> QED BY <1>3, <1>4, <1>5, <1>6

\* A call that has an answer, and the assignments that make it one.
Answered(c, p, a) ==
    [kind |-> calls[c].kind, phase |-> p, ref |-> calls[c].ref, answer |-> a]
Assigned(c, p, a) == [calls EXCEPT ![c].phase = p, ![c].answer = a]

LEMMA TwoFields ==
    ASSUME CallsOK, NEW c \in Calls, NEW p, NEW a
    PROVE  Assigned(c, p, a) = [calls EXCEPT ![c] = Answered(c, p, a)]
<1> DEFINE f == [calls EXCEPT ![c].phase = p]
<1>1. /\ calls = [d \in Calls |-> calls[d]]
      /\ calls[c] = [kind |-> calls[c].kind, phase |-> calls[c].phase,
                     ref |-> calls[c].ref, answer |-> calls[c].answer]
  BY DEF CallsOK, CallOK
<1>2. f = [calls EXCEPT ![c] = [calls[c] EXCEPT !.phase = p]] OBVIOUS
<1>3. [calls[c] EXCEPT !.phase = p]
        = [kind |-> calls[c].kind, phase |-> p, ref |-> calls[c].ref,
           answer |-> calls[c].answer]
  BY <1>1
<1>4. f[c] = [kind |-> calls[c].kind, phase |-> p, ref |-> calls[c].ref,
              answer |-> calls[c].answer]
  BY <1>1, <1>2, <1>3
<1>5. [f[c] EXCEPT !.answer = a] = Answered(c, p, a) BY <1>4 DEF Answered
<1>6. [f EXCEPT ![c].answer = a] = [f EXCEPT ![c] = [f[c] EXCEPT !.answer = a]] OBVIOUS
<1>7. [f EXCEPT ![c] = Answered(c, p, a)] = [calls EXCEPT ![c] = Answered(c, p, a)]
  BY <1>1, <1>2
<1> QED BY <1>5, <1>6, <1>7 DEF Assigned

\* The service answers, and lists one session only if the call has seen it.
LEMMA AnswerInv ==
    ASSUME QueriesInv, NEW c \in Calls, Queries!Answer(c)
    PROVE  QueriesInv'
<1> USE DEF QueriesInv
<1> DEFINE a == CASE calls[c].kind = "connect" -> [is |-> "pong"]
                  [] calls[c].kind = "single" -> Queries!Status
                  [] calls[c].kind = "cached" -> Queries!Snapshot(calls[c].ref)
           x == Answered(c, "answered", a)
<1>1. /\ calls[c].phase = "sent"
      /\ health' = IF calls[c].kind = "connect" THEN health ELSE Queries!Expire
      /\ UNCHANGED <<up, run, record, targets, used, client, handle, only>>
  BY DEF Queries!Answer
<1>2. CallOK(calls[c], only[c]) BY DEF CallsOK
<1>3. calls' = [calls EXCEPT ![c] = x]
  <2>1. calls' = Assigned(c, "answered", a) BY DEF Queries!Answer, Assigned
  <2> HIDE DEF a
  <2> QED BY <2>1, TwoFields
<1>4. CallOK(x, only[c])
  <2> USE DEF Answered
  <2>1. calls[c].kind \in {"connect", "single", "cached"} BY <1>1, <1>2 DEF CallOK
  <2>2. CASE calls[c].kind = "connect"
    <3>1. a = [is |-> "pong"] BY <2>2
    <3> HIDE DEF a
    <3> QED BY <2>2, <3>1 DEF CallOK, Phases
  <2>3. CASE calls[c].kind = "single"
    <3>1. a = [is |-> "status", sessions |-> Found(targets)]
      BY <2>3 DEF Queries!Status, Found
    <3>2. Queries!OneSession(Found(targets)) => Found(targets) \subseteq only[c]
      BY <1>1, <1>2 DEF CallOK
    <3> HIDE DEF a
    <3> QED BY <2>3, <3>1, <3>2 DEF CallOK, Phases
  <2>4. CASE calls[c].kind = "cached"
    <3>1. a = Queries!Snapshot(calls[c].ref) /\ calls[c].ref \in Queries!Refs
      BY <1>2, <2>4 DEF CallOK
    <3>2. a.is \in {"error", "data"} /\ (a.is = "data" => ~a.late)
      BY <3>1, SnapshotOK
    <3> HIDE DEF a
    <3> QED BY <2>4, <3>1, <3>2 DEF CallOK, Phases
  <2> QED BY <2>1, <2>2, <2>3, <2>4
<1> HIDE DEF x
<1>5. CallsOK' BY <1>1, <1>3, <1>4, SameSeen
<1>6. RunsOK'
  <2>1. health' \in [SessionIds -> TopicStates] BY <1>1, ExpireOK DEF RunsOK
  <2> QED BY <1>1, <2>1 DEF RunsOK
<1>7. ClientOK' BY <1>1 DEF ClientOK
<1> QED BY <1>5, <1>6, <1>7

\* A call that gets an answer without the service: an error, or what it has already.
LEMMA LocalInv ==
    ASSUME QueriesInv, NEW c \in Calls, NEW a, NEW p \in Phases \ {"sent"},
           calls' = [calls EXCEPT ![c] = Answered(c, p, a)],
           UNCHANGED <<up, run, record, targets, health, used, client, handle, only>>,
           a.is = "data" => ~a.late /\ (p = "returned" => a.source = calls[c].ref),
           a.is = "status" /\ Queries!OneSession(a.sessions) => a.sessions \subseteq only[c],
           a.is = "session" => p = "returned" /\ a.ref \in only[c]
    PROVE  QueriesInv'
<1> USE DEF QueriesInv
<1>1. CallOK(calls[c], only[c]) BY DEF CallsOK
<1>2. CallOK(Answered(c, p, a), only[c]) BY <1>1 DEF CallOK, Answered, Phases
<1>3. CallsOK' BY <1>2, SameSeen
<1>4. RunsOK' BY DEF RunsOK
<1>5. ClientOK' BY DEF ClientOK
<1> QED BY <1>3, <1>4, <1>5

\* What the caller makes of an answer it is allowed to see.
LEMMA InterpretOK ==
    ASSUME NEW c \in Calls, CallOK(calls[c], only[c]), calls[c].phase = "selected",
           NEW a, a = Queries!Checked(c)
    PROVE  LET answer == Queries!Interpret(c, a)
           IN  /\ answer.is \notin {"status"}
               /\ answer.is = "data" => ~answer.late /\ answer.source = calls[c].ref
               /\ answer.is = "session" => answer.ref \in only[c]
               /\ client.closed => answer.is = "error"
<1> DEFINE closed == [is |-> "error", error |-> "closed"]
<1>0. a = IF client.closed THEN closed ELSE calls[c].answer
  BY DEF Queries!Checked, Queries!Error
<1>1. /\ a.is = "data" => ~a.late
      /\ a.is = "status" /\ Queries!OneSession(a.sessions) => a.sessions \subseteq only[c]
      /\ a.is # "session"
      /\ client.closed => a = closed
  BY <1>0 DEF CallOK
<1>2. CASE a.is = "status"
  <2>1. CASE Queries!OneSession(a.sessions)
    <3>1. a.sessions # {} BY <2>1, NoneFound
    <3>2. (CHOOSE ref \in a.sessions : TRUE) \in only[c] BY <1>1, <1>2, <2>1, <3>1
    <3>3. Queries!Interpret(c, a)
            = [is |-> "session", ref |-> CHOOSE ref \in a.sessions : TRUE]
      BY <1>2, <2>1 DEF Queries!Interpret
    <3>4. ~client.closed BY <1>1, <1>2
    <3> QED BY <3>2, <3>3, <3>4
  <2>2. CASE ~Queries!OneSession(a.sessions)
    <3>1. \E e : Queries!Interpret(c, a) = [is |-> "error", error |-> e]
      BY <1>2, <2>2 DEF Queries!Interpret, Queries!Error
    <3> QED BY <3>1
  <2> QED BY <2>1, <2>2
<1>3. CASE a.is # "status" /\ a.is = "data" /\ a.source # calls[c].ref
  BY <1>3 DEF Queries!Interpret, Queries!Error
<1>4. CASE /\ a.is # "status" /\ ~(a.is = "data" /\ a.source # calls[c].ref)
           /\ calls[c].kind = "cached"
           /\ a \in {Queries!Error("idle"), Queries!Error("not_sampled")}
  <2>1. Queries!Interpret(c, a) = [is |-> "absent"] BY <1>4 DEF Queries!Interpret
  <2>2. ~client.closed BY <1>1, <1>4 DEF Queries!Error
  <2> QED BY <2>1, <2>2
<1>5. CASE /\ a.is # "status" /\ ~(a.is = "data" /\ a.source # calls[c].ref)
           /\ ~(/\ calls[c].kind = "cached"
                /\ a \in {Queries!Error("idle"), Queries!Error("not_sampled")})
  <2>1. Queries!Interpret(c, a) = a BY <1>5, Zenon DEF Queries!Interpret
  <2> QED BY <1>1, <1>5, <2>1
<1> QED BY <1>2, <1>3, <1>4, <1>5

LEMMA CallInv ==
    ASSUME QueriesInv, NEW c \in Calls,
           Queries!Lose(c) \/ Queries!Select(c) \/ Queries!TimeOut(c) \/ Queries!Finish(c)
    PROVE  QueriesInv'
<1>1. CallOK(calls[c], only[c]) BY DEF QueriesInv, CallsOK
<1>2. UNCHANGED <<up, run, record, targets, health, used, client, handle, only>>
  BY DEF Queries!Lose, Queries!Select, Queries!TimeOut, Queries!Finish, Queries!service
<1>3. ASSUME NEW e, NEW p \in Phases \ {"sent"},
             calls' = [calls EXCEPT ![c] = Answered(c, p, Queries!Error(e))]
      PROVE  QueriesInv'
  <2>1. Queries!Error(e).is = "error" BY DEF Queries!Error
  <2> QED BY <1>2, <1>3, <2>1, LocalInv
<1>4. \A p, a : calls' = Assigned(c, p, a) => calls' = [calls EXCEPT ![c] = Answered(c, p, a)]
  BY TwoFields DEF QueriesInv
<1>5. {"answered", "selected", "returned"} \subseteq Phases \ {"sent"} BY DEF Phases
<1>6. CASE Queries!Lose(c)
  <2>1. calls' = Assigned(c, "answered", Queries!Error("transport"))
    BY <1>6 DEF Queries!Lose, Assigned
  <2> QED BY <1>3, <1>4, <1>5, <2>1
<1>7. CASE Queries!TimeOut(c)
  <2>1. calls' = Assigned(c, "returned", Queries!Error("timeout"))
    BY <1>7 DEF Queries!TimeOut, Queries!Return, Assigned
  <2> QED BY <1>3, <1>4, <1>5, <2>1
<1>8. CASE Queries!Select(c)
  <2>1. CASE client.closed
    <3>1. calls' = Assigned(c, "selected", Queries!Error("closed"))
      BY <1>8, <2>1 DEF Queries!Select, Assigned
    <3> QED BY <1>3, <1>4, <1>5, <3>1
  <2>2. CASE ~client.closed
    <3> DEFINE a == calls[c].answer
    <3>1. calls[c].phase = "answered" BY <1>8, <2>2 DEF Queries!Select
    <3>2. calls' = Assigned(c, "selected", a)
      BY <1>8, <2>2 DEF Queries!Select, Assigned
    <3>3. /\ a.is = "data" => ~a.late
          /\ a.is = "status" /\ Queries!OneSession(a.sessions) => a.sessions \subseteq only[c]
          /\ a.is # "session"
      BY <1>1, <3>1 DEF CallOK
    <3> HIDE DEF a
    <3> QED BY <1>2, <1>4, <1>5, <3>2, <3>3, LocalInv
  <2> QED BY <2>1, <2>2
<1>9. CASE Queries!Finish(c)
  <2> DEFINE a == Queries!Interpret(c, Queries!Checked(c))
  <2>1. /\ calls[c].phase = "selected"
        /\ calls' = Assigned(c, "returned", a)
    BY <1>9 DEF Queries!Finish, Queries!Return, Assigned
  <2>2. /\ a.is # "status"
        /\ a.is = "data" => ~a.late /\ a.source = calls[c].ref
        /\ a.is = "session" => a.ref \in only[c]
    BY <1>1, <2>1, InterpretOK
  <2> HIDE DEF a
  <2> QED BY <1>2, <1>4, <1>5, <2>1, <2>2, LocalInv
<1> QED BY <1>6, <1>7, <1>8, <1>9

\* Requests are sent, and have seen what is found then.
LEMMA SendOK ==
    ASSUME Queries!QueriesAssumption, QueriesInv,
           NEW c \in Calls, NEW kind \in {"connect", "single", "cached"},
           NEW ref, kind = "cached" => ref \in Queries!Refs,
           Queries!Send(c, kind, ref),
           UNCHANGED <<up, run, record, targets, health, used, handle>>
    PROVE  CallsOK' /\ RunsOK'
<1> DEFINE x == [kind |-> kind, phase |-> "sent", ref |-> ref, answer |-> [is |-> "none"]]
           seen == IF Queries!OneSession(Found(targets)) THEN Found(targets) ELSE {}
<1>1. calls' = [calls EXCEPT ![c] = x] /\ only' = [only EXCEPT ![c] = seen]
  BY DEF Queries!Send, Queries!OneSession, Found
<1>2. CallOK(x, seen) BY DEF CallOK, Phases
<1>3. seen \in SUBSET Queries!Refs
  <2>1. CASE up BY <2>1, FoundRefs DEF QueriesInv
  <2>2. CASE ~up
    <3>1. \A p \in Targets : targets[p] = Queries!NoTarget BY <2>2 DEF QueriesInv, RunsOK
    <3>2. Found(targets) = {} BY <3>1, FoundRefs DEF QueriesInv
    <3> QED BY <3>2
  <2> QED BY <2>1, <2>2
<1> HIDE DEF x, seen
<1>4. CallsOK' BY <1>1, <1>2, OneCall
<1>5. RunsOK' BY <1>1, <1>3 DEF QueriesInv, RunsOK
<1> QED BY <1>4, <1>5

LEMMA AskInv ==
    ASSUME Queries!QueriesAssumption, QueriesInv, NEW c \in Calls,
           \/ Queries!ConnectLocal(c) \/ Queries!Connect(c, Queries!Anywhere)
           \/ Queries!AskSingle(c) \/ Queries!AskCached(c)
    PROVE  QueriesInv'
<1> USE DEF QueriesInv
<1>1. CASE Queries!AskSingle(c) \/ Queries!AskCached(c)
  <2>1. UNCHANGED <<up, run, record, targets, health, used, client, handle>>
    BY <1>1 DEF Queries!AskSingle, Queries!AskCached, Queries!service
  <2>2. \/ Queries!Send(c, "single", Queries!NoSession)
        \/ Queries!Send(c, "cached", handle) /\ handle # Queries!NoSession
    BY <1>1 DEF Queries!AskSingle, Queries!AskCached
  <2>3. handle # Queries!NoSession => handle \in Queries!Refs BY DEF RunsOK
  <2>4. CallsOK' /\ RunsOK' BY <2>1, <2>2, <2>3, SendOK
  <2>5. ClientOK' BY <2>1 DEF ClientOK
  <2> QED BY <2>4, <2>5
<1>2. ASSUME NEW at, Queries!Connect(c, at) PROVE QueriesInv'
  <2>1. UNCHANGED <<up, run, record, targets, health, used, handle>>
    BY <1>2 DEF Queries!Connect, Queries!service
  <2>2. Queries!Send(c, "connect", Queries!NoSession) BY <1>2 DEF Queries!Connect
  <2>3. CallsOK' /\ RunsOK' BY <2>1, <2>2, SendOK
  <2>4. client' = [phase |-> "pinging", at |-> at, closed |-> FALSE,
                   endpoint |-> "bound", shut |-> FALSE]
    BY <1>2 DEF Queries!Connect, Queries!NoClient
  <2>5. ClientOK' BY <2>4 DEF ClientOK
  <2> QED BY <2>3, <2>5
<1> QED BY <1>1, <1>2 DEF Queries!ConnectLocal

\* A call is over: what it was told is taken, or it is cancelled.
LEMMA OverInv ==
    ASSUME QueriesInv, NEW c \in Calls, Queries!Take(c) \/ Queries!Cancel(c)
    PROVE  QueriesInv'
<1> USE DEF QueriesInv
<1>1. /\ calls' = [calls EXCEPT ![c] = Queries!NoCall]
      /\ only' = [only EXCEPT ![c] = {}]
      /\ UNCHANGED <<up, run, record, targets, health, used>>
  BY DEF Queries!Take, Queries!Cancel, Queries!service
<1>2. CallsOK' BY <1>1, FreshCallOK, OneCall
<1>3. handle' \in Queries!Refs \cup {Queries!NoSession}
  <2>1. CallOK(calls[c], only[c]) BY DEF CallsOK
  <2>2. calls[c].answer.is = "session" => calls[c].answer.ref \in Queries!Refs
    BY <2>1 DEF CallOK, RunsOK
  <2> QED BY <2>2 DEF Queries!Take, Queries!Cancel, RunsOK
<1>4. RunsOK' BY <1>1, <1>3 DEF RunsOK
<1>5. ClientOK'
  <2>1. client' \in {client, Queries!Open, Queries!Release, Queries!NoClient}
    BY DEF Queries!Take, Queries!Cancel
  <2>2. CASE client' = client BY <2>2 DEF ClientOK
  <2>3. CASE client' = Queries!Open
    <3>1. client' = [phase |-> "open", at |-> client.at, closed |-> client.closed,
                     endpoint |-> client.endpoint, shut |-> client.shut]
      BY <2>3 DEF ClientOK, Queries!Open
    <3> QED BY <3>1 DEF ClientOK
  <2>4. CASE client' = Queries!Release
    <3>1. client' = [phase |-> "releasing", at |-> client.at, closed |-> TRUE,
                     endpoint |-> client.endpoint, shut |-> client.shut]
      BY <2>4 DEF ClientOK, Queries!Release
    <3> QED BY <3>1 DEF ClientOK
  <2>5. CASE client' = Queries!NoClient BY <2>5 DEF ClientOK, Queries!NoClient
  <2> QED BY <2>1, <2>2, <2>3, <2>4, <2>5
<1> QED BY <1>2, <1>4, <1>5

\* The client is closed: the token, then the endpoint, and then it is dropped.
LEMMA CloseInv ==
    ASSUME QueriesInv, Queries!Close \/ Queries!EndpointCloses \/ Queries!Drop
    PROVE  QueriesInv'
<1> USE DEF QueriesInv
<1>1. UNCHANGED <<up, run, record, targets, health, used, handle, calls, only>>
  BY DEF Queries!Close, Queries!EndpointCloses, Queries!Drop, Queries!service
<1>2. RunsOK' BY <1>1 DEF RunsOK
<1>3. CallsOK'
  <2>1. Found(targets)' = Found(targets) BY <1>1 DEF Found, Queries!Warframe
  <2>2. \A c \in Calls : calls[c].phase = "sent" /\ Queries!OneSession(Found(targets))
            => Found(targets) \subseteq only[c]
    BY DEF CallsOK, CallOK
  <2> QED BY <1>1, <2>1, <2>2, CallsKept
<1>4. CASE Queries!Close
  <2>1. client' = [phase |-> client.phase, at |-> client.at, closed |-> TRUE,
                   endpoint |-> client.endpoint, shut |-> client.shut]
    BY <1>4 DEF ClientOK, Queries!Close
  <2> QED BY <1>2, <1>3, <2>1 DEF ClientOK
<1>5. CASE Queries!EndpointCloses
  <2>1. client.closed /\ client' = [client EXCEPT !.endpoint = "closed", !.shut = TRUE,
                       !.phase = IF @ = "releasing" THEN "failed" ELSE @]
    BY <1>5 DEF Queries!EndpointCloses
  <2>2. client' = [phase |-> IF client.phase = "releasing" THEN "failed" ELSE client.phase,
                   at |-> client.at, closed |-> client.closed, endpoint |-> "closed",
                   shut |-> TRUE]
    BY <2>1 DEF ClientOK
  <2> QED BY <1>2, <1>3, <2>1, <2>2 DEF ClientOK
<1>6. CASE Queries!Drop
  BY <1>2, <1>3, <1>6 DEF ClientOK, Queries!Drop, Queries!NoClient
<1> QED BY <1>4, <1>5, <1>6

LEMMA QueriesSteps ==
    ASSUME Queries!QueriesAssumption
    PROVE  QueriesInv /\ [Queries!Next]_Queries!vars => QueriesInv'
<1> SUFFICES ASSUME QueriesInv, [Queries!Next]_Queries!vars PROVE QueriesInv' OBVIOUS
<1>1. CASE Queries!World BY <1>1, QWorldInv
<1>2. CASE Queries!Application BY <1>2, CloseInv, AskInv, OverInv DEF Queries!Application
<1>3. CASE Queries!EndpointCloses BY <1>3, CloseInv
<1>4. CASE \E c \in Calls : Queries!Request(c)
  BY <1>4, AnswerInv, CallInv, OverInv DEF Queries!Request
<1>5. CASE UNCHANGED Queries!vars
  <2>1. Found(targets)' = Found(targets) BY <1>5 DEF Queries!vars, Found, Queries!Warframe
  <2>2. \A c \in Calls : calls[c].phase = "sent" /\ Queries!OneSession(Found(targets))
            => Found(targets) \subseteq only[c]
    BY DEF QueriesInv, CallsOK, CallOK
  <2>3. CallsOK' BY <1>5, <2>1, <2>2, CallsKept DEF QueriesInv, Queries!vars
  <2>4. RunsOK' BY <1>5 DEF QueriesInv, RunsOK, Queries!vars
  <2>5. ClientOK' BY <1>5 DEF QueriesInv, ClientOK, Queries!vars
  <2> QED BY <2>3, <2>4, <2>5 DEF QueriesInv
<1> QED BY <1>1, <1>2, <1>3, <1>4, <1>5 DEF Queries!Next

LEMMA QueriesAlways ==
    ASSUME Queries!QueriesAssumption PROVE Queries!Spec => []QueriesInv
BY QueriesInit, QueriesSteps, PTL DEF Queries!Spec

\* ServiceView::status, ServiceView::snapshot, Client::snapshot, Warframe::single_session:
\* a snapshot is of the session and the run that were asked for and was in time when the
\* service answered, a chosen session was the only one at some time of the call, and a
\* connection that failed has released its endpoint, whatever crashes between.
THEOREM RequestsRight ==
    ASSUME Queries!QueriesAssumption
    PROVE  Queries!Spec => [](/\ Queries!TypeOK
                              /\ Queries!SnapshotIsTheSessions
                              /\ Queries!SingleWasOnly
                              /\ Queries!FailedIsReleased)
<1>1. ASSUME QueriesInv PROVE Queries!TypeOK
  <2>1. \A c \in Calls : calls[c].phase \in Phases
    BY <1>1 DEF QueriesInv, CallsOK, CallOK
  <2> QED
    BY <1>1, <2>1, Zenon
       DEF QueriesInv, RunsOK, ClientOK, TopicStates, Phases, Queries!TypeOK
<1>2. ASSUME QueriesInv PROVE Queries!SnapshotIsTheSessions
  BY <1>2 DEF QueriesInv, CallsOK, CallOK, Queries!SnapshotIsTheSessions
<1>3. ASSUME QueriesInv PROVE Queries!SingleWasOnly
  BY <1>3 DEF QueriesInv, CallsOK, CallOK, Queries!SingleWasOnly
<1>4. ASSUME QueriesInv PROVE Queries!FailedIsReleased
  BY <1>4 DEF QueriesInv, ClientOK, Queries!FailedIsReleased
<1> QED BY <1>1, <1>2, <1>3, <1>4, QueriesAlways, PTL

\* Client::request, Client::close: once close has returned no request of any clone
\* succeeds, the ones under way included.
THEOREM ClosedClientIsSilent ==
    ASSUME Queries!QueriesAssumption
    PROVE  Queries!Spec => [][Queries!NothingAfterClose]_Queries!vars
<1>1. ASSUME QueriesInv, Queries!Next PROVE Queries!NothingAfterClose
  <2> SUFFICES ASSUME NEW c \in Calls, client.shut, calls'[c].phase = "returned",
                      calls[c].phase # "returned"
               PROVE  calls'[c].answer.is = "error"
    BY DEF Queries!NothingAfterClose
  <2>1. client.closed BY <1>1 DEF QueriesInv, ClientOK
  <2>2. CallsOK /\ CallOK(calls[c], only[c]) BY <1>1 DEF QueriesInv, CallsOK
  <2>3. ASSUME NEW d \in Calls, NEW x, calls' = [calls EXCEPT ![d] = x]
        PROVE  d = c /\ calls'[c] = x
    BY <2>2, <2>3 DEF CallsOK
  <2>4. ASSUME NEW d \in Calls, NEW p, NEW a, calls' = Assigned(d, p, a)
        PROVE  d = c /\ p = "returned" /\ calls'[c].answer = a
    <3>1. d = c /\ calls'[c] = Answered(d, p, a) BY <2>2, <2>3, <2>4, TwoFields
    <3> QED BY <3>1 DEF Answered
  <2>5. calls' # calls OBVIOUS
  <2>6. PICK d \in Calls : \/ Queries!Request(d) \/ Queries!ConnectLocal(d)
                           \/ Queries!Connect(d, Queries!Anywhere)
                           \/ Queries!AskSingle(d) \/ Queries!AskCached(d)
                           \/ Queries!Cancel(d)
    <3>1. ~Queries!World
      BY <2>5 DEF Queries!World, Queries!Observe, Queries!DeadlinePasses, Queries!Publish,
           Queries!Sample, Queries!Crash, Queries!Start, Queries!Register
    <3>2. ~(Queries!Close \/ Queries!EndpointCloses \/ Queries!Drop)
      BY <2>5 DEF Queries!Close, Queries!EndpointCloses, Queries!Drop
    <3> QED BY <1>1, <3>1, <3>2 DEF Queries!Next, Queries!Application
  <2>7. ~\E kind, ref : Queries!Send(d, kind, ref)
    <3> SUFFICES ASSUME NEW kind, NEW ref, Queries!Send(d, kind, ref) PROVE FALSE OBVIOUS
    <3>1. calls' = [calls EXCEPT ![d] = [kind |-> kind, phase |-> "sent", ref |-> ref,
                                         answer |-> [is |-> "none"]]]
      BY DEF Queries!Send
    <3> QED BY <2>3, <3>1
  <2>8. ~(Queries!Take(d) \/ Queries!Cancel(d))
    <3> SUFFICES ASSUME calls' = [calls EXCEPT ![d] = Queries!NoCall] PROVE FALSE
      BY DEF Queries!Take, Queries!Cancel
    <3> QED BY <2>3 DEF Queries!NoCall
  <2>9. Queries!Request(d) /\ ~Queries!Take(d)
    BY <2>6, <2>7, <2>8 DEF Queries!ConnectLocal, Queries!Connect, Queries!AskSingle,
         Queries!AskCached
  <2>10. ~(Queries!Answer(d) \/ Queries!Lose(d) \/ Queries!Select(d))
    <3>1. ASSUME Queries!Answer(d) PROVE \E a : calls' = Assigned(d, "answered", a)
      BY <3>1 DEF Queries!Answer, Assigned
    <3>2. ASSUME Queries!Lose(d) PROVE \E a : calls' = Assigned(d, "answered", a)
      BY <3>2 DEF Queries!Lose, Assigned
    <3>3. ASSUME Queries!Select(d) PROVE \E a : calls' = Assigned(d, "selected", a)
      BY <3>3 DEF Queries!Select, Assigned
    <3> QED BY <2>4, <3>1, <3>2, <3>3
  <2>11. CASE Queries!TimeOut(d)
    BY <2>1, <2>11 DEF Queries!TimeOut
  <2>12. CASE Queries!Finish(d)
    <3>1. /\ calls[d].phase = "selected"
          /\ calls' = Assigned(d, "returned", Queries!Interpret(d, Queries!Checked(d)))
      BY <2>12 DEF Queries!Finish, Queries!Return, Assigned
    <3>2. d = c /\ calls'[c].answer = Queries!Interpret(d, Queries!Checked(d))
      BY <2>4, <3>1
    <3> QED BY <2>1, <2>2, <3>1, <3>2, InterpretOK
  <2> QED BY <2>9, <2>10, <2>11, <2>12 DEF Queries!Request
<1> QED BY <1>1, QueriesAlways, PTL DEF Queries!Spec

-----------------------------------------------------------------------------
(* The watches over one listener, for every number of calls, addresses,     *)
(* values, states and cancellations.  The cache compares addresses, which   *)
(* is sound because what holds an address keeps it from being used again.   *)

CONSTANTS Mode, Executed, Values, Waiting, Unavailable, Bad, Absent,
          MaxAddress, MaxPublished, MaxCancels
VARIABLES topic, changed, events, closed, terminal, lock, watchCache, call, released, shut,
          published, occurred, returned, lost, cancels, watchEnded

Watch == INSTANCE Watch WITH cache <- watchCache, ended <- watchEnded

Arcs == [addr : Watch!Addresses, body : Watch!Bodies] \cup {Watch!NoArc}
Decodes(t) == IF t.body = Absent THEN Waiting ELSE t.body

Slot(at, for, gone, item, value, ok, floor) ==
    [at |-> at, for |-> for, gone |-> gone, item |-> item, value |-> value, ok |-> ok,
     floor |-> floor]
Item(kind, t, event) == [kind |-> kind, topic |-> t, event |-> event]

\* What a call in progress holds, by itself.
SlotOK(x) ==
    /\ x = Slot(x.at, x.for, x.gone, x.item, x.value, x.ok, x.floor)
    /\ x.item = Item(x.item.kind, x.item.topic, x.item.event)
    /\ x.at \in {"idle", "reading", "taken", "result", "done"}
    /\ x.item.kind \in {"none", "ended", "state", "event"}
    /\ x.item.topic \in Arcs /\ x.item.event \in Nat /\ x.floor \in Nat
    /\ x.item.kind # "event" => x.item.event = 0
    /\ x.at \in {"idle", "reading"} => x.item = Watch!NoObservation
    /\ x.for = "read" => Mode = "read"
    /\ x.at = "result" /\ x.item.kind = "state" => x.value = Decodes(x.item.topic)
    /\ x.item.kind = "event" => x.item.event > x.floor
    /\ x.at = "done" /\ x.ok => x.value \in Values
    /\ x.at \in {"idle", "reading", "taken"} => x.ok

\* And what that says of the listener.
Told == released \/ watchEnded = "read"
SlotTold(x) ==
    /\ x.at = "taken" /\ x.item.kind = "none" => Told
    /\ x.at = "result" /\ ~x.ok /\ x.for = "next" /\ x.item.kind \in {"state", "event"} => closed
    /\ x.at = "done" => closed

SlotsOK ==
    /\ call = [c \in Calls |-> call[c]]
    /\ \A c \in Calls : SlotOK(call[c]) /\ SlotTold(call[c])
    /\ lock \in {{}} \cup {{c} : c \in Calls}

\* The listener's end is told once, and then there is nothing.
EndOK ==
    /\ terminal => closed
    /\ Told => closed
    /\ closed /\ ~terminal => Told

\* An address stands for one Arc while anything holds it.
Agree(x, y) == x.addr = y.addr /\ x.addr # 0 => x.body = y.body
Held == {topic, watchCache} \cup {call[c].item.topic : c \in Calls}
ArcsOK ==
    /\ topic \in Arcs
    /\ watchCache \in [addr : Watch!Addresses, body : Values] \cup {Watch!NoArc}
    /\ \A x, y \in Held : Agree(x, y)

\* The queue is in order, behind every event that was taken from it.
Known == returned \cup {call[c].item.event : c \in Calls} \cup {call[c].floor : c \in Calls}
OrderOK ==
    /\ published \in Nat /\ events \in Seq(Nat \ {0})
    /\ \A i \in DOMAIN events : events[i] <= published
    /\ \A i, j \in DOMAIN events : i < j => events[i] < events[j]
    /\ returned \subseteq Nat
    /\ returned # {} => \E e \in returned : \A f \in returned : f <= e
    /\ \A e \in Known : e <= published /\ \A i \in DOMAIN events : e < events[i]

WatchInv == SlotsOK /\ EndOK /\ ArcsOK /\ OrderOK

\* The assignments the calls make, as the whole slot they leave behind.
SetAt(c, at) == [call EXCEPT ![c].at = at]
SetItem(c, at, item) == [call EXCEPT ![c].at = at, ![c].item = item]
SetKind(c, at, kind) == [call EXCEPT ![c].at = at, ![c].item.kind = kind]
SetValue(c, at, value, ok) == [call EXCEPT ![c].at = at, ![c].value = value, ![c].ok = ok]
SetOk(c, at, ok) == [call EXCEPT ![c].at = at, ![c].ok = ok]
SetFailed(c, at, ok, item) == [call EXCEPT ![c].at = at, ![c].ok = ok, ![c].item = item]
SetGone(c) == [call EXCEPT ![c].gone = TRUE]
Put(c, x) == [call EXCEPT ![c] = x]

LEMMA Puts ==
    ASSUME NEW c \in Calls, NEW x, NEW y, call = [d \in Calls |-> call[d]]
    PROVE  /\ Put(c, x)[c] = x
           /\ [Put(c, x) EXCEPT ![c] = y] = Put(c, y)
           /\ Put(c, x) = [d \in Calls |-> Put(c, x)[d]]
           /\ \A d \in Calls : d # c => Put(c, x)[d] = call[d]
BY DEF Put

\* One field of a slot that was put there is assigned.
AtIn(f, c, v) == [f EXCEPT ![c].at = v]
ItemIn(f, c, v) == [f EXCEPT ![c].item = v]
KindIn(f, c, v) == [f EXCEPT ![c].item.kind = v]
ValueIn(f, c, v) == [f EXCEPT ![c].value = v]
OkIn(f, c, v) == [f EXCEPT ![c].ok = v]
GoneIn(f, c, v) == [f EXCEPT ![c].gone = v]

LEMMA PutField ==
    ASSUME NEW c \in Calls, call = [d \in Calls |-> call[d]], NEW v,
           NEW at, NEW for, NEW gone, NEW kind, NEW t, NEW e, NEW value, NEW ok, NEW floor
    PROVE  LET i == Item(kind, t, e)
               f == Put(c, Slot(at, for, gone, i, value, ok, floor)) IN
           /\ AtIn(f, c, v) = Put(c, Slot(v, for, gone, i, value, ok, floor))
           /\ ItemIn(f, c, v) = Put(c, Slot(at, for, gone, v, value, ok, floor))
           /\ KindIn(f, c, v) = Put(c, Slot(at, for, gone, Item(v, t, e), value, ok, floor))
           /\ ValueIn(f, c, v) = Put(c, Slot(at, for, gone, i, v, ok, floor))
           /\ OkIn(f, c, v) = Put(c, Slot(at, for, gone, i, value, v, floor))
           /\ GoneIn(f, c, v) = Put(c, Slot(at, for, v, i, value, ok, floor))
<1> DEFINE i == Item(kind, t, e)
           x == Slot(at, for, gone, i, value, ok, floor)
           f == Put(c, x)
<1>1. f[c] = x /\ \A y : [f EXCEPT ![c] = y] = Put(c, y)
  <2> HIDE DEF x
  <2> QED BY Puts
<1>2. /\ AtIn(f, c, v) = [f EXCEPT ![c] = [f[c] EXCEPT !.at = v]]
      /\ ItemIn(f, c, v) = [f EXCEPT ![c] = [f[c] EXCEPT !.item = v]]
      /\ KindIn(f, c, v) = [f EXCEPT ![c] = [f[c] EXCEPT !.item.kind = v]]
      /\ ValueIn(f, c, v) = [f EXCEPT ![c] = [f[c] EXCEPT !.value = v]]
      /\ OkIn(f, c, v) = [f EXCEPT ![c] = [f[c] EXCEPT !.ok = v]]
      /\ GoneIn(f, c, v) = [f EXCEPT ![c] = [f[c] EXCEPT !.gone = v]]
  BY DEF AtIn, ItemIn, KindIn, ValueIn, OkIn, GoneIn
<1>3. /\ [x EXCEPT !.at = v] = Slot(v, for, gone, i, value, ok, floor)
      /\ [x EXCEPT !.item = v] = Slot(at, for, gone, v, value, ok, floor)
      /\ [x EXCEPT !.value = v] = Slot(at, for, gone, i, v, ok, floor)
      /\ [x EXCEPT !.ok = v] = Slot(at, for, gone, i, value, v, floor)
      /\ [x EXCEPT !.gone = v] = Slot(at, for, v, i, value, ok, floor)
  BY DEF Slot
<1>4. [x EXCEPT !.item.kind = v] = Slot(at, for, gone, Item(v, t, e), value, ok, floor)
  <2>1. [i EXCEPT !.kind = v] = Item(v, t, e) BY DEF Item
  <2>2. [x EXCEPT !.item.kind = v]
          = Slot(at, for, gone, [i EXCEPT !.kind = v], value, ok, floor)
    BY DEF Slot
  <2> QED BY <2>1, <2>2
<1> HIDE DEF x, f
<1>5. /\ AtIn(f, c, v) = Put(c, [x EXCEPT !.at = v])
      /\ ItemIn(f, c, v) = Put(c, [x EXCEPT !.item = v])
      /\ KindIn(f, c, v) = Put(c, [x EXCEPT !.item.kind = v])
      /\ ValueIn(f, c, v) = Put(c, [x EXCEPT !.value = v])
      /\ OkIn(f, c, v) = Put(c, [x EXCEPT !.ok = v])
      /\ GoneIn(f, c, v) = Put(c, [x EXCEPT !.gone = v])
  BY <1>1, <1>2
<1> QED BY <1>3, <1>4, <1>5 DEF x, f

LEMMA Assignments ==
    ASSUME SlotsOK, NEW c \in Calls
    PROVE  LET x == call[c] IN
           /\ \A at : SetAt(c, at)
                = Put(c, Slot(at, x.for, x.gone, x.item, x.value, x.ok, x.floor))
           /\ \A at, item : SetItem(c, at, item)
                = Put(c, Slot(at, x.for, x.gone, item, x.value, x.ok, x.floor))
           /\ \A at, kind : SetKind(c, at, kind)
                = Put(c, Slot(at, x.for, x.gone, Item(kind, x.item.topic, x.item.event),
                              x.value, x.ok, x.floor))
           /\ \A at, value, ok : SetValue(c, at, value, ok)
                = Put(c, Slot(at, x.for, x.gone, x.item, value, ok, x.floor))
           /\ \A at, ok : SetOk(c, at, ok)
                = Put(c, Slot(at, x.for, x.gone, x.item, x.value, ok, x.floor))
           /\ \A at, ok, item : SetFailed(c, at, ok, item)
                = Put(c, Slot(at, x.for, x.gone, item, x.value, ok, x.floor))
           /\ SetGone(c) = Put(c, Slot(x.at, x.for, TRUE, x.item, x.value, x.ok, x.floor))
<1>1. ASSUME NEW at, NEW item, NEW kind, NEW value, NEW ok
      PROVE  LET x == call[c] IN
             /\ SetAt(c, at) = Put(c, Slot(at, x.for, x.gone, x.item, x.value, x.ok, x.floor))
             /\ SetItem(c, at, item)
                  = Put(c, Slot(at, x.for, x.gone, item, x.value, x.ok, x.floor))
             /\ SetKind(c, at, kind)
                  = Put(c, Slot(at, x.for, x.gone, Item(kind, x.item.topic, x.item.event),
                                x.value, x.ok, x.floor))
             /\ SetValue(c, at, value, ok)
                  = Put(c, Slot(at, x.for, x.gone, x.item, value, ok, x.floor))
             /\ SetOk(c, at, ok)
                  = Put(c, Slot(at, x.for, x.gone, x.item, x.value, ok, x.floor))
             /\ SetFailed(c, at, ok, item)
                  = Put(c, Slot(at, x.for, x.gone, item, x.value, ok, x.floor))
             /\ SetGone(c) = Put(c, Slot(x.at, x.for, TRUE, x.item, x.value, x.ok, x.floor))
  <2> DEFINE x == call[c]
             i == Item(x.item.kind, x.item.topic, x.item.event)
             At == Slot(at, x.for, x.gone, i, x.value, x.ok, x.floor)
  <2>1. call = [d \in Calls |-> call[d]] BY DEF SlotsOK
  <2>2. x.item = i /\ x = Slot(x.at, x.for, x.gone, i, x.value, x.ok, x.floor)
    BY Zenon DEF SlotsOK, SlotOK
  <2>3. call = Put(c, x) BY <2>1 DEF Put
  <2>4. call = Put(c, Slot(x.at, x.for, x.gone, i, x.value, x.ok, x.floor)) BY <2>2, <2>3, Zenon
  <2>5. /\ SetAt(c, at) = AtIn(call, c, at)
        /\ SetItem(c, at, item) = ItemIn(AtIn(call, c, at), c, item)
        /\ SetKind(c, at, kind) = KindIn(AtIn(call, c, at), c, kind)
        /\ SetValue(c, at, value, ok) = OkIn(ValueIn(AtIn(call, c, at), c, value), c, ok)
        /\ SetOk(c, at, ok) = OkIn(AtIn(call, c, at), c, ok)
        /\ SetFailed(c, at, ok, item) = ItemIn(OkIn(AtIn(call, c, at), c, ok), c, item)
        /\ SetGone(c) = GoneIn(call, c, TRUE)
    BY DEF SetAt, SetItem, SetKind, SetValue, SetOk, SetFailed, SetGone,
           AtIn, ItemIn, KindIn, ValueIn, OkIn, GoneIn
  <2>6. AtIn(call, c, at) = Put(c, At) BY <2>1, <2>4, PutField
  <2>7. ItemIn(Put(c, At), c, item)
          = Put(c, Slot(at, x.for, x.gone, item, x.value, x.ok, x.floor))
    BY <2>1, PutField
  <2>8. KindIn(Put(c, At), c, kind)
          = Put(c, Slot(at, x.for, x.gone, Item(kind, x.item.topic, x.item.event),
                        x.value, x.ok, x.floor))
    BY <2>1, PutField
  <2>9. OkIn(ValueIn(Put(c, At), c, value), c, ok)
          = Put(c, Slot(at, x.for, x.gone, i, value, ok, x.floor))
    BY <2>1, PutField
  <2>10. OkIn(Put(c, At), c, ok) = Put(c, Slot(at, x.for, x.gone, i, x.value, ok, x.floor))
    BY <2>1, PutField
  <2>11. ItemIn(Put(c, Slot(at, x.for, x.gone, i, x.value, ok, x.floor)), c, item)
           = Put(c, Slot(at, x.for, x.gone, item, x.value, ok, x.floor))
    BY <2>1, PutField
  <2>12. GoneIn(call, c, TRUE) = Put(c, Slot(x.at, x.for, TRUE, i, x.value, x.ok, x.floor))
    <3> DEFINE yes == TRUE
    <3> HIDE DEF yes
    <3>1. GoneIn(Put(c, Slot(x.at, x.for, x.gone, i, x.value, x.ok, x.floor)), c, yes)
            = Put(c, Slot(x.at, x.for, yes, i, x.value, x.ok, x.floor))
      BY <2>1, PutField
    <3> QED BY <2>4, <3>1, Zenon DEF yes
  <2> HIDE DEF i
  <2> QED BY <2>2, <2>4, <2>5, <2>6, <2>7, <2>8, <2>9, <2>10, <2>11, <2>12
<1> QED BY <1>1, Zenon

LEMMA NoCallOK ==
    ASSUME Watch!WatchAssumption
    PROVE  /\ Watch!NoObservation = Item("none", Watch!NoArc, 0)
           /\ Watch!NoCall = Slot("idle", "next", FALSE, Watch!NoObservation, Absent, TRUE, 0)
           /\ SlotOK(Watch!NoCall) /\ SlotTold(Watch!NoCall) /\ SlotTold(Watch!NoCall)'
           /\ Watch!NoCall.item.topic = Watch!NoArc
           /\ Watch!NoCall.item.event = 0 /\ Watch!NoCall.floor = 0
<1> DEFINE n == Watch!NoCall
<1>1. Watch!NoObservation = Item("none", Watch!NoArc, 0) BY DEF Watch!NoObservation, Item
<1>2. n = Slot("idle", "next", FALSE, Watch!NoObservation, Absent, TRUE, 0)
  BY DEF Watch!NoCall, Slot
<1>3. /\ n.at = "idle" /\ n.for = "next" /\ n.item = Watch!NoObservation
      /\ n.value = Absent /\ n.floor = 0
      /\ n.gone = FALSE /\ n.ok = TRUE
  BY DEF Watch!NoCall
<1>4. n = Slot(n.at, n.for, n.gone, n.item, n.value, n.ok, n.floor) BY <1>2, <1>3, Zenon
<1>5. /\ n.item.kind = "none" /\ n.item.topic = Watch!NoArc /\ n.item.event = 0
      /\ n.item = Item(n.item.kind, n.item.topic, n.item.event)
  BY <1>1, <1>3 DEF Item
<1> HIDE DEF n
<1>6. SlotOK(n) BY <1>3, <1>4, <1>5 DEF SlotOK, Arcs
<1>7. SlotTold(n) /\ SlotTold(n)' BY <1>3 DEF SlotTold
<1> QED BY <1>1, <1>2, <1>3, <1>5, <1>6, <1>7 DEF n

LEMMA OneSlot ==
    ASSUME WatchInv, NEW c \in Calls, NEW x, call' = Put(c, x), SlotOK(x), SlotTold(x)',
           lock' \in {{}} \cup {{d} : d \in Calls}, Told => Told', closed => closed'
    PROVE  SlotsOK'
<1>1. /\ call' = [d \in Calls |-> call'[d]] /\ call'[c] = x
      /\ \A d \in Calls : d # c => call'[d] = call[d]
  BY Puts DEF WatchInv, SlotsOK
<1>2. ASSUME NEW d \in Calls PROVE SlotOK(call'[d]) /\ SlotTold(call[d])'
  <2>1. CASE d = c
    <3>1. SlotOK(call'[d]) BY <1>1, <2>1
    <3>2. SlotTold(call[d])' BY <1>1, <2>1 DEF SlotTold
    <3> QED BY <3>1, <3>2
  <2>2. CASE d # c
    <3>1. SlotOK(call[d]) /\ SlotTold(call[d]) BY DEF WatchInv, SlotsOK
    <3>2. SlotOK(call'[d]) BY <1>1, <2>2, <3>1
    <3>3. SlotTold(call[d])' BY <1>1, <2>2, <3>1 DEF SlotTold
    <3> QED BY <3>2, <3>3
  <2> QED BY <2>1, <2>2
<1> QED BY <1>1, <1>2 DEF SlotsOK, SlotOK

LEMMA HeldKept ==
    ASSUME WatchInv, Held' \subseteq Held \cup {Watch!NoArc}, topic' = topic,
           watchCache' \in [addr : Watch!Addresses, body : Values] \cup {Watch!NoArc}
    PROVE  ArcsOK'
<1>1. Watch!NoArc.addr = 0 BY DEF Watch!NoArc
<1>2. \A y, z \in Held \cup {Watch!NoArc} : Agree(y, z)
  BY <1>1 DEF WatchInv, ArcsOK, Agree
<1>3. \A y, z \in Held' : Agree(y, z) BY <1>2
<1>4. topic' \in Arcs BY DEF WatchInv, ArcsOK
<1> QED BY <1>3, <1>4 DEF ArcsOK, Arcs, Agree

LEMMA OneHeld ==
    ASSUME WatchInv, NEW c \in Calls, NEW x, call' = Put(c, x),
           x.item.topic \in Held \cup {Watch!NoArc},
           topic' = topic, watchCache' \in Held \cup {Watch!NoArc},
           watchCache' \in [addr : Watch!Addresses, body : Values] \cup {Watch!NoArc}
    PROVE  ArcsOK'
<1>1. call'[c] = x /\ \A d \in Calls : d # c => call'[d] = call[d]
  BY Puts DEF WatchInv, SlotsOK
<1>2. Held' \subseteq Held \cup {Watch!NoArc} BY <1>1 DEF Held
<1> QED BY <1>2, HeldKept

LEMMA KnownKept ==
    ASSUME WatchInv, Known' \subseteq Known \cup {0}, events' \in {events, <<>>},
           UNCHANGED <<published, returned>>
    PROVE  OrderOK'
<1>1. events' \in Seq(Nat \ {0}) /\ DOMAIN events' \subseteq DOMAIN events
      /\ \A i \in DOMAIN events' : events'[i] = events[i]
  <2>1. events \in Seq(Nat \ {0}) BY DEF WatchInv, OrderOK
  <2>2. <<>> \in Seq(Nat \ {0}) /\ DOMAIN <<>> = {} OBVIOUS
  <2> QED BY <2>1, <2>2
<1>2. \A i \in DOMAIN events' : 0 < events'[i] BY <1>1
<1>3. \A e \in Known' : e <= published /\ \A i \in DOMAIN events' : e < events'[i]
  BY <1>1, <1>2 DEF WatchInv, OrderOK
<1> QED BY <1>1, <1>3 DEF WatchInv, OrderOK

LEMMA OneKnown ==
    ASSUME WatchInv, NEW c \in Calls, NEW x, call' = Put(c, x),
           x.item.event \in Known \cup {0}, x.floor \in Known \cup {0},
           events' \in {events, <<>>}, UNCHANGED <<published, returned>>
    PROVE  OrderOK'
<1>1. call'[c] = x /\ \A d \in Calls : d # c => call'[d] = call[d]
  BY Puts DEF WatchInv, SlotsOK
<1>2. Known' \subseteq Known \cup {0} BY <1>1 DEF Known
<1> QED BY <1>2, KnownKept

LEMMA SameSlots ==
    ASSUME WatchInv, call' = call, lock' \in {{}} \cup {{d} : d \in Calls},
           Told => Told', closed => closed'
    PROVE  SlotsOK'
<1>1. ASSUME NEW d \in Calls PROVE SlotOK(call'[d]) /\ SlotTold(call[d])'
  <2>1. SlotOK(call[d]) /\ SlotTold(call[d]) BY DEF WatchInv, SlotsOK
  <2>2. SlotTold(call[d])' BY <2>1 DEF SlotTold
  <2> QED BY <2>1, <2>2
<1> QED BY <1>1 DEF WatchInv, SlotsOK, SlotOK

LEMMA WatchInit ==
    ASSUME Watch!WatchAssumption, Watch!Init
    PROVE  WatchInv
<1>1. \A c \in Calls : call[c] = Watch!NoCall BY DEF Watch!Init
<1>2. SlotsOK
  <2>1. \A c \in Calls : SlotOK(call[c]) /\ SlotTold(call[c])
    BY <1>1, NoCallOK, Zenon
  <2> QED BY <2>1 DEF Watch!Init, SlotsOK
<1>3. EndOK BY DEF Watch!Init, EndOK, Told
<1>4. ArcsOK
  <2>1. Held \subseteq {topic, Watch!NoArc} BY <1>1, NoCallOK DEF Held, Watch!Init
  <2>2. topic \in [addr : {1}, body : {Waiting, Unavailable}] \cup {Watch!NoArc}
    BY DEF Watch!Init
  <2>3. topic \in Arcs
    BY <2>2 DEF Arcs, Watch!Bodies, Watch!Addresses, Watch!WatchAssumption
  <2> QED BY <2>1, <2>3 DEF ArcsOK, Agree, Watch!Init, Watch!NoArc
<1>5. OrderOK
  <2>1. Known \subseteq {0} BY <1>1, NoCallOK DEF Known, Watch!Init
  <2> QED BY <2>1 DEF OrderOK, Watch!Init
<1> QED BY <1>2, <1>3, <1>4, <1>5 DEF WatchInv

\* The feed publishes, tells an event, and ends.
LEMMA FeedInv ==
    ASSUME Watch!WatchAssumption, WatchInv, Watch!Feed
    PROVE  WatchInv'
<1>1. CASE Watch!Publish
  <2>1. PICK a \in Watch!Addresses \ Watch!Live, b \in Watch!Bodies \ {Absent} :
            topic' = [addr |-> a, body |-> b]
    BY <1>1 DEF Watch!Publish
  <2>2. UNCHANGED <<events, closed, terminal, lock, watchCache, call, released, returned,
                    watchEnded>> /\ published' = published + 1
    BY <1>1 DEF Watch!Publish
  <2>3. SlotsOK' BY <2>2, SameSlots DEF WatchInv, SlotsOK, Told
  <2>4. EndOK' BY <2>2 DEF WatchInv, EndOK, Told
  <2>5. ArcsOK'
    <3>1. topic' \in Arcs BY <2>1 DEF Arcs
    <3>2. topic'.addr = a BY <2>1
    <3>3. \A y \in Held : y.addr # a
      BY <2>1 DEF Watch!Live, Held
    <3>4. Held' \subseteq Held \cup {topic'} BY <2>2 DEF Held
    <3>5. \A y, z \in Held' : Agree(y, z)
      BY <3>2, <3>3, <3>4 DEF WatchInv, ArcsOK, Agree
    <3> QED BY <2>2, <3>1, <3>5 DEF WatchInv, ArcsOK, Arcs, Agree
  <2>6. OrderOK'
    <3>1. Known' = Known BY <2>2 DEF Known
    <3>2. returned \subseteq Known BY DEF Known
    <3>3. Known \subseteq Nat
      BY DEF Known, WatchInv, OrderOK, SlotsOK, SlotOK
    <3> QED BY <2>2, <3>1, <3>3 DEF WatchInv, OrderOK
  <2> QED BY <2>3, <2>4, <2>5, <2>6 DEF WatchInv
<1>2. CASE Watch!Occur
  <2>1. UNCHANGED <<topic, closed, terminal, lock, watchCache, call, released, returned,
                    watchEnded>> /\ published' = published + 1
        /\ events' = Append(events, published + 1)
    BY <1>2 DEF Watch!Occur
  <2>2. SlotsOK' BY <2>1, SameSlots DEF WatchInv, SlotsOK, Told
  <2>3. EndOK' BY <2>1 DEF WatchInv, EndOK, Told
  <2>4. ArcsOK'
    <3>1. Held' = Held BY <2>1 DEF Held
    <3> QED BY <2>1, <3>1, HeldKept DEF WatchInv, ArcsOK
  <2>5. OrderOK'
    <3>1. Known' = Known BY <2>1 DEF Known
    <3>2. Known \subseteq Nat
      BY DEF Known, WatchInv, OrderOK, SlotsOK, SlotOK
    <3>3. /\ events' \in Seq(Nat \ {0}) /\ Len(events') = Len(events) + 1
          /\ DOMAIN events' = 1..Len(events) + 1 /\ DOMAIN events = 1..Len(events)
          /\ \A i \in DOMAIN events : events'[i] = events[i]
          /\ events'[Len(events) + 1] = published + 1
      BY <2>1 DEF WatchInv, OrderOK
    <3>4. \A i \in DOMAIN events' : events'[i] <= published'
      BY <2>1, <3>3 DEF WatchInv, OrderOK
    <3>5. \A i, j \in DOMAIN events' : i < j => events'[i] < events'[j]
      <4> SUFFICES ASSUME NEW i \in DOMAIN events', NEW j \in DOMAIN events', i < j
                   PROVE  events'[i] < events'[j]
        OBVIOUS
      <4>1. i \in DOMAIN events BY <3>3
      <4>2. CASE j \in DOMAIN events BY <3>3, <4>1, <4>2 DEF WatchInv, OrderOK
      <4>3. CASE j = Len(events) + 1 BY <3>3, <4>1, <4>3 DEF WatchInv, OrderOK
      <4> QED BY <3>3, <4>2, <4>3
    <3>6. \A e \in Known' : e <= published' /\ \A i \in DOMAIN events' : e < events'[i]
      BY <2>1, <3>1, <3>2, <3>3 DEF WatchInv, OrderOK
    <3> QED BY <2>1, <3>3, <3>4, <3>5, <3>6 DEF WatchInv, OrderOK
  <2> QED BY <2>2, <2>3, <2>4, <2>5 DEF WatchInv
<1>3. CASE Watch!EndUpstream
  <2>1. /\ UNCHANGED <<topic, lock, watchCache, call, released, published, returned>>
        /\ ~closed /\ closed' = TRUE /\ terminal' = TRUE /\ events' = <<>>
        /\ ~Told
    BY <1>3 DEF Watch!EndUpstream, WatchInv, EndOK
  <2>2. SlotsOK' BY <2>1, SameSlots DEF WatchInv, SlotsOK
  <2>3. EndOK' BY <2>1 DEF EndOK
  <2>4. ArcsOK'
    <3>1. Held' = Held BY <2>1 DEF Held
    <3> QED BY <2>1, <3>1, HeldKept DEF WatchInv, ArcsOK
  <2>5. Known' = Known BY <2>1 DEF Known
  <2>6. OrderOK' BY <2>1, <2>5, KnownKept
  <2> QED BY <2>2, <2>3, <2>4, <2>6 DEF WatchInv
<1> QED BY <1>1, <1>2, <1>3 DEF Watch!Feed

\* The watch is closed, and shut down.
LEMMA ShutInv ==
    ASSUME WatchInv, Watch!Close \/ Watch!Shutdown \/ Watch!Joined
    PROVE  WatchInv'
<1>1. UNCHANGED <<topic, lock, call, published, returned>>
  BY DEF Watch!Close, Watch!Shutdown, Watch!Joined, Watch!CloseListener, Watch!listener,
         Watch!history
<1>2. \/ /\ closed' = TRUE /\ terminal' = FALSE /\ events' = <<>> /\ released' = TRUE
         /\ watchCache' = Watch!NoArc
      \/ UNCHANGED <<closed, terminal, events, released, watchCache, watchEnded>>
  BY DEF Watch!Close, Watch!Shutdown, Watch!Joined, Watch!CloseListener, Watch!listener,
         Watch!history
<1>3. EndOK' /\ (Told => Told') /\ (closed => closed') /\ events' \in {events, <<>>}
  BY <1>2 DEF WatchInv, EndOK, Told
<1>4. SlotsOK' BY <1>1, <1>3, SameSlots DEF WatchInv, SlotsOK
<1>5. Held' \subseteq Held \cup {Watch!NoArc} BY <1>1, <1>2 DEF Held
<1>6. ArcsOK' BY <1>1, <1>2, <1>5, HeldKept DEF WatchInv, ArcsOK
<1>7. Known' = Known BY <1>1 DEF Known
<1>8. OrderOK' BY <1>1, <1>3, <1>7, KnownKept
<1> QED BY <1>3, <1>4, <1>6, <1>8 DEF WatchInv

LEMMA SlotIs ==
    ASSUME NEW at, NEW for, NEW gone, NEW kind, NEW t, NEW e, NEW value, NEW ok, NEW floor
    PROVE  LET x == Slot(at, for, gone, Item(kind, t, e), value, ok, floor) IN
           /\ x.at = at /\ x.for = for /\ x.gone = gone /\ x.item = Item(kind, t, e)
           /\ x.value = value /\ x.ok = ok /\ x.floor = floor
           /\ x.item.kind = kind /\ x.item.topic = t /\ x.item.event = e
           /\ x = Slot(x.at, x.for, x.gone, x.item, x.value, x.ok, x.floor)
           /\ x.item = Item(x.item.kind, x.item.topic, x.item.event)
BY DEF Slot, Item

\* A step of one call, which leaves the listener alone, closes it, or takes from it.
Listening ==
    /\ topic' = topic /\ published' = published
    /\ lock' \in {{}} \cup {{d} : d \in Calls}
    /\ \/ UNCHANGED <<closed, terminal, released, watchEnded>>
       \/ closed' = TRUE /\ terminal' = FALSE /\ released' = TRUE
       \/ /\ UNCHANGED <<closed, released>>
          /\ terminal /\ terminal' = FALSE /\ watchEnded' = "read"

LEMMA CallStep ==
    ASSUME WatchInv, Listening, NEW c \in Calls, NEW x, call' = Put(c, x),
           SlotOK(x), SlotTold(x)', x.item.topic \in Held \cup {Watch!NoArc},
           watchCache' \in Held \cup {Watch!NoArc},
           watchCache' \in [addr : Watch!Addresses, body : Values] \cup {Watch!NoArc},
           OrderOK'
    PROVE  WatchInv'
<1>1. EndOK' /\ (Told => Told') /\ (closed => closed')
  BY DEF Listening, WatchInv, EndOK, Told
<1>2. SlotsOK' BY <1>1, OneSlot DEF Listening
<1>3. ArcsOK' BY OneHeld DEF Listening
<1> QED BY <1>1, <1>2, <1>3 DEF WatchInv

\* The fields a call starts with, and those of an item that is taken.
WithFloor(x, u, v) == [x EXCEPT !.at = u, !.floor = v]
WithOk(x, u, v) == [x EXCEPT !.at = u, !.ok = v]
WithFor(x, u, v) == [x EXCEPT !.at = u, !.for = v]
WithItem(x, u, v, w) == [x EXCEPT !.at = u, !.for = v, !.item = w]
WithTopic(x, u, v) == [x EXCEPT !.kind = u, !.topic = v]
WithEvent(x, u, v) == [x EXCEPT !.kind = u, !.event = v]

LEMMA SlotFields ==
    ASSUME NEW at, NEW for, NEW gone, NEW item, NEW value, NEW ok, NEW floor, NEW u, NEW v, NEW w
    PROVE  LET x == Slot(at, for, gone, item, value, ok, floor) IN
           /\ WithFloor(x, u, v) = Slot(u, for, gone, item, value, ok, v)
           /\ WithOk(x, u, v) = Slot(u, for, gone, item, value, v, floor)
           /\ WithFor(x, u, v) = Slot(u, v, gone, item, value, ok, floor)
           /\ WithItem(x, u, v, w) = Slot(u, v, gone, w, value, ok, floor)
<1> DEFINE x == Slot(at, for, gone, item, value, ok, floor)
           y == Slot(u, for, gone, item, value, ok, floor)
           z == Slot(u, v, gone, item, value, ok, floor)
<1>1. [x EXCEPT !.at = u] = y BY DEF Slot
<1>2. [y EXCEPT !.floor = v] = Slot(u, for, gone, item, value, ok, v) BY DEF Slot
<1>3. [y EXCEPT !.ok = v] = Slot(u, for, gone, item, value, v, floor) BY DEF Slot
<1>4. [y EXCEPT !.for = v] = z BY DEF Slot
<1>5. [z EXCEPT !.item = w] = Slot(u, v, gone, w, value, ok, floor) BY DEF Slot
<1> HIDE DEF x, y, z
<1>6. /\ [x EXCEPT !.at = u, !.floor = v] = [[x EXCEPT !.at = u] EXCEPT !.floor = v]
      /\ [x EXCEPT !.at = u, !.ok = v] = [[x EXCEPT !.at = u] EXCEPT !.ok = v]
      /\ [x EXCEPT !.at = u, !.for = v] = [[x EXCEPT !.at = u] EXCEPT !.for = v]
      /\ [x EXCEPT !.at = u, !.for = v, !.item = w]
           = [[[x EXCEPT !.at = u] EXCEPT !.for = v] EXCEPT !.item = w]
  OBVIOUS
<1>7. /\ [x EXCEPT !.at = u, !.floor = v] = [y EXCEPT !.floor = v]
      /\ [x EXCEPT !.at = u, !.ok = v] = [y EXCEPT !.ok = v]
      /\ [x EXCEPT !.at = u, !.for = v] = [y EXCEPT !.for = v]
      /\ [x EXCEPT !.at = u, !.for = v, !.item = w]
           = [[y EXCEPT !.for = v] EXCEPT !.item = w]
  BY <1>1, <1>6
<1>8. [x EXCEPT !.at = u, !.for = v, !.item = w] = [z EXCEPT !.item = w]
  BY <1>4, <1>7
<1> QED BY <1>2, <1>3, <1>4, <1>5, <1>7, <1>8 DEF x, z, WithFloor, WithOk, WithFor, WithItem

LEMMA ItemFields ==
    ASSUME NEW kind, NEW t, NEW e, NEW u, NEW v
    PROVE  /\ WithTopic(Item(kind, t, e), u, v) = Item(u, v, e)
           /\ WithEvent(Item(kind, t, e), u, v) = Item(u, t, v)
<1> DEFINE x == Item(kind, t, e)
           y == Item(u, t, e)
<1>1. [x EXCEPT !.kind = u] = y BY DEF Item
<1>2. [y EXCEPT !.topic = v] = Item(u, v, e) BY DEF Item
<1>3. [y EXCEPT !.event = v] = Item(u, t, v) BY DEF Item
<1> HIDE DEF x, y
<1>4. /\ [x EXCEPT !.kind = u, !.topic = v] = [[x EXCEPT !.kind = u] EXCEPT !.topic = v]
      /\ [x EXCEPT !.kind = u, !.event = v] = [[x EXCEPT !.kind = u] EXCEPT !.event = v]
  OBVIOUS
<1> QED BY <1>1, <1>2, <1>3, <1>4 DEF x, WithTopic, WithEvent

\* A call begins.
LEMMA BeginInv ==
    ASSUME Watch!WatchAssumption, WatchInv, NEW c \in Calls,
           Watch!BeginNext(c) \/ Watch!BeginCurrent(c) \/ Watch!BeginRead(c)
    PROVE  WatchInv'
<1> DEFINE yes == TRUE
           no == FALSE
           Fresh(at, for, item, ok, floor) == Slot(at, for, no, item, Absent, ok, floor)
           none == Item("none", Watch!NoArc, 0)
<1>1. /\ UNCHANGED <<topic, closed, terminal, released, watchEnded, published, returned,
                     events, watchCache>>
      /\ lock' \in {lock, {c}}
  BY DEF Watch!BeginNext, Watch!BeginCurrent, Watch!BeginRead, Watch!listener, Watch!history
<1>2. Listening BY <1>1 DEF Listening, WatchInv, SlotsOK
<1>3. watchCache' \in Held
      /\ watchCache' \in [addr : Watch!Addresses, body : Values] \cup {Watch!NoArc}
  BY <1>1 DEF Held, WatchInv, ArcsOK
<1>4. ASSUME NEW u, NEW v, NEW w
      PROVE  /\ WithFloor(Watch!NoCall, u, v) = Fresh(u, "next", none, yes, v)
             /\ WithOk(Watch!NoCall, u, v) = Fresh(u, "next", none, v, 0)
             /\ WithFor(Watch!NoCall, u, v) = Fresh(u, v, none, yes, 0)
             /\ WithItem(Watch!NoCall, u, v, w) = Fresh(u, v, w, yes, 0)
  <2>1. Watch!NoCall = Fresh("idle", "next", none, yes, 0) BY NoCallOK, Zenon
  <2> HIDE DEF yes, no, none
  <2> QED BY <2>1, SlotFields
<1>5. ASSUME NEW at \in {"reading", "taken", "result"}, NEW for, NEW kind \in {"none", "state"},
             NEW t \in {topic, Watch!NoArc}, NEW ok, NEW floor \in returned \cup {0},
             call' = Put(c, Fresh(at, for, Item(kind, t, 0), ok, floor)),
             at = "result" \/ ok = yes, kind = "state" <=> at = "taken",
             at = "reading" => t = Watch!NoArc, for = "read" => Mode = "read"
      PROVE  WatchInv'
  <2> DEFINE x == Fresh(at, for, Item(kind, t, 0), ok, floor)
  <2>1. /\ x.at = at /\ x.for = for /\ x.ok = ok /\ x.floor = floor
        /\ x.item = Item(kind, t, 0)
        /\ x.item.kind = kind /\ x.item.topic = t /\ x.item.event = 0
        /\ x = Slot(x.at, x.for, x.gone, x.item, x.value, x.ok, x.floor)
        /\ x.item = Item(x.item.kind, x.item.topic, x.item.event)
    <3> HIDE DEF no
    <3> DEFINE y == Slot(at, for, no, Item(kind, t, 0), Absent, ok, floor)
    <3>1. x = y OBVIOUS
    <3>2. /\ y.at = at /\ y.for = for /\ y.ok = ok /\ y.floor = floor
          /\ y.item = Item(kind, t, 0)
          /\ y.item.kind = kind /\ y.item.topic = t /\ y.item.event = 0
          /\ y = Slot(y.at, y.for, y.gone, y.item, y.value, y.ok, y.floor)
          /\ y.item = Item(y.item.kind, y.item.topic, y.item.event)
      BY DEF Slot, Item
    <3> HIDE DEF x, y
    <3> QED BY <3>1, <3>2, Zenon
  <2> HIDE DEF x
  <2>2. t \in Arcs BY DEF WatchInv, ArcsOK, Arcs
  <2>3. floor \in Nat BY DEF WatchInv, OrderOK
  <2>4. x.at \in {"idle", "reading", "taken"} => x.ok
    BY <1>5, <2>1, Zenon
  <2>5. SlotOK(x)
    BY <1>5, <2>1, <2>2, <2>3, <2>4, NoCallOK DEF SlotOK
  <2>6. SlotTold(x)' BY <1>5, <2>1 DEF SlotTold
  <2>7. x.item.topic \in Held \cup {Watch!NoArc} BY <2>1 DEF Held
  <2>8. x.floor \in Known \cup {0} BY <2>1 DEF Known
  <2>9. OrderOK' BY <1>1, <1>5, <2>1, <2>8, OneKnown DEF x
  <2> QED BY <1>2, <1>3, <1>5, <2>5, <2>6, <2>7, <2>9, CallStep DEF x
<1>6. \A x : [call EXCEPT ![c] = x] = Put(c, x) BY DEF Put
<1>7. CASE Watch!BeginNext(c)
  <2> DEFINE F == IF returned = {} THEN 0
                  ELSE CHOOSE e \in returned : \A f \in returned : f <= e
  <2>1. F \in returned \cup {0} BY DEF WatchInv, OrderOK
  <2>2. /\ call' = [call EXCEPT ![c] = IF Watch!Lockable
                      THEN WithFloor(Watch!NoCall, "reading", F)
                      ELSE WithOk(Watch!NoCall, "result", no)]
    BY <1>7 DEF Watch!BeginNext, WithFloor, WithOk
  <2> HIDE DEF F, no
  <2>3. CASE Watch!Lockable
    <3>1. call' = Put(c, Fresh("reading", "next", none, yes, F))
      BY <1>4, <1>6, <2>2, <2>3, Zenon
    <3> HIDE DEF Fresh, yes
    <3> QED BY <1>5, <2>1, <3>1
  <2>4. CASE ~Watch!Lockable
    <3>1. call' = Put(c, Fresh("result", "next", none, no, 0))
      BY <1>4, <1>6, <2>2, <2>4, Zenon
    <3> HIDE DEF Fresh, yes
    <3> QED BY <1>5, <3>1
  <2> QED BY <2>3, <2>4
<1>8. CASE Watch!BeginCurrent(c)
  <2> DEFINE seen == WithTopic(Watch!NoObservation, "state", topic)
  <2>1. seen = Item("state", topic, 0)
    <3> HIDE DEF none
    <3> QED BY NoCallOK, ItemFields
  <2>2. call' = [call EXCEPT ![c] = WithItem(Watch!NoCall, "taken", "current", seen)]
    BY <1>8 DEF Watch!BeginCurrent, WithItem, WithTopic
  <2> HIDE DEF seen
  <2>3. call' = Put(c, Fresh("taken", "current", Item("state", topic, 0), yes, 0))
    BY <1>4, <1>6, <2>1, <2>2, Zenon
  <2> HIDE DEF Fresh, yes
  <2> QED BY <1>5, <2>3
<1>9. CASE Watch!BeginRead(c)
  <2>1. /\ Mode = "read"
        /\ call' = [call EXCEPT ![c] = WithFor(Watch!NoCall, "reading", "read")]
    BY <1>9 DEF Watch!BeginRead, WithFor
  <2>2. call' = Put(c, Fresh("reading", "read", none, yes, 0))
    BY <1>4, <1>6, <2>1, Zenon
  <2> HIDE DEF Fresh, yes
  <2> QED BY <1>5, <2>1, <2>2
<1> QED BY <1>7, <1>8, <1>9

\* The first of an ordered queue is before the rest of it.
LEMMA FirstEvent ==
    ASSUME OrderOK, events # <<>>
    PROVE  /\ Head(events) \in Nat \ {0} /\ Head(events) <= published
           /\ Tail(events) \in Seq(Nat \ {0})
           /\ \A i \in DOMAIN Tail(events) : /\ Head(events) < Tail(events)[i]
                                             /\ i + 1 \in DOMAIN events
                                             /\ Tail(events)[i] = events[i + 1]
           /\ \A e \in Known : e < Head(events)
<1>1. /\ events \in Seq(Nat \ {0}) /\ Len(events) \in Nat \ {0}
      /\ DOMAIN events = 1..Len(events)
      /\ Head(events) = events[1] /\ 1 \in DOMAIN events
      /\ Tail(events) \in Seq(Nat \ {0}) /\ Len(Tail(events)) = Len(events) - 1
  BY DEF OrderOK
<1>2. \A i \in DOMAIN Tail(events) : /\ i \in 1..(Len(events) - 1)
                                     /\ i + 1 \in DOMAIN events
                                     /\ Tail(events)[i] = events[i + 1]
  BY <1>1
<1>3. \A i \in DOMAIN Tail(events) : Head(events) < Tail(events)[i]
  BY <1>1, <1>2 DEF OrderOK
<1> QED BY <1>1, <1>2, <1>3 DEF OrderOK

\* Subscription::next takes what it finds.
LEMMA TakeInv ==
    ASSUME Watch!WatchAssumption, WatchInv, NEW c \in Calls, Watch!Take(c)
    PROVE  WatchInv'
<1> DEFINE s == call[c]
           New(item) == Slot("taken", s.for, s.gone, item, s.value, s.ok, s.floor)
<1>1. SlotsOK /\ SlotOK(s) /\ s.at = "reading" BY DEF WatchInv, SlotsOK, Watch!Take
<1>2. /\ UNCHANGED <<topic, closed, watchCache, released, published, returned>>
      /\ lock' = {}
  BY DEF Watch!Take
<1>3. /\ s.item = Watch!NoObservation /\ s.ok /\ s.floor \in Nat
      /\ s.for = "read" => Mode = "read"
  BY <1>1 DEF SlotOK
<1>4. s.item.kind = "none" /\ s.item.topic = Watch!NoArc /\ s.item.event = 0
  BY <1>3, NoCallOK DEF Item
<1>5. watchCache' \in Held
      /\ watchCache' \in [addr : Watch!Addresses, body : Values] \cup {Watch!NoArc}
  BY <1>2 DEF Held, WatchInv, ArcsOK
<1>6. s.floor \in Known BY DEF Known
<1>7. ASSUME NEW kind \in {"none", "ended", "state", "event"}, NEW t \in {topic, Watch!NoArc},
             NEW e \in Nat, call' = Put(c, New(Item(kind, t, e))),
             kind # "event" => e = 0, kind = "event" => e > s.floor, kind = "none" => Told',
             Listening, (events' \in {events, <<>>} /\ e = 0) \/ OrderOK'
      PROVE  WatchInv'
  <2> SUFFICES ASSUME NEW x, x = New(Item(kind, t, e)) PROVE WatchInv'
    OBVIOUS
  <2>1. /\ x.at = "taken" /\ x.for = s.for /\ x.ok = s.ok /\ x.floor = s.floor
        /\ x.item.kind = kind /\ x.item.topic = t /\ x.item.event = e
        /\ x = Slot(x.at, x.for, x.gone, x.item, x.value, x.ok, x.floor)
        /\ x.item = Item(x.item.kind, x.item.topic, x.item.event)
    BY DEF Slot, Item
  <2>2. t \in Arcs BY DEF WatchInv, ArcsOK, Arcs
  <2>3. x.at \in {"idle", "reading", "taken"} => x.ok BY <1>3, <2>1, Zenon
  <2>4. SlotOK(x) BY <1>3, <1>7, <2>1, <2>2, <2>3 DEF SlotOK
  <2>5. SlotTold(x)' BY <1>7, <2>1 DEF SlotTold
  <2>6. x.item.topic \in Held \cup {Watch!NoArc} BY <2>1 DEF Held
  <2>7. OrderOK' BY <1>2, <1>6, <1>7, <2>1, OneKnown
  <2> QED BY <1>5, <1>7, <2>4, <2>5, <2>6, <2>7, CallStep
<1>8. CASE Watch!TakeEnd(c)
  <2>1. /\ terminal /\ terminal' = FALSE /\ watchEnded' = "read" /\ events' = events
        /\ call' = SetKind(c, "taken", "ended")
    BY <1>8 DEF Watch!TakeEnd, SetKind
  <2>2. Listening BY <1>2, <2>1 DEF Listening
  <2>3. call' = Put(c, New(Item("ended", Watch!NoArc, 0)))
    <3>1. \A a, k : SetKind(c, a, k)
                      = Put(c, Slot(a, s.for, s.gone, Item(k, s.item.topic, s.item.event),
                                    s.value, s.ok, s.floor))
      BY <1>1, Assignments
    <3> QED BY <1>4, <2>1, <3>1, Zenon
  <2> HIDE DEF New
  <2> QED BY <1>7, <2>1, <2>2, <2>3
<1>9. CASE Watch!TakeNothing(c)
  <2>1. /\ ~terminal /\ closed
        /\ UNCHANGED <<terminal, events, watchEnded>>
        /\ call' = SetAt(c, "taken")
    BY <1>9 DEF Watch!TakeNothing, SetAt
  <2>2. Listening /\ Told'
    BY <1>2, <2>1 DEF Listening, Told, WatchInv, EndOK
  <2>3. s.item = Item("none", Watch!NoArc, 0) BY <1>3, NoCallOK
  <2>4. call' = Put(c, New(s.item)) BY <1>1, <2>1, Assignments
  <2>5. call' = Put(c, New(Item("none", Watch!NoArc, 0))) BY <2>3, <2>4, Zenon
  <2> HIDE DEF New
  <2> QED BY <1>7, <2>1, <2>2, <2>5
<1>10. CASE Watch!TakeState(c)
  <2>1. /\ UNCHANGED <<terminal, events, watchEnded>>
        /\ call' = SetItem(c, "taken", WithTopic(Watch!NoObservation, "state", topic))
    BY <1>10 DEF Watch!TakeState, SetItem, WithTopic
  <2>2. Listening BY <1>2, <2>1 DEF Listening
  <2>3. WithTopic(Watch!NoObservation, "state", topic) = Item("state", topic, 0)
    BY NoCallOK, ItemFields
  <2>4. call' = SetItem(c, "taken", Item("state", topic, 0)) BY <2>1, <2>3, Zenon
  <2>5. call' = Put(c, New(Item("state", topic, 0))) BY <1>1, <2>4, Assignments
  <2> HIDE DEF New
  <2> QED BY <1>7, <2>1, <2>2, <2>5
<1>11. CASE Watch!TakeEvent(c)
  <2> DEFINE e == Head(events)
  <2>1. /\ UNCHANGED <<terminal, watchEnded>>
        /\ events # <<>> /\ events' = Tail(events)
        /\ call' = SetItem(c, "taken", WithEvent(Watch!NoObservation, "event", e))
    BY <1>11 DEF Watch!TakeEvent, SetItem, WithEvent, Watch!NextEvent
  <2>2. Listening BY <1>2, <2>1 DEF Listening
  <2>3. WithEvent(Watch!NoObservation, "event", e) = Item("event", Watch!NoArc, e)
    <3> HIDE DEF e
    <3> QED BY NoCallOK, ItemFields
  <2>4. call' = SetItem(c, "taken", Item("event", Watch!NoArc, e)) BY <2>1, <2>3, Zenon
  <2>5. call' = Put(c, New(Item("event", Watch!NoArc, e))) BY <1>1, <2>4, Assignments
  <2>6. /\ e \in Nat \ {0} /\ e <= published /\ s.floor < e
        /\ Tail(events) \in Seq(Nat \ {0})
        /\ \A i \in DOMAIN Tail(events) : /\ e < Tail(events)[i] /\ i + 1 \in DOMAIN events
                                          /\ Tail(events)[i] = events[i + 1]
        /\ \A k \in Known : k < e
    BY <1>6, <2>1, FirstEvent DEF WatchInv
  <2> HIDE DEF e
  <2>7. OrderOK'
    <3> DEFINE x == New(Item("event", Watch!NoArc, e))
    <3>1. x.item.event = e /\ x.floor = s.floor BY DEF Slot, Item
    <3> HIDE DEF x
    <3>2. /\ call'[c] = x
          /\ \A d \in Calls : d # c => call'[d] = call[d]
      BY <1>1, <2>5, Puts DEF SlotsOK, x
    <3>3. Known' \subseteq Known \cup {e} BY <1>2, <1>6, <3>1, <3>2 DEF Known
    <3>4. \A i \in DOMAIN events' : e < events'[i] /\ events'[i] <= published
      BY <2>1, <2>6 DEF WatchInv, OrderOK
    <3>5. \A i, j \in DOMAIN events' : i < j => events'[i] < events'[j]
      <4> SUFFICES ASSUME NEW i \in DOMAIN events', NEW j \in DOMAIN events', i < j
                   PROVE  events'[i] < events'[j]
        OBVIOUS
      <4>1. i \in Nat /\ j \in Nat BY <2>1, <2>6
      <4> QED BY <2>1, <2>6, <4>1 DEF WatchInv, OrderOK
    <3>6. Known \subseteq Nat BY DEF Known, WatchInv, OrderOK, SlotsOK, SlotOK
    <3>7. \A k \in Known' : k <= published /\ \A i \in DOMAIN events' : k < events'[i]
      <4> SUFFICES ASSUME NEW k \in Known \cup {e}
                   PROVE  k <= published /\ \A i \in DOMAIN events' : k < events'[i]
        BY <3>3
      <4>1. k \in Nat /\ k <= e
        <5>1. CASE k = e BY <2>6, <5>1
        <5>2. CASE k \in Known
          <6>1. k \in Nat /\ k < e BY <2>6, <3>6, <5>2
          <6> QED BY <2>6, <6>1
        <5> QED BY <5>1, <5>2
      <4>2. \A i \in DOMAIN events' : events'[i] \in Nat BY <2>1, <2>6
      <4> QED BY <2>6, <3>4, <4>1, <4>2 DEF WatchInv, OrderOK
    <3> QED BY <1>2, <2>1, <2>6, <3>4, <3>5, <3>7 DEF WatchInv, OrderOK
  <2> HIDE DEF New
  <2> QED BY <1>7, <2>2, <2>5, <2>6, <2>7
<1> QED BY <1>8, <1>9, <1>10, <1>11 DEF Watch!Take

\* SnapshotWatch::decode, whether it finds the address in the cache or not.
LEMMA DecodedOK ==
    ASSUME Watch!WatchAssumption, WatchInv, NEW t \in Held, t \in Arcs
    PROVE  /\ Watch!Decoded(t) = Decodes(t)
           /\ Watch!Cached(t) \in Held \cup {Watch!NoArc}
           /\ Watch!Cached(t) \in [addr : Watch!Addresses, body : Values] \cup {Watch!NoArc}
<1>1. Absent \notin Values BY DEF Watch!WatchAssumption
<1>2. watchCache \in Held BY DEF Held
<1>3. /\ watchCache \in [addr : Watch!Addresses, body : Values] \cup {Watch!NoArc}
      /\ Agree(watchCache, t)
  BY <1>2 DEF WatchInv, ArcsOK
<1>4. Watch!NoArc.addr = 0 /\ Watch!NoArc.body = Absent BY DEF Watch!NoArc
<1>5. CASE Watch!Hit(t)
  <2>1. watchCache.addr = t.addr /\ t.addr # 0 BY <1>5 DEF Watch!Hit
  <2>2. watchCache.body = t.body /\ watchCache.body \in Values
    BY <1>3, <1>4, <2>1 DEF Agree
  <2>3. Watch!Decoded(t) = watchCache.body /\ Watch!Cached(t) = watchCache
    BY <1>5 DEF Watch!Decoded, Watch!Cached
  <2> QED BY <1>1, <1>2, <1>3, <2>2, <2>3 DEF Decodes
<1>6. CASE ~Watch!Hit(t)
  <2>1. Watch!Decoded(t) = Decodes(t) BY <1>6 DEF Watch!Decoded, Decodes
  <2>2. t.body \in Values => t \in [addr : Watch!Addresses, body : Values]
    BY <1>1, <1>4 DEF Arcs
  <2>3. Watch!Cached(t) = IF t.body \in Values THEN t ELSE Watch!NoArc
    BY <1>6 DEF Watch!Cached
  <2> QED BY <2>1, <2>2, <2>3
<1> QED BY <1>5, <1>6

\* What was taken is decoded, and is then the result.
LEMMA DecodeInv ==
    ASSUME Watch!WatchAssumption, WatchInv, NEW c \in Calls,
           Watch!DecodeState(c) \/ Watch!DecodeEvent(c) \/ Watch!NoItem(c)
    PROVE  WatchInv'
<1> DEFINE s == call[c]
           CacheOK == /\ watchCache' \in Held \cup {Watch!NoArc}
                      /\ watchCache' \in [addr : Watch!Addresses, body : Values]
                                           \cup {Watch!NoArc}
<1>1. SlotsOK /\ SlotOK(s) BY DEF WatchInv, SlotsOK
<1>2. s.item.topic \in Held /\ s.item.event \in Known /\ s.floor \in Known
  BY DEF Held, Known
<1>3. s.at = "taken" BY DEF Watch!DecodeState, Watch!DecodeEvent, Watch!NoItem
<1>4. ASSUME NEW value, NEW ok,
             call' = Put(c, Slot("result", s.for, s.gone, s.item, value, ok, s.floor)),
             s.item.kind = "state" => value = Decodes(s.item.topic),
             ~ok /\ s.for = "next" /\ s.item.kind \in {"state", "event"} => closed',
             Listening, CacheOK, events' \in {events, <<>>}, UNCHANGED <<published, returned>>
      PROVE  WatchInv'
  <2> SUFFICES ASSUME NEW x, x = Slot("result", s.for, s.gone, s.item, value, ok, s.floor)
               PROVE  WatchInv'
    OBVIOUS
  <2>1. /\ x.at = "result" /\ x.for = s.for /\ x.ok = ok /\ x.floor = s.floor
        /\ x.item = s.item /\ x.value = value
        /\ x = Slot(x.at, x.for, x.gone, x.item, x.value, x.ok, x.floor)
    BY DEF Slot
  <2>2. SlotOK(x) BY <1>1, <1>4, <2>1 DEF SlotOK
  <2>3. SlotTold(x)'
    <3>1. ~x.ok => ~ok BY <2>1, Zenon
    <3> QED BY <1>4, <2>1, <3>1 DEF SlotTold
  <2>4. OrderOK' BY <1>2, <1>4, <2>1, OneKnown
  <2> QED BY <1>2, <1>4, <2>1, <2>2, <2>3, <2>4, CallStep
<1>5. CASE Watch!DecodeState(c)
  <2> DEFINE t == s.item.topic
             D == Watch!Decoded(t)
  <2>1. /\ s.item.kind = "state"
        /\ watchCache' = IF Mode = "events" THEN Watch!NoArc ELSE Watch!Cached(t)
        /\ UNCHANGED <<topic, lock, published, returned, watchEnded>>
        /\ IF D = Bad /\ s.for # "current"
           THEN closed' = TRUE /\ terminal' = FALSE /\ events' = <<>> /\ released' = TRUE
           ELSE UNCHANGED <<closed, terminal, events, released>>
    BY <1>5 DEF Watch!DecodeState, Watch!CloseListener, Watch!listener, Watch!history
  <2>2. PICK ok : ok = (D # Bad) OBVIOUS
  <2>3. call' = SetValue(c, "result", D, ok)
    BY <1>5, <2>2, Zenon DEF Watch!DecodeState, SetValue
  <2>4. call' = Put(c, Slot("result", s.for, s.gone, s.item, D, ok, s.floor))
    <3>1. \A a, v, o : SetValue(c, a, v, o)
                         = Put(c, Slot(a, s.for, s.gone, s.item, v, o, s.floor))
      BY <1>1, Assignments
    <3> HIDE DEF D
    <3> QED BY <2>3, <3>1, Zenon
  <2>5. t \in Arcs BY <1>1 DEF SlotOK
  <2>6. D = Decodes(t) BY <1>2, <2>5, DecodedOK
  <2>7. CacheOK BY <1>2, <2>1, <2>5, DecodedOK
  <2>8. Listening BY <2>1 DEF Listening, WatchInv, SlotsOK
  <2>9. ~ok => D = Bad BY <2>2, Zenon
  <2>10. ~ok /\ s.for = "next" => closed' BY <2>1, <2>9
  <2>11. events' \in {events, <<>>} BY <2>1
  <2> HIDE DEF D, t, CacheOK
  <2> QED BY <1>4, <2>1, <2>4, <2>6, <2>7, <2>8, <2>10, <2>11 DEF t
<1>6. CASE Watch!DecodeEvent(c)
  <2>1. /\ s.item.kind = "event"
        /\ UNCHANGED <<topic, lock, watchCache, published, returned, watchEnded>>
    BY <1>6 DEF Watch!DecodeEvent, Watch!CloseListener, Watch!listener, Watch!history
  <2>2. CacheOK BY <2>1 DEF Held, WatchInv, ArcsOK
  <2>3. CASE call' = SetAt(c, "result") /\ UNCHANGED <<closed, terminal, events, released>>
    <3>1. call' = Put(c, Slot("result", s.for, s.gone, s.item, s.value, s.ok, s.floor))
      BY <1>1, <2>3, Assignments
    <3>2. Listening BY <2>1, <2>3 DEF Listening, WatchInv, SlotsOK
    <3>3. s.ok BY <1>1, <1>3 DEF SlotOK
    <3> HIDE DEF CacheOK
    <3> QED BY <1>4, <2>1, <2>2, <2>3, <3>1, <3>2, <3>3
  <2>4. CASE /\ call' = SetOk(c, "result", FALSE)
             /\ closed' = TRUE /\ terminal' = FALSE /\ events' = <<>> /\ released' = TRUE
    <3>1. PICK ok : ok = FALSE OBVIOUS
    <3>2. call' = SetOk(c, "result", ok) BY <2>4, <3>1, Zenon
    <3>3. call' = Put(c, Slot("result", s.for, s.gone, s.item, s.value, ok, s.floor))
      BY <1>1, <3>2, Assignments
    <3>4. Listening BY <2>1, <2>4 DEF Listening, WatchInv, SlotsOK
    <3> HIDE DEF CacheOK
    <3> QED BY <1>4, <2>1, <2>2, <2>4, <3>3, <3>4
  <2> QED BY <1>6, <2>3, <2>4
       DEF Watch!DecodeEvent, Watch!CloseListener, Watch!listener, SetAt, SetOk
<1>7. CASE Watch!NoItem(c)
  <2>1. /\ s.item.kind \in {"ended", "none"}
        /\ UNCHANGED <<topic, lock, watchCache, closed, terminal, events, released,
                       published, returned, watchEnded>>
    BY <1>7 DEF Watch!NoItem, Watch!listener, Watch!history
  <2>2. CacheOK BY <2>1 DEF Held, WatchInv, ArcsOK
  <2>3. PICK ok : ok = (s.item.kind = "none") OBVIOUS
  <2>4. call' = SetOk(c, "result", ok) BY <1>7, <2>3, Zenon DEF Watch!NoItem, SetOk
  <2>5. call' = Put(c, Slot("result", s.for, s.gone, s.item, s.value, ok, s.floor))
    BY <1>1, <2>4, Assignments
  <2>6. Listening BY <2>1 DEF Listening, WatchInv, SlotsOK
  <2> HIDE DEF CacheOK
  <2> QED BY <1>4, <2>1, <2>2, <2>5, <2>6
<1> QED BY <1>5, <1>6, <1>7

\* A call is over: it returned, or it was cancelled.
LEMMA LeaveInv ==
    ASSUME Watch!WatchAssumption, WatchInv, NEW c \in Calls,
           Watch!Return(c) \/ Watch!Cancel(c) \/ Watch!Abort(c)
    PROVE  WatchInv'
<1> DEFINE s == call[c]
<1>1. SlotsOK /\ SlotOK(s) /\ SlotTold(s) BY DEF WatchInv, SlotsOK
<1>2. UNCHANGED <<topic, closed, terminal, events, released, watchCache, published, watchEnded>>
  BY DEF Watch!Return, Watch!Cancel, Watch!Abort, Watch!listener, Watch!history
<1>3. lock' \in {lock, {}, lock \ {c}} BY DEF Watch!Return, Watch!Cancel, Watch!Abort
<1>4. lock' \in {{}} \cup {{d} : d \in Calls} BY <1>3 DEF WatchInv, SlotsOK
<1>5. Listening BY <1>2, <1>4 DEF Listening
<1>6. /\ watchCache' \in Held
      /\ watchCache' \in [addr : Watch!Addresses, body : Values] \cup {Watch!NoArc}
  BY <1>2 DEF Held, WatchInv, ArcsOK
<1>7. CASE call' = SetGone(c) /\ returned' = returned
  <2> SUFFICES ASSUME NEW x, x = Slot(s.at, s.for, TRUE, s.item, s.value, s.ok, s.floor)
               PROVE  WatchInv'
    OBVIOUS
  <2>1. call' = Put(c, x) BY <1>1, <1>7, Assignments, Zenon
  <2>2. /\ x.at = s.at /\ x.for = s.for /\ x.item = s.item /\ x.value = s.value
        /\ x.ok = s.ok /\ x.floor = s.floor /\ x.gone = TRUE
    BY DEF Slot
  <2>3. x = Slot(x.at, x.for, x.gone, x.item, x.value, x.ok, x.floor) BY <2>2, Zenon
  <2>4. SlotOK(x) BY <1>1, <2>2, <2>3, Zenon DEF SlotOK
  <2>5. SlotTold(x)' BY <1>1, <1>2, <2>2 DEF SlotTold, Told
  <2>6. s.item.topic \in Held /\ s.item.event \in Known /\ s.floor \in Known
    BY DEF Held, Known
  <2>7. OrderOK' BY <1>2, <1>7, <2>1, <2>2, <2>6, OneKnown
  <2> QED BY <1>5, <1>6, <2>1, <2>2, <2>4, <2>5, <2>6, <2>7, CallStep
<1>8. CASE call' = [call EXCEPT ![c] = Watch!NoCall]
  <2> SUFFICES ASSUME NEW x, x = Watch!NoCall PROVE WatchInv' OBVIOUS
  <2>1. call' = Put(c, x) BY <1>8 DEF Put
  <2>2. /\ SlotOK(x) /\ x.item.topic = Watch!NoArc /\ x.item.event = 0 /\ x.floor = 0
        /\ x.at = "idle"
    BY NoCallOK DEF Watch!NoCall
  <2>3. SlotTold(x)' BY <2>2 DEF SlotTold
  <2>4. CASE returned' = returned
    <3>1. OrderOK' BY <1>2, <2>1, <2>2, <2>4, OneKnown
    <3> QED BY <1>5, <1>6, <2>1, <2>2, <2>3, <3>1, CallStep
  <2>5. CASE returned' = returned \cup {s.item.event}
    <3> DEFINE e == s.item.event
    <3>1. e \in Known /\ e \in Nat BY <1>1 DEF Known, SlotOK
    <3>2. /\ call'[c] = x
          /\ \A d \in Calls : d # c => call'[d] = call[d]
      BY <1>1, <2>1, Puts DEF SlotsOK
    <3>3. Known' \subseteq Known \cup {0} BY <2>2, <2>5, <3>1, <3>2 DEF Known
    <3>4. \E m \in returned' : \A f \in returned' : f <= m
      <4>1. CASE returned = {} BY <2>5, <3>1, <4>1
      <4>2. CASE returned # {}
        <5>1. returned \subseteq Nat BY DEF WatchInv, OrderOK
        <5>2. PICK m \in returned : \A f \in returned : f <= m
          BY <4>2 DEF WatchInv, OrderOK
        <5>3. CASE e <= m
          <6>1. m \in returned' /\ \A f \in returned' : f <= m BY <2>5, <5>2, <5>3
          <6> QED BY <6>1
        <5>4. CASE m < e
          <6>1. e \in returned' /\ \A f \in returned' : f <= e
            BY <2>5, <3>1, <5>1, <5>2, <5>4
          <6> QED BY <6>1
        <5> QED BY <3>1, <5>1, <5>3, <5>4
      <4> QED BY <4>1, <4>2
    <3> HIDE DEF e
    <3>5. events \in Seq(Nat \ {0}) /\ \A i \in DOMAIN events : 0 < events[i]
      BY DEF WatchInv, OrderOK
    <3>6. \A k \in Known' : k <= published /\ \A i \in DOMAIN events : k < events[i]
      BY <3>3, <3>5 DEF WatchInv, OrderOK
    <3>7. returned' \subseteq Nat BY <2>5, <3>1 DEF WatchInv, OrderOK, e
    <3>8. OrderOK' BY <1>2, <3>4, <3>6, <3>7 DEF WatchInv, OrderOK
    <3> QED BY <1>5, <1>6, <2>1, <2>2, <2>3, <3>8, CallStep
  <2> QED BY <2>4, <2>5 DEF Watch!Return, Watch!Cancel, Watch!Abort
<1>9. \/ call' = SetGone(c) /\ returned' = returned
      \/ call' = [call EXCEPT ![c] = Watch!NoCall]
  BY DEF Watch!Return, Watch!Cancel, Watch!Abort, SetGone
<1> QED BY <1>7, <1>8, <1>9

\* Capability::read goes on, or ends and closes the watch.
LEMMA ReadInv ==
    ASSUME Watch!WatchAssumption, WatchInv, NEW c \in Calls,
           Watch!FinishRead(c) \/ Watch!Timeout(c)
    PROVE  WatchInv'
<1> DEFINE s == call[c]
           over == closed' = TRUE /\ terminal' = FALSE /\ events' = <<>> /\ released' = TRUE
<1>1. SlotsOK /\ SlotOK(s) BY DEF WatchInv, SlotsOK
<1>2. UNCHANGED <<topic, watchCache, published, returned, watchEnded>>
  BY DEF Watch!FinishRead, Watch!Timeout, Watch!CloseListener, Watch!listener, Watch!history
<1>3. watchCache' \in Held
      /\ watchCache' \in [addr : Watch!Addresses, body : Values] \cup {Watch!NoArc}
  BY <1>2 DEF Held, WatchInv, ArcsOK
<1>4. lock' \in {{}} \cup {{d} : d \in Calls}
  BY DEF Watch!FinishRead, Watch!Timeout, WatchInv, SlotsOK
<1>5. s.for = "read" BY DEF Watch!FinishRead, Watch!Timeout
<1>6. s.item.topic \in Held /\ s.item.event \in Known /\ s.floor \in Known
  BY DEF Held, Known
<1>7. ASSUME NEW at \in {"reading", "done"}, NEW item \in {s.item, Watch!NoObservation}, NEW ok,
             call' = Put(c, Slot(at, s.for, s.gone, item, s.value, ok, s.floor)),
             at = "reading" => item = Watch!NoObservation /\ ok,
             at = "done" /\ ok => s.value \in Values,
             \/ over
             \/ at = "reading" /\ UNCHANGED <<closed, terminal, events, released>>
      PROVE  WatchInv'
  <2> SUFFICES ASSUME NEW x, x = Slot(at, s.for, s.gone, item, s.value, ok, s.floor)
               PROVE  WatchInv'
    OBVIOUS
  <2>1. /\ x.at = at /\ x.for = s.for /\ x.ok = ok /\ x.floor = s.floor
        /\ x.item = item /\ x.value = s.value
        /\ x = Slot(x.at, x.for, x.gone, x.item, x.value, x.ok, x.floor)
    BY DEF Slot
  <2>2. /\ item.kind \in {"none", "ended", "state", "event"} /\ item.topic \in Arcs
        /\ item.event \in Nat /\ item = Item(item.kind, item.topic, item.event)
        /\ item.kind # "event" => item.event = 0
        /\ item.kind = "event" => item.event > s.floor
    <3>1. CASE item = s.item BY <1>1, <3>1 DEF SlotOK
    <3>2. CASE item = Watch!NoObservation
      BY <3>2, NoCallOK DEF Item, Arcs
    <3> QED BY <3>1, <3>2
  <2>3. (x.at \in {"idle", "reading", "taken"} => x.ok) /\ (x.at = "done" /\ x.ok => ok)
    BY <1>7, <2>1, Zenon
  <2>4. SlotOK(x) BY <1>1, <1>7, <2>1, <2>2, <2>3 DEF SlotOK
  <2>5. SlotTold(x)' BY <1>7, <2>1 DEF SlotTold
  <2>6. x.item.topic \in Held \cup {Watch!NoArc} /\ x.item.event \in Known \cup {0}
    BY <1>6, <2>1, NoCallOK DEF Item
  <2>7. OrderOK' BY <1>2, <1>6, <1>7, <2>1, <2>6, OneKnown
  <2>8. Listening BY <1>2, <1>4, <1>7 DEF Listening
  <2> QED BY <1>3, <1>7, <2>4, <2>5, <2>6, <2>7, <2>8, CallStep
<1>8. CASE Watch!FinishRead(c)
  <2>1. CASE s.ok /\ s.value = Waiting
    <3>1. call' = SetItem(c, "reading", Watch!NoObservation)
          /\ UNCHANGED <<closed, terminal, events, released>>
      BY <1>8, <2>1 DEF Watch!FinishRead, Watch!listener, SetItem
    <3>2. call' = Put(c, Slot("reading", s.for, s.gone, Watch!NoObservation, s.value, s.ok,
                              s.floor))
      BY <1>1, <3>1, Assignments
    <3> QED BY <1>7, <2>1, <3>1, <3>2
  <2>2. CASE ~(s.ok /\ s.value = Waiting)
    <3>1. PICK ok : ok = (s.ok /\ s.value \in Values) OBVIOUS
    <3>2. call' = SetOk(c, "done", ok) /\ over
      BY <1>8, <2>2, <3>1, Zenon DEF Watch!FinishRead, Watch!CloseListener, SetOk
    <3>3. call' = Put(c, Slot("done", s.for, s.gone, s.item, s.value, ok, s.floor))
      BY <1>1, <3>2, Assignments
    <3>4. ok => s.value \in Values BY <3>1, Zenon
    <3> HIDE DEF over
    <3> QED BY <1>7, <3>2, <3>3, <3>4
  <2> QED BY <2>1, <2>2
<1>9. CASE Watch!Timeout(c)
  <2>1. PICK ok : ok = FALSE OBVIOUS
  <2>2. call' = SetFailed(c, "done", ok, Watch!NoObservation) /\ over
    BY <1>9, <2>1, Zenon DEF Watch!Timeout, Watch!CloseListener, SetFailed
  <2>3. call' = Put(c, Slot("done", s.for, s.gone, Watch!NoObservation, s.value, ok, s.floor))
    <3>1. \A a, o, i : SetFailed(c, a, o, i)
                         = Put(c, Slot(a, s.for, s.gone, i, s.value, o, s.floor))
      BY <1>1, Assignments
    <3> QED BY <2>2, <3>1, Zenon
  <2> HIDE DEF over
  <2> QED BY <1>7, <2>1, <2>2, <2>3
<1> QED BY <1>8, <1>9

LEMMA WatchSteps ==
    ASSUME Watch!WatchAssumption
    PROVE  WatchInv /\ [Watch!Next]_Watch!vars => WatchInv'
<1> SUFFICES ASSUME WatchInv, [Watch!Next]_Watch!vars PROVE WatchInv' OBVIOUS
<1>1. CASE Watch!Feed BY <1>1, FeedInv
<1>2. CASE Watch!Close \/ Watch!Shutdown \/ Watch!Joined BY <1>2, ShutInv
<1>3. CASE \E c \in Calls : Watch!Step(c)
  BY <1>3, BeginInv, TakeInv, DecodeInv, LeaveInv, ReadInv DEF Watch!Step
<1>4. CASE UNCHANGED Watch!vars
  <2>1. UNCHANGED <<topic, events, closed, terminal, lock, watchCache, call, released,
                    published, returned, watchEnded>>
    BY <1>4 DEF Watch!vars, Watch!listener, Watch!history
  <2>2. SlotsOK' BY <2>1, SameSlots DEF WatchInv, SlotsOK, Told
  <2>3. EndOK' BY <2>1 DEF WatchInv, EndOK, Told
  <2>4. Held' = Held /\ Known' = Known BY <2>1 DEF Held, Known
  <2>5. ArcsOK' BY <2>1, <2>4, HeldKept DEF WatchInv, ArcsOK
  <2>6. OrderOK' BY <2>1, <2>4, KnownKept
  <2> QED BY <2>2, <2>3, <2>5, <2>6 DEF WatchInv
<1> QED BY <1>1, <1>2, <1>3, <1>4 DEF Watch!Next

LEMMA WatchAlways ==
    ASSUME Watch!WatchAssumption PROVE Watch!Spec => []WatchInv
BY WatchInit, WatchSteps, PTL DEF Watch!Spec

\* SnapshotWatch::decode, EventWatch::next, Capability::read: what a call returns is decoded
\* from the state it took however the addresses in the cache are used again, events come in
\* order, the end of the feed is told, and a watch that fails or is read leaves no demand.
THEOREM WatchesAreRight ==
    ASSUME Watch!WatchAssumption
    PROVE  Watch!Spec => [](/\ Watch!TypeOK
                            /\ Watch!DecodedIsCurrent
                            /\ Watch!EventsInOrder
                            /\ Watch!EndIsReported
                            /\ Watch!FailureReleases
                            /\ Watch!ReadReleases)
<1>1. ASSUME WatchInv PROVE Watch!TypeOK
  <2>1. \A c \in Calls : call[c].at \in {"idle", "reading", "taken", "result", "done"}
    BY <1>1 DEF WatchInv, SlotsOK, SlotOK
  <2> QED BY <1>1, <2>1 DEF WatchInv, SlotsOK, EndOK, ArcsOK, Arcs, Watch!TypeOK
<1>2. ASSUME WatchInv PROVE Watch!DecodedIsCurrent
  BY <1>2 DEF WatchInv, SlotsOK, SlotOK, Decodes, Watch!DecodedIsCurrent
<1>3. ASSUME WatchInv PROVE Watch!EventsInOrder
  BY <1>3 DEF WatchInv, SlotsOK, SlotOK, Watch!EventsInOrder
<1>4. ASSUME WatchInv PROVE Watch!EndIsReported
  BY <1>4 DEF WatchInv, SlotsOK, SlotTold, Told, Watch!EndIsReported
<1>5. ASSUME WatchInv PROVE Watch!FailureReleases
  BY <1>5 DEF WatchInv, SlotsOK, SlotTold, Watch!FailureReleases
<1>6. ASSUME WatchInv PROVE Watch!ReadReleases
  BY <1>6 DEF WatchInv, SlotsOK, SlotOK, SlotTold, Watch!ReadReleases
<1> QED BY <1>1, <1>2, <1>3, <1>4, <1>5, <1>6, WatchAlways, PTL

\* Where an event is: queued, in the hands of a call, returned, or lost with a cancelled task.
Queued == {events[i] : i \in DOMAIN events}
InHand(c) == call[c].item.event
PlacesOK ==
    /\ \A c, d \in Calls : InHand(c) = InHand(d) /\ InHand(c) # 0 => c = d
    /\ \A l, m \in lost : l.event = m.event /\ l.event # 0 => l = m
    /\ \A c \in Calls : InHand(c) # 0 => /\ InHand(c) \notin returned
                                         /\ \A l \in lost : l.event # InHand(c)
    /\ 0 \notin returned
    /\ \A l \in lost : /\ l.event \in Nat /\ l.event \notin returned
                       /\ l.event <= published
                       /\ \A i \in DOMAIN events : l.event < events[i]
    /\ \A e \in occurred : e \in Nat \ {0} /\ e <= published
    /\ ~closed /\ Mode = "events" =>
          \A e \in occurred : \/ e \in Queued
                              \/ \E c \in Calls : InHand(c) = e
                              \/ e \in returned
                              \/ \E l \in lost : l.event = e

\* Every event that is lost has taken a cancelled call with it.
Gone == {c \in Calls : call[c].gone}
LossOK ==
    /\ cancels \in Nat /\ IsFiniteSet(Gone) /\ IsFiniteSet(lost)
    /\ Cardinality(Gone) + Cardinality(lost) <= cancels
    /\ Gone # {} \/ lost # {} => Executed

\* What a step does to the call it is of.
Rewrites(c, item) == \E at, value, ok :
    call' = Put(c, Slot(at, call[c].for, call[c].gone, item, value, ok, call[c].floor))

LEMMA Rewriting ==
    ASSUME NEW c \in Calls, NEW at, NEW item, NEW value, NEW ok,
           call' = Put(c, Slot(at, call[c].for, call[c].gone, item, value, ok, call[c].floor))
    PROVE  Rewrites(c, item)
BY Zenon DEF Rewrites

LEMMA Rewritten ==
    ASSUME SlotsOK, NEW c \in Calls, NEW item, Rewrites(c, item)
    PROVE  /\ \A d \in Calls : d # c => call'[d] = call[d]
           /\ call'[c].item = item /\ call'[c].gone = call[c].gone
<1>1. PICK at, value, ok :
          call' = Put(c, Slot(at, call[c].for, call[c].gone, item, value, ok, call[c].floor))
  BY DEF Rewrites
<1> DEFINE x == Slot(at, call[c].for, call[c].gone, item, value, ok, call[c].floor)
<1>2. x.item = item /\ x.gone = call[c].gone BY DEF Slot
<1> HIDE DEF x
<1>3. call'[c] = x /\ \A d \in Calls : d # c => call'[d] = call[d]
  BY <1>1, Puts DEF SlotsOK, x
<1> QED BY <1>2, <1>3

LEMMA Emptied ==
    ASSUME Watch!WatchAssumption, SlotsOK, NEW c \in Calls,
           call' = [call EXCEPT ![c] = Watch!NoCall]
    PROVE  /\ \A d \in Calls : d # c => call'[d] = call[d]
           /\ call'[c].item.event = 0 /\ ~call'[c].gone
<1>1. call'[c] = Watch!NoCall /\ \A d \in Calls : d # c => call'[d] = call[d] BY DEF SlotsOK
<1>2. ~Watch!NoCall.gone BY DEF Watch!NoCall
<1> QED BY <1>1, <1>2, NoCallOK

LEMMA DecodeRewrites ==
    ASSUME WatchInv, NEW c \in Calls,
           Watch!DecodeState(c) \/ Watch!DecodeEvent(c) \/ Watch!NoItem(c)
    PROVE  Rewrites(c, call[c].item)
<1> DEFINE s == call[c]
<1>1. /\ \A a : SetAt(c, a) = Put(c, Slot(a, s.for, s.gone, s.item, s.value, s.ok, s.floor))
      /\ \A a, v, o : SetValue(c, a, v, o)
                        = Put(c, Slot(a, s.for, s.gone, s.item, v, o, s.floor))
      /\ \A a, o : SetOk(c, a, o) = Put(c, Slot(a, s.for, s.gone, s.item, s.value, o, s.floor))
  BY Assignments DEF WatchInv
<1>2. /\ \A a : Rewrites(c, s.item) \/ call' # SetAt(c, a)
      /\ \A a, v, o : Rewrites(c, s.item) \/ call' # SetValue(c, a, v, o)
      /\ \A a, o : Rewrites(c, s.item) \/ call' # SetOk(c, a, o)
  <2>1. ASSUME NEW a, call' = SetAt(c, a) PROVE Rewrites(c, s.item)
    BY <1>1, <2>1, Rewriting
  <2>2. ASSUME NEW a, NEW v, NEW o, call' = SetValue(c, a, v, o) PROVE Rewrites(c, s.item)
    BY <1>1, <2>2, Rewriting
  <2>3. ASSUME NEW a, NEW o, call' = SetOk(c, a, o) PROVE Rewrites(c, s.item)
    BY <1>1, <2>3, Rewriting
  <2> QED BY <2>1, <2>2, <2>3, Zenon
<1>3. CASE Watch!DecodeState(c)
  <2> DEFINE D == Watch!Decoded(s.item.topic)
  <2>1. PICK ok : ok = (D # Bad) OBVIOUS
  <2>2. call' = SetValue(c, "result", D, ok)
    BY <1>3, <2>1, Zenon DEF Watch!DecodeState, SetValue
  <2> QED BY <1>2, <2>2, Zenon
<1>4. CASE Watch!DecodeEvent(c)
  <2>1. PICK ok : ok = FALSE OBVIOUS
  <2>2. call' = SetAt(c, "result") \/ call' = SetOk(c, "result", ok)
    BY <1>4, <2>1, Zenon DEF Watch!DecodeEvent, SetAt, SetOk
  <2> QED BY <1>2, <2>2, Zenon
<1>5. CASE Watch!NoItem(c)
  <2>1. PICK ok : ok = (s.item.kind = "none") OBVIOUS
  <2>2. call' = SetOk(c, "result", ok) BY <1>5, <2>1, Zenon DEF Watch!NoItem, SetOk
  <2> QED BY <1>2, <2>2, Zenon
<1> QED BY <1>3, <1>4, <1>5

LEMMA ReadRewrites ==
    ASSUME WatchInv, NEW c \in Calls, Watch!FinishRead(c) \/ Watch!Timeout(c)
    PROVE  Rewrites(c, call[c].item) \/ Rewrites(c, Watch!NoObservation)
<1> DEFINE s == call[c]
<1>1. /\ \A a, i : SetItem(c, a, i) = Put(c, Slot(a, s.for, s.gone, i, s.value, s.ok, s.floor))
      /\ \A a, o : SetOk(c, a, o) = Put(c, Slot(a, s.for, s.gone, s.item, s.value, o, s.floor))
      /\ \A a, o, i : SetFailed(c, a, o, i)
                        = Put(c, Slot(a, s.for, s.gone, i, s.value, o, s.floor))
  BY Assignments DEF WatchInv
<1>2. \/ \E a : call' = SetItem(c, a, Watch!NoObservation)
      \/ \E a, o : call' = SetOk(c, a, o)
      \/ \E a, o : call' = SetFailed(c, a, o, Watch!NoObservation)
  BY Zenon DEF Watch!FinishRead, Watch!Timeout, SetItem, SetOk, SetFailed
<1>3. /\ \A a, i : Rewrites(c, i) \/ call' # SetItem(c, a, i)
      /\ \A a, o : Rewrites(c, s.item) \/ call' # SetOk(c, a, o)
      /\ \A a, o, i : Rewrites(c, i) \/ call' # SetFailed(c, a, o, i)
  <2>1. ASSUME NEW a, NEW i, call' = SetItem(c, a, i) PROVE Rewrites(c, i)
    BY <1>1, <2>1, Rewriting
  <2>2. ASSUME NEW a, NEW o, call' = SetOk(c, a, o) PROVE Rewrites(c, s.item)
    BY <1>1, <2>2, Rewriting
  <2>3. ASSUME NEW a, NEW o, NEW i, call' = SetFailed(c, a, o, i) PROVE Rewrites(c, i)
    BY <1>1, <2>3, Rewriting
  <2> QED BY <2>1, <2>2, <2>3, Zenon
<1> QED BY <1>2, <1>3, Zenon

LEMMA TakeRewrites ==
    ASSUME Watch!WatchAssumption, WatchInv, NEW c \in Calls, Watch!Take(c)
    PROVE  /\ InHand(c) = 0
           /\ \/ /\ events' = events
                 /\ \E item : Rewrites(c, item) /\ item.event = 0
              \/ /\ events # <<>> /\ events' = Tail(events)
                 /\ Rewrites(c, Item("event", Watch!NoArc, Head(events)))
<1> DEFINE s == call[c]
<1>1. /\ SlotsOK /\ s.at = "reading" /\ s.item = Watch!NoObservation
  BY DEF WatchInv, SlotsOK, SlotOK, Watch!Take
<1>2. s.item.topic = Watch!NoArc /\ s.item.event = 0 BY <1>1, NoCallOK DEF Item
<1>3. /\ \A a : SetAt(c, a) = Put(c, Slot(a, s.for, s.gone, s.item, s.value, s.ok, s.floor))
      /\ \A a, i : SetItem(c, a, i) = Put(c, Slot(a, s.for, s.gone, i, s.value, s.ok, s.floor))
      /\ \A a, k : SetKind(c, a, k)
            = Put(c, Slot(a, s.for, s.gone, Item(k, s.item.topic, s.item.event), s.value, s.ok,
                          s.floor))
  BY <1>1, Assignments
<1>4. /\ \A a : Rewrites(c, s.item) \/ call' # SetAt(c, a)
      /\ \A a, i : Rewrites(c, i) \/ call' # SetItem(c, a, i)
      /\ \A a, k : Rewrites(c, Item(k, s.item.topic, s.item.event)) \/ call' # SetKind(c, a, k)
  <2>1. ASSUME NEW a, NEW item, NEW value, NEW ok,
               call' = Put(c, Slot(a, s.for, s.gone, item, value, ok, s.floor))
        PROVE  Rewrites(c, item)
    BY <2>1, Zenon DEF Rewrites
  <2>2. ASSUME NEW a, call' = SetAt(c, a) PROVE Rewrites(c, s.item)
    <3>1. call' = Put(c, Slot(a, s.for, s.gone, s.item, s.value, s.ok, s.floor))
      BY <1>3, <2>2, Zenon
    <3> QED BY <2>1, <3>1, Zenon
  <2>3. ASSUME NEW a, NEW i, call' = SetItem(c, a, i) PROVE Rewrites(c, i)
    <3>1. call' = Put(c, Slot(a, s.for, s.gone, i, s.value, s.ok, s.floor))
      BY <1>3, <2>3, Zenon
    <3> QED BY <2>1, <3>1, Zenon
  <2>4. ASSUME NEW a, NEW k, call' = SetKind(c, a, k)
        PROVE  Rewrites(c, Item(k, s.item.topic, s.item.event))
    <3> DEFINE i == Item(k, s.item.topic, s.item.event)
    <3>1. call' = Put(c, Slot(a, s.for, s.gone, i, s.value, s.ok, s.floor))
      BY <1>3, <2>4, Zenon
    <3> HIDE DEF i
    <3>2. Rewrites(c, i) BY <2>1, <3>1, Zenon
    <3> QED BY <3>2 DEF i
  <2> QED BY <2>2, <2>3, <2>4, Zenon
<1>5. CASE Watch!TakeEnd(c)
  <2>1. call' = SetKind(c, "taken", "ended") /\ events' = events
    BY <1>5 DEF Watch!TakeEnd, SetKind
  <2>2. Rewrites(c, Item("ended", Watch!NoArc, 0)) BY <1>2, <1>4, <2>1
  <2>3. Item("ended", Watch!NoArc, 0).event = 0 BY DEF Item
  <2> QED BY <1>2, <2>1, <2>2, <2>3, Zenon DEF InHand
<1>6. CASE Watch!TakeNothing(c)
  <2>1. call' = SetAt(c, "taken") /\ events' = events
    BY <1>6 DEF Watch!TakeNothing, SetAt
  <2>2. Rewrites(c, s.item) BY <1>4, <2>1
  <2> QED BY <1>2, <2>1, <2>2, Zenon DEF InHand
<1>7. CASE Watch!TakeState(c)
  <2>1. /\ events' = events
        /\ call' = SetItem(c, "taken", WithTopic(Watch!NoObservation, "state", topic))
    BY <1>7 DEF Watch!TakeState, SetItem, WithTopic
  <2>2. WithTopic(Watch!NoObservation, "state", topic) = Item("state", topic, 0)
    BY NoCallOK, ItemFields
  <2>3. Rewrites(c, Item("state", topic, 0)) BY <1>4, <2>1, <2>2, Zenon
  <2>4. Item("state", topic, 0).event = 0 BY DEF Item
  <2> QED BY <1>2, <2>1, <2>3, <2>4, Zenon DEF InHand
<1>8. CASE Watch!TakeEvent(c)
  <2>1. /\ events # <<>> /\ events' = Tail(events)
        /\ call' = SetItem(c, "taken", WithEvent(Watch!NoObservation, "event", Head(events)))
    BY <1>8 DEF Watch!TakeEvent, SetItem, WithEvent, Watch!NextEvent
  <2>2. \A e : WithEvent(Watch!NoObservation, "event", e) = Item("event", Watch!NoArc, e)
    BY NoCallOK, ItemFields
  <2>3. Rewrites(c, Item("event", Watch!NoArc, Head(events))) BY <1>4, <2>1, <2>2, Zenon
  <2> QED BY <1>2, <2>1, <2>3 DEF InHand
<1> QED BY <1>5, <1>6, <1>7, <1>8 DEF Watch!Take

\* A step that moves no event, unless the feed ends with it.
LEMMA PlacesKept ==
    ASSUME WatchInv, WatchInv', PlacesOK,
           \A d \in Calls : \/ InHand(d)' = InHand(d)
                            \/ Mode = "read" /\ InHand(d)' = 0,
           events' = events \/ (events' = <<>> /\ closed'), closed => closed',
           UNCHANGED <<lost, returned, occurred>>,
           published' \in {published, published + 1}
    PROVE  PlacesOK'
<1>1. published \in Nat /\ published <= published' BY DEF WatchInv, OrderOK
<1>2. \A l \in lost : l.event <= published' BY <1>1 DEF PlacesOK
<1>3. \A e \in occurred : e \in Nat \ {0} /\ e <= published' BY <1>1 DEF PlacesOK
<1>4. \A l \in lost : \A i \in DOMAIN events' : l.event < events'[i]
  <2>1. DOMAIN <<>> = {} OBVIOUS
  <2> QED BY <2>1 DEF PlacesOK
<1>5. ~closed' /\ Mode = "events" =>
          \A e \in occurred' : \/ e \in Queued'
                               \/ \E c \in Calls : InHand(c)' = e
                               \/ e \in returned'
                               \/ \E l \in lost' : l.event = e
  <2> SUFFICES ASSUME ~closed', Mode = "events", NEW e \in occurred
               PROVE  \/ e \in Queued'
                      \/ \E c \in Calls : InHand(c)' = e
                      \/ e \in returned
                      \/ \E l \in lost : l.event = e
    OBVIOUS
  <2>1. events' = events /\ ~closed /\ \A d \in Calls : InHand(d)' = InHand(d) OBVIOUS
  <2>2. Queued' = Queued BY <2>1 DEF Queued
  <2> QED BY <2>1, <2>2 DEF PlacesOK
<1>6. \A c, d \in Calls : InHand(c)' = InHand(d)' /\ InHand(c)' # 0 => c = d BY DEF PlacesOK
<1>7. \A c \in Calls : InHand(c)' # 0 => /\ InHand(c)' \notin returned
                                         /\ \A l \in lost : l.event # InHand(c)'
  BY DEF PlacesOK
<1> QED BY <1>2, <1>3, <1>4, <1>5, <1>6, <1>7 DEF PlacesOK

LEMMA PlacesSame ==
    ASSUME WatchInv, WatchInv', PlacesOK, \A d \in Calls : InHand(d)' = InHand(d),
           UNCHANGED <<events, closed, lost, returned, occurred, published>>
    PROVE  PlacesOK'
<1>1. \A d \in Calls : InHand(d)' = InHand(d) \/ (Mode = "read" /\ InHand(d)' = 0)
  OBVIOUS
<1>2. events' = events \/ (events' = <<>> /\ closed') OBVIOUS
<1>3. closed => closed' BY Zenon
<1>4. published' \in {published, published + 1} OBVIOUS
<1>5. UNCHANGED <<lost, returned, occurred>> OBVIOUS
<1> QED BY <1>1, <1>2, <1>3, <1>4, <1>5, PlacesKept

LEMMA PlacesQueued ==
    ASSUME WatchInv, WatchInv', PlacesOK, Watch!Occur PROVE PlacesOK'
<1>1. /\ UNCHANGED <<closed, call, returned, lost>> /\ published' = published + 1
      /\ events' = Append(events, published + 1) /\ occurred' = occurred \cup {published + 1}
  BY DEF Watch!Occur
<1>2. \A c \in Calls : InHand(c)' = InHand(c) BY <1>1 DEF InHand
<1>3. /\ published \in Nat /\ events \in Seq(Nat \ {0})
      /\ DOMAIN events' = DOMAIN events \cup {Len(events) + 1}
      /\ \A i \in DOMAIN events : events'[i] = events[i]
      /\ events'[Len(events) + 1] = published + 1
  BY <1>1 DEF WatchInv, OrderOK
<1>4. Queued' = Queued \cup {published + 1} BY <1>3 DEF Queued
<1>5. \A l \in lost : /\ l.event <= published'
                      /\ \A i \in DOMAIN events' : l.event < events'[i]
  BY <1>1, <1>3 DEF PlacesOK
<1>6. \A e \in occurred' : e \in Nat \ {0} /\ e <= published' BY <1>1, <1>3 DEF PlacesOK
<1>7. ~closed' /\ Mode = "events" =>
          \A e \in occurred' : \/ e \in Queued'
                               \/ \E c \in Calls : InHand(c)' = e
                               \/ e \in returned'
                               \/ \E l \in lost' : l.event = e
  BY <1>1, <1>2, <1>4 DEF PlacesOK
<1> QED BY <1>1, <1>2, <1>5, <1>6, <1>7 DEF PlacesOK

\* TakeEvent: the first event is in the hands of the call.
LEMMA PlacesTaken ==
    ASSUME WatchInv, WatchInv', PlacesOK, NEW c \in Calls, InHand(c) = 0,
           events # <<>>, events' = Tail(events),
           InHand(c)' = Head(events), \A d \in Calls : d # c => InHand(d)' = InHand(d),
           UNCHANGED <<closed, lost, returned, occurred, published>>
    PROVE  PlacesOK'
<1> DEFINE e == Head(events)
<1>1. /\ e \in Nat \ {0} /\ \A k \in Known : k < e
      /\ \A i \in DOMAIN Tail(events) : /\ i + 1 \in DOMAIN events
                                        /\ Tail(events)[i] = events[i + 1]
  BY FirstEvent DEF WatchInv
<1>2. /\ events \in Seq(Nat \ {0}) /\ e = events[1] /\ 1 \in DOMAIN events
      /\ \A i \in DOMAIN events : i # 1 => /\ i - 1 \in DOMAIN Tail(events)
                                           /\ Tail(events)[i - 1] = events[i]
  BY DEF WatchInv, OrderOK
<1> HIDE DEF e
<1>3. \A d \in Calls : InHand(d) # e
  <2>1. \A d \in Calls : InHand(d) \in Known /\ InHand(d) \in Nat
    BY DEF Known, InHand, WatchInv, SlotsOK, SlotOK
  <2> QED BY <1>1, <2>1
<1>4. e \notin returned
  <2>1. returned \subseteq Known /\ returned \subseteq Nat BY DEF Known, WatchInv, OrderOK
  <2> QED BY <1>1, <2>1
<1>5. \A l \in lost : l.event \in Nat /\ l.event < e BY <1>2 DEF PlacesOK
<1>6. Queued \subseteq Queued' \cup {e}
  <2> SUFFICES ASSUME NEW q \in Queued, q # e PROVE q \in Queued'
    OBVIOUS
  <2>1. PICK i \in DOMAIN events : q = events[i] BY DEF Queued
  <2>2. i - 1 \in DOMAIN events' /\ events'[i - 1] = q BY <1>2, <2>1
  <2> QED BY <2>2 DEF Queued
<1>7. \A l \in lost : \A i \in DOMAIN events' : l.event < events'[i]
  BY <1>1 DEF PlacesOK
<1>8. ~closed' /\ Mode = "events" =>
          \A k \in occurred' : \/ k \in Queued'
                               \/ \E d \in Calls : InHand(d)' = k
                               \/ k \in returned'
                               \/ \E l \in lost' : l.event = k
  <2> SUFFICES ASSUME ~closed, Mode = "events", NEW k \in occurred
               PROVE  \/ k \in Queued'
                      \/ \E d \in Calls : InHand(d)' = k
                      \/ k \in returned
                      \/ \E l \in lost : l.event = k
    OBVIOUS
  <2>1. CASE k \in Queued BY <1>6, <2>1 DEF e
  <2>2. CASE \E d \in Calls : InHand(d) = k
    <3>1. PICK d \in Calls : InHand(d) = k BY <2>2
    <3>2. d # c BY <3>1 DEF PlacesOK
    <3> QED BY <3>1, <3>2
  <2> QED BY <2>1, <2>2 DEF PlacesOK
<1>9. \A d \in Calls : InHand(d)' = e \/ InHand(d)' = InHand(d) BY DEF e
<1>10. \A d, f \in Calls : InHand(d)' = InHand(f)' /\ InHand(d)' # 0 => d = f
  BY <1>3 DEF PlacesOK, e
<1>11. \A d \in Calls : InHand(d)' # 0 => /\ InHand(d)' \notin returned
                                          /\ \A l \in lost : l.event # InHand(d)'
  BY <1>4, <1>5, <1>9 DEF PlacesOK
<1> QED BY <1>7, <1>8, <1>10, <1>11 DEF PlacesOK

\* Return and Abort: the event a call had in hand is returned, or lost with it.
LEMMA PlacesLeft ==
    ASSUME WatchInv, WatchInv', PlacesOK, NEW c \in Calls, NEW got, NEW gone,
           InHand(c)' = 0, \A d \in Calls : d # c => InHand(d)' = InHand(d),
           UNCHANGED <<closed, events, occurred, published>>,
           returned' = returned \cup got, lost' = lost \cup gone,
           \/ got = {InHand(c)} /\ InHand(c) # 0 /\ gone = {}
           \/ got = {} /\ \E l : gone = {l} /\ l.event = InHand(c)
           \/ got = {} /\ gone = {} /\ InHand(c) = 0
    PROVE  PlacesOK'
<1> DEFINE e == InHand(c)
<1>1. e \in Nat /\ e \in Known BY DEF Known, InHand, WatchInv, SlotsOK, SlotOK
<1>2. e <= published /\ \A i \in DOMAIN events : e < events[i]
  BY <1>1 DEF WatchInv, OrderOK
<1>3. \A d \in Calls : InHand(d)' # 0 => d # c /\ InHand(d)' = InHand(d) /\ InHand(d) # e
  BY DEF PlacesOK
<1>4. \A l \in gone : l.event = e OBVIOUS
<1>5. got \subseteq {e} /\ (got # {} => e # 0 /\ gone = {}) OBVIOUS
<1>6. \A l, m \in lost' : l.event = m.event /\ l.event # 0 => l = m
  BY <1>4 DEF PlacesOK
<1>7. \A d \in Calls : InHand(d)' # 0 => /\ InHand(d)' \notin returned'
                                         /\ \A l \in lost' : l.event # InHand(d)'
  BY <1>3, <1>4, <1>5 DEF PlacesOK
<1>8. \A l \in lost' : /\ l.event \in Nat /\ l.event \notin returned'
                       /\ l.event <= published
                       /\ \A i \in DOMAIN events : l.event < events[i]
  <2>1. \A l \in gone : e \notin returned'
    <3> SUFFICES ASSUME NEW l \in gone PROVE e \notin returned OBVIOUS
    <3>1. CASE e = 0 BY <3>1 DEF PlacesOK
    <3>2. CASE e # 0 BY <3>2 DEF PlacesOK
    <3> QED BY <3>1, <3>2
  <2>2. \A l \in lost : got # {} => l.event # e BY DEF PlacesOK
  <2> QED BY <1>1, <1>2, <1>4, <1>5, <2>1, <2>2 DEF PlacesOK
<1>9. ~closed' /\ Mode = "events" =>
          \A k \in occurred' : \/ k \in Queued'
                               \/ \E d \in Calls : InHand(d)' = k
                               \/ k \in returned'
                               \/ \E l \in lost' : l.event = k
  <2> SUFFICES ASSUME ~closed, Mode = "events", NEW k \in occurred
               PROVE  \/ k \in Queued'
                      \/ \E d \in Calls : InHand(d)' = k
                      \/ k \in returned'
                      \/ \E l \in lost' : l.event = k
    OBVIOUS
  <2>1. Queued' = Queued BY DEF Queued
  <2>2. CASE k = e /\ \E d \in Calls : InHand(d) = k
    <3>1. e # 0 BY <2>2 DEF PlacesOK
    <3> QED BY <2>2, <3>1
  <2>3. CASE k # e /\ \E d \in Calls : InHand(d) = k
    <3>1. PICK d \in Calls : InHand(d) = k BY <2>3
    <3>2. d # c BY <2>3, <3>1
    <3> QED BY <3>1, <3>2
  <2> QED BY <2>1, <2>2, <2>3 DEF PlacesOK
<1>10. 0 \notin returned' BY <1>5 DEF PlacesOK
<1>11. \A d, f \in Calls : InHand(d)' = InHand(f)' /\ InHand(d)' # 0 => d = f
  BY <1>3 DEF PlacesOK
<1>12. \A k \in occurred' : k \in Nat \ {0} /\ k <= published' BY DEF PlacesOK
<1> QED BY <1>6, <1>7, <1>8, <1>9, <1>10, <1>11, <1>12 DEF PlacesOK

LEMMA Begun ==
    ASSUME NEW c \in Calls, Watch!BeginNext(c) \/ Watch!BeginCurrent(c) \/ Watch!BeginRead(c)
    PROVE  /\ UNCHANGED <<events, closed, lost, returned, occurred, published, cancels>>
           /\ call[c].at = "idle"
           /\ \E x : call' = [call EXCEPT ![c] = x] /\ x.item.event = 0 /\ ~x.gone
<1>1. CASE Watch!BeginNext(c)
  <2>1. \A u, v : /\ WithFloor(Watch!NoCall, u, v).item.event = 0
                  /\ WithOk(Watch!NoCall, u, v).item.event = 0
                  /\ ~WithFloor(Watch!NoCall, u, v).gone /\ ~WithOk(Watch!NoCall, u, v).gone
    BY DEF WithFloor, WithOk, Watch!NoCall, Watch!NoObservation
  <2> DEFINE F == IF returned = {} THEN 0
                  ELSE CHOOSE e \in returned : \A f \in returned : f <= e
             x == IF Watch!Lockable THEN WithFloor(Watch!NoCall, "reading", F)
                  ELSE WithOk(Watch!NoCall, "result", FALSE)
  <2>2. call' = [call EXCEPT ![c] = x]
    BY <1>1 DEF Watch!BeginNext, WithFloor, WithOk
  <2> HIDE DEF F
  <2>3. x.item.event = 0 /\ ~x.gone
    <3>1. CASE Watch!Lockable
      <4>1. x = WithFloor(Watch!NoCall, "reading", F) BY <3>1
      <4> HIDE DEF x
      <4> QED BY <2>1, <4>1
    <3>2. CASE ~Watch!Lockable
      <4>1. PICK no : no = FALSE OBVIOUS
      <4>2. x = WithOk(Watch!NoCall, "result", no) BY <3>2, <4>1, Zenon
      <4> HIDE DEF x
      <4> QED BY <2>1, <4>2
    <3> QED BY <3>1, <3>2
  <2> HIDE DEF x
  <2>4. UNCHANGED <<events, closed, lost, returned, occurred, published, cancels>>
        /\ call[c].at = "idle"
    BY <1>1 DEF Watch!BeginNext, Watch!listener, Watch!history
  <2> QED BY <2>2, <2>3, <2>4, Zenon
<1>2. CASE Watch!BeginCurrent(c)
  <2> DEFINE x == WithItem(Watch!NoCall, "taken", "current",
                           WithTopic(Watch!NoObservation, "state", topic))
  <2>1. x.item.event = 0 /\ ~x.gone
    BY DEF WithItem, WithTopic, Watch!NoCall, Watch!NoObservation
  <2>2. call' = [call EXCEPT ![c] = x]
    BY <1>2 DEF Watch!BeginCurrent, WithItem, WithTopic
  <2> HIDE DEF x
  <2>3. UNCHANGED <<events, closed, lost, returned, occurred, published, cancels>>
        /\ call[c].at = "idle"
    BY <1>2 DEF Watch!BeginCurrent, Watch!listener, Watch!history
  <2> QED BY <2>1, <2>2, <2>3, Zenon
<1>3. CASE Watch!BeginRead(c)
  <2> DEFINE x == WithFor(Watch!NoCall, "reading", "read")
  <2>1. x.item.event = 0 /\ ~x.gone
    BY DEF WithFor, Watch!NoCall, Watch!NoObservation
  <2>2. call' = [call EXCEPT ![c] = x]
    BY <1>3 DEF Watch!BeginRead, WithFor
  <2> HIDE DEF x
  <2>3. UNCHANGED <<events, closed, lost, returned, occurred, published, cancels>>
        /\ call[c].at = "idle"
    BY <1>3 DEF Watch!BeginRead, Watch!listener, Watch!history
  <2> QED BY <2>1, <2>2, <2>3, Zenon
<1> QED BY <1>1, <1>2, <1>3

\* Every step keeps the places, and what it does to the call it is of.
LEMMA PlacesSteps ==
    ASSUME Watch!WatchAssumption, WatchInv, WatchInv', PlacesOK, [Watch!Next]_Watch!vars
    PROVE  PlacesOK'
<1>1. ASSUME \/ Watch!Publish \/ Watch!EndUpstream \/ Watch!Close \/ Watch!Shutdown
             \/ Watch!Joined \/ UNCHANGED Watch!vars
      PROVE  PlacesOK'
  <2>1. /\ UNCHANGED <<call, lost, returned, occurred>>
        /\ published' \in {published, published + 1}
        /\ events' = events \/ (events' = <<>> /\ closed')
        /\ closed => closed'
    <3>1. \/ closed' /\ events' = <<>>
          \/ closed' = closed /\ events' = events
      BY <1>1 DEF Watch!Publish, Watch!EndUpstream, Watch!Close, Watch!Shutdown, Watch!Joined,
           Watch!vars, Watch!listener, Watch!CloseListener
    <3>2. events' = events \/ (events' = <<>> /\ closed') BY <3>1
    <3>3. closed => closed' BY <3>1
    <3>4. /\ UNCHANGED <<call, lost, returned, occurred>>
          /\ published' \in {published, published + 1}
      BY <1>1 DEF Watch!Publish, Watch!EndUpstream, Watch!Close, Watch!Shutdown, Watch!Joined,
           Watch!vars, Watch!history
    <3> QED BY <3>2, <3>3, <3>4
  <2>2. \A d \in Calls : InHand(d)' = InHand(d) BY <2>1 DEF InHand
  <2> QED BY <2>1, <2>2, PlacesKept
<1>2. CASE Watch!Occur BY <1>2, PlacesQueued
<1>3. ASSUME NEW c \in Calls, Watch!Step(c) PROVE PlacesOK'
  <2>1. SlotsOK /\ SlotOK(call[c]) BY DEF WatchInv, SlotsOK
  <2>2. InHand(c) \in Nat BY <2>1 DEF SlotOK, InHand
  <2>3. CASE Watch!BeginNext(c) \/ Watch!BeginCurrent(c) \/ Watch!BeginRead(c)
    <3>1. /\ UNCHANGED <<events, closed, lost, returned, occurred, published>>
          /\ call[c].at = "idle"
          /\ \E x : call' = [call EXCEPT ![c] = x] /\ x.item.event = 0
      BY <2>3, Begun
    <3>2. InHand(c) = 0
      BY <2>1, <3>1, NoCallOK DEF SlotOK, InHand, Item
    <3>3. \A d \in Calls : InHand(d)' = InHand(d)
      BY <2>1, <3>1, <3>2 DEF InHand, SlotsOK
    <3> QED BY <3>1, <3>3, PlacesSame
  <2>4. CASE Watch!Take(c)
    <3>1. UNCHANGED <<closed, lost, returned, occurred, published>>
      BY <2>4 DEF Watch!Take
    <3>2. InHand(c) = 0 BY <2>4, TakeRewrites
    <3>3. ASSUME events' = events, NEW item, Rewrites(c, item), item.event = 0 PROVE PlacesOK'
      <4>1. \A d \in Calls : InHand(d)' = InHand(d)
        BY <2>1, <3>2, <3>3, Rewritten DEF InHand
      <4> QED BY <3>1, <3>3, <4>1, PlacesSame
    <3>4. ASSUME events # <<>>, events' = Tail(events),
                 Rewrites(c, Item("event", Watch!NoArc, Head(events)))
          PROVE  PlacesOK'
      <4>1. /\ call'[c].item = Item("event", Watch!NoArc, Head(events))
            /\ \A d \in Calls : d # c => call'[d] = call[d]
        BY <2>1, <3>4, Rewritten
      <4>2. InHand(c)' = Head(events) BY <4>1 DEF InHand, Item
      <4>3. \A d \in Calls : d # c => InHand(d)' = InHand(d) BY <4>1 DEF InHand
      <4> QED BY <3>1, <3>2, <3>4, <4>2, <4>3, PlacesTaken
    <3> QED BY <2>4, <3>3, <3>4, TakeRewrites
  <2>5. CASE Watch!DecodeState(c) \/ Watch!DecodeEvent(c) \/ Watch!NoItem(c)
    <3>1. /\ UNCHANGED <<lost, returned, occurred, published>>
          /\ events' = events \/ (events' = <<>> /\ closed')
          /\ closed => closed'
      <4>1. \/ closed' /\ events' = <<>>
            \/ closed' = closed /\ events' = events
        BY <2>5 DEF Watch!DecodeState, Watch!DecodeEvent, Watch!NoItem, Watch!listener,
             Watch!CloseListener
      <4>2. events' = events \/ (events' = <<>> /\ closed') BY <4>1
      <4>3. closed => closed' BY <4>1
      <4>4. UNCHANGED <<lost, returned, occurred, published>>
        BY <2>5 DEF Watch!DecodeState, Watch!DecodeEvent, Watch!NoItem, Watch!history
      <4> QED BY <4>2, <4>3, <4>4
    <3>2. \A d \in Calls : InHand(d)' = InHand(d)
      BY <2>1, <2>5, DecodeRewrites, Rewritten DEF InHand
    <3> QED BY <3>1, <3>2, PlacesKept
  <2>6. CASE Watch!FinishRead(c) \/ Watch!Timeout(c)
    <3>1. /\ UNCHANGED <<lost, returned, occurred, published>>
          /\ events' = events \/ (events' = <<>> /\ closed')
          /\ closed => closed'
          /\ call[c].for = "read"
      <4>1. \/ closed' /\ events' = <<>>
            \/ closed' = closed /\ events' = events
        BY <2>6 DEF Watch!FinishRead, Watch!Timeout, Watch!listener, Watch!CloseListener
      <4>2. events' = events \/ (events' = <<>> /\ closed') BY <4>1
      <4>3. closed => closed' BY <4>1
      <4>4. UNCHANGED <<lost, returned, occurred, published>> /\ call[c].for = "read"
        BY <2>6 DEF Watch!FinishRead, Watch!Timeout, Watch!history
      <4> QED BY <4>2, <4>3, <4>4
    <3>2. Mode = "read" BY <2>1, <3>1 DEF SlotOK
    <3>3. Watch!NoObservation.event = 0 BY NoCallOK DEF Item
    <3>4. \A d \in Calls : InHand(d)' = InHand(d) \/ InHand(d)' = 0
      BY <2>1, <2>6, <3>3, ReadRewrites, Rewritten DEF InHand
    <3> QED BY <3>1, <3>2, <3>4, PlacesKept
  <2>7. CASE Watch!Return(c)
    <3>1. /\ UNCHANGED <<closed, events, occurred, published, lost>>
          /\ returned' = IF call[c].item.kind = "event" THEN returned \cup {InHand(c)}
                         ELSE returned
          /\ call' = [call EXCEPT ![c] = Watch!NoCall]
      BY <2>7 DEF Watch!Return, Watch!listener, InHand
    <3>2. InHand(c)' = 0 /\ \A d \in Calls : d # c => InHand(d)' = InHand(d)
      BY <2>1, <3>1, Emptied DEF InHand
    <3>3. lost' = lost \cup {} BY <3>1
    <3>4. CASE call[c].item.kind = "event"
      <4>1. InHand(c) # 0 BY <2>1, <3>4 DEF SlotOK, InHand
      <4> QED BY <3>1, <3>2, <3>3, <3>4, <4>1, PlacesLeft
    <3>5. CASE call[c].item.kind # "event"
      <4>1. InHand(c) = 0 BY <2>1, <3>5 DEF SlotOK, InHand
      <4>2. returned' = returned \cup {} BY <3>1, <3>5
      <4> QED BY <3>1, <3>2, <3>3, <4>1, <4>2, PlacesLeft
    <3> QED BY <3>4, <3>5
  <2>8. CASE Watch!Cancel(c)
    <3>1. UNCHANGED <<events, closed, lost, returned, occurred, published>>
      BY <2>8 DEF Watch!Cancel, Watch!listener
    <3>2. \A d \in Calls : InHand(d)' = InHand(d)
      <4>1. CASE call' = SetGone(c)
        <5>1. call' = Put(c, Slot(call[c].at, call[c].for, TRUE, call[c].item, call[c].value,
                                  call[c].ok, call[c].floor))
          BY <2>1, <4>1, Assignments, Zenon
        <5>2. call'[c].item = call[c].item /\ \A d \in Calls : d # c => call'[d] = call[d]
          <6> DEFINE x == Slot(call[c].at, call[c].for, TRUE, call[c].item, call[c].value,
                               call[c].ok, call[c].floor)
          <6>1. x.item = call[c].item BY DEF Slot
          <6>2. call' = Put(c, x) BY <5>1
          <6> HIDE DEF x
          <6>3. call'[c] = x /\ \A d \in Calls : d # c => call'[d] = call[d]
            BY <2>1, <6>2, Puts DEF SlotsOK
          <6> QED BY <6>1, <6>3
        <5> QED BY <5>2 DEF InHand
      <4>2. CASE call[c].at = "reading" /\ call' = [call EXCEPT ![c] = Watch!NoCall]
        <5>1. InHand(c) = 0 BY <2>1, <4>2, NoCallOK DEF SlotOK, InHand, Item
        <5> QED BY <2>1, <4>2, <5>1, Emptied DEF InHand
      <4> QED BY <2>8, <4>1, <4>2 DEF Watch!Cancel, SetGone
    <3> QED BY <3>1, <3>2, PlacesSame
  <2>9. CASE Watch!Abort(c)
    <3>1. /\ UNCHANGED <<closed, events, occurred, published, returned>>
          /\ call[c].at \in {"reading", "result"}
          /\ lost' = IF call[c].at = "result" /\ call[c].item.kind \in {"state", "event", "ended"}
                     THEN lost \cup {[by |-> cancels, item |-> call[c].item.kind,
                                      event |-> InHand(c)]}
                     ELSE lost
          /\ call' = [call EXCEPT ![c] = Watch!NoCall]
      BY <2>9 DEF Watch!Abort, Watch!listener, InHand
    <3>2. InHand(c)' = 0 /\ \A d \in Calls : d # c => InHand(d)' = InHand(d)
      BY <2>1, <3>1, Emptied DEF InHand
    <3>3. returned' = returned \cup {} BY <3>1
    <3>4. CASE call[c].at = "result" /\ call[c].item.kind \in {"state", "event", "ended"}
      <4> DEFINE l == [by |-> cancels, item |-> call[c].item.kind, event |-> InHand(c)]
      <4>1. l.event = InHand(c) /\ lost' = lost \cup {l} BY <3>1, <3>4
      <4> HIDE DEF l
      <4> QED BY <3>1, <3>2, <3>3, <4>1, PlacesLeft
    <3>5. CASE ~(call[c].at = "result" /\ call[c].item.kind \in {"state", "event", "ended"})
      <4>1. InHand(c) = 0 BY <2>1, <3>1, <3>5, NoCallOK DEF SlotOK, InHand, Item
      <4>2. lost' = lost \cup {} BY <3>1, <3>5
      <4> QED BY <3>1, <3>2, <3>3, <4>1, <4>2, PlacesLeft
    <3> QED BY <3>4, <3>5
  <2> QED BY <1>3, <2>3, <2>4, <2>5, <2>6, <2>7, <2>8, <2>9 DEF Watch!Step
<1> QED BY <1>1, <1>2, <1>3 DEF Watch!Next, Watch!Feed

\* A lost item has taken a task with it that was told to abort.
LEMMA LossKept ==
    ASSUME LossOK, Gone' \subseteq Gone, lost' = lost, cancels' \in {cancels, cancels + 1}
    PROVE  LossOK'
<1>1. IsFiniteSet(Gone') /\ Cardinality(Gone') <= Cardinality(Gone)
  BY FS_Subset DEF LossOK
<1>2. /\ Cardinality(Gone) \in Nat /\ Cardinality(Gone') \in Nat /\ Cardinality(lost) \in Nat
  BY <1>1, FS_CardinalityType DEF LossOK
<1>3. cancels \in Nat /\ cancels' \in Nat /\ cancels <= cancels' BY DEF LossOK
<1>4. Cardinality(Gone') + Cardinality(lost') <= cancels' BY <1>1, <1>2, <1>3 DEF LossOK
<1> QED BY <1>1, <1>3, <1>4 DEF LossOK

LEMMA LossSteps ==
    ASSUME Watch!WatchAssumption, WatchInv, LossOK, [Watch!Next]_Watch!vars
    PROVE  LossOK'
<1>1. SlotsOK BY DEF WatchInv
<1>2. ASSUME \/ Watch!Feed \/ Watch!Close \/ Watch!Shutdown
             \/ Watch!Joined \/ UNCHANGED Watch!vars
      PROVE  LossOK'
  <2>1. UNCHANGED <<call, lost, cancels>>
    BY <1>2 DEF Watch!Feed, Watch!Publish, Watch!Occur, Watch!EndUpstream, Watch!Close,
         Watch!Shutdown, Watch!Joined, Watch!vars, Watch!history
  <2>2. Gone' = Gone BY <2>1 DEF Gone
  <2> QED BY <2>1, <2>2, LossKept
<1>3. ASSUME NEW c \in Calls, Watch!Step(c) PROVE LossOK'
  <2>1. ASSUME \A d \in Calls : d # c => call'[d] = call[d], call'[c].gone => call[c].gone
        PROVE  Gone' \subseteq Gone
    BY <2>1 DEF Gone
  <2>2. ASSUME \A d \in Calls : d # c => call'[d] = call[d], ~call'[c].gone
        PROVE  Gone' \subseteq Gone \ {c}
    BY <2>2 DEF Gone
  <2>3. CASE Watch!BeginNext(c) \/ Watch!BeginCurrent(c) \/ Watch!BeginRead(c)
    <3>1. PICK x : call' = [call EXCEPT ![c] = x] /\ ~x.gone BY <2>3, Begun
    <3>2. /\ \A d \in Calls : d # c => call'[d] = call[d]
          /\ call'[c] = x
      BY <1>1, <3>1 DEF SlotsOK
    <3>3. Gone' \subseteq Gone \ {c} BY <2>2, <3>1, <3>2
    <3>4. lost' = lost /\ cancels' = cancels BY <2>3, Begun
    <3> QED BY <3>3, <3>4, LossKept
  <2>4. CASE \/ Watch!Take(c) \/ Watch!DecodeState(c) \/ Watch!DecodeEvent(c)
             \/ Watch!NoItem(c) \/ Watch!FinishRead(c) \/ Watch!Timeout(c)
    <3>1. \E item : Rewrites(c, item)
      BY <2>4, TakeRewrites, DecodeRewrites, ReadRewrites
    <3>2. /\ \A d \in Calls : d # c => call'[d] = call[d]
          /\ call'[c].gone = call[c].gone
      BY <1>1, <3>1, Rewritten
    <3>3. Gone' \subseteq Gone BY <2>1, <3>2
    <3>4. lost' = lost /\ cancels' = cancels
      BY <2>4 DEF Watch!Take, Watch!DecodeState, Watch!DecodeEvent, Watch!NoItem,
           Watch!FinishRead, Watch!Timeout, Watch!history
    <3> QED BY <3>3, <3>4, LossKept
  <2>5. CASE Watch!Return(c)
    <3>1. /\ lost' = lost /\ cancels' = cancels
          /\ call' = [call EXCEPT ![c] = Watch!NoCall]
      BY <2>5 DEF Watch!Return
    <3>2. Gone' \subseteq Gone \ {c} BY <1>1, <2>2, <3>1, Emptied
    <3> QED BY <3>1, <3>2, LossKept
  <2>6. CASE Watch!Cancel(c)
    <3>1. lost' = lost /\ cancels' = cancels + 1 BY <2>6 DEF Watch!Cancel
    <3>2. CASE ~Executed
      <4>1. call' = [call EXCEPT ![c] = Watch!NoCall] BY <2>6, <3>2 DEF Watch!Cancel
      <4>2. Gone' \subseteq Gone \ {c} BY <1>1, <2>2, <4>1, Emptied
      <4> QED BY <3>1, <4>2, LossKept
    <3>3. CASE Executed
      <4>1. call' = [call EXCEPT ![c].gone = TRUE] BY <2>6, <3>3 DEF Watch!Cancel
      <4>2. \A d \in Calls : d # c => call'[d] = call[d] BY <1>1, <4>1 DEF SlotsOK
      <4>3. Gone' \subseteq Gone \cup {c} BY <4>2 DEF Gone
      <4>4. IsFiniteSet(Gone \cup {c}) /\ Cardinality(Gone \cup {c}) <= Cardinality(Gone) + 1
        <5>1. IsFiniteSet(Gone) /\ Cardinality(Gone) \in Nat
          BY FS_CardinalityType DEF LossOK
        <5> QED BY <5>1, FS_AddElement
      <4>5. IsFiniteSet(Gone') /\ Cardinality(Gone') <= Cardinality(Gone \cup {c})
        BY <4>3, <4>4, FS_Subset
      <4>6. /\ Cardinality(Gone) \in Nat /\ Cardinality(Gone') \in Nat
            /\ Cardinality(Gone \cup {c}) \in Nat /\ Cardinality(lost) \in Nat
        BY <4>4, <4>5, FS_CardinalityType DEF LossOK
      <4>7. Cardinality(Gone') + Cardinality(lost') <= cancels'
        BY <3>1, <4>4, <4>5, <4>6 DEF LossOK
      <4> QED BY <3>1, <3>3, <4>5, <4>7 DEF LossOK
    <3> QED BY <3>2, <3>3
  <2>7. CASE Watch!Abort(c)
    <3>1. /\ cancels' = cancels /\ call[c].gone
          /\ call' = [call EXCEPT ![c] = Watch!NoCall]
          /\ lost' = lost \/ \E l : lost' = lost \cup {l}
      BY <2>7 DEF Watch!Abort
    <3>2. Gone' \subseteq Gone \ {c} BY <1>1, <2>2, <3>1, Emptied
    <3>3. CASE lost' = lost BY <3>1, <3>2, <3>3, LossKept
    <3>4. CASE \E l : lost' = lost \cup {l}
      <4>1. c \in Gone BY <3>1 DEF Gone
      <4>2. Executed /\ IsFiniteSet(Gone) /\ IsFiniteSet(lost) BY <4>1 DEF LossOK
      <4>3. IsFiniteSet(Gone \ {c}) /\ Cardinality(Gone \ {c}) = Cardinality(Gone) - 1
        BY <4>1, <4>2, FS_RemoveElement
      <4>4. IsFiniteSet(Gone') /\ Cardinality(Gone') <= Cardinality(Gone \ {c})
        BY <3>2, <4>3, FS_Subset
      <4>5. PICK l : lost' = lost \cup {l} BY <3>4
      <4>6. IsFiniteSet(lost') /\ Cardinality(lost') <= Cardinality(lost) + 1
        <5>1. Cardinality(lost) \in Nat BY <4>2, FS_CardinalityType
        <5>2. /\ IsFiniteSet(lost \cup {l})
              /\ Cardinality(lost \cup {l}) \in {Cardinality(lost), Cardinality(lost) + 1}
          BY <4>2, FS_AddElement
        <5> QED BY <4>5, <5>1, <5>2
      <4>7. /\ Cardinality(Gone) \in Nat /\ Cardinality(Gone') \in Nat
            /\ Cardinality(lost) \in Nat /\ Cardinality(lost') \in Nat
        BY <4>2, <4>4, <4>6, FS_CardinalityType
      <4>8. Cardinality(Gone') + Cardinality(lost') <= cancels'
        BY <3>1, <4>3, <4>4, <4>6, <4>7 DEF LossOK
      <4> QED BY <3>1, <4>2, <4>4, <4>6, <4>8 DEF LossOK
    <3> QED BY <3>1, <3>3, <3>4
  <2> QED BY <1>3, <2>3, <2>4, <2>5, <2>6, <2>7 DEF Watch!Step
<1> QED BY <1>2, <1>3 DEF Watch!Next

\* EventWatch::next: "cancellation consumes no item".  Every event is queued, in the hands of
\* one call, or was returned once; one is lost only with a task of runtime::execute that its
\* caller had given up, and there are no more of those than cancellations.
THEOREM NoEventIsLost ==
    ASSUME Watch!WatchAssumption PROVE Watch!Spec => []Watch!EventsAccounted
<1>1. Watch!Init => PlacesOK /\ LossOK
  <2> SUFFICES ASSUME Watch!Init PROVE PlacesOK /\ LossOK OBVIOUS
  <2>1. /\ \A c \in Calls : call[c] = Watch!NoCall
        /\ lost = {} /\ returned = {} /\ occurred = {} /\ cancels = 0
    BY DEF Watch!Init
  <2>2. \A c \in Calls : InHand(c) = 0 /\ ~call[c].gone
    <3>1. Watch!NoCall.item.event = 0 /\ ~Watch!NoCall.gone
      BY DEF Watch!NoCall, Watch!NoObservation
    <3> QED BY <2>1, <3>1 DEF InHand
  <2>3. Gone = {} BY <2>2 DEF Gone
  <2>4. PlacesOK BY <2>1, <2>2 DEF PlacesOK
  <2>5. LossOK BY <2>1, <2>3, FS_EmptySet DEF LossOK
  <2> QED BY <2>4, <2>5
<1>2. WatchInv /\ WatchInv' /\ PlacesOK /\ LossOK /\ [Watch!Next]_Watch!vars
         => PlacesOK' /\ LossOK'
  BY PlacesSteps, LossSteps
<1>3. ASSUME WatchInv, PlacesOK, LossOK PROVE Watch!EventsAccounted
  <2>1. \A S : Watch!Cardinality(S) = Cardinality(S)
    BY Zenon DEF Watch!Cardinality, Cardinality, Watch!IsFiniteSet, IsFiniteSet
  <2>2. lost # {} => Executed /\ Watch!Cardinality(lost) <= cancels
    <3>1. Cardinality(Gone) \in Nat /\ Cardinality(lost) \in Nat
      BY <1>3, FS_CardinalityType DEF LossOK
    <3> QED BY <1>3, <2>1, <3>1 DEF LossOK
  <2>3. ASSUME ~closed, Mode = "events", NEW e \in occurred
        PROVE  Cardinality({i \in DOMAIN events : events[i] = e})
                 + Cardinality({c \in Calls : call[c].item.event = e})
                 + Cardinality(returned \cap {e})
                 + Cardinality({l \in lost : l.event = e}) = 1
    <3> DEFINE Q == {i \in DOMAIN events : events[i] = e}
               H == {c \in Calls : call[c].item.event = e}
               R == returned \cap {e}
               L == {l \in lost : l.event = e}
               One(S) == \E x : S = {x}
    <3>1. e # 0 BY <1>3, <2>3 DEF PlacesOK
    <3>2. (Q # {} => One(Q)) /\ (H # {} => One(H)) /\ (R # {} => One(R)) /\ (L # {} => One(L))
      <4>1. \A i, j \in Q : i = j
        <5> SUFFICES ASSUME NEW i \in Q, NEW j \in Q, i # j PROVE FALSE OBVIOUS
        <5>1. i \in Nat /\ j \in Nat /\ events[i] \in Nat
          BY <1>3 DEF WatchInv, OrderOK
        <5>2. i < j \/ j < i BY <5>1
        <5> QED BY <1>3, <5>1, <5>2 DEF WatchInv, OrderOK
      <4>2. \A c, d \in H : c = d BY <1>3, <3>1 DEF PlacesOK, InHand
      <4>3. \A l, m \in L : l = m BY <1>3, <3>1 DEF PlacesOK
      <4>4. \A r, t \in R : r = t OBVIOUS
      <4>5. \A S : (\A x, y \in S : x = y) /\ S # {} => One(S)
        <5> SUFFICES ASSUME NEW S, \A x, y \in S : x = y, S # {} PROVE One(S) OBVIOUS
        <5>1. PICK x : x \in S OBVIOUS
        <5>2. S = {x} BY <5>1
        <5> QED BY <5>2
      <4> HIDE DEF Q, H, R, L, One
      <4> QED BY <4>1, <4>2, <4>3, <4>4, <4>5
    <3>3. \/ Q # {} \/ H # {} \/ R # {} \/ L # {}
      BY <1>3, <2>3 DEF PlacesOK, Queued, InHand
    <3>4. /\ H # {} => Q = {} /\ R = {} /\ L = {}
          /\ R # {} => Q = {} /\ L = {}
          /\ L # {} => Q = {}
      <4>1. H # {} => e \in Known BY DEF Known
      <4>2. R # {} => e \in Known BY DEF Known
      <4>3. e \in Known => Q = {}
        <5> SUFFICES ASSUME e \in Known, NEW i \in Q PROVE FALSE OBVIOUS
        <5>1. e < events[i] /\ events[i] = e /\ e \in Nat
          BY <1>3, <2>3 DEF WatchInv, OrderOK, PlacesOK
        <5> QED BY <5>1
      <4>4. L # {} => Q = {}
        <5> SUFFICES ASSUME NEW l \in L, NEW i \in Q PROVE FALSE OBVIOUS
        <5>1. l.event < events[i] /\ events[i] = e /\ l.event = e /\ e \in Nat
          BY <1>3, <2>3 DEF PlacesOK
        <5> QED BY <5>1
      <4>5. H # {} => R = {} /\ L = {} BY <1>3, <3>1 DEF PlacesOK, InHand
      <4>6. R # {} => L = {} BY <1>3 DEF PlacesOK
      <4> QED BY <4>1, <4>2, <4>3, <4>4, <4>5, <4>6
    <3>5. \A S : S = {} => Cardinality(S) = 0 BY FS_EmptySet
    <3>6. \A S : One(S) => Cardinality(S) = 1 BY FS_Singleton
    <3> HIDE DEF Q, H, R, L, One
    <3>7. Cardinality(Q) + Cardinality(H) + Cardinality(R) + Cardinality(L) = 1
      BY <3>2, <3>3, <3>4, <3>5, <3>6
    <3> QED BY <3>7 DEF Q, H, R, L
  <2> QED BY <2>1, <2>2, <2>3 DEF Watch!EventsAccounted
<1> QED BY <1>1, <1>2, <1>3, WatchAlways, PTL DEF Watch!Spec

-----------------------------------------------------------------------------
(* The feeds that the subscriptions of one client share, for every number   *)
(* of listeners, topics, incarnations, generations and events.              *)

CONSTANTS Listeners, Selection, WantsEvents, Readers, Faults, Budget, Incarnations,
          MaxGeneration, MaxEvents, Closer, None
VARIABLES registry, feed, task, queue, feedReader, finishing, job, closing, count

Sharing == INSTANCE SharedFeeds WITH reader <- feedReader

Feeds == Sharing!Feeds
Workers == Sharing!Tasks
Causes == Sharing!Ends \cup {"Protocol", "Timeout", None}
Setups == {"enable", "inspect", "asleep", "check"}
Early == {"idle", "select", "register"}
CallPhases == {"open", "drop", "failed"} \cup Early \cup Setups

FeedRecords ==
    [listeners : SUBSET Listeners, current : Nat, ready : BOOLEAN,
     terminal : Sharing!Ends \cup {None}, stop : BOOLEAN]

TaskRecords ==
    [pc : {"new", "receive", "deliver", "done"}, deltas : BOOLEAN,
     targets : SUBSET Listeners, generation : Nat]

CallRecords ==
    [pc : CallPhases, turn : Nat \ {0}, feed : Feeds \cup {None}, start : BOOLEAN,
     selected : Seq(Feeds), woken : BOOLEAN, error : Causes]

\* What a listener's queue buffers is left open.
QueueOf(fs, shown, flag, es, end, over, woken) ==
    [feeds |-> fs, states |-> shown, changed |-> flag, events |-> es,
     terminal |-> end, closed |-> over, permit |-> woken]

QueueOK(q) ==
    /\ q = QueueOf(q.feeds, q.states, q.changed, q.events, q.terminal, q.closed, q.permit)
    /\ q.feeds \subseteq Feeds /\ q.states \in [Topics -> Nat]
    /\ q.terminal \in Sharing!Ends \cup {None} /\ q.closed \in BOOLEAN

QueuesOK ==
    queue = [l \in Listeners |-> queue[l]] /\ \A l \in Listeners : QueueOK(queue[l])

FinishRecords == [feeds : SUBSET Feeds, by : Workers \cup Listeners]
JobRecords == [feed : Feeds, end : Sharing!Ends, targets : SUBSET Listeners]

RecordsOK ==
    /\ closed \in BOOLEAN /\ lock \in Listeners \cup {None} /\ registry \subseteq Feeds
    /\ feed \in [Feeds -> FeedRecords]
    /\ task \in [Feeds -> TaskRecords]
    /\ QueuesOK
    /\ call \in [Listeners -> CallRecords]
    /\ feedReader \in [Listeners -> {"idle", "poll", "asleep"}]
    /\ finishing \in [Listeners -> FinishRecords \cup {None}]
    /\ job \in [Workers -> JobRecords \cup {None}]
    /\ closing \in (SUBSET Feeds) \cup {None}

\* What the argument sees of the records.
Hearing(f) == feed[f].listeners
Stopped(f) == feed[f].stop
IsReady(f) == feed[f].ready
Latest(f) == feed[f].current
FeedEnd(f) == feed[f].terminal
Unused(f) == task[f].pc = "new"
Over(f) == task[f].pc = "done"
FeedsOf(l) == queue[l].feeds
Shown(l, t) == queue[l].states[t]
ListenerEnd(l) == queue[l].terminal
Shut(l) == queue[l].closed
Leaving(l) == finishing[l] # None
LeavingOf(l) == IF finishing[l] = None THEN {} ELSE finishing[l].feeds
Ending(a) == IF job[a] = None THEN {} ELSE job[a].targets
Holds(l, f) == lock = l /\ call[l].feed = f
Starts(f) == \E l \in Listeners : Holds(l, f) /\ call[l].start
SameTopic(f, g) == Sharing!Topic(f) = Sharing!Topic(g)

\* Listener and feed know of each other, but for a call between attaching and
\* registering and a listener that is leaving.
BothKnow ==
    /\ \A l \in Listeners :
          /\ Leaving(l) => Shut(l)
          /\ Shut(l) => FeedsOf(l) = {}
          /\ \A f \in FeedsOf(l) : l \in Hearing(f) /\ ~Unused(f)
          /\ \A f \in LeavingOf(l) : ~Unused(f)
          /\ call[l].pc = "register" <=> lock = l
          /\ lock = l => call[l].feed \in Feeds
    /\ \A f \in Feeds : \A l \in Hearing(f) :
          f \in FeedsOf(l) \/ f \in LeavingOf(l) \/ Holds(l, f)
    /\ \A f \in Feeds, l \in Listeners : Holds(l, f) =>
          /\ ~Shut(l) => l \in Hearing(f)
          /\ call[l].start <=> Unused(f)

\* An unused feed is as it was made, but for the call that starts it.
UnusedOK ==
    /\ \A f \in Feeds : Unused(f) =>
          ~IsReady(f) /\ FeedEnd(f) = None /\ Latest(f) = Sharing!NoState
    /\ \A f \in registry : ~Unused(f)
    /\ closing # None => closed /\ \A f \in closing : ~Unused(f)

\* Who is still open in a feed that stopped will be told by the task at it.
StopsTold ==
    /\ \A f \in Feeds : \A l \in Hearing(f) :
          Stopped(f) /\ ~Shut(l) => \E a \in Workers : l \in Ending(a)
    /\ \A f \in Feeds : job[f] # None => Over(f)
    /\ \A f \in Feeds : Over(f) => Stopped(f)

\* At most one feed of a topic can reach listeners.
FeedLive(f) == Hearing(f) # {} /\ ~Over(f)

OneLive ==
    /\ \A f, g \in Feeds : FeedLive(f) /\ FeedLive(g) /\ SameTopic(f, g) => f = g
    /\ \A f \in Feeds : FeedLive(f) /\ closing = None => ~Stopped(f) /\ (f \in registry \/ Starts(f))
    /\ \A f \in Feeds : ~Stopped(f) /\ ~Unused(f) => Hearing(f) # {}
    /\ \A f \in Feeds : Unused(f) /\ feed[f] # Sharing!NewFeed /\ ~Stopped(f) => Hearing(f) # {}

MirrorOK ==
    \A f \in Feeds : \A l \in Hearing(f) : ~Stopped(f) /\ ~Shut(l) =>
        Shown(l, Sharing!Topic(f)) = IF IsReady(f) THEN Latest(f) ELSE Sharing!NoState

\* A call that attaches shows only what the feeds of the topics so far sent.
Past(l, t) ==
    \E i \in DOMAIN Selection[l] :
        /\ t = Selection[l][i]
        /\ i < call[l].turn \/ (i = call[l].turn /\ call[l].pc = "register")

OnlyPast ==
    \A l \in Listeners : call[l].pc \in Early /\ ~Shut(l) =>
        /\ \A f \in FeedsOf(l) : Past(l, Sharing!Topic(f))
        /\ \A f \in Feeds : Holds(l, f) => Past(l, Sharing!Topic(f))
        /\ \A t \in Topics : Shown(l, t) # Sharing!NoState => Past(l, t)

\* What a subscribe call knows and what its error will be.
Chosen(l) == call[l].selected
CallRight(l) ==
    /\ call[l].error = "Closed" =>
          closed \/ (call[l].pc \notin {"drop", "failed"} /\ Shut(l))
    /\ call[l].pc \in {"select", "register"} =>
          Len(Chosen(l)) = call[l].turn - 1 /\ call[l].turn <= Len(Selection[l])
    /\ call[l].pc \in Setups =>
          call[l].turn \in DOMAIN Chosen(l) /\ Len(Chosen(l)) >= Len(Selection[l])
    /\ call[l].pc \in Early \cup Setups =>
          \A i \in DOMAIN Chosen(l) : Chosen(l)[i] \in FeedsOf(l) \/ Shut(l)
    /\ call[l].pc = "idle" => Chosen(l) = <<>> /\ call[l].turn = 1
    /\ Shut(l) /\ call[l].pc \notin {"open", "failed"} => ListenerEnd(l) # None
    /\ feedReader[l] # "idle" => call[l].pc = "open"

CausesOK ==
    /\ \A l \in Listeners : ListenerEnd(l) = "Closed" => closed
    /\ \A a \in Workers : job[a] # None /\ job[a].end = "Closed" => closed
    /\ \A f \in Feeds : FeedEnd(f) = "Closed" => closed
    /\ \A f \in Feeds : Stopped(f) /\ FeedEnd(f) = None => Hearing(f) = {}

CallsRight == \A l \in Listeners : CallRight(l)

SharingInv ==
    /\ RecordsOK /\ BothKnow /\ UnusedOK /\ StopsTold /\ OneLive /\ MirrorOK /\ OnlyPast
    /\ CallsRight /\ CausesOK


\* The values for "none" and the types of what is looked at.
LEMMA SharingTypes ==
    ASSUME Sharing!SharedAssumption
    PROVE  /\ None \notin Listeners /\ None \notin Sharing!Ends
           /\ None # "Protocol" /\ None # "Timeout" /\ Closer \notin Feeds
           /\ \A fs \in SUBSET Feeds : fs # None
           /\ \A x \in FinishRecords : x # None
           /\ \A x \in JobRecords : x # None
           /\ \A f \in Feeds : Sharing!Topic(f) \in Topics
           /\ Feeds \subseteq Workers /\ Closer \in Workers /\ Workers = Feeds \cup {Closer}
BY DEF Sharing!SharedAssumption, Feeds, Workers, Sharing!Tasks, FinishRecords, JobRecords,
       Sharing!Feeds, Sharing!Topic

LEMMA ViewTypes ==
    ASSUME RecordsOK
    PROVE  /\ \A f \in Feeds :
                 /\ Hearing(f) \subseteq Listeners /\ Stopped(f) \in BOOLEAN
                 /\ IsReady(f) \in BOOLEAN /\ Latest(f) \in Nat
                 /\ FeedEnd(f) \in Sharing!Ends \cup {None} /\ feed[f] \in FeedRecords
                 /\ task[f] \in TaskRecords
           /\ \A l \in Listeners :
                 /\ FeedsOf(l) \subseteq Feeds /\ LeavingOf(l) \subseteq Feeds
                 /\ Shut(l) \in BOOLEAN /\ QueueOK(queue[l])
                 /\ ListenerEnd(l) \in Sharing!Ends \cup {None}
                 /\ \A t \in Topics : Shown(l, t) \in Nat
                 /\ call[l] \in CallRecords
           /\ \A a \in Workers : Ending(a) \subseteq Listeners
<1>1. ASSUME NEW f \in Feeds
      PROVE  /\ Hearing(f) \subseteq Listeners /\ Stopped(f) \in BOOLEAN
             /\ IsReady(f) \in BOOLEAN /\ Latest(f) \in Nat
             /\ FeedEnd(f) \in Sharing!Ends \cup {None} /\ feed[f] \in FeedRecords
             /\ task[f] \in TaskRecords
  <2>1. feed[f] \in FeedRecords /\ task[f] \in TaskRecords BY DEF RecordsOK, QueuesOK
  <2> QED BY <2>1 DEF FeedRecords, Hearing, Stopped, IsReady, Latest, FeedEnd
<1>2. ASSUME NEW l \in Listeners
      PROVE  /\ FeedsOf(l) \subseteq Feeds /\ LeavingOf(l) \subseteq Feeds
             /\ Shut(l) \in BOOLEAN /\ QueueOK(queue[l])
             /\ ListenerEnd(l) \in Sharing!Ends \cup {None}
             /\ \A t \in Topics : Shown(l, t) \in Nat
             /\ call[l] \in CallRecords
  <2>1. QueueOK(queue[l]) /\ call[l] \in CallRecords BY DEF RecordsOK, QueuesOK
  <2>2. finishing[l] \in FinishRecords \cup {None} BY DEF RecordsOK, QueuesOK
  <2>3. LeavingOf(l) \subseteq Feeds BY <2>2 DEF LeavingOf, FinishRecords
  <2> QED BY <2>1, <2>3 DEF QueueOK, FeedsOf, Shut, ListenerEnd, Shown
<1>3. ASSUME NEW a \in Workers PROVE Ending(a) \subseteq Listeners
  <2>1. job[a] \in JobRecords \cup {None} BY DEF RecordsOK, QueuesOK
  <2> QED BY <2>1 DEF Ending, JobRecords
<1> QED BY <1>1, <1>2, <1>3

\* One feed changes.
LEMMA FeedPut ==
    ASSUME RecordsOK, NEW f \in Feeds, NEW x \in FeedRecords, feed' = [feed EXCEPT ![f] = x]
    PROVE  /\ feed' \in [Feeds -> FeedRecords] /\ feed'[f] = x
           /\ Hearing(f)' = x.listeners /\ Stopped(f)' = x.stop /\ IsReady(f)' = x.ready
           /\ Latest(f)' = x.current /\ FeedEnd(f)' = x.terminal
           /\ \A g \in Feeds : g # f =>
                 /\ feed'[g] = feed[g] /\ Hearing(g)' = Hearing(g)
                 /\ Stopped(g)' = Stopped(g) /\ IsReady(g)' = IsReady(g)
                 /\ Latest(g)' = Latest(g) /\ FeedEnd(g)' = FeedEnd(g)
<1>1. feed \in [Feeds -> FeedRecords] BY DEF RecordsOK, QueuesOK
<1>2. feed' \in [Feeds -> FeedRecords] /\ feed'[f] = x BY <1>1
<1>3. \A g \in Feeds : g # f => feed'[g] = feed[g] BY <1>1
<1> QED BY <1>2, <1>3, Zenon DEF Hearing, Stopped, IsReady, Latest, FeedEnd

LEMMA DetachedIs ==
    ASSUME NEW r \in FeedRecords, NEW l
    PROVE  LET d == Sharing!Detached(r, l) IN
           /\ d \in FeedRecords /\ d.listeners = r.listeners \ {l}
           /\ d.ready = r.ready /\ d.terminal = r.terminal
           /\ d.stop <=> r.stop \/ d.listeners = {}
           /\ d.listeners # {} => d.current = r.current
           /\ r.current = Sharing!NoState => d.current = Sharing!NoState
BY DEF FeedRecords, Sharing!Detached, Sharing!NoState

\* One listener's queue changes.
QueueSet(l, x) == queue' = [queue EXCEPT ![l] = x]

LEMMA QueuePut ==
    ASSUME RecordsOK, NEW l \in Listeners, NEW x, QueueOK(x), QueueSet(l, x)
    PROVE  /\ QueuesOK' /\ queue'[l] = x
           /\ FeedsOf(l)' = x.feeds /\ Shut(l)' = x.closed /\ ListenerEnd(l)' = x.terminal
           /\ \A k \in Listeners : k # l =>
                 /\ queue'[k] = queue[k]
                 /\ FeedsOf(k)' = FeedsOf(k) /\ Shut(k)' = Shut(k)
                 /\ ListenerEnd(k)' = ListenerEnd(k)
                 /\ \A t \in Topics : Shown(k, t)' = Shown(k, t)
<1>1. /\ queue = [k \in Listeners |-> queue[k]]
      /\ \A k \in Listeners : QueueOK(queue[k])
  BY DEF RecordsOK, QueuesOK
<1>2. /\ queue' = [k \in Listeners |-> queue'[k]] /\ queue'[l] = x
      /\ \A k \in Listeners : k # l => queue'[k] = queue[k]
  BY <1>1 DEF QueueSet
<1>3. \A k \in Listeners : QueueOK(queue'[k]) BY <1>1, <1>2
<1>4. QueuesOK' BY <1>2, <1>3, Zenon DEF QueuesOK
<1> QED BY <1>2, <1>4, Zenon DEF FeedsOf, Shut, ListenerEnd, Shown

\* What a queue shows of a topic is set.
LEMMA SetStateIs ==
    ASSUME NEW q, QueueOK(q), NEW t \in Topics, NEW g \in Nat
    PROVE  LET r == Sharing!SetState(q, t, g) IN
           /\ QueueOK(r) /\ r.feeds = q.feeds /\ r.closed = q.closed /\ r.terminal = q.terminal
           /\ q.closed => r = q
           /\ ~q.closed => r.states = [q.states EXCEPT ![t] = g]
<1>1. CASE q.closed BY <1>1 DEF Sharing!SetState
<1>2. CASE ~q.closed
  <2> DEFINE es == Sharing!KeptEvents(q.events, t, g)
             r == QueueOf(q.feeds, [q.states EXCEPT ![t] = g], TRUE, es, q.terminal, q.closed,
                          TRUE)
  <2> HIDE DEF es
  <2>1. Sharing!SetState(q, t, g) = r
    BY <1>2 DEF Sharing!SetState, QueueOK, QueueOf, es
  <2>2. /\ r.feeds = q.feeds /\ r.states = [q.states EXCEPT ![t] = g] /\ r.changed = TRUE
        /\ r.events = es /\ r.terminal = q.terminal /\ r.closed = q.closed /\ r.permit = TRUE
    BY DEF QueueOf
  <2>3. r.states \in [Topics -> Nat] BY <2>2 DEF QueueOK
  <2>4. QueueOK(r) BY <2>2, <2>3, Zenon DEF QueueOK
  <2> QED BY <1>2, <2>1, <2>2, <2>4
<1> QED BY <1>1, <1>2


\* One field of a queue, and the three of a close.
ClosedIn(q, x) == [q EXCEPT !.closed = x]
TerminalIn(q, x) == [q EXCEPT !.terminal = x]
PermitIn(q, x) == [q EXCEPT !.permit = x]

LEMMA QueueFields ==
    \A fs, shown, flag, es, end, over, woken, x :
        /\ ClosedIn(QueueOf(fs, shown, flag, es, end, over, woken), x)
             = QueueOf(fs, shown, flag, es, end, x, woken)
        /\ TerminalIn(QueueOf(fs, shown, flag, es, end, over, woken), x)
             = QueueOf(fs, shown, flag, es, x, over, woken)
        /\ PermitIn(QueueOf(fs, shown, flag, es, end, over, woken), x)
             = QueueOf(fs, shown, flag, es, end, over, x)
BY DEF QueueOf, ClosedIn, TerminalIn, PermitIn

\* A queue is closed, once.
LEMMA CloseQueueIs ==
    ASSUME Sharing!SharedAssumption, RecordsOK, BothKnow, NEW l \in Listeners,
           NEW end \in Sharing!Ends \cup {None}, NEW a \in Workers \cup Listeners,
           Sharing!CloseQueue(l, end, a)
    PROVE  /\ QueuesOK'
           /\ finishing' \in [Listeners -> FinishRecords \cup {None}]
           /\ Shut(l)' = TRUE
           /\ Shut(l) => /\ FeedsOf(l)' = FeedsOf(l) /\ LeavingOf(l)' = LeavingOf(l)
                         /\ end # None => ListenerEnd(l)' = ListenerEnd(l)
           /\ ~Shut(l) => /\ FeedsOf(l)' = {} /\ LeavingOf(l)' = FeedsOf(l)
                          /\ ListenerEnd(l)' = end
           /\ \A k \in Listeners : k # l =>
                 /\ FeedsOf(k)' = FeedsOf(k) /\ Shut(k)' = Shut(k)
                 /\ ListenerEnd(k)' = ListenerEnd(k)
                 /\ \A t \in Topics : Shown(k, t)' = Shown(k, t)
                 /\ Leaving(k)' = Leaving(k) /\ LeavingOf(k)' = LeavingOf(k)
           /\ ListenerEnd(l)' \in {None, end, ListenerEnd(l)}
<1>1. QueueOK(queue[l]) /\ finishing \in [Listeners -> FinishRecords \cup {None}]
  BY DEF RecordsOK, QueuesOK
<1>2. CASE queue[l].closed
  <2>1. UNCHANGED finishing BY <1>2 DEF Sharing!CloseQueue
  <2>2. CASE end # None
    <3>1. UNCHANGED queue BY <1>2, <2>2 DEF Sharing!CloseQueue
    <3> QED BY <1>1, <1>2, <2>1, <2>2, <3>1
            DEF RecordsOK, QueuesOK, Shut, FeedsOf, ListenerEnd, Shown, Leaving, LeavingOf
  <2>3. CASE end = None
    <3> DEFINE q == queue[l]
               x == QueueOf(q.feeds, q.states, q.changed, q.events, None, q.closed, q.permit)
    <3>1. queue' = [queue EXCEPT ![l].terminal = None] BY <1>2, <2>3 DEF Sharing!CloseQueue
    <3>2. [q EXCEPT !.terminal = None] = x BY <1>1 DEF QueueOK, QueueOf
    <3>3. QueueSet(l, x)
      <4> HIDE DEF x
      <4> QED BY <3>1, <3>2 DEF QueueSet
    <3>4. /\ x.feeds = q.feeds /\ x.states = q.states /\ x.changed = q.changed
          /\ x.events = q.events /\ x.terminal = None /\ x.closed = q.closed
          /\ x.permit = q.permit
      BY DEF QueueOf
    <3>5. QueueOK(x) BY <1>1, <3>4, Zenon DEF QueueOK
    <3> HIDE DEF x
    <3>6. x.feeds = FeedsOf(l) /\ x.closed = TRUE /\ Shut(l)
      BY <1>2, <3>4 DEF FeedsOf, Shut
    <3> QED BY <1>1, <2>1, <2>3, <3>3, <3>4, <3>5, <3>6, QueuePut DEF Leaving, LeavingOf
  <2> QED BY <2>2, <2>3
<1>3. CASE ~queue[l].closed
  <2> DEFINE shown == [t \in Topics |-> Sharing!NoState]
             p == queue[l].permit
             x == QueueOf({}, shown, FALSE, <<>>, end, TRUE, p)
             r == [feeds |-> queue[l].feeds, by |-> a]
  <2>1. /\ queue' = [queue EXCEPT ![l] =
                       [Sharing!NewQueue EXCEPT !.closed = TRUE, !.terminal = end, !.permit = p]]
        /\ finishing' = [finishing EXCEPT ![l] = r]
    BY <1>3 DEF Sharing!CloseQueue
  <2>2. [Sharing!NewQueue EXCEPT !.closed = TRUE, !.terminal = end, !.permit = p] = x
    <3>1. Sharing!NewQueue = QueueOf({}, shown, FALSE, <<>>, None, FALSE, FALSE)
      BY DEF Sharing!NewQueue, QueueOf
    <3> DEFINE yes == TRUE
    <3>2. [Sharing!NewQueue EXCEPT !.closed = yes, !.terminal = end, !.permit = p]
            = PermitIn(TerminalIn(ClosedIn(Sharing!NewQueue, yes), end), p)
      BY DEF PermitIn, TerminalIn, ClosedIn
    <3> HIDE DEF shown, p, yes
    <3>3. PermitIn(TerminalIn(ClosedIn(Sharing!NewQueue, yes), end), p)
            = QueueOf({}, shown, FALSE, <<>>, end, yes, p)
      <4> DEFINE no == FALSE
                 q == QueueOf({}, shown, no, <<>>, None, no, no)
      <4> HIDE DEF no
      <4>1. ClosedIn(q, yes) = QueueOf({}, shown, no, <<>>, None, yes, no)
        BY QueueFields
      <4>2. TerminalIn(ClosedIn(q, yes), end) = QueueOf({}, shown, no, <<>>, end, yes, no)
        BY <4>1, QueueFields
      <4>3. PermitIn(TerminalIn(ClosedIn(q, yes), end), p)
              = QueueOf({}, shown, no, <<>>, end, yes, p)
        BY <4>2, QueueFields
      <4> QED BY <3>1, <4>3, Zenon DEF no
    <3> QED BY <3>2, <3>3 DEF yes
  <2>3. QueueSet(l, x) BY <2>1, <2>2 DEF QueueSet
  <2>4. /\ x.feeds = {} /\ x.states = shown /\ x.changed = FALSE
        /\ x.events = <<>> /\ x.terminal = end /\ x.closed = TRUE /\ x.permit = p
    BY DEF QueueOf
  <2>5. shown \in [Topics -> Nat] BY DEF Sharing!NoState
  <2> HIDE DEF shown, p
  <2>6. QueueOK(x)
    <3>1. x = QueueOf(x.feeds, x.states, x.changed, x.events, x.terminal, x.closed, x.permit)
      BY <2>4, Zenon
    <3> HIDE DEF x
    <3> QED BY <2>4, <2>5, <3>1 DEF QueueOK
  <2>7. r \in FinishRecords /\ r.feeds = FeedsOf(l)
    BY <1>1 DEF QueueOK, FinishRecords, FeedsOf
  <2> HIDE DEF x, r
  <2>8. /\ finishing' \in [Listeners -> FinishRecords \cup {None}] /\ finishing'[l] = r
        /\ \A k \in Listeners : k # l => finishing'[k] = finishing[k]
    BY <1>1, <2>1, <2>7
  <2>9. r # None BY <2>7, SharingTypes
  <2>10. /\ LeavingOf(l)' = FeedsOf(l)
         /\ \A k \in Listeners : k # l =>
               Leaving(k)' = Leaving(k) /\ LeavingOf(k)' = LeavingOf(k)
    BY <2>7, <2>8, <2>9 DEF LeavingOf, Leaving
  <2>11. ~Shut(l) BY <1>3 DEF Shut
  <2> QED BY <2>3, <2>4, <2>6, <2>8, <2>10, <2>11, QueuePut
<1> QED BY <1>2, <1>3

\* A feed publishes its state to those who listen, if it is ready.
LEMMA PublishedIs ==
    ASSUME RecordsOK, NEW d \in FeedRecords, NEW t \in Topics,
           queue' = Sharing!Published(d, t)
    PROVE  /\ QueuesOK'
           /\ \A l \in Listeners :
                 /\ FeedsOf(l)' = FeedsOf(l) /\ Shut(l)' = Shut(l)
                 /\ ListenerEnd(l)' = ListenerEnd(l)
                 /\ \A u \in Topics : Shown(l, u)' =
                       IF d.ready /\ l \in d.listeners /\ ~Shut(l) /\ u = t
                       THEN d.current ELSE Shown(l, u)
<1>1. d.current \in Nat BY DEF FeedRecords
<1>2. ASSUME NEW l \in Listeners
      PROVE  /\ QueueOK(queue'[l])
             /\ FeedsOf(l)' = FeedsOf(l) /\ Shut(l)' = Shut(l)
             /\ ListenerEnd(l)' = ListenerEnd(l)
             /\ \A u \in Topics : Shown(l, u)' =
                   IF d.ready /\ l \in d.listeners /\ ~Shut(l) /\ u = t
                   THEN d.current ELSE Shown(l, u)
  <2>1. QueueOK(queue[l]) BY DEF RecordsOK, QueuesOK
  <2>2. CASE d.ready /\ l \in d.listeners
    <3>1. queue'[l] = Sharing!SetState(queue[l], t, d.current)
      BY <2>2, Zenon DEF Sharing!Published
    <3>2. CASE queue[l].closed
      <4>1. queue'[l] = queue[l] BY <3>1, <3>2 DEF Sharing!SetState
      <4> QED BY <2>1, <3>2, <4>1 DEF FeedsOf, Shut, ListenerEnd, Shown
    <3>3. CASE ~queue[l].closed
      <4>1. /\ QueueOK(queue'[l]) /\ queue'[l].feeds = queue[l].feeds
            /\ queue'[l].closed = queue[l].closed /\ queue'[l].terminal = queue[l].terminal
            /\ queue'[l].states = [queue[l].states EXCEPT ![t] = d.current]
        BY <1>1, <2>1, <3>1, <3>3, SetStateIs
      <4>2. queue[l].states \in [Topics -> Nat] BY <2>1 DEF QueueOK
      <4> QED BY <2>2, <3>3, <4>1, <4>2 DEF FeedsOf, Shut, ListenerEnd, Shown
    <3> QED BY <3>2, <3>3
  <2>3. CASE ~(d.ready /\ l \in d.listeners)
    <3>1. queue'[l] = queue[l] BY <2>3, Zenon DEF Sharing!Published
    <3> QED BY <2>1, <2>3, <3>1, Zenon DEF FeedsOf, Shut, ListenerEnd, Shown
  <2> QED BY <2>2, <2>3
<1>3. queue' = [k \in Listeners |-> queue'[k]] BY DEF Sharing!Published
<1>4. QueuesOK' BY <1>2, <1>3, Zenon DEF QueuesOK
<1> QED BY <1>2, <1>4

LEMMA StartFinishIs ==
    ASSUME Sharing!SharedAssumption, RecordsOK, NEW a \in Workers, NEW f \in Feeds,
           NEW end \in Sharing!Ends, Sharing!StartFinish(a, f, end)
    PROVE  /\ feed' \in [Feeds -> FeedRecords]
           /\ job' \in [Workers -> JobRecords \cup {None}]
           /\ \A g \in Feeds : Hearing(g)' = Hearing(g) /\ IsReady(g)' = IsReady(g)
           /\ Stopped(f)' = TRUE /\ FeedEnd(f)' = end /\ Latest(f)' = Sharing!NoState
           /\ \A g \in Feeds : g # f =>
                 /\ Stopped(g)' = Stopped(g) /\ FeedEnd(g)' = FeedEnd(g)
                 /\ Latest(g)' = Latest(g) /\ feed'[g] = feed[g]
           /\ Ending(a)' = Hearing(f) /\ job'[a].end = end
           /\ \A b \in Workers : b # a => job'[b] = job[b] /\ Ending(b)' = Ending(b)
<1> DEFINE x == [feed[f] EXCEPT !.stop = TRUE, !.current = Sharing!NoState, !.terminal = end]
           j == [feed |-> f, end |-> end, targets |-> feed[f].listeners]
<1>1. feed[f] \in FeedRecords /\ job \in [Workers -> JobRecords \cup {None}] BY DEF RecordsOK, QueuesOK
<1>2. /\ x \in FeedRecords /\ x.listeners = feed[f].listeners /\ x.stop = TRUE
      /\ x.ready = feed[f].ready /\ x.current = Sharing!NoState /\ x.terminal = end
  BY <1>1 DEF FeedRecords, Sharing!NoState
<1>3. j \in JobRecords /\ j.end = end /\ j.targets = Hearing(f)
  BY <1>1 DEF JobRecords, FeedRecords, Hearing
<1>4. feed' = [feed EXCEPT ![f] = x] /\ job' = [job EXCEPT ![a] = j]
  BY DEF Sharing!StartFinish
<1> HIDE DEF x, j
<1>5. j # None BY <1>3, SharingTypes
<1>6. /\ job' \in [Workers -> JobRecords \cup {None}] /\ job'[a] = j
      /\ \A b \in Workers : b # a => job'[b] = job[b]
  BY <1>1, <1>3, <1>4
<1>7. Ending(a)' = Hearing(f) /\ \A b \in Workers : b # a => Ending(b)' = Ending(b)
  BY <1>3, <1>5, <1>6 DEF Ending
<1>8. Hearing(f)' = Hearing(f) /\ IsReady(f)' = IsReady(f)
  BY <1>2, <1>4, FeedPut DEF Hearing, IsReady
<1> QED BY <1>2, <1>3, <1>4, <1>6, <1>7, <1>8, FeedPut


\* Steps that change nothing of this but what is buffered, woken, read and told.
StructInv == BothKnow /\ UnusedOK /\ StopsTold /\ OneLive /\ MirrorOK /\ OnlyPast

SameQueues ==
    \A l \in Listeners :
        /\ FeedsOf(l)' = FeedsOf(l) /\ Shut(l)' = Shut(l)
        /\ \A t \in Topics : Shown(l, t)' = Shown(l, t)

SameTasks == \A f \in Feeds : Unused(f)' = Unused(f) /\ Over(f)' = Over(f)

SameJobs ==
    /\ \A a \in Workers : Ending(a)' = Ending(a)
    /\ \A f \in Feeds : job'[f] # None => job[f] # None

SameLeaving == \A l \in Listeners : LeavingOf(l)' = LeavingOf(l) /\ (Leaving(l)' => Leaving(l))

SameCalls ==
    \A l \in Listeners :
        /\ lock = l => call'[l].feed = call[l].feed /\ call'[l].start = call[l].start
        /\ call'[l].pc = "register" <=> call[l].pc = "register"
        /\ call'[l].pc \in Early /\ ~Shut(l) =>
              call[l].pc \in Early /\ \A t \in Topics : Past(l, t) => Past(l, t)'

FeedQuiet ==
    /\ UNCHANGED <<lock, registry, feed, closing>>
    /\ closed => closed'
    /\ SameQueues /\ SameTasks /\ SameJobs /\ SameLeaving /\ SameCalls

LEMMA SameHolds ==
    ASSUME UNCHANGED lock, SameCalls
    PROVE  /\ \A l \in Listeners, f \in Feeds : Holds(l, f)' <=> Holds(l, f)
           /\ \A f \in Feeds : Starts(f)' <=> Starts(f)
BY DEF SameCalls, Holds, Starts

LEMMA SameFeed ==
    ASSUME NEW f, feed'[f] = feed[f]
    PROVE  /\ Hearing(f)' = Hearing(f) /\ Stopped(f)' = Stopped(f)
           /\ IsReady(f)' = IsReady(f) /\ Latest(f)' = Latest(f) /\ FeedEnd(f)' = FeedEnd(f)
BY DEF Hearing, Stopped, IsReady, Latest, FeedEnd

\* Who knows of whom does not change.
LEMMA KnowKept ==
    ASSUME RecordsOK, BothKnow, lock' = lock, SameTasks, SameLeaving, SameCalls,
           \A f \in Feeds : Hearing(f)' = Hearing(f),
           \A l \in Listeners : FeedsOf(l)' = FeedsOf(l) /\ Shut(l)' = Shut(l)
    PROVE  BothKnow'
<1>1. \A l \in Listeners, f \in Feeds : Holds(l, f)' <=> Holds(l, f) BY SameHolds
<1>2. \A f \in Feeds : Hearing(f) \subseteq Listeners BY ViewTypes
<1>3. ASSUME NEW l \in Listeners
      PROVE  /\ Leaving(l)' => Shut(l)'
             /\ Shut(l)' => FeedsOf(l)' = {}
             /\ \A f \in FeedsOf(l)' : l \in Hearing(f)' /\ ~Unused(f)'
             /\ \A f \in LeavingOf(l)' : ~Unused(f)'
  <2>1. FeedsOf(l) \subseteq Feeds /\ LeavingOf(l) \subseteq Feeds BY ViewTypes
  <2> QED BY <2>1 DEF SameTasks, SameLeaving, BothKnow
<1>4. \A l \in Listeners :
        /\ (call[l].pc = "register")' <=> lock' = l
        /\ lock' = l => call'[l].feed \in Feeds
  BY DEF SameCalls, BothKnow
<1>5. \A f \in Feeds : \A l \in Hearing(f)' :
        f \in FeedsOf(l)' \/ f \in LeavingOf(l)' \/ Holds(l, f)'
  BY <1>1, <1>2 DEF SameLeaving, BothKnow
<1>6. ASSUME NEW f \in Feeds, NEW l \in Listeners, Holds(l, f)'
      PROVE  (~Shut(l)' => l \in Hearing(f)') /\ ((call[l].start)' <=> Unused(f)')
  <2>1. Holds(l, f) BY <1>1, <1>6
  <2>2. (call[l].start)' = call[l].start BY <2>1 DEF Holds, SameCalls
  <2> QED BY <2>1, <2>2 DEF SameTasks, BothKnow
<1> QED BY <1>3, <1>4, <1>5, <1>6 DEF BothKnow

LEMMA QuietStep ==
    ASSUME Sharing!SharedAssumption, RecordsOK, StructInv, FeedQuiet
    PROVE  StructInv'
<1>0. lock' = lock /\ registry' = registry /\ feed' = feed /\ closing' = closing BY DEF FeedQuiet
<1>1. \A f \in Feeds : feed'[f] = feed[f] BY <1>0
<1>2. \A f \in Feeds :
        /\ Hearing(f)' = Hearing(f) /\ Stopped(f)' = Stopped(f)
        /\ IsReady(f)' = IsReady(f) /\ Latest(f)' = Latest(f) /\ FeedEnd(f)' = FeedEnd(f)
  BY <1>1, SameFeed
<1>3. /\ \A l \in Listeners, f \in Feeds : Holds(l, f)' <=> Holds(l, f)
      /\ \A f \in Feeds : Starts(f)' <=> Starts(f)
  BY <1>0, SameHolds DEF FeedQuiet
<1>4. \A f \in Feeds : FeedLive(f)' <=> FeedLive(f)
  BY <1>2 DEF FeedQuiet, SameTasks, FeedLive
<1>5. \A f \in Feeds : Sharing!Topic(f) \in Topics BY SharingTypes
<1>6. \A f \in Feeds : Hearing(f) \subseteq Listeners BY ViewTypes
<1>7. BothKnow'
  BY <1>0, <1>2, KnowKept DEF FeedQuiet, SameQueues, StructInv
<1>8. UnusedOK'
  BY <1>0, <1>2 DEF FeedQuiet, SameTasks, StructInv, UnusedOK, RecordsOK
<1>9. StopsTold'
  BY <1>2, <1>6 DEF FeedQuiet, SameTasks, SameQueues, SameJobs, StructInv, StopsTold
<1>10. OneLive'
  <2>1. \A f, g \in Feeds : SameTopic(f, g)' = SameTopic(f, g) BY DEF SameTopic
  <2> QED BY <1>0, <1>1, <1>2, <1>3, <1>4, <2>1
          DEF FeedQuiet, SameTasks, StructInv, OneLive
<1>11. MirrorOK'
  BY <1>2, <1>5, <1>6 DEF FeedQuiet, SameQueues, StructInv, MirrorOK
<1>12. OnlyPast'
  <2> SUFFICES ASSUME NEW l \in Listeners, call'[l].pc \in Early, ~Shut(l)'
               PROVE  /\ \A f \in FeedsOf(l)' : Past(l, Sharing!Topic(f))'
                      /\ \A f \in Feeds : Holds(l, f)' => Past(l, Sharing!Topic(f))'
                      /\ \A t \in Topics : Shown(l, t)' # Sharing!NoState => Past(l, t)'
    BY DEF OnlyPast
  <2>1. /\ ~Shut(l) /\ call[l].pc \in Early /\ \A t \in Topics : Past(l, t) => Past(l, t)'
        /\ FeedsOf(l)' = FeedsOf(l) /\ \A t \in Topics : Shown(l, t)' = Shown(l, t)
    BY DEF FeedQuiet, SameQueues, SameCalls
  <2>2. FeedsOf(l) \subseteq Feeds BY ViewTypes
  <2>3. /\ \A f \in FeedsOf(l) : Past(l, Sharing!Topic(f))
        /\ \A f \in Feeds : Holds(l, f) => Past(l, Sharing!Topic(f))
        /\ \A t \in Topics : Shown(l, t) # Sharing!NoState => Past(l, t)
    BY <2>1 DEF StructInv, OnlyPast
  <2>4. \A f \in Feeds : Past(l, Sharing!Topic(f)) => Past(l, Sharing!Topic(f))'
    BY <1>5, <2>1 DEF Past
  <2> QED BY <1>3, <2>1, <2>2, <2>3, <2>4
<1> QED BY <1>7, <1>8, <1>9, <1>10, <1>11, <1>12 DEF StructInv


\* What a listener of a feed has asked for, while it attaches.
LEMMA HeardIsPast ==
    ASSUME Sharing!SharedAssumption, RecordsOK, StructInv, NEW f \in Feeds,
           NEW l \in Hearing(f), ~Shut(l), call[l].pc \in Early
    PROVE  Past(l, Sharing!Topic(f))
<1>1. l \in Listeners BY ViewTypes
<1>2. ~Leaving(l) BY <1>1 DEF StructInv, BothKnow
<1>3. f \in FeedsOf(l) \/ Holds(l, f) BY <1>1, <1>2 DEF StructInv, BothKnow, Leaving, LeavingOf
<1> QED BY <1>1, <1>3 DEF StructInv, OnlyPast

\* A feed that receives changes, and publishes p: listeners, end and stop stay.
LEMMA PublishStep ==
    ASSUME Sharing!SharedAssumption, RecordsOK, StructInv,
           NEW f \in Feeds, ~Unused(f), ~Over(f),
           NEW d \in FeedRecords, feed' = [feed EXCEPT ![f] = d],
           d.listeners = Hearing(f), d.stop = Stopped(f), d.terminal = FeedEnd(f),
           NEW p \in FeedRecords, queue' = Sharing!Published(p, Sharing!Topic(f)),
           p.listeners = Hearing(f), p.current = d.current,
           p.ready \/ (~d.ready /\ ~IsReady(f)),
           p.ready => (d.ready \/ d.current = Sharing!NoState),
           UNCHANGED <<closed, lock, registry, closing>>,
           SameTasks, SameJobs, SameLeaving, SameCalls
    PROVE  /\ StructInv'
           /\ feed' \in [Feeds -> FeedRecords]
           /\ QueuesOK'
           /\ \A l \in Listeners :
                 /\ FeedsOf(l)' = FeedsOf(l) /\ Shut(l)' = Shut(l)
                 /\ ListenerEnd(l)' = ListenerEnd(l)
           /\ \A g \in Feeds : FeedEnd(g)' = FeedEnd(g) /\ Stopped(g)' = Stopped(g)
                               /\ Hearing(g)' = Hearing(g)
<1> DEFINE t == Sharing!Topic(f)
<1>1. t \in Topics /\ \A g \in Feeds : Sharing!Topic(g) \in Topics BY SharingTypes
<1>2. /\ QueuesOK'
      /\ \A l \in Listeners :
            /\ FeedsOf(l)' = FeedsOf(l) /\ Shut(l)' = Shut(l)
            /\ ListenerEnd(l)' = ListenerEnd(l)
            /\ \A u \in Topics : Shown(l, u)' =
                  IF p.ready /\ l \in Hearing(f) /\ ~Shut(l) /\ u = t
                  THEN d.current ELSE Shown(l, u)
  BY <1>1, PublishedIs
<1>3. /\ feed' \in [Feeds -> FeedRecords]
      /\ \A g \in Feeds : /\ FeedEnd(g)' = FeedEnd(g) /\ Stopped(g)' = Stopped(g)
                          /\ Hearing(g)' = Hearing(g)
      /\ IsReady(f)' = d.ready /\ Latest(f)' = d.current
      /\ \A g \in Feeds : g # f =>
            feed'[g] = feed[g] /\ IsReady(g)' = IsReady(g) /\ Latest(g)' = Latest(g)
  BY FeedPut
<1>4. lock' = lock /\ registry' = registry /\ closing' = closing /\ closed' = closed OBVIOUS
<1>5. \A g \in Feeds : Hearing(g) \subseteq Listeners BY ViewTypes
<1>6. BothKnow' BY <1>2, <1>3, <1>4, KnowKept DEF StructInv
<1>7. UnusedOK'
  BY <1>3, <1>4 DEF SameTasks, StructInv, UnusedOK, RecordsOK
<1>8. StopsTold'
  BY <1>2, <1>3, <1>5 DEF SameTasks, SameJobs, StructInv, StopsTold
<1>9. OneLive'
  <2>1. \A g \in Feeds : Starts(g)' <=> Starts(g) BY <1>4, SameHolds
  <2>2. \A g \in Feeds : FeedLive(g)' <=> FeedLive(g) BY <1>3 DEF FeedLive, SameTasks
  <2>3. \A g, h \in Feeds : SameTopic(g, h)' <=> SameTopic(g, h) BY DEF SameTopic
  <2>4. \A g \in Feeds : Unused(g)' => feed'[g] = feed[g] BY <1>3 DEF SameTasks
  <2> QED BY <1>3, <1>4, <2>1, <2>2, <2>3, <2>4 DEF StructInv, OneLive, SameTasks
<1>10. MirrorOK'
  <2> SUFFICES ASSUME NEW g \in Feeds, NEW l \in Hearing(g), ~Stopped(g), ~Shut(l)
               PROVE  Shown(l, Sharing!Topic(g))' =
                        IF IsReady(g)' THEN Latest(g)' ELSE Sharing!NoState
    BY <1>2, <1>3, <1>5 DEF MirrorOK
  <2>1. /\ l \in Listeners
        /\ Shown(l, Sharing!Topic(g)) = IF IsReady(g) THEN Latest(g) ELSE Sharing!NoState
    BY <1>5 DEF StructInv, MirrorOK
  <2>2. CASE g = f BY <1>1, <1>2, <1>3, <2>1, <2>2
  <2>3. CASE g # f
    <3>1. ~(l \in Hearing(f) /\ Sharing!Topic(g) = t)
      BY <2>3 DEF StructInv, OneLive, StopsTold, FeedLive, SameTopic
    <3>2. Shown(l, Sharing!Topic(g))' = Shown(l, Sharing!Topic(g)) BY <1>1, <1>2, <2>1, <3>1
    <3> QED BY <1>3, <2>1, <2>3, <3>2
  <2> QED BY <2>2, <2>3
<1>11. OnlyPast'
  <2> SUFFICES ASSUME NEW l \in Listeners, call'[l].pc \in Early, ~Shut(l)'
               PROVE  /\ \A g \in FeedsOf(l)' : Past(l, Sharing!Topic(g))'
                      /\ \A g \in Feeds : Holds(l, g)' => Past(l, Sharing!Topic(g))'
                      /\ \A u \in Topics : Shown(l, u)' # Sharing!NoState => Past(l, u)'
    BY DEF OnlyPast
  <2>1. ~Shut(l) /\ call[l].pc \in Early /\ \A u \in Topics : Past(l, u) => Past(l, u)'
    BY <1>2 DEF SameCalls
  <2>2. FeedsOf(l) \subseteq Feeds BY ViewTypes
  <2>3. /\ \A g \in FeedsOf(l) : Past(l, Sharing!Topic(g))
        /\ \A g \in Feeds : Holds(l, g) => Past(l, Sharing!Topic(g))
        /\ \A u \in Topics : Shown(l, u) # Sharing!NoState => Past(l, u)
    BY <2>1 DEF StructInv, OnlyPast
  <2>4. \A g \in Feeds : Past(l, Sharing!Topic(g)) => Past(l, Sharing!Topic(g))'
    BY <1>1, <2>1 DEF Past
  <2>5. \A g \in Feeds : Holds(l, g)' <=> Holds(l, g) BY <1>4, SameHolds
  <2>6. l \in Hearing(f) => Past(l, t) BY <2>1, HeardIsPast
  <2>7. \A u \in Topics : Shown(l, u)' # Sharing!NoState => Past(l, u)
    BY <1>2, <2>3, <2>6
  <2> QED BY <1>2, <2>1, <2>2, <2>3, <2>4, <2>5, <2>7
<1> QED BY <1>2, <1>3, <1>6, <1>7, <1>8, <1>9, <1>10, <1>11 DEF StructInv


\* The task of a feed that was stopped returns.
LEMMA StopsStep ==
    ASSUME Sharing!SharedAssumption, RecordsOK, StructInv,
           NEW f \in Feeds, Stopped(f), ~Unused(f),
           Over(f)' = TRUE, Unused(f)' = FALSE,
           \A g \in Feeds : g # f => Over(g)' = Over(g) /\ Unused(g)' = Unused(g),
           UNCHANGED <<closed, lock, registry, feed, closing, call>>,
           SameQueues, SameJobs, SameLeaving
    PROVE  StructInv'
<1>1. \A g \in Feeds :
        /\ Hearing(g)' = Hearing(g) /\ Stopped(g)' = Stopped(g) /\ IsReady(g)' = IsReady(g)
        /\ Latest(g)' = Latest(g) /\ FeedEnd(g)' = FeedEnd(g) /\ feed'[g] = feed[g]
  BY SameFeed
<1>2. /\ \A l \in Listeners, g \in Feeds : Holds(l, g)' <=> Holds(l, g)
      /\ \A g \in Feeds : Starts(g)' <=> Starts(g)
  BY DEF Holds, Starts
<1>3. lock' = lock /\ registry' = registry /\ closing' = closing /\ closed' = closed
      /\ call' = call
  OBVIOUS
<1>4. \A g \in Feeds : Unused(g)' <=> Unused(g) BY Zenon
<1>5. \A g \in Feeds : FeedLive(g)' => FeedLive(g) BY <1>1, Zenon DEF FeedLive
<1>6. \A g \in Feeds : Hearing(g) \subseteq Listeners BY ViewTypes
<1>7. \A l \in Listeners : FeedsOf(l) \subseteq Feeds /\ LeavingOf(l) \subseteq Feeds BY ViewTypes
<1>8. BothKnow'
  BY <1>1, <1>2, <1>3, <1>4, <1>6, <1>7 DEF SameQueues, SameLeaving, StructInv, BothKnow
<1>9. UnusedOK' BY <1>1, <1>3, <1>4 DEF StructInv, UnusedOK, RecordsOK
<1>10. StopsTold' BY <1>1, <1>6 DEF SameQueues, SameJobs, StructInv, StopsTold
<1>11. OneLive'
  <2>1. \A g, h \in Feeds : SameTopic(g, h)' <=> SameTopic(g, h) BY DEF SameTopic
  <2> QED BY <1>1, <1>2, <1>3, <1>4, <1>5, <2>1 DEF StructInv, OneLive
<1>12. \A g \in Feeds : Sharing!Topic(g) \in Topics BY SharingTypes
<1>13. MirrorOK' BY <1>1, <1>6, <1>12 DEF SameQueues, StructInv, MirrorOK
<1>14. OnlyPast'
  <2>1. \A l \in Listeners, u \in Topics : Past(l, u)' <=> Past(l, u) BY <1>3 DEF Past
  <2>2. \A l \in Listeners, g \in Feeds :
            Past(l, Sharing!Topic(g))' <=> Past(l, Sharing!Topic(g))
    BY <1>3 DEF Past
  <2> QED BY <1>2, <1>3, <1>7, <2>1, <2>2 DEF SameQueues, StructInv, OnlyPast
<1> QED BY <1>8, <1>9, <1>10, <1>11, <1>13, <1>14 DEF StructInv

\* A listener leaves one of its feeds.
LEMMA DetachStep ==
    ASSUME Sharing!SharedAssumption, RecordsOK, StructInv, NEW l \in Listeners,
           NEW f \in LeavingOf(l), feed' = [feed EXCEPT ![f] = Sharing!Detached(feed[f], l)],
           Leaving(l), LeavingOf(l)' = LeavingOf(l) \ {f},
           \A k \in Listeners : k # l =>
               LeavingOf(k)' = LeavingOf(k) /\ (Leaving(k)' => Leaving(k)),
           UNCHANGED <<closed, lock, registry, task, queue, call, job, closing>>
    PROVE  /\ StructInv' /\ feed' \in [Feeds -> FeedRecords]
           /\ \A g \in Feeds :
                 /\ FeedEnd(g)' = FeedEnd(g) /\ Hearing(g)' \subseteq Hearing(g)
                 /\ Stopped(g)' => Stopped(g) \/ Hearing(g)' = {}
<1> DEFINE d == Sharing!Detached(feed[f], l)
<1>1. f \in Feeds /\ feed[f] \in FeedRecords BY ViewTypes
<1>2. /\ d \in FeedRecords /\ d.listeners = Hearing(f) \ {l} /\ d.ready = IsReady(f)
      /\ d.terminal = FeedEnd(f) /\ (d.stop <=> Stopped(f) \/ d.listeners = {})
      /\ (d.listeners # {} => d.current = Latest(f))
  BY <1>1, DetachedIs DEF Hearing, IsReady, FeedEnd, Stopped, Latest
<1> HIDE DEF d
<1>3. /\ feed' \in [Feeds -> FeedRecords]
      /\ Hearing(f)' = Hearing(f) \ {l} /\ IsReady(f)' = IsReady(f)
      /\ FeedEnd(f)' = FeedEnd(f) /\ (Stopped(f)' <=> Stopped(f) \/ Hearing(f)' = {})
      /\ (Hearing(f)' # {} => Latest(f)' = Latest(f))
      /\ \A g \in Feeds : g # f =>
            /\ feed'[g] = feed[g] /\ Hearing(g)' = Hearing(g)
            /\ Stopped(g)' = Stopped(g) /\ IsReady(g)' = IsReady(g)
            /\ Latest(g)' = Latest(g) /\ FeedEnd(g)' = FeedEnd(g)
  BY <1>1, <1>2, FeedPut DEF d
<1>4. /\ closed' = closed /\ lock' = lock /\ registry' = registry /\ task' = task
      /\ queue' = queue /\ call' = call /\ job' = job /\ closing' = closing
  OBVIOUS
<1>5. /\ \A g \in Feeds : (Unused(g)' <=> Unused(g)) /\ (Over(g)' <=> Over(g))
                          /\ (Starts(g)' <=> Starts(g))
      /\ \A k \in Listeners, g \in Feeds : Holds(k, g)' <=> Holds(k, g)
      /\ \A k \in Listeners : FeedsOf(k)' = FeedsOf(k) /\ (Shut(k)' <=> Shut(k))
                              /\ \A u \in Topics : Shown(k, u)' = Shown(k, u)
      /\ \A a \in Workers : Ending(a)' = Ending(a)
  BY <1>4, Zenon DEF Unused, Over, Starts, Holds, FeedsOf, Shut, Shown, Ending
<1>6. Shut(l) /\ FeedsOf(l) = {} /\ ~Unused(f) BY DEF StructInv, BothKnow
<1>7. \A g \in Feeds : Hearing(g) \subseteq Listeners BY ViewTypes
<1>8. \A k \in Listeners : FeedsOf(k) \subseteq Feeds /\ LeavingOf(k) \subseteq Feeds BY ViewTypes
<1>9. BothKnow'
  <2>1. ASSUME NEW k \in Listeners
        PROVE  /\ Leaving(k)' => Shut(k)'
               /\ Shut(k)' => FeedsOf(k)' = {}
               /\ \A g \in FeedsOf(k)' : k \in Hearing(g)' /\ ~Unused(g)'
               /\ \A g \in LeavingOf(k)' : ~Unused(g)'
               /\ (call[k].pc = "register")' <=> lock' = k
               /\ lock' = k => call'[k].feed \in Feeds
    <3>1. \A g \in FeedsOf(k) : k # l BY <1>6
    <3> QED BY <1>3, <1>4, <1>5, <1>6, <1>8, <3>1 DEF StructInv, BothKnow
  <2>2. ASSUME NEW g \in Feeds, NEW k \in Hearing(g)'
        PROVE  g \in FeedsOf(k)' \/ g \in LeavingOf(k)' \/ Holds(k, g)'
    <3>1. k \in Hearing(g) /\ k \in Listeners /\ ~(k = l /\ g = f)
      BY <1>3, <1>7
    <3>2. g \in LeavingOf(k) => g \in LeavingOf(k)' BY <3>1
    <3> QED BY <1>5, <3>1, <3>2 DEF StructInv, BothKnow
  <2>3. ASSUME NEW g \in Feeds, NEW k \in Listeners, Holds(k, g)'
        PROVE  (~Shut(k)' => k \in Hearing(g)') /\ ((call[k].start)' <=> Unused(g)')
    BY <1>3, <1>4, <1>5, <1>6, <2>3 DEF StructInv, BothKnow
  <2> QED BY <2>1, <2>2, <2>3 DEF BothKnow
<1>10. UnusedOK' BY <1>3, <1>4, <1>5, <1>6 DEF StructInv, UnusedOK, RecordsOK
<1>11. StopsTold' BY <1>3, <1>4, <1>5, <1>7 DEF StructInv, StopsTold
<1>12. OneLive'
  <2>1. \A g, h \in Feeds : SameTopic(g, h)' <=> SameTopic(g, h) BY DEF SameTopic
  <2>2. \A g \in Feeds : FeedLive(g)' => FeedLive(g) /\ (Stopped(g)' <=> Stopped(g))
    BY <1>3, <1>5 DEF FeedLive
  <2> QED BY <1>1, <1>3, <1>4, <1>5, <1>6, <2>1, <2>2 DEF StructInv, OneLive
<1>13. \A g \in Feeds : Sharing!Topic(g) \in Topics BY SharingTypes
<1>14. MirrorOK'
  <2> SUFFICES ASSUME NEW g \in Feeds, NEW k \in Hearing(g)', ~Stopped(g)', ~Shut(k)'
               PROVE  Shown(k, Sharing!Topic(g))' =
                        IF IsReady(g)' THEN Latest(g)' ELSE Sharing!NoState
    BY DEF MirrorOK
  <2>1. k \in Hearing(g) /\ k \in Listeners /\ Hearing(g)' # {} BY <1>3, <1>7
  <2>2. IsReady(g)' = IsReady(g) /\ Latest(g)' = Latest(g) /\ (Stopped(g)' <=> Stopped(g))
    BY <1>3, <2>1
  <2> QED BY <1>5, <1>13, <2>1, <2>2 DEF StructInv, MirrorOK
<1>15. OnlyPast'
  <2>1. \A k \in Listeners, u \in Topics : Past(k, u)' <=> Past(k, u) BY <1>4 DEF Past
  <2>2. \A k \in Listeners, g \in Feeds :
            Past(k, Sharing!Topic(g))' <=> Past(k, Sharing!Topic(g))
    BY <1>4 DEF Past
  <2> QED BY <1>4, <1>5, <1>8, <2>1, <2>2 DEF StructInv, OnlyPast
<1> QED BY <1>3, <1>9, <1>10, <1>11, <1>12, <1>14, <1>15 DEF StructInv


\* A listener is closed: what it was registered with, it will leave.
LEMMA CloseStep ==
    ASSUME Sharing!SharedAssumption, RecordsOK, StructInv, NEW l \in Listeners,
           NEW end \in Sharing!Ends \cup {None}, NEW by \in Workers \cup Listeners,
           Sharing!CloseQueue(l, end, by),
           UNCHANGED <<closed, lock, registry, feed, closing>>, SameTasks, SameCalls,
           \A a \in Workers : Ending(a) \ {l} \subseteq Ending(a)',
           \A f \in Feeds : job'[f] # None => job[f] # None
    PROVE  StructInv'
<1>1. /\ Shut(l)' /\ FeedsOf(l)' = {}
      /\ LeavingOf(l)' = IF Shut(l) THEN LeavingOf(l) ELSE FeedsOf(l)
      /\ \A k \in Listeners : k # l =>
            /\ FeedsOf(k)' = FeedsOf(k) /\ Shut(k)' = Shut(k)
            /\ \A t \in Topics : Shown(k, t)' = Shown(k, t)
            /\ Leaving(k)' = Leaving(k) /\ LeavingOf(k)' = LeavingOf(k)
  <2>1. BothKnow BY DEF StructInv
  <2>2. Shut(l) => FeedsOf(l) = {} BY <2>1 DEF BothKnow
  <2> QED BY <2>1, <2>2, CloseQueueIs
<1>2. \A f \in Feeds :
        /\ Hearing(f)' = Hearing(f) /\ Stopped(f)' = Stopped(f) /\ IsReady(f)' = IsReady(f)
        /\ Latest(f)' = Latest(f) /\ FeedEnd(f)' = FeedEnd(f) /\ feed'[f] = feed[f]
  BY SameFeed
<1>3. /\ \A k \in Listeners, f \in Feeds : Holds(k, f)' <=> Holds(k, f)
      /\ \A f \in Feeds : Starts(f)' <=> Starts(f)
  BY SameHolds
<1>4. lock' = lock /\ registry' = registry /\ closing' = closing /\ closed' = closed OBVIOUS
<1>5. \A f \in Feeds : (Unused(f)' <=> Unused(f)) /\ (Over(f)' <=> Over(f)) BY DEF SameTasks
<1>6. \A f \in Feeds : Hearing(f) \subseteq Listeners BY ViewTypes
<1>7. \A k \in Listeners : FeedsOf(k) \subseteq Feeds /\ LeavingOf(k) \subseteq Feeds BY ViewTypes
<1>8. \A f \in Feeds : Sharing!Topic(f) \in Topics BY SharingTypes
<1>9. BothKnow'
  <2>1. ASSUME NEW k \in Listeners
        PROVE  /\ Leaving(k)' => Shut(k)'
               /\ Shut(k)' => FeedsOf(k)' = {}
               /\ \A f \in FeedsOf(k)' : k \in Hearing(f)' /\ ~Unused(f)'
               /\ \A f \in LeavingOf(k)' : ~Unused(f)'
    <3>1. CASE k = l
      <4>1. \A f \in FeedsOf(l) \cup LeavingOf(l) : f \in Feeds /\ ~Unused(f)
        BY <1>7 DEF StructInv, BothKnow
      <4> QED BY <1>1, <1>5, <3>1, <4>1
    <3>2. CASE k # l
      BY <1>1, <1>2, <1>5, <1>7, <3>2 DEF StructInv, BothKnow
    <3> QED BY <3>1, <3>2
  <2>2. \A k \in Listeners :
          /\ (call[k].pc = "register")' <=> lock' = k
          /\ lock' = k => call'[k].feed \in Feeds
    BY <1>4 DEF SameCalls, StructInv, BothKnow
  <2>3. ASSUME NEW f \in Feeds, NEW k \in Hearing(f)'
        PROVE  f \in FeedsOf(k)' \/ f \in LeavingOf(k)' \/ Holds(k, f)'
    <3>1. /\ k \in Listeners /\ k \in Hearing(f)
          /\ f \in FeedsOf(k) \/ f \in LeavingOf(k) \/ Holds(k, f)
      BY <1>2, <1>6 DEF StructInv, BothKnow
    <3>2. CASE k = l
      <4>1. Shut(l) => FeedsOf(l) = {} BY DEF StructInv, BothKnow
      <4>2. ~Shut(l) => LeavingOf(l) = {} BY DEF StructInv, BothKnow, Leaving, LeavingOf
      <4> QED BY <1>1, <1>3, <3>1, <3>2, <4>1, <4>2
    <3>3. CASE k # l BY <1>1, <1>3, <3>1, <3>3
    <3> QED BY <3>2, <3>3
  <2>4. ASSUME NEW f \in Feeds, NEW k \in Listeners, Holds(k, f)'
        PROVE  (~Shut(k)' => k \in Hearing(f)') /\ ((call[k].start)' <=> Unused(f)')
    <3>1. Holds(k, f) BY <1>3, <2>4
    <3>2. (call[k].start)' = call[k].start BY <3>1 DEF Holds, SameCalls
    <3>3. ~Shut(k)' => ~Shut(k) BY <1>1
    <3> QED BY <1>2, <1>5, <3>1, <3>2, <3>3 DEF StructInv, BothKnow
  <2> QED BY <2>1, <2>2, <2>3, <2>4 DEF BothKnow
<1>10. UnusedOK' BY <1>2, <1>4, <1>5 DEF StructInv, UnusedOK, RecordsOK
<1>11. StopsTold'
  <2>1. ASSUME NEW f \in Feeds, NEW k \in Hearing(f)', Stopped(f)', ~Shut(k)'
        PROVE  \E a \in Workers : k \in Ending(a)'
    <3>1. k \in Listeners /\ k # l /\ k \in Hearing(f) /\ Stopped(f) /\ ~Shut(k)
      BY <1>1, <1>2, <1>6, <2>1
    <3>2. PICK a \in Workers : k \in Ending(a) BY <3>1 DEF StructInv, StopsTold
    <3> QED BY <3>1, <3>2
  <2> QED BY <1>2, <1>5, <2>1 DEF StructInv, StopsTold
<1>12. OneLive'
  <2>1. \A f, g \in Feeds : SameTopic(f, g)' <=> SameTopic(f, g) BY DEF SameTopic
  <2>2. \A f \in Feeds : FeedLive(f)' <=> FeedLive(f) BY <1>2, <1>5 DEF FeedLive
  <2> QED BY <1>2, <1>3, <1>4, <1>5, <2>1, <2>2 DEF StructInv, OneLive
<1>13. MirrorOK'
  <2> SUFFICES ASSUME NEW f \in Feeds, NEW k \in Hearing(f)', ~Stopped(f)', ~Shut(k)'
               PROVE  Shown(k, Sharing!Topic(f))' =
                        IF IsReady(f)' THEN Latest(f)' ELSE Sharing!NoState
    BY DEF MirrorOK
  <2>1. k \in Listeners /\ k # l /\ k \in Hearing(f) /\ ~Stopped(f) /\ ~Shut(k)
    BY <1>1, <1>2, <1>6
  <2> QED BY <1>1, <1>2, <1>8, <2>1 DEF StructInv, MirrorOK
<1>14. OnlyPast'
  <2> SUFFICES ASSUME NEW k \in Listeners, call'[k].pc \in Early, ~Shut(k)'
               PROVE  /\ \A f \in FeedsOf(k)' : Past(k, Sharing!Topic(f))'
                      /\ \A f \in Feeds : Holds(k, f)' => Past(k, Sharing!Topic(f))'
                      /\ \A t \in Topics : Shown(k, t)' # Sharing!NoState => Past(k, t)'
    BY DEF OnlyPast
  <2>1. k # l /\ ~Shut(k) /\ FeedsOf(k)' = FeedsOf(k)
        /\ \A t \in Topics : Shown(k, t)' = Shown(k, t)
    BY <1>1
  <2>2. call[k].pc \in Early /\ \A t \in Topics : Past(k, t) => Past(k, t)'
    BY <2>1 DEF SameCalls
  <2>3. /\ \A f \in FeedsOf(k) : Past(k, Sharing!Topic(f))
        /\ \A f \in Feeds : Holds(k, f) => Past(k, Sharing!Topic(f))
        /\ \A t \in Topics : Shown(k, t) # Sharing!NoState => Past(k, t)
    BY <2>1, <2>2 DEF StructInv, OnlyPast
  <2>4. \A f \in Feeds : Past(k, Sharing!Topic(f)) => Past(k, Sharing!Topic(f))'
    BY <1>8, <2>2 DEF Past
  <2> QED BY <1>3, <1>7, <2>1, <2>2, <2>3, <2>4
<1> QED BY <1>9, <1>10, <1>11, <1>12, <1>13, <1>14 DEF StructInv

\* A feed ends: task a will tell its listeners.
LEMMA FinishStep ==
    ASSUME Sharing!SharedAssumption, RecordsOK, StructInv, NEW a \in Workers, NEW f \in Feeds,
           NEW end \in Sharing!Ends, Sharing!StartFinish(a, f, end), ~Unused(f), job[a] = None,
           UNCHANGED <<closed, lock, registry, queue, call, finishing>>,
           \A g \in Feeds : Unused(g)' = Unused(g) /\ (Over(g) => Over(g)'),
           \A g \in Feeds : g # f => Over(g)' = Over(g),
           \/ a = f /\ Over(f)' /\ closing' = closing
           \/ a = Closer /\ Over(f)' = Over(f) /\ closing # None
              /\ closing' = closing \ {f}
    PROVE  StructInv'
<1>1. /\ \A g \in Feeds : Hearing(g)' = Hearing(g) /\ IsReady(g)' = IsReady(g)
      /\ Stopped(f)' = TRUE /\ FeedEnd(f)' = end /\ Latest(f)' = Sharing!NoState
      /\ \A g \in Feeds : g # f =>
            /\ Stopped(g)' = Stopped(g) /\ FeedEnd(g)' = FeedEnd(g)
            /\ Latest(g)' = Latest(g) /\ feed'[g] = feed[g]
      /\ Ending(a)' = Hearing(f)
      /\ \A b \in Workers : b # a => job'[b] = job[b] /\ Ending(b)' = Ending(b)
  BY StartFinishIs
<1>2. Ending(a) = {} BY DEF Ending
<1>3. /\ closed' = closed /\ lock' = lock /\ registry' = registry /\ queue' = queue
      /\ call' = call /\ finishing' = finishing
  OBVIOUS
<1>4. /\ \A k \in Listeners, g \in Feeds : Holds(k, g)' <=> Holds(k, g)
      /\ \A g \in Feeds : Starts(g)' <=> Starts(g)
      /\ \A k \in Listeners : /\ FeedsOf(k)' = FeedsOf(k) /\ Shut(k)' = Shut(k)
                              /\ LeavingOf(k)' = LeavingOf(k) /\ Leaving(k)' = Leaving(k)
                              /\ \A u \in Topics : Shown(k, u)' = Shown(k, u)
  BY <1>3, Zenon DEF Starts, Holds, FeedsOf, Shut, Shown, LeavingOf, Leaving
<1>5. \A g \in Feeds : Hearing(g) \subseteq Listeners BY ViewTypes
<1>6. \A k \in Listeners : FeedsOf(k) \subseteq Feeds /\ LeavingOf(k) \subseteq Feeds BY ViewTypes
<1>7. \A g \in Feeds : Sharing!Topic(g) \in Topics /\ g \in Workers BY SharingTypes
<1>8. BothKnow'
  BY <1>1, <1>3, <1>4, <1>5, <1>6 DEF StructInv, BothKnow
<1>9. UnusedOK'
  <2>1. \A fs \in SUBSET Feeds : fs # None BY SharingTypes
  <2>2. closing = None \/ closing \in SUBSET Feeds BY DEF RecordsOK, QueuesOK
  <2>3. closing' # None => closing # None /\ closing' \subseteq closing BY <2>2
  <2> QED BY <1>1, <1>3, <2>2, <2>3 DEF StructInv, UnusedOK, RecordsOK
<1>10. StopsTold'
  <2>1. ASSUME NEW g \in Feeds, NEW k \in Hearing(g)', Stopped(g)', ~Shut(k)'
        PROVE  \E b \in Workers : k \in Ending(b)'
    <3>1. k \in Listeners /\ k \in Hearing(g) /\ ~Shut(k) BY <1>1, <1>4, <1>5, <2>1
    <3>2. CASE g = f BY <1>1, <3>1, <3>2
    <3>3. CASE g # f
      <4>1. PICK b \in Workers : k \in Ending(b)
        BY <1>1, <2>1, <3>1, <3>3 DEF StructInv, StopsTold
      <4> QED BY <1>1, <1>2, <4>1
    <3> QED BY <3>2, <3>3
  <2>2. ASSUME NEW g \in Feeds, job'[g] # None PROVE Over(g)'
    <3>1. CASE g = a BY <1>7, <3>1, SharingTypes
    <3>2. CASE g # a BY <1>1, <1>7, <2>2, <3>2 DEF StructInv, StopsTold
    <3> QED BY <3>1, <3>2
  <2>3. ASSUME NEW g \in Feeds, Over(g)' PROVE Stopped(g)'
    BY <1>1, <2>3 DEF StructInv, StopsTold
  <2> QED BY <2>1, <2>2, <2>3 DEF StopsTold
<1>11. OneLive'
  <2>1. \A g, h \in Feeds : SameTopic(g, h)' <=> SameTopic(g, h) BY DEF SameTopic
  <2>2. \A g \in Feeds : FeedLive(g)' => FeedLive(g) BY <1>1 DEF FeedLive
  <2>3. closing' = None => a = f /\ closing = None
    <3>1. \A fs \in SUBSET Feeds : fs # None BY SharingTypes
    <3>2. closing = None \/ closing \in SUBSET Feeds BY DEF RecordsOK, QueuesOK
    <3> QED BY <3>1, <3>2
  <2>4. closing' = None => ~FeedLive(f)' BY <2>3, SharingTypes DEF FeedLive
  <2> QED BY <1>1, <1>3, <1>4, <2>1, <2>2, <2>3, <2>4 DEF StructInv, OneLive
<1>12. MirrorOK' BY <1>1, <1>4, <1>5, <1>7 DEF StructInv, MirrorOK
<1>13. OnlyPast'
  <2>1. \A k \in Listeners, u \in Topics : Past(k, u)' <=> Past(k, u) BY <1>3 DEF Past
  <2>2. \A k \in Listeners, g \in Feeds :
            Past(k, Sharing!Topic(g))' <=> Past(k, Sharing!Topic(g))
    BY <1>3 DEF Past
  <2> QED BY <1>3, <1>4, <1>6, <2>1, <2>2 DEF StructInv, OnlyPast
<1> QED BY <1>8, <1>9, <1>10, <1>11, <1>12, <1>13 DEF StructInv


\* Manager::close takes the feeds over.
LEMMA DrainStep ==
    ASSUME Sharing!SharedAssumption, RecordsOK, StructInv, Sharing!DrainFeeds
    PROVE  StructInv'
<1>1. /\ closed /\ closed' = closed /\ lock' = lock /\ feed' = feed /\ task' = task
      /\ queue' = queue /\ call' = call /\ finishing' = finishing /\ job' = job
      /\ closing' = registry /\ registry' = {}
  BY DEF Sharing!DrainFeeds
<1>2. closing' # None BY <1>1, SharingTypes DEF RecordsOK, QueuesOK
<1>3. /\ \A g \in Feeds : /\ Hearing(g)' = Hearing(g) /\ (Stopped(g)' <=> Stopped(g))
                          /\ (IsReady(g)' <=> IsReady(g)) /\ Latest(g)' = Latest(g)
                          /\ FeedEnd(g)' = FeedEnd(g) /\ (Unused(g)' <=> Unused(g))
                          /\ (Over(g)' <=> Over(g)) /\ (FeedLive(g)' <=> FeedLive(g))
      /\ \A k \in Listeners : /\ FeedsOf(k)' = FeedsOf(k) /\ (Shut(k)' <=> Shut(k))
                              /\ LeavingOf(k)' = LeavingOf(k) /\ (Leaving(k)' <=> Leaving(k))
                              /\ \A u : Shown(k, u)' = Shown(k, u) /\ (Past(k, u)' <=> Past(k, u))
      /\ \A k \in Listeners, g \in Feeds : Holds(k, g)' <=> Holds(k, g)
      /\ \A a \in Workers : Ending(a)' = Ending(a)
  BY <1>1, Zenon DEF Hearing, Stopped, IsReady, Latest, FeedEnd, Unused, Over, FeedLive, FeedsOf,
       Shut, LeavingOf, Leaving, Shown, Past, Holds, Ending
<1>10. \A g \in Feeds : Hearing(g) \subseteq Listeners BY ViewTypes
<1>11. \A k \in Listeners : FeedsOf(k) \subseteq Feeds /\ LeavingOf(k) \subseteq Feeds BY ViewTypes
<1>12. \A g \in Feeds : Sharing!Topic(g) \in Topics BY SharingTypes
<1>4. BothKnow' BY <1>1, <1>3, <1>10, <1>11 DEF StructInv, BothKnow
<1>5. UnusedOK' BY <1>1, <1>3 DEF StructInv, UnusedOK, RecordsOK
<1>6. StopsTold' BY <1>1, <1>3, <1>10 DEF StructInv, StopsTold
<1>7. OneLive'
  <2>1. \A g, h \in Feeds : SameTopic(g, h)' = SameTopic(g, h) BY DEF SameTopic
  <2> QED BY <1>1, <1>2, <1>3, <2>1 DEF StructInv, OneLive
<1>8. MirrorOK' BY <1>3, <1>10, <1>12 DEF StructInv, MirrorOK
<1>9. OnlyPast'
  <2>1. \A k \in Listeners, g \in Feeds :
            Past(k, Sharing!Topic(g))' <=> Past(k, Sharing!Topic(g))
    BY <1>1 DEF Past
  <2>2. \A k \in Listeners : FeedsOf(k) \subseteq Feeds BY ViewTypes
  <2> QED BY <1>1, <1>3, <2>1, <2>2 DEF StructInv, OnlyPast
<1> QED BY <1>4, <1>5, <1>6, <1>7, <1>8, <1>9 DEF StructInv

\* A call whose listener was closed gives its attachment back.
LEMMA WithdrawStep ==
    ASSUME Sharing!SharedAssumption, RecordsOK, StructInv, NEW l \in Listeners, lock = l,
           Shut(l), NEW f \in Feeds, call[l].feed = f,
           feed' = [feed EXCEPT ![f] = Sharing!Detached(feed[f], l)], lock' = None,
           NEW x \in CallRecords, x.pc = "drop", call' = [call EXCEPT ![l] = x],
           UNCHANGED <<closed, registry, task, queue, finishing, job, closing>>
    PROVE  /\ StructInv' /\ feed' \in [Feeds -> FeedRecords]
           /\ \A g \in Feeds :
                 /\ FeedEnd(g)' = FeedEnd(g) /\ Hearing(g)' \subseteq Hearing(g)
                 /\ Stopped(g)' => Stopped(g) \/ Hearing(g)' = {}
<1> DEFINE d == Sharing!Detached(feed[f], l)
<1>1. feed[f] \in FeedRecords BY ViewTypes
<1>2. /\ d \in FeedRecords /\ d.listeners = Hearing(f) \ {l} /\ d.ready = IsReady(f)
      /\ d.terminal = FeedEnd(f) /\ (d.stop <=> Stopped(f) \/ d.listeners = {})
      /\ (d.listeners # {} => d.current = Latest(f))
      /\ (Latest(f) = Sharing!NoState => d.current = Sharing!NoState)
  BY <1>1, DetachedIs DEF Hearing, IsReady, FeedEnd, Stopped, Latest
<1> HIDE DEF d
<1>3. /\ feed' \in [Feeds -> FeedRecords]
      /\ Hearing(f)' = Hearing(f) \ {l} /\ IsReady(f)' = IsReady(f)
      /\ FeedEnd(f)' = FeedEnd(f) /\ (Stopped(f)' <=> Stopped(f) \/ Hearing(f)' = {})
      /\ (Hearing(f)' # {} => Latest(f)' = Latest(f))
      /\ (Latest(f) = Sharing!NoState => Latest(f)' = Sharing!NoState)
      /\ \A g \in Feeds : g # f =>
            /\ feed'[g] = feed[g] /\ Hearing(g)' = Hearing(g)
            /\ Stopped(g)' = Stopped(g) /\ IsReady(g)' = IsReady(g)
            /\ Latest(g)' = Latest(g) /\ FeedEnd(g)' = FeedEnd(g)
  BY <1>1, <1>2, FeedPut DEF d
<1>4. /\ closed' = closed /\ registry' = registry /\ task' = task
      /\ queue' = queue /\ finishing' = finishing /\ job' = job /\ closing' = closing
  OBVIOUS
<1>5. /\ \A g \in Feeds : (Unused(g)' <=> Unused(g)) /\ (Over(g)' <=> Over(g))
      /\ \A k \in Listeners : /\ FeedsOf(k)' = FeedsOf(k) /\ (Shut(k)' <=> Shut(k))
                              /\ LeavingOf(k)' = LeavingOf(k) /\ (Leaving(k)' <=> Leaving(k))
                              /\ \A u \in Topics : Shown(k, u)' = Shown(k, u)
      /\ \A a \in Workers : Ending(a)' = Ending(a)
  BY <1>4, Zenon DEF Unused, Over, FeedsOf, Shut, Shown, LeavingOf, Leaving, Ending
<1>6. /\ None \notin Listeners
      /\ \A k \in Listeners, g \in Feeds : ~Holds(k, g)'
      /\ \A k \in Listeners, g \in Feeds : Holds(k, g) => k = l /\ g = f
      /\ \A k \in Listeners : k # l => call'[k] = call[k]
      /\ call'[l] = x /\ l # None
  <2>1. call \in [Listeners -> CallRecords] BY DEF RecordsOK, QueuesOK
  <2> QED BY <2>1, SharingTypes DEF Holds
<1>7. \A g \in Feeds : Hearing(g) \subseteq Listeners BY ViewTypes
<1>8. \A k \in Listeners : FeedsOf(k) \subseteq Feeds /\ LeavingOf(k) \subseteq Feeds BY ViewTypes
<1>9. FeedsOf(l) = {} BY DEF StructInv, BothKnow
<1>10. BothKnow'
  <2>1. ASSUME NEW k \in Listeners
        PROVE  /\ Leaving(k)' => Shut(k)'
               /\ Shut(k)' => FeedsOf(k)' = {}
               /\ \A g \in FeedsOf(k)' : k \in Hearing(g)' /\ ~Unused(g)'
               /\ \A g \in LeavingOf(k)' : ~Unused(g)'
    <3>1. \A g \in FeedsOf(k) : k # l BY <1>9
    <3> QED BY <1>3, <1>5, <1>8, <3>1 DEF StructInv, BothKnow
  <2>2. ASSUME NEW k \in Listeners
        PROVE  /\ (call[k].pc = "register")' <=> lock' = k
               /\ lock' = k => call'[k].feed \in Feeds
    BY <1>6 DEF StructInv, BothKnow
  <2>3. ASSUME NEW g \in Feeds, NEW k \in Hearing(g)'
        PROVE  g \in FeedsOf(k)' \/ g \in LeavingOf(k)'
    <3>1. k \in Hearing(g) /\ k \in Listeners /\ ~(k = l /\ g = f)
      BY <1>3, <1>7
    <3> QED BY <1>5, <1>6, <3>1 DEF StructInv, BothKnow
  <2> QED BY <1>6, <2>1, <2>2, <2>3 DEF BothKnow
<1>11. UnusedOK' BY <1>3, <1>4, <1>5 DEF StructInv, UnusedOK, RecordsOK
<1>12. StopsTold' BY <1>3, <1>4, <1>5, <1>7 DEF StructInv, StopsTold
<1>13. OneLive'
  <2>1. \A g, h \in Feeds : SameTopic(g, h)' <=> SameTopic(g, h) BY DEF SameTopic
  <2>2. \A g \in Feeds : FeedLive(g)' => FeedLive(g) /\ (Stopped(g)' <=> Stopped(g))
    BY <1>3, <1>5 DEF FeedLive
  <2>3. \A g \in Feeds : FeedLive(g)' => ~Starts(g)
    <3> SUFFICES ASSUME NEW g \in Feeds, FeedLive(g)', Starts(g) PROVE FALSE OBVIOUS
    <3>1. g = f /\ call[l].start /\ Holds(l, f) BY <1>6 DEF Starts
    <3>2. Unused(f) BY <3>1 DEF StructInv, BothKnow
    <3>3. \A k \in Hearing(f) : k = l
      BY <1>6, <1>7, <3>2 DEF StructInv, BothKnow
    <3>4. Hearing(f)' = {} BY <1>3, <3>3
    <3> QED BY <3>1, <3>4 DEF FeedLive
  <2> QED BY <1>1, <1>3, <1>4, <1>5, <2>1, <2>2, <2>3 DEF StructInv, OneLive
<1>14. \A g \in Feeds : Sharing!Topic(g) \in Topics BY SharingTypes
<1>15. MirrorOK'
  <2> SUFFICES ASSUME NEW g \in Feeds, NEW k \in Hearing(g)', ~Stopped(g)', ~Shut(k)'
               PROVE  Shown(k, Sharing!Topic(g))' =
                        IF IsReady(g)' THEN Latest(g)' ELSE Sharing!NoState
    BY DEF MirrorOK
  <2>1. k \in Hearing(g) /\ k \in Listeners /\ Hearing(g)' # {} BY <1>3, <1>7
  <2>2. IsReady(g)' = IsReady(g) /\ Latest(g)' = Latest(g) /\ (Stopped(g)' <=> Stopped(g))
    BY <1>3, <2>1
  <2> QED BY <1>5, <1>14, <2>1, <2>2 DEF StructInv, MirrorOK
<1>16. OnlyPast'
  <2> SUFFICES ASSUME NEW k \in Listeners, call'[k].pc \in Early, ~Shut(k)'
               PROVE  /\ \A g \in FeedsOf(k)' : Past(k, Sharing!Topic(g))'
                      /\ \A u \in Topics : Shown(k, u)' # Sharing!NoState => Past(k, u)'
    BY <1>6 DEF OnlyPast
  <2>1. k # l BY <1>6 DEF Early
  <2>2. call'[k] = call[k] BY <1>6, <2>1
  <2>3. \A u \in Topics : Past(k, u)' <=> Past(k, u) BY <2>2 DEF Past
  <2>4. \A g \in Feeds : Past(k, Sharing!Topic(g))' <=> Past(k, Sharing!Topic(g))
    BY <2>2 DEF Past
  <2> QED BY <1>5, <1>8, <2>2, <2>3, <2>4 DEF StructInv, OnlyPast
<1> QED BY <1>3, <1>10, <1>11, <1>12, <1>13, <1>15, <1>16 DEF StructInv


\* A feed is registered with a listener.
LEMMA RegisteredIs ==
    ASSUME RecordsOK, NEW l \in Listeners, NEW f \in Feeds,
           queue' = [queue EXCEPT ![l].feeds = @ \cup {f}]
    PROVE  /\ QueuesOK'
           /\ FeedsOf(l)' = FeedsOf(l) \cup {f}
           /\ \A k \in Listeners :
                 /\ Shut(k)' = Shut(k) /\ ListenerEnd(k)' = ListenerEnd(k)
                 /\ k # l => FeedsOf(k)' = FeedsOf(k)
                 /\ \A u \in Topics : Shown(k, u)' = Shown(k, u)
<1> DEFINE q == queue[l]
           r == QueueOf(q.feeds \cup {f}, q.states, q.changed, q.events, q.terminal, q.closed,
                        q.permit)
<1>1. QueueOK(q) BY DEF RecordsOK, QueuesOK
<1> DEFINE fs == q.feeds \cup {f}
<1>2. [q EXCEPT !.feeds = @ \cup {f}] = r
  <2>1. [q EXCEPT !.feeds = @ \cup {f}] = [q EXCEPT !.feeds = fs] OBVIOUS
  <2> HIDE DEF fs
  <2>2. [q EXCEPT !.feeds = fs] = QueueOf(fs, q.states, q.changed, q.events, q.terminal, q.closed, q.permit)
    BY <1>1 DEF QueueOK, QueueOf
  <2> QED BY <2>1, <2>2 DEF fs
<1>3. QueueSet(l, r)
  <2> HIDE DEF r
  <2> QED BY <1>2 DEF QueueSet
<1>4. /\ r.feeds = q.feeds \cup {f} /\ r.states = q.states /\ r.changed = q.changed
      /\ r.events = q.events /\ r.terminal = q.terminal /\ r.closed = q.closed
      /\ r.permit = q.permit
  BY DEF QueueOf
<1>5. QueueOK(r)
  <2>1. r = QueueOf(r.feeds, r.states, r.changed, r.events, r.terminal, r.closed, r.permit)
    BY <1>4, Zenon
  <2> HIDE DEF r
  <2> QED BY <1>1, <1>4, <2>1 DEF QueueOK
<1> HIDE DEF r
<1>6. r.feeds = FeedsOf(l) \cup {f} /\ r.closed = Shut(l) /\ r.terminal = ListenerEnd(l)
      /\ \A u \in Topics : r.states[u] = Shown(l, u)
  BY <1>4 DEF FeedsOf, Shut, ListenerEnd, Shown
<1>7. /\ QueuesOK'
      /\ FeedsOf(l)' = r.feeds /\ Shut(l)' = r.closed /\ ListenerEnd(l)' = r.terminal
      /\ \A u \in Topics : Shown(l, u)' = r.states[u]
      /\ \A k \in Listeners : k # l =>
            /\ FeedsOf(k)' = FeedsOf(k) /\ Shut(k)' = Shut(k)
            /\ ListenerEnd(k)' = ListenerEnd(k)
            /\ \A u \in Topics : Shown(k, u)' = Shown(k, u)
  <2> HIDE DEF q
  <2>1. queue'[l] = r BY <1>3, <1>5, QueuePut
  <2>2. \A u \in Topics : Shown(l, u)' = r.states[u] BY <2>1, Zenon DEF Shown
  <2> QED BY <1>3, <1>5, <2>2, QueuePut, Zenon
<1>8. FeedsOf(l)' = FeedsOf(l) \cup {f} BY <1>6, <1>7
<1>9. ASSUME NEW k \in Listeners
      PROVE  /\ Shut(k)' = Shut(k) /\ ListenerEnd(k)' = ListenerEnd(k)
             /\ k # l => FeedsOf(k)' = FeedsOf(k)
             /\ \A u \in Topics : Shown(k, u)' = Shown(k, u)
  <2>1. CASE k = l BY <1>6, <1>7, <2>1
  <2>2. CASE k # l BY <1>7, <2>2
  <2> QED BY <2>1, <2>2
<1> QED BY <1>7, <1>8, <1>9

\* A listener is registered with the feed it attached to, which starts if it is new.
LEMMA RegisterStep ==
    ASSUME Sharing!SharedAssumption, RecordsOK, StructInv, NEW l \in Listeners, lock = l,
           ~Shut(l), NEW f \in Feeds, call[l].feed = f,
           queue' = [queue EXCEPT ![l].feeds = @ \cup {f}],
           registry' = IF call[l].start THEN registry \cup {f} ELSE registry,
           task' = IF call[l].start THEN [task EXCEPT ![f].pc = "receive"] ELSE task,
           lock' = None, NEW x \in CallRecords, x.pc \in {"select", "enable"},
           x.pc = "select" => x.turn = call[l].turn + 1, call' = [call EXCEPT ![l] = x],
           UNCHANGED <<closed, feed, finishing, job, closing>>
    PROVE  /\ StructInv' /\ task' \in [Feeds -> TaskRecords]
           /\ QueuesOK'
           /\ FeedsOf(l)' = FeedsOf(l) \cup {f}
           /\ \A k \in Listeners :
                 /\ Shut(k)' = Shut(k) /\ ListenerEnd(k)' = ListenerEnd(k)
                 /\ k # l => FeedsOf(k)' = FeedsOf(k)
<1>1. task \in [Feeds -> TaskRecords] BY DEF RecordsOK, QueuesOK
<1>6. /\ QueuesOK'
      /\ FeedsOf(l)' = FeedsOf(l) \cup {f}
      /\ \A k \in Listeners :
            /\ Shut(k)' = Shut(k) /\ ListenerEnd(k)' = ListenerEnd(k)
            /\ k # l => FeedsOf(k)' = FeedsOf(k)
            /\ \A u \in Topics : Shown(k, u)' = Shown(k, u)
  BY RegisteredIs
<1>7. /\ task' \in [Feeds -> TaskRecords]
      /\ \A g \in Feeds : g # f => Unused(g)' = Unused(g)
      /\ \A g \in Feeds : Over(g)' <=> Over(g)
      /\ ~Unused(f)'
  <2>1. call[l].start <=> Unused(f) BY DEF StructInv, BothKnow, Holds
  <2>2. CASE call[l].start
    <3>1. task' = [task EXCEPT ![f].pc = "receive"] BY <2>2
    <3> QED BY <1>1, <2>1, <2>2, <3>1 DEF TaskRecords, Unused, Over
  <2>3. CASE ~call[l].start
    <3>1. task' = task BY <2>3
    <3> QED BY <1>1, <2>1, <2>3, <3>1 DEF Unused, Over
  <2> QED BY <2>2, <2>3
<1>8. /\ closed' = closed /\ feed' = feed /\ finishing' = finishing /\ job' = job
      /\ closing' = closing
  OBVIOUS
<1>9. /\ \A g \in Feeds : /\ Hearing(g)' = Hearing(g) /\ (Stopped(g)' <=> Stopped(g))
                          /\ (IsReady(g)' <=> IsReady(g)) /\ Latest(g)' = Latest(g)
                          /\ FeedEnd(g)' = FeedEnd(g) /\ feed'[g] = feed[g]
      /\ \A k \in Listeners : LeavingOf(k)' = LeavingOf(k) /\ (Leaving(k)' <=> Leaving(k))
      /\ \A a \in Workers : Ending(a)' = Ending(a)
  BY <1>8, Zenon DEF Hearing, Stopped, IsReady, Latest, FeedEnd, LeavingOf, Leaving, Ending
<1>10. /\ None \notin Listeners
       /\ \A k \in Listeners, g \in Feeds : ~Holds(k, g)'
       /\ \A k \in Listeners, g \in Feeds : Holds(k, g) <=> k = l /\ g = f
       /\ \A k \in Listeners : k # l => call'[k] = call[k]
       /\ call'[l] = x /\ l # None
  <2>1. call \in [Listeners -> CallRecords] BY DEF RecordsOK, QueuesOK
  <2> QED BY <2>1, SharingTypes DEF Holds
<1>11. \A g \in Feeds : Hearing(g) \subseteq Listeners BY ViewTypes
<1>12. \A k \in Listeners : FeedsOf(k) \subseteq Feeds /\ LeavingOf(k) \subseteq Feeds BY ViewTypes
<1>13. l \in Hearing(f) BY <1>10 DEF StructInv, BothKnow
<1>14. \A g \in Feeds : Unused(g)' => Unused(g) BY <1>7
<1>15. BothKnow'
  <2>1. ASSUME NEW k \in Listeners
        PROVE  /\ Leaving(k)' => Shut(k)'
               /\ Shut(k)' => FeedsOf(k)' = {}
               /\ \A g \in FeedsOf(k)' : k \in Hearing(g)' /\ ~Unused(g)'
               /\ \A g \in LeavingOf(k)' : ~Unused(g)'
    <3>1. \A g \in LeavingOf(k)' : ~Unused(g)'
      BY <1>9, <1>12, <1>14 DEF StructInv, BothKnow
    <3>2. Leaving(k)' => Shut(k)' BY <1>6, <1>9 DEF StructInv, BothKnow
    <3>3. CASE k = l
      <4>1. \A g \in FeedsOf(l) : l \in Hearing(g) /\ ~Unused(g) BY DEF StructInv, BothKnow
      <4> QED BY <1>6, <1>7, <1>9, <1>12, <1>13, <1>14, <3>1, <3>2, <3>3, <4>1
    <3>4. CASE k # l
      BY <1>6, <1>9, <1>12, <1>14, <3>1, <3>2, <3>4 DEF StructInv, BothKnow
    <3> QED BY <3>3, <3>4
  <2>2. ASSUME NEW k \in Listeners
        PROVE  /\ (call[k].pc = "register")' <=> lock' = k
               /\ lock' = k => call'[k].feed \in Feeds
    BY <1>10 DEF StructInv, BothKnow
  <2>3. ASSUME NEW g \in Feeds, NEW k \in Hearing(g)'
        PROVE  g \in FeedsOf(k)' \/ g \in LeavingOf(k)'
    <3>1. k \in Hearing(g) /\ k \in Listeners BY <1>9, <1>11
    <3>2. g \in FeedsOf(k) \/ g \in LeavingOf(k) \/ Holds(k, g)
      BY <3>1 DEF StructInv, BothKnow
    <3> QED BY <1>6, <1>9, <1>10, <3>1, <3>2
  <2> QED BY <1>10, <2>1, <2>2, <2>3 DEF BothKnow
<1>16. UnusedOK'
  <2>1. \A g \in registry' : g \in Feeds /\ ~Unused(g)'
    BY <1>7, <1>14 DEF StructInv, UnusedOK, RecordsOK
  <2>2. closing # None => closing \subseteq Feeds BY DEF RecordsOK, QueuesOK
  <2> QED BY <1>8, <1>9, <1>14, <2>1, <2>2 DEF StructInv, UnusedOK
<1>17. StopsTold' BY <1>6, <1>7, <1>8, <1>9, <1>11 DEF StructInv, StopsTold
<1>18. OneLive'
  <2>1. \A g, h \in Feeds : SameTopic(g, h)' <=> SameTopic(g, h) BY DEF SameTopic
  <2>2. \A g \in Feeds : FeedLive(g)' <=> FeedLive(g) BY <1>7, <1>9 DEF FeedLive
  <2>3. \A g \in Feeds : g \in registry \/ Starts(g) => g \in registry'
    BY <1>10 DEF Starts
  <2>4. \A g \in Feeds : ~Unused(g)' => ~Unused(g) \/ g = f BY <1>7
  <2> QED BY <1>8, <1>9, <1>13, <1>14, <2>1, <2>2, <2>3, <2>4 DEF StructInv, OneLive
<1>19. \A g \in Feeds : Sharing!Topic(g) \in Topics BY SharingTypes
<1>20. MirrorOK' BY <1>6, <1>9, <1>11, <1>19 DEF StructInv, MirrorOK
<1>21. OnlyPast'
  <2> SUFFICES ASSUME NEW k \in Listeners, call'[k].pc \in Early, ~Shut(k)'
               PROVE  /\ \A g \in FeedsOf(k)' : Past(k, Sharing!Topic(g))'
                      /\ \A u \in Topics : Shown(k, u)' # Sharing!NoState => Past(k, u)'
    BY <1>10 DEF OnlyPast
  <2>1. CASE k = l
    <3>1. x.pc = "select" /\ x.turn = call[l].turn + 1 BY <1>10, <2>1 DEF Early
    <3>2. call[l].pc = "register" /\ call[l].turn \in Nat
      BY DEF StructInv, BothKnow, RecordsOK, CallRecords
    <3>3. \A u : Past(l, u) => Past(l, u)'
      <4> SUFFICES ASSUME NEW u, Past(l, u) PROVE Past(l, u)' OBVIOUS
      <4>1. PICK i \in DOMAIN Selection[l] : u = Selection[l][i] /\ i <= call[l].turn
        <5>1. PICK i \in DOMAIN Selection[l] :
                /\ u = Selection[l][i]
                /\ i < call[l].turn \/ (i = call[l].turn /\ call[l].pc = "register")
          BY DEF Past
        <5>2. i \in Nat BY DEF Sharing!SharedAssumption
        <5> QED BY <3>2, <5>1, <5>2
      <4>2. i \in Nat BY DEF Sharing!SharedAssumption
      <4>3. i < call'[l].turn BY <1>10, <3>1, <3>2, <4>1, <4>2
      <4> QED BY <4>1, <4>3 DEF Past
    <3>4. /\ \A g \in FeedsOf(l) : Past(l, Sharing!Topic(g))
          /\ Past(l, Sharing!Topic(f))
          /\ \A u \in Topics : Shown(l, u) # Sharing!NoState => Past(l, u)
      BY <1>10, <3>2 DEF StructInv, OnlyPast, Early
    <3>5. \A g \in Feeds : Past(l, Sharing!Topic(g)) => Past(l, Sharing!Topic(g))'
      <4> SUFFICES ASSUME NEW g \in Feeds, Past(l, Sharing!Topic(g))
                   PROVE  Past(l, Sharing!Topic(g))'
        OBVIOUS
      <4> DEFINE u == Sharing!Topic(g)
      <4>1. u' = u BY DEF Sharing!Topic
      <4>2. Past(l, u) => (\E i \in DOMAIN Selection[l] :
              /\ u = Selection[l][i]
              /\ i < call'[l].turn \/ (i = call'[l].turn /\ call'[l].pc = "register"))
        BY <3>3 DEF Past
      <4> QED BY <4>1, <4>2 DEF Past
    <3> QED BY <1>6, <1>12, <2>1, <3>3, <3>4, <3>5
  <2>2. CASE k # l
    <3>1. call'[k] = call[k] BY <1>10, <2>2
    <3>2. \A u \in Topics : Past(k, u)' <=> Past(k, u) BY <3>1 DEF Past
    <3>3. \A g \in Feeds : Past(k, Sharing!Topic(g))' <=> Past(k, Sharing!Topic(g))
      BY <3>1 DEF Past
    <3> QED BY <1>6, <1>12, <2>2, <3>1, <3>2, <3>3 DEF StructInv, OnlyPast
  <2> QED BY <2>1, <2>2
<1> QED BY <1>6, <1>7, <1>15, <1>16, <1>17, <1>18, <1>20, <1>21 DEF StructInv


\* A listener attaches to a feed, and is shown its state once that is ready.
LEMMA AttachIs ==
    ASSUME Sharing!SharedAssumption, RecordsOK, NEW l \in Listeners, NEW f \in Feeds,
           Sharing!Attach(l, f)
    PROVE  /\ feed' \in [Feeds -> FeedRecords] /\ QueuesOK'
           /\ Hearing(f)' = Hearing(f) \cup {l}
           /\ Stopped(f)' = Stopped(f) /\ IsReady(f)' = IsReady(f)
           /\ Latest(f)' = Latest(f) /\ FeedEnd(f)' = FeedEnd(f)
           /\ \A g \in Feeds : g # f => feed'[g] = feed[g]
           /\ \A k \in Listeners :
                 /\ FeedsOf(k)' = FeedsOf(k) /\ Shut(k)' = Shut(k)
                 /\ ListenerEnd(k)' = ListenerEnd(k)
                 /\ \A u \in Topics : Shown(k, u)' =
                       IF IsReady(f) /\ k = l /\ ~Shut(l) /\ u = Sharing!Topic(f)
                       THEN Latest(f) ELSE Shown(k, u)
<1> DEFINE t == Sharing!Topic(f)
           ls == feed[f].listeners \cup {l}
           d == [feed[f] EXCEPT !.listeners = ls]
<1>1. /\ feed[f] \in FeedRecords /\ QueueOK(queue[l]) /\ t \in Topics
      /\ Hearing(f) \subseteq Listeners
  BY ViewTypes, SharingTypes
<1>2. /\ d \in FeedRecords /\ d.listeners = Hearing(f) \cup {l}
      /\ d.stop = Stopped(f) /\ d.ready = IsReady(f) /\ d.current = Latest(f)
      /\ d.terminal = FeedEnd(f)
  BY <1>1 DEF FeedRecords, Hearing, Stopped, IsReady, Latest, FeedEnd
<1>3. feed' = [feed EXCEPT ![f] = d] BY DEF Sharing!Attach
<1> HIDE DEF d
<1>4. /\ feed' \in [Feeds -> FeedRecords]
      /\ Hearing(f)' = Hearing(f) \cup {l}
      /\ Stopped(f)' = Stopped(f) /\ IsReady(f)' = IsReady(f)
      /\ Latest(f)' = Latest(f) /\ FeedEnd(f)' = FeedEnd(f)
      /\ \A g \in Feeds : g # f => feed'[g] = feed[g]
  BY <1>2, <1>3, FeedPut
<1>5. /\ QueuesOK'
      /\ \A k \in Listeners :
            /\ FeedsOf(k)' = FeedsOf(k) /\ Shut(k)' = Shut(k)
            /\ ListenerEnd(k)' = ListenerEnd(k)
            /\ \A u \in Topics : Shown(k, u)' =
                  IF IsReady(f) /\ k = l /\ ~Shut(l) /\ u = t THEN Latest(f) ELSE Shown(k, u)
  <2>1. CASE ~feed[f].ready
    <3>1. queue' = queue BY <2>1 DEF Sharing!Attach
    <3>2. QueuesOK' BY <3>1 DEF QueuesOK, RecordsOK
    <3> QED BY <2>1, <3>1, <3>2 DEF FeedsOf, Shut, ListenerEnd, Shown, IsReady
  <2>2. CASE feed[f].ready
    <3> DEFINE r == Sharing!SetState(queue[l], t, feed[f].current)
    <3>1. feed[f].current = Latest(f) /\ Latest(f) \in Nat /\ IsReady(f)
      BY <2>2, ViewTypes DEF Latest, IsReady
    <3>2. /\ QueueOK(r) /\ r.feeds = queue[l].feeds /\ r.closed = queue[l].closed
          /\ r.terminal = queue[l].terminal
          /\ queue[l].closed => r = queue[l]
          /\ ~queue[l].closed => r.states = [queue[l].states EXCEPT ![t] = Latest(f)]
      BY <1>1, <3>1, SetStateIs
    <3>3. QueueSet(l, r) BY <2>2 DEF Sharing!Attach, QueueSet
    <3> HIDE DEF r
    <3>4. queue[l].states \in [Topics -> Nat] BY <1>1 DEF QueueOK
    <3>5. \A u \in Topics : r.states[u] =
              IF ~Shut(l) /\ u = t THEN Latest(f) ELSE Shown(l, u)
      BY <1>1, <3>2, <3>4 DEF Shut, Shown
    <3>6. r.feeds = FeedsOf(l) /\ r.closed = Shut(l) /\ r.terminal = ListenerEnd(l)
      BY <3>2 DEF FeedsOf, Shut, ListenerEnd
    <3>7. /\ QueuesOK' /\ queue'[l] = r
          /\ FeedsOf(l)' = r.feeds /\ Shut(l)' = r.closed /\ ListenerEnd(l)' = r.terminal
          /\ \A k \in Listeners : k # l =>
                /\ FeedsOf(k)' = FeedsOf(k) /\ Shut(k)' = Shut(k)
                /\ ListenerEnd(k)' = ListenerEnd(k)
                /\ \A u \in Topics : Shown(k, u)' = Shown(k, u)
      BY <3>2, <3>3, QueuePut, Zenon
    <3>8. \A u \in Topics : Shown(l, u)' = r.states[u] BY <3>7, Zenon DEF Shown
    <3>9. ASSUME NEW k \in Listeners
          PROVE  /\ FeedsOf(k)' = FeedsOf(k) /\ Shut(k)' = Shut(k)
                 /\ ListenerEnd(k)' = ListenerEnd(k)
                 /\ \A u \in Topics : Shown(k, u)' =
                       IF IsReady(f) /\ k = l /\ ~Shut(l) /\ u = t THEN Latest(f)
                       ELSE Shown(k, u)
      <4>1. CASE k = l BY <3>1, <3>5, <3>6, <3>7, <3>8, <4>1
      <4>2. CASE k # l BY <3>7, <4>2
      <4> QED BY <4>1, <4>2
    <3> QED BY <3>7, <3>9
  <2> QED BY <2>1, <2>2
<1> QED BY <1>4, <1>5

\* A call attaches: to the feed of its topic, or to a new one if none is registered.
LEMMA SelectStep ==
    ASSUME Sharing!SharedAssumption, RecordsOK, StructInv, NEW l \in Listeners,
           ~closed, lock = None, call[l].pc = "select", call[l].turn \in DOMAIN Selection[l],
           NEW f \in Feeds, Sharing!Attach(l, f),
           Sharing!Topic(f) = Selection[l][call[l].turn],
           registry' = {g \in registry : ~feed[g].stop}, lock' = l,
           NEW x \in CallRecords, x.pc = "register", x.feed = f,
           x.start => /\ Sharing!Fresh(f)
                      /\ \A g \in Feeds : SameTopic(g, f) => ~Sharing!Attachable(g),
           ~x.start => Sharing!Attachable(f),
           x.turn = call[l].turn, call' = [call EXCEPT ![l] = x],
           UNCHANGED <<closed, task, finishing, job, closing>>
    PROVE  StructInv' /\ ~Stopped(f)
<1> DEFINE t == Sharing!Topic(f)
<1>1. /\ Hearing(f)' = Hearing(f) \cup {l}
      /\ (Stopped(f)' <=> Stopped(f)) /\ (IsReady(f)' <=> IsReady(f))
      /\ Latest(f)' = Latest(f) /\ FeedEnd(f)' = FeedEnd(f)
      /\ \A g \in Feeds : g # f =>
            /\ feed'[g] = feed[g] /\ Hearing(g)' = Hearing(g)
            /\ (Stopped(g)' <=> Stopped(g)) /\ (IsReady(g)' <=> IsReady(g))
            /\ Latest(g)' = Latest(g) /\ FeedEnd(g)' = FeedEnd(g)
      /\ \A k \in Listeners :
            /\ FeedsOf(k)' = FeedsOf(k) /\ (Shut(k)' <=> Shut(k))
            /\ \A u \in Topics : Shown(k, u)' =
                  IF IsReady(f) /\ k = l /\ ~Shut(l) /\ u = t THEN Latest(f) ELSE Shown(k, u)
  <2>1. \A g \in Feeds : g # f => feed'[g] = feed[g] BY AttachIs
  <2> QED BY <2>1, AttachIs, SameFeed
<1>2. closed' = closed /\ task' = task /\ finishing' = finishing /\ job' = job
      /\ closing' = closing
  OBVIOUS
<1>3. /\ \A g \in Feeds : (Unused(g)' <=> Unused(g)) /\ (Over(g)' <=> Over(g))
      /\ \A k \in Listeners : LeavingOf(k)' = LeavingOf(k) /\ (Leaving(k)' <=> Leaving(k))
      /\ \A a \in Workers : Ending(a)' = Ending(a)
  BY <1>2, Zenon DEF Unused, Over, LeavingOf, Leaving, Ending
<1>4. /\ None \notin Listeners
      /\ \A k \in Listeners, g \in Feeds : ~Holds(k, g)
      /\ \A k \in Listeners, g \in Feeds : Holds(k, g)' <=> k = l /\ g = f
      /\ \A k \in Listeners : k # l => call'[k] = call[k]
      /\ call'[l] = x
  <2>1. call \in [Listeners -> CallRecords] BY DEF RecordsOK
  <2> QED BY <2>1, SharingTypes DEF Holds
<1>5. /\ closing = None
      /\ \A g \in Feeds : ~Starts(g)
      /\ \A g \in Feeds : FeedLive(g) => ~Stopped(g) /\ g \in registry
  BY <1>4 DEF StructInv, UnusedOK, OneLive, Starts
<1>6. /\ ~Stopped(f) /\ (x.start <=> Unused(f)) /\ x.start \in BOOLEAN
      /\ ~x.start => f \in registry
      /\ x.start => Hearing(f) = {}
  <2>0. x.start \in BOOLEAN BY DEF CallRecords
  <2>1. CASE ~x.start
    <3>1. f \in registry /\ ~Stopped(f) BY <2>1 DEF Sharing!Attachable, Stopped
    <3> QED BY <2>0, <2>1, <3>1 DEF StructInv, UnusedOK
  <2>2. CASE x.start
    <3>1. Unused(f) /\ feed[f] = Sharing!NewFeed BY <2>2 DEF Sharing!Fresh, Unused
    <3> QED BY <2>0, <2>2, <3>1 DEF Sharing!NewFeed, Stopped, Hearing
  <2> QED BY <2>1, <2>2
<1>7. ~Over(f) BY <1>6 DEF StructInv, StopsTold
<1>8. \A g \in Feeds : FeedLive(g) /\ SameTopic(g, f) => g = f
  <2> SUFFICES ASSUME NEW g \in Feeds, FeedLive(g), SameTopic(g, f) PROVE g = f OBVIOUS
  <2>1. g \in registry /\ ~feed[g].stop BY <1>5 DEF Stopped
  <2>2. ~x.start BY <2>1 DEF Sharing!Attachable
  <2>3. ~Unused(f) BY <1>6, <2>2
  <2>4. FeedLive(f) BY <1>6, <1>7, <2>3 DEF StructInv, OneLive, FeedLive
  <2>5. SameTopic(g, f) => SameTopic(f, g) BY DEF SameTopic
  <2> QED BY <2>4 DEF StructInv, OneLive
<1>9. \A g \in Feeds : FeedLive(g)' => FeedLive(g) \/ g = f BY <1>1, <1>3 DEF FeedLive
<1>10. \A g \in Feeds : Hearing(g) \subseteq Listeners BY ViewTypes
<1>11. \A k \in Listeners : FeedsOf(k) \subseteq Feeds /\ LeavingOf(k) \subseteq Feeds BY ViewTypes
<1>12. \A g \in Feeds : Sharing!Topic(g) \in Topics BY SharingTypes
<1>13. \A g \in Feeds : Hearing(g) \subseteq Hearing(g)' BY <1>1
<1>14. BothKnow'
  <2>1. ASSUME NEW k \in Listeners
        PROVE  /\ Leaving(k)' => Shut(k)'
               /\ Shut(k)' => FeedsOf(k)' = {}
               /\ \A g \in FeedsOf(k)' : k \in Hearing(g)' /\ ~Unused(g)'
               /\ \A g \in LeavingOf(k)' : ~Unused(g)'
    BY <1>1, <1>3, <1>11, <1>13 DEF StructInv, BothKnow
  <2>2. ASSUME NEW k \in Listeners
        PROVE  /\ (call[k].pc = "register")' <=> lock' = k
               /\ lock' = k => call'[k].feed \in Feeds
    <3>1. CASE k = l BY <1>4, <3>1
    <3>2. CASE k # l BY <1>4, <3>2 DEF StructInv, BothKnow
    <3> QED BY <3>1, <3>2
  <2>3. ASSUME NEW g \in Feeds, NEW k \in Hearing(g)'
        PROVE  g \in FeedsOf(k)' \/ g \in LeavingOf(k)' \/ Holds(k, g)'
    <3>1. k \in Hearing(g) \/ (k = l /\ g = f) BY <1>1
    <3>2. CASE k = l /\ g = f BY <1>4, <3>2
    <3>3. CASE k \in Hearing(g)
      BY <1>1, <1>3, <1>4, <1>10, <3>3 DEF StructInv, BothKnow
    <3> QED BY <3>1, <3>2, <3>3
  <2>4. ASSUME NEW g \in Feeds, NEW k \in Listeners, Holds(k, g)'
        PROVE  (~Shut(k)' => k \in Hearing(g)') /\ ((call[k].start)' <=> Unused(g)')
    <3>1. k = l /\ g = f BY <1>4, <2>4
    <3> QED BY <1>1, <1>3, <1>4, <1>6, <3>1
  <2> QED BY <2>1, <2>2, <2>3, <2>4 DEF BothKnow
<1>15. UnusedOK'
  <2>1. \A g \in Feeds : Unused(g)' => ~IsReady(g)' /\ FeedEnd(g)' = None /\ Latest(g)' = Sharing!NoState
    BY <1>1, <1>3 DEF StructInv, UnusedOK
  <2>2. \A g \in registry' : ~Unused(g)'
    BY <1>3 DEF StructInv, UnusedOK, RecordsOK
  <2> QED BY <1>2, <1>5, <2>1, <2>2 DEF UnusedOK
<1>16. StopsTold'
  <2>1. ASSUME NEW g \in Feeds, NEW k \in Hearing(g)', Stopped(g)', ~Shut(k)'
        PROVE  \E a \in Workers : k \in Ending(a)'
    <3>1. g # f /\ k \in Hearing(g) /\ k \in Listeners BY <1>1, <1>6, <1>10, <2>1
    <3> QED BY <1>1, <1>3, <2>1, <3>1 DEF StructInv, StopsTold
  <2>2. \A g \in Feeds : Over(g)' => Stopped(g)' BY <1>1, <1>3 DEF StructInv, StopsTold
  <2> QED BY <1>2, <1>3, <2>1, <2>2 DEF StructInv, StopsTold
<1>17. OneLive'
  <2>1. ASSUME NEW g \in Feeds, NEW h \in Feeds, FeedLive(g)', FeedLive(h)', SameTopic(g, h)
        PROVE  g = h
    <3>1. SameTopic(h, g) BY <2>1 DEF SameTopic
    <3>2. CASE FeedLive(g) /\ FeedLive(h) BY <2>1, <3>2 DEF StructInv, OneLive
    <3>3. CASE g = f BY <1>8, <1>9, <2>1, <3>1, <3>3
    <3>4. CASE h = f BY <1>8, <1>9, <2>1, <3>1, <3>4
    <3> QED BY <1>9, <2>1, <3>2, <3>3, <3>4
  <2>2. ASSUME NEW g \in Feeds, FeedLive(g)'
        PROVE  ~Stopped(g)' /\ (g \in registry' \/ Starts(g)')
    <3>1. CASE g = f
      <4>1. CASE ~x.start BY <1>1, <1>6, <3>1, <4>1 DEF Stopped
      <4>2. CASE x.start
        <5>1. Holds(l, f)' /\ call'[l].start BY <1>4, <4>2
        <5>2. Starts(f)' BY <5>1 DEF Starts
        <5> QED BY <1>1, <1>6, <3>1, <5>2
      <4> QED BY <4>1, <4>2
    <3>2. CASE g # f
      <4>1. FeedLive(g) BY <1>9, <2>2, <3>2
      <4> QED BY <1>1, <1>5, <3>2, <4>1 DEF Stopped
    <3> QED BY <3>1, <3>2
  <2>3. \A g \in Feeds : ~Stopped(g)' /\ ~Unused(g)' => Hearing(g)' # {}
    BY <1>1, <1>3 DEF StructInv, OneLive
  <2>4. \A g \in Feeds : Unused(g)' /\ feed'[g] # Sharing!NewFeed /\ ~Stopped(g)'
                            => Hearing(g)' # {}
    BY <1>1, <1>3 DEF StructInv, OneLive
  <2>5. \A g, h \in Feeds : SameTopic(g, h)' <=> SameTopic(g, h) BY DEF SameTopic
  <2>6. \A g, h \in Feeds : FeedLive(g)' /\ FeedLive(h)' /\ SameTopic(g, h)' => g = h BY <2>1, <2>5
  <2> QED BY <2>2, <2>3, <2>4, <2>6 DEF OneLive
<1>18. ~Shut(l) => /\ \A u \in Topics : Shown(l, u) # Sharing!NoState => Past(l, u)
                   /\ \A g \in FeedsOf(l) : Past(l, Sharing!Topic(g))
  BY DEF StructInv, OnlyPast, Early
<1>19. MirrorOK'
  <2> SUFFICES ASSUME NEW g \in Feeds, NEW k \in Hearing(g)', ~Stopped(g)', ~Shut(k)'
               PROVE  Shown(k, Sharing!Topic(g))' =
                        IF IsReady(g)' THEN Latest(g)' ELSE Sharing!NoState
    BY DEF MirrorOK
  <2>1. k \in Listeners /\ ~Shut(k) /\ ~Stopped(g) /\ (IsReady(g)' <=> IsReady(g))
        /\ Latest(g)' = Latest(g)
    BY <1>1, <1>10
  <2>2. CASE k \in Hearing(g) /\ ~(g = f /\ k = l)
    <3>1. Shown(k, Sharing!Topic(g)) = IF IsReady(g) THEN Latest(g) ELSE Sharing!NoState
      BY <2>1, <2>2 DEF StructInv, MirrorOK
    <3>2. ~(k = l /\ Sharing!Topic(g) = t)
      BY <1>8, <2>1, <2>2 DEF StructInv, StopsTold, FeedLive, SameTopic
    <3>3. Shown(k, Sharing!Topic(g))' = Shown(k, Sharing!Topic(g)) BY <1>1, <1>12, <2>1, <3>2
    <3> QED BY <2>1, <3>1, <3>3
  <2>3. CASE g = f /\ k = l
    <3>1. CASE IsReady(f) BY <1>1, <1>12, <2>1, <2>3, <3>1
    <3>2. CASE ~IsReady(f)
      <4>1. Shown(l, t) = Sharing!NoState
        <5> SUFFICES ASSUME Shown(l, t) # Sharing!NoState PROVE FALSE OBVIOUS
        <5>1. Past(l, t) BY <1>12, <1>18, <2>1, <2>3
        <5>2. PICK i \in DOMAIN Selection[l] : t = Selection[l][i] /\ i < call[l].turn
          BY <5>1 DEF Past
        <5>5. \A m, n \in DOMAIN Selection[l] : Selection[l][m] = Selection[l][n] => m = n
          BY DEF Sharing!SharedAssumption
        <5>3. i = call[l].turn BY <5>2, <5>5
        <5>4. i \in Nat BY <5>2 DEF Sharing!SharedAssumption
        <5> QED BY <5>2, <5>3, <5>4
      <4> QED BY <1>1, <1>12, <2>1, <2>3, <3>2, <4>1
    <3> QED BY <3>1, <3>2
  <2>4. k \in Hearing(g) \/ (g = f /\ k = l) BY <1>1
  <2> QED BY <2>2, <2>3, <2>4
<1>20. OnlyPast'
  <2> SUFFICES ASSUME NEW k \in Listeners, call'[k].pc \in Early, ~Shut(k)'
               PROVE  /\ \A g \in FeedsOf(k)' : Past(k, Sharing!Topic(g))'
                      /\ \A g \in Feeds : Holds(k, g)' => Past(k, Sharing!Topic(g))'
                      /\ \A u \in Topics : Shown(k, u)' # Sharing!NoState => Past(k, u)'
    BY DEF OnlyPast
  <2>1. CASE k = l
    <3>1. \A u \in Topics : Past(l, u) \/ u = t =>
              \E i \in DOMAIN Selection[l] :
                  /\ u = Selection[l][i]
                  /\ i < call'[l].turn \/ (i = call'[l].turn /\ call'[l].pc = "register")
      BY <1>4 DEF Past
    <3>2. \A u \in Topics : Past(l, u) \/ u = t => Past(l, u)' BY <3>1 DEF Past
    <3>3. \A g \in Feeds : Past(l, Sharing!Topic(g)) \/ g = f => Past(l, Sharing!Topic(g))'
      BY <1>12, <3>1 DEF Past
    <3> QED BY <1>1, <1>4, <1>11, <1>18, <2>1, <3>2, <3>3
  <2>2. CASE k # l
    <3>1. call'[k] = call[k] BY <1>4, <2>2
    <3>2. \A u \in Topics : Past(k, u)' <=> Past(k, u) BY <3>1 DEF Past
    <3>3. \A g \in Feeds : Past(k, Sharing!Topic(g))' <=> Past(k, Sharing!Topic(g))
      BY <3>1 DEF Past
    <3> QED BY <1>1, <1>4, <1>11, <2>2, <3>1, <3>2, <3>3 DEF StructInv, OnlyPast
  <2> QED BY <2>1, <2>2
<1> QED BY <1>6, <1>14, <1>15, <1>16, <1>17, <1>19, <1>20 DEF StructInv


\* A call that stays where it was knows what it knew.
LEMMA CallKept ==
    ASSUME NEW k \in Listeners, CallRight(k), closed => closed', Shut(k) => Shut(k)',
           call'[k].pc = call[k].pc, call'[k].turn = call[k].turn,
           call'[k].selected = call[k].selected, call'[k].error = call[k].error,
           \A f \in FeedsOf(k) : f \in FeedsOf(k)' \/ Shut(k)',
           Shut(k)' /\ call[k].pc \notin {"open", "failed"} =>
               ListenerEnd(k)' # None \/ (Shut(k) /\ ListenerEnd(k)' = ListenerEnd(k)),
           feedReader'[k] # "idle" => call[k].pc = "open"
    PROVE  CallRight(k)'
<1>1. Chosen(k)' = Chosen(k) BY DEF Chosen
<1>2. \A i \in DOMAIN Chosen(k) :
        Chosen(k)[i] \in FeedsOf(k) \/ Shut(k) => Chosen(k)[i] \in FeedsOf(k)' \/ Shut(k)'
  OBVIOUS
<1> QED BY <1>1, <1>2 DEF CallRight

\* The records of what a step leaves alone, and of what it sets.
LEMMA CallSet ==
    ASSUME RecordsOK, NEW l \in Listeners, NEW x \in CallRecords, call' = [call EXCEPT ![l] = x]
    PROVE  /\ call' \in [Listeners -> CallRecords] /\ call'[l] = x
           /\ \A k \in Listeners : k # l => call'[k] = call[k]
BY DEF RecordsOK

\* A step of one call, that changes nothing but the call.
LEMMA FeedCallStep ==
    ASSUME Sharing!SharedAssumption, SharingInv, NEW l \in Listeners, NEW x \in CallRecords,
           call' = [call EXCEPT ![l] = x], call[l].pc # "register", x.pc # "register",
           x.pc \in Early => call[l].pc \in Early /\ x.turn = call[l].turn,
           UNCHANGED <<closed, lock, registry, feed, task, queue, feedReader, finishing, job,
                       closing>>,
           CallRight(l)'
    PROVE  SharingInv'
<1>1. /\ call' \in [Listeners -> CallRecords] /\ call'[l] = x
      /\ \A k \in Listeners : k # l => call'[k] = call[k]
  BY CallSet DEF SharingInv
<1>2. /\ closed' = closed /\ lock' = lock /\ registry' = registry /\ feed' = feed
      /\ task' = task /\ queue' = queue /\ feedReader' = feedReader /\ finishing' = finishing
      /\ job' = job /\ closing' = closing
  OBVIOUS
<1>3. RecordsOK /\ StructInv /\ CallsRight /\ CausesOK BY DEF SharingInv, StructInv
<1>4. /\ SameQueues /\ SameTasks /\ SameJobs /\ SameLeaving
      /\ \A k \in Listeners : FeedsOf(k)' = FeedsOf(k) /\ (Shut(k)' <=> Shut(k))
                              /\ ListenerEnd(k)' = ListenerEnd(k)
  BY <1>2, Zenon DEF SameQueues, SameTasks, SameJobs, SameLeaving, FeedsOf, Shut, Shown, Unused,
       Over, Ending, LeavingOf, Leaving, ListenerEnd
<1>5. SameCalls
  <2> SUFFICES ASSUME NEW k \in Listeners
               PROVE  /\ lock = k => /\ call'[k].feed = call[k].feed
                                     /\ call'[k].start = call[k].start
                      /\ call'[k].pc = "register" <=> call[k].pc = "register"
                      /\ call'[k].pc \in Early /\ ~Shut(k) =>
                            /\ call[k].pc \in Early
                            /\ \A t \in Topics : Past(k, t) => Past(k, t)'
    BY DEF SameCalls
  <2>1. CASE k = l
    <3>1. lock # l BY <1>3 DEF StructInv, BothKnow
    <3>2. x.pc \in Early => \A t \in Topics : Past(l, t) => Past(l, t)' BY <1>1 DEF Past
    <3> QED BY <1>1, <2>1, <3>1, <3>2
  <2>2. CASE k # l
    <3>1. call'[k] = call[k] BY <1>1, <2>2
    <3> QED BY <3>1 DEF Past
  <2> QED BY <2>1, <2>2
<1>6. FeedQuiet BY <1>2, <1>4, <1>5 DEF FeedQuiet
<1>7. StructInv' BY <1>3, <1>6, QuietStep
<1>8. RecordsOK' BY <1>1, <1>2, <1>3 DEF RecordsOK, QueuesOK
<1>9. CallsRight'
  <2> SUFFICES ASSUME NEW k \in Listeners PROVE CallRight(k)' BY DEF CallsRight
  <2>1. CASE k = l BY <2>1
  <2>2. CASE k # l
    <3>1. call'[k] = call[k] /\ CallRight(k) BY <1>1, <1>3, <2>2 DEF CallsRight
    <3>2. feedReader'[k] # "idle" => call[k].pc = "open" BY <1>2, <3>1 DEF CallRight
    <3> QED BY <1>2, <1>4, <3>1, <3>2, CallKept
  <2> QED BY <2>1, <2>2
<1>10. CausesOK'
  <2>1. /\ \A f \in Feeds : FeedEnd(f)' = FeedEnd(f) /\ (Stopped(f)' <=> Stopped(f))
                            /\ Hearing(f)' = Hearing(f)
    BY <1>2, Zenon DEF FeedEnd, Stopped, Hearing
  <2> QED BY <1>2, <1>3, <1>4, <2>1 DEF CausesOK
<1> QED BY <1>7, <1>8, <1>9, <1>10 DEF SharingInv, StructInv

LEMMA NewCallIs ==
    /\ Sharing!NewCall \in CallRecords /\ Sharing!NewCall.pc = "idle"
    /\ Sharing!NewCall.turn = 1 /\ Sharing!NewCall.selected = <<>>
    /\ Sharing!NewCall.error = None
BY DEF Sharing!NewCall, CallRecords, CallPhases, Causes, Early

\* A call that failed: nothing is left of what it knew.
LEMMA FailIs ==
    ASSUME NEW l \in Listeners, NEW e \in Causes, Sharing!Fail(l, e)
    PROVE  \E x \in CallRecords :
             /\ call' = [call EXCEPT ![l] = x] /\ x.pc = "drop" /\ x.error = e
<1> DEFINE x == [Sharing!NewCall EXCEPT !.pc = "drop", !.error = e]
<1>1. x \in CallRecords /\ x.pc = "drop" /\ x.error = e
  <2>1. Sharing!NewCall \in CallRecords BY NewCallIs
  <2>2. "drop" \in CallPhases BY DEF CallPhases
  <2> QED BY <2>1, <2>2 DEF CallRecords
<1>2. call' = [call EXCEPT ![l] = x] BY DEF Sharing!Fail
<1> QED BY <1>1, <1>2

\* What a failed call reports is a cause: it knows of the close if it says so.
LEMMA FailStep ==
    ASSUME Sharing!SharedAssumption, SharingInv, NEW l \in Listeners, NEW e \in Causes,
           Sharing!Fail(l, e), call[l].pc \in {"idle", "select"} \cup Setups,
           e = "Closed" => closed,
           UNCHANGED <<closed, lock, registry, feed, task, queue, feedReader, finishing, job,
                       closing>>
    PROVE  SharingInv'
<1>1. PICK x \in CallRecords : call' = [call EXCEPT ![l] = x] /\ x.pc = "drop" /\ x.error = e
  BY FailIs
<1>2. call'[l] = x BY <1>1, CallSet DEF SharingInv
<1>3. CallRight(l) /\ RecordsOK BY DEF SharingInv, CallsRight
<1>4. Shut(l)' = Shut(l) /\ ListenerEnd(l)' = ListenerEnd(l) /\ feedReader' = feedReader
      /\ closed' = closed
  BY DEF Shut, ListenerEnd
<1>5. call[l].pc \notin {"open", "failed", "register"} BY DEF Setups
<1>6. CallRight(l)' BY <1>1, <1>2, <1>3, <1>4, <1>5 DEF CallRight, Early, Setups
<1>7. x.pc \notin Early BY <1>1 DEF Early
<1> QED BY <1>1, <1>5, <1>6, <1>7, FeedCallStep

\* The error of a closed listener is its end: Closed only if the client closed.
LEMMA OpenErrorIs ==
    ASSUME Sharing!SharedAssumption, SharingInv, NEW l \in Listeners, Shut(l),
           call[l].pc \notin {"open", "failed"}
    PROVE  /\ Sharing!OpenError(l) \in Causes /\ Sharing!OpenError(l) # None
           /\ Sharing!OpenError(l) = "Closed" => closed
<1>1. ListenerEnd(l) # None BY DEF SharingInv, CallsRight, CallRight
<1>2. ListenerEnd(l) \in Sharing!Ends BY <1>1, ViewTypes DEF SharingInv
<1>3. ListenerEnd(l) = "Closed" => closed BY DEF SharingInv, CausesOK
<1>4. None # "Protocol" /\ None \notin Sharing!Ends BY SharingTypes
<1> QED BY <1>1, <1>2, <1>3, <1>4 DEF Sharing!OpenError, ListenerEnd, Causes, Sharing!Ends


\* A call that moves on within what it selected.
LEMMA WaitStep ==
    ASSUME Sharing!SharedAssumption, SharingInv, NEW l \in Listeners, NEW x \in CallRecords,
           call' = [call EXCEPT ![l] = x], call[l].pc \in Setups, x.pc \in Setups,
           x.selected = call[l].selected, x.turn \in DOMAIN Chosen(l),
           x.error = call[l].error \/ (x.error = "Closed" => closed \/ Shut(l)),
           UNCHANGED <<closed, lock, registry, feed, task, queue, feedReader, finishing, job,
                       closing>>
    PROVE  SharingInv'
<1>1. call'[l] = x BY CallSet DEF SharingInv
<1>2. CallRight(l) BY DEF SharingInv, CallsRight
<1>3. /\ Shut(l)' = Shut(l) /\ ListenerEnd(l)' = ListenerEnd(l) /\ FeedsOf(l)' = FeedsOf(l)
      /\ feedReader' = feedReader /\ closed' = closed /\ Chosen(l)' = Chosen(l)
  BY <1>1 DEF Shut, ListenerEnd, FeedsOf, Chosen
<1>4. /\ call[l].pc \notin {"open", "failed", "register", "drop", "idle", "select"}
      /\ x.pc \notin {"open", "failed", "register", "drop", "idle", "select"}
  BY DEF Setups
<1>5. CallRight(l)' BY <1>1, <1>2, <1>3, <1>4 DEF CallRight
<1>6. x.pc \notin Early BY <1>4 DEF Early
<1> QED BY <1>4, <1>5, <1>6, FeedCallStep

\* Where a call is, and what it awaits.
LEMMA AwaitedIs ==
    ASSUME SharingInv, NEW l \in Listeners, call[l].pc \in Setups
    PROVE  LET f == call[l].selected[call[l].turn] IN
           /\ f \in Feeds /\ Sharing!Awaited(l) = feed[f] /\ (f \in FeedsOf(l) \/ Shut(l))
           /\ call[l].turn \in DOMAIN Chosen(l) /\ call[l] \in CallRecords
           /\ Len(Chosen(l)) >= Len(Selection[l])
<1>1. CallRight(l) /\ call[l] \in CallRecords BY ViewTypes DEF SharingInv, CallsRight
<1>2. call[l].selected \in Seq(Feeds) /\ Chosen(l) = call[l].selected
  BY <1>1 DEF CallRecords, Chosen
<1>3. call[l].turn \in DOMAIN Chosen(l) BY <1>1 DEF CallRight
<1>4. call[l].selected[call[l].turn] \in Feeds BY <1>2, <1>3
<1>5. Len(Chosen(l)) >= Len(Selection[l]) BY <1>1 DEF CallRight
<1>6. Chosen(l)[call[l].turn] \in FeedsOf(l) \/ Shut(l) BY <1>1, <1>3 DEF CallRight
<1> QED BY <1>1, <1>2, <1>3, <1>4, <1>5, <1>6 DEF Sharing!Awaited

LEMMA SubscribeKeeps ==
    ASSUME Sharing!SharedAssumption, SharingInv, NEW l \in Listeners, Sharing!Subscribe(l)
    PROVE  SharingInv'
<1>1. /\ call[l].pc = "idle" /\ call[l] \in CallRecords /\ CallRight(l)
      /\ call[l].pc \in {"idle", "select"} \cup Setups
  BY ViewTypes DEF Sharing!Subscribe, SharingInv, CallsRight
<1>2. CASE closed
  <2>1. Sharing!Fail(l, "Closed") /\ "Closed" \in Causes
    BY <1>2 DEF Sharing!Subscribe, Causes, Sharing!Ends
  <2> QED BY <1>1, <1>2, <2>1, FailStep DEF Sharing!Subscribe
<1>3. CASE ~closed
  <2> DEFINE x == [call[l] EXCEPT !.pc = "select"]
  <2>1. /\ x \in CallRecords /\ x.pc = "select" /\ x.turn = call[l].turn
        /\ x.selected = call[l].selected /\ x.error = call[l].error
    BY <1>1 DEF CallRecords, CallPhases, Early
  <2>2. call' = [call EXCEPT ![l] = x] BY <1>3 DEF Sharing!Subscribe
  <2> HIDE DEF x
  <2>3. call'[l] = x BY <2>1, <2>2, CallSet DEF SharingInv
  <2>4. /\ Shut(l)' = Shut(l) /\ ListenerEnd(l)' = ListenerEnd(l) /\ FeedsOf(l)' = FeedsOf(l)
        /\ feedReader' = feedReader /\ closed' = closed /\ Chosen(l)' = Chosen(l)
    BY <2>1, <2>3 DEF Shut, ListenerEnd, FeedsOf, Chosen, Sharing!Subscribe
  <2>5. 1 <= Len(Selection[l])
    <3>1. Selection[l] \in Seq(Topics) /\ Selection[l] # <<>> BY DEF Sharing!SharedAssumption
    <3> QED BY <3>1
  <2>6. Chosen(l) = <<>> /\ call[l].turn = 1 /\ Len(<<>>) = 0 BY <1>1 DEF CallRight
  <2>7. Len(Chosen(l)) = call[l].turn - 1 BY <2>6
  <2>8. CallRight(l)'
    BY <1>1, <2>1, <2>3, <2>4, <2>5, <2>6, <2>7 DEF CallRight, Setups, Early
  <2> QED BY <1>1, <2>1, <2>2, <2>8, FeedCallStep DEF Sharing!Subscribe, Early
<1> QED BY <1>2, <1>3

LEMMA EnableKeeps ==
    ASSUME Sharing!SharedAssumption, SharingInv, NEW l \in Listeners, Sharing!EnableNotified(l)
    PROVE  SharingInv'
<1> DEFINE x == [call[l] EXCEPT !.pc = "inspect", !.woken = FALSE]
<1>1. call[l].pc = "enable" /\ call[l].pc \in Setups BY DEF Sharing!EnableNotified, Setups
<1>2. call[l] \in CallRecords /\ call[l].turn \in DOMAIN Chosen(l) BY <1>1, AwaitedIs
<1>3. /\ x \in CallRecords /\ x.pc \in Setups /\ x.selected = call[l].selected
      /\ x.turn = call[l].turn /\ x.error = call[l].error
  BY <1>2 DEF CallRecords, CallPhases, Setups
<1>4. call' = [call EXCEPT ![l] = x] BY DEF Sharing!EnableNotified
<1> HIDE DEF x
<1> QED BY <1>1, <1>2, <1>3, <1>4, WaitStep DEF Sharing!EnableNotified

LEMMA WakeKeeps ==
    ASSUME Sharing!SharedAssumption, SharingInv, NEW l \in Listeners, Sharing!Wake(l)
    PROVE  SharingInv'
<1> DEFINE x == [call[l] EXCEPT !.pc = "enable", !.woken = FALSE]
<1>1. call[l].pc = "asleep" /\ call[l].pc \in Setups BY DEF Sharing!Wake, Setups
<1>2. call[l] \in CallRecords /\ call[l].turn \in DOMAIN Chosen(l) BY <1>1, AwaitedIs
<1>3. /\ x \in CallRecords /\ x.pc \in Setups /\ x.selected = call[l].selected
      /\ x.turn = call[l].turn /\ x.error = call[l].error
  BY <1>2 DEF CallRecords, CallPhases, Setups
<1>4. call' = [call EXCEPT ![l] = x] BY DEF Sharing!Wake
<1> HIDE DEF x
<1> QED BY <1>1, <1>2, <1>3, <1>4, WaitStep DEF Sharing!Wake

\* A feed the call waits for says Closed only if the client closed, or the listener is.
LEMMA ReadyErrorIs ==
    ASSUME Sharing!SharedAssumption, SharingInv, NEW l \in Listeners, NEW f \in Feeds,
           f \in FeedsOf(l) \/ Shut(l)
    PROVE  /\ Sharing!ReadyError(feed[f]) \in Causes
           /\ Sharing!ReadyError(feed[f]) = "Closed" => closed \/ Shut(l)
<1> DEFINE e == Sharing!ReadyError(feed[f])
<1>1. feed[f].terminal \in Sharing!Ends \cup {None} /\ feed[f].stop \in BOOLEAN
  BY ViewTypes DEF SharingInv, FeedRecords
<1>2. None # "Protocol" /\ None \notin Sharing!Ends BY SharingTypes
<1>3. CASE feed[f].terminal = "Ended"
  <2>1. e = "Protocol" BY <1>2, <1>3 DEF Sharing!ReadyError, Sharing!Ends
  <2> QED BY <2>1 DEF Causes
<1>4. CASE feed[f].terminal \notin {None, "Ended"}
  <2>1. e = feed[f].terminal
    BY <1>4, Zenon DEF Sharing!ReadyError
  <2>2. feed[f].terminal = "Closed" => closed BY DEF SharingInv, CausesOK, FeedEnd
  <2> QED BY <1>1, <2>1, <2>2 DEF Causes
<1>5. CASE feed[f].terminal = None /\ feed[f].stop
  <2>1. Hearing(f) = {} BY <1>5 DEF SharingInv, CausesOK, Stopped, FeedEnd
  <2>2. f \in FeedsOf(l) => l \in Hearing(f) BY DEF SharingInv, BothKnow
  <2>3. e = "Closed" BY <1>2, <1>5 DEF Sharing!ReadyError, Sharing!Ends
  <2> QED BY <2>1, <2>2, <2>3 DEF Causes, Sharing!Ends
<1>6. CASE feed[f].terminal = None /\ ~feed[f].stop
  <2>1. e = None BY <1>2, <1>6 DEF Sharing!ReadyError, Sharing!Ends
  <2> QED BY <1>2, <2>1 DEF Causes, Sharing!Ends
<1> QED BY <1>1, <1>3, <1>4, <1>5, <1>6

LEMMA InspectKeeps ==
    ASSUME Sharing!SharedAssumption, SharingInv, NEW l \in Listeners, Sharing!InspectFeed(l)
    PROVE  SharingInv'
<1> DEFINE f == call[l].selected[call[l].turn]
           e == Sharing!ReadyError(feed[f])
           x == IF e # None THEN [call[l] EXCEPT !.pc = "check", !.woken = FALSE, !.error = e]
                ELSE IF feed[f].ready THEN [call[l] EXCEPT !.pc = "check", !.woken = FALSE]
                ELSE [call[l] EXCEPT !.pc = "asleep"]
<1>1. call[l].pc = "inspect" /\ call[l].pc \in Setups BY DEF Sharing!InspectFeed, Setups
<1>2. /\ call[l] \in CallRecords /\ call[l].turn \in DOMAIN Chosen(l)
      /\ f \in Feeds /\ Sharing!Awaited(l) = feed[f] /\ (f \in FeedsOf(l) \/ Shut(l))
  BY <1>1, AwaitedIs
<1>3. e \in Causes /\ (e = "Closed" => closed \/ Shut(l)) BY <1>2, ReadyErrorIs
<1>4. call' = [call EXCEPT ![l] = x] BY <1>2 DEF Sharing!InspectFeed
<1> HIDE DEF e
<1>5. /\ x \in CallRecords /\ x.pc \in Setups /\ x.selected = call[l].selected
      /\ x.turn = call[l].turn /\ (x.error = call[l].error \/ x.error = e)
  <2> DEFINE ready == feed[f].ready
  <2> HIDE DEF ready
  <2>1. CASE e # None BY <1>2, <1>3, <2>1 DEF CallRecords, CallPhases, Setups
  <2>2. CASE e = None /\ ready BY <1>2, <2>2 DEF CallRecords, CallPhases, Setups, ready
  <2>3. CASE e = None /\ ~ready BY <1>2, <2>3 DEF CallRecords, CallPhases, Setups, ready
  <2> QED BY <2>1, <2>2, <2>3
<1> HIDE DEF x
<1>6. x.error = call[l].error \/ (x.error = "Closed" => closed \/ Shut(l)) BY <1>3, <1>5
<1> QED BY <1>1, <1>2, <1>4, <1>5, <1>6, WaitStep DEF Sharing!InspectFeed

LEMMA CheckKeeps ==
    ASSUME Sharing!SharedAssumption, SharingInv, NEW l \in Listeners, Sharing!CheckOpen(l)
    PROVE  SharingInv'
<1>1. call[l].pc = "check" /\ call[l].pc \in Setups
      /\ call[l].pc \in {"idle", "select"} \cup Setups
  BY DEF Sharing!CheckOpen, Setups
<1>2. /\ call[l] \in CallRecords /\ call[l].turn \in DOMAIN Chosen(l) /\ CallRight(l)
      /\ Len(Chosen(l)) >= Len(Selection[l])
  BY <1>1, AwaitedIs DEF SharingInv, CallsRight
<1>3. Shut(l) => /\ Sharing!OpenError(l) \in Causes /\ Sharing!OpenError(l) # None
                 /\ Sharing!OpenError(l) = "Closed" => closed
  BY <1>1, OpenErrorIs
<1>4. Sharing!SetupError(l) = IF Shut(l) THEN Sharing!OpenError(l) ELSE call[l].error
  BY DEF Sharing!SetupError, Shut
<1>5. CASE Sharing!SetupError(l) # None
  <2>1. Sharing!Fail(l, Sharing!SetupError(l)) BY <1>5 DEF Sharing!CheckOpen
  <2>2. call[l].error \in Causes BY <1>2 DEF CallRecords
  <2>3. ~Shut(l) /\ call[l].error = "Closed" => closed BY <1>2 DEF CallRight
  <2>4. Sharing!SetupError(l) \in Causes /\ (Sharing!SetupError(l) = "Closed" => closed)
    BY <1>3, <1>4, <2>2, <2>3
  <2> QED BY <1>1, <2>1, <2>4, FailStep DEF Sharing!CheckOpen
<1>6. CASE Sharing!SetupError(l) = None
  <2>1. ~Shut(l) /\ call[l].error = None BY <1>3, <1>4, <1>6
  <2>2. CASE call[l].turn < Len(Selection[l])
    <3> DEFINE n == call[l].turn + 1
               x == [call[l] EXCEPT !.pc = "enable", !.turn = n]
    <3>1. call' = [call EXCEPT ![l] = x]
      <4> DEFINE y == [Sharing!NewCall EXCEPT !.pc = "open"]
      <4>1. call' = [call EXCEPT ![l] = IF call[l].turn < Len(Selection[l]) THEN x ELSE y]
        BY <1>6 DEF Sharing!CheckOpen
      <4> HIDE DEF x, y
      <4> QED BY <2>2, <4>1
    <3>4. n \in Nat \ {0} BY <1>2 DEF CallRecords
    <3> HIDE DEF n
    <3>2. /\ x \in CallRecords /\ x.pc \in Setups /\ x.selected = call[l].selected
          /\ x.turn = n /\ x.error = call[l].error
      BY <1>2, <3>4 DEF CallRecords, CallPhases, Setups
    <3> HIDE DEF x
    <3>3. x.turn \in DOMAIN Chosen(l)
      <4>1. Chosen(l) \in Seq(Feeds) BY <1>2 DEF Chosen, CallRecords
      <4>2. Selection[l] \in Seq(Topics) BY DEF Sharing!SharedAssumption
      <4> QED BY <1>2, <2>2, <3>2, <4>1, <4>2 DEF n
    <3> QED BY <1>1, <3>1, <3>2, <3>3, WaitStep DEF Sharing!CheckOpen
  <2>3. CASE ~(call[l].turn < Len(Selection[l]))
    <3> DEFINE x == [Sharing!NewCall EXCEPT !.pc = "open"]
    <3>1. call' = [call EXCEPT ![l] = x] BY <1>6, <2>3 DEF Sharing!CheckOpen
    <3>2. x \in CallRecords /\ x.pc = "open" /\ x.error = None
      <4>1. "open" \in CallPhases BY DEF CallPhases
      <4> QED BY <4>1, NewCallIs DEF CallRecords
    <3> HIDE DEF x
    <3>3. call'[l] = x BY <3>1, <3>2, CallSet DEF SharingInv
    <3>4. None # "Closed" BY SharingTypes DEF Sharing!Ends
    <3>5. feedReader' = feedReader BY DEF Sharing!CheckOpen
    <3>6. CallRight(l)' BY <1>1, <1>2, <3>2, <3>3, <3>4, <3>5 DEF CallRight, Setups, Early
    <3>7. x.pc \notin Early BY <3>2 DEF Early
    <3> QED BY <1>1, <3>1, <3>2, <3>6, <3>7, FeedCallStep DEF Sharing!CheckOpen
  <2> QED BY <2>2, <2>3
<1> QED BY <1>5, <1>6

LEMMA AbortKeeps ==
    ASSUME Sharing!SharedAssumption, SharingInv, NEW l \in Listeners,
           Sharing!SeeClosed(l) \/ Sharing!Timeout(l)
    PROVE  SharingInv'
<1>1. PICK e \in Causes : Sharing!AbortSetup(l, e) /\ (e = "Closed" => closed)
  BY DEF Sharing!SeeClosed, Sharing!Timeout, Causes, Sharing!Ends
<1>2. call[l].pc \in {"idle", "select"} \cup Setups BY <1>1 DEF Sharing!AbortSetup, Setups
<1> QED BY <1>1, <1>2, FailStep DEF Sharing!AbortSetup


LEMMA SelectKeeps ==
    ASSUME Sharing!SharedAssumption, SharingInv, NEW l \in Listeners, Sharing!SelectFeed(l)
    PROVE  SharingInv'
<1>1. /\ call[l].pc = "select" /\ call[l] \in CallRecords /\ CallRight(l) /\ lock = None
      /\ call[l].pc \in {"idle", "select"} \cup Setups
      /\ RecordsOK /\ StructInv /\ CallsRight /\ CausesOK
  BY ViewTypes DEF Sharing!SelectFeed, SharingInv, CallsRight, StructInv
<1>2. CASE closed
  <2>1. /\ Sharing!Fail(l, "Closed") /\ "Closed" \in Causes
        /\ UNCHANGED <<lock, registry, feed, queue>>
    BY <1>2 DEF Sharing!SelectFeed, Causes, Sharing!Ends
  <2> QED BY <1>1, <1>2, <2>1, FailStep DEF Sharing!SelectFeed
<1>3. CASE ~closed
  <2> DEFINE t == Selection[l][call[l].turn]
             live == {f \in Feeds : Sharing!Topic(f) = t /\ Sharing!Attachable(f)}
             s == live = {}
  <2>1. PICK f \in Feeds :
          /\ Sharing!Topic(f) = t
          /\ IF live # {} THEN f \in live ELSE Sharing!Fresh(f)
          /\ Sharing!Attach(l, f)
          /\ call' = [call EXCEPT ![l] =
                        [@ EXCEPT !.pc = "register", !.feed = f, !.start = (live = {})]]
    BY <1>3, Zenon DEF Sharing!SelectFeed, Feeds
  <2>2. registry' = {g \in registry : ~feed[g].stop} /\ lock' = l
    BY <1>3 DEF Sharing!SelectFeed
  <2>3. closed' = closed /\ task' = task /\ feedReader' = feedReader /\ finishing' = finishing
        /\ job' = job /\ closing' = closing
    BY DEF Sharing!SelectFeed
  <2> DEFINE x == [call[l] EXCEPT !.pc = "register", !.feed = f, !.start = s]
  <2>4. call' = [call EXCEPT ![l] = x] BY <2>1
  <2>5. s \in BOOLEAN OBVIOUS
  <2> HIDE DEF s
  <2>6. /\ x \in CallRecords /\ x.pc = "register" /\ x.feed = f /\ x.start = s
        /\ x.turn = call[l].turn /\ x.selected = call[l].selected /\ x.error = call[l].error
    BY <1>1, <2>5 DEF CallRecords, CallPhases, Early
  <2> HIDE DEF x
  <2>7. call[l].turn \in DOMAIN Selection[l]
    <3>1. call[l].turn \in Nat \ {0} /\ call[l].turn <= Len(Selection[l])
      BY <1>1 DEF CallRecords, CallRight
    <3>2. Selection[l] \in Seq(Topics) BY DEF Sharing!SharedAssumption
    <3> QED BY <3>1, <3>2
  <2>8. \A g \in Feeds : SameTopic(g, f) /\ Sharing!Attachable(g) => g \in live
    BY <2>1 DEF SameTopic
  <2>9. /\ x.start => /\ Sharing!Fresh(f)
                      /\ \A g \in Feeds : SameTopic(g, f) => ~Sharing!Attachable(g)
        /\ ~x.start => Sharing!Attachable(f)
    BY <2>1, <2>6, <2>8 DEF s
  <2> HIDE DEF live
  <2>10. StructInv' /\ ~Stopped(f)
    BY <1>1, <1>3, <2>1, <2>2, <2>3, <2>4, <2>6, <2>7, <2>9, SelectStep
  <2>11. /\ feed' \in [Feeds -> FeedRecords] /\ QueuesOK'
         /\ Hearing(f)' = Hearing(f) \cup {l}
         /\ Stopped(f)' = Stopped(f) /\ FeedEnd(f)' = FeedEnd(f)
         /\ \A g \in Feeds : g # f => feed'[g] = feed[g]
         /\ \A k \in Listeners :
               /\ FeedsOf(k)' = FeedsOf(k) /\ Shut(k)' = Shut(k)
               /\ ListenerEnd(k)' = ListenerEnd(k)
    BY <1>1, <2>1, AttachIs
  <2>12. /\ call' \in [Listeners -> CallRecords] /\ call'[l] = x
         /\ \A k \in Listeners : k # l => call'[k] = call[k]
    BY <1>1, <2>4, <2>6, CallSet
  <2>13. RecordsOK'
    BY <1>1, <2>2, <2>3, <2>11, <2>12 DEF RecordsOK
  <2>14. CallsRight'
    <3> SUFFICES ASSUME NEW k \in Listeners PROVE CallRight(k)' BY DEF CallsRight
    <3>1. CASE k = l
      <4>1. Chosen(l)' = Chosen(l) BY <2>6, <2>12 DEF Chosen
      <4> QED BY <1>1, <2>3, <2>6, <2>11, <2>12, <3>1, <4>1 DEF CallRight, Early, Setups
    <3>2. CASE k # l
      <4>1. call'[k] = call[k] /\ CallRight(k) BY <1>1, <2>12, <3>2 DEF CallsRight
      <4>2. feedReader'[k] # "idle" => call[k].pc = "open" BY <2>3, <4>1 DEF CallRight
      <4> QED BY <2>3, <2>11, <4>1, <4>2, CallKept
    <3> QED BY <3>1, <3>2
  <2>15. CausesOK'
    <3>1. \A g \in Feeds : g # f => /\ Hearing(g)' = Hearing(g) /\ Stopped(g)' = Stopped(g)
                                    /\ FeedEnd(g)' = FeedEnd(g)
      BY <2>11, SameFeed
    <3> QED BY <1>1, <2>3, <2>10, <2>11, <3>1 DEF CausesOK
  <2> QED BY <2>10, <2>13, <2>14, <2>15 DEF SharingInv, StructInv
<1> QED BY <1>2, <1>3

LEMMA RegisterKeeps ==
    ASSUME Sharing!SharedAssumption, SharingInv, NEW l \in Listeners, Sharing!Register(l)
    PROVE  SharingInv'
<1> DEFINE f == call[l].feed
<1>1. /\ call[l].pc = "register" /\ call[l] \in CallRecords /\ CallRight(l) /\ lock = l
      /\ f \in Feeds /\ lock' = None
      /\ RecordsOK /\ StructInv /\ CallsRight /\ CausesOK
  BY ViewTypes DEF Sharing!Register, SharingInv, CallsRight, StructInv, BothKnow
<1>2. closed' = closed /\ feedReader' = feedReader /\ finishing' = finishing /\ job' = job
      /\ closing' = closing
  BY DEF Sharing!Register
<1>3. CASE Shut(l)
  <2>1. /\ feed' = [feed EXCEPT ![f] = Sharing!Detached(feed[f], l)]
        /\ Sharing!Fail(l, Sharing!OpenError(l))
        /\ UNCHANGED <<registry, task, queue>>
    BY <1>3 DEF Sharing!Register, Shut, Sharing!WithdrawAttachment
  <2>2. /\ Sharing!OpenError(l) \in Causes
        /\ Sharing!OpenError(l) = "Closed" => closed
    BY <1>1, <1>3, OpenErrorIs
  <2>3. PICK x \in CallRecords :
          call' = [call EXCEPT ![l] = x] /\ x.pc = "drop" /\ x.error = Sharing!OpenError(l)
    BY <2>1, <2>2, FailIs
  <2>4. /\ StructInv' /\ feed' \in [Feeds -> FeedRecords]
        /\ \A g \in Feeds :
              /\ FeedEnd(g)' = FeedEnd(g) /\ Hearing(g)' \subseteq Hearing(g)
              /\ Stopped(g)' => Stopped(g) \/ Hearing(g)' = {}
    BY <1>1, <1>2, <1>3, <2>1, <2>3, WithdrawStep
  <2>5. /\ call' \in [Listeners -> CallRecords] /\ call'[l] = x
        /\ \A k \in Listeners : k # l => call'[k] = call[k]
    BY <1>1, <2>3, CallSet
  <2>6. /\ registry' = registry /\ task' = task /\ queue' = queue
        /\ \A k \in Listeners : FeedsOf(k)' = FeedsOf(k) /\ Shut(k)' = Shut(k)
                                /\ ListenerEnd(k)' = ListenerEnd(k)
    BY <2>1 DEF FeedsOf, Shut, ListenerEnd
  <2>7. RecordsOK' BY <1>1, <1>2, <2>4, <2>5, <2>6 DEF RecordsOK, QueuesOK
  <2>8. CallsRight'
    <3> SUFFICES ASSUME NEW k \in Listeners PROVE CallRight(k)' BY DEF CallsRight
    <3>1. CASE k = l
      BY <1>1, <1>2, <2>2, <2>3, <2>5, <2>6, <3>1 DEF CallRight, Early, Setups
    <3>2. CASE k # l
      <4>1. call'[k] = call[k] /\ CallRight(k) BY <1>1, <2>5, <3>2 DEF CallsRight
      <4>2. feedReader'[k] # "idle" => call[k].pc = "open" BY <1>2, <4>1 DEF CallRight
      <4> QED BY <1>2, <2>6, <4>1, <4>2, CallKept
    <3> QED BY <3>1, <3>2
  <2>9. CausesOK' BY <1>1, <1>2, <2>4, <2>6 DEF CausesOK
  <2> QED BY <2>4, <2>7, <2>8, <2>9 DEF SharingInv, StructInv
<1>4. CASE ~Shut(l)
  <2> DEFINE m == Append(call[l].selected, f)
             n == call[l].turn + 1
             no == FALSE
             x == IF call[l].turn < Len(Selection[l])
                  THEN [call[l] EXCEPT !.pc = "select", !.turn = n, !.feed = None,
                                       !.start = no, !.selected = m]
                  ELSE [call[l] EXCEPT !.pc = "enable", !.turn = 1, !.feed = None,
                                       !.start = no, !.selected = m]
  <2>1. /\ queue' = [queue EXCEPT ![l].feeds = @ \cup {f}]
        /\ registry' = IF call[l].start THEN registry \cup {f} ELSE registry
        /\ task' = IF call[l].start THEN [task EXCEPT ![f].pc = "receive"] ELSE task
        /\ call' = [call EXCEPT ![l] = x]
        /\ feed' = feed
    BY <1>4 DEF Sharing!Register, Shut
  <2>2. m \in Seq(Feeds) /\ n \in Nat \ {0} /\ no \in BOOLEAN
        /\ call[l].selected \in Seq(Feeds) /\ call[l].turn \in Nat \ {0}
    BY <1>1 DEF CallRecords
  <2>3. /\ x \in CallRecords /\ x.selected = m /\ x.error = call[l].error
        /\ \/ call[l].turn < Len(Selection[l]) /\ x.pc = "select" /\ x.turn = n
           \/ ~(call[l].turn < Len(Selection[l])) /\ x.pc = "enable" /\ x.turn = 1
    <3> HIDE DEF m, n, no
    <3>1. CASE call[l].turn < Len(Selection[l])
      BY <1>1, <2>2, <3>1 DEF CallRecords, CallPhases, Early
    <3>2. CASE ~(call[l].turn < Len(Selection[l]))
      <4> DEFINE one == 1
                 y == [call[l] EXCEPT !.pc = "enable", !.turn = one, !.feed = None,
                                      !.start = no, !.selected = m]
      <4>1. x = y BY <3>2
      <4>2. "enable" \in CallPhases BY DEF CallPhases, Setups
      <4>4. one \in Nat \ {0} OBVIOUS
      <4> HIDE DEF one
      <4>3. y \in CallRecords /\ y.selected = m /\ y.error = call[l].error
            /\ y.pc = "enable" /\ y.turn = one
        BY <1>1, <2>2, <4>2, <4>4 DEF CallRecords
      <4> HIDE DEF x, y
      <4> QED BY <3>2, <4>1, <4>3 DEF one
    <3> QED BY <3>1, <3>2
  <2> HIDE DEF x
  <2>4. /\ x.pc \in {"select", "enable"} /\ (x.pc = "select" => x.turn = call[l].turn + 1)
    BY <2>3
  <2>5. /\ StructInv' /\ task' \in [Feeds -> TaskRecords] /\ QueuesOK'
        /\ FeedsOf(l)' = FeedsOf(l) \cup {f}
        /\ \A k \in Listeners :
              /\ Shut(k)' = Shut(k) /\ ListenerEnd(k)' = ListenerEnd(k)
              /\ k # l => FeedsOf(k)' = FeedsOf(k)
    BY <1>1, <1>2, <1>4, <2>1, <2>3, <2>4, RegisterStep
  <2>6. /\ call' \in [Listeners -> CallRecords] /\ call'[l] = x
        /\ \A k \in Listeners : k # l => call'[k] = call[k]
    BY <1>1, <2>1, <2>3, CallSet
  <2>7. RecordsOK'
    <3>1. registry' \subseteq Feeds BY <1>1, <2>1 DEF RecordsOK
    <3> QED BY <1>1, <1>2, <2>1, <2>5, <2>6, <3>1 DEF RecordsOK
  <2>8. CallsRight'
    <3> SUFFICES ASSUME NEW k \in Listeners PROVE CallRight(k)' BY DEF CallsRight
    <3>1. CASE k = l
      <4>1. /\ Len(Chosen(l)) = call[l].turn - 1 /\ call[l].turn <= Len(Selection[l])
            /\ \A i \in DOMAIN Chosen(l) : Chosen(l)[i] \in FeedsOf(l)
            /\ call[l].error = "Closed" => closed
            /\ feedReader[l] = "idle"
        BY <1>1, <1>4 DEF CallRight, Early
      <4>2. /\ Chosen(l)' = m /\ Chosen(l) = call[l].selected
        BY <2>3, <2>6 DEF Chosen
      <4>3. /\ Len(m) = call[l].turn
            /\ \A i \in DOMAIN m : m[i] \in FeedsOf(l)'
        <5>1. Len(m) = Len(Chosen(l)) + 1 BY <2>2, <4>2
        <5>2. ASSUME NEW i \in DOMAIN m PROVE m[i] \in FeedsOf(l)'
          <6>1. CASE i = Len(Chosen(l)) + 1 BY <2>2, <2>5, <4>2, <6>1
          <6>2. CASE i # Len(Chosen(l)) + 1
            <7>1. i \in DOMAIN Chosen(l) /\ m[i] = Chosen(l)[i] BY <2>2, <4>2, <6>2
            <7> QED BY <2>5, <4>1, <7>1
          <6> QED BY <6>1, <6>2
        <5> QED BY <2>2, <4>1, <5>1, <5>2
      <4>4. DOMAIN m = 1..Len(m) BY <2>2
      <4>5. Selection[l] \in Seq(Topics) BY DEF Sharing!SharedAssumption
      <4> HIDE DEF m
      <4>6. Len(Selection[l]) \in Nat BY <4>5
      <4>7. CASE x.pc = "select"
        BY <1>2, <1>4, <2>2, <2>3, <2>5, <2>6, <4>1, <4>2, <4>3, <4>6, <4>7, <3>1
           DEF CallRight, Early, Setups
      <4>8. CASE x.pc = "enable"
        BY <1>2, <1>4, <2>2, <2>3, <2>5, <2>6, <4>1, <4>2, <4>3, <4>4, <4>6, <4>8, <3>1
           DEF CallRight, Early, Setups
      <4> QED BY <2>4, <4>7, <4>8
    <3>2. CASE k # l
      <4>1. call'[k] = call[k] /\ CallRight(k) BY <1>1, <2>6, <3>2 DEF CallsRight
      <4>2. feedReader'[k] # "idle" => call[k].pc = "open" BY <1>2, <4>1 DEF CallRight
      <4> QED BY <1>2, <2>5, <3>2, <4>1, <4>2, CallKept
    <3> QED BY <3>1, <3>2
  <2>9. CausesOK'
    <3>1. \A g \in Feeds : FeedEnd(g)' = FeedEnd(g) /\ (Stopped(g)' <=> Stopped(g))
                           /\ Hearing(g)' = Hearing(g)
      BY <2>1, Zenon DEF FeedEnd, Stopped, Hearing
    <3> QED BY <1>1, <1>2, <2>5, <3>1 DEF CausesOK
  <2> QED BY <2>5, <2>7, <2>8, <2>9 DEF SharingInv, StructInv
<1> QED BY <1>3, <1>4


\* Steps that leave the calls where they are.
SameCallFields ==
    \A k \in Listeners :
        /\ call'[k].pc = call[k].pc /\ call'[k].turn = call[k].turn
        /\ call'[k].selected = call[k].selected /\ call'[k].error = call[k].error
        /\ call'[k].feed = call[k].feed /\ call'[k].start = call[k].start

LEMMA SameCallsIs ==
    ASSUME SameCallFields
    PROVE  SameCalls
<1> SUFFICES ASSUME NEW k \in Listeners
             PROVE  /\ lock = k => /\ call'[k].feed = call[k].feed
                                   /\ call'[k].start = call[k].start
                    /\ call'[k].pc = "register" <=> call[k].pc = "register"
                    /\ call'[k].pc \in Early /\ ~Shut(k) =>
                          /\ call[k].pc \in Early
                          /\ \A t \in Topics : Past(k, t) => Past(k, t)'
  BY DEF SameCalls
<1>1. /\ call'[k].pc = call[k].pc /\ call'[k].turn = call[k].turn
      /\ call'[k].feed = call[k].feed /\ call'[k].start = call[k].start
  BY DEF SameCallFields
<1>2. \A t \in Topics : Past(k, t) => Past(k, t)' BY <1>1 DEF Past
<1> QED BY <1>1, <1>2

LEMMA FeedCallsKept ==
    ASSUME CallsRight, SameCallFields, closed => closed',
           \A k \in Listeners :
               /\ Shut(k) => Shut(k)'
               /\ \A f \in FeedsOf(k) : f \in FeedsOf(k)' \/ Shut(k)'
               /\ Shut(k)' /\ call[k].pc \notin {"open", "failed"} =>
                     ListenerEnd(k)' # None \/ (Shut(k) /\ ListenerEnd(k)' = ListenerEnd(k))
               /\ feedReader'[k] # "idle" => call[k].pc = "open"
    PROVE  CallsRight'
<1> SUFFICES ASSUME NEW k \in Listeners PROVE CallRight(k)' BY DEF CallsRight
<1>1. CallRight(k) BY DEF CallsRight
<1>2. /\ call'[k].pc = call[k].pc /\ call'[k].turn = call[k].turn
      /\ call'[k].selected = call[k].selected /\ call'[k].error = call[k].error
  BY DEF SameCallFields
<1> QED BY <1>1, <1>2, CallKept

LEMMA NotifyIs ==
    ASSUME RecordsOK, NEW f \in Feeds, Sharing!Notify(f)
    PROVE  call' \in [Listeners -> CallRecords] /\ SameCallFields
<1>1. ASSUME NEW k \in Listeners
      PROVE  /\ call'[k] \in CallRecords
             /\ call'[k].pc = call[k].pc /\ call'[k].turn = call[k].turn
             /\ call'[k].selected = call[k].selected /\ call'[k].error = call[k].error
             /\ call'[k].feed = call[k].feed /\ call'[k].start = call[k].start
  <2> DEFINE x == [call[k] EXCEPT !.woken = TRUE]
  <2>1. call[k] \in CallRecords BY ViewTypes
  <2>2. /\ x \in CallRecords /\ x.pc = call[k].pc /\ x.turn = call[k].turn
        /\ x.selected = call[k].selected /\ x.error = call[k].error
        /\ x.feed = call[k].feed /\ x.start = call[k].start
    BY <2>1 DEF CallRecords
  <2>3. call'[k] = x \/ call'[k] = call[k] BY DEF Sharing!Notify
  <2> HIDE DEF x
  <2> QED BY <2>1, <2>2, <2>3
<1>2. call' = [k \in Listeners |-> call'[k]] BY DEF Sharing!Notify
<1>3. call' \in [Listeners -> CallRecords] BY <1>1, <1>2
<1> QED BY <1>1, <1>3 DEF SameCallFields

\* A quiet step: what is buffered, woken, read and delivered.
LEMMA QuietKeeps ==
    ASSUME Sharing!SharedAssumption, SharingInv, RecordsOK',
           UNCHANGED <<lock, registry, feed, closing>>, closed => closed',
           SameQueues, SameTasks, SameLeaving, SameCallFields,
           \A k \in Listeners : \/ ListenerEnd(k)' = ListenerEnd(k)
                                \/ call[k].pc = "open" /\ ListenerEnd(k)' = None,
           \A k \in Listeners : feedReader'[k] # "idle" => call[k].pc = "open",
           \A a \in Workers :
               /\ Ending(a)' = Ending(a)
               /\ job'[a] # None => job'[a] = job[a]
    PROVE  SharingInv'
<1>1. RecordsOK /\ StructInv /\ CallsRight /\ CausesOK BY DEF SharingInv, StructInv
<1>2. SameCalls BY SameCallsIs
<1>3. SameJobs BY SharingTypes DEF SameJobs
<1>4. FeedQuiet BY <1>2, <1>3 DEF FeedQuiet
<1>5. StructInv' BY <1>1, <1>4, QuietStep
<1>6. CallsRight' BY <1>1, FeedCallsKept DEF SameQueues
<1>7. \A f \in Feeds : FeedEnd(f)' = FeedEnd(f) /\ (Stopped(f)' <=> Stopped(f))
                       /\ Hearing(f)' = Hearing(f)
  <2>1. feed' = feed OBVIOUS
  <2> QED BY <2>1, Zenon DEF FeedEnd, Stopped, Hearing
<1>8. None # "Closed" BY SharingTypes DEF Sharing!Ends
<1>9. CausesOK' BY <1>1, <1>7, <1>8 DEF CausesOK
<1> QED BY <1>5, <1>6, <1>9 DEF SharingInv, StructInv

\* A step of a feed that publishes.
LEMMA PublishKeeps ==
    ASSUME Sharing!SharedAssumption, SharingInv, NEW f \in Feeds, Sharing!Receiving(f),
           NEW d \in FeedRecords, feed' = [feed EXCEPT ![f] = d],
           d.listeners = Hearing(f), d.stop = Stopped(f), d.terminal = FeedEnd(f),
           NEW p \in FeedRecords, queue' = Sharing!Published(p, Sharing!Topic(f)),
           p.listeners = Hearing(f), p.current = d.current,
           p.ready \/ (~d.ready /\ ~IsReady(f)),
           p.ready => (d.ready \/ d.current = Sharing!NoState),
           UNCHANGED <<closed, lock, registry, closing, feedReader, finishing, job>>,
           task' \in [Feeds -> TaskRecords], SameTasks,
           call' \in [Listeners -> CallRecords], SameCallFields
    PROVE  SharingInv'
<1>1. RecordsOK /\ StructInv /\ CallsRight /\ CausesOK BY DEF SharingInv, StructInv
<1>2. ~Unused(f) /\ ~Over(f) BY DEF Unused, Over, Sharing!Receiving
<1>3. /\ closed' = closed /\ lock' = lock /\ registry' = registry /\ closing' = closing
      /\ feedReader' = feedReader /\ finishing' = finishing /\ job' = job
  OBVIOUS
<1>4. SameJobs /\ SameLeaving BY <1>3, Zenon DEF SameJobs, SameLeaving, Ending, LeavingOf, Leaving
<1>5. SameCalls BY SameCallsIs
<1>6. /\ StructInv' /\ feed' \in [Feeds -> FeedRecords] /\ QueuesOK'
      /\ \A l \in Listeners :
            /\ FeedsOf(l)' = FeedsOf(l) /\ Shut(l)' = Shut(l)
            /\ ListenerEnd(l)' = ListenerEnd(l)
      /\ \A g \in Feeds : FeedEnd(g)' = FeedEnd(g) /\ Stopped(g)' = Stopped(g)
                          /\ Hearing(g)' = Hearing(g)
  BY <1>1, <1>2, <1>4, <1>5, PublishStep
<1>7. RecordsOK' BY <1>1, <1>3, <1>6 DEF RecordsOK
<1>8. CallsRight'
  <2>1. \A k \in Listeners : feedReader'[k] # "idle" => call[k].pc = "open"
    BY <1>1, <1>3 DEF CallsRight, CallRight
  <2> QED BY <1>1, <1>3, <1>6, <2>1, FeedCallsKept
<1>9. CausesOK' BY <1>1, <1>3, <1>6 DEF CausesOK
<1> QED BY <1>6, <1>7, <1>8, <1>9 DEF SharingInv, StructInv

\* A step that closes one listener.
LEMMA CloseKeeps ==
    ASSUME Sharing!SharedAssumption, SharingInv, NEW l \in Listeners,
           NEW end \in Sharing!Ends \cup {None}, NEW by \in Workers \cup Listeners,
           Sharing!CloseQueue(l, end, by), end = "Closed" => closed,
           UNCHANGED <<closed, lock, registry, feed, closing, feedReader>>,
           task' \in [Feeds -> TaskRecords], SameTasks,
           job' \in [Workers -> JobRecords \cup {None}],
           \A a \in Workers : /\ Ending(a) \ {l} \subseteq Ending(a)'
                              /\ job'[a] # None => job[a] # None /\ job'[a].end = job[a].end,
           call' \in [Listeners -> CallRecords],
           \/ SameCallFields /\ (end = None => call[l].pc = "open")
           \/ SameCalls /\ CallRight(l)' /\ \A k \in Listeners : k # l => call'[k] = call[k]
    PROVE  SharingInv'
<1>1. RecordsOK /\ StructInv /\ CallsRight /\ CausesOK /\ BothKnow
  BY DEF SharingInv, StructInv
<1>2. SameCalls BY SameCallsIs
<1>3. \A f \in Feeds : job'[f] # None => job[f] # None BY SharingTypes
<1>4. StructInv' BY <1>1, <1>2, <1>3, CloseStep
<1>5. /\ QueuesOK' /\ finishing' \in [Listeners -> FinishRecords \cup {None}]
      /\ Shut(l)' /\ ListenerEnd(l)' \in {None, end, ListenerEnd(l)}
      /\ end # None => ListenerEnd(l)' # None \/ (Shut(l) /\ ListenerEnd(l)' = ListenerEnd(l))
      /\ \A k \in Listeners : k # l =>
            /\ FeedsOf(k)' = FeedsOf(k) /\ Shut(k)' = Shut(k)
            /\ ListenerEnd(k)' = ListenerEnd(k)
  BY <1>1, CloseQueueIs
<1>6. /\ closed' = closed /\ lock' = lock /\ registry' = registry /\ feed' = feed
      /\ closing' = closing /\ feedReader' = feedReader
  OBVIOUS
<1>7. RecordsOK' BY <1>1, <1>5, <1>6 DEF RecordsOK
<1>8. \A k \in Listeners : CallRight(k) /\ (feedReader'[k] # "idle" => call[k].pc = "open")
  BY <1>1, <1>6 DEF CallsRight, CallRight
<1>9. CallsRight'
  <2>1. CASE SameCallFields /\ (end = None => call[l].pc = "open")
    <3> SUFFICES ASSUME NEW k \in Listeners PROVE CallRight(k)' BY DEF CallsRight
    <3>1. /\ call'[k].pc = call[k].pc /\ call'[k].turn = call[k].turn
          /\ call'[k].selected = call[k].selected /\ call'[k].error = call[k].error
      BY <2>1 DEF SameCallFields
    <3>2. /\ Shut(k) => Shut(k)'
          /\ \A f \in FeedsOf(k) : f \in FeedsOf(k)' \/ Shut(k)'
          /\ Shut(k)' /\ call[k].pc \notin {"open", "failed"} =>
                ListenerEnd(k)' # None \/ (Shut(k) /\ ListenerEnd(k)' = ListenerEnd(k))
      <4>1. CASE k = l BY <1>5, <2>1, <4>1
      <4>2. CASE k # l BY <1>5, <4>2
      <4> QED BY <4>1, <4>2
    <3> QED BY <1>6, <1>8, <3>1, <3>2, CallKept
  <2>2. CASE /\ SameCalls /\ CallRight(l)'
             /\ \A k \in Listeners : k # l => call'[k] = call[k]
    <3> SUFFICES ASSUME NEW k \in Listeners, k # l PROVE CallRight(k)'
      BY <2>2 DEF CallsRight
    <3>1. call'[k] = call[k] BY <2>2
    <3> QED BY <1>5, <1>6, <1>8, <3>1, CallKept
  <2> QED BY <2>1, <2>2
<1>10. CausesOK'
  <2>1. \A f \in Feeds : FeedEnd(f)' = FeedEnd(f) /\ (Stopped(f)' <=> Stopped(f))
                         /\ Hearing(f)' = Hearing(f)
    BY <1>6, Zenon DEF FeedEnd, Stopped, Hearing
  <2>2. None # "Closed" BY SharingTypes DEF Sharing!Ends
  <2>3. \A k \in Listeners : ListenerEnd(k)' = "Closed" => closed
    <3> SUFFICES ASSUME NEW k \in Listeners, ListenerEnd(k)' = "Closed" PROVE closed OBVIOUS
    <3>1. \A j \in Listeners : ListenerEnd(j) = "Closed" => closed BY <1>1 DEF CausesOK
    <3>2. CASE k = l BY <1>5, <2>2, <3>1, <3>2
    <3>3. CASE k # l BY <1>5, <3>1, <3>3
    <3> QED BY <3>2, <3>3
  <2> QED BY <1>1, <1>6, <2>1, <2>3 DEF CausesOK
<1> QED BY <1>4, <1>7, <1>9, <1>10 DEF SharingInv, StructInv


LEMMA ChangeKeeps ==
    ASSUME Sharing!SharedAssumption, SharingInv, NEW f \in Feeds, NEW g \in Nat,
           Sharing!Change(f, g)
    PROVE  SharingInv'
<1> DEFINE d == [feed[f] EXCEPT !.current = g]
<1>1. feed[f] \in FeedRecords BY ViewTypes DEF SharingInv
<1>2. /\ d \in FeedRecords /\ d.listeners = Hearing(f) /\ d.stop = Stopped(f)
      /\ d.terminal = FeedEnd(f) /\ d.ready = IsReady(f)
  BY <1>1 DEF FeedRecords, Hearing, Stopped, FeedEnd, IsReady
<1>3. /\ feed' = [feed EXCEPT ![f] = d] /\ queue' = Sharing!Published(d, Sharing!Topic(f))
      /\ Sharing!Receiving(f)
  BY DEF Sharing!Change
<1> HIDE DEF d
<1>4. /\ closed' = closed /\ lock' = lock /\ registry' = registry /\ task' = task
      /\ call' = call /\ feedReader' = feedReader /\ finishing' = finishing /\ job' = job
      /\ closing' = closing
  BY DEF Sharing!Change
<1>5. task' \in [Feeds -> TaskRecords] /\ call' \in [Listeners -> CallRecords]
  BY <1>4 DEF SharingInv, RecordsOK
<1>6. SameTasks /\ SameCallFields BY <1>4, Zenon DEF SameTasks, SameCallFields, Unused, Over
<1>7. d.current = d.current /\ (d.ready \/ (~d.ready /\ ~IsReady(f))) BY <1>2
<1> QED BY <1>2, <1>3, <1>4, <1>5, <1>6, <1>7, PublishKeeps

LEMMA FeedReadyKeeps ==
    ASSUME Sharing!SharedAssumption, SharingInv, NEW f \in Feeds, Sharing!FeedReady(f)
    PROVE  SharingInv'
<1> DEFINE d == [feed[f] EXCEPT !.ready = TRUE]
<1>1. feed[f] \in FeedRecords /\ RecordsOK BY ViewTypes DEF SharingInv
<1>2. /\ d \in FeedRecords /\ d.listeners = Hearing(f) /\ d.stop = Stopped(f)
      /\ d.terminal = FeedEnd(f) /\ d.ready = TRUE
  BY <1>1 DEF FeedRecords, Hearing, Stopped, FeedEnd
<1>3. /\ feed' = [feed EXCEPT ![f] = d] /\ queue' = Sharing!Published(d, Sharing!Topic(f))
      /\ Sharing!Receiving(f) /\ Sharing!Notify(f)
  BY DEF Sharing!FeedReady
<1> HIDE DEF d
<1>4. /\ closed' = closed /\ lock' = lock /\ registry' = registry /\ task' = task
      /\ feedReader' = feedReader /\ finishing' = finishing /\ job' = job
      /\ closing' = closing
  BY DEF Sharing!FeedReady
<1>5. task' \in [Feeds -> TaskRecords] BY <1>1, <1>4 DEF RecordsOK
<1>6. SameTasks BY <1>4, Zenon DEF SameTasks, Unused, Over
<1>7. call' \in [Listeners -> CallRecords] /\ SameCallFields BY <1>1, <1>3, NotifyIs
<1>8. d.current = d.current /\ d.ready BY <1>2
<1> QED BY <1>2, <1>3, <1>4, <1>5, <1>6, <1>7, <1>8, PublishKeeps

LEMMA ResyncKeeps ==
    ASSUME Sharing!SharedAssumption, SharingInv, NEW f \in Feeds, Sharing!Resync(f)
    PROVE  SharingInv'
<1> DEFINE p == [feed[f] EXCEPT !.current = Sharing!NoState]
           d == [p EXCEPT !.ready = FALSE]
<1>1. feed[f] \in FeedRecords /\ task \in [Feeds -> TaskRecords] /\ RecordsOK
  BY ViewTypes DEF SharingInv, RecordsOK
<1>2. /\ p \in FeedRecords /\ p.listeners = Hearing(f) /\ p.stop = Stopped(f)
      /\ p.terminal = FeedEnd(f) /\ p.current = Sharing!NoState /\ p.ready = IsReady(f)
  BY <1>1 DEF FeedRecords, Hearing, Stopped, FeedEnd, IsReady, Sharing!NoState
<1>3. /\ feed' = [feed EXCEPT ![f] = d] /\ queue' = Sharing!Published(p, Sharing!Topic(f))
      /\ Sharing!Receiving(f) /\ task' = [task EXCEPT ![f].deltas = FALSE]
  BY DEF Sharing!Resync, Sharing!DiscardState
<1> HIDE DEF p
<1>4. /\ d \in FeedRecords /\ d.listeners = Hearing(f) /\ d.stop = Stopped(f)
      /\ d.terminal = FeedEnd(f) /\ d.current = Sharing!NoState /\ d.ready = FALSE
  BY <1>2 DEF FeedRecords
<1> HIDE DEF d
<1>5. /\ closed' = closed /\ lock' = lock /\ registry' = registry /\ call' = call
      /\ feedReader' = feedReader /\ finishing' = finishing /\ job' = job
      /\ closing' = closing
  BY DEF Sharing!Resync
<1>6. task' \in [Feeds -> TaskRecords] /\ SameTasks
  BY <1>1, <1>3 DEF TaskRecords, SameTasks, Unused, Over
<1>7. SameCallFields BY <1>5, Zenon DEF SameCallFields
<1>8. call' \in [Listeners -> CallRecords] BY <1>1, <1>5 DEF RecordsOK
<1>9. p.current = d.current /\ (p.ready \/ (~d.ready /\ ~IsReady(f))) BY <1>2, <1>4
<1> QED BY <1>2, <1>3, <1>4, <1>5, <1>6, <1>7, <1>8, <1>9, PublishKeeps

\* Steps in which a task alone changes.
LEMMA TaskStep ==
    ASSUME Sharing!SharedAssumption, SharingInv, NEW f \in Feeds, NEW x \in TaskRecords,
           task' = [task EXCEPT ![f] = x],
           task[f].pc \in {"receive", "deliver"}, x.pc \in {"receive", "deliver"},
           UNCHANGED <<closed, lock, registry, feed, queue, call, feedReader, finishing, job,
                       closing>>
    PROVE  SharingInv'
<1>1. /\ closed' = closed /\ lock' = lock /\ registry' = registry /\ feed' = feed
      /\ queue' = queue /\ call' = call /\ feedReader' = feedReader
      /\ finishing' = finishing /\ job' = job /\ closing' = closing
  OBVIOUS
<1>2. task' \in [Feeds -> TaskRecords] /\ SameTasks BY DEF SharingInv, RecordsOK, SameTasks, Unused, Over
<1>3. RecordsOK' BY <1>1, <1>2 DEF SharingInv, RecordsOK, QueuesOK
<1>4. /\ SameQueues /\ SameLeaving /\ SameCallFields
      /\ \A a \in Workers : Ending(a)' = Ending(a)
      /\ \A k \in Listeners : ListenerEnd(k)' = ListenerEnd(k)
  BY <1>1, Zenon DEF SameQueues, SameLeaving, SameCallFields, FeedsOf, Shut, Shown, LeavingOf,
       Leaving, Ending, ListenerEnd
<1>5. \A k \in Listeners : feedReader'[k] # "idle" => call[k].pc = "open"
  BY <1>1 DEF SharingInv, CallsRight, CallRight
<1> QED BY <1>1, <1>2, <1>3, <1>4, <1>5, QuietKeeps

LEMMA ReceiveEventKeeps ==
    ASSUME Sharing!SharedAssumption, SharingInv, NEW f \in Feeds, Sharing!ReceiveEvent(f)
    PROVE  SharingInv'
<1> DEFINE x == [task[f] EXCEPT !.pc = "deliver", !.targets = feed[f].listeners,
                                !.generation = feed[f].current]
<1>1. feed[f] \in FeedRecords /\ task[f] \in TaskRecords BY ViewTypes DEF SharingInv
<1>2. x \in TaskRecords /\ x.pc = "deliver"
  <2>1. feed[f].listeners \in SUBSET Listeners /\ feed[f].current \in Nat
    BY <1>1 DEF FeedRecords
  <2> QED BY <1>1, <2>1 DEF TaskRecords
<1>3. task' = [task EXCEPT ![f] = x] /\ task[f].pc = "receive"
  BY DEF Sharing!ReceiveEvent, Sharing!Receiving
<1> HIDE DEF x
<1> QED BY <1>2, <1>3, TaskStep DEF Sharing!ReceiveEvent

LEMMA DeliveredKeeps ==
    ASSUME Sharing!SharedAssumption, SharingInv, NEW f \in Feeds, Sharing!Delivered(f)
    PROVE  SharingInv'
<1> DEFINE x == [task[f] EXCEPT !.pc = "receive", !.generation = 0]
<1>1. task[f] \in TaskRecords BY ViewTypes DEF SharingInv
<1>2. x \in TaskRecords /\ x.pc = "receive" BY <1>1 DEF TaskRecords
<1>3. task' = [task EXCEPT ![f] = x] /\ task[f].pc = "deliver" BY DEF Sharing!Delivered
<1> HIDE DEF x
<1> QED BY <1>2, <1>3, TaskStep DEF Sharing!Delivered


\* What a reader sees of a queue.
ChangedIn(q, x) == [q EXCEPT !.changed = x]
EventsIn(q, x) == [q EXCEPT !.events = x]

LEMMA TouchedIs ==
    ASSUME NEW q, QueueOK(q), NEW x,
           NEW r, r \in {PermitIn(q, x), ChangedIn(q, x), EventsIn(q, x), TerminalIn(q, None)}
    PROVE  /\ QueueOK(r) /\ r.feeds = q.feeds /\ r.states = q.states /\ r.closed = q.closed
           /\ r.terminal = IF r = TerminalIn(q, None) THEN None ELSE q.terminal
<1> DEFINE Is(c, e, t, p) == QueueOf(q.feeds, q.states, c, e, t, q.closed, p)
<1>1. /\ PermitIn(q, x) = Is(q.changed, q.events, q.terminal, x)
      /\ ChangedIn(q, x) = Is(x, q.events, q.terminal, q.permit)
      /\ EventsIn(q, x) = Is(q.changed, x, q.terminal, q.permit)
      /\ TerminalIn(q, None) = Is(q.changed, q.events, None, q.permit)
  BY DEF QueueOK, QueueOf, PermitIn, ChangedIn, EventsIn, TerminalIn
<1>2. ASSUME NEW c, NEW e, NEW t \in Sharing!Ends \cup {None}, NEW p
      PROVE  LET s == Is(c, e, t, p) IN
             /\ QueueOK(s) /\ s.feeds = q.feeds /\ s.states = q.states
             /\ s.closed = q.closed /\ s.terminal = t
  <2> DEFINE s == Is(c, e, t, p)
  <2>1. /\ s.feeds = q.feeds /\ s.states = q.states /\ s.changed = c /\ s.events = e
        /\ s.terminal = t /\ s.closed = q.closed /\ s.permit = p
    BY DEF QueueOf
  <2>2. s = QueueOf(s.feeds, s.states, s.changed, s.events, s.terminal, s.closed, s.permit)
    BY <2>1, Zenon
  <2> HIDE DEF s
  <2> QED BY <2>1, <2>2 DEF QueueOK
<1>3. q.terminal \in Sharing!Ends \cup {None} BY DEF QueueOK
<1> HIDE DEF Is
<1>4. CASE r = PermitIn(q, x) BY <1>1, <1>2, <1>3, <1>4
<1>5. CASE r = ChangedIn(q, x) BY <1>1, <1>2, <1>3, <1>5
<1>6. CASE r = EventsIn(q, x) BY <1>1, <1>2, <1>3, <1>6
<1>7. CASE r = TerminalIn(q, None) BY <1>1, <1>2, <1>3, <1>7
<1> QED BY <1>4, <1>5, <1>6, <1>7

\* A step at one queue that its feeds and what it shows do not change.
LEMMA TouchStep ==
    ASSUME Sharing!SharedAssumption, SharingInv, NEW l \in Listeners, NEW x, QueueOK(x),
           QueueSet(l, x), x.feeds = queue[l].feeds, x.states = queue[l].states,
           x.closed = queue[l].closed,
           x.terminal = queue[l].terminal \/ (call[l].pc = "open" /\ x.terminal = None),
           UNCHANGED <<closed, lock, registry, feed, call, job, closing>>,
           task' \in [Feeds -> TaskRecords], SameTasks,
           finishing' \in [Listeners -> FinishRecords \cup {None}], SameLeaving,
           feedReader' \in [Listeners -> {"idle", "poll", "asleep"}],
           \A k \in Listeners : feedReader'[k] # "idle" => call[k].pc = "open"
    PROVE  SharingInv'
<1>1. /\ closed' = closed /\ lock' = lock /\ registry' = registry /\ feed' = feed
      /\ call' = call /\ job' = job /\ closing' = closing
  OBVIOUS
<1>2. /\ QueuesOK' /\ queue'[l] = x
      /\ FeedsOf(l)' = x.feeds /\ Shut(l)' = x.closed /\ ListenerEnd(l)' = x.terminal
      /\ \A k \in Listeners : k # l =>
            /\ FeedsOf(k)' = FeedsOf(k) /\ Shut(k)' = Shut(k)
            /\ ListenerEnd(k)' = ListenerEnd(k)
            /\ \A t \in Topics : Shown(k, t)' = Shown(k, t)
  BY QueuePut DEF SharingInv
<1>3. \A t \in Topics : Shown(l, t)' = Shown(l, t) BY <1>2, Zenon DEF Shown
<1>4. FeedsOf(l)' = FeedsOf(l) /\ Shut(l)' = Shut(l) /\ ListenerEnd(l) = queue[l].terminal
  BY <1>2, Zenon DEF FeedsOf, Shut, ListenerEnd
<1>5. /\ SameQueues
      /\ \A k \in Listeners : \/ ListenerEnd(k)' = ListenerEnd(k)
                              \/ call[k].pc = "open" /\ ListenerEnd(k)' = None
  <2> SUFFICES ASSUME NEW k \in Listeners
               PROVE  /\ FeedsOf(k)' = FeedsOf(k) /\ Shut(k)' = Shut(k)
                      /\ \A t \in Topics : Shown(k, t)' = Shown(k, t)
                      /\ \/ ListenerEnd(k)' = ListenerEnd(k)
                         \/ call[k].pc = "open" /\ ListenerEnd(k)' = None
    BY DEF SameQueues
  <2>1. CASE k = l BY <1>2, <1>3, <1>4, <2>1
  <2>2. CASE k # l BY <1>2, <2>2
  <2> QED BY <2>1, <2>2
<1>6. RecordsOK' BY <1>1, <1>2 DEF SharingInv, RecordsOK
<1>7. SameCallFields /\ \A a \in Workers : Ending(a)' = Ending(a)
  BY <1>1, Zenon DEF SameCallFields, Ending
<1> QED BY <1>1, <1>5, <1>6, <1>7, QuietKeeps

LEMMA PollKeeps ==
    ASSUME Sharing!SharedAssumption, SharingInv, NEW l \in Listeners, Sharing!PollQueue(l)
    PROVE  SharingInv'
<1> DEFINE q == queue[l]
           no == FALSE
           es == Tail(q.events)
<1>1. RecordsOK /\ QueueOK(q) /\ CallsRight BY ViewTypes DEF SharingInv
<1>2. /\ closed' = closed /\ lock' = lock /\ registry' = registry /\ feed' = feed
      /\ task' = task /\ call' = call /\ finishing' = finishing /\ job' = job
      /\ closing' = closing /\ feedReader[l] = "poll"
  BY DEF Sharing!PollQueue
<1>3. /\ \E v \in {"idle", "asleep"} : feedReader' = [feedReader EXCEPT ![l] = v]
      /\ \/ queue' = [queue EXCEPT ![l] = TerminalIn(@, None)]
         \/ queue' = [queue EXCEPT ![l] = ChangedIn(@, no)]
         \/ queue' = [queue EXCEPT ![l] = EventsIn(@, es)]
         \/ queue' = queue
  BY DEF Sharing!PollQueue, TerminalIn, ChangedIn, EventsIn
<1>4. call[l].pc = "open" BY <1>1, <1>2 DEF CallsRight, CallRight
<1>5. /\ feedReader' \in [Listeners -> {"idle", "poll", "asleep"}]
      /\ \A k \in Listeners : feedReader'[k] # "idle" => call[k].pc = "open"
  <2>1. PICK v \in {"idle", "asleep"} : feedReader' = [feedReader EXCEPT ![l] = v] BY <1>3
  <2>2. feedReader \in [Listeners -> {"idle", "poll", "asleep"}] BY <1>1 DEF RecordsOK
  <2>3. \A k \in Listeners : feedReader[k] # "idle" => call[k].pc = "open"
    BY <1>1 DEF CallsRight, CallRight
  <2> QED BY <1>4, <2>1, <2>2, <2>3
<1>6. /\ task' \in [Feeds -> TaskRecords] /\ SameTasks
      /\ finishing' \in [Listeners -> FinishRecords \cup {None}] /\ SameLeaving
  BY <1>1, <1>2, Zenon DEF RecordsOK, SameTasks, SameLeaving, Unused, Over, LeavingOf, Leaving
<1> HIDE DEF q, no, es
<1>7. \E x : QueueOK(x) /\ QueueSet(l, x) /\ x.feeds = queue[l].feeds
             /\ x.states = queue[l].states /\ x.closed = queue[l].closed
             /\ (x.terminal = queue[l].terminal \/ x.terminal = None)
  <2>1. q = queue[l] BY DEF q
  <2>2. CASE queue' = [queue EXCEPT ![l] = TerminalIn(@, None)]
    <3> DEFINE x == TerminalIn(q, None)
    <3>1. QueueSet(l, x) BY <2>1, <2>2 DEF QueueSet
    <3>2. QueueOK(x) /\ x.feeds = q.feeds /\ x.states = q.states /\ x.closed = q.closed
          /\ (x.terminal = q.terminal \/ x.terminal = None)
      BY <1>1, TouchedIs
    <3> QED BY <2>1, <3>1, <3>2
  <2>3. CASE queue' = [queue EXCEPT ![l] = ChangedIn(@, no)]
    <3> DEFINE x == ChangedIn(q, no)
    <3>1. QueueSet(l, x) BY <2>1, <2>3 DEF QueueSet
    <3>2. QueueOK(x) /\ x.feeds = q.feeds /\ x.states = q.states /\ x.closed = q.closed
          /\ (x.terminal = q.terminal \/ x.terminal = None)
      BY <1>1, TouchedIs
    <3> QED BY <2>1, <3>1, <3>2
  <2>4. CASE queue' = [queue EXCEPT ![l] = EventsIn(@, es)]
    <3> DEFINE x == EventsIn(q, es)
    <3>1. QueueSet(l, x) BY <2>1, <2>4 DEF QueueSet
    <3>2. QueueOK(x) /\ x.feeds = q.feeds /\ x.states = q.states /\ x.closed = q.closed
          /\ (x.terminal = q.terminal \/ x.terminal = None)
      BY <1>1, TouchedIs
    <3> QED BY <2>1, <3>1, <3>2
  <2>5. CASE queue' = queue
    <3>1. QueueSet(l, queue[l]) BY <1>1, <2>5 DEF QueueSet, RecordsOK, QueuesOK
    <3> QED BY <1>1, <2>1, <3>1
  <2> QED BY <1>3, <2>2, <2>3, <2>4, <2>5
<1>8. PICK x : QueueOK(x) /\ QueueSet(l, x) /\ x.feeds = queue[l].feeds
               /\ x.states = queue[l].states /\ x.closed = queue[l].closed
               /\ (x.terminal = queue[l].terminal \/ x.terminal = None)
  BY <1>7
<1> QED BY <1>2, <1>4, <1>5, <1>6, <1>8, TouchStep

LEMMA ReaderWakesKeeps ==
    ASSUME Sharing!SharedAssumption, SharingInv, NEW l \in Listeners, Sharing!ReaderWakes(l)
    PROVE  SharingInv'
<1> DEFINE q == queue[l]
           no == FALSE
           x == PermitIn(q, no)
<1>1. RecordsOK /\ QueueOK(q) /\ CallsRight BY ViewTypes DEF SharingInv
<1>2. /\ closed' = closed /\ lock' = lock /\ registry' = registry /\ feed' = feed
      /\ task' = task /\ call' = call /\ finishing' = finishing /\ job' = job
      /\ closing' = closing /\ feedReader[l] = "asleep"
      /\ feedReader' = [feedReader EXCEPT ![l] = "poll"]
  BY DEF Sharing!ReaderWakes
<1>3. QueueSet(l, x) BY DEF Sharing!ReaderWakes, QueueSet, PermitIn
<1>4. /\ feedReader' \in [Listeners -> {"idle", "poll", "asleep"}]
      /\ \A k \in Listeners : feedReader'[k] # "idle" => call[k].pc = "open"
  <2>1. feedReader \in [Listeners -> {"idle", "poll", "asleep"}] BY <1>1 DEF RecordsOK
  <2>2. \A k \in Listeners : feedReader[k] # "idle" => call[k].pc = "open"
    BY <1>1 DEF CallsRight, CallRight
  <2> QED BY <1>2, <2>1, <2>2
<1>5. /\ task' \in [Feeds -> TaskRecords] /\ SameTasks
      /\ finishing' \in [Listeners -> FinishRecords \cup {None}] /\ SameLeaving
  BY <1>1, <1>2, Zenon DEF RecordsOK, SameTasks, SameLeaving, Unused, Over, LeavingOf, Leaving
<1> HIDE DEF q, no
<1>6. QueueOK(x) /\ x.feeds = q.feeds /\ x.states = q.states /\ x.closed = q.closed
      /\ (x.terminal = q.terminal \/ x.terminal = None)
  BY <1>1, TouchedIs
<1>7. call[l].pc = "open" BY <1>1, <1>2 DEF CallsRight, CallRight
<1> HIDE DEF x
<1> QED BY <1>2, <1>3, <1>4, <1>5, <1>6, <1>7, TouchStep DEF q


LEMMA WakeReaderKeeps ==
    ASSUME Sharing!SharedAssumption, SharingInv, NEW l \in Listeners, Sharing!WakeReader(l)
    PROVE  SharingInv'
<1> DEFINE q == queue[l]
           yes == TRUE
           x == PermitIn(q, yes)
<1>1. RecordsOK /\ QueueOK(q) /\ CallsRight BY ViewTypes DEF SharingInv
<1>2. /\ closed' = closed /\ lock' = lock /\ registry' = registry /\ feed' = feed
      /\ task' = task /\ call' = call /\ feedReader' = feedReader /\ job' = job
      /\ closing' = closing /\ finishing[l] # None /\ finishing[l].feeds = {}
      /\ finishing' = [finishing EXCEPT ![l] = None]
  BY DEF Sharing!WakeReader
<1>3. QueueSet(l, x) BY DEF Sharing!WakeReader, QueueSet, PermitIn
<1>4. /\ feedReader' \in [Listeners -> {"idle", "poll", "asleep"}]
      /\ \A k \in Listeners : feedReader'[k] # "idle" => call[k].pc = "open"
  BY <1>1, <1>2 DEF CallsRight, CallRight, RecordsOK
<1>5. task' \in [Feeds -> TaskRecords] /\ SameTasks
  BY <1>1, <1>2, Zenon DEF RecordsOK, SameTasks, Unused, Over
<1>6. finishing' \in [Listeners -> FinishRecords \cup {None}] /\ SameLeaving
  <2>1. finishing \in [Listeners -> FinishRecords \cup {None}] BY <1>1 DEF RecordsOK
  <2> QED BY <1>2, <2>1 DEF SameLeaving, LeavingOf, Leaving
<1> HIDE DEF q, yes
<1>8. QueueOK(x) /\ x.feeds = q.feeds /\ x.states = q.states /\ x.closed = q.closed
      /\ x.terminal = q.terminal
  <2>1. x = QueueOf(q.feeds, q.states, q.changed, q.events, q.terminal, q.closed, yes)
    BY <1>1 DEF QueueOK, QueueOf, PermitIn
  <2>2. x.terminal = q.terminal BY <2>1 DEF QueueOf
  <2> QED BY <1>1, <2>2, TouchedIs
<1> HIDE DEF x
<1> QED BY <1>2, <1>3, <1>4, <1>5, <1>6, <1>8, TouchStep DEF q

\* A call of next begins, or its future is dropped.
LEMMA NextKeeps ==
    ASSUME Sharing!SharedAssumption, SharingInv, NEW l \in Listeners,
           Sharing!CallNext(l) \/ Sharing!CancelNext(l)
    PROVE  SharingInv'
<1>1. RecordsOK /\ QueueOK(queue[l]) /\ CallsRight BY ViewTypes DEF SharingInv
<1>2. /\ closed' = closed /\ lock' = lock /\ registry' = registry /\ feed' = feed
      /\ task' = task /\ call' = call /\ finishing' = finishing /\ job' = job
      /\ closing' = closing /\ queue' = queue
  BY DEF Sharing!CallNext, Sharing!CancelNext
<1>3. \/ feedReader' = [feedReader EXCEPT ![l] = "poll"] /\ call[l].pc = "open"
      \/ feedReader' = [feedReader EXCEPT ![l] = "idle"]
  BY DEF Sharing!CallNext, Sharing!CancelNext
<1>4. /\ feedReader' \in [Listeners -> {"idle", "poll", "asleep"}]
      /\ \A k \in Listeners : feedReader'[k] # "idle" => call[k].pc = "open"
  <2>1. feedReader \in [Listeners -> {"idle", "poll", "asleep"}] BY <1>1 DEF RecordsOK
  <2>2. \A k \in Listeners : feedReader[k] # "idle" => call[k].pc = "open"
    BY <1>1 DEF CallsRight, CallRight
  <2> QED BY <1>3, <2>1, <2>2
<1>5. QueueSet(l, queue[l]) BY <1>1, <1>2 DEF QueueSet, RecordsOK, QueuesOK
<1>6. /\ task' \in [Feeds -> TaskRecords] /\ SameTasks
      /\ finishing' \in [Listeners -> FinishRecords \cup {None}] /\ SameLeaving
  BY <1>1, <1>2, Zenon DEF RecordsOK, SameTasks, SameLeaving, Unused, Over, LeavingOf, Leaving
<1> QED BY <1>1, <1>2, <1>4, <1>5, <1>6, TouchStep

LEMMA CloseClientKeeps ==
    ASSUME Sharing!SharedAssumption, SharingInv, Sharing!CloseClient
    PROVE  SharingInv'
<1>1. /\ closed' = TRUE /\ lock' = lock /\ registry' = registry /\ feed' = feed
      /\ task' = task /\ queue' = queue /\ call' = call /\ feedReader' = feedReader
      /\ finishing' = finishing /\ job' = job /\ closing' = closing
  BY DEF Sharing!CloseClient
<1>2. RecordsOK' BY <1>1 DEF SharingInv, RecordsOK, QueuesOK
<1>3. /\ SameQueues /\ SameTasks /\ SameLeaving /\ SameCallFields
      /\ \A a \in Workers : Ending(a)' = Ending(a)
      /\ \A k \in Listeners : ListenerEnd(k)' = ListenerEnd(k)
  BY <1>1, Zenon DEF SameQueues, SameTasks, SameLeaving, SameCallFields, FeedsOf, Shut, Shown,
       Unused, Over, LeavingOf, Leaving, Ending, ListenerEnd
<1>4. \A k \in Listeners : feedReader'[k] # "idle" => call[k].pc = "open"
  BY <1>1 DEF SharingInv, CallsRight, CallRight
<1> QED BY <1>1, <1>2, <1>3, <1>4, QuietKeeps

LEMMA EndFinishKeeps ==
    ASSUME Sharing!SharedAssumption, SharingInv, NEW a \in Workers, Sharing!EndFinish(a)
    PROVE  SharingInv'
<1>1. RecordsOK /\ CallsRight /\ job \in [Workers -> JobRecords \cup {None}]
  BY DEF SharingInv, RecordsOK
<1>2. /\ closed' = closed /\ lock' = lock /\ registry' = registry /\ feed' = feed
      /\ task' = task /\ queue' = queue /\ feedReader' = feedReader
      /\ finishing' = finishing /\ closing' = closing
      /\ job' = [job EXCEPT ![a] = None] /\ job[a] # None /\ job[a].targets = {}
      /\ Sharing!Notify(job[a].feed)
  BY DEF Sharing!EndFinish
<1>3. job[a].feed \in Feeds BY <1>1, <1>2 DEF JobRecords
<1>4. call' \in [Listeners -> CallRecords] /\ SameCallFields BY <1>1, <1>2, <1>3, NotifyIs
<1>5. /\ job' \in [Workers -> JobRecords \cup {None}]
      /\ \A b \in Workers : /\ Ending(b)' = Ending(b)
                            /\ job'[b] # None => job'[b] = job[b]
  BY <1>1, <1>2 DEF Ending
<1>6. RecordsOK' BY <1>1, <1>2, <1>4, <1>5 DEF RecordsOK, QueuesOK
<1>7. /\ SameQueues /\ SameTasks /\ SameLeaving
      /\ \A k \in Listeners : ListenerEnd(k)' = ListenerEnd(k)
  BY <1>2, Zenon DEF SameQueues, SameTasks, SameLeaving, FeedsOf, Shut, Shown,
       Unused, Over, LeavingOf, Leaving, ListenerEnd
<1>8. \A k \in Listeners : feedReader'[k] # "idle" => call[k].pc = "open"
  BY <1>1, <1>2 DEF CallsRight, CallRight
<1> QED BY <1>2, <1>4, <1>5, <1>6, <1>7, <1>8, QuietKeeps

LEMMA FinishListenerKeeps ==
    ASSUME Sharing!SharedAssumption, SharingInv, NEW a \in Workers, Sharing!FinishListener(a)
    PROVE  SharingInv'
<1>1. RecordsOK /\ CausesOK /\ job \in [Workers -> JobRecords \cup {None}] /\ job[a] # None
  BY DEF SharingInv, RecordsOK, Sharing!FinishListener
<1>2. PICK l \in job[a].targets :
        /\ Sharing!CloseQueue(l, job[a].end, a)
        /\ job' = [job EXCEPT ![a].targets = @ \ {l}]
  BY DEF Sharing!FinishListener
<1> DEFINE ls == job[a].targets \ {l}
           j == [job[a] EXCEPT !.targets = ls]
<1>3. /\ job[a] \in JobRecords /\ l \in Listeners /\ job[a].end \in Sharing!Ends
      /\ ls \in SUBSET Listeners
  BY <1>1, <1>2 DEF JobRecords
<1>4. job' = [job EXCEPT ![a] = j] BY <1>2
<1> HIDE DEF ls
<1>5. j \in JobRecords /\ j.end = job[a].end /\ j.targets = ls BY <1>3 DEF JobRecords
<1> HIDE DEF j
<1>6. /\ job' \in [Workers -> JobRecords \cup {None}] /\ job'[a] = j
      /\ \A b \in Workers : b # a => job'[b] = job[b]
  BY <1>1, <1>4, <1>5
<1>7. j # None BY <1>5, SharingTypes
<1>8. \A b \in Workers : /\ Ending(b) \ {l} \subseteq Ending(b)'
                         /\ job'[b] # None => job[b] # None /\ job'[b].end = job[b].end
  <2> SUFFICES ASSUME NEW b \in Workers
               PROVE  /\ Ending(b) \ {l} \subseteq Ending(b)'
                      /\ job'[b] # None => job[b] # None /\ job'[b].end = job[b].end
    OBVIOUS
  <2>1. CASE b = a BY <1>1, <1>5, <1>6, <1>7, <2>1 DEF Ending, ls
  <2>2. CASE b # a BY <1>6, <2>2 DEF Ending
  <2> QED BY <2>1, <2>2
<1>9. /\ closed' = closed /\ lock' = lock /\ registry' = registry /\ feed' = feed
      /\ closing' = closing /\ feedReader' = feedReader /\ task' = task /\ call' = call
  BY DEF Sharing!FinishListener
<1>10. /\ task' \in [Feeds -> TaskRecords] /\ SameTasks
       /\ call' \in [Listeners -> CallRecords] /\ SameCallFields
  BY <1>1, <1>9, Zenon DEF RecordsOK, SameTasks, SameCallFields, Unused, Over
<1>11. job[a].end = "Closed" => closed BY <1>1 DEF CausesOK
<1>12. job[a].end # None BY <1>3, SharingTypes
<1> QED BY <1>2, <1>3, <1>6, <1>8, <1>9, <1>10, <1>11, <1>12, CloseKeeps

LEMMA DropKeeps ==
    ASSUME Sharing!SharedAssumption, SharingInv, NEW l \in Listeners,
           Sharing!DropSubscription(l)
    PROVE  SharingInv'
<1> DEFINE x == [call[l] EXCEPT !.pc = "failed"]
<1>1. /\ RecordsOK /\ call[l] \in CallRecords /\ CallRight(l) /\ BothKnow
      /\ call[l].pc = "drop"
  BY ViewTypes DEF SharingInv, CallsRight, Sharing!DropSubscription
<1>2. x \in CallRecords /\ x.pc = "failed" /\ x.error = call[l].error
  BY <1>1 DEF CallRecords, CallPhases
<1>3. call' = [call EXCEPT ![l] = x] BY DEF Sharing!DropSubscription
<1> HIDE DEF x
<1>4. /\ call' \in [Listeners -> CallRecords] /\ call'[l] = x
      /\ \A k \in Listeners : k # l => call'[k] = call[k]
  BY <1>1, <1>2, <1>3, CallSet
<1>5. /\ closed' = closed /\ lock' = lock /\ registry' = registry /\ feed' = feed
      /\ closing' = closing /\ feedReader' = feedReader /\ task' = task /\ job' = job
      /\ Sharing!CloseQueue(l, None, l)
  BY DEF Sharing!DropSubscription
<1>6. CallRight(l)'
  BY <1>1, <1>2, <1>4, <1>5 DEF CallRight, Early, Setups
<1>7. SameCalls
  <2> SUFFICES ASSUME NEW k \in Listeners
               PROVE  /\ lock = k => /\ call'[k].feed = call[k].feed
                                     /\ call'[k].start = call[k].start
                      /\ call'[k].pc = "register" <=> call[k].pc = "register"
                      /\ call'[k].pc \in Early /\ ~Shut(k) =>
                            /\ call[k].pc \in Early
                            /\ \A t \in Topics : Past(k, t) => Past(k, t)'
    BY DEF SameCalls
  <2>1. CASE k = l
    <3>1. lock # l BY <1>1 DEF BothKnow
    <3> QED BY <1>1, <1>2, <1>4, <2>1, <3>1 DEF Early
  <2>2. CASE k # l
    <3>1. call'[k] = call[k] BY <1>4, <2>2
    <3> QED BY <3>1 DEF Past
  <2> QED BY <2>1, <2>2
<1>8. /\ task' \in [Feeds -> TaskRecords] /\ SameTasks
      /\ job' \in [Workers -> JobRecords \cup {None}]
      /\ \A a \in Workers : /\ Ending(a) \ {l} \subseteq Ending(a)'
                            /\ job'[a] # None => job[a] # None /\ job'[a].end = job[a].end
  BY <1>1, <1>5 DEF RecordsOK, SameTasks, Unused, Over, Ending
<1>9. None # "Closed" BY SharingTypes DEF Sharing!Ends
<1> QED BY <1>4, <1>5, <1>6, <1>7, <1>8, <1>9, CloseKeeps

LEMMA CloseSubscriptionKeeps ==
    ASSUME Sharing!SharedAssumption, SharingInv, NEW l \in Listeners,
           Sharing!CloseSubscription(l)
    PROVE  SharingInv'
<1>1. /\ closed' = closed /\ lock' = lock /\ registry' = registry /\ feed' = feed
      /\ closing' = closing /\ feedReader' = feedReader /\ task' = task /\ job' = job
      /\ call' = call /\ Sharing!CloseQueue(l, None, l) /\ call[l].pc = "open"
  BY DEF Sharing!CloseSubscription
<1>2. /\ task' \in [Feeds -> TaskRecords] /\ SameTasks
      /\ call' \in [Listeners -> CallRecords] /\ SameCallFields
      /\ job' \in [Workers -> JobRecords \cup {None}]
      /\ \A a \in Workers : /\ Ending(a) \ {l} \subseteq Ending(a)'
                            /\ job'[a] # None => job[a] # None /\ job'[a].end = job[a].end
  BY <1>1 DEF SharingInv, RecordsOK, SameTasks, SameCallFields, Unused, Over, Ending
<1>3. None # "Closed" BY SharingTypes DEF Sharing!Ends
<1> QED BY <1>1, <1>2, <1>3, CloseKeeps


LEMMA DeliverEventKeeps ==
    ASSUME Sharing!SharedAssumption, SharingInv, NEW f \in Feeds, NEW l \in Listeners,
           Sharing!DeliverEvent(f, l)
    PROVE  SharingInv'
<1> DEFINE ls == task[f].targets \ {l}
           t == [task[f] EXCEPT !.targets = ls]
           e == [topic |-> Sharing!Topic(f), generation |-> task[f].generation]
           q == queue[l]
           es == Append(q.events, e)
           yes == TRUE
           x == PermitIn(EventsIn(q, es), yes)
<1>1. RecordsOK /\ QueueOK(q) /\ CallsRight /\ task[f] \in TaskRecords /\ f \in Workers
  BY ViewTypes, SharingTypes DEF SharingInv
<1>2. task[f].pc = "deliver" /\ task' = [task EXCEPT ![f] = t] BY DEF Sharing!DeliverEvent
<1>3. ls \in SUBSET Listeners BY <1>1 DEF TaskRecords
<1> HIDE DEF ls
<1>4. t \in TaskRecords /\ t.pc = "deliver" BY <1>1, <1>2, <1>3 DEF TaskRecords
<1> HIDE DEF t
<1>5. task' \in [Feeds -> TaskRecords] /\ SameTasks
  BY <1>1, <1>2, <1>4 DEF RecordsOK, SameTasks, Unused, Over
<1>6. /\ closed' = closed /\ lock' = lock /\ registry' = registry /\ feed' = feed
      /\ call' = call /\ feedReader' = feedReader /\ job' = job /\ closing' = closing
  BY DEF Sharing!DeliverEvent
<1>7. \/ queue' = queue /\ finishing' = finishing
      \/ Sharing!CloseQueue(l, "Lagged", f)
      \/ /\ queue' = [queue EXCEPT ![l].events = es, ![l].permit = TRUE]
         /\ finishing' = finishing
  BY DEF Sharing!DeliverEvent
<1>8. CASE queue' = queue /\ finishing' = finishing
  BY <1>2, <1>4, <1>6, <1>8, TaskStep
<1>9. CASE Sharing!CloseQueue(l, "Lagged", f)
  <2>1. /\ call' \in [Listeners -> CallRecords] /\ SameCallFields
        /\ job' \in [Workers -> JobRecords \cup {None}]
        /\ \A a \in Workers : /\ Ending(a) \ {l} \subseteq Ending(a)'
                              /\ job'[a] # None => job[a] # None /\ job'[a].end = job[a].end
    BY <1>1, <1>6 DEF RecordsOK, SameCallFields, Ending
  <2>2. "Lagged" \in Sharing!Ends /\ "Lagged" # None BY SharingTypes DEF Sharing!Ends
  <2> QED BY <1>1, <1>5, <1>6, <1>9, <2>1, <2>2, CloseKeeps
<1>10. CASE /\ queue' = [queue EXCEPT ![l].events = es, ![l].permit = TRUE]
            /\ finishing' = finishing
  <2> HIDE DEF es
  <2>1. QueueSet(l, x)
    <3>1. queue = [k \in Listeners |-> queue[k]] BY <1>1 DEF RecordsOK, QueuesOK
    <3> QED BY <1>10, <3>1 DEF QueueSet, PermitIn, EventsIn
  <2> DEFINE y == EventsIn(q, es)
  <2>2. y = QueueOf(q.feeds, q.states, q.changed, es, q.terminal, q.closed, q.permit)
    BY <1>1 DEF QueueOK, QueueOf, EventsIn
  <2>3. QueueOK(y) /\ y.feeds = q.feeds /\ y.states = q.states /\ y.closed = q.closed
    BY <1>1, TouchedIs
  <2>4. y.terminal = q.terminal BY <2>2 DEF QueueOf
  <2> HIDE DEF y, yes
  <2>5. /\ QueueOK(PermitIn(y, yes)) /\ PermitIn(y, yes).feeds = y.feeds
        /\ PermitIn(y, yes).states = y.states /\ PermitIn(y, yes).closed = y.closed
    BY <2>3, TouchedIs
  <2>6. PermitIn(y, yes).terminal = y.terminal
    <3>1. PermitIn(y, yes)
            = QueueOf(y.feeds, y.states, y.changed, y.events, y.terminal, y.closed, yes)
      BY <2>3 DEF QueueOK, QueueOf, PermitIn
    <3> QED BY <3>1 DEF QueueOf
  <2>7. x = PermitIn(y, yes) BY DEF y
  <2> HIDE DEF x
  <2>8. /\ QueueOK(x) /\ x.feeds = q.feeds /\ x.states = q.states /\ x.closed = q.closed
        /\ x.terminal = q.terminal
    BY <2>3, <2>4, <2>5, <2>6, <2>7
  <2>9. /\ feedReader' \in [Listeners -> {"idle", "poll", "asleep"}]
        /\ \A k \in Listeners : feedReader'[k] # "idle" => call[k].pc = "open"
        /\ finishing' \in [Listeners -> FinishRecords \cup {None}] /\ SameLeaving
    BY <1>1, <1>6, <1>10
       DEF CallsRight, CallRight, RecordsOK, SameLeaving, LeavingOf, Leaving
  <2> QED BY <1>5, <1>6, <2>1, <2>8, <2>9, TouchStep
<1> QED BY <1>7, <1>8, <1>9, <1>10

\* A feed ends, by its own task or by the task in close.
LEMMA FinishKeeps ==
    ASSUME Sharing!SharedAssumption, SharingInv, NEW a \in Workers, NEW f \in Feeds,
           NEW end \in Sharing!Ends, Sharing!StartFinish(a, f, end), ~Unused(f), job[a] = None,
           end = "Closed" => closed,
           UNCHANGED <<closed, lock, registry, queue, call, feedReader, finishing>>,
           task' \in [Feeds -> TaskRecords], closing' \in (SUBSET Feeds) \cup {None},
           \A g \in Feeds : Unused(g)' = Unused(g) /\ (Over(g) => Over(g)'),
           \A g \in Feeds : g # f => Over(g)' = Over(g),
           \/ a = f /\ Over(f)' /\ closing' = closing
           \/ a = Closer /\ Over(f)' = Over(f) /\ closing # None /\ closing' = closing \ {f}
    PROVE  SharingInv'
<1>1. RecordsOK /\ StructInv /\ CallsRight /\ CausesOK BY DEF SharingInv, StructInv
<1>2. /\ feed' \in [Feeds -> FeedRecords]
      /\ job' \in [Workers -> JobRecords \cup {None}]
      /\ \A g \in Feeds : Hearing(g)' = Hearing(g)
      /\ FeedEnd(f)' = end
      /\ \A g \in Feeds : g # f => Stopped(g)' = Stopped(g) /\ FeedEnd(g)' = FeedEnd(g)
      /\ job'[a].end = end
      /\ \A b \in Workers : b # a => job'[b] = job[b]
  BY <1>1, StartFinishIs
<1>3. StructInv' BY <1>1, FinishStep
<1>4. /\ closed' = closed /\ lock' = lock /\ registry' = registry /\ queue' = queue
      /\ call' = call /\ feedReader' = feedReader /\ finishing' = finishing
  OBVIOUS
<1>5. RecordsOK' BY <1>1, <1>2, <1>4 DEF RecordsOK, QueuesOK
<1>6. \A k \in Listeners : FeedsOf(k)' = FeedsOf(k) /\ (Shut(k)' <=> Shut(k))
                           /\ ListenerEnd(k)' = ListenerEnd(k)
  BY <1>4, Zenon DEF FeedsOf, Shut, ListenerEnd
<1>7. CallsRight'
  <2>1. SameCallFields BY <1>4, Zenon DEF SameCallFields
  <2>2. \A k \in Listeners : feedReader'[k] # "idle" => call[k].pc = "open"
    BY <1>1, <1>4 DEF CallsRight, CallRight
  <2> QED BY <1>1, <1>4, <1>6, <2>1, <2>2, FeedCallsKept
<1>8. None \notin Sharing!Ends BY SharingTypes
<1>9. CausesOK' BY <1>1, <1>2, <1>4, <1>6, <1>8 DEF CausesOK
<1> QED BY <1>3, <1>5, <1>7, <1>9 DEF SharingInv, StructInv

LEMMA DoneIs ==
    ASSUME SharingInv, NEW f \in Feeds, Sharing!Receiving(f),
           task' = [task EXCEPT ![f] = Sharing!Done]
    PROVE  /\ task' \in [Feeds -> TaskRecords] /\ ~Unused(f) /\ Over(f)' = TRUE
           /\ Unused(f)' = FALSE
           /\ \A g \in Feeds : g # f => Over(g)' = Over(g) /\ Unused(g)' = Unused(g)
           /\ \A g \in Feeds : Unused(g)' = Unused(g) /\ (Over(g) => Over(g)')
<1>1. Sharing!Done \in TaskRecords /\ Sharing!Done.pc = "done"
  BY DEF Sharing!Done, TaskRecords
<1>2. task \in [Feeds -> TaskRecords] /\ task[f].pc = "receive"
  BY DEF SharingInv, RecordsOK, Sharing!Receiving
<1>3. /\ task' \in [Feeds -> TaskRecords] /\ task'[f].pc = "done"
      /\ \A g \in Feeds : g # f => task'[g] = task[g]
  BY <1>1, <1>2
<1> QED BY <1>2, <1>3 DEF Unused, Over

LEMMA RunEndsKeeps ==
    ASSUME Sharing!SharedAssumption, SharingInv, NEW f \in Feeds,
           NEW end \in {"Ended", "Failed", "Closed"}, Sharing!RunEnds(f, end),
           end = "Closed" => closed
    PROVE  SharingInv'
<1> DEFINE e == IF closed THEN "Closed" ELSE end
<1>1. e \in Sharing!Ends /\ (e = "Closed" => closed) BY DEF Sharing!Ends
<1>2. /\ Sharing!Receiving(f) /\ task' = [task EXCEPT ![f] = Sharing!Done]
      /\ Sharing!StartFinish(f, f, e)
      /\ UNCHANGED <<closed, lock, registry, queue, call, feedReader, finishing, closing>>
  BY DEF Sharing!RunEnds
<1> HIDE DEF e
<1>3. /\ task' \in [Feeds -> TaskRecords] /\ ~Unused(f) /\ Over(f)' = TRUE
      /\ \A g \in Feeds : g # f => Over(g)' = Over(g)
      /\ \A g \in Feeds : Unused(g)' = Unused(g) /\ (Over(g) => Over(g)')
  BY <1>2, DoneIs
<1>4. job[f] = None
  <2>1. ~Over(f) BY <1>2 DEF Over, Sharing!Receiving
  <2> QED BY <2>1 DEF SharingInv, StopsTold
<1>5. f \in Workers BY SharingTypes
<1>6. closing' = closing /\ closing' \in (SUBSET Feeds) \cup {None}
  BY <1>2 DEF SharingInv, RecordsOK
<1> QED BY <1>1, <1>2, <1>3, <1>4, <1>5, <1>6, FinishKeeps

LEMMA CloseFeedKeeps ==
    ASSUME Sharing!SharedAssumption, SharingInv, Sharing!CloseFeed
    PROVE  SharingInv'
<1>1. PICK f \in closing : closing' = closing \ {f} /\ Sharing!StartFinish(Closer, f, "Closed")
  BY DEF Sharing!CloseFeed
<1>2. /\ closing # None /\ job[Closer] = None
      /\ closed' = closed /\ lock' = lock /\ registry' = registry /\ task' = task
      /\ queue' = queue /\ call' = call /\ feedReader' = feedReader /\ finishing' = finishing
  BY DEF Sharing!CloseFeed
<1>3. closing \in SUBSET Feeds BY <1>2 DEF SharingInv, RecordsOK
<1>4. closed /\ ~Unused(f) BY <1>2 DEF SharingInv, UnusedOK
<1>5. f \in Feeds /\ closing' \in (SUBSET Feeds) \cup {None} BY <1>1, <1>3
<1>6. Closer \in Workers /\ "Closed" \in Sharing!Ends BY SharingTypes DEF Sharing!Ends
<1>7. /\ task' \in [Feeds -> TaskRecords]
      /\ \A g \in Feeds : (Unused(g)' = Unused(g)) /\ (Over(g)' = Over(g))
  BY <1>2 DEF SharingInv, RecordsOK, Unused, Over
<1> QED BY <1>1, <1>2, <1>4, <1>5, <1>6, <1>7, FinishKeeps

LEMMA RunStopsKeeps ==
    ASSUME Sharing!SharedAssumption, SharingInv, NEW f \in Feeds, Sharing!RunStops(f)
    PROVE  SharingInv'
<1>1. RecordsOK /\ StructInv /\ CallsRight /\ CausesOK BY DEF SharingInv, StructInv
<1>2. /\ Sharing!Receiving(f) /\ Stopped(f) /\ task' = [task EXCEPT ![f] = Sharing!Done]
      /\ closed' = closed /\ lock' = lock /\ registry' = registry /\ feed' = feed
      /\ queue' = queue /\ call' = call /\ feedReader' = feedReader
      /\ finishing' = finishing /\ job' = job /\ closing' = closing
  BY DEF Sharing!RunStops, Stopped
<1>3. /\ task' \in [Feeds -> TaskRecords] /\ ~Unused(f) /\ Over(f)' = TRUE
      /\ Unused(f)' = FALSE
      /\ \A g \in Feeds : g # f => Over(g)' = Over(g) /\ Unused(g)' = Unused(g)
  BY <1>2, DoneIs
<1>4. /\ SameQueues /\ SameJobs /\ SameLeaving /\ SameCallFields
      /\ \A k \in Listeners : FeedsOf(k)' = FeedsOf(k) /\ (Shut(k)' <=> Shut(k))
                              /\ ListenerEnd(k)' = ListenerEnd(k)
      /\ \A g \in Feeds : FeedEnd(g)' = FeedEnd(g) /\ (Stopped(g)' <=> Stopped(g))
                          /\ Hearing(g)' = Hearing(g)
  BY <1>2, Zenon DEF SameQueues, SameJobs, SameLeaving, SameCallFields, FeedsOf, Shut, Shown,
       LeavingOf, Leaving, Ending, ListenerEnd, FeedEnd, Stopped, Hearing
<1>5. StructInv' BY <1>1, <1>2, <1>3, <1>4, StopsStep
<1>6. RecordsOK' BY <1>1, <1>2, <1>3 DEF RecordsOK, QueuesOK
<1>7. CallsRight'
  <2>1. \A k \in Listeners : feedReader'[k] # "idle" => call[k].pc = "open"
    BY <1>1, <1>2 DEF CallsRight, CallRight
  <2> QED BY <1>1, <1>2, <1>4, <2>1, FeedCallsKept
<1>8. CausesOK' BY <1>1, <1>2, <1>4 DEF CausesOK
<1> QED BY <1>5, <1>6, <1>7, <1>8 DEF SharingInv, StructInv

LEMMA DetachKeeps ==
    ASSUME Sharing!SharedAssumption, SharingInv, NEW l \in Listeners, Sharing!DetachNext(l)
    PROVE  SharingInv'
<1>1. RecordsOK /\ StructInv /\ CallsRight /\ CausesOK BY DEF SharingInv, StructInv
<1>2. PICK f \in finishing[l].feeds :
        /\ feed' = [feed EXCEPT ![f] = Sharing!Detached(@, l)]
        /\ finishing' = [finishing EXCEPT ![l].feeds = @ \ {f}]
  BY DEF Sharing!DetachNext
<1>3. /\ closed' = closed /\ lock' = lock /\ registry' = registry /\ task' = task
      /\ queue' = queue /\ call' = call /\ feedReader' = feedReader /\ job' = job
      /\ closing' = closing /\ finishing[l] # None
  BY DEF Sharing!DetachNext
<1>4. finishing \in [Listeners -> FinishRecords \cup {None}] /\ finishing[l] \in FinishRecords
  BY <1>1, <1>3 DEF RecordsOK
<1>5. f \in LeavingOf(l) /\ Leaving(l) BY <1>2, <1>3 DEF LeavingOf, Leaving
<1> DEFINE fs == finishing[l].feeds \ {f}
           r == [finishing[l] EXCEPT !.feeds = fs]
<1>6. fs \in SUBSET Feeds /\ fs = LeavingOf(l) \ {f}
  BY <1>3, <1>4 DEF FinishRecords, LeavingOf
<1>7. finishing' = [finishing EXCEPT ![l] = r] BY <1>2
<1> HIDE DEF fs
<1>8. r \in FinishRecords /\ r.feeds = fs BY <1>4, <1>6 DEF FinishRecords
<1> HIDE DEF r
<1>9. r # None BY <1>8, SharingTypes
<1>10. /\ finishing' \in [Listeners -> FinishRecords \cup {None}] /\ finishing'[l] = r
       /\ \A k \in Listeners : k # l => finishing'[k] = finishing[k]
  BY <1>4, <1>7, <1>8
<1>11. /\ LeavingOf(l)' = LeavingOf(l) \ {f}
       /\ \A k \in Listeners : k # l =>
             LeavingOf(k)' = LeavingOf(k) /\ (Leaving(k)' => Leaving(k))
  BY <1>6, <1>8, <1>9, <1>10 DEF LeavingOf, Leaving
<1>12. feed' = [feed EXCEPT ![f] = Sharing!Detached(feed[f], l)] BY <1>2
<1>13. /\ StructInv' /\ feed' \in [Feeds -> FeedRecords]
       /\ \A g \in Feeds :
             /\ FeedEnd(g)' = FeedEnd(g) /\ Hearing(g)' \subseteq Hearing(g)
             /\ Stopped(g)' => Stopped(g) \/ Hearing(g)' = {}
  BY <1>1, <1>3, <1>5, <1>11, <1>12, DetachStep
<1>14. RecordsOK' BY <1>1, <1>3, <1>10, <1>13 DEF RecordsOK, QueuesOK
<1>15. /\ SameCallFields
       /\ \A k \in Listeners : FeedsOf(k)' = FeedsOf(k) /\ (Shut(k)' <=> Shut(k))
                               /\ ListenerEnd(k)' = ListenerEnd(k)
  BY <1>3, Zenon DEF SameCallFields, FeedsOf, Shut, ListenerEnd
<1>16. CallsRight'
  <2>1. \A k \in Listeners : feedReader'[k] # "idle" => call[k].pc = "open"
    BY <1>1, <1>3 DEF CallsRight, CallRight
  <2> QED BY <1>1, <1>3, <1>15, <2>1, FeedCallsKept
<1>17. CausesOK' BY <1>1, <1>3, <1>13, <1>15 DEF CausesOK
<1> QED BY <1>13, <1>14, <1>16, <1>17 DEF SharingInv, StructInv

LEMMA DrainKeeps ==
    ASSUME Sharing!SharedAssumption, SharingInv, Sharing!DrainFeeds
    PROVE  SharingInv'
<1>1. RecordsOK /\ StructInv /\ CallsRight /\ CausesOK BY DEF SharingInv, StructInv
<1>2. /\ closed' = closed /\ lock' = lock /\ feed' = feed /\ task' = task
      /\ queue' = queue /\ call' = call /\ feedReader' = feedReader
      /\ finishing' = finishing /\ job' = job /\ closing' = registry /\ registry' = {}
  BY DEF Sharing!DrainFeeds
<1>3. StructInv' BY <1>1, DrainStep
<1>4. RecordsOK' BY <1>1, <1>2 DEF RecordsOK, QueuesOK
<1>5. /\ SameCallFields
      /\ \A k \in Listeners : FeedsOf(k)' = FeedsOf(k) /\ (Shut(k)' <=> Shut(k))
                              /\ ListenerEnd(k)' = ListenerEnd(k)
      /\ \A g \in Feeds : FeedEnd(g)' = FeedEnd(g) /\ (Stopped(g)' <=> Stopped(g))
                          /\ Hearing(g)' = Hearing(g)
  BY <1>2, Zenon DEF SameCallFields, FeedsOf, Shut, ListenerEnd, FeedEnd, Stopped, Hearing
<1>6. CallsRight'
  <2>1. \A k \in Listeners : feedReader'[k] # "idle" => call[k].pc = "open"
    BY <1>1, <1>2 DEF CallsRight, CallRight
  <2> QED BY <1>1, <1>2, <1>5, <2>1, FeedCallsKept
<1>7. CausesOK' BY <1>1, <1>2, <1>5 DEF CausesOK
<1> QED BY <1>3, <1>4, <1>6, <1>7 DEF SharingInv, StructInv


LEMMA SharingBegins ==
    ASSUME Sharing!SharedAssumption, Sharing!Init
    PROVE  SharingInv
<1>1. /\ closed = FALSE /\ lock = None /\ registry = {} /\ closing = None
      /\ feed = [f \in Feeds |-> Sharing!NewFeed]
      /\ task = [f \in Feeds |-> [pc |-> "new", deltas |-> TRUE, targets |-> {},
                                  generation |-> 0]]
      /\ queue = [l \in Listeners |-> Sharing!NewQueue]
      /\ call = [l \in Listeners |-> Sharing!NewCall]
      /\ feedReader = [l \in Listeners |-> "idle"]
      /\ finishing = [l \in Listeners |-> None] /\ job = [a \in Workers |-> None]
  BY DEF Sharing!Init, Feeds, Workers
<1>2. None \notin Listeners /\ None \notin Sharing!Ends BY SharingTypes
<1>3. /\ Sharing!NewFeed \in FeedRecords /\ Sharing!NewFeed.listeners = {}
      /\ Sharing!NewFeed.current = Sharing!NoState /\ Sharing!NewFeed.ready = FALSE
      /\ Sharing!NewFeed.terminal = None /\ Sharing!NewFeed.stop = FALSE
  BY DEF Sharing!NewFeed, FeedRecords, Sharing!NoState
<1>4. /\ QueueOK(Sharing!NewQueue) /\ Sharing!NewQueue.feeds = {}
      /\ Sharing!NewQueue.closed = FALSE /\ Sharing!NewQueue.terminal = None
      /\ \A t \in Topics : Sharing!NewQueue.states[t] = Sharing!NoState
  <2> DEFINE shown == [t \in Topics |-> Sharing!NoState]
             q == Sharing!NewQueue
  <2>1. /\ q.feeds = {} /\ q.states = shown /\ q.changed = FALSE /\ q.events = <<>>
        /\ q.terminal = None /\ q.closed = FALSE /\ q.permit = FALSE
    BY DEF Sharing!NewQueue
  <2>2. q = QueueOf({}, shown, FALSE, <<>>, None, FALSE, FALSE)
    BY DEF Sharing!NewQueue, QueueOf
  <2>3. shown \in [Topics -> Nat] /\ \A t \in Topics : shown[t] = Sharing!NoState
    BY DEF Sharing!NoState
  <2> HIDE DEF shown
  <2>4. q = QueueOf(q.feeds, q.states, q.changed, q.events, q.terminal, q.closed, q.permit)
    BY <2>1, <2>2, Zenon
  <2> HIDE DEF q
  <2>5. QueueOK(q) BY <2>1, <2>3, <2>4 DEF QueueOK
  <2> QED BY <2>1, <2>3, <2>5 DEF q
<1>5. /\ \A f \in Feeds :
            /\ Hearing(f) = {} /\ Stopped(f) = FALSE /\ IsReady(f) = FALSE
            /\ Latest(f) = Sharing!NoState /\ FeedEnd(f) = None /\ Unused(f) /\ ~Over(f)
            /\ ~FeedLive(f) /\ feed[f] = Sharing!NewFeed
      /\ \A l \in Listeners :
            /\ FeedsOf(l) = {} /\ Shut(l) = FALSE /\ ListenerEnd(l) = None
            /\ \A t \in Topics : Shown(l, t) = Sharing!NoState
            /\ ~Leaving(l) /\ LeavingOf(l) = {} /\ call[l] = Sharing!NewCall
            /\ feedReader[l] = "idle"
      /\ \A a \in Workers : job[a] = None
      /\ \A l \in Listeners, f \in Feeds : ~Holds(l, f)
  BY <1>1, <1>2, <1>3, <1>4 DEF Hearing, Stopped, IsReady, Latest, FeedEnd, Unused, Over, FeedLive,
     FeedsOf, Shut, ListenerEnd, Shown, Leaving, LeavingOf, Holds
<1>6. RecordsOK
  <2>1. task \in [Feeds -> TaskRecords] BY <1>1 DEF TaskRecords
  <2>2. QueuesOK BY <1>1, <1>4 DEF QueuesOK
  <2>3. call \in [Listeners -> CallRecords] BY <1>1, NewCallIs
  <2> QED BY <1>1, <1>3, <2>1, <2>2, <2>3 DEF RecordsOK
<1>7. BothKnow BY <1>1, <1>2, <1>5, NewCallIs DEF BothKnow
<1>8. UnusedOK BY <1>1, <1>5 DEF UnusedOK
<1>9. StopsTold BY <1>5, SharingTypes DEF StopsTold
<1>10. OneLive BY <1>5 DEF OneLive
<1>11. MirrorOK BY <1>5 DEF MirrorOK
<1>12. OnlyPast BY <1>5 DEF OnlyPast
<1>13. CallsRight
  <2>1. None # "Closed" BY SharingTypes DEF Sharing!Ends
  <2>2. \A l \in Listeners : Chosen(l) = <<>> BY <1>5, NewCallIs DEF Chosen
  <2> QED BY <1>5, <2>1, <2>2, NewCallIs DEF CallsRight, CallRight, Setups, Early
<1>14. CausesOK
  <2>1. None # "Closed" BY SharingTypes DEF Sharing!Ends
  <2> QED BY <1>5, <2>1 DEF CausesOK
<1> QED BY <1>6, <1>7, <1>8, <1>9, <1>10, <1>11, <1>12, <1>13, <1>14 DEF SharingInv

LEMMA SharingStutters ==
    ASSUME Sharing!SharedAssumption, SharingInv, UNCHANGED Sharing!vars
    PROVE  SharingInv'
<1>1. /\ closed' = closed /\ lock' = lock /\ registry' = registry /\ feed' = feed
      /\ task' = task /\ queue' = queue /\ call' = call /\ feedReader' = feedReader
      /\ finishing' = finishing /\ job' = job /\ closing' = closing
  BY DEF Sharing!vars
<1>2. RecordsOK' BY <1>1 DEF SharingInv, RecordsOK, QueuesOK
<1>3. /\ SameQueues /\ SameTasks /\ SameLeaving /\ SameCallFields
      /\ \A a \in Workers : Ending(a)' = Ending(a)
      /\ \A k \in Listeners : ListenerEnd(k)' = ListenerEnd(k)
  BY <1>1, Zenon DEF SameQueues, SameTasks, SameLeaving, SameCallFields, FeedsOf, Shut, Shown,
       Unused, Over, LeavingOf, Leaving, Ending, ListenerEnd
<1>4. \A k \in Listeners : feedReader'[k] # "idle" => call[k].pc = "open"
  BY <1>1 DEF SharingInv, CallsRight, CallRight
<1> QED BY <1>1, <1>2, <1>3, <1>4, QuietKeeps

LEMMA SharingKept ==
    ASSUME Sharing!SharedAssumption, SharingInv, Sharing!Next
    PROVE  SharingInv'
<1>1. ASSUME NEW f \in Feeds, Sharing!Upstream(f) PROVE SharingInv'
  <2>1. CASE Sharing!BootstrapTopic(f)
    <3>1. PICK g \in Sharing!Generations : Sharing!Change(f, g)
      BY <2>1 DEF Sharing!BootstrapTopic
    <3>2. g \in Nat BY DEF Sharing!Generations
    <3> QED BY <3>1, <3>2, ChangeKeeps
  <2>2. CASE Sharing!ResetTopic(f)
    <3> DEFINE g == feed[f].current + 1
    <3>1. Sharing!Change(f, g) BY <2>2 DEF Sharing!ResetTopic
    <3>2. g \in Nat BY ViewTypes DEF SharingInv, FeedRecords
    <3> HIDE DEF g
    <3> QED BY <3>1, <3>2, ChangeKeeps
  <2>3. CASE Sharing!EndSession(f)
    <3>1. Sharing!Change(f, Sharing!NoState) BY <2>3 DEF Sharing!EndSession
    <3>2. Sharing!NoState \in Nat BY DEF Sharing!NoState
    <3> QED BY <3>1, <3>2, ChangeKeeps
  <2>4. ASSUME NEW end \in Faults \cap {"Ended", "Failed"}, Sharing!RunEnds(f, end)
        PROVE  SharingInv'
    <3>1. end \in {"Ended", "Failed", "Closed"} /\ end # "Closed" OBVIOUS
    <3> QED BY <2>4, <3>1, RunEndsKeeps
  <2> QED BY <1>1, <2>1, <2>2, <2>3, <2>4, FeedReadyKeeps, ResyncKeeps, ReceiveEventKeeps
          DEF Sharing!Upstream
<1>2. ASSUME NEW f \in Feeds, Sharing!FeedTask(f) PROVE SharingInv'
  <2>1. CASE Sharing!RunClosed(f)
    <3>1. closed /\ Sharing!RunEnds(f, "Closed") BY <2>1 DEF Sharing!RunClosed
    <3> QED BY <3>1, RunEndsKeeps
  <2> QED BY <1>2, <2>1, DeliveredKeeps, RunStopsKeeps, DeliverEventKeeps DEF Sharing!FeedTask
<1>3. ASSUME NEW a \in Workers, Sharing!FinishTask(a) PROVE SharingInv'
  BY <1>3, FinishListenerKeeps, EndFinishKeeps DEF Sharing!FinishTask
<1>4. ASSUME NEW l \in Listeners, Sharing!ListenerTask(l) PROVE SharingInv'
  BY <1>4, DetachKeeps, WakeReaderKeeps DEF Sharing!ListenerTask
<1>5. ASSUME NEW l \in Listeners, Sharing!Setup(l) \/ Sharing!Timeout(l) PROVE SharingInv'
  BY <1>5, SelectKeeps, RegisterKeeps, EnableKeeps, InspectKeeps, WakeKeeps, CheckKeeps,
     AbortKeeps, DropKeeps
     DEF Sharing!Setup
<1>6. ASSUME NEW l \in Listeners, Sharing!ReaderTask(l) PROVE SharingInv'
  BY <1>6, PollKeeps, ReaderWakesKeeps DEF Sharing!ReaderTask
<1>7. ASSUME NEW l \in Listeners, Sharing!User(l) PROVE SharingInv'
  BY <1>7, SubscribeKeeps, NextKeeps, CloseSubscriptionKeeps DEF Sharing!User
<1> QED BY <1>1, <1>2, <1>3, <1>4, <1>5, <1>6, <1>7, CloseClientKeeps, DrainKeeps,
           CloseFeedKeeps
        DEF Sharing!Next, Sharing!CloseTask, Feeds, Workers

\* For any number of listeners, topics, incarnations and events: a listener shows its
\* feed's state (Feed::publish_state, Feed::attach), an open listener of a stopped feed
\* is about to be told (Feed::finish), a feed in use keeps a listener (Feed::detach),
\* and a subscribe call says Closed only when the client closed (Manager::subscribe).
THEOREM FeedsAreShared ==
    ASSUME Sharing!SharedAssumption
    PROVE  Sharing!Spec => [](/\ Sharing!ListenersMirrorFeed
                              /\ Sharing!NoOrphanedListener
                              /\ Sharing!NoStrandedFeed
                              /\ Sharing!SetupReportsCause)
<1>1. Sharing!Init => SharingInv BY SharingBegins
<1>2. SharingInv /\ [Sharing!Next]_Sharing!vars => SharingInv'
  BY SharingKept, SharingStutters
<1>3. SharingInv => Sharing!ListenersMirrorFeed
  BY DEF SharingInv, MirrorOK, Sharing!ListenersMirrorFeed, Feeds, Hearing, Stopped, Shut,
         Shown, IsReady, Latest
<1>4. SharingInv => Sharing!NoOrphanedListener
  <2> SUFFICES ASSUME SharingInv, NEW l \in Listeners, ~queue[l].closed,
                      NEW f \in queue[l].feeds, feed[f].stop
               PROVE  \E a \in Sharing!Tasks : Sharing!AboutToFinish(a, l)
    BY DEF Sharing!NoOrphanedListener
  <2>1. f \in Feeds /\ f \in FeedsOf(l) BY ViewTypes DEF SharingInv, FeedsOf
  <2>2. l \in Hearing(f) /\ Stopped(f) /\ ~Shut(l)
    BY <2>1 DEF SharingInv, BothKnow, Stopped, Shut
  <2>3. PICK a \in Workers : l \in Ending(a) BY <2>1, <2>2 DEF SharingInv, StopsTold
  <2> QED BY <2>3 DEF Ending, Sharing!AboutToFinish, Workers
<1>5. SharingInv => Sharing!NoStrandedFeed
  <2> SUFFICES ASSUME SharingInv, NEW f \in Feeds, ~Sharing!Fresh(f), ~feed[f].stop
               PROVE  \E l \in feed[f].listeners :
                        \/ f \in queue[l].feeds
                        \/ finishing[l] # None /\ f \in finishing[l].feeds
                        \/ lock = l /\ call[l].feed = f
    BY DEF Sharing!NoStrandedFeed, Feeds
  <2>1. Hearing(f) # {}
    BY DEF SharingInv, OneLive, Sharing!Fresh, Unused, Stopped
  <2>2. PICK l \in Hearing(f) : TRUE BY <2>1
  <2>3. f \in FeedsOf(l) \/ f \in LeavingOf(l) \/ Holds(l, f) BY DEF SharingInv, BothKnow
  <2> QED BY <2>3 DEF FeedsOf, LeavingOf, Holds, Hearing
<1>6. SharingInv => Sharing!SetupReportsCause
  BY DEF SharingInv, CallsRight, CallRight, Sharing!SetupReportsCause
<1> QED BY <1>1, <1>2, <1>3, <1>4, <1>5, <1>6, PTL DEF Sharing!Spec

=============================================================================
