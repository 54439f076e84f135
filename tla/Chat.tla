-------------------------------- MODULE Chat --------------------------------
(***************************************************************************)
(* The chat topic of the Warframe provider: the game's channel lists, the  *)
(* cached history (topics/chat/acquisition.rs), the cursor that turns a    *)
(* history into messages and gaps (topics/chat/cursor.rs), and the pending *)
(* publication that survives a rejected poll (session/polling.rs).         *)
(*                                                                         *)
(* An entry is named by the channel instance it was written to and its     *)
(* place there, which stands for its node address and contents; its        *)
(* `previous` link is kept apart, because trimming changes it.  The address*)
(* of a closed channel may be used again, under any name.                  *)
(***************************************************************************)
EXTENDS Naturals, Sequences, FiniteSets, FiniteSetsExt

CONSTANTS
    Keys,             \* channel names
    None,
    Retained,         \* entries the game keeps per channel
    MaxEvents,        \* MAX_EVENTS: updates in one publication
    MaxChannels,      \* MAX_CHANNELS: channels a history may have
    MaxConversation,  \* the last conversation ID (u64::MAX)
    MaxInstances,     \* bound: channel instances the game creates
    MaxMessages       \* bound: messages written to one instance

BoundsAssumption ==
    /\ {Retained, MaxEvents, MaxChannels, MaxInstances, MaxMessages} \subseteq Nat \ {0}
    /\ MaxConversation \in Nat
    /\ MaxChannels <= MaxEvents

VARIABLES
    game,       \* Keys -> the channel of that name, or None
    written,    \* messages written to each instance so far; its length: instances
    history,    \* chat_history
    cursor,     \* chat_cursor
    pending,    \* pending_chat
    staged,     \* chat_staged
    polling,    \* a poll is waiting for poll_completed
    delivered,  \* conversation -> what was committed of it in this generation
    floor       \* the entries of each instance when this generation began

gameState == <<game, written>>
vars == <<game, written, history, cursor, pending, staged, polling, delivered, floor>>

NewCursor == [positions |-> None, next |-> 0]
Conversations == 1..MaxConversation

\* A message, a gap or the baseline of a conversation, and the entry reached by it.
Mark(kind, entry) == [kind |-> kind, at |-> entry]
Name(entry) == [channel |-> entry.channel, n |-> entry.n]

-----------------------------------------------------------------------------
(* The game. *)

LastOf(s) == IF s = <<>> THEN None ELSE s[Len(s)]

InUse == {game[k].address : k \in {j \in Keys : game[j] # None}}

\* A channel is made at any address that is free.
OpenChannel(k) ==
    /\ game[k] = None /\ Len(written) < MaxInstances
    /\ written' = Append(written, 0)
    /\ \E a \in 1..(Len(written) + 1) \ InUse :
          game' = [game EXCEPT ![k] = [address |-> a, instance |-> Len(written) + 1,
                                       entries |-> <<>>]]
    /\ UNCHANGED <<history, cursor, pending, staged, polling, delivered, floor>>

CloseChannel(k) ==
    /\ game[k] # None
    /\ game' = [game EXCEPT ![k] = None]
    /\ UNCHANGED <<written, history, cursor, pending, staged, polling, delivered, floor>>

\* The first entry of a list links back to the sentinel.
Relinked(s) == IF s = <<>> THEN s ELSE [s EXCEPT ![1].previous = 0]

\* A message is appended; a full channel drops its oldest entry.
Write(k) ==
    /\ game[k] # None
    /\ LET c == game[k].instance
           old == game[k].entries
           entry == [channel |-> c, n |-> written[c] + 1,
                     previous |-> IF old = <<>> THEN 0 ELSE LastOf(old).n]
           all == Append(old, entry)
       IN /\ written[c] < MaxMessages
          /\ written' = [written EXCEPT ![c] = @ + 1]
          /\ game' = [game EXCEPT ![k].entries =
                          IF Len(all) > Retained THEN Relinked(Tail(all)) ELSE all]
    /\ UNCHANGED <<history, cursor, pending, staged, polling, delivered, floor>>

-----------------------------------------------------------------------------
(* acquisition.rs *)

Open(g) == {k \in Keys : g[k] # None}

\* One coherent traversal of all channels: two passes that agree.
Snapshot == [k \in Open(game) |-> game[k]]

HeadOf(s) == IF s = <<>> THEN None ELSE s[1]

\* same_headers compares the list of channels and the ends of every list.
SameHeaders(a, b) ==
    /\ DOMAIN a = DOMAIN b
    /\ \A j, k \in DOMAIN a :
          a[j].instance < a[k].instance <=> b[j].instance < b[k].instance
    /\ \A k \in DOMAIN a :
          /\ a[k].address = b[k].address
          /\ (HeadOf(a[k].entries) = None) <=> (HeadOf(b[k].entries) = None)
          /\ HeadOf(a[k].entries) # None =>
                /\ Name(HeadOf(a[k].entries)) = Name(HeadOf(b[k].entries))
                /\ Name(LastOf(a[k].entries)) = Name(LastOf(b[k].entries))

\* The cached history still stands: equal headers, and every tail entry intact.
Unchanged(cached) ==
    /\ cached # None
    /\ SameHeaders(cached, Snapshot)
    /\ \A k \in DOMAIN cached : LastOf(cached[k].entries) = LastOf(Snapshot[k].entries)

-----------------------------------------------------------------------------
(* cursor.rs: prepare, channel by channel. *)

Known(k, channel) ==
    /\ cursor.positions # None
    /\ k \in DOMAIN cursor.positions
    /\ cursor.positions[k].address = channel.address

New(h) == {k \in DOMAIN h : ~Known(k, h[k])}

\* New conversations are numbered in the order of the list.
ConversationOf(k, h) ==
    IF Known(k, h[k]) THEN cursor.positions[k].conversation
    ELSE cursor.next + Cardinality({j \in New(h) : h[j].instance <= h[k].instance})

\* The places after which delivery resumes: none when the anchor is lost.
Resume(anchor, entries) ==
    IF anchor = None THEN {0} ELSE {i \in DOMAIN entries : entries[i] = anchor}

Allowance(h) == MaxEvents \div Max({1, Cardinality(DOMAIN h)})

Pending(k, h) ==
    LET anchor == IF Known(k, h[k]) THEN cursor.positions[k].anchor ELSE None
        entries == h[k].entries
    IN {SubSeq(entries, i + 1, Len(entries)) : i \in Resume(anchor, entries)}

Lost(k, h) == Pending(k, h) = {}

\* The entries of a channel that this publication carries.
Taken(k, h) ==
    LET rest == CHOOSE r \in Pending(k, h) : TRUE
    IN SubSeq(rest, 1, Min({Allowance(h), Len(rest)}))

Baseline == cursor.positions = None

\* What each conversation receives; the first publication only marks its baselines.
Updates(h) ==
    [k \in DOMAIN h |->
        IF Baseline THEN <<Mark("baseline", LastOf(h[k].entries))>>
        ELSE IF Lost(k, h) THEN <<Mark("gap", LastOf(h[k].entries))>>
        ELSE [i \in DOMAIN Taken(k, h) |-> Mark("message", Taken(k, h)[i])]]

\* Mutant: what exceeds the allowance is skipped.
ToTheTail(k, h) == LastOf(h[k].entries)

AnchorAfter(k, h) ==
    IF Baseline \/ Lost(k, h) THEN LastOf(h[k].entries)
    ELSE IF Taken(k, h) # <<>> THEN LastOf(Taken(k, h))
    ELSE IF Known(k, h[k]) THEN cursor.positions[k].anchor
    ELSE None

CursorAfter(h) ==
    [positions |-> [k \in DOMAIN h |->
                      [address |-> h[k].address,
                       conversation |-> ConversationOf(k, h),
                       anchor |-> AnchorAfter(k, h)]],
     next |-> cursor.next + Cardinality(New(h))]

-----------------------------------------------------------------------------
(* polling.rs *)

Init ==
    /\ game = [k \in Keys |-> None]
    /\ written = <<>>
    /\ history = None /\ cursor = NewCursor
    /\ pending = None /\ staged = FALSE /\ polling = FALSE
    /\ delivered = [c \in Conversations |-> <<>>]
    /\ floor = <<>>

\* The updates of a publication, by conversation.
ByConversation(h, after, updates) ==
    [c \in Conversations |->
        LET ks == {k \in DOMAIN h : after.positions[k].conversation = c}
        IN IF ks = {} THEN <<>> ELSE updates[CHOOSE k \in ks : TRUE]]

Readable(h) == Cardinality(DOMAIN h) <= MaxChannels

\* read_chat and publish_chat without a retained publication.
PollChat ==
    LET kept == Unchanged(history)
        h == IF kept THEN history ELSE Snapshot
    IN /\ ~polling /\ pending = None /\ Readable(Snapshot)
       /\ cursor.next + Cardinality(New(h)) <= MaxConversation
       /\ pending' = [history |-> IF kept THEN None ELSE h,
                      cursor |-> CursorAfter(h),
                      events |-> ByConversation(h, CursorAfter(h), Updates(h))]
       /\ staged' = TRUE /\ polling' = TRUE
       /\ UNCHANGED <<gameState, history, cursor, delivered, floor>>

\* The retained publication is offered again, without a read.
RetryChat ==
    /\ ~polling /\ pending # None
    /\ staged' = TRUE /\ polling' = TRUE
    /\ UNCHANGED <<gameState, history, cursor, pending, delivered, floor>>

\* A poll that stages no chat: chat not due, unavailable, or out of IDs.
PollOther ==
    /\ ~polling
    /\ polling' = TRUE
    /\ UNCHANGED <<gameState, history, cursor, pending, staged, delivered, floor>>

Staged == staged

\* poll_completed takes the flag.
StagedAfter == FALSE

\* poll_completed(true)
Committed ==
    /\ polling
    /\ polling' = FALSE /\ staged' = StagedAfter
    /\ IF Staged
       THEN /\ history' = IF pending.history = None THEN history ELSE pending.history
            /\ cursor' = pending.cursor
            /\ pending' = None
            /\ delivered' = [c \in Conversations |-> delivered[c] \o
                               (IF staged THEN pending.events[c] ELSE <<>>)]
       ELSE UNCHANGED <<history, cursor, pending, delivered>>
    /\ UNCHANGED <<gameState, floor>>

\* poll_completed(false)
Rejected ==
    /\ polling
    /\ polling' = FALSE /\ staged' = StagedAfter
    /\ UNCHANGED <<gameState, history, cursor, pending, delivered, floor>>

\* clear_chat: a new generation, lost demand, or another account or data owner.
ClearChat ==
    /\ ~polling
    /\ history' = None /\ cursor' = NewCursor /\ pending' = None /\ staged' = FALSE
    /\ delivered' = [c \in Conversations |-> <<>>]
    /\ floor' = written
    /\ UNCHANGED <<gameState, polling>>

Poll == PollChat \/ RetryChat

Next ==
    \/ \E k \in Keys : OpenChannel(k) \/ CloseChannel(k) \/ Write(k)
    \/ PollChat \/ RetryChat \/ PollOther
    \/ Committed \/ Rejected
    \/ ClearChat

Spec == Init /\ [][Next]_vars

-----------------------------------------------------------------------------
(* Properties. *)

Entries == [channel : 1..MaxInstances, n : 1..MaxMessages, previous : 0..MaxMessages]
Channels == [address : 1..MaxInstances, instance : 1..MaxInstances, entries : Seq(Entries)]

\* Shape of the state: histories and positions are of real channels, an ID is
\* within its limit.
TypeOK ==
    /\ \A k \in Keys : game[k] = None \/ game[k] \in Channels
    /\ history # None => \A k \in DOMAIN history : history[k] \in Channels
    /\ cursor.next \in 0..MaxConversation
    /\ cursor.positions # None =>
          \A k \in DOMAIN cursor.positions :
             /\ cursor.positions[k].conversation \in 1..cursor.next
             /\ cursor.positions[k].anchor \in Entries \cup {None}
    /\ staged => polling /\ pending # None

Messages(c) == {i \in DOMAIN delivered[c] : delivered[c][i].kind = "message"}

\* "Events preserve each channel's native order" (sdk warframe/chat.rs): what a
\* conversation delivers was written in that order, and none of it twice, whatever
\* polls were rejected and whatever instance a recreated channel is.
NativeOrder ==
    \A c \in Conversations : \A i, j \in Messages(c) :
       LET a == delivered[c][i].at
           b == delivered[c][j].at
       IN i < j => a.channel < b.channel \/ (a.channel = b.channel /\ a.n < b.n)

\* The entry that a conversation had reached before its i-th mark.
Reached(c, i) == IF i = 1 THEN None ELSE delivered[c][i - 1].at

\* Nothing is skipped once a conversation has a position: a message is the next one
\* written after the entry reached by the message, the baseline or the gap before it,
\* and a gap tells that such a position was lost.  Without a position (a channel that
\* was empty, or not there, when last read) delivery starts at the oldest entry that
\* is retained; what the game has trimmed by then goes untold.
NothingSkipped ==
    \A c \in Conversations : \A i \in DOMAIN delivered[c] :
       LET mark == delivered[c][i]
           reached == Reached(c, i)
       IN /\ mark.kind = "message" =>
                IF reached = None THEN mark.at.previous = 0
                ELSE mark.at.channel = reached.channel /\ mark.at.n = reached.n + 1
          /\ mark.kind = "gap" => reached # None /\ mark.at # reached

\* The cursor stands exactly where delivery ends, after refusals and retries too.
PositionIsDelivered ==
    cursor.positions # None =>
       \A k \in DOMAIN cursor.positions :
          LET c == cursor.positions[k].conversation
          IN cursor.positions[k].anchor = Reached(c, Len(delivered[c]) + 1)

\* An instance is delivered under one conversation ID only.
OneConversation ==
    \A c, d \in Conversations : \A i \in Messages(c), j \in Messages(d) :
       delivered[c][i].at.channel = delivered[d][j].at.channel => c = d

\* "Starting/resuming acquisition baselines retained messages" (sdk
\* warframe/chat.rs): what was written before a generation is never delivered in it.
RetainedIsSkipped ==
    \A c \in Conversations : \A i \in Messages(c) :
       LET e == delivered[c][i].at
       IN e.channel <= Len(floor) => e.n > floor[e.channel]

\* One publication stays within MAX_EVENTS.
Batch == IF pending = None \/ Baseline THEN 0
         ELSE FoldSet(LAMBDA c, total : Len(pending.events[c]) + total, 0, Conversations)
BatchBounded == Batch <= MaxEvents

\* Every open channel is read to its end.
CaughtUp ==
    /\ cursor.positions # None
    /\ DOMAIN cursor.positions = Open(game)
    /\ \A k \in Open(game) :
          /\ cursor.positions[k].address = game[k].address
          /\ game[k].entries # <<>> => cursor.positions[k].anchor = LastOf(game[k].entries)

\* The game is silent, and chat is not cleared.
Silent == UNCHANGED <<game, written, floor>> /\ ~ClearChat

=============================================================================
