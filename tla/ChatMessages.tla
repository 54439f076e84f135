----------------------------- MODULE ChatMessages ------------------------------
(***************************************************************************)
(* What the chat topic says of an entry (chat/layout.rs): the channel its  *)
(* key names, who wrote it, in which direction it goes for the local       *)
(* player, and the peer of a private conversation.                         *)
(*                                                                         *)
(* A player's name in native text has a spelling (upper or lower case) and *)
(* may carry a platform glyph behind it; a name that is only a glyph has   *)
(* base 0.  A key is public, by its prefix, or the names of the two        *)
(* parties of a private conversation in either order.                      *)
(***************************************************************************)
EXTENDS Integers, FiniteSets

CONSTANTS
    Players,        \* base names, 0 excluded
    Prefixes        \* the prefixes of public keys

VARIABLES
    key,        \* the key of the channel
    entry,      \* the sender of the entry
    local,      \* the local player's name, None while it is not known
    message     \* the message, or None before it is made

vars == <<key, entry, local, message>>

None == [kind |-> "none"]
Names == [kind : {"name"}, base : Players \cup {0}, upper : BOOLEAN, glyph : BOOLEAN]
Absent == [kind |-> "absent"]       \* the empty text

Public == [kind : {"public"}, prefix : Prefixes]
Pairs == [kind : {"pair"}, first : Names \cup {Absent}, second : Names \cup {Absent}]

-----------------------------------------------------------------------------

\* player_name: the name without its glyph; nothing may be left.
player_name(n) ==
    IF n.kind = "absent" \/ n.base = 0 THEN Absent ELSE [n EXCEPT !.glyph = FALSE]

\* eq_ignore_ascii_case
same_name(a, b) == a.base = b.base

\* The two parties of a private key, in the order of the key.
participants(k) ==
    IF k.kind = "pair" /\ player_name(k.first) # Absent /\ player_name(k.second) # Absent
    THEN <<player_name(k.first), player_name(k.second)>> ELSE <<>>

\* The first prefix that fits; a private key names its parties.
channel(k) ==
    CASE k.kind = "public" -> k.prefix
      [] k.kind = "pair" /\ participants(k) # <<>> -> "direct"
      [] OTHER -> "other"

\* local.map(player_name).filter(..)
LocalName == IF local.kind = "name" THEN player_name(local) ELSE Absent

Direction(sender) ==
    CASE sender = Absent -> "system"
      [] sender # Absent /\ player_name(sender) = Absent -> "unknown"
      [] player_name(sender) # Absent /\ LocalName = Absent -> "unknown"
      [] player_name(sender) # Absent /\ LocalName # Absent ->
            IF same_name(player_name(sender), LocalName) THEN "outgoing" ELSE "incoming"

\* The party that is not the local player, if exactly one of them is.
Peer(k) ==
    LET parties == participants(k) IN
    IF LocalName = Absent \/ parties = <<>> THEN Absent
    ELSE IF same_name(parties[1], LocalName) /\ ~same_name(parties[2], LocalName) THEN parties[2]
    ELSE IF same_name(parties[2], LocalName) /\ ~same_name(parties[1], LocalName) THEN parties[1]
    ELSE Absent

MakeMessage ==
    /\ message = None
    /\ message' = [kind |-> "message", channel |-> channel(key), sender |-> player_name(entry),
                   direction |-> Direction(entry), peer |-> Peer(key)]
    /\ UNCHANGED <<key, entry, local>>

Init ==
    /\ key \in Public \cup Pairs
    /\ entry \in Names \cup {Absent}
    /\ local \in Names \cup {None}
    /\ message = None

Next == MakeMessage

Spec == Init /\ [][Next]_vars

-----------------------------------------------------------------------------
(* Properties.                                                              *)

Is(n, base) == n.kind = "name" /\ n.base = base

\* In a private conversation between two players, one of them local, every
\* message is attributed the same way however the key orders and spells the two
\* and whatever glyphs they carry: the peer is the other player, what the peer
\* wrote is incoming and what the local player wrote is outgoing
\* (participants, message).
ConversationAttributed ==
    \A me, you \in Players :
        /\ message.kind = "message" /\ me # you /\ Is(local, me)
        /\ key.kind = "pair"
        /\ \/ Is(key.first, me) /\ Is(key.second, you)
           \/ Is(key.first, you) /\ Is(key.second, me)
        => /\ message.channel = "direct" /\ Is(message.peer, you)
           /\ Is(entry, you) => message.direction = "incoming" /\ Is(message.sender, you)
           /\ Is(entry, me) => message.direction = "outgoing" /\ Is(message.sender, me)
=============================================================================
