---------------------------- MODULE StreamItems ----------------------------
(***************************************************************************)
(* The items of a subscription that concern topics, and what a feed does   *)
(* with each (subscription/feed.rs, receive_once).                         *)
(***************************************************************************)
EXTENDS Naturals, Sequences

CONSTANTS Sessions, Topics, Payloads

Keys == Sessions \X Topics

\* EnvelopeMetadata and DataEnvelope: a payload stamped with its source,
\* generation and sequence number.
Metadata == [key : Keys, generation : Nat, sequence : Nat]
Snapshots == [metadata : Metadata, payload : Payloads]

\* TopicSnapshot with data, as a bootstrap topic (no cursor) or an update.  The
\* service exposes data only as Available and of the current generation
\* (Service, Freshness).
DataItem(cursor, snapshot) ==
    [kind |-> "Data", cursor |-> cursor, key |-> snapshot.metadata.key,
     generation |-> snapshot.metadata.generation, health |-> "Available",
     snapshot |-> snapshot]

\* TopicSnapshot without data: not Available, for a reason that delivery does not
\* look at, or Initializing after a reset.
StateItem(cursor, key, generation, health) ==
    [kind |-> "State", cursor |-> cursor, key |-> key, generation |-> generation,
     health |-> health]

ResetItem(key, generation) == [kind |-> "Reset", key |-> key, generation |-> generation]
EndedItem(session) == [kind |-> "Ended", session |-> session]

DataItems == [kind : {"Data"}, cursor : BOOLEAN, key : Keys, generation : Nat,
              health : {"Available"}, snapshot : Snapshots]
StateItems == [kind : {"State"}, cursor : BOOLEAN, key : Keys, generation : Nat,
               health : {"Unavailable", "Initializing"}]
ResetItems == [kind : {"Reset"}, key : Keys, generation : Nat]
EndedItems == [kind : {"Ended"}, session : Sessions]
Items == DataItems \union StateItems \union ResetItems \union EndedItems

\* The items that replace or drop what is known of a key.
Touches(item, k) ==
    IF item.kind = "Ended" THEN k[1] = item.session ELSE k = item.key

\* The cache entry a key has after an item (Feed::change).
Entry(item) ==
    CASE item.kind = "Data" -> item
      [] item.kind = "State" -> item
      [] item.kind = "Reset" -> StateItem(TRUE, item.key, item.generation, "Initializing")
      [] item.kind = "Ended" -> item

Apply(cache, item) ==
    [k \in Keys |-> IF Touches(item, k) THEN Entry(item) ELSE cache[k]]

NoEntry == [kind |-> "None"]
=============================================================================
