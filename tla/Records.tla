------------------------------- MODULE Records -------------------------------
(***************************************************************************)
(* From the bytes of a vector to the snapshot a client queries: the codec  *)
(* of protected counts (scalar.rs), the records of the inventory, mastery  *)
(* and star chart vectors (topics/*/layout.rs), the resolution of a native *)
(* item type to its path through the process-wide cache (item_type/mod.rs),*)
(* and the constructors and lookups of the portable model                  *)
(* (warframe/model).  Words are WordBits wide.                             *)
(***************************************************************************)
EXTENDS Integers, Sequences, FiniteSets, FiniteSetsExt, SequencesExt, Bitwise

CONSTANTS
    Descriptors,        \* native item types: address -> its descriptor
    Texts,              \* string tokens: token -> its text
    MaxItemTypes,       \* MAX_ITEM_TYPES: paths the cache remembers
    WordBits,           \* width of a protected word
    Values,             \* counts the game stores, below 2^WordBits
    MaxRecords,         \* records of a vector
    InventoryFamilies,  \* vectors of the inventory
    Topics              \* topics read: of "inventory", "mastery", "star_chart"

RecordsAssumption ==
    /\ MaxItemTypes \in Nat /\ MaxRecords \in Nat 
    /\ WordBits \in Nat \ {0, 1}
    /\ Values \subseteq 0 .. 2^WordBits - 1

VARIABLES
    paths,      \* ItemTypeCache.paths: item type -> item key
    topic,      \* what is read
    payloads,   \* the vectors of this read, as the game wrote them
    parts,      \* what was made of them
    outcome     \* "none", "reading", "published" or the error of the read

vars == <<paths, topic, payloads, parts, outcome>>

-----------------------------------------------------------------------------
(* Protected words.                                                         *)

Null == 0               \* an empty slot
Wild == 99              \* an address outside the user range
None == -1

RotateLeft == 1
AddressShift == 3
ValueXor == 2
CheckXor == 1

Rotl(x) == ((x * 2^RotateLeft) % 2^WordBits) + x \div 2^(WordBits - RotateLeft)

Mask(address) == ((address \div 2^AddressShift) % 2^WordBits) ^^ ValueXor

\* The value of two words, if they belong together.
decode(check, stored, address) ==
    IF check = stored ^^ CheckXor THEN Rotl(stored) ^^ Mask(address) ELSE None

\* The game's encoding of a value stored at an address.
Stored(value, address) ==
    CHOOSE s \in 0 .. 2^WordBits - 1 : Rotl(s) ^^ Mask(address) = value

Check(value, address) == Stored(value, address) ^^ CheckXor

-----------------------------------------------------------------------------
(* Vectors.  A slot holds an item type and a count; a torn slot is one the  *)
(* game is writing: the check word is still that of the count before.       *)

Slots == [type : (DOMAIN Descriptors) \cup {Null, Wild}, value : Values, torn : BOOLEAN]

Payloads == SeqOf(Slots, MaxRecords)

Stride == 16
Base == 16

WordAddress(i) == Base + Stride * i

Words(payload, i) ==
    LET slot == payload[i]
        address == WordAddress(i)
        before == (slot.value + 1) % 2^WordBits
    IN  [check |-> Check(IF slot.torn THEN before ELSE slot.value, address),
         stored |-> Stored(slot.value, address)]

Count(payload, i) ==
    decode(Words(payload, i).check, Words(payload, i).stored, WordAddress(i))

is_user_address(address) == address # Null /\ address # Wild

\* The inventory refuses a vector with a record it cannot read.
ReadableInventory(payload) ==
    \A i \in DOMAIN payload :
        is_user_address(payload[i].type) /\ Count(payload, i) # None

\* Mutant: a second record of an item type replaces the first.
LastCounts(payload) ==
    LET kept == {i \in DOMAIN payload : Count(payload, i) # 0}
    IN  [t \in {payload[i].type : i \in kept} |->
            Count(payload, Max({k \in kept : payload[k].type = t}))]

\* Counts by item type: records add up, a count of zero makes no entry.
ItemCounts(payload) ==
    LET kept == {i \in DOMAIN payload : Count(payload, i) # 0}
    IN  [t \in {payload[i].type : i \in kept} |->
            MapThenSumSet(LAMBDA i : Count(payload, i), {k \in kept : payload[k].type = t})]

\* Mastery skips empty slots, their words included.
Progressing(payload) == {i \in DOMAIN payload : payload[i].type # Null}

ReadableMastery(payload) ==
    \A i \in Progressing(payload) :
        is_user_address(payload[i].type) /\ Count(payload, i) # None

\* Star chart words are plain; a record without a tag is refused.
ReadableMissions(payload) == \A i \in DOMAIN payload : payload[i].type \in DOMAIN Texts

-----------------------------------------------------------------------------
(* Item types.  A descriptor has a vtable, a prefix and a suffix; the path  *)
(* they join to is 0 where it is not an item key.                           *)

\* join_path: the suffix is not empty, and exactly one of the two supplies
\* the separator between them.
Joins(d) ==
    /\ d.suffix # "empty"
    /\ d.prefix # "none" => d.prefix = "slash" /\ d.suffix # "rooted"

Resolvable(t) == Descriptors[t].leaf /\ Joins(Descriptors[t]) /\ Descriptors[t].path # 0

\* One lookup: the cache answers, or the descriptor is read and remembered
\* while there is room.
Learn(known, t) ==
    IF t \in DOMAIN known \/ ~Resolvable(t) \/ Cardinality(DOMAIN known) >= MaxItemTypes
    THEN known
    ELSE [k \in (DOMAIN known) \cup {t} |-> IF k = t THEN Descriptors[t].path ELSE known[k]]

\* The key of an item type that resolves.
KeyOf(known, t) == IF t \in DOMAIN known THEN known[t] ELSE Descriptors[t].path

Known(known, t) == t \in DOMAIN known \/ Resolvable(t)

\* Lookups run in order and stop at the first that fails.
LearnAll(known, types) ==
    LET failed == {i \in DOMAIN types : ~Known(known, types[i])}
        read == IF failed = {} THEN types ELSE SubSeq(types, 1, Min(failed) - 1)
    IN  FoldLeft(Learn, known, read)

-----------------------------------------------------------------------------
(* What becomes of a vector: entries [key, amount], ordered by key.         *)

Ordered(entries) == SetToSortSeq(entries, LAMBDA a, b : a.key < b.key)

\* project_items: item types of one path are combined.
project_items(known, counts) ==
    LET keys == {KeyOf(known, t) : t \in DOMAIN counts}
    IN  Ordered({[key |-> k,
                  amount |-> MapThenSumSet(LAMBDA t : counts[t],
                                {t \in DOMAIN counts : KeyOf(known, t) = k})] : k \in keys})

\* One entry for each record.
Entries(payload, chosen, key) ==
    Ordered({[key |-> key[i], amount |-> payload[i].value] : i \in chosen})

\* Two records of one key are refused.
Distinct(chosen, key) == \A i, j \in chosen : key[i] = key[j] => i = j

\* The constructors of the model: keys strictly ascending, no zero quantity in
\* the inventory.
Ascending(items) == \A i \in 1 .. Len(items) - 1 : items[i].key < items[i + 1].key

ValidInventory(families) ==
    \A f \in DOMAIN families :
        Ascending(families[f]) /\ \A i \in DOMAIN families[f] : families[f][i].amount # 0

ValidEntries(families) == \A f \in DOMAIN families : Ascending(families[f])

\* A lookup by key, and what it says where the key is absent.
Find(items, key, absent) ==
    IF \E i \in DOMAIN items : items[i].key = key
    THEN items[CHOOSE i \in DOMAIN items : items[i].key = key].amount
    ELSE absent

-----------------------------------------------------------------------------
(* Reads.                                                                   *)

Families == IF topic = "inventory" THEN InventoryFamilies ELSE 1

Start(t) ==
    /\ outcome # "reading"
    /\ topic' = t /\ outcome' = "reading"
    /\ payloads' = <<>> /\ parts' = <<>>
    /\ UNCHANGED paths

Refuse(payload) ==
    /\ outcome' = "invalid"
    /\ payloads' = Append(payloads, payload)
    /\ UNCHANGED <<topic, parts>>

Keep(payload, items) ==
    /\ payloads' = Append(payloads, payload)
    /\ parts' = Append(parts, items)
    /\ UNCHANGED <<topic, outcome>>

Reading(t) == topic = t /\ outcome = "reading" /\ Len(parts) < Families

\* One family of the inventory: its item types are resolved in address order.
ReadFamily(payload) ==
    /\ Reading("inventory")
    /\ IF ~ReadableInventory(payload) THEN Refuse(payload) /\ UNCHANGED paths
       ELSE LET counts == ItemCounts(payload)
            IN  /\ paths' = LearnAll(paths, SetToSortSeq(DOMAIN counts, <))
                /\ IF \A t \in DOMAIN counts : Known(paths, t)
                   THEN Keep(payload, project_items(paths, counts))
                   ELSE Refuse(payload)

\* The item types of a mastery vector are resolved in vector order.
ReadMastery(payload) ==
    LET chosen == Progressing(payload)
        types == SelectSeq([i \in DOMAIN payload |-> payload[i].type], LAMBDA t : t # Null)
        key == [i \in chosen |-> KeyOf(paths, payload[i].type)]
    IN  /\ Reading("mastery")
        /\ IF ~ReadableMastery(payload) THEN Refuse(payload) /\ UNCHANGED paths
           ELSE /\ paths' = LearnAll(paths, types)
                /\ IF (\A i \in chosen : Known(paths, payload[i].type)) /\ Distinct(chosen, key)
                   THEN Keep(payload, Entries(payload, chosen, key))
                   ELSE Refuse(payload)

ReadMissions(payload) ==
    LET key == [i \in DOMAIN payload |-> Texts[payload[i].type]]
    IN  /\ Reading("star_chart")
        /\ IF ReadableMissions(payload) /\ Distinct(DOMAIN payload, key)
           THEN Keep(payload, Entries(payload, DOMAIN payload, key))
           ELSE Refuse(payload)
        /\ UNCHANGED paths

Publish ==
    /\ outcome = "reading" /\ Len(parts) = Families
    /\ outcome' = IF \/ topic = "inventory" /\ ValidInventory(parts)
                     \/ topic # "inventory" /\ ValidEntries(parts)
                  THEN "published" ELSE "invalid_model"
    /\ UNCHANGED <<paths, topic, payloads, parts>>

Init ==
    /\ paths = <<>> /\ topic \in Topics
    /\ payloads = <<>> /\ parts = <<>> /\ outcome = "none"

Next ==
    \/ \E t \in Topics : Start(t)
    \/ \E p \in Payloads : ReadFamily(p) \/ ReadMastery(p) \/ ReadMissions(p)
    \/ Publish

Spec == Init /\ [][Next]_vars

-----------------------------------------------------------------------------
(* Properties.                                                              *)

Keys == {Descriptors[t].path : t \in DOMAIN Descriptors} \cup {Texts[t] : t \in DOMAIN Texts}

\* Shape of a read: as many parts as vectors decoded, a refused one last; the
\* cache stays within MAX_ITEM_TYPES.
TypeOK ==
    /\ outcome \in {"none", "reading", "published", "invalid", "invalid_model"}
    /\ topic \in Topics
    /\ Len(payloads) = Len(parts) + (IF outcome = "invalid" THEN 1 ELSE 0)
    /\ Len(parts) <= Families
    /\ Cardinality(DOMAIN paths) <= MaxItemTypes

\* The records of a payload that stand for a key.
Standing(payload, key) ==
    {i \in DOMAIN payload :
        /\ payload[i].type \in DOMAIN Descriptors
        /\ Descriptors[payload[i].type].path = key}

\* The quantity a client looks up in a published inventory is the sum of the
\* counts of all records whose item type has that path, over several records
\* of one type and several types of one path (inventory::decode_records,
\* project_items, InventorySnapshot::quantity), whichever paths were cached.
QuantityExact ==
    outcome = "published" /\ topic = "inventory" =>
        \A f \in DOMAIN payloads, k \in Keys :
            Find(parts[f], k, 0) =
                MapThenSumSet(LAMBDA i : payloads[f][i].value, Standing(payloads[f], k))

\* No published amount rests on a word that was being written: what a torn
\* record would have said is not in an inventory or mastery snapshot.
WholeRecords ==
    outcome = "published" /\ topic # "star_chart" =>
        \A f \in DOMAIN payloads : \A i \in DOMAIN payloads[f] :
            payloads[f][i].type # Null => ~payloads[f][i].torn

\* A published mastery or star chart snapshot answers each key with its one
\* record, and an absent key with absence rather than zero.
ProgressExact ==
    outcome = "published" /\ topic # "inventory" =>
        \A k \in Keys :
            LET said == {i \in DOMAIN payloads[1] :
                            /\ payloads[1][i].type # Null
                            /\ k = IF topic = "mastery"
                                   THEN Descriptors[payloads[1][i].type].path
                                   ELSE Texts[payloads[1][i].type]}
            IN  /\ Cardinality(said) <= 1
                /\ Find(parts[1], k, None) =
                    IF said = {} THEN None
                    ELSE payloads[1][CHOOSE i \in said : TRUE].value

\* A record that a topic cannot publish: torn or without an item where that
\* matters, or of an item type that does not resolve.
AtFault(slot) ==
    CASE topic = "inventory" ->
            \/ slot.torn \/ slot.type \in {Null, Wild}
            \/ slot.value # 0 /\ ~Resolvable(slot.type)
      [] topic = "mastery" ->
            slot.type # Null /\ (slot.torn \/ slot.type = Wild \/ ~Resolvable(slot.type))
      [] OTHER -> slot.type \in {Null, Wild}

\* Two records of a topic that has one for each key.
Clash(a, b) ==
    /\ topic # "inventory"
    /\ {a.type, b.type} \subseteq DOMAIN Descriptors
    /\ IF topic = "mastery" THEN Descriptors[a.type].path = Descriptors[b.type].path
                            ELSE Texts[a.type] = Texts[b.type]

\* What the provider decodes is never refused by the model's constructor, and
\* what it refuses has a record at fault or two records for one key: an empty
\* mastery slot, a zero count of an unknown item or a torn word nobody reads
\* refuses nothing.
RefusedForCause ==
    /\ outcome # "invalid_model"
    /\ outcome = "invalid" =>
        LET payload == Last(payloads)
        IN  \/ \E i \in DOMAIN payload : AtFault(payload[i])
            \/ \E i, j \in DOMAIN payload : i # j /\ Clash(payload[i], payload[j])
=============================================================================
