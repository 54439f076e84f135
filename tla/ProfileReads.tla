----------------------------- MODULE ProfileReads -----------------------------
(***************************************************************************)
(* Sampling one account topic from the memory of the running game.  The    *)
(* provider never stops the game: every bounded read is a moment of its    *)
(* own and the game writes between any two of them.  Each topic therefore  *)
(* reads some words twice and accepts the sample only if they agree        *)
(* (topics/*/acquisition.rs, profile_inventory/mod.rs).                    *)
(*                                                                         *)
(* The game is external.  What the code relies on is modelled: a rebuild   *)
(* of the profile raises force_update before its first write and changes   *)
(* the synchronization tokens after its last one; the mastery calculation  *)
(* works under item_xp_dirty; protected words are two stores with an       *)
(* integrity check between them; anything else changes in place, to a      *)
(* value it did not have before.                                           *)
(***************************************************************************)
EXTENDS Integers, Sequences, FiniteSets

CONSTANTS
    Topic,          \* "inventory", "mastery", "intrinsics", "star_chart" or "currencies"
    MaxWrites,      \* writes of the game, over all reads
    MaxRecalculations

TopicAssumption ==
    Topic \in {"inventory", "mastery", "intrinsics", "star_chart", "currencies"}
BoundAssumption == MaxWrites \in Nat /\ MaxRecalculations \in Nat

VARIABLES
    mem,        \* the profile's words: cell -> value
    torn,       \* protected words between the two stores of a write
    rebuild,    \* "idle", "writing", "stamped": the game's rebuild
    adding,     \* next record the mastery calculation adds, 0 if none runs
    log,        \* values read so far, in the order of Reads
    outcome,    \* "reading", "accepted", or the error of the read
    views,      \* what the topic was, at every settled moment of this read
    held,       \* the values each record had during this read
    writes,     \* writes the game has made
    runs        \* mastery calculations the game has started

game == <<mem, torn, rebuild, adding, writes, runs>>
vars == <<mem, torn, rebuild, adding, log, outcome, views, held, writes, runs>>

-----------------------------------------------------------------------------
(* The words of a topic.                                                    *)

Slots == 1 .. 2         \* records of a vector
Buffers == 1 .. 3       \* allocations of a vector, each larger than the last
Garbage == 99           \* what a freed allocation holds

\* The vectors a topic reads: two families stand for all the families.
Vectors ==
    CASE Topic = "inventory"  -> {"resources", "weapons"}
      [] Topic = "mastery"    -> {"affinity"}
      [] Topic = "star_chart" -> {"missions"}
      [] OTHER                -> {}

\* Words read outside a vector.
Words ==
    CASE Topic = "mastery"    -> {"pools", "item_xp", "rank"}
      [] Topic = "intrinsics" -> {"points", "ranks"}
      [] Topic = "currencies" -> {"credits", "endo"}
      [] OTHER                -> {}

\* Words whose value is protected by a check word of their own.
Coded ==
    CASE Topic = "mastery"    -> {<<"pools">>, <<"rank">>}
      [] Topic = "currencies" -> {<<"credits">>, <<"endo">>}
      [] OTHER                -> {}

Cells ==
    {<<"force_update">>, <<"sync_tokens">>, <<"item_xp_dirty">>}
        \cup {<<w>> : w \in Words}
        \cup {<<"header", v>> : v \in Vectors}
        \cup {<<"record", v, b, i>> : v \in Vectors, b \in Buffers, i \in Slots}

Record(v, i) == <<"record", v, mem[<<"header", v>>], i>>

-----------------------------------------------------------------------------
(* The reads of each topic, in order.                                       *)

read_commit_state == <<<<"force_update">>, <<"sync_tokens">>>>

\* A payload record is read where the header read before it points.
read_vector(v) ==
    <<<<"header", v>>, <<"payload", v, 1>>, <<"payload", v, 2>>, <<"header", v>>>>

read_progression ==
    <<<<"item_xp_dirty">>, <<"pools">>, <<"item_xp">>, <<"rank">>, <<"item_xp_dirty">>>>

read_balances == <<<<"credits">>, <<"endo">>>>

block == <<<<"points">>, <<"ranks">>>>

read_inventory ==
    read_commit_state \o read_vector("resources") \o read_vector("weapons") \o read_commit_state

read_mastery ==
    read_commit_state \o read_progression \o read_vector("affinity") \o read_progression
        \o read_commit_state

read_intrinsics == read_commit_state \o block \o block \o read_commit_state

read_star_chart ==
    read_commit_state \o read_vector("missions") \o read_vector("missions") \o read_commit_state

read_currencies == read_balances \o read_balances

Reads ==
    CASE Topic = "inventory" -> read_inventory
      [] Topic = "mastery" -> read_mastery
      [] Topic = "intrinsics" -> read_intrinsics
      [] Topic = "star_chart" -> read_star_chart
      [] Topic = "currencies" -> read_currencies

\* The earlier reads of the cell that read n reads.
Earlier(n) == {m \in 1 .. n - 1 : Reads[m] = Reads[n]}

\* The header last read before read n of vector v.
HeaderBefore(v, n) ==
    log[CHOOSE m \in 1 .. n - 1 :
            /\ Reads[m] = <<"header", v>>
            /\ \A k \in m + 1 .. n - 1 : Reads[k] # <<"header", v>>]

Located(n) ==
    IF Reads[n][1] = "payload"
    THEN <<"record", Reads[n][2], HeaderBefore(Reads[n][2], n), Reads[n][3]>>
    ELSE Reads[n]

\* Flags that refuse the sample as soon as one of them is read as set.
Busy(n, value) ==
    Reads[n] \in {<<"force_update">>, <<"item_xp_dirty">>} /\ value # 0

\* The check of a protected word fails between the two stores of a write.
Integral(n) == Located(n) \notin torn

\* read_vector compares its own two headers before anything else is read: the
\* second header of a pair follows a payload record.
HeaderMoved(n, value) ==
    /\ n > 1
    /\ Reads[n][1] = "header"
    /\ Reads[n - 1][1] = "payload"
    /\ value # HeaderBefore(Reads[n][2], n)

\* What is read again must be what was read first.
Coherent(values) ==
    \A n \in 1 .. Len(Reads) : \A m \in Earlier(n) : values[m] = values[n]

-----------------------------------------------------------------------------
(* What a sample says, and what the topic was.                              *)

FirstRead(c) == CHOOSE n \in 1 .. Len(Reads) : Reads[n] = c /\ Earlier(n) = {}

\* The vectors of the inventory and of the star chart are one statement with
\* everything else; mastery's totals are, its affinities are one each.
Joint == IF Topic = "mastery" THEN {} ELSE Vectors

Sampled ==
    [words |-> [w \in Words |-> log[FirstRead(<<w>>)]],
     records |-> [v \in Joint |-> [i \in Slots |-> log[FirstRead(<<"payload", v, i>>)]]]]

View ==
    [words |-> [w \in Words |-> mem'[<<w>>]],
     records |-> [v \in Joint |->
                    [i \in Slots |-> mem'[<<"record", v, mem'[<<"header", v>>], i>>]]]]

Settled == rebuild' = "idle" /\ mem'[<<"item_xp_dirty">>] = 0 /\ torn' = {}

Live(m, v, i) == m[<<"record", v, m[<<"header", v>>], i>>]

\* Every step of the game is remembered by the read it happens under.
Observed ==
    /\ views' = IF Settled THEN views \cup {View} ELSE views
    /\ held' = [v \in Vectors |->
                  [i \in Slots |-> held[v][i] \cup {Live(mem', v, i)}]]
    /\ UNCHANGED <<log, outcome>>

-----------------------------------------------------------------------------
(* The game.                                                                *)

Write(c, value) ==
    /\ writes < MaxWrites
    /\ writes' = writes + 1
    /\ mem' = [mem EXCEPT ![c] = value]

\* The tokens and the flag of a rebuild; inventory, intrinsics and star chart
\* are rebuilt under them.
Rebuilt == Topic \in {"inventory", "intrinsics", "star_chart"}

BeginRebuild ==
    /\ Rebuilt /\ rebuild = "idle"
    /\ Write(<<"force_update">>, 1)
    /\ rebuild' = "writing"
    /\ UNCHANGED <<torn, adding, runs>> /\ Observed

RebuildWord(w) ==
    /\ rebuild = "writing"
    /\ Write(<<w>>, mem[<<w>>] + 1)
    /\ UNCHANGED <<torn, rebuild, adding, runs>> /\ Observed

RebuildRecord(v, i) ==
    /\ rebuild = "writing"
    /\ Write(Record(v, i), mem[Record(v, i)] + 1)
    /\ UNCHANGED <<torn, rebuild, adding, runs>> /\ Observed

EndRebuild ==
    /\ rebuild # "idle"
    /\ rebuild' = IF rebuild = "writing" THEN "stamped" ELSE "idle"
    /\ mem' = IF rebuild = "writing"
              THEN [mem EXCEPT ![<<"sync_tokens">>] = @ + 1]
              ELSE [mem EXCEPT ![<<"force_update">>] = 0]
    /\ UNCHANGED <<torn, adding, writes, runs>> /\ Observed

\* A vector that grows moves: the records are copied and the old allocation is
\* freed.  The header also holds the capacity, so it does not come back.
Move(v) ==
    LET old == mem[<<"header", v>>]
        new == old + 1
    IN  [c \in Cells |->
            CASE c = <<"header", v>> -> new
              [] \E i \in Slots : c = <<"record", v, new, i>> -> mem[<<"record", v, old, c[4]>>]
              [] \E i \in Slots : c = <<"record", v, old, i>> -> Garbage
              [] OTHER -> mem[c]]

MoveVector(v) ==
    /\ writes < MaxWrites
    /\ Rebuilt => rebuild = "writing"
    /\ adding = 0 /\ mem[<<"header", v>>] + 1 \in Buffers
    /\ writes' = writes + 1
    /\ mem' = Move(v)
    /\ UNCHANGED <<torn, rebuild, adding, runs>> /\ Observed

\* A completed mission counts up in place, without a rebuild.
CompleteMission(i) ==
    /\ Topic = "star_chart" /\ rebuild = "idle"
    /\ Write(Record("missions", i), mem[Record("missions", i)] + 1)
    /\ UNCHANGED <<torn, rebuild, adding, runs>> /\ Observed

\* Intrinsics are bought in place.
ChangeWord(w) ==
    /\ Topic = "intrinsics" /\ rebuild = "idle"
    /\ Write(<<w>>, mem[<<w>>] + 1)
    /\ UNCHANGED <<torn, rebuild, adding, runs>> /\ Observed

\* A protected word: the first store breaks its check, the second mends it.
BeginStore(c) ==
    /\ c \in Coded \ torn
    /\ Write(c, Garbage)
    /\ torn' = torn \cup {c}
    /\ UNCHANGED <<rebuild, adding, runs>> /\ Observed

EndStore(c) ==
    /\ c \in torn
    /\ torn' = torn \ {c}
    /\ mem' = [mem EXCEPT ![c] = writes]
    /\ UNCHANGED <<rebuild, adding, writes, runs>> /\ Observed

\* Affinity gained in place leaves the item points to be calculated again.
GainAffinity(i) ==
    /\ Topic = "mastery" /\ adding = 0
    /\ writes < MaxWrites /\ runs < MaxRecalculations
    /\ writes' = writes + 1
    /\ mem' = [mem EXCEPT ![Record("affinity", i)] = @ + 1,
                          ![<<"item_xp_dirty">>] = 1]
    /\ UNCHANGED <<torn, rebuild, adding, runs>> /\ Observed

\* Points an item contributes: a rank needs more than one point of affinity.
Points(affinity) == affinity \div 2

Calculate ==
    /\ mem[<<"item_xp_dirty">>] = 1
    /\ CASE adding = 0 ->
              /\ runs' = runs + 1
              /\ adding' = 1
              /\ mem' = [mem EXCEPT ![<<"item_xp">>] = 0]
         [] adding \in Slots ->
              /\ adding' = adding + 1
              /\ mem' = [mem EXCEPT ![<<"item_xp">>] =
                                @ + Points(mem[Record("affinity", adding)])]
              /\ UNCHANGED runs
         [] OTHER ->
              /\ adding' = 0
              /\ mem' = [mem EXCEPT ![<<"item_xp_dirty">>] = 0]
              /\ UNCHANGED runs
    /\ UNCHANGED <<torn, rebuild, writes>> /\ Observed

Game ==
    \/ BeginRebuild \/ EndRebuild
    \/ \E w \in Words : RebuildWord(w) \/ ChangeWord(w)
    \/ \E v \in Vectors : MoveVector(v) \/ \E i \in Slots : RebuildRecord(v, i)
    \/ \E i \in Slots : CompleteMission(i) \/ GainAffinity(i)
    \/ \E c \in Coded : BeginStore(c) \/ EndStore(c)
    \/ Calculate

-----------------------------------------------------------------------------
(* The read.                                                                *)

Fail(error) == outcome' = error /\ UNCHANGED log

\* The last value has been read: all that was read twice is compared.
Conclude(values) ==
    /\ outcome' = IF Coherent(values) THEN "accepted" ELSE "changed"
    /\ log' = values

Read ==
    LET n == Len(log) + 1
        value == mem[Located(n)]
    IN  /\ outcome = "reading"
        /\ \/ ~Integral(n) /\ Fail("invalid")
           \/ Integral(n) /\ Busy(n, value) /\ Fail("not_ready")
           \/ Integral(n) /\ HeaderMoved(n, value) /\ Fail("changed")
           \/ /\ Integral(n) /\ ~Busy(n, value) /\ ~HeaderMoved(n, value)
              /\ IF n = Len(Reads)
                 THEN Conclude(Append(log, value))
                 ELSE log' = Append(log, value) /\ UNCHANGED outcome
        /\ UNCHANGED <<game, views, held>>

\* The session samples again at its next poll, from the beginning.
Restart ==
    /\ outcome # "reading"
    /\ outcome' = "reading" /\ log' = <<>>
    /\ UNCHANGED game
    /\ views' = IF Settled THEN {View} ELSE {}
    /\ held' = [v \in Vectors |-> [i \in Slots |-> {Live(mem, v, i)}]]

Init ==
    /\ mem = [c \in Cells |->
                CASE c[1] = "header" -> 1
                  [] c[1] = "record" -> IF c[3] = 1 THEN 1 ELSE Garbage
                  [] OTHER -> 0]
    /\ torn = {} /\ rebuild = "idle" /\ adding = 0
    /\ log = <<>> /\ outcome = "reading"
    /\ views = {[words |-> [w \in Words |-> 0],
                 records |-> [v \in Joint |-> [i \in Slots |-> 1]]]}
    /\ held = [v \in Vectors |-> [i \in Slots |-> {1}]]
    /\ writes = 0 /\ runs = 0

Next == Game \/ Read \/ Restart

Spec == Init /\ [][Next]_vars

-----------------------------------------------------------------------------
(* Properties.                                                              *)

\* Shape of the state: the read is a prefix of its topic's reads.
TypeOK ==
    /\ mem \in [Cells -> Nat]
    /\ torn \subseteq Coded
    /\ rebuild \in {"idle", "writing", "stamped"}
    /\ adding \in 0 .. Cardinality(Slots) + 1
    /\ log \in Seq(Nat) /\ Len(log) <= Len(Reads)
    /\ outcome \in {"reading", "accepted", "invalid", "not_ready", "changed"}
    /\ outcome = "accepted" <=> Len(log) = Len(Reads) /\ outcome # "changed"
    /\ writes \in 0 .. MaxWrites /\ runs \in 0 .. MaxRecalculations

\* An accepted sample is what the topic was at one settled moment of the read:
\* never a mixture of two profiles, a half rebuilt inventory, a partial sum of
\* the mastery calculation or a word between its two stores (inventory::
\* read_inventory, mastery::read_mastery, read_intrinsics, read_star_chart,
\* read_currencies).
SnapshotWasTrue == outcome = "accepted" => Sampled \in views

\* Every affinity of an accepted mastery sample was the item's affinity at some
\* moment of the read: none comes from an allocation the game has freed
\* (profile_inventory::read_vector reads the header around the payload).
ItemsWereTrue ==
    outcome = "accepted" =>
        \A v \in Vectors, i \in Slots :
            log[FirstRead(<<"payload", v, i>>)] \in held[v][i]
=============================================================================
