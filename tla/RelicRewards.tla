----------------------------- MODULE RelicRewards -----------------------------
(***************************************************************************)
(* One acquisition of the relic reward picker (topics/relic_rewards/mod.rs *)
(* under read_stable) while the game fills, closes and reopens the picker. *)
(*                                                                         *)
(* A record of the native vector holds the reward of one player: the type  *)
(* of the item, whether the player qualified, and text fields of which one *)
(* is the player's account.  The code does not know which, and finds out.  *)
(* Of its four candidates two are modelled; AccountField is what only the  *)
(* game knows.  Accounts are numbers, ordered as their text is.            *)
(***************************************************************************)
EXTENDS Integers, Sequences, FiniteSets, SequencesExt

CONSTANTS
    Accounts,       \* the accounts of the squad
    Local,          \* the account of the session
    Rewards,        \* item types; the path of each is known (see Records)
    AccountField,   \* 1 or 2
    Aliases,        \* the other field of each player, 0 where it is no account
    MaxChoices,     \* MAX_CHOICES
    MaxRecords,     \* records the game may have
    MaxWrites       \* bound on the changes of the game

RelicAssumption ==
    /\ Accounts \subseteq Nat \ {0} /\ IsFiniteSet(Accounts) /\ Local \in Accounts
    /\ 0 \notin Rewards
    /\ AccountField \in 1 .. 2
    /\ DOMAIN Aliases = Accounts /\ \A a \in Accounts : Aliases[a] \in Nat
    /\ MaxChoices \in Nat \ {0} /\ MaxRecords \in Nat \ {0} /\ MaxWrites \in Nat

VARIABLES
    header,     \* [buffer, length] of the vector
    records,    \* records of the buffers
    writes,     \* changes so far
    views,      \* the pickers the game had since the read began
    pc,         \* what is read next
    pass,       \* read_stable reads twice
    before,     \* the header of this pass
    payload,    \* its records
    next,       \* the record read next
    ordered,    \* what this pass found
    first,      \* what the first pass found
    outcome     \* "reading", "accepted" or the error

game == <<header, records, writes>>
local == <<pc, pass, before, payload, next, ordered, first, outcome>>
vars == <<header, records, writes, views, pc, pass, before, payload, next, ordered, first, outcome>>

Null == 0
Buffers == 1 .. 2
Slots == 1 .. MaxRecords
Empty == [type |-> Null, qualified |-> 0, fields |-> <<0, 0>>]

\* What a freed buffer holds is no qualification.
Freed == [type |-> Null, qualified |-> 2, fields |-> <<0, 0>>]

-----------------------------------------------------------------------------
(* Decoding.                                                                *)

\* reward_type: the item of a record whose player qualified.
Qualified(seen) == {i \in DOMAIN seen : seen[i].qualified = 1}

RewardsReady(seen) == \A i \in Qualified(seen) : seen[i].type # Null

Wellformed(seen) == \A i \in DOMAIN seen : seen[i].qualified \in {0, 1}

\* A field that may be the account: an account in every qualified record, no two
\* the same.
Fits(seen, f) ==
    /\ \A i \in Qualified(seen) : seen[i].fields[f] # 0
    /\ \A i, j \in Qualified(seen) : seen[i].fields[f] = seen[j].fields[f] => i = j

\* account_ids accepts one fitting field, and no second.
account_ids(seen) == {f \in 1 .. 2 : Fits(seen, f)}

Offered(seen, f) ==
    {[account |-> seen[i].fields[f], item |-> seen[i].type] : i \in Qualified(seen)}

\* The session's own choice first, the others by account.
display_before(a, b) ==
    IF (a.account # Local) = (b.account # Local) THEN a.account < b.account
    ELSE a.account = Local

\* display_order: exactly one choice is the session's own.
OneIsLocal(seen, f) ==
    Cardinality({i \in Qualified(seen) : seen[i].fields[f] = Local}) = 1

display_order(seen, f) == SetToSortSeq(Offered(seen, f), display_before)

-----------------------------------------------------------------------------
(* The game.                                                                *)

Picker(h, r) ==
    {[account |-> r[h.buffer][i].fields[AccountField], item |-> r[h.buffer][i].type] :
        i \in {j \in 1 .. h.length : r[h.buffer][j].qualified = 1}}

Change ==
    /\ writes < MaxWrites /\ writes' = writes + 1
    /\ views' = views \cup {Picker(header', records')}
    /\ UNCHANGED local

\* A player's record is appended before the player qualifies.
Join(a) ==
    /\ header.length < MaxRecords
    /\ \A i \in 1 .. header.length : records[header.buffer][i].fields[AccountField] # a
    /\ records' = [records EXCEPT ![header.buffer][header.length + 1] =
                    [Empty EXCEPT !.fields = IF AccountField = 1 THEN <<a, Aliases[a]>>
                                             ELSE <<Aliases[a], a>>]]
    /\ header' = [header EXCEPT !.length = @ + 1]
    /\ Change

\* The item is stored before the qualification, or after it.
SetItem(i, item) ==
    /\ i <= header.length /\ records[header.buffer][i].type = Null
    /\ records' = [records EXCEPT ![header.buffer][i].type = item]
    /\ UNCHANGED header /\ Change

Qualify(i) ==
    /\ i <= header.length /\ records[header.buffer][i].qualified = 0
    /\ records' = [records EXCEPT ![header.buffer][i].qualified = 1]
    /\ UNCHANGED header /\ Change

\* The picker closes; its buffer is kept or freed, the next picker's buffer may
\* be the same.
Close(freed) ==
    /\ header.length > 0
    /\ header' = [buffer |-> IF freed THEN 3 - header.buffer ELSE header.buffer, length |-> 0]
    /\ records' = IF freed THEN [records EXCEPT ![header.buffer] = [i \in Slots |-> Freed]]
                  ELSE records
    /\ Change

Game ==
    \/ \E a \in Accounts : Join(a)
    \/ \E i \in Slots : Qualify(i) \/ \E item \in Rewards : SetItem(i, item)
    \/ \E freed \in BOOLEAN : Close(freed)

-----------------------------------------------------------------------------
(* The read.                                                                *)

Fail(error) == outcome' = error /\ UNCHANGED <<pc, pass, before, payload, next, ordered, first>>

\* vector_bounds
vector_bounds(h) == h.length <= MaxChoices

ReadHeader ==
    /\ pc = "header"
    /\ IF ~vector_bounds(header) THEN Fail("invalid")
       ELSE /\ before' = header
            /\ payload' = <<>> /\ next' = 1
            /\ pc' = IF header.length = 0 THEN "decode" ELSE "payload"
            /\ UNCHANGED <<pass, ordered, first, outcome>>

\* The records are not read in one instant.
ReadRecord ==
    /\ pc = "payload"
    /\ payload' = Append(payload, records[before.buffer][next])
    /\ next' = IF next = before.length THEN 1 ELSE next + 1
    /\ pc' = IF next = before.length THEN "decode" ELSE "payload"
    /\ UNCHANGED <<pass, before, ordered, first, outcome>>

Found(choices) ==
    /\ ordered' = choices
    /\ pc' = IF before.length = 0 THEN "end" ELSE "again"
    /\ UNCHANGED <<pass, before, payload, next, first, outcome>>

\* Without a qualified record no account is looked for.
Decode ==
    /\ pc = "decode"
    /\ \/ ~Wellformed(payload) /\ Fail("invalid")
       \/ Wellformed(payload) /\ ~RewardsReady(payload) /\ Fail("not_ready")
       \/ /\ Wellformed(payload) /\ RewardsReady(payload)
          /\ \/ Qualified(payload) = {} /\ Found(<<>>)
             \/ /\ Qualified(payload) # {}
                /\ Cardinality(account_ids(payload)) # 1 /\ Fail("invalid")
             \/ /\ Qualified(payload) # {}
                /\ \E f \in 1 .. 2 :
                    /\ account_ids(payload) = {f}
                    /\ IF OneIsLocal(payload, f) THEN Found(display_order(payload, f))
                       ELSE Fail("invalid")

Unchanged(i) == records[before.buffer][i] = payload[i]

\* The payload again, a record at a time.
ReadAgain ==
    /\ pc = "again"
    /\ IF ~Unchanged(next) THEN Fail("changed")
       ELSE /\ next' = next + 1
            /\ pc' = IF next = before.length THEN "end" ELSE "again"
            /\ UNCHANGED <<pass, before, payload, ordered, first, outcome>>

\* The header again, and the end of a pass; read_stable compares the two.
EndPass ==
    /\ pc = "end"
    /\ \/ header # before /\ Fail("changed")
       \/ /\ header = before /\ pass = 1
          /\ pass' = 2 /\ first' = ordered /\ pc' = "header"
          /\ UNCHANGED <<before, payload, next, ordered, outcome>>
       \/ /\ header = before /\ pass = 2
          /\ IF first = ordered THEN outcome' = "accepted" ELSE outcome' = "changed"
          /\ UNCHANGED <<pc, pass, before, payload, next, ordered, first>>

Read ==
    /\ outcome = "reading"
    /\ ReadHeader \/ ReadRecord \/ Decode \/ ReadAgain \/ EndPass
    /\ UNCHANGED <<header, records, writes, views>>

\* The session reads again at its next poll.
Restart ==
    /\ outcome # "reading"
    /\ outcome' = "reading" /\ pc' = "header" /\ pass' = 1
    /\ before' = [buffer |-> 1, length |-> 0] /\ payload' = <<>> /\ next' = 1
    /\ ordered' = <<>> /\ first' = <<>>
    /\ views' = {Picker(header, records)}
    /\ UNCHANGED game

Init ==
    /\ header = [buffer |-> 1, length |-> 0]
    /\ records = [b \in Buffers |-> [i \in Slots |-> Freed]]
    /\ writes = 0
    /\ views = {Picker(header, records)}
    /\ outcome = "reading" /\ pc = "header" /\ pass = 1
    /\ before = [buffer |-> 1, length |-> 0] /\ payload = <<>> /\ next = 1
    /\ ordered = <<>> /\ first = <<>>

Next == Game \/ Read \/ Restart

Spec == Init /\ [][Next]_vars

-----------------------------------------------------------------------------
(* Properties.                                                              *)

\* A picker as the game draws it: the session's own choice first, the others by
\* account, every choice once.
Drawn(choices, picker) ==
    /\ Range(choices) = picker /\ Len(choices) = Cardinality(picker)
    /\ choices # <<>> => choices[1].account = Local
    /\ \A i \in 2 .. Len(choices) - 1 : choices[i].account < choices[i + 1].account

\* The choices published are a picker the game had during the read, in the order
\* in which the game draws it, however records are added, filled, closed and
\* reopened while they are read (read_once, account_ids, display_order).
PickerWasTrue ==
    outcome = "accepted" => \E picker \in views : Drawn(ordered, picker)
=============================================================================
