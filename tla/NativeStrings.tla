----------------------------- MODULE NativeStrings -----------------------------
(***************************************************************************)
(* The player's name: two native strings of the profile, each inline in    *)
(* its 16-byte header or in a buffer the header points to (player          *)
(* acquisition over native_string.rs), read while the game assigns them.   *)
(*                                                                         *)
(* The game writes a text into a free buffer, stores the header and frees  *)
(* the old buffer, which anything may then be written to.  A header is     *)
(* stored and read whole; a buffer is read in two parts.  Texts are        *)
(* numbers; 0 is the empty text.                                           *)
(***************************************************************************)
EXTENDS Integers, Sequences, FiniteSets

CONSTANTS
    ShortTexts,     \* texts that fit in the header
    LongTexts,      \* texts that do not
    TooLong,        \* texts longer than a name may be
    MaxWrites       \* bound on the game's stores

StringAssumption ==
    /\ ShortTexts \cup LongTexts \cup TooLong \subseteq Nat
    /\ ShortTexts \cap LongTexts = {} /\ TooLong \subseteq LongTexts
    /\ 0 \in ShortTexts /\ MaxWrites \in Nat

VARIABLES
    headers,    \* the headers of the two strings
    buffers,    \* the two parts of each buffer
    writing,    \* the assignment under way
    writes,     \* stores so far
    names,      \* the names the player had since the read began
    pc,         \* what is read next
    field,      \* which of the strings
    inner,      \* pass of read_string
    outer,      \* pass of read_player
    header,     \* the header of this pass
    parts,      \* the parts read through it
    text,       \* what the first inner pass read
    name,       \* what the first outer pass read
    outcome     \* "reading", "accepted" or the error

game == <<headers, buffers, writing, writes>>
local == <<pc, field, inner, outer, header, parts, text, name, outcome>>
vars == <<headers, buffers, writing, writes, names, pc, field, inner, outer, header, parts,
          text, name, outcome>>

Strings == {"preferred", "fallback"}
Buffers == 1 .. 3
Other == 99         \* what lies in a buffer that is used for something else
None == -1

Inline(t) == [buffer |-> 0, text |-> t, long |-> FALSE]
External(b, t) == [buffer |-> b, text |-> None, long |-> t \in TooLong]

Value(h, store) ==
    IF h.buffer = 0 THEN h.text
    ELSE IF store[h.buffer][1] = store[h.buffer][2] THEN store[h.buffer][1] ELSE None

\* The name the game shows.
Shown(hs, store) ==
    IF Value(hs["preferred"], store) # 0 THEN Value(hs["preferred"], store)
    ELSE Value(hs["fallback"], store)

-----------------------------------------------------------------------------
(* The game.                                                                *)

Used == {headers[s].buffer : s \in Strings}

Idle == [field |-> "none", text |-> 0, buffer |-> 0]

Change ==
    /\ writes < MaxWrites /\ writes' = writes + 1
    /\ names' = names \cup {Shown(headers', buffers')}
    /\ UNCHANGED local

AssignShort(s, t) ==
    /\ writing = Idle /\ t \in ShortTexts
    /\ headers' = [headers EXCEPT ![s] = Inline(t)]
    /\ UNCHANGED <<buffers, writing>> /\ Change

BeginLong(s, t, b) ==
    /\ writing = Idle /\ t \in LongTexts /\ b \notin Used
    /\ buffers' = [buffers EXCEPT ![b] = <<t, t>>]
    /\ writing' = [field |-> s, text |-> t, buffer |-> b]
    /\ UNCHANGED headers /\ Change

EndLong ==
    /\ writing # Idle
    /\ headers' = [headers EXCEPT ![writing.field] = External(writing.buffer, writing.text)]
    /\ writing' = Idle
    /\ UNCHANGED buffers /\ Change

\* A free buffer is used for something else, a part at a time.
Reuse(b, part) ==
    /\ b \notin Used /\ b # writing.buffer /\ buffers[b][part] # Other
    /\ buffers' = [buffers EXCEPT ![b][part] = Other]
    /\ UNCHANGED <<headers, writing>> /\ Change

Game ==
    \/ \E s \in Strings, t \in ShortTexts : AssignShort(s, t)
    \/ \E s \in Strings, t \in LongTexts, b \in Buffers : BeginLong(s, t, b)
    \/ EndLong
    \/ \E b \in Buffers, part \in 1 .. 2 : Reuse(b, part)

-----------------------------------------------------------------------------
(* The read.                                                                *)

Fail(error) ==
    outcome' = error /\ UNCHANGED <<pc, field, inner, outer, header, parts, text, name>>

\* decode_header: the length is bounded before the storage is read.
ReadHeader ==
    /\ pc = "header"
    /\ IF headers[field].long THEN Fail("limit")
       ELSE /\ header' = headers[field] /\ parts' = <<>>
            /\ pc' = IF header'.buffer = 0 THEN "again" ELSE "storage"
            /\ UNCHANGED <<field, inner, outer, text, name, outcome>>

ReadStorage ==
    /\ pc = "storage"
    /\ parts' = Append(parts, buffers[header.buffer][Len(parts) + 1])
    /\ pc' = IF Len(parts) = 1 THEN "again" ELSE "storage"
    /\ UNCHANGED <<field, inner, outer, header, text, name, outcome>>

Begin(f, pass) == pc' = "header" /\ field' = f /\ outer' = pass /\ inner' = 1

\* PlayerName::new refuses the empty name; read_player reads twice.
Named(value) ==
    \/ value = 0 /\ Fail("invalid")
    \/ /\ value # 0 /\ outer = 1
       /\ Begin("preferred", 2) /\ name' = value
       /\ UNCHANGED <<header, parts, text, outcome>>
    \/ /\ value # 0 /\ outer = 2
       /\ outcome' = IF value = name THEN "accepted" ELSE "changed"
       /\ UNCHANGED <<pc, field, inner, outer, header, parts, text, name>>

\* Without a preferred name the fallback is read.
NeedsFallback(value) == field = "preferred" /\ value = 0

StringRead(value) ==
    \/ /\ NeedsFallback(value)
       /\ Begin("fallback", outer)
       /\ UNCHANGED <<header, parts, text, name, outcome>>
    \/ ~NeedsFallback(value) /\ Named(value)

Contents ==
    IF header.buffer = 0 THEN header.text
    ELSE IF parts[1] = parts[2] THEN parts[1] ELSE 100 * parts[1] + parts[2]

SameHeader == headers[field] = header

\* The header again, and the end of a pass of read_string.
ReadAgain ==
    /\ pc = "again"
    /\ \/ ~SameHeader /\ Fail("changed")
       \/ /\ SameHeader /\ inner = 1
          /\ inner' = 2 /\ pc' = "header" /\ text' = Contents
          /\ UNCHANGED <<field, outer, header, parts, name, outcome>>
       \/ /\ SameHeader /\ inner = 2
          /\ IF text = Contents THEN StringRead(text) ELSE Fail("changed")

Read ==
    /\ outcome = "reading"
    /\ ReadHeader \/ ReadStorage \/ ReadAgain
    /\ UNCHANGED <<headers, buffers, writing, writes, names>>

Init ==
    /\ headers \in [Strings -> {Inline(t) : t \in ShortTexts} \cup
                               {External(1, t) : t \in LongTexts}]
    /\ headers["fallback"].buffer = 0
    /\ buffers \in [Buffers -> {<<Other, Other>>} \cup {<<t, t>> : t \in LongTexts}]
    /\ \A b \in 2 .. 3 : buffers[b] = <<Other, Other>>
    /\ (headers["preferred"].buffer = 1) = (buffers[1] # <<Other, Other>>)
    /\ headers["preferred"].long = (buffers[1][1] \in TooLong)
    /\ writing = Idle /\ writes = 0
    /\ names = {Shown(headers, buffers)}
    /\ pc = "header" /\ field = "preferred" /\ inner = 1 /\ outer = 1
    /\ header = Inline(0) /\ parts = <<>> /\ text = 0 /\ name = 0
    /\ outcome = "reading"

Next == Game \/ Read

Spec == Init /\ [][Next]_vars

-----------------------------------------------------------------------------
(* Properties.                                                              *)

\* The name published is one the player had during the read: neither a mix of
\* two texts nor what a freed buffer was used for, and the fallback only while
\* there was no preferred name (read_string, read_player).
NameWasTrue == outcome = "accepted" => name \in names
=============================================================================
