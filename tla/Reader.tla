-------------------------------- MODULE Reader --------------------------------
(***************************************************************************)
(* The bounded reader every acquisition goes through (provider-sdk memory: *)
(* reader.rs, pe/headers.rs, the fingerprint of target.rs, the vector headers of *)
(* profile_inventory).  Addresses, offsets and lengths come from the       *)
(* memory of another program, so every sum is checked.                     *)
(*                                                                         *)
(* Widths are scaled down: an address has AddressBits, a relative address  *)
(* and an image size OffsetBits, so that every sum can wrap.               *)
(***************************************************************************)
EXTENDS Integers, FiniteSets

CONSTANTS
    AddressBits,    \* u64
    OffsetBits,     \* u32
    MinAddress, MaxAddress,     \* READ_LIMITS, both inclusive
    ByteBudget, ReadBudget,     \* READ_LIMITS.bytes and .reads
    Lengths,                    \* lengths of reads
    Word,                       \* bytes of a pointer
    RecordBytes,                   \* record_bytes of a native vector
    MinUser,                    \* lowest address of a native vector
    MaxVector,                  \* MAX_VECTOR_BYTES
    DosBytes, MaxHeader         \* the PE header starts in DosBytes .. MaxHeader

ReaderAssumption ==
    /\ AddressBits \in Nat \ {0} /\ OffsetBits \in Nat \ {0}
    /\ MinAddress \in 0 .. 2^AddressBits - 1 /\ MaxAddress \in MinAddress .. 2^AddressBits - 1
    /\ ByteBudget \in Nat /\ ReadBudget \in Nat /\ Lengths \subseteq Nat
    /\ Word \in Nat \ {0} /\ RecordBytes \in Nat \ {0} /\ MaxVector \in Nat
    /\ MinUser \in MinAddress .. MaxAddress
    /\ DosBytes \in Nat /\ MaxHeader \in Nat

VARIABLES
    base, size, \* module_base and image_size of the reader, None before new
    pending,    \* what the last answer is for: a vtable slot, a vector header
    bytes,      \* limits.bytes: what is left
    reads,      \* limits.reads: what is left
    last,       \* the last request and its result
    touched,    \* bytes asked of the backend
    calls       \* reads asked of the backend

vars == <<base, size, pending, bytes, reads, last, touched, calls>>

None == -1
Addresses == 0 .. 2^AddressBits - 1
Offsets == 0 .. 2^OffsetBits - 1

NoPending == [kind |-> "none", at |-> 0]

Nothing == [kind |-> "none", at |-> 0, offset |-> 0, length |-> 0, result |-> "ok", address |-> 0]

-----------------------------------------------------------------------------
(* Checked arithmetic and ranges.                                           *)


\* u64::checked_add
checked_add(a, b) == IF a + b < 2^AddressBits THEN a + b ELSE None

\* The last byte of a range that is not empty.
LastByte(address, length) == checked_add(address, length - 1)

\* ReadLimits::validate_range
validate_range(address, length) ==
    CASE length = 0 -> "ok"
      [] length # 0 /\ address \notin MinAddress .. MaxAddress -> "range"
      [] length # 0 /\ address \in MinAddress .. MaxAddress ->
            IF LastByte(address, length) = None THEN "overflow"
            ELSE IF LastByte(address, length) > MaxAddress THEN "range" ELSE "ok"

\* An address and whether it may be used.
At(address, length) ==
    IF address = None THEN [result |-> "overflow", address |-> 0]
    ELSE [result |-> validate_range(address, length), address |-> address]

\* Mutant: only the start of the span is compared with the image.
module_start(rva, length) ==
    IF rva > size THEN [result |-> "module", address |-> 0]
    ELSE At(checked_add(base, rva), length)

\* TargetReader::module_address: the span lies within the image.
module_address(rva, length) ==
    IF rva + length > size THEN [result |-> "module", address |-> 0]
    ELSE At(checked_add(base, rva), length)

\* TargetReader::object_address
object_address(object, offset, length) == At(checked_add(object, offset), length)

-----------------------------------------------------------------------------
(* Requests.                                                                *)

Request(kind, at, offset, length, target, result) ==
    last' = [kind |-> kind, at |-> at, offset |-> offset, length |-> length,
             result |-> result, address |-> target.address]

Charge(length, answered) == bytes' = bytes - length /\ reads' = reads - 1

Free == UNCHANGED <<bytes, reads, touched, calls>>

\* read_unchecked: both budgets are taken before the backend is asked, neither
\* if one of them is short.
read_unchecked(kind, at, offset, length, target) ==
    \/ length = 0 /\ Request(kind, at, offset, length, target, "ok") /\ Free
    \/ /\ length # 0 /\ (bytes < length \/ reads < 1)
       /\ Request(kind, at, offset, length, target, "budget") /\ Free
    \/ /\ length # 0 /\ bytes >= length /\ reads >= 1
       /\ \E answered \in BOOLEAN :
            /\ Charge(length, answered)
            /\ touched' = touched + length /\ calls' = calls + 1
            /\ Request(kind, at, offset, length, target, IF answered THEN "ok" ELSE "read")

\* A request whose target was resolved, refused where that failed.
Resolved(kind, at, offset, length, target) ==
    \/ target.result = "ok" /\ read_unchecked(kind, at, offset, length, target)
    \/ target.result # "ok" /\ Request(kind, at, offset, length, target, target.result) /\ Free

Idle == base # None /\ pending = NoPending

read_module(rva, length) ==
    /\ Idle /\ Resolved("module", 0, rva, length, module_address(rva, length))
    /\ UNCHANGED <<base, size, pending>>

read_at(address, length) ==
    /\ Idle /\ Resolved("at", address, 0, length, At(address, length))
    /\ UNCHANGED <<base, size, pending>>

read_object(object, offset, length) ==
    /\ Idle /\ Resolved("object", object, offset, length, object_address(object, offset, length))
    /\ UNCHANGED <<base, size, pending>>

\* read_vtable_slot_le64: the vtable pointer first, then its slot.
read_vtable(object, slot) ==
    /\ Idle /\ Resolved("at", object, 0, Word, At(object, Word))
    /\ pending' = IF last'.result = "ok" THEN [kind |-> "slot", at |-> slot] ELSE NoPending
    /\ UNCHANGED <<base, size>>

read_slot(vtable) ==
    /\ pending.kind = "slot"
    /\ Resolved("object", vtable, pending.at, Word, object_address(vtable, pending.at, Word))
    /\ pending' = NoPending
    /\ UNCHANGED <<base, size>>

\* require_module_pointer: no read; the pointer is compared with an address of
\* the image.
require_module_pointer(actual, expected) ==
    LET wanted == module_address(expected, 1) IN
    /\ Idle
    /\ Request("module", actual, expected, 1, [address |-> actual],
               IF wanted.result # "ok" THEN wanted.result
               ELSE IF actual = wanted.address THEN "ok" ELSE "mismatch")
    /\ Free /\ UNCHANGED <<base, size, pending>>

-----------------------------------------------------------------------------
(* Native vectors.                                                          *)

is_user_address(address) == address \in MinUser .. MaxAddress

is_user_range(address, count) ==
    IF count = 0 THEN address = 0 \/ is_user_address(address)
    ELSE /\ is_user_address(address)
         /\ checked_add(address, count - 1) # None
         /\ checked_add(address, count - 1) <= MaxAddress

\* decode_header of profile_inventory
decode_header(pointer, count, capacity) ==
    /\ count <= capacity /\ capacity <= MaxVector
    /\ count % RecordBytes = 0 /\ capacity % RecordBytes = 0
    /\ is_user_range(pointer, capacity)

\* read_vector: the payload of a header that decodes; an empty one is not read.
read_header(pointer, count, capacity) ==
    /\ Idle /\ count # 0
    /\ decode_header(pointer, count, capacity)
    /\ pending' = [kind |-> "payload", at |-> pointer, count |-> count]
    /\ UNCHANGED <<base, size, last>> /\ Free

read_payload ==
    /\ pending.kind = "payload"
    /\ Resolved("payload", pending.at, 0, pending.count, At(pending.at, pending.count))
    /\ pending' = NoPending
    /\ UNCHANGED <<base, size>>

-----------------------------------------------------------------------------
(* The image of the target.                                                 *)

\* Where the PE header lies and how far the image goes; optional is the size of
\* the rest of the header.
read_amd64_headers(b, offset, optional, s) ==
    /\ offset \in DosBytes .. MaxHeader
    /\ checked_add(b, offset) # None
    /\ s # 0 /\ offset + optional < 2^OffsetBits /\ offset + optional <= s
    /\ checked_add(b, s - 1) # None

read_executable_fingerprint(b, s) ==
    /\ \E offset, optional \in Offsets : read_amd64_headers(b, offset, optional, s)
    /\ checked_add(b, s - 1) # None /\ checked_add(b, s - 1) <= MaxAddress

\* TargetReader::new validates the whole image.
New(b, s) ==
    /\ base = None
    /\ read_executable_fingerprint(b, s)
    /\ IF s # 0 /\ validate_range(b, s) = "ok"
       THEN base' = b /\ size' = s /\ last' = last
       ELSE UNCHANGED <<base, size>> /\ Request("image", b, 0, s, [address |-> b], "range")
    /\ UNCHANGED pending /\ Free

Init ==
    /\ base = None /\ size = 0 /\ pending = NoPending
    /\ bytes = ByteBudget /\ reads = ReadBudget
    /\ last = Nothing /\ touched = 0 /\ calls = 0

Next ==
    \/ \E b \in Addresses \ {0}, s \in Offsets : New(b, s)
    \/ \E n \in Lengths :
        \/ \E a \in Addresses : read_at(a, n)
        \/ \E r \in Offsets : read_module(r, n)
        \/ \E a \in Addresses, o \in Offsets : read_object(a, o, n)
    \/ \E a \in Addresses, o \in Offsets : read_vtable(a, o) \/ require_module_pointer(a, o)
    \/ \E a \in Addresses : read_slot(a)
    \/ \E a \in Addresses, n, c \in Offsets : read_header(a, n, c)
    \/ read_payload

Spec == Init /\ [][Next]_vars

-----------------------------------------------------------------------------
(* Properties.                                                              *)

\* The first byte a request means, as a number of any size.
Meant == IF last.kind = "module" THEN base + last.offset ELSE last.at + last.offset

\* The bytes a request may touch: the permitted addresses, and of a module
\* request only those of the image.
Permitted ==
    IF last.kind = "module" THEN base .. base + size - 1 ELSE MinAddress .. MaxAddress

\* What is left of both budgets and what the backend was asked for add up to
\* the budgets: nothing is read for free, nothing refused is paid for
\* (read_unchecked).
BudgetsHold ==
    /\ bytes >= 0 /\ reads >= 0
    /\ bytes + touched = ByteBudget /\ reads + calls = ReadBudget

\* A read that reaches the backend, or a pointer that is accepted, names only
\* bytes it may, and exactly the ones it means: no sum has wrapped into the
\* permitted range (validate_range, module_address, object_address).
ReadsInBounds ==
    last.kind # "none" /\ last.length > 0 /\ last.result \in {"ok", "read"} =>
        /\ last.address = Meant
        /\ Meant .. Meant + last.length - 1 \subseteq Permitted

\* A request is refused as out of range only if it is: the last permitted
\* address and the last byte of the image can be read.
RefusedOutside ==
    last.length > 0 /\ last.result \in {"range", "overflow", "module"} =>
        ~(Meant .. Meant + last.length - 1 \subseteq Permitted)

\* What an earlier check accepted the reader does not refuse: neither the image
\* of a fingerprint nor the payload of a vector header that decodes
\* (read_executable_fingerprint and new, decode_header and read_at).
AcceptedIsReadable ==
    last.kind \in {"image", "payload"} => last.result \in {"ok", "read", "budget"}

\* No sum wraps and no limit is passed, whatever the game's memory holds: every
\* read is within the target's range and its module and within both budgets; a
\* read is refused only for a byte outside its range, and what the provider
\* accepts the reader accepts as well (read_at, read_module, read_object,
\* read_vtable_slot_le64, require_module_pointer, read_vector, new).
WithinLimits == BudgetsHold /\ ReadsInBounds /\ RefusedOutside /\ AcceptedIsReadable
=============================================================================
