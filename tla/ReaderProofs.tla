---------------------------- MODULE ReaderProofs ----------------------------
(***************************************************************************)
(* Proofs about the bounded reader, for every width, range and budget;     *)
(* about the Attachment it reads through, for every reuse of the pid; and  *)
(* about the sessions that read, AccountSession and Visual, for every      *)
(* change of their owners.                                                 *)
(***************************************************************************)
EXTENDS Reader, FiniteSetTheorems, TLAPS

USE DEF None

\* The largest address and what the limits say of it.
LEMMA Limits ==
    ASSUME ReaderAssumption
    PROVE  /\ 2^AddressBits \in Int /\ 2^OffsetBits \in Int
           /\ MinAddress \in Nat /\ MaxAddress \in Nat /\ MinUser \in Nat
           /\ MinAddress <= MaxAddress /\ MaxAddress < 2^AddressBits
           /\ MinAddress <= MinUser
           /\ Addresses \subseteq Nat /\ Offsets \subseteq Nat
<1>1. 2^AddressBits \in Int /\ 2^OffsetBits \in Int BY DEF ReaderAssumption
<1> QED BY <1>1 DEF ReaderAssumption, Addresses, Offsets

\* The bytes of a request lie within the limits.
Within(a, n) == MinAddress <= a /\ a + n - 1 <= MaxAddress

\* validate_range: a span is accepted exactly if no byte of it is outside.
LEMMA RangeExact ==
    ASSUME ReaderAssumption, NEW a \in Nat, NEW n \in Nat, n # 0
    PROVE  /\ validate_range(a, n) \in {"ok", "range", "overflow"}
           /\ validate_range(a, n) = "ok" <=> Within(a, n)
<1>1. CASE a \notin MinAddress .. MaxAddress
  BY <1>1, Limits DEF validate_range, Within
<1>2. CASE a \in MinAddress .. MaxAddress
  <2>1. CASE a + (n - 1) < 2^AddressBits
    <3>1. LastByte(a, n) = a + (n - 1) BY <2>1 DEF LastByte, checked_add
    <3> QED BY <1>2, <2>1, <3>1, Limits DEF validate_range, Within
  <2>2. CASE ~(a + (n - 1) < 2^AddressBits)
    <3>1. LastByte(a, n) = -1 BY <2>2 DEF LastByte, checked_add
    <3> QED BY <1>2, <2>2, <3>1, Limits DEF validate_range, Within
  <2> QED BY <2>1, <2>2
<1> QED BY <1>1, <1>2

\* At on a checked sum: accepted with the sum itself, and exactly if the span that is
\* meant, as a number of any size, is within the limits.
LEMMA AtExact ==
    ASSUME ReaderAssumption, NEW a \in Nat, NEW o \in Nat, NEW n \in Nat, n # 0
    PROVE  LET t == At(checked_add(a, o), n)
           IN  /\ t.result \in {"ok", "range", "overflow"}
               /\ t.result = "ok" <=> Within(a + o, n)
               /\ t.result = "ok" => t.address = a + o
<1>1. CASE a + o < 2^AddressBits
  <2>1. checked_add(a, o) = a + o /\ a + o \in Nat BY <1>1 DEF checked_add
  <2>2. At(checked_add(a, o), n)
          = [result |-> validate_range(a + o, n), address |-> a + o]
    BY <2>1 DEF At
  <2> QED BY <2>1, <2>2, RangeExact
<1>2. CASE ~(a + o < 2^AddressBits)
  <2>1. checked_add(a, o) = -1 BY <1>2 DEF checked_add
  <2>2. At(checked_add(a, o), n) = [result |-> "overflow", address |-> 0] BY <2>1 DEF At
  <2> QED BY <1>2, <2>2, Limits DEF Within
<1> QED BY <1>1, <1>2

\* The same for an address that is one.
LEMMA AddressExact ==
    ASSUME ReaderAssumption, NEW a \in Nat, NEW n \in Nat, n # 0
    PROVE  LET t == At(a, n)
           IN  /\ t.result \in {"ok", "range", "overflow"}
               /\ t.result = "ok" <=> Within(a, n)
               /\ t.address = a
<1>1. At(a, n) = [result |-> validate_range(a, n), address |-> a] BY DEF At
<1> QED BY <1>1, RangeExact

-----------------------------------------------------------------------------
(* The inductive invariant. *)

Kinds == {"none", "image", "module", "at", "object", "payload"}
Refusals == {"range", "overflow", "module"}

\* The first byte that a request of a kind means, and whether its n bytes are permitted.
Start(kind, at, offset) == IF kind = "module" THEN base + offset ELSE at + offset

Inside(kind, a, n) ==
    IF kind = "module" THEN base <= a /\ a + n <= base + size ELSE Within(a, n)

\* The last request was judged rightly: accepted with the bytes it means if all of them
\* are permitted, and refused only if one of them is not.
Judged ==
    /\ last.kind \in Kinds
    /\ last.at \in Nat /\ last.offset \in Nat /\ last.length \in Nat
    /\ last.length # 0 =>
        LET a == Start(last.kind, last.at, last.offset)
        IN  /\ last.kind # "none"
            /\ last.result \in {"ok", "read"} =>
                  last.address = a /\ Inside(last.kind, a, last.length)
            /\ last.result \in Refusals => ~Inside(last.kind, a, last.length)
    /\ last.kind = "payload" => last.result \notin Refusals
    /\ last.kind = "image" => last.result \notin {"ok", "read"} /\ MinAddress > 1
    /\ last.result \in {"ok", "read", "budget", "mismatch"} \cup Refusals
    /\ last.result = "mismatch" => last.kind = "module"

\* A reader that exists has a whole image, and nothing but the image was judged before.
ImageOK ==
    \/ base = None /\ pending = NoPending /\ last.kind \in {"none", "image"}
    \/ base \in Nat /\ size \in Nat /\ size # 0 /\ Within(base, size)

\* A header that decoded waits for a payload within the limits.
PendingOK ==
    \/ pending = NoPending
    \/ pending.kind = "slot" /\ pending.at \in Nat
    \/ /\ pending.kind = "payload" /\ pending.at \in Nat
       /\ pending.count \in Nat /\ pending.count # 0 /\ Within(pending.at, pending.count)

\* Both budgets are what is left of them and what was taken.
Paid ==
    /\ bytes \in Nat /\ reads \in Nat /\ touched \in Nat /\ calls \in Nat
    /\ bytes + touched = ByteBudget /\ reads + calls = ReadBudget

IInv == Judged /\ ImageOK /\ PendingOK /\ Paid

\* It holds before a reader is made.
LEMMA InitInv == ASSUME ReaderAssumption, Init PROVE IInv
  BY DEF ReaderAssumption, Init, IInv, Judged, ImageOK, PendingOK, Paid, Nothing, NoPending,
         Kinds, Refusals

\* What module_address says of a span of the image.
LEMMA ModuleExact ==
    ASSUME ReaderAssumption, base \in Nat, size \in Nat, size # 0, Within(base, size),
           NEW r \in Nat, NEW n \in Nat, n # 0
    PROVE  LET t == module_address(r, n)
           IN  /\ t.result \in {"ok", "module"}
               /\ t.result = "ok" <=> Inside("module", base + r, n)
               /\ t.result = "ok" => t.address = base + r
<1>1. CASE r + n > size
  <2>1. module_address(r, n) = [result |-> "module", address |-> 0]
    BY <1>1 DEF module_address
  <2> QED BY <1>1, <2>1 DEF Inside
<1>2. CASE ~(r + n > size)
  <2>1. module_address(r, n) = At(checked_add(base, r), n) BY <1>2 DEF module_address
  <2>2. Within(base + r, n) BY <1>2, Limits DEF Within
  <2>3. LET t == At(checked_add(base, r), n) IN t.result = "ok" /\ t.address = base + r
    BY <2>2, AtExact
  <2>4. Inside("module", base + r, n) BY <1>2 DEF Inside
  <2> QED BY <2>1, <2>3, <2>4
<1> QED BY <1>1, <1>2

\* A request whose target was resolved exactly is judged rightly and paid for.
LEMMA ResolvedJudged ==
    ASSUME NEW kind \in Kinds \ {"none", "image"}, NEW at \in Nat, NEW offset \in Nat,
           NEW n \in Nat, NEW target, Paid, base' = base, size' = size,
           Resolved(kind, at, offset, n, target),
           target.result \in {"ok"} \cup Refusals,
           kind = "payload" => target.result = "ok",
           n # 0 => LET a == Start(kind, at, offset)
                    IN  /\ target.result = "ok" <=> Inside(kind, a, n)
                        /\ target.result = "ok" => target.address = a
    PROVE  Judged' /\ Paid' /\ last'.kind = kind
<1> DEFINE Sent(r) == last' = [kind |-> kind, at |-> at, offset |-> offset, length |-> n,
                               result |-> r, address |-> target.address]
<1>1. PICK r : Sent(r) /\ Paid' /\ r \in {"ok", "read", "budget"} \cup Refusals
                 /\ (r \in {"ok", "read"} /\ n # 0 => target.result = "ok")
                 /\ (r \in Refusals => target.result = r)
  <2>1. CASE target.result = "ok" /\ read_unchecked(kind, at, offset, n, target)
    <3>1. CASE n = 0 /\ Request(kind, at, offset, n, target, "ok") /\ Free
      BY <2>1, <3>1 DEF Request, Free, Paid, Refusals
    <3>2. CASE /\ n # 0 /\ (bytes < n \/ reads < 1)
               /\ Request(kind, at, offset, n, target, "budget") /\ Free
      BY <2>1, <3>2 DEF Request, Free, Paid, Refusals
    <3>3. ASSUME NEW answered \in BOOLEAN, n # 0, bytes >= n, reads >= 1,
                 Charge(n, answered), touched' = touched + n, calls' = calls + 1,
                 Request(kind, at, offset, n, target, IF answered THEN "ok" ELSE "read")
          PROVE  \E r : Sent(r) /\ Paid' /\ r \in {"ok", "read", "budget"} \cup Refusals
                         /\ (r \in {"ok", "read"} /\ n # 0 => target.result = "ok")
                         /\ (r \in Refusals => target.result = r)
      <4>1. Paid' BY <3>3 DEF Charge, Paid
      <4>2. CASE answered
        <5>1. Sent("ok") BY <3>3, <4>2 DEF Request
        <5> QED BY <2>1, <4>1, <5>1 DEF Refusals
      <4>3. CASE ~answered
        <5>1. Sent("read") BY <3>3, <4>3 DEF Request
        <5> QED BY <2>1, <4>1, <5>1 DEF Refusals
      <4> QED BY <4>2, <4>3
    <3> QED BY <2>1, <3>1, <3>2, <3>3 DEF read_unchecked
  <2>2. CASE /\ target.result # "ok"
             /\ Request(kind, at, offset, n, target, target.result) /\ Free
    BY <2>2 DEF Request, Free, Paid, Refusals
  <2> QED BY <2>1, <2>2 DEF Resolved
<1>2. /\ last'.kind = kind /\ last'.at = at /\ last'.offset = offset /\ last'.length = n
      /\ last'.result = r /\ last'.address = target.address
  BY <1>1
<1>3. \A a : Inside(kind, a, n)' <=> Inside(kind, a, n) BY DEF Inside, Within
<1>4. Start(kind, at, offset)' = Start(kind, at, offset) BY DEF Start
<1> QED BY <1>1, <1>2, <1>3, <1>4 DEF Judged, Kinds, Refusals, Inside, Start, Within

\* A target is usable or refused, a request for no bytes included.
LEMMA TargetTyped ==
    ASSUME ReaderAssumption, NEW a \in Nat, NEW o \in Nat, NEW n \in Nat
    PROVE  /\ At(a, n).result \in {"ok"} \cup Refusals
           /\ At(checked_add(a, o), n).result \in {"ok"} \cup Refusals
<1>1. ASSUME NEW x \in Nat PROVE At(x, n).result \in {"ok"} \cup Refusals
  <2>1. At(x, n) = [result |-> validate_range(x, n), address |-> x] BY DEF At
  <2>2. validate_range(x, n) \in {"ok"} \cup Refusals
    <3>1. CASE n = 0 BY <3>1 DEF validate_range
    <3>2. CASE n # 0 BY <3>2, RangeExact DEF Refusals
    <3> QED BY <3>1, <3>2
  <2> QED BY <2>1, <2>2
<1>2. checked_add(a, o) = -1 \/ checked_add(a, o) \in Nat BY DEF checked_add
<1>3. At(-1, n).result = "overflow" BY DEF At
<1> QED BY <1>1, <1>2, <1>3 DEF Refusals

\* A reader that exists keeps its image.
LEMMA IdleKept ==
    ASSUME ImageOK, base # None, UNCHANGED <<base, size>>
    PROVE  ImageOK'
  BY DEF ImageOK, Within

\* What waits for its second read goes on waiting.
LEMMA PendingKept ==
    ASSUME PendingOK, UNCHANGED pending
    PROVE  PendingOK'
  BY DEF PendingOK, Within

\* read_at, and the first read of read_vtable_slot_le64.
LEMMA ReadAtInv ==
    ASSUME ReaderAssumption, IInv, NEW a \in Addresses, NEW n \in Nat, base # None,
           UNCHANGED <<base, size>>, Resolved("at", a, 0, n, At(a, n))
    PROVE  Judged' /\ Paid' /\ ImageOK'
<1>1. a \in Nat BY Limits
<1>2. n # 0 => LET t == At(a, n) IN /\ t.result = "ok" <=> Inside("at", Start("at", a, 0), n)
                                    /\ t.result = "ok" => t.address = Start("at", a, 0)
  BY <1>1, AddressExact DEF Inside, Start
<1>3. At(a, n).result \in {"ok"} \cup Refusals BY <1>1, TargetTyped
<1> HIDE DEF None
<1>4. Judged' /\ Paid' BY <1>1, <1>2, <1>3, ResolvedJudged DEF Kinds, IInv
<1> QED BY <1>4, IdleKept DEF IInv

\* read_object, and the second read of read_vtable_slot_le64.
LEMMA ReadObjectInv ==
    ASSUME ReaderAssumption, IInv, NEW a \in Addresses, NEW o \in Nat, NEW n \in Nat,
           base # None, UNCHANGED <<base, size>>,
           Resolved("object", a, o, n, object_address(a, o, n))
    PROVE  Judged' /\ Paid' /\ ImageOK'
<1>1. a \in Nat BY Limits
<1>2. n # 0 => LET t == object_address(a, o, n)
               IN  /\ t.result = "ok" <=> Inside("object", Start("object", a, o), n)
                   /\ t.result = "ok" => t.address = Start("object", a, o)
  BY <1>1, AtExact DEF Inside, Start, object_address
<1>3. object_address(a, o, n).result \in {"ok"} \cup Refusals
  BY <1>1, TargetTyped DEF object_address
<1>4. Judged' /\ Paid' BY <1>1, <1>2, <1>3, ResolvedJudged DEF Kinds, IInv
<1> QED BY <1>4, IdleKept DEF IInv

\* Every action keeps the invariant.
LEMMA NextInv == ASSUME ReaderAssumption, IInv, [Next]_vars PROVE IInv'
<1>1. CASE UNCHANGED vars
  BY <1>1 DEF vars, IInv, Judged, ImageOK, PendingOK, Paid, Start, Inside, Within
<1>2. ASSUME NEW b \in Addresses \ {0}, NEW s \in Offsets, New(b, s) PROVE IInv'
  <2>1. base = None /\ pending = NoPending /\ last.kind \in {"none", "image"}
    BY <1>2 DEF New, IInv, ImageOK
  <2>2. s # 0 /\ b \in Nat /\ s \in Nat /\ b # 0
    BY <1>2, Limits DEF New, read_executable_fingerprint, read_amd64_headers
  <2>3. PendingOK' /\ Paid'
    BY <1>2 DEF New, Free, IInv, PendingOK, Paid, Within
  <2>4. CASE validate_range(b, s) = "ok"
    <3>1. base' = b /\ size' = s /\ last' = last BY <1>2, <2>2, <2>4 DEF New
    <3>2. Within(b, s) BY <2>2, <2>4, RangeExact
    <3>3. ImageOK' BY <2>2, <3>1, <3>2 DEF ImageOK, Within
    <3>4. Judged' BY <2>1, <3>1 DEF IInv, Judged, Start, Inside, Within
    <3> QED BY <2>3, <3>3, <3>4 DEF IInv
  <2>5. CASE validate_range(b, s) # "ok"
    <3>1. /\ base' = base /\ size' = size /\ pending' = pending
          /\ last' = [kind |-> "image", at |-> b, offset |-> 0, length |-> s,
                      result |-> "range", address |-> b]
      BY <1>2, <2>5 DEF New, Request
    <3>2. ~Within(b, s) BY <2>2, <2>5, RangeExact
    <3>3. b + s - 1 <= MaxAddress
      BY <1>2, <2>2 DEF New, read_executable_fingerprint, checked_add
    <3>4. MinAddress > 1 BY <2>2, <3>2, <3>3, Limits DEF Within
    <3>5. ImageOK' BY <2>1, <3>1 DEF ImageOK
    <3>6. Judged' BY <2>2, <3>1, <3>2, <3>4 DEF Judged, Kinds, Refusals, Start, Inside, Within
    <3> QED BY <2>3, <3>5, <3>6 DEF IInv
  <2> QED BY <2>4, <2>5
<1>3. ASSUME NEW n \in Lengths, NEW a \in Addresses, read_at(a, n) PROVE IInv'
  <2>1. n \in Nat BY DEF ReaderAssumption
  <2> QED BY <1>3, <2>1, ReadAtInv, PendingKept DEF read_at, Idle, IInv
<1>4. ASSUME NEW n \in Lengths, NEW r \in Offsets, read_module(r, n) PROVE IInv'
  <2>1. n \in Nat /\ r \in Nat BY Limits DEF ReaderAssumption
  <2>2. base \in Nat /\ size \in Nat /\ size # 0 /\ Within(base, size)
    BY <1>4 DEF read_module, Idle, IInv, ImageOK
  <2>3. n # 0 => LET t == module_address(r, n)
                 IN  /\ t.result = "ok" <=> Inside("module", Start("module", 0, r), n)
                     /\ t.result = "ok" => t.address = Start("module", 0, r)
    BY <2>1, <2>2, ModuleExact DEF Start
  <2>4. module_address(r, n).result \in {"ok"} \cup Refusals
    BY <2>1, <2>2, TargetTyped DEF module_address, Refusals
  <2>5. Judged' /\ Paid'
    BY <1>4, <2>1, <2>3, <2>4, ResolvedJudged DEF read_module, Kinds, IInv
  <2> QED BY <1>4, <2>5, IdleKept, PendingKept DEF read_module, Idle, IInv
<1>5. ASSUME NEW n \in Lengths, NEW a \in Addresses, NEW o \in Offsets, read_object(a, o, n)
      PROVE  IInv'
  <2>1. n \in Nat /\ o \in Nat BY Limits DEF ReaderAssumption
  <2> QED BY <1>5, <2>1, ReadObjectInv, PendingKept DEF read_object, Idle, IInv
<1>6. ASSUME NEW a \in Addresses, NEW o \in Offsets, read_vtable(a, o) PROVE IInv'
  <2>1. Word \in Nat /\ o \in Nat BY Limits DEF ReaderAssumption
  <2>2. pending' = [kind |-> "slot", at |-> o] \/ pending' = NoPending
    BY <1>6 DEF read_vtable
  <2>3. PendingOK' BY <2>1, <2>2 DEF PendingOK, NoPending
  <2> QED BY <1>6, <2>1, <2>3, ReadAtInv DEF read_vtable, Idle, IInv
<1>7. ASSUME NEW a \in Addresses, NEW o \in Offsets, require_module_pointer(a, o) PROVE IInv'
  <2> DEFINE t == module_address(o, 1)
             r == IF t.result # "ok" THEN t.result
                  ELSE IF a = t.address THEN "ok" ELSE "mismatch"
  <2>1. a \in Nat /\ o \in Nat BY Limits
  <2>2. base \in Nat /\ size \in Nat /\ size # 0 /\ Within(base, size)
    BY <1>7 DEF require_module_pointer, Idle, IInv, ImageOK
  <2>3. /\ t.result \in {"ok", "module"}
        /\ t.result = "ok" <=> Inside("module", base + o, 1)
        /\ t.result = "ok" => t.address = base + o
    BY <2>1, <2>2, ModuleExact
  <2>4. /\ UNCHANGED <<base, size, pending>> /\ Free
        /\ last' = [kind |-> "module", at |-> a, offset |-> o, length |-> 1,
                    result |-> r, address |-> a]
    BY <1>7 DEF require_module_pointer, Request
  <2>5. /\ r \in {"ok", "module", "mismatch"}
        /\ r = "ok" => a = base + o /\ Inside("module", base + o, 1)
        /\ r = "module" => ~Inside("module", base + o, 1)
    BY <2>3
  <2> HIDE DEF t, r
  <2>6. Judged'
    BY <2>1, <2>4, <2>5 DEF Judged, Kinds, Refusals, Start, Inside, Within
  <2>7. Paid' BY <2>4 DEF Free, Paid, IInv
  <2> QED BY <1>7, <2>4, <2>6, <2>7, IdleKept, PendingKept
          DEF require_module_pointer, Idle, IInv
<1>8. ASSUME NEW a \in Addresses, read_slot(a) PROVE IInv'
  <2>1. pending.kind = "slot" /\ pending # NoPending BY <1>8 DEF read_slot, NoPending
  <2>2. base # None /\ pending.at \in Nat
    BY <2>1 DEF IInv, ImageOK, PendingOK
  <2>3. Word \in Nat BY DEF ReaderAssumption
  <2>4. PendingOK' BY <1>8 DEF read_slot, PendingOK
  <2> QED BY <1>8, <2>2, <2>3, <2>4, ReadObjectInv DEF read_slot, IInv
<1>9. ASSUME NEW a \in Addresses, NEW n \in Offsets, NEW c \in Offsets, read_header(a, n, c)
      PROVE  IInv'
  <2>1. a \in Nat /\ n \in Nat /\ c \in Nat /\ n # 0 /\ n <= c
    BY <1>9, Limits DEF read_header, decode_header
  <2>2. Within(a, n)
    <3>1. is_user_range(a, c) BY <1>9 DEF read_header, decode_header
    <3>2. MinUser <= a /\ a + (c - 1) <= MaxAddress
      BY <2>1, <3>1, Limits DEF is_user_range, is_user_address, checked_add
    <3> QED BY <2>1, <3>2, Limits DEF Within
  <2>3. pending' = [kind |-> "payload", at |-> a, count |-> n] BY <1>9 DEF read_header
  <2>4. PendingOK' BY <2>1, <2>2, <2>3 DEF PendingOK, Within
  <2>5. UNCHANGED <<base, size, last>> /\ Free /\ base # None BY <1>9 DEF read_header, Idle
  <2>6. Judged' /\ Paid' BY <2>5 DEF IInv, Judged, Paid, Free, Start, Inside, Within
  <2> QED BY <2>4, <2>5, <2>6, IdleKept DEF IInv
<1>10. CASE read_payload
  <2> DEFINE a == pending.at
             n == pending.count
  <2>1. /\ base # None /\ a \in Nat /\ n \in Nat /\ n # 0 /\ Within(a, n)
    BY <1>10 DEF read_payload, IInv, ImageOK, PendingOK, NoPending
  <2>2. At(a, n).result = "ok" /\ At(a, n).address = a BY <2>1, AddressExact
  <2>3. Resolved("payload", a, 0, n, At(a, n)) /\ UNCHANGED <<base, size>> /\ pending' = NoPending
    BY <1>10 DEF read_payload
  <2> HIDE DEF a, n
  <2>4. Start("payload", a, 0) = a /\ Inside("payload", a, n) BY <2>1 DEF Start, Inside
  <2>5. Judged' /\ Paid'
    BY <2>1, <2>2, <2>3, <2>4, ResolvedJudged DEF Kinds, IInv
  <2>6. PendingOK' BY <2>3 DEF PendingOK
  <2> QED BY <2>1, <2>3, <2>5, <2>6, IdleKept DEF IInv
<1> QED BY <1>1, <1>2, <1>3, <1>4, <1>5, <1>6, <1>7, <1>8, <1>9, <1>10 DEF Next

-----------------------------------------------------------------------------
(* Theorems. *)

\* The invariant holds in every state.
LEMMA SpecInv == ASSUME ReaderAssumption PROVE Spec => []IInv
  BY InitInv, NextInv, PTL DEF Spec

\* A span of bytes is within a range exactly if its ends are.
LEMMA SpanInside ==
    ASSUME NEW a \in Int, NEW n \in Nat, n # 0, NEW l \in Int, NEW h \in Int
    PROVE  (a .. a + n - 1) \subseteq (l .. h) <=> (l <= a /\ a + n - 1 <= h)
<1>1. a \in a .. a + n - 1 /\ a + n - 1 \in a .. a + n - 1 OBVIOUS
<1>2. ASSUME a .. a + n - 1 \subseteq l .. h PROVE l <= a /\ a + n - 1 <= h BY <1>1, <1>2
<1>3. ASSUME l <= a, a + n - 1 <= h, NEW x \in a .. a + n - 1 PROVE x \in l .. h BY <1>3
<1> QED BY <1>2, <1>3

\* The bytes a request means are permitted exactly if it lies inside.
LEMMA PermittedIsInside ==
    ASSUME ReaderAssumption, IInv, last.length # 0, last.kind # "none"
    PROVE  /\ Meant = Start(last.kind, last.at, last.offset)
           /\ Meant .. Meant + last.length - 1 \subseteq Permitted
                <=> Inside(last.kind, Meant, last.length)
<1>1. last.at \in Nat /\ last.offset \in Nat /\ last.length \in Nat BY DEF IInv, Judged
<1>2. Meant = Start(last.kind, last.at, last.offset) BY DEF Meant, Start
<1>3. CASE last.kind = "module"
  <2>1. base \in Nat /\ size \in Nat BY <1>3 DEF IInv, ImageOK
  <2>2. Meant \in Int /\ Permitted = base .. base + size - 1
    BY <1>1, <1>3, <2>1 DEF Meant, Permitted
  <2>3. Meant .. Meant + last.length - 1 \subseteq base .. base + size - 1
          <=> base <= Meant /\ Meant + last.length - 1 <= base + size - 1
    <3> DEFINE h == base + size - 1
    <3>1. h \in Int /\ base \in Int BY <2>1
    <3> HIDE DEF h
    <3>2. (Meant .. Meant + last.length - 1) \subseteq (base .. h)
            <=> base <= Meant /\ Meant + last.length - 1 <= h
      BY <1>1, <2>1, <2>2, <3>1, SpanInside, ZenonT(20)
    <3> QED BY <3>2 DEF h
  <2> QED BY <1>1, <1>2, <1>3, <2>1, <2>2, <2>3 DEF Inside
<1>4. CASE last.kind # "module"
  <2>1. Meant \in Int /\ Permitted = MinAddress .. MaxAddress
    BY <1>1, <1>4 DEF Meant, Permitted
  <2>2. MinAddress \in Int /\ MaxAddress \in Int BY Limits
  <2>3. Meant .. Meant + last.length - 1 \subseteq MinAddress .. MaxAddress
          <=> MinAddress <= Meant /\ Meant + last.length - 1 <= MaxAddress
    BY <1>1, <2>1, <2>2, SpanInside, ZenonT(20)
  <2> QED BY <1>1, <1>2, <1>4, <2>1, <2>3 DEF Inside, Within
<1> QED BY <1>3, <1>4

\* read_unchecked: whatever was asked for, both budgets are exactly what is left of
\* them and what the backend was asked for, and neither is overdrawn.
THEOREM ReadsArePaid == ASSUME ReaderAssumption PROVE Spec => []BudgetsHold
<1>1. IInv => BudgetsHold BY DEF IInv, Paid, BudgetsHold
<1> QED BY <1>1, SpecInv, PTL

\* validate_range, module_address, object_address: no sum of numbers from another
\* program's memory wraps into what may be read, for every width of them.
THEOREM ReadsStayInside == ASSUME ReaderAssumption PROVE Spec => []ReadsInBounds
<1>1. ASSUME IInv PROVE ReadsInBounds
  BY <1>1, PermittedIsInside DEF IInv, Judged, ReadsInBounds
<1> QED BY <1>1, SpecInv, PTL

\* The same checks refuse nothing that may be read, the last permitted byte included.
THEOREM RefusalsAreExact == ASSUME ReaderAssumption PROVE Spec => []RefusedOutside
<1>1. ASSUME IInv PROVE RefusedOutside
  <2>1. last.result \in Refusals /\ last.length # 0 => last.kind # "none"
    BY <1>1 DEF IInv, Judged
  <2> QED BY <1>1, <2>1, PermittedIsInside DEF IInv, Judged, RefusedOutside, Refusals
<1> QED BY <1>1, SpecInv, PTL

\* With the limits of READ_LIMITS, which exclude no address but 0, neither the image of
\* a fingerprint nor the payload of a decoded vector header is refused as out of range.
THEOREM AcceptedStaysReadable ==
    ASSUME ReaderAssumption, MinAddress <= 1
    PROVE  Spec => []AcceptedIsReadable
<1>1. ASSUME IInv PROVE AcceptedIsReadable
  <2>1. last.kind # "image"
    <3>1. last.kind = "image" => MinAddress > 1 BY <1>1 DEF IInv, Judged
    <3> QED BY <3>1, Limits
  <2> QED BY <1>1, <2>1 DEF IInv, Judged, AcceptedIsReadable, Refusals
<1> QED BY <1>1, SpecInv, PTL

\* The reader as a whole: with limits that exclude no address but 0, every request is
\* paid for, is of permitted bytes alone, and is refused only where it has to be.
THEOREM LimitsHold ==
    ASSUME ReaderAssumption, MinAddress <= 1
    PROVE  Spec => []WithinLimits
<1>1. BudgetsHold /\ ReadsInBounds /\ RefusedOutside /\ AcceptedIsReadable => WithinLimits
  BY DEF WithinLimits
<1> QED
  BY <1>1, ReadsArePaid, ReadsStayInside, RefusalsAreExact, AcceptedStaysReadable, PTL

-----------------------------------------------------------------------------
(* The attachment to a process, for every number of processes that ever     *)
(* have the pid and every number of reads of an acquisition.  A pid that is *)
(* reused is told apart by its marker, which only grows: a marker that is   *)
(* found twice was there all the time between.                              *)

CONSTANTS MaxProcesses, Reads
VARIABLES process, started, pc, target, ok, seen, memory, done, games, result

Attach == INSTANCE Attachment

\* Where an attachment is: not begun, before its memory is open, and after.
Discovering == {"enumerate", "identify"}
Attaching == {"attach", "info", "recheck", "open", "before_modules", "modules"}
Opened == {"verify", "probe", "after_probe", "verified", "reading"}
Places == Discovering \cup Attaching \cup {"after_modules", "open_memory"} \cup Opened

\* What has the pid is the last process that was started.
LastHasPid ==
    /\ process.marker = 0 <=> process.state = "absent"
    /\ process.marker # 0 => process.marker = started
    /\ process.game => process.marker \in games

\* The memory that is open belongs to the target or to a later process.
NotBefore ==
    /\ pc \notin Discovering => target # 0
    /\ pc \in Opened => memory # 0
    /\ memory # 0 => memory >= target /\ pc \in Opened
    /\ done > 0 => pc \in Opened

\* What is found between two checks of the identity is true of the target once the
\* second has succeeded: first that it is the game, then that its memory is open.
Checks ==
    /\ pc = "after_modules" /\ ok => \E m \in games : m >= target
    /\ pc \in Opened \cup {"open_memory"} => target \in games
    /\ pc \in Opened /\ (pc # "verify" \/ done > 0) => memory = target

\* The conjuncts of Attach!TypeOK, by what they are about.
ProcessOK ==
    process \in [marker : 0 .. MaxProcesses, game : BOOLEAN,
                 state : {"absent", "running", "zombie"}]
NumbersOK ==
    /\ started \in 0 .. MaxProcesses /\ games \subseteq 1 .. started
    /\ target \in 0 .. started /\ memory \in 0 .. started /\ seen \in 0 .. started
    /\ done \in 0 .. Reads
    /\ pc = "enumerate" => target = 0 /\ memory = 0 /\ done = 0
    /\ pc = "reading" => done < Reads

LEMMA AttachTypes == Attach!TypeOK <=> ProcessOK /\ NumbersOK /\ ok \in BOOLEAN
BY Zenon DEF Attach!TypeOK, ProcessOK, NumbersOK

\* A target that still runs when an operation on it is over ran while it was made.
SeenRunning ==
    pc \in {"after_modules", "after_probe"} /\ Attach!is_current => seen = target

AttachInv ==
    /\ ProcessOK /\ NumbersOK /\ ok \in BOOLEAN /\ pc \in Places
    /\ LastHasPid /\ NotBefore /\ Checks /\ SeenRunning

\* The initial state is one of the invariant.
LEMMA AttachInit == ASSUME Attach!AttachmentAssumption PROVE Attach!Init => AttachInv
<1> SUFFICES ASSUME Attach!Init PROVE AttachInv OBVIOUS
<1> USE DEF Attach!Init, Attach!Nobody
<1>1. ProcessOK /\ NumbersOK BY DEF ProcessOK, NumbersOK, Attach!AttachmentAssumption
<1>2. pc \in Places BY DEF Places, Discovering
<1>3. LastHasPid BY DEF LastHasPid
<1>4. NotBefore /\ Checks /\ SeenRunning
  BY DEF NotBefore, Checks, SeenRunning, Discovering, Opened
<1> QED BY <1>1, <1>2, <1>3, <1>4 DEF AttachInv

\* What the operating system does leaves the attachment alone: markers grow.
LEMMA SystemInv ==
    ASSUME Attach!AttachmentAssumption, AttachInv, Attach!OS
    PROVE  AttachInv'
<1> USE DEF Attach!AttachmentAssumption, AttachInv, ProcessOK, NumbersOK, LastHasPid
<1> UNCHANGED <<pc, target, ok, seen, memory, done, result>>
  BY DEF Attach!OS, Attach!StartProcess, Attach!ExitProcess, Attach!Reap
<1>1. ASSUME NEW game \in BOOLEAN, Attach!StartProcess(game) PROVE AttachInv'
  <2>1. /\ started' = started + 1 /\ started < MaxProcesses
        /\ process' = [marker |-> started + 1, game |-> game, state |-> "running"]
        /\ games' = IF game THEN games \cup {started + 1} ELSE games
    BY <1>1 DEF Attach!StartProcess
  <2>2. ProcessOK' /\ NumbersOK' BY <2>1
  <2>3. LastHasPid' BY <2>1
  <2>4. NotBefore' /\ Checks' BY <2>1 DEF NotBefore, Checks
  <2>5. SeenRunning' BY <2>1 DEF SeenRunning, Attach!is_current, Attach!StartMarker
  <2> QED BY <2>2, <2>3, <2>4, <2>5
<1>2. CASE Attach!ExitProcess \/ Attach!Reap
  <2>1. /\ started' = started /\ games' = games
        /\ \/ process.state = "running" /\ process' = [process EXCEPT !.state = "zombie"]
           \/ process' = [marker |-> 0, game |-> FALSE, state |-> "absent"]
    BY <1>2 DEF Attach!ExitProcess, Attach!Reap, Attach!Nobody
  <2>2. ProcessOK'
    <3>1. [process EXCEPT !.state = "zombie"]
            \in [marker : 0 .. MaxProcesses, game : BOOLEAN,
                 state : {"absent", "running", "zombie"}]
      OBVIOUS
    <3>2. [marker |-> 0, game |-> FALSE, state |-> "absent"]
            \in [marker : 0 .. MaxProcesses, game : BOOLEAN,
                 state : {"absent", "running", "zombie"}]
      OBVIOUS
    <3> QED BY <2>1, <3>1, <3>2
  <2>5. NumbersOK' BY <2>1
  <2>3. LastHasPid' BY <2>1
  <2>4. NotBefore' /\ Checks' BY <2>1 DEF NotBefore, Checks
  <2>6. SeenRunning'
    BY <2>1 DEF SeenRunning, NotBefore, Discovering, Attach!is_current, Attach!StartMarker
  <2> QED BY <2>2, <2>3, <2>4, <2>5, <2>6
<1> QED BY <1>1, <1>2 DEF Attach!OS

\* An error leaves nothing of the attachment.
LEMMA FailInv ==
    ASSUME Attach!AttachmentAssumption, AttachInv, NEW error, Attach!Fail(error)
    PROVE  AttachInv'
<1> USE DEF Attach!Fail
<1>1. ProcessOK' /\ NumbersOK'
  BY DEF AttachInv, ProcessOK, NumbersOK, Attach!AttachmentAssumption
<1>2. pc' \in Places BY DEF Places, Discovering
<1>3. LastHasPid' BY DEF AttachInv, LastHasPid
<1>4. NotBefore' /\ Checks' /\ SeenRunning'
  BY DEF NotBefore, Checks, SeenRunning, Discovering, Opened
<1> QED BY <1>1, <1>2, <1>3, <1>4 DEF AttachInv

\* A process that is still the target is the last one that was started.
LEMMA CurrentIsLast ==
    ASSUME AttachInv, pc \notin Discovering, Attach!is_current
    PROVE  target = started /\ process.marker = target
BY DEF AttachInv, LastHasPid, NotBefore, Attach!is_current, Attach!StartMarker

\* A step that only moves the attachment from one place to the next before its memory
\* is open, where nothing is known of the target yet.
LEMMA GoInv ==
    ASSUME AttachInv, pc \in {"attach", "info", "recheck", "open", "before_modules"},
           NEW next \in Attaching \ {"attach"}, Attach!Go(next)
    PROVE  AttachInv'
<1> USE DEF AttachInv, Attach!Go
<1>1. ProcessOK' BY DEF ProcessOK
<1>2. NumbersOK' BY DEF NumbersOK, Attaching
<1>3. pc' \in Places /\ LastHasPid' BY DEF Places, LastHasPid
<1>4. memory = 0 /\ done = 0 /\ target # 0
  BY DEF NotBefore, NumbersOK, Opened, Discovering
<1>5. NotBefore' /\ Checks' /\ SeenRunning'
  BY <1>4 DEF NotBefore, Checks, SeenRunning, Attaching, Opened, Discovering
<1> QED BY <1>1, <1>2, <1>3, <1>5

\* Discovery: the target is what has the pid when its identity is asked for.
LEMMA DiscoverInv ==
    ASSUME Attach!AttachmentAssumption, AttachInv, Attach!Enumerate \/ Attach!Identify
    PROVE  AttachInv'
<1> USE DEF AttachInv
<1>1. CASE Attach!Enumerate
  <2>1. CASE Attach!Fail("Discovery") BY <2>1, FailInv
  <2>2. CASE Attach!Go("identify")
    <3>1. /\ pc = "enumerate" /\ pc' = "identify"
          /\ UNCHANGED <<process, started, games, target, ok, seen, memory, done, result>>
      BY <1>1, <2>2 DEF Attach!Enumerate, Attach!Go
    <3>2. ProcessOK' BY <3>1 DEF ProcessOK
    <3>3. NumbersOK' /\ pc' \in Places /\ LastHasPid'
      BY <3>1 DEF NumbersOK, Places, Discovering, LastHasPid
    <3>4. NotBefore' /\ Checks' /\ SeenRunning'
      BY <3>1 DEF NumbersOK, NotBefore, Checks, SeenRunning, Opened, Discovering
    <3> QED BY <3>1, <3>2, <3>3, <3>4
  <2> QED BY <1>1, <2>1, <2>2 DEF Attach!Enumerate
<1>2. CASE Attach!Identify
  <2>1. CASE Attach!StartMarker = 0
    BY <1>2, <2>1, FailInv DEF Attach!Identify
  <2>2. CASE Attach!StartMarker # 0
    <3>1. /\ target' = process.marker /\ process.marker # 0 /\ pc' = "attach"
          /\ pc = "identify"
          /\ UNCHANGED <<process, started, games, ok, seen, memory, done, result>>
      BY <1>2, <2>2 DEF Attach!Identify, Attach!StartMarker
    <3>2. ProcessOK' BY <3>1 DEF ProcessOK
    <3>3. process.marker = started BY <3>1 DEF LastHasPid
    <3>4. NumbersOK' /\ pc' \in Places /\ LastHasPid'
      BY <3>1, <3>3 DEF NumbersOK, Places, Attaching, LastHasPid
    <3>5. memory = 0 /\ done = 0 BY <3>1 DEF NumbersOK, NotBefore, Opened
    <3>6. NotBefore' /\ Checks' /\ SeenRunning'
      BY <3>1, <3>5 DEF NotBefore, Checks, SeenRunning, Opened, Discovering
    <3> QED BY <3>1, <3>2, <3>4, <3>6
  <2> QED BY <2>1, <2>2
<1> QED BY <1>1, <1>2

\* attach up to the module list: each check passes on or ends the attachment.
LEMMA PrepareInv ==
    ASSUME Attach!AttachmentAssumption, AttachInv,
           \/ Attach!EnsureCurrent("attach", "info") \/ Attach!ProcessInfo
           \/ Attach!EnsureCurrent("recheck", "open") \/ Attach!OpenProcess
           \/ Attach!EnsureCurrent("before_modules", "modules")
    PROVE  AttachInv'
<1>1. ASSUME NEW error, Attach!Fail(error) PROVE AttachInv' BY <1>1, FailInv
<1>2. \/ \E error : Attach!Fail(error)
      \/ /\ pc \in {"attach", "info", "recheck", "open", "before_modules"}
         /\ \E next \in Attaching \ {"attach"} : Attach!Go(next)
  BY DEF Attach!EnsureCurrent, Attach!ProcessInfo, Attach!OpenProcess, Attaching
<1> QED BY <1>1, <1>2, GoInv

\* The marker of what runs under the pid is one of a process that was started.
LEMMA MarkerOK == ASSUME AttachInv PROVE Attach!StartMarker \in 0 .. started
BY DEF AttachInv, ProcessOK, NumbersOK, LastHasPid, Attach!StartMarker

\* The modules of whatever has the pid: a game that is found is the target or later.
LEMMA LookUpInv ==
    ASSUME AttachInv, Attach!LookUpModule
    PROVE  AttachInv'
<1> USE DEF AttachInv
<1>1. /\ pc = "modules" /\ pc' = "after_modules"
      /\ seen' = Attach!StartMarker
      /\ UNCHANGED <<process, started, games, target, memory, done, result>>
  BY DEF Attach!LookUpModule, Attach!Attempt
<1>2. ProcessOK' BY <1>1 DEF ProcessOK
<1>3. NumbersOK' /\ pc' \in Places /\ LastHasPid'
  BY <1>1, MarkerOK DEF NumbersOK, Places, LastHasPid
<1>4. ok' \in BOOLEAN /\ (ok' => process.game /\ process.state = "running")
  BY Zenon DEF Attach!LookUpModule, Attach!Attempt, ProcessOK
<1>5. NotBefore' BY <1>1 DEF NotBefore, Opened, Discovering
<1>6. ASSUME ok' PROVE \E m \in games : m >= target
  <2>1. process.game /\ process.state = "running" BY <1>4, <1>6
  <2>2. process.marker \in games /\ process.marker = started BY <2>1 DEF LastHasPid
  <2> QED BY <2>2 DEF NumbersOK
<1>7. Checks' BY <1>1, <1>6 DEF Checks, Opened
<1>8. SeenRunning' BY <1>1 DEF SeenRunning, Attach!is_current, Attach!StartMarker
<1> QED BY <1>2, <1>3, <1>4, <1>5, <1>7, <1>8

\* The second check: the target is the last process, so the game that was found is it.
LEMMA FoundInv ==
    ASSUME Attach!AttachmentAssumption, AttachInv,
           Attach!Conclude("after_modules", "open_memory", Attach!ModuleErrors)
    PROVE  AttachInv'
<1>1. CASE ~(Attach!is_current /\ ok)
  BY <1>1, FailInv DEF Attach!Conclude
<1>2. CASE Attach!is_current /\ ok
  <2> USE DEF AttachInv
  <2>1. /\ pc = "after_modules" /\ pc' = "open_memory"
        /\ UNCHANGED <<process, started, games, target, ok, seen, memory, done, result>>
    BY <1>2 DEF Attach!Conclude, Attach!Go
  <2>2. target = started BY <1>2, <2>1, CurrentIsLast DEF Discovering
  <2>3. PICK m \in games : m >= target BY <1>2, <2>1 DEF Checks
  <2>4. target \in games
    <3>1. m \in 1 .. started /\ started \in Nat BY DEF NumbersOK
    <3> QED BY <2>2, <2>3, <3>1
  <2>5. ProcessOK' BY <2>1 DEF ProcessOK
  <2>6. NumbersOK' /\ pc' \in Places /\ LastHasPid'
    BY <2>1 DEF NumbersOK, Places, LastHasPid
  <2>7. NotBefore' BY <2>1 DEF NotBefore, Opened, Discovering
  <2>8. Checks' /\ SeenRunning' BY <2>1, <2>4 DEF Checks, SeenRunning, Opened
  <2> QED BY <2>1, <2>5, <2>6, <2>7, <2>8
<1> QED BY <1>1, <1>2

\* The memory of whatever has the pid: not of a process before the target.
LEMMA OpenInv ==
    ASSUME Attach!AttachmentAssumption, AttachInv, Attach!OpenMemory
    PROVE  AttachInv'
<1>1. CASE Attach!Fail("Open") BY <1>1, FailInv
<1>2. CASE /\ process.state = "running"
           /\ memory' = process.marker /\ pc' = "verify"
           /\ UNCHANGED <<process, started, games, target, ok, seen, done, result>>
  <2> USE DEF AttachInv
  <2>1. pc = "open_memory" BY DEF Attach!OpenMemory
  <2>2. process.marker # 0 /\ process.marker = started BY <1>2 DEF LastHasPid
  <2>3. done = 0 BY <2>1 DEF NotBefore, NumbersOK, Opened
  <2>4. ProcessOK' BY <1>2 DEF ProcessOK
  <2>5. NumbersOK' /\ pc' \in Places /\ LastHasPid'
    BY <1>2, <2>2 DEF NumbersOK, Places, LastHasPid, Opened
  <2>6. NotBefore' BY <1>2, <2>1, <2>2, <2>3 DEF NotBefore, Opened, Discovering, NumbersOK
  <2>7. Checks' /\ SeenRunning' BY <1>2, <2>1, <2>3 DEF Checks, SeenRunning, Opened
  <2> QED BY <1>2, <2>4, <2>5, <2>6, <2>7
<1> QED BY <1>1, <1>2 DEF Attach!OpenMemory

\* verify: what is current now was so when the memory was opened.
LEMMA VerifyInv ==
    ASSUME Attach!AttachmentAssumption, AttachInv, Attach!EnsureCurrent("verify", "probe")
    PROVE  AttachInv'
<1>1. CASE ~Attach!is_current BY <1>1, FailInv DEF Attach!EnsureCurrent
<1>2. CASE Attach!is_current
  <2> USE DEF AttachInv
  <2>1. /\ pc = "verify" /\ pc' = "probe"
        /\ UNCHANGED <<process, started, games, target, ok, seen, memory, done, result>>
    BY <1>2 DEF Attach!EnsureCurrent, Attach!Go
  <2>2. target = started BY <1>2, <2>1, CurrentIsLast DEF Discovering
  <2>3. memory = target
    BY <2>1, <2>2 DEF NotBefore, NumbersOK, Opened
  <2>4. ProcessOK' BY <2>1 DEF ProcessOK
  <2>5. NumbersOK' /\ pc' \in Places /\ LastHasPid'
    BY <2>1 DEF NumbersOK, Places, LastHasPid, Opened
  <2>6. NotBefore' BY <2>1 DEF NotBefore, Opened, Discovering
  <2>7. Checks' /\ SeenRunning' BY <2>1, <2>3 DEF Checks, SeenRunning, Opened
  <2> QED BY <2>1, <2>4, <2>5, <2>6, <2>7
<1> QED BY <1>1, <1>2

\* The steps of an attachment that is verified, none of which changes what it reads.
LEMMA AcquireInv ==
    ASSUME Attach!AttachmentAssumption, AttachInv,
           \/ Attach!Probe \/ Attach!Conclude("after_probe", "verified", {"Read"})
           \/ Attach!Verified \/ Attach!ReadInto
    PROVE  AttachInv'
<1>1. ASSUME NEW error, Attach!Fail(error) PROVE AttachInv' BY <1>1, FailInv
<1>2. CASE /\ pc \in Opened \ {"verify"} /\ pc' \in Opened /\ ok' \in BOOLEAN
           /\ done' \in 0 .. Reads /\ (pc' = "reading" => done' < Reads)
           /\ seen' \in 0 .. started /\ SeenRunning'
           /\ UNCHANGED <<process, started, games, target, memory>>
  <2> USE <1>2 DEF AttachInv
  <2>1. ProcessOK' BY DEF ProcessOK
  <2>2. NumbersOK' /\ pc' \in Places /\ LastHasPid'
    BY DEF NumbersOK, Places, LastHasPid, Opened
  <2>3. NotBefore' BY DEF NotBefore, Opened, Discovering
  <2>4. Checks' BY DEF Checks, Opened
  <2> QED BY <2>1, <2>2, <2>3, <2>4
<1>3. CASE Attach!Probe
  <2>1. /\ pc = "probe" /\ pc' = "after_probe"
        /\ seen' = Attach!StartMarker
        /\ UNCHANGED <<process, started, games, target, memory, done>>
    BY <1>3 DEF Attach!Probe, Attach!Attempt
  <2>2. ok' \in BOOLEAN BY <1>3, Zenon DEF Attach!Probe, Attach!Attempt, Attach!Answers
  <2>3. seen' \in 0 .. started /\ SeenRunning'
    BY <2>1, MarkerOK DEF SeenRunning, Attach!is_current, Attach!StartMarker
  <2> QED BY <1>2, <2>1, <2>2, <2>3 DEF AttachInv, NumbersOK, Opened
<1>4. CASE Attach!Conclude("after_probe", "verified", {"Read"})
  <2>1. CASE Attach!Go("verified")
    <3>1. pc = "after_probe" BY <1>4 DEF Attach!Conclude
    <3>2. pc' = "verified" /\ UNCHANGED <<process, started, games, target, ok, seen, memory, done>>
      BY <2>1 DEF Attach!Go
    <3> QED BY <1>2, <3>1, <3>2 DEF AttachInv, NumbersOK, SeenRunning, Opened
  <2> QED BY <1>1, <1>4, <2>1 DEF Attach!Conclude
<1>5. CASE Attach!Verified
  <2>1. /\ pc = "verified" /\ pc' = "reading" /\ done' = 0
        /\ UNCHANGED <<process, started, games, target, ok, seen, memory>>
    BY <1>5 DEF Attach!Verified
  <2> QED BY <1>2, <2>1 DEF AttachInv, NumbersOK, SeenRunning, Opened, Attach!AttachmentAssumption
<1>6. CASE Attach!ReadInto
  <2>1. CASE /\ pc = "reading" /\ done' = done + 1
             /\ pc' = IF done + 1 = Reads THEN "verify" ELSE "reading"
             /\ UNCHANGED <<process, started, games, target, ok, seen, memory, result>>
    <3>1. done \in Nat /\ done < Reads BY <2>1 DEF AttachInv, NumbersOK
    <3> QED BY <1>2, <2>1, <3>1 DEF AttachInv, NumbersOK, SeenRunning, Opened, Attach!AttachmentAssumption
  <2> QED BY <1>1, <1>6, <2>1 DEF Attach!ReadInto
<1> QED BY <1>3, <1>4, <1>5, <1>6

\* Every step of the reader and of the operating system preserves the invariant.
LEMMA AttachSteps ==
    ASSUME Attach!AttachmentAssumption
    PROVE  AttachInv /\ [Attach!Next]_Attach!vars => AttachInv'
<1> SUFFICES ASSUME AttachInv, [Attach!Next]_Attach!vars PROVE AttachInv' OBVIOUS
<1>1. CASE Attach!OS BY <1>1, SystemInv
<1>2. CASE Attach!Reader
  BY <1>2, DiscoverInv, PrepareInv, LookUpInv, FoundInv, OpenInv, VerifyInv, AcquireInv
     DEF Attach!Reader
<1>3. CASE UNCHANGED Attach!vars
  BY <1>3 DEF Attach!vars, AttachInv, ProcessOK, NumbersOK, LastHasPid, NotBefore, Checks,
     SeenRunning, Attach!is_current, Attach!StartMarker
<1> QED BY <1>1, <1>2, <1>3 DEF Attach!Next

LEMMA AttachAlways == ASSUME Attach!AttachmentAssumption PROVE Attach!Spec => []AttachInv
BY AttachInit, AttachSteps, PTL DEF Attach!Spec

\* attach, AttachedTarget::verify: whatever is read and published was read from the
\* very process that was discovered, and that process is the game, however often the
\* pid was reused between any two system calls of the reader.
THEOREM AttachedRight ==
    ASSUME Attach!AttachmentAssumption
    PROVE  Attach!Spec => [](Attach!TypeOK /\ Attach!AttachedIsTarget)
<1>1. AttachInv => Attach!TypeOK BY AttachTypes DEF AttachInv
<1>2. AttachInv => Attach!AttachedIsTarget
  BY DEF AttachInv, Attach!AttachedIsTarget, NotBefore, Checks, Opened
<1> QED BY <1>1, <1>2, AttachAlways, PTL

\* with_current_process: what is reported of the target (no such module, no module
\* list, no readable byte) was found while the target itself ran, however its process
\* exited and its pid was reused around it; and what is reported as gone is gone.
THEOREM CausesAreTrue ==
    ASSUME Attach!AttachmentAssumption
    PROVE  Attach!Spec => [][Attach!CauseIsTrue]_Attach!vars
<1>1. ASSUME AttachInv, Attach!Next PROVE Attach!CauseIsTrue
  <2> SUFFICES ASSUME pc # "enumerate", pc' = "enumerate" PROVE Attach!CauseIsTrue
    BY DEF Attach!CauseIsTrue
  <2>1. Attach!Reader
    BY <1>1 DEF Attach!Next, Attach!OS, Attach!StartProcess, Attach!ExitProcess, Attach!Reap
  <2>2. ASSUME NEW at, NEW next, NEW errors, at \in {"after_modules", "after_probe"},
               Attach!Conclude(at, next, errors), next # "enumerate",
               {"TargetChanged", "TargetNotFound"} \cap errors = {}
        PROVE  Attach!CauseIsTrue
    <3>1. \/ ~Attach!is_current /\ result' = "TargetChanged"
          \/ Attach!is_current /\ result' \in errors
      BY <2>2 DEF Attach!Conclude, Attach!Fail, Attach!Go
    <3>2. pc = at BY <2>2 DEF Attach!Conclude
    <3>3. Attach!is_current => seen = target BY <1>1, <2>2, <3>2 DEF AttachInv, SeenRunning
    <3> QED
      BY <2>2, <3>1, <3>3 DEF Attach!CauseIsTrue, Attach!is_current, Attach!ModuleErrors
  <2>3. CASE Attach!Conclude("after_modules", "open_memory", Attach!ModuleErrors)
    BY <2>2, <2>3 DEF Attach!ModuleErrors
  <2>4. CASE Attach!Conclude("after_probe", "verified", {"Read"})
    BY <2>2, <2>4
  <2>5. ASSUME NEW at, NEW next, Attach!EnsureCurrent(at, next), next # "enumerate",
               at # "after_probe"
        PROVE  Attach!CauseIsTrue
    BY <2>5 DEF Attach!EnsureCurrent, Attach!Fail, Attach!Go, Attach!CauseIsTrue,
         Attach!is_current, Attach!ModuleErrors
  <2>6. CASE Attach!ProcessInfo
    <3>1. \/ result' \in {"Discovery", "Open"}
          \/ result' = "TargetNotFound" /\ process.state = "absent"
      BY <2>6 DEF Attach!ProcessInfo, Attach!Fail, Attach!Go
    <3>2. process.state = "absent" => Attach!StartMarker # target
      BY <1>1, <2>6 DEF AttachInv, NotBefore, Discovering, Attach!StartMarker, Attach!ProcessInfo
    <3> QED BY <2>6, <3>1, <3>2 DEF Attach!CauseIsTrue, Attach!ProcessInfo, Attach!ModuleErrors
  <2>7. CASE Attach!Identify \/ Attach!OpenProcess \/ Attach!OpenMemory \/ Attach!ReadInto
    <3>1. result' \in {"omitted", "Open", "Read"} /\ pc # "after_probe"
      BY <2>7 DEF Attach!Identify, Attach!OpenProcess, Attach!OpenMemory, Attach!ReadInto,
           Attach!Fail, Attach!Go
    <3> QED BY <3>1 DEF Attach!CauseIsTrue, Attach!ModuleErrors
  <2>8. CASE Attach!Enumerate \/ Attach!LookUpModule \/ Attach!Probe \/ Attach!Verified
    BY <2>8 DEF Attach!Enumerate, Attach!LookUpModule, Attach!Probe, Attach!Verified,
         Attach!Attempt
  <2> QED BY <2>1, <2>3, <2>4, <2>5, <2>6, <2>7, <2>8 DEF Attach!Reader
<1> QED BY <1>1, AttachAlways, PTL DEF Attach!Spec

-----------------------------------------------------------------------------
(* The session that polls the topics of an account, for every set of        *)
(* topics, every interval and any number of logins and replacements of the  *)
(* profile data between any two reads of a poll.                            *)

CONSTANTS Topics, NoOwner, Failed, Sample, ChatInterval, ChatBacklog, MaxIdentity,
          ValidationRetry
VARIABLES game, fresh, s, poll, topic

Account == INSTANCE AccountSession WITH None <- NoOwner, pc <- poll

DataTopics == Account!DataTopics
Demanded(q, ts) == Account!Demanded(q, ts)

\* The fields of a session, whatever they hold.
IsSession(q) ==
    /\ q = [topic |-> q.topic, checks |-> q.checks, login |-> q.login, data |-> q.data,
            pending |-> q.pending, staged |-> q.staged, out |-> q.out, resets |-> q.resets,
            twice |-> q.twice, before |-> q.before, reset |-> q.reset,
            dataReset |-> q.dataReset, owner |-> q.owner, todo |-> q.todo,
            samples |-> q.samples, dataKept |-> q.dataKept]
    /\ q.topic = [t \in Topics |-> [demanded |-> q.topic[t].demanded,
                                    left |-> q.topic[t].left]]
    /\ q.out = [t \in Topics |-> q.out[t]]
    /\ q.samples = [t \in Topics |-> q.samples[t]]

\* Whose data a topic of the session is, and that it has an owner.
Mine(q, t) == IF t = "player" THEN [account |-> q.login, data |-> 0] ELSE q.data
Known(q, t) == IF t = "player" THEN q.login # 0 ELSE q.data # NoOwner

\* What the service shows is the owner's that the session has, or about to be reset.
Matches(q, shown) ==
    \A t \in Topics : shown[t].owners # {} =>
        /\ q.topic[t].demanded
        /\ t \in q.resets \/ (shown[t].owners = {Mine(q, t)} /\ Known(q, t))

\* Profile data and a kept publication belong to the login.
Owned(q) ==
    /\ q.data # NoOwner => q.login # 0 /\ q.data.account = q.login
    /\ q.pending # NoOwner => q.data # NoOwner /\ q.pending = q.data

SessionOK(q, shown) == IsSession(q) /\ Matches(q, shown) /\ Owned(q) /\ q.twice = FALSE

\* What the resets of a poll were.
ResetsOK(q) ==
    /\ q.reset => q.dataReset /\ q.resets = Demanded(q, Topics)
    /\ ~q.reset /\ q.dataReset => q.resets = Demanded(q, DataTopics)
    /\ ~q.dataReset => q.resets = {}

\* r is q but for layouts, deadlines and failures.
Alike(q, r) ==
    /\ r.login = q.login /\ r.data = q.data /\ r.pending = q.pending /\ r.staged = q.staged
    /\ r.resets = q.resets /\ r.twice = q.twice /\ r.before = q.before
    /\ r.reset = q.reset /\ r.dataReset = q.dataReset /\ r.owner = q.owner
    /\ r.todo = q.todo /\ r.samples = q.samples /\ r.dataKept = q.dataKept
    /\ \A t \in Topics : r.topic[t].demanded = q.topic[t].demanded
    /\ \A t \in Topics : r.out[t] \in {q.out[t], Failed}

Follows(q, r) == IsSession(r) /\ Alike(q, r)

LEMMA Followed ==
    ASSUME NEW p, NEW q, NEW r, Follows(p, q), Follows(q, r)
    PROVE  Follows(p, r)
BY DEF Follows, Alike

LEMMA FollowsItself == ASSUME NEW q, IsSession(q) PROVE Follows(q, q)
BY DEF Follows, Alike

LEMMA FollowsOK ==
    ASSUME NEW q, NEW r, NEW shown, Follows(q, r)
    PROVE  /\ SessionOK(q, shown) => SessionOK(r, shown)
           /\ ResetsOK(q) => ResetsOK(r)
           /\ \A ts \in SUBSET Topics : Demanded(r, ts) = Demanded(q, ts)
<1>1. \A ts \in SUBSET Topics : Demanded(r, ts) = Demanded(q, ts)
  BY DEF Follows, Alike, Demanded, Account!Demanded
<1>2. \A t \in Topics : Mine(r, t) = Mine(q, t) /\ (Known(r, t) <=> Known(q, t))
  BY DEF Follows, Alike, Mine, Known
<1>3. SessionOK(q, shown) => SessionOK(r, shown)
  BY <1>2 DEF SessionOK, Follows, Alike, Matches, Owned
<1>4. DataTopics \in SUBSET Topics BY DEF DataTopics, Account!DataTopics
<1> QED BY <1>1, <1>3, <1>4 DEF ResetsOK, Follows, Alike

\* unavailable changes health and deadlines.
LEMMA UnavailableFollows ==
    ASSUME NEW q, IsSession(q), NEW ts, NEW left
    PROVE  Follows(q, Account!Unavailable(q, ts, left))
<1> DEFINE r == Account!Unavailable(q, ts, left)
<1>1. /\ r = [q EXCEPT !.topic = r.topic, !.out = r.out]
      /\ r.topic = [t \in Topics |-> IF t \in Account!Demanded(q, ts)
                                     THEN [q.topic[t] EXCEPT !.left = left] ELSE q.topic[t]]
      /\ r.out = [t \in Topics |-> IF t \in Account!Demanded(q, ts) THEN Failed ELSE q.out[t]]
  BY DEF Account!Unavailable, IsSession
<1>2. \A t \in Topics : /\ r.topic[t].demanded = q.topic[t].demanded
                        /\ r.topic[t] = [demanded |-> r.topic[t].demanded, left |-> r.topic[t].left]
  <2> TAKE t \in Topics
  <2>1. q.topic[t] = [demanded |-> q.topic[t].demanded, left |-> q.topic[t].left]
    BY DEF IsSession
  <2> QED BY <1>1, <2>1
<1> HIDE DEF r
<1>3. IsSession(r)
  <2>1. r.out = [t \in Topics |-> r.out[t]] BY <1>1
  <2>2. r.topic = [t \in Topics |-> [demanded |-> r.topic[t].demanded,
                                     left |-> r.topic[t].left]]
    BY <1>1, <1>2
  <2>3. r.samples = q.samples BY <1>1 DEF IsSession
  <2>4. r = [q EXCEPT !.topic = r.topic, !.out = r.out] BY <1>1
  <2> QED BY <2>1, <2>2, <2>3, <2>4 DEF IsSession
<1>4. Alike(q, r)
  <2>1. /\ r.login = q.login /\ r.data = q.data /\ r.pending = q.pending
        /\ r.staged = q.staged /\ r.resets = q.resets /\ r.twice = q.twice
        /\ r.before = q.before /\ r.reset = q.reset /\ r.dataReset = q.dataReset
        /\ r.owner = q.owner /\ r.todo = q.todo /\ r.samples = q.samples
        /\ r.dataKept = q.dataKept
    <3>1. r = [q EXCEPT !.topic = r.topic, !.out = r.out] BY <1>1
    <3> QED BY <3>1 DEF IsSession
  <2>2. \A t \in Topics : r.out[t] \in {q.out[t], Failed} BY <1>1
  <2> QED BY <1>2, <2>1, <2>2 DEF Alike
<1> QED BY <1>3, <1>4 DEF Follows, r

LEMMA ChecksFollow ==
    ASSUME NEW q, IsSession(q), NEW c
    PROVE  Follows(q, [q EXCEPT !.checks = c])
BY DEF IsSession, Follows, Alike

\* validate_due and what it is made of change no more than health.
LEMMA DataValidated ==
    ASSUME NEW q, IsSession(q), NEW bad
    PROVE  Follows(q, Account!ValidateProfileData(q, bad))
<1> DEFINE check == Account!Ensure(q.checks["profile data"], "profile data" \in bad)
           next == [q EXCEPT !.checks["profile data"] = check]
<1>1. Follows(q, next)
  <2>1. next = [q EXCEPT !.checks = [q.checks EXCEPT !["profile data"] = check]] OBVIOUS
  <2> QED BY <2>1, ChecksFollow
<1>2. IsSession(next) BY <1>1 DEF Follows
<1> HIDE DEF next
<1>3. \A left : Follows(q, Account!Unavailable(next, Account!DataTopics, left))
  BY <1>1, <1>2, UnavailableFollows, Followed
<1> USE DEF next
<1> QED BY <1>1, <1>3, FollowsItself DEF Account!ValidateProfileData

LEMMA TopicValidated ==
    ASSUME NEW q, IsSession(q), NEW bad, NEW t
    PROVE  Follows(q, Account!ValidateTopic(q, t, bad))
<1> DEFINE answer == Account!EnsureAll(q.checks, Account!Requires(t), bad)
           next == [q EXCEPT !.checks = answer.checks]
<1>1. Follows(q, next) BY ChecksFollow
<1>2. IsSession(next) BY <1>1 DEF Follows
<1> HIDE DEF next
<1>3. \A left : Follows(q, Account!Unavailable(next, {t}, left))
  BY <1>1, <1>2, UnavailableFollows, Followed
<1> USE DEF next
<1> QED BY <1>1, <1>3, FollowsItself DEF Account!ValidateTopic

LEMMA DueValidated ==
    ASSUME NEW q, IsSession(q), NEW bad
    PROVE  Follows(q, Account!ValidateDue(q, bad))
<1>1. \A r, t : Follows(q, r) => Follows(q, Account!ValidateTopic(r, t, bad))
  <2> TAKE r, t
  <2> HAVE Follows(q, r)
  <2>1. IsSession(r) BY DEF Follows
  <2> QED BY <2>1, TopicValidated, Followed
<1>2. Follows(q, Account!ValidateProfileData(q, bad)) BY DataValidated
<1>3. \A r : Follows(q, r) => Follows(q, Account!ValidateProgression(r, bad))
  BY <1>1 DEF Account!ValidateProgression
<1>4. \A r : Follows(q, r) => Follows(q, Account!ValidateOthers(r, bad))
  BY <1>1 DEF Account!ValidateOthers
<1> QED BY <1>1, <1>2, <1>3, <1>4 DEF Account!ValidateDue

LEMMA Readied ==
    ASSUME NEW q, IsSession(q), NEW bad
    PROVE  Follows(q, Account!Ready(q, bad))
<1> DEFINE answer == Account!EnsureAll(q.checks, <<"executable", "account identity">>, bad)
           next == [q EXCEPT !.checks = answer.checks]
<1>1. Follows(q, next) BY ChecksFollow
<1>2. IsSession(next) BY <1>1 DEF Follows
<1> HIDE DEF next
<1>3. \A left : Follows(q, Account!Unavailable(next, Topics, left))
  BY <1>1, <1>2, UnavailableFollows, Followed
<1>4. Follows(q, Account!ValidateDue(next, bad)) BY <1>1, <1>2, DueValidated, Followed
<1> USE DEF next
<1> QED BY <1>3, <1>4 DEF Account!Ready

-----------------------------------------------------------------------------
(* Resets. *)

\* r is q with the topics of ts reset.
IsReset(q, r, ts) ==
    /\ r.login = q.login /\ r.data = q.data /\ r.pending = q.pending
    /\ r.before = q.before /\ r.reset = q.reset /\ r.dataReset = q.dataReset
    /\ r.owner = q.owner /\ r.todo = q.todo /\ r.samples = q.samples
    /\ r.dataKept = q.dataKept
    /\ r.resets = q.resets \cup Demanded(q, ts)
    /\ r.twice = (q.twice \/ Demanded(q, ts) \cap q.resets # {})
    /\ \A t \in Topics : r.topic[t].demanded = q.topic[t].demanded
    /\ \A t \in Topics : r.out[t] \in {q.out[t], NoOwner}
    /\ \A us \in SUBSET Topics : Demanded(r, us) = Demanded(q, us)

LEMMA TopicsReset ==
    ASSUME NEW q, IsSession(q), q.twice \in BOOLEAN, NEW ts
    PROVE  /\ IsSession(Account!ResetTopics(q, ts))
           /\ IsReset(q, Account!ResetTopics(q, ts), ts)
           /\ Account!ResetTopics(q, ts).staged = q.staged
<1> DEFINE r == Account!ResetTopics(q, ts)
<1>1. /\ r = [q EXCEPT !.topic = r.topic, !.resets = r.resets, !.twice = r.twice,
                       !.out = r.out]
      /\ r.topic = [t \in Topics |-> IF t \in Account!Demanded(q, ts)
                                     THEN [q.topic[t] EXCEPT !.left = 0] ELSE q.topic[t]]
      /\ r.resets = q.resets \cup Demanded(q, ts)
      /\ r.twice = (q.twice \/ Demanded(q, ts) \cap q.resets # {})
      /\ r.out = [t \in Topics |-> IF t \in Account!Demanded(q, ts) THEN NoOwner
                                   ELSE q.out[t]]
  BY DEF Account!ResetTopics, IsSession, Demanded
<1>2. \A t \in Topics : /\ r.topic[t].demanded = q.topic[t].demanded
                        /\ r.topic[t] = [demanded |-> r.topic[t].demanded, left |-> r.topic[t].left]
  <2> TAKE t \in Topics
  <2>1. q.topic[t] = [demanded |-> q.topic[t].demanded, left |-> q.topic[t].left]
    BY DEF IsSession
  <2> HIDE DEF r
  <2>2. r.topic[t] = IF t \in Account!Demanded(q, ts) THEN [q.topic[t] EXCEPT !.left = 0]
                     ELSE q.topic[t]
    BY <1>1
  <2> QED BY <2>1, <2>2
<1> HIDE DEF r
<1>3. IsSession(r)
  <2>1. r.out = [t \in Topics |-> r.out[t]] BY <1>1
  <2>2. r.topic = [t \in Topics |-> [demanded |-> r.topic[t].demanded,
                                     left |-> r.topic[t].left]]
    BY <1>1, <1>2
  <2>3. r.samples = q.samples BY <1>1 DEF IsSession
  <2>4. r = [q EXCEPT !.topic = r.topic, !.resets = r.resets, !.twice = r.twice,
                      !.out = r.out]
    BY <1>1
  <2> QED BY <2>1, <2>2, <2>3, <2>4 DEF IsSession
<1>4. \A us \in SUBSET Topics : Demanded(r, us) = Demanded(q, us)
  BY <1>2 DEF Demanded, Account!Demanded
<1>5. IsReset(q, r, ts)
  <2>1. /\ r.login = q.login /\ r.data = q.data /\ r.pending = q.pending
        /\ r.before = q.before /\ r.reset = q.reset /\ r.dataReset = q.dataReset
        /\ r.owner = q.owner /\ r.todo = q.todo /\ r.samples = q.samples
        /\ r.dataKept = q.dataKept
    <3>1. r = [q EXCEPT !.topic = r.topic, !.resets = r.resets, !.twice = r.twice,
                        !.out = r.out]
      BY <1>1
    <3> QED BY <3>1 DEF IsSession
  <2>2. \A t \in Topics : r.out[t] \in {q.out[t], NoOwner} BY <1>1
  <2>3. /\ r.resets = q.resets \cup Demanded(q, ts)
        /\ r.twice = (q.twice \/ Demanded(q, ts) \cap q.resets # {})
    BY <1>1
  <2> QED BY <1>2, <1>4, <2>1, <2>2, <2>3 DEF IsReset
<1>6. r.staged = q.staged BY <1>1 DEF IsSession
<1> QED BY <1>3, <1>5, <1>6 DEF r

\* What a reset leaves of a session.
Keeps(q, r) ==
    /\ r.login = q.login /\ r.before = q.before /\ r.reset = q.reset
    /\ r.owner = q.owner /\ r.todo = q.todo /\ r.samples = q.samples
    /\ r.dataKept = q.dataKept
    /\ \A t \in Topics : r.topic[t].demanded = q.topic[t].demanded
    /\ \A t \in Topics : r.out[t] \in {q.out[t], NoOwner}

LEMMA KeepsDemand ==
    ASSUME NEW q, NEW r, Keeps(q, r)
    PROVE  \A ts \in SUBSET Topics : Demanded(r, ts) = Demanded(q, ts)
BY DEF Keeps, Demanded, Account!Demanded

LEMMA KeepsBoth ==
    ASSUME NEW p, NEW q, NEW r, Keeps(p, q), Keeps(q, r) PROVE Keeps(p, r)
BY DEF Keeps

LEMMA ResetKeeps ==
    ASSUME NEW q, NEW r, NEW ts, IsReset(q, r, ts) PROVE Keeps(q, r)
BY DEF IsReset, Keeps

LEMMA ChatForgotten ==
    ASSUME NEW q, IsSession(q)
    PROVE  LET r == Account!ForgetChat(q)
           IN /\ IsSession(r) /\ Keeps(q, r) /\ r.pending = NoOwner /\ r.data = q.data
              /\ r.resets = q.resets /\ r.twice = q.twice /\ r.dataReset = q.dataReset
              /\ r.topic = q.topic /\ r.out = q.out /\ ~r.staged
<1> DEFINE r == Account!ForgetChat(q)
<1>1. /\ r.topic = q.topic /\ r.checks = q.checks /\ r.login = q.login /\ r.data = q.data
      /\ r.pending = NoOwner /\ r.staged = FALSE /\ r.out = q.out /\ r.resets = q.resets
      /\ r.twice = q.twice /\ r.before = q.before /\ r.reset = q.reset
      /\ r.dataReset = q.dataReset /\ r.owner = q.owner /\ r.todo = q.todo
      /\ r.samples = q.samples /\ r.dataKept = q.dataKept
  BY DEF Account!ForgetChat, IsSession
<1>2. r = [q EXCEPT !.pending = NoOwner, !.staged = FALSE] BY DEF Account!ForgetChat
<1> HIDE DEF r
<1>3. IsSession(r) BY <1>1, <1>2 DEF IsSession
<1>4. Keeps(q, r) BY <1>1 DEF Keeps
<1> QED BY <1>1, <1>3, <1>4 DEF r

LEMMA DataForgotten ==
    ASSUME NEW q, IsSession(q)
    PROVE  LET r == [Account!ForgetChat(q) EXCEPT !.data = NoOwner]
           IN /\ IsSession(r) /\ Keeps(q, r) /\ r.pending = NoOwner /\ r.data = NoOwner
              /\ r.resets = q.resets /\ r.twice = q.twice /\ r.dataReset = q.dataReset
<1> DEFINE f == Account!ForgetChat(q)
<1>1. /\ IsSession(f) /\ Keeps(q, f) /\ f.pending = NoOwner
      /\ f.resets = q.resets /\ f.twice = q.twice /\ f.dataReset = q.dataReset
  BY ChatForgotten
<1> HIDE DEF f
<1> DEFINE r == [f EXCEPT !.data = NoOwner]
<1>2. /\ r.topic = f.topic /\ r.checks = f.checks /\ r.login = f.login /\ r.data = NoOwner
      /\ r.pending = f.pending /\ r.staged = f.staged /\ r.out = f.out /\ r.resets = f.resets
      /\ r.twice = f.twice /\ r.before = f.before /\ r.reset = f.reset
      /\ r.dataReset = f.dataReset /\ r.owner = f.owner /\ r.todo = f.todo
      /\ r.samples = f.samples /\ r.dataKept = f.dataKept
  BY <1>1 DEF IsSession
<1>5. r = [f EXCEPT !.data = NoOwner] OBVIOUS
<1> HIDE DEF r
<1>3. IsSession(r) BY <1>1, <1>2, <1>5 DEF IsSession
<1>4. Keeps(q, r) BY <1>1, <1>2 DEF Keeps
<1> QED BY <1>1, <1>2, <1>3, <1>4 DEF f, r

LEMMA DemandedTopics ==
    ASSUME NEW q
    PROVE  /\ \A ts \in SUBSET Topics : Demanded(q, ts) = {t \in ts : q.topic[t].demanded}
           /\ DataTopics = {t \in Topics : t # "player"}
BY DEF Demanded, Account!Demanded, DataTopics, Account!DataTopics

\* What shows no owner but one in a topic that is reset is right whatever the login is.
LEMMA AllReset ==
    ASSUME NEW q, IsSession(q), NEW shown, q.twice = FALSE,
           q.pending = NoOwner, q.data = NoOwner,
           \A t \in Topics : shown[t].owners # {} => q.topic[t].demanded,
           Demanded(q, Topics) \subseteq q.resets
    PROVE  SessionOK(q, shown)
BY DemandedTopics DEF SessionOK, Matches, Owned

\* reset_account
LEMMA AccountIsReset ==
    ASSUME NEW q, IsSession(q), NEW shown, q.twice = FALSE,
           \A t \in Topics : shown[t].owners # {} => q.topic[t].demanded,
           Demanded(q, Topics) \cap q.resets = {}
    PROVE  LET r == Account!ResetAccount(q)
           IN /\ SessionOK(r, shown) /\ Keeps(q, r)
              /\ r.data = NoOwner /\ r.pending = NoOwner /\ r.dataReset = q.dataReset
              /\ r.resets = q.resets \cup Demanded(q, Topics)
<1> DEFINE f == [Account!ForgetChat(q) EXCEPT !.data = NoOwner]
           r == Account!ResetTopics(f, Topics)
<1>1. /\ IsSession(f) /\ Keeps(q, f) /\ f.pending = NoOwner /\ f.data = NoOwner
      /\ f.resets = q.resets /\ f.twice = q.twice /\ f.dataReset = q.dataReset
  BY DataForgotten
<1>2. Account!ResetAccount(q) = r BY DEF Account!ResetAccount
<1>3. f.twice = FALSE BY <1>1
<1> HIDE DEF f
<1>4. IsSession(r) /\ IsReset(f, r, Topics) BY <1>1, <1>3, TopicsReset
<1> HIDE DEF r
<1>5. Keeps(q, r) BY <1>1, <1>4, ResetKeeps, KeepsBoth
<1>6. Demanded(f, Topics) = Demanded(q, Topics) /\ Demanded(r, Topics) = Demanded(q, Topics)
  BY <1>1, <1>5, KeepsDemand
<1>7. /\ r.data = NoOwner /\ r.pending = NoOwner /\ r.dataReset = q.dataReset
      /\ r.resets = q.resets \cup Demanded(q, Topics) /\ r.twice = FALSE
  BY <1>1, <1>3, <1>4, <1>6 DEF IsReset
<1>8. \A t \in Topics : shown[t].owners # {} => r.topic[t].demanded
  BY <1>5 DEF Keeps
<1>9. SessionOK(r, shown) BY <1>4, <1>6, <1>7, <1>8, AllReset
<1> QED BY <1>2, <1>5, <1>7, <1>9

\* clear_profile_data
LEMMA DataCleared ==
    ASSUME NEW q, NEW shown, SessionOK(q, shown), ResetsOK(q)
    PROVE  LET r == Account!ClearProfileData(q)
           IN /\ SessionOK(r, shown) /\ ResetsOK(r) /\ Keeps(q, r)
              /\ r.data = NoOwner /\ r.pending = NoOwner
<1> DEFINE r == Account!ClearProfileData(q)
<1> SUFFICES /\ SessionOK(r, shown) /\ ResetsOK(r) /\ Keeps(q, r)
             /\ r.data = NoOwner /\ r.pending = NoOwner
  OBVIOUS
<1>1. CASE q.data = NoOwner
  <2>1. r = q BY <1>1 DEF Account!ClearProfileData
  <2>2. Keeps(q, q) BY DEF Keeps
  <2>3. q.pending = NoOwner BY <1>1 DEF SessionOK, Owned
  <2> QED BY <1>1, <2>1, <2>2, <2>3
<1> DEFINE f == [Account!ForgetChat(q) EXCEPT !.data = NoOwner]
<1>2. /\ IsSession(f) /\ Keeps(q, f) /\ f.pending = NoOwner /\ f.data = NoOwner
      /\ f.resets = q.resets /\ f.twice = q.twice /\ f.dataReset = q.dataReset
  BY DataForgotten DEF SessionOK
<1>3. CASE q.data # NoOwner /\ q.dataReset
  <2>1. r = f BY <1>3 DEF Account!ClearProfileData
  <2> HIDE DEF f, r
  <2>6. DataTopics \subseteq Topics BY DemandedTopics
  <2>7. /\ Demanded(f, Topics) = Demanded(q, Topics)
        /\ Demanded(f, DataTopics) = Demanded(q, DataTopics)
    BY <1>2, <2>6, KeepsDemand
  <2>8. f.reset = q.reset BY <1>2 DEF Keeps
  <2>2. ResetsOK(f) BY <1>2, <2>7, <2>8 DEF ResetsOK
  <2>3. \A t \in Topics : t # "player" /\ q.topic[t].demanded => t \in q.resets
    BY <1>3, DemandedTopics DEF ResetsOK
  <2>4. Matches(f, shown)
    BY <1>2, <2>3 DEF Matches, Mine, Known, Keeps, SessionOK
  <2>5. SessionOK(f, shown) BY <1>2, <2>4 DEF SessionOK, Owned
  <2> QED BY <1>2, <2>1, <2>2, <2>5
<1>4. CASE q.data # NoOwner /\ ~q.dataReset
  <2> DEFINE g == [Account!ForgetChat(q) EXCEPT !.data = NoOwner, !.dataReset = TRUE]
  <2>1. r = Account!ResetTopics(g, Account!DataTopics) BY <1>4 DEF Account!ClearProfileData
  <2>2. g = [f EXCEPT !.dataReset = TRUE] OBVIOUS
  <2> HIDE DEF f, g, r
  <2>3. /\ g.topic = f.topic /\ g.checks = f.checks /\ g.login = f.login /\ g.data = NoOwner
        /\ g.pending = f.pending /\ g.staged = f.staged /\ g.out = f.out
        /\ g.resets = f.resets /\ g.twice = f.twice /\ g.before = f.before
        /\ g.reset = f.reset /\ g.dataReset = TRUE /\ g.owner = f.owner
        /\ g.todo = f.todo /\ g.samples = f.samples /\ g.dataKept = f.dataKept
    BY <1>2, <2>2 DEF IsSession
  <2>4. IsSession(g) BY <1>2, <2>2, <2>3 DEF IsSession
  <2>5. Keeps(q, g) BY <1>2, <2>3 DEF Keeps
  <2>6. g.twice = FALSE BY <1>2, <2>3 DEF SessionOK
  <2>7. IsSession(r) /\ IsReset(g, r, DataTopics)
    BY <2>1, <2>4, <2>6, TopicsReset DEF DataTopics
  <2>8. Keeps(q, r) BY <2>5, <2>7, ResetKeeps, KeepsBoth
  <2>9. DataTopics \subseteq Topics BY DemandedTopics
  <2>10. /\ Demanded(g, DataTopics) = Demanded(q, DataTopics)
         /\ Demanded(r, DataTopics) = Demanded(q, DataTopics)
    BY <2>5, <2>8, <2>9, KeepsDemand
  <2>11. q.resets = {} /\ ~q.reset BY <1>4 DEF ResetsOK
  <2>12. /\ r.data = NoOwner /\ r.pending = NoOwner /\ r.twice = FALSE
         /\ r.resets = Demanded(q, DataTopics) /\ r.dataReset
    BY <1>2, <2>3, <2>6, <2>7, <2>10, <2>11 DEF IsReset
  <2>13. ResetsOK(r) BY <2>8, <2>10, <2>11, <2>12 DEF ResetsOK, Keeps
  <2>14. Matches(r, shown)
    BY <2>8, <2>11, <2>12, DemandedTopics DEF Matches, Mine, Known, Keeps, SessionOK
  <2>15. SessionOK(r, shown) BY <2>7, <2>12, <2>14 DEF SessionOK, Owned
  <2> QED BY <2>8, <2>12, <2>13, <2>15
<1> QED BY <1>1, <1>3, <1>4

-----------------------------------------------------------------------------
(* The invariant. *)

Begun == {"data", "sample", "accountAfter", "publish"}
Sampling == {"sample", "accountAfter", "publish"}
Stages == {"idle", "account", "commit", "failed"} \cup Begun

\* Identities are numbered in the order the game takes them.
GameOK ==
    /\ fresh \in Nat /\ game = [account |-> game.account, data |-> game.data]
    /\ game.account \in 0 .. fresh /\ game.data \in 0 .. fresh
    /\ s.login \in 0 .. fresh

TopicsShaped ==
    topic = [t \in Topics |->
               [demanded |-> topic[t].demanded, new |-> topic[t].new,
                fenced |-> topic[t].fenced, renewed |-> topic[t].renewed,
                owners |-> topic[t].owners, shown |-> topic[t].shown]]

\* What is shown is shown in a lifetime that the session was told of.
Lived(t) ==
    /\ topic[t].owners = {} \/ \E owner : topic[t].owners = {owner}
    /\ topic[t].owners # {} => /\ topic[t].demanded /\ ~topic[t].new
                               /\ poll # "idle" => ~topic[t].renewed
    /\ poll # "idle" /\ s.topic[t].demanded /\ ~topic[t].fenced =>
          topic[t].demanded /\ ~topic[t].new

LifetimesOK == TopicsShaped /\ \A t \in Topics : Lived(t)

\* A sample is the owner's who was found before, if that one is found again after.
SampleOK(t, x) ==
    /\ s.topic[t].demanded
    /\ x = [account |-> x.account, data |-> x.data]
    /\ poll = "publish" \/ game.account = s.before => x.account = s.before
    /\ t = "player" => x.data = 0
    /\ t # "player" =>
          /\ s.owner # NoOwner
          /\ poll = "sample" /\ game.data = s.owner.data => x.data = s.owner.data
          /\ poll # "sample" /\ s.dataKept => x.data = s.owner.data

SamplesOK ==
    /\ s.todo \subseteq Topics /\ \A t \in s.todo : t # "player" => s.owner # NoOwner
    /\ s.owner # NoOwner =>
          /\ s.owner = s.data /\ s.owner.data \in 1 .. fresh
          /\ s.owner = [account |-> s.before, data |-> s.owner.data]
    /\ \A t \in Topics :
          s.samples[t] \notin {NoOwner, Failed} => SampleOK(t, s.samples[t])

\* What is to be committed is the owner's.
OutOK(q) ==
    \A t \in Topics : q.out[t] \notin {NoOwner, Failed} =>
        q.topic[t].demanded /\ q.out[t] = Mine(q, t) /\ Known(q, t)

Silent(q) == \A t \in Topics : q.out[t] \in {NoOwner, Failed}
Unsampled(q) == q.owner = NoOwner /\ q.todo = {} /\ \A t \in Topics : q.samples[t] = NoOwner

StageOK ==
    /\ poll \in Stages
    /\ poll \in {"idle", "account"} => s.resets = {} /\ ~s.reset /\ ~s.dataReset
    /\ poll \in {"idle", "account", "data"} => Unsampled(s)
    /\ poll \in {"idle", "account"} \cup Begun => Silent(s)
    /\ poll \in Begun => ResetsOK(s) /\ s.before = s.login /\ s.login # 0
    /\ poll \in Sampling => SamplesOK
    /\ poll = "commit" => OutOK(s)

AccountInv == GameOK /\ LifetimesOK /\ SessionOK(s, topic) /\ StageOK

LEMMA AccountInit == Account!Init => AccountInv
<1> SUFFICES ASSUME Account!Init PROVE AccountInv OBVIOUS
<1>1. /\ s.topic = [t \in Topics |-> Account!NewTopic] /\ s.login = 0 /\ s.data = NoOwner
      /\ s.pending = NoOwner /\ s.out = [t \in Topics |-> NoOwner] /\ s.resets = {}
      /\ s.twice = FALSE /\ s.reset = FALSE /\ s.dataReset = FALSE /\ s.owner = NoOwner
      /\ s.todo = {} /\ s.samples = [t \in Topics |-> NoOwner]
  BY DEF Account!Init, Account!NewSession
<1>2. \A t \in Topics : topic[t] = Account!NewService BY DEF Account!Init
<1>3. GameOK BY <1>1 DEF Account!Init, GameOK
<1>4. LifetimesOK BY <1>2 DEF Account!Init, LifetimesOK, TopicsShaped, Lived, Account!NewService
<1>5. IsSession(s)
  <2>1. s = [topic |-> s.topic, checks |-> s.checks, login |-> s.login, data |-> s.data,
            pending |-> s.pending, staged |-> s.staged, out |-> s.out, resets |-> s.resets,
            twice |-> s.twice, before |-> s.before, reset |-> s.reset,
            dataReset |-> s.dataReset, owner |-> s.owner, todo |-> s.todo,
            samples |-> s.samples, dataKept |-> s.dataKept]
    BY DEF Account!Init, Account!NewSession
  <2>2. s.topic = [t \in Topics |-> [demanded |-> s.topic[t].demanded,
                                     left |-> s.topic[t].left]]
    BY <1>1 DEF Account!NewTopic
  <2> QED BY <1>1, <2>1, <2>2 DEF IsSession
<1>6. SessionOK(s, topic)
  BY <1>1, <1>2, <1>5 DEF SessionOK, Matches, Owned, Account!NewService
<1>7. poll = "idle" BY DEF Account!Init
<1>8. StageOK
  BY <1>1, <1>7 DEF StageOK, Stages, Begun, Sampling, Unsampled, Silent
<1> QED BY <1>3, <1>4, <1>6, <1>8 DEF AccountInv

\* Logins, logouts and replacements only add identities: an owner that is gone stays gone.
LEMMA GameMoves ==
    ASSUME AccountInv,
           Account!Login \/ Account!Logout \/ Account!ReplaceData \/ Account!DropData
    PROVE  AccountInv'
<1>1. UNCHANGED <<s, poll, topic>>
  BY DEF Account!Login, Account!Logout, Account!ReplaceData, Account!DropData
<1> USE DEF AccountInv
<1>2. /\ GameOK' /\ fresh <= fresh'
      /\ game'.account # game.account => game'.account \notin 1 .. fresh
      /\ game'.data # game.data => game'.data \notin 1 .. fresh
  BY DEF GameOK, Account!Login, Account!Logout, Account!ReplaceData, Account!DropData
<1>3. LifetimesOK' BY <1>1 DEF LifetimesOK, TopicsShaped, Lived
<1>4. SessionOK(s, topic)' BY <1>1 DEF SessionOK
<1>5. ASSUME poll \in Sampling PROVE SamplesOK'
  <2>1. SamplesOK /\ s.before \in 1 .. fresh
    BY <1>5 DEF StageOK, GameOK, Begun, Sampling
  <2>2. s.owner # NoOwner => s.owner.data \in 1 .. fresh /\ s.owner.data \in 1 .. fresh'
    BY <1>2, <2>1 DEF SamplesOK, GameOK
  <2>3. ASSUME NEW t \in Topics, s.samples[t] \notin {NoOwner, Failed}
        PROVE  SampleOK(t, s.samples[t])'
    <3>1. SampleOK(t, s.samples[t]) BY <2>1, <2>3 DEF SamplesOK
    <3>2. game'.account = s.before => game.account = s.before BY <1>2, <2>1
    <3>3. s.owner # NoOwner /\ game'.data = s.owner.data => game.data = s.owner.data
      BY <1>2, <2>2
    <3> QED BY <1>1, <3>1, <3>2, <3>3 DEF SampleOK
  <2> QED BY <1>1, <2>1, <2>2, <2>3 DEF SamplesOK
<1>6. StageOK' BY <1>1, <1>5 DEF StageOK, Stages, Begun, Sampling, Unsampled, Silent, OutOK,
                                 ResetsOK, Demanded, Mine, Known
<1> QED BY <1>2, <1>3, <1>4, <1>6

\* The clock moves deadlines only.
LEMMA TickKeeps == ASSUME AccountInv, Account!Tick PROVE AccountInv'
<1> USE DEF AccountInv
<1>1. IsSession(s) /\ poll = "idle" /\ UNCHANGED <<game, fresh, poll, topic>>
  BY DEF SessionOK, Account!Tick
<1>2. /\ s' = [s EXCEPT !.topic = s'.topic, !.checks = s'.checks]
      /\ s'.topic = [t \in Topics |->
                       [s.topic[t] EXCEPT !.left = Account!Sooner(s.topic[t].left)]]
  BY <1>1 DEF Account!Tick, IsSession
<1>3. \A t \in Topics : /\ s'.topic[t].demanded = s.topic[t].demanded
                        /\ s'.topic[t] = [demanded |-> s'.topic[t].demanded,
                                          left |-> s'.topic[t].left]
  <2> TAKE t \in Topics
  <2>1. s.topic[t] = [demanded |-> s.topic[t].demanded, left |-> s.topic[t].left]
    BY <1>1 DEF IsSession
  <2> QED BY <1>2, <2>1
<1>4. Follows(s, s')
  <2>1. /\ s'.out = s.out /\ s'.samples = s.samples /\ s'.login = s.login
        /\ s'.data = s.data /\ s'.pending = s.pending /\ s'.staged = s.staged
        /\ s'.resets = s.resets /\ s'.twice = s.twice /\ s'.before = s.before
        /\ s'.reset = s.reset /\ s'.dataReset = s.dataReset /\ s'.owner = s.owner
        /\ s'.todo = s.todo /\ s'.dataKept = s.dataKept
    BY <1>1, <1>2 DEF IsSession
  <2>2. Alike(s, s') BY <1>3, <2>1 DEF Alike
  <2>3. s'.topic = [t \in Topics |-> [demanded |-> s'.topic[t].demanded,
                                      left |-> s'.topic[t].left]]
    BY <1>2, <1>3
  <2>4. IsSession(s') BY <1>1, <1>2, <2>1, <2>3 DEF IsSession
  <2> QED BY <2>2, <2>4 DEF Follows
<1>5. SessionOK(s', topic') BY <1>1, <1>4, FollowsOK
<1>6. GameOK' BY <1>1, <1>4 DEF GameOK, Follows, Alike
<1>7. LifetimesOK' BY <1>1 DEF LifetimesOK, TopicsShaped, Lived
<1>8. StageOK'
  <2>1. s.resets = {} /\ ~s.reset /\ ~s.dataReset /\ Unsampled(s) /\ Silent(s)
    BY <1>1 DEF StageOK
  <2>2. s'.resets = {} /\ ~s'.reset /\ ~s'.dataReset /\ Unsampled(s') /\ Silent(s')
    BY <1>4, <2>1 DEF Follows, Alike, Unsampled, Silent
  <2> QED BY <1>1, <2>2 DEF StageOK, Stages, Begun, Sampling, Unsampled, Silent
<1> QED BY <1>5, <1>6, <1>7, <1>8

\* A new lifetime shows nothing, and a deadline only fences a poll.
LEMMA DemandKeeps ==
    ASSUME AccountInv, NEW u \in Topics, Account!ChangeDemand(u) \/ Account!Expire(u)
    PROVE  AccountInv'
<1> USE DEF AccountInv
<1>1. UNCHANGED <<game, fresh, s, poll>> BY DEF Account!ChangeDemand, Account!Expire
<1>2. topic = [t \in Topics |->
                  [demanded |-> topic[t].demanded, new |-> topic[t].new,
                   fenced |-> topic[t].fenced, renewed |-> topic[t].renewed,
                   owners |-> topic[t].owners, shown |-> topic[t].shown]]
  BY DEF LifetimesOK, TopicsShaped
<1>3. /\ \A t \in Topics \ {u} : topic'[t] = topic[t]
      /\ topic'[u].owners = {} \/ (/\ topic'[u].owners = topic[u].owners
                                   /\ topic'[u].demanded = topic[u].demanded
                                   /\ topic'[u].new = topic[u].new
                                   /\ topic'[u].renewed = topic[u].renewed)
      /\ topic'[u].fenced
      /\ topic' = [t \in Topics |->
                  [demanded |-> topic'[t].demanded, new |-> topic'[t].new,
                   fenced |-> topic'[t].fenced, renewed |-> topic'[t].renewed,
                   owners |-> topic'[t].owners, shown |-> topic'[t].shown]]
  <2>1. CASE Account!ChangeDemand(u) BY <1>2, <2>1 DEF Account!ChangeDemand
  <2>2. CASE Account!Expire(u)
    <3>1. topic' = [topic EXCEPT ![u] = [topic[u] EXCEPT !.fenced = TRUE, !.shown = FALSE]]
      BY <1>2, <2>2 DEF Account!Expire
    <3>2. topic[u] = [demanded |-> topic[u].demanded, new |-> topic[u].new,
                   fenced |-> topic[u].fenced, renewed |-> topic[u].renewed,
                   owners |-> topic[u].owners, shown |-> topic[u].shown]
      BY <1>2
    <3>3. topic'[u] = [demanded |-> topic[u].demanded, new |-> topic[u].new,
                   fenced |-> TRUE, renewed |-> topic[u].renewed,
                   owners |-> topic[u].owners, shown |-> FALSE]
      BY <1>2, <3>1, <3>2
    <3> QED BY <1>2, <3>1, <3>3
  <2> QED BY <2>1, <2>2
<1>4. LifetimesOK'
  <2> SUFFICES ASSUME NEW t \in Topics
      PROVE  /\ topic'[t].owners = {} \/ \E owner : topic'[t].owners = {owner}
             /\ topic'[t].owners # {} => /\ topic'[t].demanded /\ ~topic'[t].new
                                         /\ poll # "idle" => ~topic'[t].renewed
             /\ poll # "idle" /\ s.topic[t].demanded /\ ~topic'[t].fenced =>
                   topic'[t].demanded /\ ~topic'[t].new
    BY <1>1, <1>3, Zenon DEF LifetimesOK, TopicsShaped, Lived
  <2>3. Lived(t) BY DEF LifetimesOK
  <2>1. CASE t = u BY <1>3, <2>1, <2>3 DEF Lived
  <2>2. CASE t # u BY <1>3, <2>2, <2>3 DEF Lived
  <2> QED BY <2>1, <2>2
<1>5. SessionOK(s', topic')
  <2>1. \A t \in Topics : topic'[t].owners # {} => topic'[t].owners = topic[t].owners
    BY <1>3
  <2> QED BY <1>1, <2>1 DEF SessionOK, Matches
<1>6. GameOK' BY <1>1 DEF GameOK
<1>7. StageOK' BY <1>1 DEF StageOK, SamplesOK, SampleOK, OutOK, ResetsOK, Unsampled, Silent,
                           Demanded, Mine, Known
<1> QED BY <1>4, <1>5, <1>6, <1>7

\* The other fields of a session at the start of a poll.
Fresh(q, r) ==
    /\ r.out = q.out /\ r.resets = q.resets /\ r.twice = q.twice /\ r.before = q.before
    /\ r.reset = q.reset /\ r.dataReset = q.dataReset /\ r.owner = q.owner
    /\ r.todo = q.todo /\ r.samples = q.samples /\ r.dataKept = q.dataKept
    /\ r.checks = q.checks

LEMMA BeginEffect ==
    ASSUME IsSession(s)
    PROVE  LET r == Account!Begin(s)
           IN /\ IsSession(r) /\ Fresh(s, r) /\ r.login = s.login /\ r.data = s.data
              /\ r.pending \in {s.pending, NoOwner}
              /\ \A t \in Topics : r.topic[t].demanded <=> topic[t].demanded
<1> DEFINE r == Account!Begin(s)
           wanted == {t \in Topics : topic[t].demanded}
           begun == {t \in wanted : topic[t].new}
           told == IF "chat" \in begun THEN Account!ForgetChat(s) ELSE s
           topics == [t \in Topics |->
             [demanded |-> t \in wanted,
              left |-> IF t \in begun \/ (t \in wanted /\ ~s.topic[t].demanded) THEN 0
                       ELSE s.topic[t].left]]
<1>1. r = [told EXCEPT !.topic = topics] BY DEF Account!Begin
<1>2. IsSession(told) /\ told.pending \in {s.pending, NoOwner} /\ told.data = s.data
  BY ChatForgotten
<1>3. Fresh(s, told) /\ told.login = s.login
  <2>1. Account!ForgetChat(s).checks = s.checks BY DEF Account!ForgetChat, IsSession
  <2> QED BY <2>1, ChatForgotten DEF Keeps, Fresh
<1>4. /\ topics = [t \in Topics |-> [demanded |-> topics[t].demanded, left |-> topics[t].left]]
      /\ \A t \in Topics : topics[t].demanded <=> topic[t].demanded
  OBVIOUS
<1> HIDE DEF told, topics, r
<1>5. /\ r.topic = topics /\ r.checks = told.checks /\ r.login = told.login
      /\ r.data = told.data /\ r.pending = told.pending /\ r.staged = told.staged
      /\ r.out = told.out /\ r.resets = told.resets /\ r.twice = told.twice
      /\ r.before = told.before /\ r.reset = told.reset /\ r.dataReset = told.dataReset
      /\ r.owner = told.owner /\ r.todo = told.todo /\ r.samples = told.samples
      /\ r.dataKept = told.dataKept
  BY <1>1, <1>2 DEF IsSession
<1>6. IsSession(r) BY <1>1, <1>2, <1>4, <1>5 DEF IsSession
<1> QED BY <1>2, <1>3, <1>4, <1>5, <1>6 DEF Fresh, r

LEMMA SettleEffect ==
    ASSUME NEW q, IsSession(q)
    PROVE  LET r == Account!Settle(q)
           IN /\ IsSession(r) /\ Fresh(q, r) /\ r.topic = q.topic
              /\ r.login = IF Demanded(q, Topics) = {} THEN 0 ELSE q.login
              /\ r.data = IF Demanded(q, DataTopics) = {} THEN NoOwner ELSE q.data
              /\ r.pending = IF "chat" \in Demanded(q, Topics) THEN q.pending ELSE NoOwner
<1> DEFINE r == Account!Settle(q)
           chat == IF "chat" \in Account!Demanded(q, Topics) THEN q ELSE Account!ForgetChat(q)
           data == IF Account!Demanded(q, Account!DataTopics) = {} THEN NoOwner ELSE chat.data
           login == IF Account!Demanded(q, Topics) = {} THEN 0 ELSE chat.login
<1>1. r = [chat EXCEPT !.data = data, !.login = login]
  BY DEF Account!Settle
<1>2. /\ IsSession(chat) /\ chat.data = q.data /\ chat.topic = q.topic
      /\ chat.pending = IF "chat" \in Account!Demanded(q, Topics) THEN q.pending ELSE NoOwner
  BY ChatForgotten
<1>3. Fresh(q, chat) /\ chat.login = q.login
  <2>1. Account!ForgetChat(q).checks = q.checks BY DEF Account!ForgetChat, IsSession
  <2> QED BY <2>1, ChatForgotten DEF Keeps, Fresh
<1> HIDE DEF chat
<1>4. /\ data = IF Demanded(q, DataTopics) = {} THEN NoOwner ELSE q.data
      /\ login = IF Demanded(q, Topics) = {} THEN 0 ELSE q.login
  BY <1>2, <1>3 DEF Demanded, DataTopics
<1> HIDE DEF data, login, r
<1>5. /\ r.topic = chat.topic /\ r.checks = chat.checks /\ r.login = login
      /\ r.data = data /\ r.pending = chat.pending /\ r.staged = chat.staged
      /\ r.out = chat.out /\ r.resets = chat.resets /\ r.twice = chat.twice
      /\ r.before = chat.before /\ r.reset = chat.reset /\ r.dataReset = chat.dataReset
      /\ r.owner = chat.owner /\ r.todo = chat.todo /\ r.samples = chat.samples
      /\ r.dataKept = chat.dataKept
  BY <1>1, <1>2 DEF IsSession
<1>6. IsSession(r) BY <1>1, <1>2, <1>5 DEF IsSession
<1> QED BY <1>2, <1>3, <1>4, <1>5, <1>6 DEF Fresh, Demanded, r

\* begin_generation, the end of demand, and the layouts of what is due.
LEMMA PollStarts == ASSUME AccountInv, Account!StartPoll PROVE AccountInv'
<1> USE DEF AccountInv
<1> DEFINE b == Account!Begin(s)
           q == Account!Settle(b)
<1>1. /\ poll = "idle" /\ poll' \in {"account", "commit"} /\ UNCHANGED <<game, fresh>>
      /\ s' = q \/ \E bad : s' = Account!Ready(q, bad)
      /\ topic' = [t \in Topics |-> [topic[t] EXCEPT !.fenced = ~topic[t].demanded,
                                                     !.renewed = FALSE,
                                                     !.new = @ /\ ~topic[t].demanded]]
  BY DEF Account!StartPoll
<1>2. IsSession(s) /\ s.twice = FALSE /\ Matches(s, topic) /\ Owned(s) BY DEF SessionOK
<1>3. /\ IsSession(b) /\ Fresh(s, b) /\ b.login = s.login /\ b.data = s.data
      /\ b.pending \in {s.pending, NoOwner}
      /\ \A t \in Topics : b.topic[t].demanded <=> topic[t].demanded
  BY <1>2, BeginEffect
<1> HIDE DEF b
<1>4. /\ IsSession(q) /\ Fresh(b, q) /\ q.topic = b.topic
      /\ q.login = IF Demanded(b, Topics) = {} THEN 0 ELSE b.login
      /\ q.data = IF Demanded(b, DataTopics) = {} THEN NoOwner ELSE b.data
      /\ q.pending = IF "chat" \in Demanded(b, Topics) THEN b.pending ELSE NoOwner
  BY <1>3, SettleEffect
<1> HIDE DEF q
<1>5. Fresh(s, q) BY <1>3, <1>4 DEF Fresh
<1>6. \A t \in Topics : topic[t] = [demanded |-> topic[t].demanded, new |-> topic[t].new,
                   fenced |-> topic[t].fenced, renewed |-> topic[t].renewed,
                   owners |-> topic[t].owners, shown |-> topic[t].shown]
  BY DEF LifetimesOK, TopicsShaped
<1>7. \A t \in Topics :
          /\ topic'[t] = [demanded |-> topic'[t].demanded, new |-> topic'[t].new,
                          fenced |-> topic'[t].fenced, renewed |-> topic'[t].renewed,
                          owners |-> topic'[t].owners, shown |-> topic'[t].shown]
          /\ topic'[t].demanded = topic[t].demanded /\ topic'[t].owners = topic[t].owners
          /\ topic'[t].new <=> topic[t].new /\ ~topic[t].demanded
          /\ topic'[t].fenced <=> ~topic[t].demanded
          /\ ~topic'[t].renewed
  <2> TAKE t \in Topics
  <2> DEFINE new == topic[t].new /\ ~topic[t].demanded
             fenced == ~topic[t].demanded
  <2>1. topic'[t] = [topic[t] EXCEPT !.fenced = fenced, !.renewed = FALSE, !.new = new]
    BY <1>1
  <2>2. (new <=> topic[t].new /\ ~topic[t].demanded) /\ (fenced <=> ~topic[t].demanded)
    OBVIOUS
  <2>3. new \in BOOLEAN /\ fenced \in BOOLEAN OBVIOUS
  <2> HIDE DEF new, fenced
  <2>4. topic'[t] = [demanded |-> topic[t].demanded, new |-> new,
                   fenced |-> fenced, renewed |-> FALSE,
                   owners |-> topic[t].owners, shown |-> topic[t].shown]
    BY <1>6, <2>1
  <2>5. /\ topic'[t].demanded = topic[t].demanded /\ topic'[t].owners = topic[t].owners
        /\ topic'[t].new = new /\ topic'[t].fenced = fenced /\ topic'[t].renewed = FALSE
        /\ topic'[t] = [demanded |-> topic'[t].demanded, new |-> topic'[t].new,
                          fenced |-> topic'[t].fenced, renewed |-> topic'[t].renewed,
                          owners |-> topic'[t].owners, shown |-> topic'[t].shown]
    BY <2>4
  <2> QED BY <2>2, <2>3, <2>5
<1>8. Matches(q, topic')
  <2> SUFFICES ASSUME NEW t \in Topics, topic'[t].owners # {}
      PROVE  /\ q.topic[t].demanded
             /\ topic'[t].owners = {Mine(q, t)} /\ Known(q, t)
    BY DEF Matches
  <2>1. topic'[t].owners = topic[t].owners BY <1>7
  <2>2. topic[t].demanded BY <2>1 DEF LifetimesOK, Lived
  <2>3. s.resets = {} BY <1>1 DEF StageOK
  <2>4. topic[t].owners = {Mine(s, t)} /\ Known(s, t) BY <1>2, <2>1, <2>3 DEF Matches
  <2>5. b.topic[t].demanded /\ t \in Demanded(b, Topics) BY <1>3, <2>2, DemandedTopics
  <2>6. t # "player" => t \in Demanded(b, DataTopics) BY <2>5, DemandedTopics
  <2>7. Mine(q, t) = Mine(s, t) /\ (Known(q, t) <=> Known(s, t))
    BY <1>3, <1>4, <2>5, <2>6 DEF Mine, Known
  <2> QED BY <1>4, <2>1, <2>4, <2>5, <2>7
<1>9. Owned(q)
  <2>1. Demanded(b, DataTopics) # {} => Demanded(b, Topics) # {} BY DemandedTopics
  <2>2. "chat" \in Demanded(b, Topics) => Demanded(b, DataTopics) # {} BY DemandedTopics
  <2> QED BY <1>2, <1>3, <1>4, <2>1, <2>2 DEF Owned
<1>10. SessionOK(q, topic') BY <1>2, <1>4, <1>5, <1>8, <1>9 DEF SessionOK, Fresh
<1>11. Follows(q, s') BY <1>1, <1>4, FollowsItself, Readied
<1>12. SessionOK(s', topic') BY <1>10, <1>11, FollowsOK
<1>13. GameOK'
  <2>1. s'.login = q.login BY <1>11 DEF Follows, Alike
  <2>2. s'.login \in {0, s.login} BY <1>3, <1>4, <2>1
  <2>3. UNCHANGED <<game, fresh>> BY <1>1
  <2> QED BY <2>2, <2>3 DEF GameOK
<1>14. LifetimesOK'
  <2>1. topic' = [t \in Topics |->
                  [demanded |-> topic'[t].demanded, new |-> topic'[t].new,
                   fenced |-> topic'[t].fenced, renewed |-> topic'[t].renewed,
                   owners |-> topic'[t].owners, shown |-> topic'[t].shown]]
    <3>1. DOMAIN topic' = Topics /\ topic' = [t \in Topics |-> topic'[t]] BY <1>1
    <3> QED BY <3>1, <1>7
  <2> SUFFICES ASSUME NEW t \in Topics
      PROVE  /\ topic'[t].owners = {} \/ \E owner : topic'[t].owners = {owner}
             /\ topic'[t].owners # {} => /\ topic'[t].demanded /\ ~topic'[t].new
                                         /\ ~topic'[t].renewed
             /\ ~topic'[t].fenced => topic'[t].demanded /\ ~topic'[t].new
    BY <2>1, Zenon DEF LifetimesOK, TopicsShaped, Lived
  <2>2. Lived(t) BY DEF LifetimesOK
  <2>3. topic'[t].owners = topic[t].owners BY <1>7
  <2> QED BY <1>7, <2>2, <2>3 DEF Lived
<1>15. StageOK'
  <2>1. s.resets = {} /\ ~s.reset /\ ~s.dataReset /\ Unsampled(s) /\ Silent(s)
    BY <1>1 DEF StageOK
  <2>2. q.resets = {} /\ ~q.reset /\ ~q.dataReset /\ Unsampled(q) /\ Silent(q)
    BY <1>5, <2>1 DEF Fresh, Unsampled, Silent
  <2>3. s'.resets = {} /\ ~s'.reset /\ ~s'.dataReset /\ Unsampled(s') /\ Silent(s')
    BY <1>11, <2>2 DEF Follows, Alike, Unsampled, Silent
  <2> QED BY <1>1, <2>3 DEF StageOK, Stages, Begun, Sampling, Unsampled, Silent, OutOK
<1> QED BY <1>12, <1>13, <1>14, <1>15

-----------------------------------------------------------------------------
(* The reads of a poll. *)

LEMMA SameLifetimes ==
    ASSUME LifetimesOK, poll # "idle", UNCHANGED topic,
           \A t \in Topics : s'.topic[t].demanded = s.topic[t].demanded
    PROVE  LifetimesOK'
<1>1. \A t \in Topics : UNCHANGED topic[t] OBVIOUS
<1> QED BY <1>1 DEF LifetimesOK, TopicsShaped, Lived

LEMMA SameGame ==
    ASSUME GameOK, UNCHANGED <<game, fresh>>, s'.login \in {0, s.login, game.account}
    PROVE  GameOK'
BY DEF GameOK

\* clear_login
LEMMA LoginCleared ==
    ASSUME NEW q, NEW shown, SessionOK(q, shown), q.resets = {}
    PROVE  LET r == Account!ClearLogin(q)
           IN /\ SessionOK(r, shown) /\ r.login = 0
              /\ \A t \in Topics : r.topic[t].demanded = q.topic[t].demanded
              /\ \A t \in Topics : r.out[t] \in {q.out[t], NoOwner}
<1>1. CASE q.login = 0 BY <1>1 DEF Account!ClearLogin
<1>2. CASE q.login # 0
  <2> DEFINE z == [q EXCEPT !.login = 0]
             r == Account!ResetAccount(z)
  <2>1. IsSession(q) /\ q.twice = FALSE BY DEF SessionOK
  <2>2. /\ z.topic = q.topic /\ z.checks = q.checks /\ z.login = 0 /\ z.data = q.data
        /\ z.pending = q.pending /\ z.staged = q.staged /\ z.out = q.out
        /\ z.resets = q.resets /\ z.twice = q.twice /\ z.before = q.before
        /\ z.reset = q.reset /\ z.dataReset = q.dataReset /\ z.owner = q.owner
        /\ z.todo = q.todo /\ z.samples = q.samples /\ z.dataKept = q.dataKept
    BY <2>1 DEF IsSession
  <2>3. z = [q EXCEPT !.login = 0] OBVIOUS
  <2> HIDE DEF z
  <2>4. IsSession(z) BY <2>1, <2>2, <2>3 DEF IsSession
  <2>5. \A t \in Topics : shown[t].owners # {} => z.topic[t].demanded
    BY <2>2 DEF SessionOK, Matches
  <2>6. SessionOK(r, shown) /\ Keeps(z, r) BY <2>1, <2>2, <2>4, <2>5, AccountIsReset
  <2>7. Account!ClearLogin(q) = r BY <1>2, <2>3 DEF Account!ClearLogin
  <2> HIDE DEF r
  <2> QED BY <2>2, <2>6, <2>7 DEF Keeps
<1> QED BY <1>1, <1>2

LEMMA NoAccountKeeps == ASSUME AccountInv, Account!NoAccount PROVE AccountInv'
<1> USE DEF AccountInv
<1> DEFINE c == Account!ClearLogin(s)
<1>1. /\ poll = "account" /\ poll' = "commit" /\ UNCHANGED <<game, fresh, topic>>
      /\ s' = Account!Unavailable(c, Topics, Sample)
  BY DEF Account!NoAccount
<1>2. s.resets = {} /\ Silent(s) BY <1>1 DEF StageOK
<1>3. /\ SessionOK(c, topic) /\ c.login = 0
      /\ \A t \in Topics : c.topic[t].demanded = s.topic[t].demanded
      /\ \A t \in Topics : c.out[t] \in {s.out[t], NoOwner}
  BY <1>2, LoginCleared
<1> HIDE DEF c
<1>4. Follows(c, s') BY <1>1, <1>3, UnavailableFollows DEF SessionOK
<1>5. SessionOK(s', topic') BY <1>1, <1>3, <1>4, FollowsOK
<1>6. /\ s'.login = 0
      /\ \A t \in Topics : s'.topic[t].demanded = s.topic[t].demanded
  BY <1>3, <1>4 DEF Follows, Alike
<1>7. Silent(s') BY <1>2, <1>3, <1>4 DEF Follows, Alike, Silent
<1>8. GameOK' BY <1>1, <1>6, SameGame
<1>9. LifetimesOK' BY <1>1, <1>6, SameLifetimes
<1>10. StageOK' BY <1>1, <1>7 DEF StageOK, Stages, Begun, Sampling, Silent, OutOK
<1> QED BY <1>5, <1>8, <1>9, <1>10

\* The account found before a poll's reads is the session's, whether it is a new one.
LEMMA AccountFound == ASSUME AccountInv, Account!AccountBefore PROVE AccountInv'
<1> USE DEF AccountInv
<1> DEFINE changed == s.login # 0 /\ s.login # game.account
<1>1. /\ poll = "account" /\ poll' = "data" /\ UNCHANGED <<game, fresh, topic>>
      /\ game.account # 0
  BY DEF Account!AccountBefore
<1>2. /\ IsSession(s) /\ s.twice = FALSE /\ s.resets = {} /\ ~s.reset /\ ~s.dataReset
      /\ Silent(s) /\ Unsampled(s)
  BY <1>1 DEF StageOK, SessionOK
<1>3. PICK q : /\ s' = [q EXCEPT !.login = game.account, !.before = game.account,
                                 !.reset = changed, !.dataReset = changed]
               /\ \/ ~changed /\ q = s
                  \/ changed /\ \E bad : q = Account!Revalidate(Account!ResetAccount(s), bad)
  BY Zenon DEF Account!AccountBefore
<1>4. /\ IsSession(q) /\ Silent(q) /\ Unsampled(q) /\ q.twice = FALSE
      /\ \A t \in Topics : q.topic[t].demanded = s.topic[t].demanded
      /\ ~changed => q = s
      /\ changed => /\ q.resets = Demanded(s, Topics)
                    /\ q.data = NoOwner /\ q.pending = NoOwner
  <2>1. CASE ~changed BY <1>2, <1>3, <2>1
  <2>2. CASE changed
    <3> DEFINE r == Account!ResetAccount(s)
    <3>1. \A t \in Topics : topic[t].owners # {} => s.topic[t].demanded
      BY DEF SessionOK, Matches
    <3>2. /\ SessionOK(r, topic) /\ Keeps(s, r) /\ r.data = NoOwner /\ r.pending = NoOwner
          /\ r.resets = s.resets \cup Demanded(s, Topics)
      BY <1>2, <3>1, AccountIsReset
    <3>3. PICK bad : q = Account!ValidateDue(r, bad)
      BY <1>3, <2>2 DEF Account!Revalidate
    <3> HIDE DEF r
    <3>4. Follows(r, q) BY <3>2, <3>3, DueValidated DEF SessionOK
    <3>5. Silent(q) /\ Unsampled(q)
      BY <1>2, <3>2, <3>4 DEF Silent, Unsampled, Keeps, Follows, Alike
    <3> QED BY <1>2, <2>2, <3>2, <3>4, <3>5 DEF SessionOK, Keeps, Follows, Alike
  <2> QED BY <2>1, <2>2
<1>5. /\ s'.topic = q.topic /\ s'.checks = q.checks /\ s'.login = game.account
      /\ s'.data = q.data
      /\ s'.pending = q.pending /\ s'.staged = q.staged /\ s'.out = q.out
      /\ s'.resets = q.resets /\ s'.twice = q.twice /\ s'.before = game.account
      /\ (s'.reset <=> changed) /\ (s'.dataReset <=> changed) /\ s'.owner = q.owner
      /\ s'.todo = q.todo /\ s'.samples = q.samples /\ s'.dataKept = q.dataKept
  BY <1>3, <1>4 DEF IsSession
<1>6. IsSession(s')
  <2>1. s' = [q EXCEPT !.login = s'.login, !.before = s'.before, !.reset = s'.reset,
                       !.dataReset = s'.dataReset]
    <3> HIDE DEF changed
    <3> QED BY <1>3, <1>5
  <2>2. /\ s'.out = [t \in Topics |-> s'.out[t]]
        /\ s'.samples = [t \in Topics |-> s'.samples[t]]
        /\ s'.topic = [t \in Topics |-> [demanded |-> s'.topic[t].demanded,
                                          left |-> s'.topic[t].left]]
    <3>1. s'.out = q.out /\ s'.samples = q.samples /\ s'.topic = q.topic BY <1>5
    <3> QED BY <1>4, <3>1 DEF IsSession
  <2>3. q = [topic |-> q.topic, checks |-> q.checks, login |-> q.login, data |-> q.data,
            pending |-> q.pending, staged |-> q.staged, out |-> q.out, resets |-> q.resets,
            twice |-> q.twice, before |-> q.before, reset |-> q.reset,
            dataReset |-> q.dataReset, owner |-> q.owner, todo |-> q.todo,
            samples |-> q.samples, dataKept |-> q.dataKept]
    BY <1>4 DEF IsSession
  <2>4. s' = [topic |-> s'.topic, checks |-> s'.checks, login |-> s'.login,
              data |-> s'.data, pending |-> s'.pending, staged |-> s'.staged,
              out |-> s'.out, resets |-> s'.resets, twice |-> s'.twice,
              before |-> s'.before, reset |-> s'.reset, dataReset |-> s'.dataReset,
              owner |-> s'.owner, todo |-> s'.todo, samples |-> s'.samples,
              dataKept |-> s'.dataKept]
    <3> DEFINE login == s'.login
               before == s'.before
               reset == s'.reset
               dataReset == s'.dataReset
    <3>1. s' = [q EXCEPT !.login = login, !.before = before, !.reset = reset,
                         !.dataReset = dataReset]
      BY <2>1
    <3> HIDE DEF login, before, reset, dataReset
    <3> QED BY <2>3, <3>1
  <2> QED BY <2>2, <2>4 DEF IsSession
<1>7. \A t \in Topics : s'.topic[t].demanded = s.topic[t].demanded BY <1>4, <1>5
<1>8. Demanded(s', Topics) = Demanded(s, Topics)
  BY <1>7 DEF Demanded, Account!Demanded
<1>9. SessionOK(s', topic')
  <2>1. CASE changed
    <3>1. \A t \in Topics : topic'[t].owners # {} => s'.topic[t].demanded
      BY <1>1, <1>7 DEF SessionOK, Matches
    <3>2. s'.resets = Demanded(s', Topics) BY <1>4, <1>5, <1>8, <2>1
    <3>3. s'.twice = FALSE /\ s'.pending = NoOwner /\ s'.data = NoOwner
      BY <1>4, <1>5, <2>1
    <3>4. Demanded(s', Topics) \subseteq s'.resets BY <3>2
    <3> HIDE DEF changed
    <3> QED BY <1>6, <3>1, <3>3, <3>4, AllReset
  <2>2. CASE ~changed
    <3>1. s'.data = s.data /\ s'.pending = s.pending /\ s'.twice = FALSE /\ s'.resets = {}
      BY <1>2, <1>4, <1>5, <2>2
    <3>2. Owned(s') BY <1>5, <2>2, <3>1 DEF SessionOK, Owned
    <3>3. ASSUME NEW t \in Topics, topic'[t].owners # {}
          PROVE  s'.topic[t].demanded /\ topic'[t].owners = {Mine(s', t)} /\ Known(s', t)
      <4>1. s.topic[t].demanded /\ topic[t].owners = {Mine(s, t)} /\ Known(s, t)
        BY <1>1, <1>2, <3>3 DEF SessionOK, Matches
      <4>2. s.login # 0 BY <4>1 DEF Known, SessionOK, Owned
      <4>3. s'.login = s.login BY <1>5, <2>2, <4>2
      <4> QED BY <1>1, <1>7, <3>1, <4>1, <4>3 DEF Mine, Known
    <3> QED BY <1>6, <3>1, <3>2, <3>3 DEF SessionOK, Matches
  <2> QED BY <2>1, <2>2
<1>10. GameOK' BY <1>1, <1>5, SameGame
<1>11. LifetimesOK' BY <1>1, <1>7, SameLifetimes
<1>12. StageOK'
  <2>1. Silent(s') /\ Unsampled(s') BY <1>4, <1>5 DEF Silent, Unsampled
  <2>2. ResetsOK(s') BY <1>2, <1>4, <1>5, <1>8 DEF ResetsOK
  <2>3. s'.before = s'.login /\ s'.login # 0 BY <1>1, <1>5
  <2> QED BY <1>1, <2>1, <2>2, <2>3 DEF StageOK, Stages, Begun, Sampling
<1> QED BY <1>9, <1>10, <1>11, <1>12

LEMMA TodoSet ==
    ASSUME NEW q, IsSession(q), NEW ts
    PROVE  LET r == [q EXCEPT !.todo = ts]
           IN /\ r.topic = q.topic /\ r.login = q.login /\ r.data = q.data
              /\ r.resets = q.resets /\ r.before = q.before /\ r.owner = q.owner
              /\ r.samples = q.samples /\ r.out = q.out /\ r.dataKept = q.dataKept
              /\ r.todo = ts /\ IsSession(r)
              /\ \A shown : SessionOK(q, shown) => SessionOK(r, shown)
              /\ ResetsOK(q) => ResetsOK(r)
<1> DEFINE r == [q EXCEPT !.todo = ts]
<1>1. /\ r.topic = q.topic /\ r.checks = q.checks /\ r.login = q.login /\ r.data = q.data
      /\ r.pending = q.pending /\ r.staged = q.staged /\ r.out = q.out
      /\ r.resets = q.resets /\ r.twice = q.twice /\ r.before = q.before
      /\ r.reset = q.reset /\ r.dataReset = q.dataReset /\ r.owner = q.owner
      /\ r.todo = ts /\ r.samples = q.samples /\ r.dataKept = q.dataKept
  BY DEF IsSession
<1>2. r = [q EXCEPT !.todo = ts] OBVIOUS
<1> HIDE DEF r
<1>3. IsSession(r) BY <1>1, <1>2 DEF IsSession
<1>4. \A shown : SessionOK(q, shown) => SessionOK(r, shown)
  BY <1>1, <1>3 DEF SessionOK, Matches, Mine, Known, Owned
<1>5. ResetsOK(q) => ResetsOK(r) BY <1>1 DEF ResetsOK, Demanded, Account!Demanded
<1> QED BY <1>1, <1>3, <1>4, <1>5 DEF r

\* Profile data is read only when its owner was found.
LEMMA TodoKnown ==
    ASSUME NEW q
    PROVE  /\ Account!Todo(q) \subseteq Topics
           /\ \A t \in Account!Todo(q) : t # "player" => q.owner # NoOwner
BY DEF Account!Todo, Account!DataTopics

\* A poll in which nothing is sampled yet.
LEMMA NothingSampled ==
    ASSUME NEW q, SessionOK(q, topic), ResetsOK(q), Silent(q), Unsampled(q),
           q.login = s.login, q.before = q.login, q.login # 0,
           \A t \in Topics : q.topic[t].demanded = s.topic[t].demanded,
           AccountInv, poll = "data", poll' = "sample", UNCHANGED <<game, fresh, topic>>,
           s' = [q EXCEPT !.todo = Account!Todo(q)]
    PROVE  AccountInv'
<1> USE DEF AccountInv
<1>1. /\ s'.topic = q.topic /\ s'.login = q.login /\ s'.data = q.data
      /\ s'.before = q.before /\ s'.owner = q.owner /\ s'.samples = q.samples
      /\ s'.out = q.out /\ s'.todo = Account!Todo(q)
      /\ SessionOK(s', topic') /\ ResetsOK(s')
  <2>1. IsSession(q) /\ topic' = topic BY DEF SessionOK
  <2> QED BY <2>1, TodoSet
<1>2. GameOK' BY <1>1, SameGame
<1>3. LifetimesOK' BY <1>1, SameLifetimes
<1>4. SamplesOK' BY <1>1, TodoKnown DEF SamplesOK, Unsampled
<1>5. Silent(s') BY <1>1 DEF Silent
<1>6. StageOK' BY <1>1, <1>4, <1>5 DEF StageOK, Stages, Begun, Sampling
<1> QED BY <1>1, <1>2, <1>3, <1>6

LEMMA NoDataDueKeeps == ASSUME AccountInv, Account!NoDataDue PROVE AccountInv'
<1>1. /\ poll = "data" /\ poll' = "sample" /\ UNCHANGED <<game, fresh, topic>>
      /\ s' = [s EXCEPT !.todo = Account!Todo(s)]
  BY DEF Account!NoDataDue
<1>2. SessionOK(s, topic) /\ ResetsOK(s) /\ Silent(s) /\ Unsampled(s)
  BY <1>1 DEF AccountInv, StageOK, Begun
<1>3. s.before = s.login /\ s.login # 0 BY <1>1 DEF AccountInv, StageOK, Begun
<1> QED BY <1>1, <1>2, <1>3, NothingSampled

LEMMA NoDataKeeps == ASSUME AccountInv, Account!NoData PROVE AccountInv'
<1> DEFINE c == Account!ClearProfileData(s)
           q == Account!Unavailable(c, Account!DataTopics, Sample)
<1>1. /\ poll = "data" /\ poll' = "sample" /\ UNCHANGED <<game, fresh, topic>>
      /\ s' = [q EXCEPT !.todo = Account!Todo(q)]
  BY DEF Account!NoData
<1>2. /\ SessionOK(s, topic) /\ ResetsOK(s) /\ Silent(s) /\ Unsampled(s)
      /\ s.before = s.login /\ s.login # 0
  BY <1>1 DEF AccountInv, StageOK, Begun
<1>3. SessionOK(c, topic) /\ ResetsOK(c) /\ Keeps(s, c) BY <1>2, DataCleared
<1> HIDE DEF c
<1>4. Follows(c, q) BY <1>3, UnavailableFollows DEF SessionOK
<1> HIDE DEF q
<1>5. SessionOK(q, topic) /\ ResetsOK(q) BY <1>3, <1>4, FollowsOK
<1>6. /\ q.login = s.login /\ q.before = q.login /\ q.login # 0
      /\ \A t \in Topics : q.topic[t].demanded = s.topic[t].demanded
      /\ Silent(q) /\ Unsampled(q)
  BY <1>2, <1>3, <1>4 DEF Keeps, Follows, Alike, Silent, Unsampled
<1> QED BY <1>1, <1>5, <1>6, NothingSampled

\* The data is the session's, whether it is new, as long as the poll samples it.
LEMMA DataFound == ASSUME AccountInv, Account!DataBefore PROVE AccountInv'
<1> DEFINE owner == [account |-> s.before, data |-> game.data]
           changed == s.data # NoOwner /\ s.data # owner
<1>1. /\ poll = "data" /\ poll' = "sample" /\ UNCHANGED <<game, fresh, topic>>
      /\ game.data # 0
  BY DEF Account!DataBefore
<1>2. PICK q : /\ \/ ~changed /\ q = s
                  \/ /\ changed
                     /\ \E bad : q = Account!Revalidate(Account!ClearProfileData(s), bad)
               /\ LET found == [q EXCEPT !.data = owner, !.owner = owner]
                  IN s' = [found EXCEPT !.todo = Account!Todo(found)]
  BY Zenon DEF Account!DataBefore
<1>3. /\ SessionOK(s, topic) /\ ResetsOK(s) /\ Silent(s) /\ Unsampled(s)
      /\ s.before = s.login /\ s.login # 0
  BY <1>1 DEF AccountInv, StageOK, Begun
<1>4. /\ SessionOK(q, topic) /\ ResetsOK(q) /\ Silent(q) /\ Unsampled(q)
      /\ q.login = s.login /\ q.before = s.before
      /\ \A t \in Topics : q.topic[t].demanded = s.topic[t].demanded
      /\ q.data = NoOwner \/ q.data = owner
  <2>1. CASE ~changed BY <1>2, <1>3, <2>1
  <2>2. CASE changed
    <3> DEFINE c == Account!ClearProfileData(s)
    <3>1. /\ SessionOK(c, topic) /\ ResetsOK(c) /\ Keeps(s, c) /\ c.data = NoOwner
      BY <1>3, DataCleared
    <3>2. PICK bad : q = Account!ValidateDue(c, bad)
      BY <1>2, <2>2 DEF Account!Revalidate
    <3> HIDE DEF c
    <3>3. Follows(c, q) BY <3>1, <3>2, DueValidated DEF SessionOK
    <3>4. SessionOK(q, topic) /\ ResetsOK(q) BY <3>1, <3>3, FollowsOK
    <3> QED BY <1>3, <3>1, <3>3, <3>4 DEF Keeps, Follows, Alike, Silent, Unsampled
  <2> QED BY <2>1, <2>2
<1> HIDE DEF changed
<1> DEFINE found == [q EXCEPT !.data = owner, !.owner = owner]
<1>5. /\ found.topic = q.topic /\ found.checks = q.checks /\ found.login = q.login
      /\ found.data = owner /\ found.pending = q.pending /\ found.staged = q.staged
      /\ found.out = q.out /\ found.resets = q.resets /\ found.twice = q.twice
      /\ found.before = q.before /\ found.reset = q.reset
      /\ found.dataReset = q.dataReset /\ found.owner = owner /\ found.todo = q.todo
      /\ found.samples = q.samples /\ found.dataKept = q.dataKept
  BY <1>4 DEF SessionOK, IsSession
<1>6. s' = [found EXCEPT !.todo = Account!Todo(found)] BY <1>2
<1>7. found = [q EXCEPT !.data = owner, !.owner = owner] OBVIOUS
<1> HIDE DEF found
<1>8. IsSession(found) BY <1>4, <1>5, <1>7 DEF SessionOK, IsSession
<1>9. Matches(found, topic) /\ Owned(found)
  <2>1. owner.account = s.before OBVIOUS
  <2> HIDE DEF owner
  <2>2. Owned(found) BY <1>3, <1>4, <1>5, <2>1 DEF SessionOK, Owned
  <2>3. Matches(found, topic)
    <3> SUFFICES ASSUME NEW t \in Topics, topic[t].owners # {}, t \notin found.resets
        PROVE  topic[t].owners = {Mine(found, t)} /\ Known(found, t)
      BY <1>4, <1>5 DEF SessionOK, Matches
    <3>1. topic[t].owners = {Mine(q, t)} /\ Known(q, t)
      BY <1>4, <1>5 DEF SessionOK, Matches
    <3>2. CASE t = "player" BY <1>5, <3>1, <3>2 DEF Mine, Known
    <3>3. CASE t # "player" BY <1>4, <1>5, <3>1, <3>3 DEF Mine, Known
    <3> QED BY <3>2, <3>3
  <2> QED BY <2>2, <2>3
<1>10. SessionOK(found, topic) BY <1>4, <1>5, <1>8, <1>9 DEF SessionOK
<1>11. ResetsOK(found) BY <1>4, <1>5 DEF ResetsOK, Demanded, Account!Demanded
<1>12. /\ s'.topic = found.topic /\ s'.login = found.login /\ s'.data = found.data
       /\ s'.before = found.before /\ s'.owner = found.owner
       /\ s'.samples = found.samples /\ s'.out = found.out
       /\ s'.todo = Account!Todo(found)
       /\ SessionOK(s', topic') /\ ResetsOK(s')
  BY <1>1, <1>6, <1>8, <1>10, <1>11, TodoSet
<1>13. GameOK' BY <1>1, <1>4, <1>5, <1>12, SameGame DEF AccountInv
<1>14. LifetimesOK' BY <1>1, <1>4, <1>5, <1>12, SameLifetimes DEF AccountInv
<1>15. SamplesOK'
  <2>1. \A t \in Topics : s'.samples[t] = NoOwner BY <1>4, <1>5, <1>12 DEF Unsampled
  <2>2. s'.todo \subseteq Topics /\ \A t \in s'.todo : t # "player" => s'.owner # NoOwner
    BY <1>12, TodoKnown
  <2>3. /\ s'.owner = s'.data /\ s'.owner.data \in 1 .. fresh'
        /\ s'.owner = [account |-> s'.before, data |-> s'.owner.data]
    <3>1. s'.owner = owner /\ s'.data = owner /\ s'.before = s.before
      BY <1>4, <1>5, <1>12
    <3>2. game.data \in 1 .. fresh' BY <1>1 DEF AccountInv, GameOK
    <3> QED BY <3>1, <3>2
  <2> QED BY <2>1, <2>2, <2>3 DEF SamplesOK
<1>16. StageOK'
  <2>1. Silent(s') BY <1>4, <1>5, <1>12 DEF Silent
  <2>2. s'.before = s'.login /\ s'.login # 0 BY <1>3, <1>4, <1>5, <1>12
  <2> QED BY <1>1, <1>12, <1>15, <2>1, <2>2 DEF StageOK, Stages, Begun, Sampling
<1> QED BY <1>12, <1>13, <1>14, <1>16 DEF AccountInv

LEMMA FirstTopic ==
    ASSUME Topics \subseteq Account!AccountTopics, NEW ts, ts \subseteq Topics, ts # {}
    PROVE  Account!First(ts) \in ts
<1> DEFINE rank(t) == Account!SampleOrder[t]
<1>1. /\ rank("inventory") = 1 /\ rank("currencies") = 2 /\ rank("mastery") = 3
      /\ rank("intrinsics") = 4 /\ rank("star_chart") = 5 /\ rank("player") = 6
      /\ rank("chat") = 7
  BY DEF Account!SampleOrder
<1>2. \A t \in ts : t \in {"inventory", "currencies", "mastery", "intrinsics", "star_chart",
                           "player", "chat"}
  BY DEF Account!AccountTopics
<1> HIDE DEF rank
<1>3. \E t \in ts : \A u \in ts : rank(t) <= rank(u)
  <2>1. CASE "inventory" \in ts BY <1>1, <1>2, <2>1
  <2>2. CASE "inventory" \notin ts /\ "currencies" \in ts BY <1>1, <1>2, <2>2
  <2>3. CASE "inventory" \notin ts /\ "currencies" \notin ts /\ "mastery" \in ts
    BY <1>1, <1>2, <2>3
  <2>4. CASE "inventory" \notin ts /\ "currencies" \notin ts /\ "mastery" \notin ts
             /\ "intrinsics" \in ts
    BY <1>1, <1>2, <2>4
  <2>5. CASE "inventory" \notin ts /\ "currencies" \notin ts /\ "mastery" \notin ts
             /\ "intrinsics" \notin ts
    BY <1>1, <1>2, <2>5
  <2> QED BY <2>1, <2>2, <2>3, <2>4, <2>5
<1> QED BY <1>3 DEF Account!First, rank

\* A sample is the owner's at the moment it is read.
LEMMA SampleKeeps ==
    ASSUME AccountInv, Topics \subseteq Account!AccountTopics, Account!TakeSample
    PROVE  AccountInv'
<1> USE DEF AccountInv
<1> DEFINE t == Account!First(s.todo)
<1>1. /\ poll = "sample" /\ poll' = "sample" /\ s.todo # {}
      /\ UNCHANGED <<game, fresh, topic>>
      /\ \E check : \E value \in {Failed, Account!OwnerOf(t, game)} :
            s' = [s EXCEPT !.todo = @ \ {t}, !.checks[t] = check,
                           !.samples[t] = IF Account!Due(s, t) THEN value ELSE NoOwner]
  BY Zenon DEF Account!TakeSample
<1>2. /\ SamplesOK /\ IsSession(s) /\ SessionOK(s, topic) /\ ResetsOK(s) /\ Silent(s)
      /\ s.before = s.login /\ s.login # 0
  BY <1>1 DEF StageOK, Begun, Sampling, SessionOK
<1>3. t \in s.todo /\ t \in Topics BY <1>1, <1>2, FirstTopic DEF SamplesOK
<1>4. t # "player" => s.owner # NoOwner BY <1>2, <1>3 DEF SamplesOK
<1> HIDE DEF t
<1>5. PICK check : \E value \in {Failed, Account!OwnerOf(t, game)} :
            s' = [s EXCEPT !.todo = @ \ {t}, !.checks[t] = check,
                           !.samples[t] = IF Account!Due(s, t) THEN value ELSE NoOwner]
  BY <1>1
<1>5a. PICK value \in {Failed, Account!OwnerOf(t, game)} :
            s' = [s EXCEPT !.todo = @ \ {t}, !.checks[t] = check,
                           !.samples[t] = IF Account!Due(s, t) THEN value ELSE NoOwner]
  BY <1>5
<1> DEFINE sample == IF Account!Due(s, t) THEN value ELSE NoOwner
<1>6. /\ s'.topic = s.topic /\ s'.checks = [s.checks EXCEPT ![t] = check]
      /\ s'.login = s.login /\ s'.data = s.data
      /\ s'.pending = s.pending /\ s'.staged = s.staged /\ s'.out = s.out
      /\ s'.resets = s.resets /\ s'.twice = s.twice /\ s'.before = s.before
      /\ s'.reset = s.reset /\ s'.dataReset = s.dataReset /\ s'.owner = s.owner
      /\ s'.todo = s.todo \ {t} /\ s'.samples = [s.samples EXCEPT ![t] = sample]
      /\ s'.dataKept = s.dataKept
  BY <1>2, <1>5a DEF IsSession
<1>7. IsSession(s')
  <2>1. s' = [s EXCEPT !.todo = s'.todo, !.checks = s'.checks, !.samples = s'.samples]
    BY <1>5a, <1>6
  <2>2. s'.samples = [u \in Topics |-> s'.samples[u]] BY <1>2, <1>6 DEF IsSession
  <2> QED BY <1>2, <1>6, <2>1, <2>2 DEF IsSession
<1>8. sample \notin {NoOwner, Failed} =>
          s.topic[t].demanded /\ sample = Account!OwnerOf(t, game)
  BY DEF Account!Due
<1> HIDE DEF sample
<1>9. SessionOK(s', topic') BY <1>1, <1>2, <1>6, <1>7 DEF SessionOK, Matches, Mine, Known, Owned
<1>10. ResetsOK(s') BY <1>2, <1>6 DEF ResetsOK, Demanded, Account!Demanded
<1>11. GameOK' BY <1>1, <1>6, SameGame
<1>12. LifetimesOK' BY <1>1, <1>6, SameLifetimes
<1>13. SamplesOK'
  <2>1. ASSUME NEW u \in Topics, s'.samples[u] \notin {NoOwner, Failed}
        PROVE  SampleOK(u, s.samples[u])'
    <3>1. CASE u # t
      <4>1. s'.samples[u] = s.samples[u] BY <1>2, <1>6, <3>1 DEF IsSession
      <4>2. SampleOK(u, s.samples[u]) BY <1>2, <2>1, <4>1 DEF SamplesOK
      <4> QED BY <1>1, <1>6, <4>1, <4>2 DEF SampleOK
    <3>2. CASE u = t
      <4>1. s'.samples[u] = sample BY <1>2, <1>6, <3>2 DEF IsSession
      <4>2. sample = Account!OwnerOf(t, game) /\ s.topic[t].demanded BY <1>8, <2>1, <4>1
      <4>3. sample = [account |-> game.account,
                      data |-> IF t = "player" THEN 0 ELSE game.data]
        BY <4>2 DEF Account!OwnerOf, Account!Owner
      <4>4. sample.account = game.account /\ sample = [account |-> sample.account,
                                                       data |-> sample.data]
            /\ (t = "player" => sample.data = 0) /\ (t # "player" => sample.data = game.data)
        BY <4>3
      <4> QED BY <1>1, <1>4, <1>6, <3>2, <4>1, <4>2, <4>4 DEF SampleOK
    <3> QED BY <3>1, <3>2
  <2> QED BY <1>1, <1>2, <1>6, <2>1 DEF SamplesOK
<1>14. StageOK'
  <2>1. Silent(s') BY <1>2, <1>6 DEF Silent
  <2> QED BY <1>1, <1>2, <1>6, <1>10, <1>13, <2>1 DEF StageOK, Stages, Begun, Sampling
<1> QED BY <1>9, <1>11, <1>12, <1>14

\* Data found unchanged was the owner's all through the samples.
LEMMA DataReread == ASSUME AccountInv, Account!DataAfter PROVE AccountInv'
<1> USE DEF AccountInv
<1> DEFINE Kept(read) == s.owner = NoOwner \/ (read /\ s.owner.data = game.data)
<1>1. PICK read \in BOOLEAN :
        s' = [s EXCEPT !.dataKept = s.owner = NoOwner \/ (read /\ Account!DataKept)]
  BY DEF Account!DataAfter
<1> DEFINE kept == s.owner = NoOwner \/ (read /\ Account!DataKept)
<1>2. kept /\ s.owner # NoOwner => s.owner.data = game.data BY DEF Account!DataKept
<1>3. s' = [s EXCEPT !.dataKept = kept] BY <1>1
<1> HIDE DEF kept
<1>4. poll = "sample" /\ poll' = "accountAfter" /\ UNCHANGED <<game, fresh, topic>>
  BY DEF Account!DataAfter
<1>5. /\ SamplesOK /\ IsSession(s) /\ SessionOK(s, topic) /\ ResetsOK(s) /\ Silent(s)
      /\ s.before = s.login /\ s.login # 0
  BY <1>4 DEF StageOK, Begun, Sampling, SessionOK
<1>6. /\ s'.topic = s.topic /\ s'.checks = s.checks /\ s'.login = s.login
      /\ s'.data = s.data
      /\ s'.pending = s.pending /\ s'.staged = s.staged /\ s'.out = s.out
      /\ s'.resets = s.resets /\ s'.twice = s.twice /\ s'.before = s.before
      /\ s'.reset = s.reset /\ s'.dataReset = s.dataReset /\ s'.owner = s.owner
      /\ s'.todo = s.todo /\ s'.samples = s.samples /\ s'.dataKept = kept
  BY <1>3, <1>5 DEF IsSession
<1>7. IsSession(s') BY <1>3, <1>5, <1>6 DEF IsSession
<1>8. SessionOK(s', topic') BY <1>4, <1>5, <1>6, <1>7 DEF SessionOK, Matches, Mine, Known, Owned
<1>9. ResetsOK(s') BY <1>5, <1>6 DEF ResetsOK, Demanded, Account!Demanded
<1>10. GameOK' BY <1>4, <1>6, SameGame
<1>11. LifetimesOK' BY <1>4, <1>6, SameLifetimes
<1>12. SamplesOK'
  <2>1. ASSUME NEW u \in Topics, s'.samples[u] \notin {NoOwner, Failed}
        PROVE  SampleOK(u, s.samples[u])'
    <3>1. SampleOK(u, s.samples[u]) BY <1>5, <1>6, <2>1 DEF SamplesOK
    <3> QED BY <1>2, <1>4, <1>6, <3>1 DEF SampleOK
  <2> QED BY <1>4, <1>5, <1>6, <2>1 DEF SamplesOK
<1>13. StageOK'
  <2>1. Silent(s') BY <1>5, <1>6 DEF Silent
  <2> QED BY <1>4, <1>5, <1>6, <1>9, <1>12, <2>1 DEF StageOK, Stages, Begun, Sampling
<1> QED BY <1>8, <1>10, <1>11, <1>13

\* The account found again was there all through the samples.
LEMMA AccountReread == ASSUME AccountInv, Account!AccountAfter PROVE AccountInv'
<1> USE DEF AccountInv
<1>1. /\ poll = "accountAfter" /\ poll' = "publish" /\ UNCHANGED <<game, fresh, s, topic>>
      /\ s.before = game.account
  BY DEF Account!AccountAfter, Account!AccountKept
<1>2. SessionOK(s', topic') BY <1>1
<1>3. GameOK' BY <1>1 DEF GameOK
<1>4. LifetimesOK' BY <1>1 DEF LifetimesOK, TopicsShaped, Lived
<1>5. SamplesOK' BY <1>1 DEF StageOK, Sampling, SamplesOK, SampleOK
<1>6. StageOK' BY <1>1, <1>5 DEF StageOK, Stages, Begun, Sampling, ResetsOK, Silent, Demanded,
                                 Account!Demanded
<1> QED BY <1>2, <1>3, <1>4, <1>6

\* account_unchanged failed: every demanded topic is reset once, and nothing is left.
LEMMA AccountGone == ASSUME AccountInv, Account!AccountChanged PROVE AccountInv'
<1> USE DEF AccountInv
<1> DEFINE q == IF s.reset THEN s
                ELSE IF s.dataReset THEN Account!ResetTopics(s, {"player"} \cap Topics)
                ELSE Account!ResetAccount(s)
           f == Account!ForgetChat(q)
           gone == [f EXCEPT !.login = 0, !.data = NoOwner]
<1>1. /\ poll = "accountAfter" /\ poll' = "commit" /\ UNCHANGED <<game, fresh, topic>>
      /\ s' = Account!Unavailable(gone, Topics, Sample)
  BY DEF Account!AccountChanged
<1>2. IsSession(s) /\ s.twice = FALSE /\ ResetsOK(s) /\ Silent(s)
  BY <1>1 DEF StageOK, Begun, SessionOK
<1>3. \A t \in Topics : topic[t].owners # {} => s.topic[t].demanded
  BY DEF SessionOK, Matches
<1>4. /\ IsSession(q) /\ q.twice = FALSE /\ Silent(q)
      /\ \A t \in Topics : q.topic[t].demanded = s.topic[t].demanded
      /\ Demanded(q, Topics) \subseteq q.resets
  <2>1. CASE s.reset BY <1>2, <2>1 DEF ResetsOK
  <2>2. CASE ~s.reset /\ s.dataReset
    <3> DEFINE r == Account!ResetTopics(s, {"player"} \cap Topics)
    <3>1. q = r BY <2>2
    <3>2. IsSession(r) /\ IsReset(s, r, {"player"} \cap Topics) BY <1>2, TopicsReset
    <3> HIDE DEF r, q
    <3>3. s.resets = Demanded(s, DataTopics) BY <1>2, <2>2 DEF ResetsOK
    <3>4. {"player"} \cap Topics \in SUBSET Topics /\ DataTopics \in SUBSET Topics
      BY DemandedTopics
    <3>5. /\ Demanded(s, {"player"} \cap Topics) \cap s.resets = {}
          /\ Demanded(s, Topics) \subseteq s.resets \cup Demanded(s, {"player"} \cap Topics)
      BY <3>3, <3>4, DemandedTopics
    <3>6. /\ r.resets = s.resets \cup Demanded(s, {"player"} \cap Topics)
          /\ r.twice = (s.twice \/ Demanded(s, {"player"} \cap Topics) \cap s.resets # {})
          /\ Demanded(r, Topics) = Demanded(s, Topics)
          /\ \A t \in Topics : r.topic[t].demanded = s.topic[t].demanded
          /\ \A t \in Topics : r.out[t] \in {s.out[t], NoOwner}
      BY <3>2 DEF IsReset
    <3>7. Silent(r) BY <1>2, <3>6 DEF Silent
    <3> QED BY <1>2, <3>1, <3>2, <3>5, <3>6, <3>7
  <2>3. CASE ~s.reset /\ ~s.dataReset
    <3> DEFINE r == Account!ResetAccount(s)
    <3>1. q = r BY <2>3
    <3>2. s.resets = {} BY <1>2, <2>3 DEF ResetsOK
    <3>3. /\ SessionOK(r, topic) /\ Keeps(s, r)
          /\ r.resets = s.resets \cup Demanded(s, Topics)
      BY <1>2, <1>3, <3>2, AccountIsReset
    <3> HIDE DEF r, q
    <3>4. Demanded(r, Topics) = Demanded(s, Topics) BY <3>3, KeepsDemand
    <3>5. Silent(r) BY <1>2, <3>3 DEF Silent, Keeps
    <3> QED BY <3>1, <3>3, <3>4, <3>5 DEF SessionOK, Keeps
  <2> QED BY <2>1, <2>2, <2>3
<1> HIDE DEF q
<1>5. /\ IsSession(f) /\ f.pending = NoOwner
      /\ f.resets = q.resets /\ f.twice = q.twice /\ f.topic = q.topic /\ f.out = q.out
  BY <1>4, ChatForgotten
<1> HIDE DEF f
<1>6. /\ gone.topic = f.topic /\ gone.checks = f.checks /\ gone.login = 0
      /\ gone.data = NoOwner
      /\ gone.pending = f.pending /\ gone.staged = f.staged /\ gone.out = f.out
      /\ gone.resets = f.resets /\ gone.twice = f.twice /\ gone.before = f.before
      /\ gone.reset = f.reset /\ gone.dataReset = f.dataReset /\ gone.owner = f.owner
      /\ gone.todo = f.todo /\ gone.samples = f.samples /\ gone.dataKept = f.dataKept
  BY <1>5 DEF IsSession
<1>7. gone = [f EXCEPT !.login = 0, !.data = NoOwner] OBVIOUS
<1> HIDE DEF gone
<1>8. IsSession(gone) BY <1>5, <1>6, <1>7 DEF IsSession
<1>9. Demanded(gone, Topics) = Demanded(q, Topics)
  BY <1>5, <1>6 DEF Demanded, Account!Demanded
<1>10. \A t \in Topics : topic[t].owners # {} => gone.topic[t].demanded
  BY <1>3, <1>4, <1>5, <1>6
<1>11. gone.twice = FALSE /\ gone.pending = NoOwner /\ gone.data = NoOwner
       /\ Demanded(gone, Topics) \subseteq gone.resets
  BY <1>4, <1>5, <1>6, <1>9
<1>12. SessionOK(gone, topic) BY <1>8, <1>10, <1>11, AllReset
<1>13. Follows(gone, s') BY <1>1, <1>8, UnavailableFollows
<1>14. SessionOK(s', topic') BY <1>1, <1>12, <1>13, FollowsOK
<1>15. /\ s'.login = 0 /\ Silent(s')
       /\ \A t \in Topics : s'.topic[t].demanded = s.topic[t].demanded
  BY <1>4, <1>5, <1>6, <1>13 DEF Follows, Alike, Silent
<1>16. GameOK' BY <1>1, <1>15, SameGame
<1>17. LifetimesOK' BY <1>1, <1>15, SameLifetimes
<1>18. StageOK' BY <1>1, <1>15 DEF StageOK, Stages, Begun, Sampling, Silent, OutOK
<1> QED BY <1>14, <1>16, <1>17, <1>18

-----------------------------------------------------------------------------
(* Publications. *)

\* The samples of ts are the owner's that the session has.
SamplesOf(q, ts) ==
    \A t \in ts : q.samples[t] \notin {NoOwner, Failed} =>
        q.topic[t].demanded /\ q.samples[t] = Mine(q, t) /\ Known(q, t)

LEMMA ShowEffect ==
    ASSUME NEW q, IsSession(q), NEW ts \in SUBSET Topics, NEW interval
    PROVE  LET r == Account!Show(q, ts, interval)
               shown == Account!Shown(q, ts)
           IN /\ IsSession(r)
              /\ r.login = q.login /\ r.data = q.data /\ r.resets = q.resets
              /\ r.twice = q.twice /\ r.reset = q.reset /\ r.dataReset = q.dataReset
              /\ r.samples = q.samples
              /\ \A t \in Topics : r.topic[t].demanded = q.topic[t].demanded
              /\ r.pending = IF "chat" \in shown /\ q.pending = NoOwner
                             THEN q.samples["chat"] ELSE q.pending
              /\ \A t \in shown : r.out[t] = IF t = "chat" THEN r.pending ELSE q.samples[t]
              /\ \A t \in Topics \ shown : r.out[t] \in {q.out[t], Failed}
<1> DEFINE r == Account!Show(q, ts, interval)
           shown == Account!Shown(q, ts)
           failed == Account!Demanded(q, {t \in ts : q.samples[t] = Failed})
           kept == IF "chat" \in shown /\ q.pending = NoOwner
                      THEN q.samples["chat"] ELSE q.pending
           staged == q.staged \/ "chat" \in shown
           left(t) == IF t = "chat" THEN interval ELSE Sample
           value(t) == IF t = "chat" THEN kept ELSE q.samples[t]
           out == [t \in Topics |-> IF t \in shown THEN value(t)
                                    ELSE IF t \in failed THEN Failed ELSE q.out[t]]
           topics == [t \in Topics |->
                       IF t \in shown THEN [q.topic[t] EXCEPT !.left = left(t)]
                       ELSE IF t \in failed THEN [q.topic[t] EXCEPT !.left = Sample]
                       ELSE q.topic[t]]
<1>1. r = [q EXCEPT !.pending = kept, !.staged = staged, !.out = out, !.topic = topics]
  BY DEF Account!Show
<1>2. \A t \in Topics : /\ topics[t].demanded = q.topic[t].demanded
                        /\ topics[t] = [demanded |-> topics[t].demanded, left |-> topics[t].left]
  <2> TAKE t \in Topics
  <2>1. q.topic[t] = [demanded |-> q.topic[t].demanded, left |-> q.topic[t].left]
    BY DEF IsSession
  <2> HIDE DEF shown, failed, left
  <2>2. topics[t] \in {[q.topic[t] EXCEPT !.left = left(t)],
                       [q.topic[t] EXCEPT !.left = Sample], q.topic[t]}
    OBVIOUS
  <2> HIDE DEF topics
  <2> QED BY <2>1, <2>2
<1>3. topics = [t \in Topics |-> [demanded |-> topics[t].demanded, left |-> topics[t].left]]
  <2> HIDE DEF shown, failed, left
  <2>1. topics = [t \in Topics |-> topics[t]] OBVIOUS
  <2> HIDE DEF topics
  <2> QED BY <1>2, <2>1
<1>4. shown \subseteq Topics BY DEF Account!Shown
<1>5. /\ \A t \in shown : out[t] = value(t)
      /\ \A t \in Topics \ shown : out[t] \in {q.out[t], Failed}
      /\ out = [t \in Topics |-> out[t]]
  <2> HIDE DEF shown, failed, kept
  <2> QED BY <1>4
<1> HIDE DEF out, topics, staged, r
<1>6. /\ r.topic = topics /\ r.checks = q.checks /\ r.login = q.login /\ r.data = q.data
      /\ r.pending = kept /\ r.staged = staged /\ r.out = out /\ r.resets = q.resets
      /\ r.twice = q.twice /\ r.before = q.before /\ r.reset = q.reset
      /\ r.dataReset = q.dataReset /\ r.owner = q.owner /\ r.todo = q.todo
      /\ r.samples = q.samples /\ r.dataKept = q.dataKept
  BY <1>1 DEF IsSession
<1> HIDE DEF kept, shown
<1>7. IsSession(r) BY <1>1, <1>3, <1>5, <1>6 DEF IsSession
<1> USE DEF shown, kept
<1> QED BY <1>2, <1>5, <1>6, <1>7 DEF r

\* What is published from the owner's samples is the owner's.
LEMMA ShowKeeps ==
    ASSUME NEW q, NEW shown, SessionOK(q, shown), OutOK(q),
           NEW ts \in SUBSET Topics, NEW interval, SamplesOf(q, ts)
    PROVE  LET r == Account!Show(q, ts, interval)
           IN /\ SessionOK(r, shown) /\ OutOK(r)
              /\ r.login = q.login /\ r.data = q.data /\ r.samples = q.samples
              /\ \A t \in Topics : r.topic[t].demanded = q.topic[t].demanded
              /\ \A us : SamplesOf(q, us) /\ us \subseteq Topics => SamplesOf(r, us)
              /\ ResetsOK(q) => ResetsOK(r)
<1> DEFINE r == Account!Show(q, ts, interval)
           now == Account!Shown(q, ts)
<1>1. /\ IsSession(r)
      /\ r.login = q.login /\ r.data = q.data /\ r.resets = q.resets
      /\ r.twice = q.twice /\ r.reset = q.reset /\ r.dataReset = q.dataReset
      /\ r.samples = q.samples
      /\ \A t \in Topics : r.topic[t].demanded = q.topic[t].demanded
      /\ r.pending = IF "chat" \in now /\ q.pending = NoOwner
                     THEN q.samples["chat"] ELSE q.pending
      /\ \A t \in now : r.out[t] = IF t = "chat" THEN r.pending ELSE q.samples[t]
      /\ \A t \in Topics \ now : r.out[t] \in {q.out[t], Failed}
  BY ShowEffect DEF SessionOK
<1>2. \A t \in now : /\ t \in Topics /\ q.topic[t].demanded
                     /\ q.samples[t] = Mine(q, t) /\ Known(q, t)
  BY DEF Account!Shown, SamplesOf
<1> HIDE DEF r, now
<1>3. Owned(q) BY DEF SessionOK
<1>4. "chat" \in now => q.data # NoOwner /\ r.pending = q.data
  BY <1>1, <1>2, <1>3 DEF Owned, Mine, Known
<1>5. Owned(r) BY <1>1, <1>3, <1>4 DEF Owned
<1>6. \A t \in Topics : Mine(r, t) = Mine(q, t) /\ (Known(r, t) <=> Known(q, t))
  BY <1>1 DEF Mine, Known
<1>7. SessionOK(r, shown) BY <1>1, <1>5, <1>6 DEF SessionOK, Matches
<1>8. OutOK(r)
  <2> SUFFICES ASSUME NEW t \in Topics, r.out[t] \notin {NoOwner, Failed}
      PROVE  r.topic[t].demanded /\ r.out[t] = Mine(r, t) /\ Known(r, t)
    BY DEF OutOK
  <2>1. CASE t \notin now BY <1>1, <1>6, <2>1 DEF OutOK
  <2>2. CASE t \in now /\ t # "chat" BY <1>1, <1>2, <1>6, <2>2
  <2>3. CASE t \in now /\ t = "chat"
    <3>1. Mine(r, t) = q.data BY <1>1, <2>3 DEF Mine
    <3> QED BY <1>1, <1>2, <1>4, <1>6, <2>3, <3>1
  <2> QED BY <2>1, <2>2, <2>3
<1>9. \A us : SamplesOf(q, us) /\ us \subseteq Topics => SamplesOf(r, us)
  BY <1>1, <1>6 DEF SamplesOf
<1>10. ResetsOK(q) => ResetsOK(r) BY <1>1 DEF ResetsOK, Demanded, Account!Demanded,
                                         DataTopics, Account!DataTopics
<1> QED BY <1>1, <1>7, <1>8, <1>9, <1>10 DEF r

LEMMA FollowsOut ==
    ASSUME NEW q, NEW r, Follows(q, r), OutOK(q) PROVE OutOK(r)
<1>1. \A t \in Topics : Mine(r, t) = Mine(q, t) /\ (Known(r, t) <=> Known(q, t))
  BY DEF Follows, Alike, Mine, Known
<1> QED BY <1>1 DEF Follows, Alike, OutOK

\* Samples kept through both rereads are the owner's; the player's, through the last one.
LEMMA SamplesAreMine ==
    ASSUME AccountInv, poll = "publish"
    PROVE  /\ SamplesOf(s, {"player"} \cap Topics)
           /\ s.dataKept => SamplesOf(s, Topics)
<1>1. SamplesOK /\ s.before = s.login /\ s.login # 0
  BY DEF AccountInv, StageOK, Begun, Sampling
<1>2. ASSUME NEW t \in Topics, s.samples[t] \notin {NoOwner, Failed},
             t = "player" \/ s.dataKept
      PROVE  s.topic[t].demanded /\ s.samples[t] = Mine(s, t) /\ Known(s, t)
  <2>1. SampleOK(t, s.samples[t]) BY <1>1, <1>2 DEF SamplesOK
  <2>2. CASE t = "player" BY <1>1, <2>1, <2>2 DEF SampleOK, Mine, Known
  <2>3. CASE t # "player"
    <3>1. s.dataKept /\ s.owner # NoOwner BY <1>2, <2>1, <2>3 DEF SampleOK
    <3>2. s.samples[t] = [account |-> s.before, data |-> s.owner.data]
      BY <2>1, <2>3, <3>1 DEF SampleOK
    <3> QED BY <1>1, <2>1, <2>3, <3>1, <3>2 DEF SampleOK, SamplesOK, Mine, Known
  <2> QED BY <2>2, <2>3
<1> QED BY <1>2 DEF SamplesOf

LEMMA PublishKeeps == ASSUME AccountInv, Account!Publish PROVE AccountInv'
<1> USE DEF AccountInv
<1>1. poll = "publish" /\ poll' = "commit" /\ UNCHANGED <<game, fresh, topic>>
  BY DEF Account!Publish
<1>2. SessionOK(s, topic) /\ ResetsOK(s) /\ Silent(s) BY <1>1 DEF StageOK, Begun
<1>3. OutOK(s) BY <1>2 DEF Silent, OutOK
<1>4. /\ SamplesOf(s, {"player"} \cap Topics)
      /\ s.dataKept => SamplesOf(s, Topics)
  BY <1>1, SamplesAreMine
<1>5. /\ SessionOK(s', topic') /\ OutOK(s') /\ s'.login = s.login
      /\ \A t \in Topics : s'.topic[t].demanded = s.topic[t].demanded
  <2>1. CASE s.dataKept
    <3>1. PICK interval : s' = Account!Show(s, Topics, interval)
      BY <2>1 DEF Account!Publish
    <3>2. Topics \in SUBSET Topics OBVIOUS
    <3> QED BY <1>1, <1>2, <1>3, <1>4, <2>1, <3>1, <3>2, ShowKeeps
  <2>2. CASE ~s.dataKept
    <3> DEFINE p == {"player"} \cap Topics
               z == Account!Show(s, p, Sample)
               c == Account!ClearProfileData(z)
    <3>1. s' = Account!Unavailable(c, Account!DataTopics, Sample)
      BY <2>2 DEF Account!Publish, Account!PlayerFirst
    <3>2. p \in SUBSET Topics OBVIOUS
    <3>3. /\ SessionOK(z, topic) /\ OutOK(z) /\ z.login = s.login
          /\ \A t \in Topics : z.topic[t].demanded = s.topic[t].demanded
          /\ ResetsOK(z)
      BY <1>2, <1>3, <1>4, <3>2, ShowKeeps
    <3>4. \A t \in Topics : t # "player" => z.out[t] \in {NoOwner, Failed}
      <4>1. IsSession(s) BY <1>2 DEF SessionOK
      <4>2. \A t \in Topics \ Account!Shown(s, p) : z.out[t] \in {s.out[t], Failed}
        BY <3>2, <4>1, ShowEffect
      <4>3. \A t \in Topics : t # "player" => t \notin Account!Shown(s, p)
        BY DEF Account!Shown
      <4> QED BY <1>2, <4>2, <4>3 DEF Silent
    <3> HIDE DEF z
    <3>5. SessionOK(c, topic) /\ Keeps(z, c) BY <3>3, DataCleared
    <3> HIDE DEF c
    <3>6. OutOK(c)
      <4> SUFFICES ASSUME NEW t \in Topics, c.out[t] \notin {NoOwner, Failed}
          PROVE  c.topic[t].demanded /\ c.out[t] = Mine(c, t) /\ Known(c, t)
        BY DEF OutOK
      <4>1. c.out[t] = z.out[t] /\ t = "player" BY <3>4, <3>5 DEF Keeps
      <4>2. z.topic[t].demanded /\ z.out[t] = Mine(z, t) /\ Known(z, t)
        BY <3>3, <4>1 DEF OutOK
      <4> QED BY <3>5, <4>1, <4>2 DEF Keeps, Mine, Known
    <3>7. Follows(c, s') BY <3>1, <3>5, UnavailableFollows DEF SessionOK
    <3>8. SessionOK(s', topic') /\ OutOK(s') BY <1>1, <3>5, <3>6, <3>7, FollowsOK, FollowsOut
    <3> QED BY <3>3, <3>5, <3>7, <3>8 DEF Keeps, Follows, Alike
  <2> QED BY <2>1, <2>2
<1>6. GameOK' BY <1>1, <1>5, SameGame
<1>7. LifetimesOK' BY <1>1, <1>5, SameLifetimes
<1>8. StageOK' BY <1>1, <1>5 DEF StageOK, Stages, Begun, Sampling
<1> QED BY <1>5, <1>6, <1>7, <1>8

\* What a refused publication leaves, a staged chat publication included, is the owner's.
LEMMA RefusalKeeps == ASSUME AccountInv, Account!PublishFails PROVE AccountInv'
<1> USE DEF AccountInv
<1>1. /\ poll = "publish" /\ poll' = "failed" /\ UNCHANGED <<game, fresh, topic>>
      /\ s.dataKept
  BY DEF Account!PublishFails
<1>2. SessionOK(s, topic) /\ Silent(s) BY <1>1 DEF StageOK, Begun
<1>3. OutOK(s) BY <1>2 DEF Silent, OutOK
<1>4. SamplesOf(s, Topics) BY <1>1, SamplesAreMine
<1>5. PICK t \in Topics :
        LET q == Account!Show(s, Account!Before(t), ChatInterval)
            staged == Account!Show(q, {t}, ChatInterval)
        IN s' = IF t = "chat" THEN [staged EXCEPT !.topic = q.topic] ELSE q
  BY DEF Account!PublishFails, Account!Shown
<1> DEFINE b == Account!Before(t)
           q == Account!Show(s, b, ChatInterval)
           staged == Account!Show(q, {t}, ChatInterval)
<1>6. b \in SUBSET Topics /\ {t} \in SUBSET Topics
  BY DEF Account!Before, Account!PlayerFirst, Account!DataTopics
<1>7. SamplesOf(s, b) BY <1>4, <1>6 DEF SamplesOf
<1>8. s' = IF t = "chat" THEN [staged EXCEPT !.topic = q.topic] ELSE q BY <1>5
<1> HIDE DEF b
<1>9. /\ SessionOK(q, topic) /\ OutOK(q) /\ q.login = s.login
      /\ \A u \in Topics : q.topic[u].demanded = s.topic[u].demanded
      /\ SamplesOf(q, Topics)
  BY <1>2, <1>3, <1>4, <1>6, <1>7, ShowKeeps
<1> HIDE DEF q, staged
<1>10. /\ SessionOK(staged, topic) /\ staged.login = q.login
       /\ \A u \in Topics : staged.topic[u].demanded = q.topic[u].demanded
  <2>1. SamplesOf(q, {t}) BY <1>9 DEF SamplesOf
  <2> DEFINE ts == {t}
  <2>2. staged = Account!Show(q, ts, ChatInterval) BY DEF staged
  <2>3. SessionOK(q, topic) /\ OutOK(q) /\ ts \in SUBSET Topics /\ SamplesOf(q, ts)
    BY <1>6, <1>9, <2>1
  <2> HIDE DEF ts
  <2> QED BY <2>2, <2>3, ShowKeeps
<1>11. /\ SessionOK(s', topic') /\ s'.login = s.login
       /\ \A u \in Topics : s'.topic[u].demanded = s.topic[u].demanded
  <2>1. CASE t # "chat" BY <1>1, <1>8, <1>9, <2>1
  <2>2. CASE t = "chat"
    <3>1. s' = [staged EXCEPT !.topic = q.topic] BY <1>8, <2>2
    <3>2. /\ s'.topic = q.topic /\ s'.checks = staged.checks /\ s'.login = staged.login
          /\ s'.data = staged.data /\ s'.pending = staged.pending
          /\ s'.staged = staged.staged /\ s'.out = staged.out
          /\ s'.resets = staged.resets /\ s'.twice = staged.twice
          /\ s'.before = staged.before /\ s'.reset = staged.reset
          /\ s'.dataReset = staged.dataReset /\ s'.owner = staged.owner
          /\ s'.todo = staged.todo /\ s'.samples = staged.samples
          /\ s'.dataKept = staged.dataKept
      BY <1>10, <3>1 DEF SessionOK, IsSession
    <3>3. IsSession(s') BY <1>9, <1>10, <3>1, <3>2 DEF SessionOK, IsSession
    <3>4. SessionOK(s', topic')
      BY <1>1, <1>10, <3>2, <3>3 DEF SessionOK, Matches, Owned, Mine, Known
    <3> QED BY <1>9, <1>10, <3>2, <3>4
  <2> QED BY <2>1, <2>2
<1>12. GameOK' BY <1>1, <1>11, SameGame
<1>13. LifetimesOK' BY <1>1, <1>11, SameLifetimes
<1>14. StageOK' BY <1>1 DEF StageOK, Stages, Begun, Sampling
<1> QED BY <1>11, <1>12, <1>13, <1>14

-----------------------------------------------------------------------------
(* The host's answer. *)

\* poll_completed keeps the owner, and a chat publication only for a retry.
LEMMA PollCompleted ==
    ASSUME NEW q, IsSession(q), NEW committed
    PROVE  LET c == Account!Completed(q, committed)
           IN /\ IsSession(c) /\ c.login = q.login /\ c.data = q.data
              /\ c.pending \in {q.pending, NoOwner}
              /\ \A t \in Topics : c.topic[t].demanded = q.topic[t].demanded
<1> DEFINE c == Account!Completed(q, committed)
<1> SUFFICES /\ IsSession(c) /\ c.login = q.login /\ c.data = q.data
             /\ c.pending \in {q.pending, NoOwner}
             /\ \A t \in Topics : c.topic[t].demanded = q.topic[t].demanded
  OBVIOUS
<1>1. CASE ~q.staged BY <1>1 DEF Account!Completed
<1>2. CASE q.staged /\ committed
  <2> DEFINE d == [q EXCEPT !.staged = FALSE, !.pending = NoOwner]
  <2>1. c = d BY <1>2 DEF Account!Completed
  <2>2. /\ d.topic = q.topic /\ d.checks = q.checks /\ d.login = q.login
        /\ d.data = q.data /\ d.pending = NoOwner /\ d.staged = FALSE /\ d.out = q.out
        /\ d.resets = q.resets /\ d.twice = q.twice /\ d.before = q.before
        /\ d.reset = q.reset /\ d.dataReset = q.dataReset /\ d.owner = q.owner
        /\ d.todo = q.todo /\ d.samples = q.samples /\ d.dataKept = q.dataKept
    BY DEF IsSession
  <2>3. d = [q EXCEPT !.staged = FALSE, !.pending = NoOwner] OBVIOUS
  <2> HIDE DEF d, c
  <2>4. IsSession(d) BY <2>2, <2>3 DEF IsSession
  <2> QED BY <2>1, <2>2, <2>4
<1>3. CASE q.staged /\ ~committed
  <2> DEFINE topics == [q.topic EXCEPT !["chat"].left = 0]
             d == [q EXCEPT !.staged = FALSE, !.topic = topics]
  <2>1. c = d
    <3>1. c = [q EXCEPT !.staged = FALSE, !.topic["chat"].left = 0]
      BY <1>3 DEF Account!Completed
    <3> QED BY <3>1
  <2>7. \A t \in Topics : /\ topics[t].demanded = q.topic[t].demanded
                          /\ topics[t] = [demanded |-> topics[t].demanded,
                                          left |-> topics[t].left]
    <3> TAKE t \in Topics
    <3>1. q.topic[t] = [demanded |-> q.topic[t].demanded, left |-> q.topic[t].left]
      BY DEF IsSession
    <3>2. topics[t] = IF t = "chat" THEN [q.topic[t] EXCEPT !.left = 0] ELSE q.topic[t]
      BY DEF IsSession
    <3> HIDE DEF topics
    <3> QED BY <3>1, <3>2
  <2>8. topics = [t \in Topics |-> topics[t]] BY DEF IsSession
  <2>2. \A t \in Topics : topics[t].demanded = q.topic[t].demanded BY <2>7
  <2>3. topics = [t \in Topics |-> [demanded |-> topics[t].demanded,
                                    left |-> topics[t].left]]
    <3> HIDE DEF topics
    <3> QED BY <2>7, <2>8
  <2>4. d = [q EXCEPT !.staged = FALSE, !.topic = topics] OBVIOUS
  <2> HIDE DEF topics, d, c
  <2>5. /\ d.topic = topics /\ d.checks = q.checks /\ d.login = q.login
        /\ d.data = q.data /\ d.pending = q.pending /\ d.staged = FALSE /\ d.out = q.out
        /\ d.resets = q.resets /\ d.twice = q.twice /\ d.before = q.before
        /\ d.reset = q.reset /\ d.dataReset = q.dataReset /\ d.owner = q.owner
        /\ d.todo = q.todo /\ d.samples = q.samples /\ d.dataKept = q.dataKept
    BY <2>4 DEF IsSession
  <2>6. IsSession(d) BY <2>3, <2>4, <2>5 DEF IsSession
  <2> QED BY <2>1, <2>2, <2>5, <2>6
<1> QED BY <1>1, <1>2, <1>3

\* What the end of a poll keeps of it.
LEMMA PollEnds ==
    ASSUME NEW q, IsSession(q), NEW committed
    PROVE  LET r == Account!EndPoll(Account!Completed(q, committed))
           IN /\ IsSession(r) /\ r.login = q.login /\ r.data = q.data
              /\ r.pending \in {q.pending, NoOwner}
              /\ \A t \in Topics : r.topic[t].demanded = q.topic[t].demanded
              /\ r.resets = {} /\ r.twice = FALSE /\ r.reset = FALSE /\ r.dataReset = FALSE
              /\ Unsampled(r) /\ Silent(r)
<1> DEFINE c == Account!Completed(q, committed)
           r == Account!EndPoll(c)
<1>1. /\ IsSession(c) /\ c.login = q.login /\ c.data = q.data
      /\ c.pending \in {q.pending, NoOwner}
      /\ \A t \in Topics : c.topic[t].demanded = q.topic[t].demanded
  BY PollCompleted
<1> HIDE DEF c
<1>2. r = [c EXCEPT !.out = [t \in Topics |-> NoOwner], !.resets = {}, !.twice = FALSE,
              !.before = 0, !.reset = FALSE, !.dataReset = FALSE, !.owner = NoOwner,
              !.todo = {}, !.samples = [t \in Topics |-> NoOwner], !.dataKept = TRUE]
  BY DEF Account!EndPoll
<1> HIDE DEF r
<1>3. /\ r.topic = c.topic /\ r.checks = c.checks /\ r.login = c.login /\ r.data = c.data
      /\ r.pending = c.pending /\ r.staged = c.staged
      /\ r.out = [t \in Topics |-> NoOwner] /\ r.resets = {} /\ r.twice = FALSE
      /\ r.before = 0 /\ r.reset = FALSE /\ r.dataReset = FALSE /\ r.owner = NoOwner
      /\ r.todo = {} /\ r.samples = [t \in Topics |-> NoOwner] /\ r.dataKept = TRUE
  BY <1>1, <1>2 DEF IsSession
<1>4. IsSession(r)
  <2>1. /\ r.out = [t \in Topics |-> r.out[t]] /\ r.samples = [t \in Topics |-> r.samples[t]]
        /\ r.topic = [t \in Topics |-> [demanded |-> r.topic[t].demanded,
                                         left |-> r.topic[t].left]]
    BY <1>1, <1>3 DEF IsSession
  <2>2. r = [c EXCEPT !.out = r.out, !.resets = r.resets, !.twice = r.twice,
              !.before = r.before, !.reset = r.reset, !.dataReset = r.dataReset,
              !.owner = r.owner, !.todo = r.todo, !.samples = r.samples,
              !.dataKept = r.dataKept]
    BY <1>2, <1>3
  <2>3. r = [topic |-> r.topic, checks |-> r.checks, login |-> r.login, data |-> r.data,
            pending |-> r.pending, staged |-> r.staged, out |-> r.out, resets |-> r.resets,
            twice |-> r.twice, before |-> r.before, reset |-> r.reset,
            dataReset |-> r.dataReset, owner |-> r.owner, todo |-> r.todo,
            samples |-> r.samples, dataKept |-> r.dataKept]
    <3>1. c = [topic |-> r.topic, checks |-> r.checks, login |-> r.login, data |-> r.data,
            pending |-> r.pending, staged |-> r.staged, out |-> c.out, resets |-> c.resets,
            twice |-> c.twice, before |-> c.before, reset |-> c.reset,
            dataReset |-> c.dataReset, owner |-> c.owner, todo |-> c.todo,
            samples |-> c.samples, dataKept |-> c.dataKept]
      BY <1>1, <1>3 DEF IsSession
    <3> QED BY <2>2, <3>1
  <2> QED BY <2>1, <2>3 DEF IsSession
<1>5. Unsampled(r) /\ Silent(r) BY <1>3 DEF Unsampled, Silent
<1> QED BY <1>1, <1>3, <1>4, <1>5 DEF r, c

\* The session after a poll, and what the service shows by then.
LEMMA IdleAgain ==
    ASSUME AccountInv, poll \in {"commit", "failed"}, poll' = "idle",
           UNCHANGED <<game, fresh>>, NEW committed,
           s' = Account!EndPoll(Account!Completed(s, committed)),
           topic' = [t \in Topics |->
                  [demanded |-> topic'[t].demanded, new |-> topic'[t].new,
                   fenced |-> topic'[t].fenced, renewed |-> topic'[t].renewed,
                   owners |-> topic'[t].owners, shown |-> topic'[t].shown]],
           \A t \in Topics : topic'[t].owners # {} =>
               /\ topic'[t].demanded /\ ~topic'[t].new
               /\ s.topic[t].demanded /\ topic'[t].owners = {Mine(s, t)} /\ Known(s, t)
    PROVE  AccountInv'
<1> USE DEF AccountInv
<1>1. IsSession(s) /\ Owned(s) BY DEF SessionOK
<1>2. /\ IsSession(s') /\ s'.login = s.login /\ s'.data = s.data
      /\ s'.pending \in {s.pending, NoOwner}
      /\ \A t \in Topics : s'.topic[t].demanded = s.topic[t].demanded
      /\ s'.resets = {} /\ s'.twice = FALSE /\ s'.reset = FALSE /\ s'.dataReset = FALSE
      /\ Unsampled(s') /\ Silent(s')
  <2> DEFINE r == Account!EndPoll(Account!Completed(s, committed))
  <2>1. /\ IsSession(r) /\ r.login = s.login /\ r.data = s.data
        /\ r.pending \in {s.pending, NoOwner}
        /\ \A t \in Topics : r.topic[t].demanded = s.topic[t].demanded
        /\ r.resets = {} /\ r.twice = FALSE /\ r.reset = FALSE /\ r.dataReset = FALSE
        /\ Unsampled(r) /\ Silent(r)
    BY <1>1, PollEnds
  <2>2. s' = r OBVIOUS
  <2> HIDE DEF r
  <2> QED BY <2>1, <2>2
<1>3. Owned(s') BY <1>1, <1>2 DEF Owned
<1>4. Matches(s', topic') BY <1>2 DEF Matches, Mine, Known
<1>5. SessionOK(s', topic') BY <1>2, <1>3, <1>4 DEF SessionOK
<1>6. GameOK' BY <1>2, SameGame
<1>7. LifetimesOK'
  <2> SUFFICES ASSUME NEW t \in Topics
      PROVE  /\ topic'[t].owners = {} \/ \E owner : topic'[t].owners = {owner}
             /\ topic'[t].owners # {} => topic'[t].demanded /\ ~topic'[t].new
    BY Zenon DEF LifetimesOK, TopicsShaped, Lived
  <2> QED OBVIOUS
<1>8. StageOK' BY <1>2 DEF StageOK, Stages, Begun, Sampling
<1> QED BY <1>5, <1>6, <1>7, <1>8

\* A topic whose lifetime goes on stays its owner's; a reset begins another.
LEMMA AcceptedKeeps == ASSUME AccountInv, Account!Accepted PROVE AccountInv'
<1> USE DEF AccountInv
<1> DEFINE old(t) == IF t \in s.resets THEN {} ELSE topic[t].owners
           data(t) == s.out[t] \notin {NoOwner, Failed}
           owners(t) == IF data(t) THEN old(t) \cup {s.out[t]} ELSE old(t)
           shown(t) == data(t) \/ (topic[t].shown /\ s.out[t] = NoOwner /\ t \notin s.resets)
<1>1. /\ poll = "commit" /\ poll' = "idle" /\ UNCHANGED <<game, fresh>>
      /\ \A t \in Topics : s.topic[t].demanded => ~topic[t].fenced
      /\ s' = Account!EndPoll(Account!Completed(s, TRUE))
  BY DEF Account!Accepted, Account!Fenced, Account!Ticket
<1>2. topic' = [t \in Topics |-> [topic[t] EXCEPT !.owners = owners(t), !.shown = shown(t)]]
  BY DEF Account!Accepted
<1> HIDE DEF owners, shown
<1>3. \A t \in Topics : topic[t] = [demanded |-> topic[t].demanded, new |-> topic[t].new,
                   fenced |-> topic[t].fenced, renewed |-> topic[t].renewed,
                   owners |-> topic[t].owners, shown |-> topic[t].shown]
  BY DEF LifetimesOK, TopicsShaped
<1>4. \A t \in Topics :
          /\ topic'[t] = [demanded |-> topic'[t].demanded, new |-> topic'[t].new,
                   fenced |-> topic'[t].fenced, renewed |-> topic'[t].renewed,
                   owners |-> topic'[t].owners, shown |-> topic'[t].shown]
          /\ topic'[t].demanded = topic[t].demanded /\ topic'[t].new = topic[t].new
          /\ topic'[t].owners = owners(t)
  <2> TAKE t \in Topics
  <2>1. topic'[t] = [topic[t] EXCEPT !.owners = owners(t), !.shown = shown(t)] BY <1>2
  <2>2. topic'[t] = [demanded |-> topic[t].demanded, new |-> topic[t].new,
                     fenced |-> topic[t].fenced, renewed |-> topic[t].renewed,
                     owners |-> owners(t), shown |-> shown(t)]
    BY <1>3, <2>1
  <2> QED BY <2>2
<1>5. topic' = [t \in Topics |->
                  [demanded |-> topic'[t].demanded, new |-> topic'[t].new,
                   fenced |-> topic'[t].fenced, renewed |-> topic'[t].renewed,
                   owners |-> topic'[t].owners, shown |-> topic'[t].shown]]
  <2>1. topic' = [t \in Topics |-> topic'[t]] BY <1>2
  <2> QED BY <1>4, <2>1
<1>6. ASSUME NEW t \in Topics, topic'[t].owners # {}
      PROVE  /\ topic'[t].demanded /\ ~topic'[t].new
             /\ s.topic[t].demanded /\ topic'[t].owners = {Mine(s, t)} /\ Known(s, t)
  <2>1. owners(t) # {} /\ topic'[t].owners = owners(t) BY <1>4, <1>6
  <2>2. old(t) # {} => s.topic[t].demanded /\ old(t) = {Mine(s, t)} /\ Known(s, t)
    BY DEF SessionOK, Matches
  <2>3. data(t) => s.topic[t].demanded /\ s.out[t] = Mine(s, t) /\ Known(s, t)
    BY <1>1 DEF StageOK, OutOK
  <2> HIDE DEF old, data
  <2>4. s.topic[t].demanded /\ owners(t) = {Mine(s, t)} /\ Known(s, t)
    BY <2>1, <2>2, <2>3 DEF owners
  <2>5. topic[t].demanded /\ ~topic[t].new BY <1>1, <2>4 DEF LifetimesOK, Lived
  <2> QED BY <1>4, <2>1, <2>4, <2>5
<1> QED BY <1>1, <1>5, <1>6, IdleAgain

\* A refused poll leaves its resets behind.
LEMMA DiscardKeeps ==
    ASSUME AccountInv, NEW failed, Account!Discarded(failed) PROVE AccountInv'
<1> USE DEF AccountInv
<1> DEFINE shown(t) == topic[t].shown /\ ~(failed /\ t \in Account!Ticket /\ ~topic[t].fenced)
<1>1. /\ poll \in {"commit", "failed"} /\ poll' = "idle" /\ UNCHANGED <<game, fresh>>
      /\ s' = Account!EndPoll(Account!Completed(s, FALSE))
  BY DEF Account!Discarded
<1>2. topic' = [t \in Topics |->
          IF Account!KeepReset(t)
          THEN [topic[t] EXCEPT !.owners = {}, !.new = TRUE, !.shown = FALSE]
          ELSE [topic[t] EXCEPT !.shown = shown(t)]]
  BY DEF Account!Discarded
<1> HIDE DEF shown
<1>3. \A t \in Topics : topic[t] = [demanded |-> topic[t].demanded, new |-> topic[t].new,
                   fenced |-> topic[t].fenced, renewed |-> topic[t].renewed,
                   owners |-> topic[t].owners, shown |-> topic[t].shown]
  BY DEF LifetimesOK, TopicsShaped
<1>4. \A t \in Topics :
          /\ topic'[t] = [demanded |-> topic'[t].demanded, new |-> topic'[t].new,
                   fenced |-> topic'[t].fenced, renewed |-> topic'[t].renewed,
                   owners |-> topic'[t].owners, shown |-> topic'[t].shown]
          /\ topic'[t].owners # {} =>
                /\ ~Account!KeepReset(t) /\ topic'[t].owners = topic[t].owners
                /\ topic'[t].demanded = topic[t].demanded /\ topic'[t].new = topic[t].new
  <2> TAKE t \in Topics
  <2>1. CASE Account!KeepReset(t)
    <3>1. topic'[t] = [topic[t] EXCEPT !.owners = {}, !.new = TRUE, !.shown = FALSE]
      BY <1>2, <2>1
    <3>2. topic'[t] = [demanded |-> topic[t].demanded, new |-> TRUE,
                     fenced |-> topic[t].fenced, renewed |-> topic[t].renewed,
                     owners |-> {}, shown |-> FALSE]
      BY <1>3, <3>1
    <3> QED BY <3>2
  <2>2. CASE ~Account!KeepReset(t)
    <3>1. topic'[t] = [topic[t] EXCEPT !.shown = shown(t)] BY <1>2, <2>2
    <3>2. topic'[t] = [demanded |-> topic[t].demanded, new |-> topic[t].new,
                     fenced |-> topic[t].fenced, renewed |-> topic[t].renewed,
                     owners |-> topic[t].owners, shown |-> shown(t)]
      BY <1>3, <3>1
    <3> QED BY <2>2, <3>2
  <2> QED BY <2>1, <2>2
<1>5. topic' = [t \in Topics |->
                  [demanded |-> topic'[t].demanded, new |-> topic'[t].new,
                   fenced |-> topic'[t].fenced, renewed |-> topic'[t].renewed,
                   owners |-> topic'[t].owners, shown |-> topic'[t].shown]]
  <2>1. topic' = [t \in Topics |-> topic'[t]] BY <1>2
  <2> QED BY <1>4, <2>1
<1>6. ASSUME NEW t \in Topics, topic'[t].owners # {}
      PROVE  /\ topic'[t].demanded /\ ~topic'[t].new
             /\ s.topic[t].demanded /\ topic'[t].owners = {Mine(s, t)} /\ Known(s, t)
  <2>1. /\ ~Account!KeepReset(t) /\ topic'[t].owners = topic[t].owners
        /\ topic'[t].demanded = topic[t].demanded /\ topic'[t].new = topic[t].new
    BY <1>4, <1>6
  <2>2. topic[t].demanded /\ ~topic[t].new /\ ~topic[t].renewed
    BY <1>1, <1>6, <2>1 DEF LifetimesOK, Lived
  <2>3. t \notin s.resets BY <2>1, <2>2 DEF Account!KeepReset
  <2> QED BY <1>6, <2>1, <2>2, <2>3 DEF SessionOK, Matches
<1> QED BY <1>1, <1>5, <1>6, IdleAgain

-----------------------------------------------------------------------------
LEMMA AccountStep ==
    ASSUME AccountInv, Topics \subseteq Account!AccountTopics, [Account!Next]_Account!vars
    PROVE  AccountInv'
<1>1. CASE UNCHANGED Account!vars
  BY <1>1 DEF Account!vars, AccountInv, GameOK, LifetimesOK, TopicsShaped, Lived,
               StageOK, SamplesOK, SampleOK
<1>2. CASE Account!Login \/ Account!Logout \/ Account!ReplaceData \/ Account!DropData
  BY <1>2, GameMoves
<1>3. CASE Account!Tick BY <1>3, TickKeeps
<1>4. CASE \E t \in Topics : Account!ChangeDemand(t) \/ Account!Expire(t)
  BY <1>4, DemandKeeps
<1>5. CASE Account!StartPoll BY <1>5, PollStarts
<1>6. CASE Account!NoAccount \/ Account!AccountBefore BY <1>6, NoAccountKeeps, AccountFound
<1>7. CASE Account!NoDataDue \/ Account!NoData \/ Account!DataBefore
  BY <1>7, NoDataDueKeeps, NoDataKeeps, DataFound
<1>8. CASE Account!TakeSample \/ Account!DataAfter \/ Account!AccountChanged
           \/ Account!AccountAfter
  BY <1>8, SampleKeeps, DataReread, AccountGone, AccountReread
<1>9. CASE Account!Publish \/ Account!PublishFails BY <1>9, PublishKeeps, RefusalKeeps
<1>10. CASE Account!Accepted \/ \E failed \in BOOLEAN : Account!Discarded(failed)
  BY <1>10, AcceptedKeeps, DiscardKeeps
<1> QED BY <1>1, <1>2, <1>3, <1>4, <1>5, <1>6, <1>7, <1>8, <1>9, <1>10 DEF Account!Next

LEMMA AccountIsRight ==
    ASSUME AccountInv
    PROVE  Account!OneOwner /\ Account!OneReset /\ Account!PendingOwned
<1>1. \A S : Account!Cardinality(S) = Cardinality(S) 
  BY Zenon DEF Account!Cardinality, Cardinality, Account!IsFiniteSet, IsFiniteSet
<1>2. Account!OneOwner
  <2> SUFFICES ASSUME NEW t \in Topics PROVE Cardinality(topic[t].owners) <= 1
    BY <1>1 DEF Account!OneOwner
  <2>1. CASE topic[t].owners = {}
    <3>1. Cardinality({}) = 0 BY FS_EmptySet
    <3> QED BY <2>1, <3>1
  <2>2. CASE \E owner : topic[t].owners = {owner}
    <3>1. PICK owner : topic[t].owners = {owner} BY <2>2
    <3>2. Cardinality({owner}) = 1 BY FS_Singleton
    <3> QED BY <3>1, <3>2
  <2> QED BY <2>1, <2>2 DEF AccountInv, LifetimesOK, Lived
<1>3. Account!OneReset BY DEF AccountInv, SessionOK, Account!OneReset
<1>4. Account!PendingOwned BY DEF AccountInv, SessionOK, Owned, Account!PendingOwned
<1> QED BY <1>2, <1>3, <1>4

\* reset_account, account_unchanged, discard_poll: whatever logins, replacements and
\* refused polls come between any two reads, all that a topic publishes in one lifetime
\* belongs to one owner; no poll resets a topic twice; and a chat publication kept for a
\* retry belongs to the present login and data.
THEOREM OwnersAreOne ==
    ASSUME Topics \subseteq Account!AccountTopics
    PROVE  Account!Spec => [](Account!OneOwner /\ Account!OneReset /\ Account!PendingOwned)
<1>1. Account!Init => AccountInv BY AccountInit
<1>2. AccountInv /\ [Account!Next]_Account!vars => AccountInv' BY AccountStep
<1>3. AccountInv => Account!OneOwner /\ Account!OneReset /\ Account!PendingOwned
  BY AccountIsRight
<1> QED BY <1>1, <1>2, <1>3, PTL DEF Account!Spec

-----------------------------------------------------------------------------
(* The cached checks. *)

\* A failure has a deadline, and nothing else has one.
Cached(check) ==
    /\ check = [status |-> check.status, left |-> check.left] /\ check.left \in Nat
    /\ check.left > 0 => check.status = "Failed"

ChecksOK(q) ==
    /\ q.checks = [c \in Account!Checks |-> q.checks[c]]
    /\ \A c \in Account!Checks : Cached(q.checks[c])

\* No failed check of q is brought forward in r.
Patient(q, r) ==
    ChecksOK(q) =>
        /\ ChecksOK(r)
        /\ \A c \in Account!Checks : q.checks[c].left > 0 => r.checks[c] = q.checks[c]

LEMMA PatientBoth ==
    ASSUME NEW p, NEW q, NEW r, Patient(p, q), Patient(q, r) PROVE Patient(p, r)
BY DEF Patient

LEMMA PatientSame == ASSUME NEW q, NEW r, r.checks = q.checks PROVE Patient(q, r)
BY DEF Patient, ChecksOK

LEMMA EnsurePatient ==
    ASSUME NEW check, Cached(check), NEW bad, Account!RetryAssumption
    PROVE  /\ Cached(Account!Ensure(check, bad))
           /\ check.left > 0 => Account!Ensure(check, bad) = check
<1>1. check.status = "Passed" => ~(check.left > 0) BY DEF Cached
<1> QED BY <1>1 DEF Account!Ensure, Cached, Account!RetryAssumption

LEMMA EnsureAllPatient ==
    ASSUME NEW q, IsSession(q), NEW list, NEW bad, Account!RetryAssumption
    PROVE  Patient(q, [q EXCEPT !.checks = Account!EnsureAll(q.checks, list, bad).checks])
<1> DEFINE Result(c) == Account!Ensure(q.checks[c], c \in bad)
           failed == {n \in DOMAIN list : Result(list[n]).left > 0}
           asked == {n \in DOMAIN list : \A m \in failed : n <= m}
           checks == [c \in DOMAIN q.checks |-> IF \E n \in asked : list[n] = c THEN Result(c)
                                                ELSE q.checks[c]]
           r == [q EXCEPT !.checks = Account!EnsureAll(q.checks, list, bad).checks]
<1>1. Account!EnsureAll(q.checks, list, bad).checks = checks BY DEF Account!EnsureAll
<1>2. r.checks = checks BY <1>1 DEF IsSession
<1> HIDE DEF failed, asked
<1>3. ASSUME ChecksOK(q)
      PROVE  /\ ChecksOK(r)
             /\ \A c \in Account!Checks : q.checks[c].left > 0 => r.checks[c] = q.checks[c]
  <2>1. DOMAIN q.checks = Account!Checks BY <1>3 DEF ChecksOK
  <2>2. \A c \in Account!Checks : checks[c] \in {Result(c), q.checks[c]} BY <2>1
  <2>3. checks = [c \in Account!Checks |-> checks[c]] BY <2>1
  <2>4. \A c \in Account!Checks : /\ Cached(Result(c)) /\ Cached(q.checks[c])
                                  /\ q.checks[c].left > 0 => Result(c) = q.checks[c]
    BY <1>3, EnsurePatient DEF ChecksOK
  <2> HIDE DEF checks, Result, r
  <2>5. \A c \in Account!Checks : /\ Cached(checks[c])
                                  /\ q.checks[c].left > 0 => checks[c] = q.checks[c]
    BY <2>2, <2>4
  <2> QED BY <1>2, <2>3, <2>5 DEF ChecksOK
<1> QED BY <1>3 DEF Patient

LEMMA EnsureOnePatient ==
    ASSUME NEW q, IsSession(q), NEW c \in Account!Checks, NEW bad, Account!RetryAssumption
    PROVE  Patient(q, [q EXCEPT !.checks[c] = Account!Ensure(q.checks[c], bad)])
<1> DEFINE check == Account!Ensure(q.checks[c], bad)
           checks == [q.checks EXCEPT ![c] = check]
           r == [q EXCEPT !.checks = checks]
<1>1. r.checks = checks BY DEF IsSession
<1>2. ASSUME ChecksOK(q)
      PROVE  /\ ChecksOK(r)
             /\ \A d \in Account!Checks : q.checks[d].left > 0 => r.checks[d] = q.checks[d]
  <2>1. DOMAIN q.checks = Account!Checks BY <1>2 DEF ChecksOK
  <2>2. Cached(check) /\ (q.checks[c].left > 0 => check = q.checks[c])
    BY <1>2, EnsurePatient DEF ChecksOK
  <2> HIDE DEF check
  <2>3. \A d \in Account!Checks : checks[d] = IF d = c THEN check ELSE q.checks[d] BY <2>1
  <2>4. checks = [d \in Account!Checks |-> checks[d]] BY <2>1
  <2>5. \A d \in Account!Checks : Cached(q.checks[d]) BY <1>2 DEF ChecksOK
  <2> HIDE DEF checks, r
  <2> QED BY <1>1, <2>2, <2>3, <2>4, <2>5 DEF ChecksOK
<1> QED BY <1>2 DEF Patient

\* What does not validate leaves the checks alone.
LEMMA UnavailableChecks ==
    ASSUME NEW q, IsSession(q), NEW ts, NEW left
    PROVE  Account!Unavailable(q, ts, left).checks = q.checks
BY DEF Account!Unavailable, IsSession

LEMMA ResetChecks ==
    ASSUME NEW q, IsSession(q), q.twice \in BOOLEAN
    PROVE  /\ \A ts : Account!ResetTopics(q, ts).checks = q.checks
           /\ Account!ForgetChat(q).checks = q.checks
           /\ Account!ResetAccount(q).checks = q.checks
           /\ Account!ClearLogin(q).checks = q.checks
           /\ Account!ClearProfileData(q).checks = q.checks
<1>1. \A r, ts : IsSession(r) => Account!ResetTopics(r, ts).checks = r.checks
  BY DEF Account!ResetTopics, IsSession
<1>2. \A r : IsSession(r) => /\ Account!ForgetChat(r).checks = r.checks
                             /\ [Account!ForgetChat(r) EXCEPT !.data = NoOwner].checks
                                    = r.checks
                             /\ [Account!ForgetChat(r) EXCEPT !.data = NoOwner,
                                      !.dataReset = TRUE].checks = r.checks
  BY DEF Account!ForgetChat, IsSession
<1>3. \A r : IsSession(r) => Account!ResetAccount(r).checks = r.checks
  BY <1>1, <1>2, DataForgotten DEF Account!ResetAccount
<1>4. Account!ClearLogin(q).checks = q.checks
  <2> DEFINE z == [q EXCEPT !.login = 0]
  <2>1. IsSession(z) /\ z.checks = q.checks BY DEF IsSession
  <2> HIDE DEF z
  <2>2. Account!ResetAccount(z).checks = q.checks BY <1>3, <2>1
  <2> QED BY <2>2 DEF Account!ClearLogin, z
<1>5. Account!ClearProfileData(q).checks = q.checks
  <2> DEFINE z == [Account!ForgetChat(q) EXCEPT !.data = NoOwner, !.dataReset = TRUE]
  <2>1. IsSession(z) /\ z.checks = q.checks
    <3> DEFINE f == Account!ForgetChat(q)
    <3>1. IsSession(f) BY ChatForgotten
    <3>2. z.checks = q.checks BY <1>2
    <3>3. z = [f EXCEPT !.data = NoOwner, !.dataReset = TRUE] OBVIOUS
    <3> HIDE DEF f, z
    <3>4. /\ z.topic = f.topic /\ z.checks = f.checks /\ z.login = f.login
          /\ z.data = NoOwner /\ z.pending = f.pending /\ z.staged = f.staged
          /\ z.out = f.out /\ z.resets = f.resets /\ z.twice = f.twice
          /\ z.before = f.before /\ z.reset = f.reset /\ z.dataReset = TRUE
          /\ z.owner = f.owner /\ z.todo = f.todo /\ z.samples = f.samples
          /\ z.dataKept = f.dataKept
      BY <3>1, <3>3 DEF IsSession
    <3> QED BY <3>1, <3>2, <3>3, <3>4 DEF IsSession
  <2> HIDE DEF z
  <2>2. Account!ResetTopics(z, Account!DataTopics).checks = q.checks BY <1>1, <2>1
  <2> QED BY <1>2, <2>2 DEF Account!ClearProfileData, z
<1> QED BY <1>1, <1>2, <1>3, <1>4, <1>5

LEMMA DataPatient ==
    ASSUME NEW q, IsSession(q), NEW bad, Account!RetryAssumption
    PROVE  Patient(q, Account!ValidateProfileData(q, bad))
<1> DEFINE check == Account!Ensure(q.checks["profile data"], "profile data" \in bad)
           next == [q EXCEPT !.checks["profile data"] = check]
<1>1. Patient(q, next)
  <2>1. "profile data" \in Account!Checks BY DEF Account!Checks
  <2> QED BY <2>1, EnsureOnePatient
<1>2. IsSession(next)
  <2>1. next = [q EXCEPT !.checks = [q.checks EXCEPT !["profile data"] = check]] OBVIOUS
  <2> QED BY <2>1, ChecksFollow DEF Follows
<1> HIDE DEF next
<1>3. \A left : Patient(q, Account!Unavailable(next, Account!DataTopics, left))
  BY <1>1, <1>2, UnavailableChecks, PatientSame, PatientBoth
<1>4. Patient(q, q) BY PatientSame
<1> USE DEF next
<1> QED BY <1>1, <1>3, <1>4 DEF Account!ValidateProfileData

LEMMA TopicPatient ==
    ASSUME NEW q, IsSession(q), NEW bad, NEW t, Account!RetryAssumption
    PROVE  Patient(q, Account!ValidateTopic(q, t, bad))
<1> DEFINE answer == Account!EnsureAll(q.checks, Account!Requires(t), bad)
           next == [q EXCEPT !.checks = answer.checks]
<1>1. Patient(q, next) BY EnsureAllPatient
<1>2. IsSession(next) BY ChecksFollow DEF Follows
<1> HIDE DEF next
<1>3. \A left : Patient(q, Account!Unavailable(next, {t}, left))
  BY <1>1, <1>2, UnavailableChecks, PatientSame, PatientBoth
<1>4. Patient(q, q) BY PatientSame
<1> USE DEF next
<1> QED BY <1>1, <1>3, <1>4 DEF Account!ValidateTopic

\* r is q validated further.
Validated(q, r) == Follows(q, r) /\ Patient(q, r)

LEMMA DuePatient ==
    ASSUME NEW q, IsSession(q), NEW bad, Account!RetryAssumption
    PROVE  Patient(q, Account!ValidateDue(q, bad))
<1>1. \A r, t : Validated(q, r) => Validated(q, Account!ValidateTopic(r, t, bad))
  <2> TAKE r, t
  <2> HAVE Validated(q, r)
  <2>1. IsSession(r) BY DEF Validated, Follows
  <2>2. Follows(q, Account!ValidateTopic(r, t, bad))
    BY <2>1, TopicValidated, Followed DEF Validated
  <2>3. Patient(q, Account!ValidateTopic(r, t, bad))
    BY <2>1, TopicPatient, PatientBoth DEF Validated
  <2> QED BY <2>2, <2>3 DEF Validated
<1>2. Validated(q, Account!ValidateProfileData(q, bad))
  BY DataValidated, DataPatient DEF Validated
<1>3. \A r : Validated(q, r) => Validated(q, Account!ValidateProgression(r, bad))
  BY <1>1 DEF Account!ValidateProgression
<1>4. \A r : Validated(q, r) => Validated(q, Account!ValidateOthers(r, bad))
  BY <1>1 DEF Account!ValidateOthers
<1>5. Validated(q, Account!ValidateDue(q, bad))
  BY <1>1, <1>2, <1>3, <1>4 DEF Account!ValidateDue
<1> QED BY <1>5 DEF Validated

LEMMA ReadyPatient ==
    ASSUME NEW q, IsSession(q), NEW bad, Account!RetryAssumption
    PROVE  Patient(q, Account!Ready(q, bad))
<1> DEFINE answer == Account!EnsureAll(q.checks, <<"executable", "account identity">>, bad)
           next == [q EXCEPT !.checks = answer.checks]
<1>1. Patient(q, next) BY EnsureAllPatient
<1>2. IsSession(next) BY ChecksFollow DEF Follows
<1> HIDE DEF next
<1>3. \A left : Patient(q, Account!Unavailable(next, Topics, left))
  BY <1>1, <1>2, UnavailableChecks, PatientSame, PatientBoth
<1>4. Patient(q, Account!ValidateDue(next, bad)) BY <1>1, <1>2, DuePatient, PatientBoth
<1> USE DEF next
<1> QED BY <1>3, <1>4 DEF Account!Ready

\* The reads and publications that validate nothing.
LEMMA ChecksUnread ==
    ASSUME AccountInv,
           \/ Account!NoAccount \/ Account!NoDataDue \/ Account!NoData
           \/ Account!DataAfter \/ Account!AccountChanged \/ Account!AccountAfter
    PROVE  s'.checks = s.checks
<1>1. IsSession(s) /\ s.twice \in BOOLEAN BY DEF AccountInv, SessionOK
<1>2. CASE Account!NoAccount
  <2> DEFINE c == Account!ClearLogin(s)
  <2>1. poll = "account" /\ s' = Account!Unavailable(c, Topics, Sample)
    BY <1>2 DEF Account!NoAccount
  <2>2. IsSession(c)
    BY <2>1, LoginCleared DEF AccountInv, StageOK, SessionOK
  <2>3. c.checks = s.checks BY <1>1, ResetChecks
  <2> HIDE DEF c
  <2> QED BY <2>1, <2>2, <2>3, UnavailableChecks
<1>3. CASE Account!NoDataDue BY <1>1, <1>3 DEF Account!NoDataDue, IsSession
<1>4. CASE Account!NoData
  <2> DEFINE c == Account!ClearProfileData(s)
             q == Account!Unavailable(c, Account!DataTopics, Sample)
  <2>1. poll = "data" /\ s' = [q EXCEPT !.todo = Account!Todo(q)]
    BY <1>4 DEF Account!NoData
  <2>2. IsSession(c)
    BY <2>1, DataCleared DEF AccountInv, StageOK, Begun, SessionOK
  <2>3. c.checks = s.checks BY <1>1, ResetChecks
  <2> HIDE DEF c
  <2>4. q.checks = s.checks BY <2>2, <2>3, UnavailableChecks
  <2>5. IsSession(q) BY <2>2, UnavailableFollows DEF Follows
  <2> HIDE DEF q
  <2> QED BY <2>1, <2>4, <2>5 DEF IsSession
<1>5. CASE Account!DataAfter BY <1>1, <1>5 DEF Account!DataAfter, IsSession
<1>6. CASE Account!AccountChanged
  <2> DEFINE p == {"player"} \cap Topics
             q == IF s.reset THEN s
                  ELSE IF s.dataReset THEN Account!ResetTopics(s, p)
                  ELSE Account!ResetAccount(s)
             f == Account!ForgetChat(q)
             gone == [f EXCEPT !.login = 0, !.data = NoOwner]
  <2>1. poll = "accountAfter" /\ s' = Account!Unavailable(gone, Topics, Sample)
    BY <1>6 DEF Account!AccountChanged
  <2>2. q.checks = s.checks BY <1>1, ResetChecks
  <2>3. IsSession(q) /\ q.twice \in BOOLEAN
    <3>1. IsSession(Account!ResetTopics(s, p)) /\ Account!ResetTopics(s, p).twice \in BOOLEAN
      <4> DEFINE r == Account!ResetTopics(s, p)
      <4>1. IsSession(r) /\ IsReset(s, r, p) BY <1>1, TopicsReset
      <4> HIDE DEF r, p
      <4>2. r.twice = (s.twice \/ Demanded(s, p) \cap s.resets # {}) BY <4>1 DEF IsReset
      <4>3. (s.twice \/ Demanded(s, p) \cap s.resets # {}) \in BOOLEAN OBVIOUS
      <4> QED BY <4>1, <4>2, <4>3 DEF r
    <3>2. ~s.reset /\ ~s.dataReset => s.resets = {}
      BY <2>1 DEF AccountInv, StageOK, Begun, ResetsOK
    <3>3. ~s.reset /\ ~s.dataReset =>
            /\ IsSession(Account!ResetAccount(s))
            /\ Account!ResetAccount(s).twice \in BOOLEAN
      BY <1>1, <3>2, AccountIsReset DEF SessionOK, AccountInv, Matches
    <3> QED BY <1>1, <3>1, <3>3
  <2> HIDE DEF q
  <2>4. IsSession(f) /\ f.checks = s.checks BY <2>2, <2>3, ChatForgotten, ResetChecks
  <2> HIDE DEF f
  <2>5. Account!Unavailable(gone, Topics, Sample).checks = f.checks
    BY <2>4 DEF Account!Unavailable, IsSession
  <2> QED BY <2>1, <2>4, <2>5
<1>7. CASE Account!AccountAfter BY <1>7 DEF Account!AccountAfter
<1> QED BY <1>2, <1>3, <1>4, <1>5, <1>6, <1>7

LEMMA PublishUnread ==
    ASSUME AccountInv, Account!Publish \/ Account!PublishFails
    PROVE  s'.checks = s.checks
<1>1. IsSession(s) /\ s.twice \in BOOLEAN BY DEF AccountInv, SessionOK
<1>2. \A q, ts, interval : IsSession(q) => Account!Show(q, ts, interval).checks = q.checks
  BY DEF Account!Show, IsSession
<1>3. CASE Account!Publish
  <2>1. CASE s.dataKept
    <3>1. PICK interval : s' = Account!Show(s, Topics, interval)
      BY <1>3, <2>1 DEF Account!Publish
    <3> QED BY <1>1, <1>2, <3>1
  <2>2. CASE ~s.dataKept
    <3> DEFINE p == {"player"} \cap Topics
               z == Account!Show(s, p, Sample)
               c == Account!ClearProfileData(z)
    <3>1. s' = Account!Unavailable(c, Account!DataTopics, Sample) /\ poll = "publish"
      BY <1>3, <2>2 DEF Account!Publish, Account!PlayerFirst
    <3>2. SessionOK(z, topic) /\ ResetsOK(z)
      <4>1. OutOK(s) BY <3>1 DEF AccountInv, StageOK, Begun, Silent, OutOK
      <4>2. SamplesOf(s, p) /\ p \in SUBSET Topics BY <3>1, SamplesAreMine
      <4>3. SessionOK(s, topic) /\ ResetsOK(s) BY <3>1 DEF AccountInv, StageOK, Begun
      <4> HIDE DEF p
      <4> QED BY <4>1, <4>2, <4>3, ShowKeeps
    <3>3. z.checks = s.checks BY <1>1, <1>2
    <3> HIDE DEF z
    <3>4. IsSession(z) /\ z.twice \in BOOLEAN BY <3>2 DEF SessionOK
    <3>5. c.checks = s.checks BY <3>3, <3>4, ResetChecks
    <3>6. IsSession(c) BY <3>2, DataCleared DEF SessionOK
    <3> HIDE DEF c
    <3> QED BY <3>1, <3>5, <3>6, UnavailableChecks
  <2> QED BY <2>1, <2>2
<1>4. CASE Account!PublishFails
  <2>1. PICK t \in Topics :
        LET q == Account!Show(s, Account!Before(t), ChatInterval)
            staged == Account!Show(q, {t}, ChatInterval)
        IN s' = IF t = "chat" THEN [staged EXCEPT !.topic = q.topic] ELSE q
    BY <1>4 DEF Account!PublishFails, Account!Shown
  <2> DEFINE b == Account!Before(t)
             q == Account!Show(s, b, ChatInterval)
             staged == Account!Show(q, {t}, ChatInterval)
  <2>2. s' = IF t = "chat" THEN [staged EXCEPT !.topic = q.topic] ELSE q BY <2>1
  <2>3. b \in SUBSET Topics /\ {t} \in SUBSET Topics
    BY DEF Account!Before, Account!PlayerFirst, Account!DataTopics
  <2> HIDE DEF b
  <2>4. IsSession(q) /\ q.checks = s.checks BY <1>1, <1>2, <2>3, ShowEffect
  <2> HIDE DEF q
  <2>5. staged.checks = s.checks BY <1>2, <2>4
  <2>6. IsSession(staged)
    <3> DEFINE ts == {t}
    <3>1. staged = Account!Show(q, ts, ChatInterval) /\ ts \in SUBSET Topics BY <2>3
    <3> HIDE DEF ts, staged
    <3> QED BY <2>4, <3>1, ShowEffect
  <2> HIDE DEF staged
  <2> QED BY <2>2, <2>4, <2>5, <2>6 DEF IsSession
<1> QED BY <1>3, <1>4

LEMMA EndUnread ==
    ASSUME IsSession(s), NEW committed,
           s' = Account!EndPoll(Account!Completed(s, committed))
    PROVE  s'.checks = s.checks
<1> DEFINE c == Account!Completed(s, committed)
<1>1. c.checks = s.checks BY DEF Account!Completed, IsSession
<1>2. IsSession(c)
  BY PollCompleted
<1> HIDE DEF c
<1>3. Account!EndPoll(c).checks = c.checks BY <1>2 DEF Account!EndPoll, IsSession
<1> QED BY <1>1, <1>3 DEF c

LEMMA StepPatient ==
    ASSUME AccountInv, Topics \subseteq Account!AccountTopics, Account!RetryAssumption,
           Account!Next, ~Account!Tick
    PROVE  Patient(s, s')
<1>1. IsSession(s) /\ s.twice \in BOOLEAN BY DEF AccountInv, SessionOK
<1>2. CASE \/ Account!Login \/ Account!Logout \/ Account!ReplaceData \/ Account!DropData
           \/ \E t \in Topics : Account!ChangeDemand(t) \/ Account!Expire(t)
  <2>1. s' = s
    BY <1>2 DEF Account!Login, Account!Logout, Account!ReplaceData, Account!DropData,
                Account!ChangeDemand, Account!Expire
  <2> QED BY <2>1, PatientSame
<1>3. CASE Account!StartPoll
  <2> DEFINE b == Account!Begin(s)
             q == Account!Settle(b)
  <2>1. s' = q \/ \E bad : s' = Account!Ready(q, bad) BY <1>3 DEF Account!StartPoll
  <2>2. IsSession(b) /\ b.checks = s.checks BY <1>1, BeginEffect DEF Fresh
  <2> HIDE DEF b
  <2>3. IsSession(q) /\ q.checks = s.checks BY <2>2, SettleEffect DEF Fresh
  <2> HIDE DEF q
  <2>4. Patient(s, q) BY <2>3, PatientSame
  <2> QED BY <2>1, <2>3, <2>4, ReadyPatient, PatientBoth
<1>4. CASE Account!AccountBefore
  <2> DEFINE changed == s.login # 0 /\ s.login # game.account
  <2>1. PICK q :
            /\ s' = [q EXCEPT !.login = game.account, !.before = game.account,
                              !.reset = changed, !.dataReset = changed]
            /\ \/ ~changed /\ q = s
               \/ changed /\ \E bad : q = Account!Revalidate(Account!ResetAccount(s), bad)
    BY <1>4, Zenon DEF Account!AccountBefore
  <2> DEFINE r == Account!ResetAccount(s)
  <2>2. IsSession(r) /\ r.checks = s.checks
    <3>1. s.resets = {} BY <1>4 DEF Account!AccountBefore, AccountInv, StageOK
    <3>2. \A t \in Topics : topic[t].owners # {} => s.topic[t].demanded
      BY DEF AccountInv, SessionOK, Matches
    <3>3. s.twice = FALSE BY DEF AccountInv, SessionOK
    <3>4. SessionOK(r, topic) BY <1>1, <3>1, <3>2, <3>3, AccountIsReset
    <3> QED BY <1>1, <3>4, ResetChecks DEF SessionOK
  <2> HIDE DEF r
  <2>3. q = s \/ \E bad : q = Account!ValidateDue(r, bad) BY <2>1 DEF Account!Revalidate, r
  <2>4. Patient(s, r) /\ Patient(s, s) BY <2>2, PatientSame
  <2>5. Patient(s, q) BY <2>2, <2>3, <2>4, DuePatient, PatientBoth
  <2>6. IsSession(q) BY <1>1, <2>2, <2>3, DueValidated DEF Follows
  <2>7. s'.checks = q.checks BY <2>1, <2>6 DEF IsSession
  <2> QED BY <2>5, <2>7, PatientSame, PatientBoth
<1>5. CASE Account!DataBefore
  <2> DEFINE owner == [account |-> s.before, data |-> game.data]
             changed == s.data # NoOwner /\ s.data # owner
  <2>1. PICK q :
            /\ \/ ~changed /\ q = s
               \/ /\ changed
                  /\ \E bad : q = Account!Revalidate(Account!ClearProfileData(s), bad)
            /\ LET found == [q EXCEPT !.data = owner, !.owner = owner]
               IN s' = [found EXCEPT !.todo = Account!Todo(found)]
    BY <1>5, Zenon DEF Account!DataBefore
  <2> DEFINE r == Account!ClearProfileData(s)
  <2>2. IsSession(r) /\ r.checks = s.checks
    <3>1. SessionOK(s, topic) /\ ResetsOK(s)
      BY <1>5 DEF Account!DataBefore, AccountInv, StageOK, Begun
    <3>2. SessionOK(r, topic) BY <3>1, DataCleared
    <3> QED BY <1>1, <3>2, ResetChecks DEF SessionOK
  <2> HIDE DEF r
  <2>3. q = s \/ \E bad : q = Account!ValidateDue(r, bad) BY <2>1 DEF Account!Revalidate, r
  <2>4. Patient(s, r) /\ Patient(s, s) BY <2>2, PatientSame
  <2>5. Patient(s, q) BY <2>2, <2>3, <2>4, DuePatient, PatientBoth
  <2>6. IsSession(q) BY <1>1, <2>2, <2>3, DueValidated DEF Follows
  <2> DEFINE found == [q EXCEPT !.data = owner, !.owner = owner]
             todo == Account!Todo(found)
  <2>7. s' = [found EXCEPT !.todo = todo] BY <2>1
  <2> HIDE DEF todo
  <2>8. s'.checks = q.checks BY <2>6, <2>7 DEF IsSession
  <2> QED BY <2>5, <2>8, PatientSame, PatientBoth
<1>6. CASE Account!TakeSample
  <2> DEFINE t == Account!First(s.todo)
  <2>1. PICK value \in {Failed, Account!OwnerOf(t, game)}, bad \in BOOLEAN :
          LET check == IF t = "player" THEN Account!Ensure(s.checks[t], bad) ELSE s.checks[t]
          IN s' = [s EXCEPT !.todo = @ \ {t}, !.checks[t] = check,
                            !.samples[t] = IF Account!Due(s, t) THEN value ELSE NoOwner]
    BY <1>6, Zenon DEF Account!TakeSample
  <2>2. t \in Account!Checks
    <3>1. s.todo \subseteq Topics /\ s.todo # {}
      BY <1>6 DEF Account!TakeSample, AccountInv, StageOK, Sampling, SamplesOK
    <3>2. t \in Topics BY <3>1, FirstTopic
    <3> QED BY <3>2 DEF Account!Checks
  <2> HIDE DEF t
  <2> DEFINE ensured == Account!Ensure(s.checks[t], bad)
             check == IF t = "player" THEN ensured ELSE s.checks[t]
             r == [s EXCEPT !.checks[t] = ensured]
  <2>3. s'.checks = [s.checks EXCEPT ![t] = check] BY <1>1, <2>1 DEF IsSession
  <2>4. Patient(s, r) BY <1>1, <2>2, EnsureOnePatient
  <2>5. r.checks = [s.checks EXCEPT ![t] = ensured] BY <1>1 DEF IsSession
  <2>6. CASE t = "player"
    <3>1. s'.checks = r.checks BY <2>3, <2>5, <2>6
    <3> HIDE DEF r
    <3> QED BY <2>4, <3>1, PatientSame, PatientBoth
  <2>7. CASE t # "player"
    <3>1. ASSUME ChecksOK(s) PROVE s'.checks = s.checks
      <4>1. DOMAIN s.checks = Account!Checks BY <3>1 DEF ChecksOK
      <4> QED BY <2>2, <2>3, <2>7, <3>1, <4>1 DEF ChecksOK
    <3> QED BY <3>1 DEF Patient, ChecksOK
  <2> QED BY <2>6, <2>7
<1>7. CASE \/ Account!NoAccount \/ Account!NoDataDue \/ Account!NoData
           \/ Account!DataAfter \/ Account!AccountChanged \/ Account!AccountAfter
           \/ Account!Publish \/ Account!PublishFails
           \/ Account!Accepted \/ \E failed \in BOOLEAN : Account!Discarded(failed)
  <2>1. s'.checks = s.checks
    BY <1>1, <1>7, ChecksUnread, PublishUnread, EndUnread DEF Account!Accepted, Account!Discarded
  <2> QED BY <2>1, PatientSame
<1> QED BY <1>2, <1>3, <1>4, <1>5, <1>6, <1>7 DEF Account!Next

\* The clock brings every deadline nearer.
LEMMA TickPatient ==
    ASSUME IsSession(s), ChecksOK(s), Account!Tick
    PROVE  ChecksOK(s') /\ Account!RetryKept
<1> DEFINE checks == [c \in Account!Checks |->
                        [s.checks[c] EXCEPT !.left = Account!Sooner(s.checks[c].left)]]
<1>1. s'.checks = checks BY DEF Account!Tick, IsSession
<1>2. ASSUME NEW c \in Account!Checks
      PROVE  /\ Cached(checks[c])
             /\ s.checks[c].left > 0 => checks[c].left = s.checks[c].left - 1
  <2> DEFINE check == s.checks[c]
             left == Account!Sooner(check.left)
  <2>1. Cached(check) BY DEF ChecksOK
  <2>2. left \in Nat /\ (left > 0 => check.left > 0) /\ (check.left > 0 => left = check.left - 1)
    BY <2>1 DEF Cached, Account!Sooner
  <2>3. checks[c] = [check EXCEPT !.left = left] OBVIOUS
  <2> HIDE DEF checks, check, left
  <2>4. checks[c] = [status |-> check.status, left |-> left] BY <2>1, <2>3 DEF Cached
  <2>5. check.left = s.checks[c].left BY DEF check
  <2> QED BY <2>1, <2>2, <2>4, <2>5 DEF Cached
<1>3. checks = [c \in Account!Checks |-> checks[c]] OBVIOUS
<1> HIDE DEF checks
<1> QED BY <1>1, <1>2, <1>3 DEF ChecksOK, Account!RetryKept

LEMMA InitChecks == ASSUME Account!Init PROVE ChecksOK(s)
<1>1. s.checks = [c \in Account!Checks |-> Account!Unchecked]
  BY DEF Account!Init, Account!NewSession
<1> QED BY <1>1 DEF ChecksOK, Cached, Account!Unchecked

\* CachedCheck::ensure: no poll of any topic, no reset and no change of the owner tries a
\* failed layout check before its own deadline.
THEOREM RetriesAreKept ==
    ASSUME Topics \subseteq Account!AccountTopics, Account!RetryAssumption
    PROVE  Account!Spec => [][Account!RetryKept]_Account!vars
<1> DEFINE Inv == AccountInv /\ ChecksOK(s)
<1>1. Account!Init => Inv BY AccountInit, InitChecks
<1>2. Inv /\ [Account!Next]_Account!vars => Inv'
  <2> SUFFICES ASSUME Inv, [Account!Next]_Account!vars PROVE Inv' OBVIOUS
  <2>1. AccountInv' BY AccountStep
  <2>2. ChecksOK(s')
    <3>1. CASE UNCHANGED Account!vars BY <3>1 DEF Account!vars
    <3>2. CASE Account!Tick BY <3>2, TickPatient DEF AccountInv, SessionOK
    <3>3. CASE Account!Next /\ ~Account!Tick BY <3>3, StepPatient DEF Patient
    <3> QED BY <3>1, <3>2, <3>3
  <2> QED BY <2>1, <2>2
<1>3. Inv /\ [Account!Next]_Account!vars => [Account!RetryKept]_Account!vars
  <2> SUFFICES ASSUME Inv, Account!Next PROVE Account!RetryKept OBVIOUS
  <2>1. CASE Account!Tick BY <2>1, TickPatient DEF AccountInv, SessionOK
  <2>2. CASE ~Account!Tick BY <2>2, StepPatient DEF Patient, Account!RetryKept
  <2> QED BY <2>1, <2>2
<1> QED BY <1>1, <1>2, <1>3, PTL DEF Account!Spec

-----------------------------------------------------------------------------
(* The session that polls the display, for every interval and any number of *)
(* logins, missions, overlays and pickers between any two reads of a poll.  *)

CONSTANTS Consumers, Closed, ScreensInterval, RelicInterval, ReadRetry, Fallible, Moving
VARIABLE v

Display == INSTANCE Visual WITH None <- NoOwner

\* The value that stands for no owner and no fault is neither.
NoOwnerIsNone ==
    \A a, b, c, d :
        /\ NoOwner # [account |-> a, client |-> b, rules |-> c, ui |-> d]
        /\ NoOwner # [client |-> a, overlay |-> b]
        /\ NoOwner # [kind |-> a, left |-> b]

\* The fields of the session, whatever they hold.
IsDisplay(q) ==
    /\ q = [plan |-> q.plan, next |-> q.next, since |-> q.since, retry |-> q.retry,
            delay |-> q.delay, ui |-> q.ui, owner |-> q.owner, checks |-> q.checks,
            out |-> q.out, resets |-> q.resets, twice |-> q.twice, asked |-> q.asked,
            before |-> q.before, after |-> q.after, fault |-> q.fault,
            sample |-> q.sample, picker |-> q.picker]
    /\ q.out = [t \in Consumers |-> q.out[t]]
    /\ q.plan \subseteq Consumers

\* r is q but for what the batch holds, the owner and the fault ...
SamePoll(q, r) ==
    /\ r.plan = q.plan /\ r.ui = q.ui /\ r.asked = q.asked /\ r.before = q.before
    /\ r.after = q.after /\ r.sample = q.sample /\ r.picker = q.picker

\* ... and but for failures.
SameBatch(q, r) ==
    /\ r.resets = q.resets /\ r.twice = q.twice
    /\ \A t \in Consumers : r.out[t] \in {q.out[t], Failed}

\* A wake moves deadlines only.
LEMMA WakeKeeps ==
    ASSUME NEW q, IsDisplay(q)
    PROVE  LET r == Display!Wake(q)
           IN IsDisplay(r) /\ SamePoll(q, r) /\ r.out = q.out /\ r.resets = q.resets
              /\ r.twice = q.twice /\ r.owner = q.owner /\ r.fault = q.fault
<1> DEFINE p == Display!WakeSource(q)
           r == Display!Wake(q)
<1>1. p = [q EXCEPT !.next = p.next] BY DEF IsDisplay, Display!WakeSource
<1>2. r = [p EXCEPT !.retry = 0] BY DEF Display!Wake
<1> HIDE DEF p, r
<1>3. IsDisplay(p) /\ SamePoll(q, p) /\ p.out = q.out /\ p.resets = q.resets
      /\ p.twice = q.twice /\ p.owner = q.owner /\ p.fault = q.fault
  BY <1>1 DEF IsDisplay, SamePoll
<1>4. IsDisplay(r) /\ SamePoll(q, r) /\ r.out = q.out /\ r.resets = q.resets
      /\ r.twice = q.twice /\ r.owner = q.owner /\ r.fault = q.fault
  BY <1>2, <1>3 DEF IsDisplay, SamePoll
<1> USE DEF r
<1> QED BY <1>4

\* demand: a topic that is no longer demanded has no owner.
LEMMA DemandIs ==
    ASSUME NEW q, IsDisplay(q), NEW plan \in SUBSET Consumers
    PROVE  LET r == Display!Demand(q, plan)
           IN /\ IsDisplay(r) /\ r.plan = plan /\ r.out = q.out /\ r.resets = q.resets
              /\ r.twice = q.twice /\ r.asked = q.asked /\ r.fault = q.fault
              /\ "relic" \in plan => r.owner = q.owner
              /\ plan # {} => r.ui = q.ui
<1> DEFINE p == Display!Update(q, plan)
           r == Display!Demand(q, plan)
<1>1. p = [q EXCEPT !.plan = plan, !.since = p.since, !.next = p.next]
  BY DEF IsDisplay, Display!Update
<1>2. IsDisplay(p) /\ p.plan = plan /\ p.out = q.out /\ p.resets = q.resets
      /\ p.twice = q.twice /\ p.asked = q.asked /\ p.fault = q.fault /\ p.owner = q.owner
      /\ p.ui = q.ui
  <2> HIDE DEF p
  <2> QED BY <1>1 DEF IsDisplay
<1>3. r = [p EXCEPT !.retry = r.retry, !.delay = r.delay,
                    !.owner = IF "relic" \in plan THEN p.owner ELSE NoOwner,
                    !.ui = IF plan = {} THEN NoOwner ELSE p.ui]
  <2>1. r = [p EXCEPT !.retry = IF "relic" \in plan \ q.plan THEN 0 ELSE p.retry,
                      !.delay = IF "relic" \in plan \ q.plan THEN 0 ELSE p.delay,
                      !.owner = IF "relic" \in plan THEN p.owner ELSE NoOwner,
                      !.ui = IF plan = {} THEN NoOwner ELSE p.ui]
    BY DEF Display!Demand
  <2> HIDE DEF p, r
  <2> QED BY <1>2, <2>1 DEF IsDisplay
<1> HIDE DEF p, r
<1>4. IsDisplay(r) /\ r.plan = plan /\ r.out = q.out /\ r.resets = q.resets
      /\ r.twice = q.twice /\ r.asked = q.asked /\ r.fault = q.fault
      /\ ("relic" \in plan => r.owner = q.owner) /\ (plan # {} => r.ui = q.ui)
  BY <1>2, <1>3 DEF IsDisplay
<1> USE DEF r
<1> QED BY <1>4

\* unavailable changes health and a deadline.
LEMMA UnavailableKeeps ==
    ASSUME NEW q, IsDisplay(q), NEW left
    PROVE  LET r == Display!Unavailable(q, left)
           IN IsDisplay(r) /\ SamePoll(q, r) /\ SameBatch(q, r) /\ r.owner = q.owner
              /\ r.fault = q.fault
<1> DEFINE out == [t \in Consumers |-> IF t \in q.plan THEN Failed ELSE q.out[t]]
           r == [q EXCEPT !.out = out, !.next = left]
<1>1. r = Display!Unavailable(q, left) BY DEF Display!Unavailable
<1>2. out = [t \in Consumers |-> out[t]] /\ \A t \in Consumers : out[t] \in {q.out[t], Failed}
  OBVIOUS
<1>3. r = [q EXCEPT !.out = out, !.next = left] OBVIOUS
<1> HIDE DEF out, r
<1>4. IsDisplay(r) BY <1>2, <1>3 DEF IsDisplay
<1>5. SamePoll(q, r) /\ SameBatch(q, r) /\ r.owner = q.owner /\ r.fault = q.fault
  BY <1>2, <1>3 DEF IsDisplay, SamePoll, SameBatch
<1> QED BY <1>1, <1>4, <1>5

\* The layout checks ask for the relic topic only if it is demanded.
LEMMA ReadyKeeps ==
    ASSUME NEW q, IsDisplay(q), q.asked = FALSE, NEW bad
    PROVE  LET r == Display!Ready(q, bad)
           IN /\ IsDisplay(r) /\ SameBatch(q, r) /\ r.owner = q.owner /\ r.plan = q.plan
              /\ r.ui = q.ui
              /\ r.asked \in BOOLEAN
              /\ r.asked => "relic" \in r.plan
<1> DEFINE answer == Display!EnsureAll(q.checks, <<"executable", "client", "screens">>, bad)
           p == [q EXCEPT !.checks = answer.checks]
           r == Display!Ready(q, bad)
<1>1. IsDisplay(p) /\ p.out = q.out /\ p.resets = q.resets /\ p.twice = q.twice
      /\ p.owner = q.owner /\ p.plan = q.plan /\ p.ui = q.ui /\ p.asked = FALSE
  BY DEF IsDisplay
<1>2. r = IF answer.left > 0 THEN Display!Unavailable(p, answer.left)
          ELSE Display!ValidateRelic(p, bad)
  BY DEF Display!Ready
<1> HIDE DEF p, answer, r
<1> SUFFICES /\ IsDisplay(r) /\ SameBatch(q, r) /\ r.owner = q.owner /\ r.plan = q.plan
             /\ r.ui = q.ui /\ r.asked \in BOOLEAN /\ (r.asked => "relic" \in r.plan)
  BY DEF r
<1>3. CASE answer.left > 0
  <2>1. r = Display!Unavailable(p, answer.left) BY <1>2, <1>3
  <2>2. IsDisplay(r) /\ SamePoll(p, r) /\ SameBatch(p, r) /\ r.owner = p.owner
    BY <1>1, <2>1, UnavailableKeeps
  <2> QED BY <1>1, <2>2 DEF SamePoll, SameBatch
<1>4. CASE ~(answer.left > 0)
  <2> DEFINE found == Display!EnsureAll(p.checks, <<"account", "world", "relic">>, bad)
             fault == IF found.left = 0 THEN NoOwner ELSE [kind |-> "Broken", left |-> found.left]
  <2>1. r = IF ~("relic" \in p.plan /\ p.retry = 0) THEN p
            ELSE [p EXCEPT !.asked = TRUE, !.checks = found.checks, !.fault = fault]
    BY <1>2, <1>4 DEF Display!ValidateRelic
  <2> HIDE DEF found, fault
  <2>2. CASE ~("relic" \in p.plan /\ p.retry = 0) BY <1>1, <2>1, <2>2 DEF SameBatch
  <2>3. CASE "relic" \in p.plan /\ p.retry = 0
    <3>1. r = [p EXCEPT !.asked = TRUE, !.checks = found.checks, !.fault = fault]
      BY <2>1, <2>3
    <3>2. IsDisplay(r) /\ r.out = p.out /\ r.resets = p.resets /\ r.twice = p.twice
          /\ r.owner = p.owner /\ r.plan = p.plan /\ r.ui = p.ui /\ r.asked = TRUE
      BY <1>1, <3>1 DEF IsDisplay
    <3> QED BY <1>1, <2>3, <3>2 DEF SameBatch
  <2> QED BY <2>2, <2>3
<1> QED BY <1>3, <1>4

-----------------------------------------------------------------------------
(* Resets and failures of the relic topic. *)

LEMMA ResetIs ==
    ASSUME NEW q, IsDisplay(q), NEW u
    PROVE  LET r == Display!Reset(q, u)
           IN /\ IsDisplay(r) /\ SamePoll(q, r) /\ r.owner = q.owner /\ r.fault = q.fault
              /\ r.resets = q.resets \cup {u}
              /\ r.twice = (q.twice \/ u \in q.resets)
              /\ \A t \in Consumers : r.out[t] = IF t = u THEN NoOwner ELSE q.out[t]
<1> DEFINE out == [t \in Consumers |-> IF t = u THEN NoOwner ELSE q.out[t]]
           r == Display!Reset(q, u)
<1>1. r = [q EXCEPT !.resets = q.resets \cup {u}, !.twice = q.twice \/ u \in q.resets,
                    !.out = out]
  <2>1. [q.out EXCEPT ![u] = NoOwner] = out BY DEF IsDisplay
  <2>2. r = [q EXCEPT !.resets = q.resets \cup {u}, !.twice = q.twice \/ u \in q.resets,
                      !.out = [q.out EXCEPT ![u] = NoOwner]]
    BY DEF Display!Reset, IsDisplay
  <2> HIDE DEF out, r
  <2> QED BY <2>1, <2>2
<1>2. /\ out = [t \in Consumers |-> out[t]]
      /\ \A t \in Consumers : out[t] = IF t = u THEN NoOwner ELSE q.out[t]
  OBVIOUS
<1> HIDE DEF out, r
<1>3. IsDisplay(r) /\ SamePoll(q, r) /\ r.owner = q.owner /\ r.fault = q.fault
      /\ r.resets = q.resets \cup {u} /\ r.twice = (q.twice \/ u \in q.resets)
      /\ r.out = out
  BY <1>1, <1>2 DEF IsDisplay, SamePoll
<1> QED BY <1>2, <1>3 DEF r

\* clear_owner: an owner goes with a reset, unless the poll has one.
LEMMA ClearOwnerIs ==
    ASSUME NEW q, IsDisplay(q)
    PROVE  LET r == Display!ClearOwner(q)
           IN /\ IsDisplay(r) /\ SamePoll(q, r) /\ r.owner = NoOwner /\ r.fault = q.fault
              /\ q.twice = FALSE => r.twice = FALSE
              /\ r.resets \in {q.resets, q.resets \cup {"relic"}}
              /\ q.owner # NoOwner => "relic" \in r.resets
              /\ \A t \in Consumers : \/ r.out[t] = q.out[t]
                                      \/ t = "relic" /\ r.out[t] = NoOwner
<1> DEFINE r == Display!ClearOwner(q)
<1> SUFFICES /\ IsDisplay(r) /\ SamePoll(q, r) /\ r.owner = NoOwner /\ r.fault = q.fault
             /\ (q.twice = FALSE => r.twice = FALSE)
             /\ r.resets \in {q.resets, q.resets \cup {"relic"}}
             /\ (q.owner # NoOwner => "relic" \in r.resets)
             /\ \A t \in Consumers : \/ r.out[t] = q.out[t]
                                     \/ t = "relic" /\ r.out[t] = NoOwner
  BY Zenon
<1>1. CASE q.owner = NoOwner \/ "relic" \in q.resets
  <2>1. r = [q EXCEPT !.owner = NoOwner] BY <1>1 DEF Display!ClearOwner
  <2> HIDE DEF r
  <2> QED BY <1>1, <2>1 DEF IsDisplay, SamePoll
<1>2. CASE ~(q.owner = NoOwner \/ "relic" \in q.resets)
  <2> DEFINE p == Display!Reset(q, "relic")
  <2>1. r = [p EXCEPT !.owner = NoOwner] BY <1>2 DEF Display!ClearOwner
  <2> HIDE DEF p, r
  <2>2. /\ IsDisplay(p) /\ SamePoll(q, p) /\ p.fault = q.fault
        /\ p.resets = q.resets \cup {"relic"}
        /\ p.twice = (q.twice \/ "relic" \in q.resets)
        /\ \A t \in Consumers : p.out[t] = IF t = "relic" THEN NoOwner ELSE q.out[t]
    BY ResetIs DEF p
  <2>3. IsDisplay(r) /\ SamePoll(p, r) /\ r.owner = NoOwner /\ r.fault = p.fault
        /\ r.twice = p.twice /\ r.resets = p.resets /\ r.out = p.out
    BY <2>1, <2>2 DEF IsDisplay, SamePoll
  <2>4. SamePoll(q, r) BY <2>2, <2>3 DEF SamePoll
  <2>5. q.twice = FALSE => r.twice = FALSE BY <1>2, <2>2, <2>3
  <2> QED BY <2>2, <2>3, <2>4, <2>5
<1> QED BY <1>1, <1>2

\* relic_unavailable changes the health and the backoff of the topic.
LEMMA RelicUnavailableIs ==
    ASSUME NEW q, IsDisplay(q), NEW fault
    PROVE  LET r == Display!RelicUnavailable(q, fault)
           IN /\ IsDisplay(r) /\ SamePoll(q, r) /\ SameBatch(q, r) /\ r.owner = q.owner
              /\ "relic" \in Consumers => r.out["relic"] = Failed
<1> DEFINE out == [t \in Consumers |-> IF t = "relic" THEN Failed ELSE q.out[t]]
           r == Display!RelicUnavailable(q, fault)
<1>1. PICK retry, delay : r = [q EXCEPT !.out = out, !.retry = retry, !.delay = delay]
  <2>1. [q.out EXCEPT !["relic"] = Failed] = out BY DEF IsDisplay
  <2>2. r = [q EXCEPT !.out = [q.out EXCEPT !["relic"] = Failed],
                      !.retry = IF fault.kind = "NotReady" THEN RelicInterval ELSE fault.left,
                      !.delay = IF fault.kind = "NotReady" THEN 0
                                ELSE Display!Smaller(2 * Display!Backoff(q), ReadRetry)]
    BY DEF Display!RelicUnavailable, IsDisplay
  <2> HIDE DEF out, r
  <2> QED BY <2>1, <2>2
<1>2. /\ out = [t \in Consumers |-> out[t]]
      /\ \A t \in Consumers : out[t] \in {q.out[t], Failed}
      /\ "relic" \in Consumers => out["relic"] = Failed
  OBVIOUS
<1> HIDE DEF out, r
<1>3. /\ IsDisplay(r) /\ SamePoll(q, r) /\ r.owner = q.owner /\ r.out = out
      /\ r.resets = q.resets /\ r.twice = q.twice
  BY <1>1, <1>2 DEF IsDisplay, SamePoll
<1>4. SameBatch(q, r) BY <1>2, <1>3 DEF SameBatch
<1> QED BY <1>2, <1>3, <1>4 DEF r

-----------------------------------------------------------------------------
(* The invariant. *)

Parts == {"account", "client", "rules", "overlay", "movie"}

\* Identities are numbered in the order the game takes them.
IdentitiesOK ==
    /\ fresh \in Nat
    /\ game = [p \in Parts |-> game[p]]
    /\ \A p \in Parts : game[p] \in 0 .. fresh

ServiceShaped ==
    topic = [t \in Consumers |->
               [demanded |-> topic[t].demanded, new |-> topic[t].new,
                fenced |-> topic[t].fenced, renewed |-> topic[t].renewed,
                owners |-> topic[t].owners, shown |-> topic[t].shown,
                told |-> topic[t].told]]

\* Whose a topic of the session is.
OwnerNow(q, t) == IF t = "screens" THEN q.ui ELSE q.owner

\* What the service shows is the session's owner's, or about to be reset.
Shows(q, shown) ==
    \A t \in Consumers : shown[t].owners # {} =>
        /\ t \in q.plan
        /\ t \in q.resets \/ (shown[t].owners = {OwnerNow(q, t)} /\ OwnerNow(q, t) # NoOwner)

\* What is shown is shown in a lifetime that is demanded, and committed to one.
Lives(t) ==
    /\ topic[t].owners = {} \/ \E owner : topic[t].owners = {owner}
    /\ topic[t].owners # {} => topic[t].demanded /\ (pc # "idle" => ~topic[t].renewed)
    /\ pc # "idle" /\ t \in v.plan /\ ~topic[t].fenced => topic[t].demanded

Quiet(q, t) == q.out[t] \in {NoOwner, Failed}

\* What is to be committed is the owner's, and choices are those of one picker.
Publishes(q) ==
    \A t \in Consumers : ~Quiet(q, t) =>
        /\ t \in q.plan /\ OwnerNow(q, t) # NoOwner
        /\ t = "screens" => q.out[t] = q.ui
        /\ t # "screens" =>
              /\ q.out[t].owner = q.owner
              /\ q.out[t].picker # Closed =>
                    q.out[t].picker = [account |-> q.owner.account, rules |-> q.owner.rules,
                                       movie |-> q.out[t].movie]

SessionRight(q, shown) == IsDisplay(q) /\ Shows(q, shown) /\ Publishes(q) /\ q.twice = FALSE

\* The login and the mission that a poll found first.
Before == v.before.account \in 1 .. fresh /\ v.before.rules \in 0 .. fresh

\* Choices that were read are those of the picker, mission and account found before,
\* if those are found again after.
Choices ==
    v.fault = NoOwner /\ v.picker # Closed =>
        /\ v.picker = [account |-> v.picker.account, rules |-> v.picker.rules,
                       movie |-> v.picker.movie]
        /\ v.before.rules # 0
        /\ (IF pc = "worldAfter" THEN v.after.account ELSE game["account"]) = v.before.account
             => v.picker.account = v.before.account
        /\ game["rules"] = v.before.rules => v.picker.rules = v.before.rules
        /\ pc # "recheck" \/ game["movie"] = v.sample.movie => v.picker.movie = v.sample.movie

Early == {"idle", "login", "world", "screens"}
Chosen == {"recheck", "loginAfter", "worldAfter"}
AfterScreens == {"relic", "choices"} \cup Chosen
DisplayStages == Early \cup AfterScreens \cup {"commit", "failed"}

DisplayStage ==
    /\ pc \in DisplayStages
    /\ pc \in Early => v.resets = {} /\ \A t \in Consumers : Quiet(v, t)
    /\ pc = "idle" => v.asked = FALSE
    /\ pc \in {"login", "world"} => v.asked = TRUE
    /\ pc \in Early \cup AfterScreens => v.asked \in BOOLEAN
    /\ pc \in Early \cup AfterScreens /\ v.asked => "relic" \in v.plan
    /\ pc \in AfterScreens => v.asked /\ Quiet(v, "relic")
    /\ pc = "relic" => "relic" \notin v.resets /\ v.sample.movie \in 0 .. fresh
    /\ pc = "world" => v.before.account \in 1 .. fresh
    /\ pc \in {"screens", "relic"} /\ v.asked /\ v.fault = NoOwner => Before
    /\ pc \in {"choices"} \cup Chosen =>
          Before /\ v.owner = Display!RelicOwner(v, v.before)
    /\ pc \in {"choices", "recheck"} => v.sample.movie \in 1 .. fresh
    /\ pc \in Chosen => Choices

DisplayInv ==
    /\ IdentitiesOK /\ ServiceShaped /\ SessionRight(v, topic)
    /\ \A t \in Consumers : Lives(t)
    /\ DisplayStage

LEMMA DisplayInit == Display!Init => DisplayInv
<1> SUFFICES ASSUME Display!Init PROVE DisplayInv OBVIOUS
<1>1. /\ v = Display!NewVisual /\ pc = "idle" /\ fresh = 1
      /\ \A t \in Consumers : topic[t] = Display!NewService
      /\ topic = [t \in Consumers |-> Display!NewService]
  BY DEF Display!Init
<1>2. IdentitiesOK
  <2>1. PICK movie \in {0, 1} :
           game = [account |-> 1, client |-> 1, rules |-> 1, overlay |-> 1, movie |-> movie]
    BY DEF Display!Init
  <2>2. game = [p \in Parts |-> game[p]] BY <2>1 DEF Parts
  <2> QED BY <1>1, <2>1, <2>2 DEF IdentitiesOK, Parts
<1>3. ServiceShaped BY <1>1 DEF ServiceShaped, Display!NewService
<1>4. /\ v.plan = {} /\ v.out = [t \in Consumers |-> NoOwner] /\ v.resets = {}
      /\ v.twice = FALSE /\ v.asked = FALSE
  BY <1>1 DEF Display!NewVisual, Display!NoOutput
<1>5. IsDisplay(v) BY <1>1, <1>4 DEF IsDisplay, Display!NewVisual
<1>6. SessionRight(v, topic)
  BY <1>1, <1>4, <1>5 DEF SessionRight, Shows, Publishes, Quiet, Display!NewService
<1>7. \A t \in Consumers : Lives(t) BY <1>1, <1>4 DEF Lives, Display!NewService
<1>8. DisplayStage
  BY <1>1, <1>4 DEF DisplayStage, DisplayStages, Early, AfterScreens, Chosen, Quiet
<1> QED BY <1>2, <1>3, <1>6, <1>7, <1>8 DEF DisplayInv

-----------------------------------------------------------------------------
(* The game, the clock and the service. *)

\* Identities are only added: one that is gone stays gone.
LEMMA WorldMoves ==
    ASSUME DisplayInv, NEW part \in Moving,
           Display!GameBegins(part) \/ Display!GameEnds(part)
    PROVE  DisplayInv'
<1> USE DEF DisplayInv
<1>1. UNCHANGED <<v, pc, topic>> BY DEF Display!GameBegins, Display!GameEnds
<1>2. /\ fresh \in Nat /\ fresh' \in Nat /\ fresh <= fresh'
      /\ game' = [p \in Parts |-> game'[p]]
      /\ \A p \in Parts : game'[p] \in {game[p], 0} \/ (game'[p] = fresh' /\ fresh' = fresh + 1)
  <2>1. DOMAIN game = Parts /\ fresh \in Nat BY DEF IdentitiesOK
  <2>2. \E id \in {0, fresh + 1} :
           /\ game' = Display!Changed(part, id)
           /\ (id = fresh + 1 /\ fresh' = fresh + 1) \/ (id = 0 /\ fresh' = fresh)
    BY DEF Display!GameBegins, Display!GameEnds
  <2>3. PICK id \in {0, fresh + 1} :
           /\ game' = Display!Changed(part, id)
           /\ (id = fresh + 1 /\ fresh' = fresh + 1) \/ (id = 0 /\ fresh' = fresh)
    BY <2>2
  <2>4. game' = [p \in Parts |-> IF p = part THEN id
                                 ELSE IF p \in Display!Below(part) THEN 0 ELSE game[p]]
    BY <2>1, <2>3 DEF Display!Changed
  <2> QED BY <2>1, <2>3, <2>4
<1>3. IdentitiesOK' BY <1>2 DEF IdentitiesOK
<1>4. \A p \in Parts : \A id \in 1 .. fresh : game'[p] = id => game[p] = id BY <1>2
<1>5. SessionRight(v, topic)' /\ ServiceShaped' /\ \A t \in Consumers : Lives(t)'
  BY <1>1 DEF SessionRight, ServiceShaped, Lives
<1>6. ASSUME pc \in {"choices"} \cup Chosen
      PROVE  Before' /\ v'.owner = Display!RelicOwner(v', v'.before)
  BY <1>1, <1>2, <1>6 DEF DisplayStage, Before, Display!RelicOwner
<1>7. ASSUME pc \in Chosen PROVE Choices'
  <2>1. Choices /\ Before BY <1>7 DEF DisplayStage
  <2>2. "account" \in Parts /\ "rules" \in Parts /\ "movie" \in Parts BY DEF Parts
  <2>3. v.before.account \in 1 .. fresh /\ v.before.rules \in 0 .. fresh BY <2>1 DEF Before
  <2>4. game'["account"] = v.before.account => game["account"] = v.before.account
    BY <1>4, <2>2, <2>3
  <2>5. v.before.rules # 0 /\ game'["rules"] = v.before.rules => game["rules"] = v.before.rules
    BY <1>2, <1>4, <2>2, <2>3
  <2>6. pc = "recheck" /\ game'["movie"] = v.sample.movie => game["movie"] = v.sample.movie
    <3>1. pc = "recheck" => v.sample.movie \in 1 .. fresh BY DEF DisplayStage
    <3> QED BY <1>4, <2>2, <3>1
  <2> QED BY <1>1, <2>1, <2>4, <2>5, <2>6 DEF Choices
<1>8. DisplayStage'
  <2>1. pc \in {"screens", "relic"} /\ v.asked /\ v.fault = NoOwner => Before'
    BY <1>1, <1>2 DEF DisplayStage, Before
  <2> QED BY <1>1, <1>2, <1>6, <1>7, <2>1 DEF DisplayStage, Quiet
<1> QED BY <1>3, <1>5, <1>8

\* The clock moves deadlines only.
LEMMA ClockKeeps == ASSUME DisplayInv, Display!Tick PROVE DisplayInv'
<1> USE DEF DisplayInv
<1>1. IsDisplay(v) /\ pc = "idle" /\ UNCHANGED <<game, fresh, pc, topic>>
  BY DEF SessionRight, Display!Tick
<1>2. v' = [v EXCEPT !.next = v'.next, !.retry = v'.retry, !.since = v'.since,
                     !.checks = v'.checks]
  BY <1>1 DEF Display!Tick, IsDisplay
<1>3. /\ IsDisplay(v') /\ v'.plan = v.plan /\ v'.ui = v.ui /\ v'.owner = v.owner
      /\ v'.out = v.out /\ v'.resets = v.resets /\ v'.twice = v.twice /\ v'.asked = v.asked
  BY <1>1, <1>2 DEF IsDisplay
<1>4. SessionRight(v', topic')
  BY <1>1, <1>3 DEF SessionRight, Shows, OwnerNow, Publishes, Quiet
<1>5. \A t \in Consumers : Lives(t)' BY <1>1, <1>3 DEF Lives
<1>6. DisplayStage'
  BY <1>1, <1>3 DEF DisplayStage, DisplayStages, Early, AfterScreens, Chosen, Quiet
<1> QED BY <1>1, <1>4, <1>5, <1>6 DEF IdentitiesOK, ServiceShaped

\* A new lifetime shows nothing, and a deadline only fences a poll.
LEMMA LifetimeMoves ==
    ASSUME DisplayInv, NEW u \in Consumers, Display!ChangeDemand(u) \/ Display!Expire(u)
    PROVE  DisplayInv'
<1> USE DEF DisplayInv
<1>1. UNCHANGED <<game, fresh, v, pc>> BY DEF Display!ChangeDemand, Display!Expire
<1>2. /\ \A t \in Consumers \ {u} : topic'[t] = topic[t]
      /\ topic'[u].owners = {} \/ (/\ topic'[u].owners = topic[u].owners
                                   /\ topic'[u].demanded = topic[u].demanded
                                   /\ topic'[u].renewed = topic[u].renewed)
      /\ topic'[u].fenced = TRUE
      /\ topic'[u] = [demanded |-> topic'[u].demanded, new |-> topic'[u].new,
                      fenced |-> topic'[u].fenced, renewed |-> topic'[u].renewed,
                      owners |-> topic'[u].owners, shown |-> topic'[u].shown,
                      told |-> topic'[u].told]
      /\ topic' = [t \in Consumers |-> topic'[t]]
  <2>1. topic = [t \in Consumers |-> topic[t]] BY DEF ServiceShaped
  <2>2. CASE Display!ChangeDemand(u)
    <3>1. topic' = [topic EXCEPT ![u] =
              [demanded |-> ~topic[u].demanded, new |-> TRUE, fenced |-> TRUE,
               renewed |-> TRUE, owners |-> {}, shown |-> FALSE, told |-> FALSE]]
      BY <2>2 DEF Display!ChangeDemand
    <3> QED BY <2>1, <3>1
  <2>3. CASE Display!Expire(u)
    <3>1. topic' = [topic EXCEPT ![u] = [topic[u] EXCEPT !.fenced = TRUE, !.shown = FALSE]]
      BY <2>1, <2>3 DEF Display!Expire
    <3>2. topic[u] = [demanded |-> topic[u].demanded, new |-> topic[u].new,
                      fenced |-> topic[u].fenced, renewed |-> topic[u].renewed,
                      owners |-> topic[u].owners, shown |-> topic[u].shown,
                      told |-> topic[u].told]
      BY DEF ServiceShaped
    <3>3. topic'[u] = [topic[u] EXCEPT !.fenced = TRUE, !.shown = FALSE] BY <2>1, <3>1
    <3>4. topic' = [t \in Consumers |-> topic'[t]] /\ \A t \in Consumers \ {u} : topic'[t] = topic[t]
      BY <2>1, <3>1
    <3> QED BY <3>2, <3>3, <3>4
  <2> QED BY <2>2, <2>3
<1>3. ServiceShaped'
  <2>1. \A t \in Consumers :
          topic'[t] = [demanded |-> topic'[t].demanded, new |-> topic'[t].new,
                       fenced |-> topic'[t].fenced, renewed |-> topic'[t].renewed,
                       owners |-> topic'[t].owners, shown |-> topic'[t].shown,
                       told |-> topic'[t].told]
    BY <1>2 DEF ServiceShaped
  <2> QED BY <1>2, <2>1 DEF ServiceShaped
<1>4. \A t \in Consumers : Lives(t)'
  <2> SUFFICES ASSUME NEW t \in Consumers PROVE Lives(t)' OBVIOUS
  <2>1. Lives(t) OBVIOUS
  <2>2. CASE t = u BY <1>1, <1>2, <2>1, <2>2 DEF Lives
  <2>3. CASE t # u BY <1>1, <1>2, <2>1, <2>3 DEF Lives
  <2> QED BY <2>2, <2>3
<1>5. SessionRight(v', topic')
  <2>1. \A t \in Consumers : topic'[t].owners # {} => topic'[t].owners = topic[t].owners
    BY <1>2
  <2> QED BY <1>1, <2>1 DEF SessionRight, Shows
<1>6. DisplayStage' BY <1>1 DEF DisplayStage, Before, Choices, Quiet, Display!RelicOwner
<1> QED BY <1>1, <1>3, <1>4, <1>5, <1>6 DEF IdentitiesOK

-----------------------------------------------------------------------------
(* The poll. *)

\* begin_generation and demand.
LEMMA BegunIs ==
    ASSUME IsDisplay(v)
    PROVE  LET r == Display!Begin(v)
           IN /\ IsDisplay(r) /\ r.plan = {t \in Consumers : topic[t].demanded}
              /\ r.out = v.out /\ r.resets = v.resets /\ r.twice = v.twice
              /\ r.asked = v.asked
              /\ "relic" \in r.plan => r.owner = v.owner
              /\ r.plan # {} => r.ui = v.ui
<1> DEFINE wanted == {t \in Consumers : topic[t].demanded}
           p == IF \E t \in wanted : topic[t].new THEN Display!Wake(v) ELSE v
           r == Display!Demand(p, wanted)
<1>1. Display!Begin(v) = r BY DEF Display!Begin
<1>2. /\ IsDisplay(p) /\ p.out = v.out /\ p.resets = v.resets /\ p.twice = v.twice
      /\ p.asked = v.asked /\ p.owner = v.owner /\ p.ui = v.ui
  <2>1. CASE \E t \in wanted : topic[t].new
    <3>1. p = Display!Wake(v) BY <2>1
    <3> HIDE DEF p
    <3> QED BY <3>1, WakeKeeps DEF SamePoll
  <2>2. CASE ~\E t \in wanted : topic[t].new BY <2>2
  <2> QED BY <2>1, <2>2
<1>3. wanted \in SUBSET Consumers OBVIOUS
<1> HIDE DEF p, wanted
<1>4. /\ IsDisplay(r) /\ r.plan = wanted /\ r.out = p.out /\ r.resets = p.resets
      /\ r.twice = p.twice /\ r.asked = p.asked
      /\ "relic" \in wanted => r.owner = p.owner
      /\ wanted # {} => r.ui = p.ui
  BY <1>2, <1>3, DemandIs
<1> HIDE DEF r
<1> QED BY <1>1, <1>2, <1>4 DEF wanted

\* A poll begins with what is demanded, and shows nothing yet.
LEMMA DisplayStarts ==
    ASSUME DisplayInv, Consumers \subseteq {"screens", "relic"}, Display!StartPoll
    PROVE  DisplayInv'
<1> USE DEF DisplayInv
<1> DEFINE q == Display!Begin(v)
           wanted == {t \in Consumers : topic[t].demanded}
<1>1. /\ pc = "idle" /\ UNCHANGED <<game, fresh>>
      /\ topic' = [t \in Consumers |-> [topic[t] EXCEPT !.fenced = ~topic[t].demanded,
                                            !.renewed = FALSE,
                                            !.new = topic[t].new /\ ~topic[t].demanded]]
  BY DEF Display!StartPoll
<1>2. \/ v' = q /\ pc' = "commit"
      \/ \E bad : /\ v' = Display!Ready(q, bad)
                  /\ pc' \in {"commit", "login", "screens"}
                  /\ pc' = "login" => v'.asked
                  /\ pc' = "screens" => ~(v'.asked /\ v'.fault = NoOwner)
  BY DEF Display!StartPoll
<1>3. /\ IsDisplay(v) /\ v.asked = FALSE /\ v.resets = {} /\ v.twice = FALSE
      /\ \A t \in Consumers : Quiet(v, t)
  BY <1>1 DEF SessionRight, DisplayStage, Early
<1>4. /\ IsDisplay(q) /\ q.plan = wanted /\ q.out = v.out /\ q.resets = {}
      /\ q.twice = FALSE /\ q.asked = FALSE
      /\ "relic" \in wanted => q.owner = v.owner
      /\ wanted # {} => q.ui = v.ui
  BY <1>3, BegunIs
<1> HIDE DEF q
<1>5. /\ IsDisplay(v') /\ SameBatch(q, v') /\ v'.owner = q.owner /\ v'.plan = q.plan
      /\ v'.ui = q.ui /\ v'.asked \in BOOLEAN
      /\ v'.asked => "relic" \in v'.plan
      /\ pc' \in {"commit", "login", "screens"}
      /\ pc' = "login" => v'.asked
      /\ pc' = "screens" => ~(v'.asked /\ v'.fault = NoOwner)
  <2>1. CASE v' = q /\ pc' = "commit" BY <1>4, <2>1 DEF SameBatch
  <2>2. CASE \E bad : /\ v' = Display!Ready(q, bad)
                      /\ pc' \in {"commit", "login", "screens"}
                      /\ pc' = "login" => v'.asked
                      /\ pc' = "screens" => ~(v'.asked /\ v'.fault = NoOwner)
    <3>1. PICK bad : /\ v' = Display!Ready(q, bad)
                     /\ pc' \in {"commit", "login", "screens"}
                     /\ pc' = "login" => v'.asked
                     /\ pc' = "screens" => ~(v'.asked /\ v'.fault = NoOwner)
      BY <2>2
    <3>2. LET r == Display!Ready(q, bad)
          IN /\ IsDisplay(r) /\ SameBatch(q, r) /\ r.owner = q.owner /\ r.plan = q.plan
             /\ r.ui = q.ui /\ r.asked \in BOOLEAN
             /\ r.asked => "relic" \in r.plan
      BY <1>4, ReadyKeeps
    <3> QED BY <3>1, <3>2
  <2> QED BY <1>2, <2>1, <2>2
<1>6. /\ v'.resets = {} /\ v'.twice = FALSE /\ v'.plan = wanted
      /\ \A t \in Consumers : Quiet(v', t)
      /\ "relic" \in wanted => v'.owner = v.owner
      /\ wanted # {} => v'.ui = v.ui
  BY <1>3, <1>4, <1>5 DEF SameBatch, Quiet
<1>7. \A t \in Consumers : /\ topic'[t].owners = topic[t].owners
                           /\ topic'[t].demanded = topic[t].demanded
                           /\ topic'[t].renewed = FALSE
                           /\ topic'[t].fenced = ~topic[t].demanded
                           /\ topic'[t] = [demanded |-> topic'[t].demanded, new |-> topic'[t].new,
                                fenced |-> topic'[t].fenced, renewed |-> topic'[t].renewed,
                                owners |-> topic'[t].owners, shown |-> topic'[t].shown,
                                told |-> topic'[t].told]
  <2> TAKE t \in Consumers
  <2>1. topic[t] = [demanded |-> topic[t].demanded, new |-> topic[t].new,
                    fenced |-> topic[t].fenced, renewed |-> topic[t].renewed,
                    owners |-> topic[t].owners, shown |-> topic[t].shown,
                    told |-> topic[t].told]
    BY DEF ServiceShaped
  <2>2. topic'[t] = [topic[t] EXCEPT !.fenced = ~topic[t].demanded, !.renewed = FALSE,
                                     !.new = topic[t].new /\ ~topic[t].demanded]
    BY <1>1
  <2> QED BY <2>1, <2>2
<1>8. ServiceShaped'
  <2>1. topic' = [t \in Consumers |-> topic'[t]] BY <1>1
  <2> QED BY <1>7, <2>1 DEF ServiceShaped
<1>9. Shows(v', topic')
  <2> SUFFICES ASSUME NEW t \in Consumers, topic'[t].owners # {}
      PROVE  /\ t \in v'.plan
             /\ topic'[t].owners = {OwnerNow(v', t)} /\ OwnerNow(v', t) # NoOwner
    BY DEF Shows
  <2>1. topic[t].owners # {} /\ topic[t].demanded /\ t \in wanted BY <1>7 DEF Lives
  <2>2. topic[t].owners = {OwnerNow(v, t)} /\ OwnerNow(v, t) # NoOwner
    BY <1>3, <2>1 DEF SessionRight, Shows
  <2>3. OwnerNow(v', t) = OwnerNow(v, t) BY <1>6, <2>1 DEF OwnerNow
  <2> QED BY <1>6, <1>7, <2>1, <2>2, <2>3
<1>10. SessionRight(v', topic') BY <1>5, <1>6, <1>9 DEF SessionRight, Publishes
<1>11. \A t \in Consumers : Lives(t)'
  <2> TAKE t \in Consumers
  <2>1. Lives(t) OBVIOUS
  <2>2. /\ topic'[t].owners = topic[t].owners /\ topic'[t].demanded = topic[t].demanded
        /\ topic'[t].renewed = FALSE /\ topic'[t].fenced = ~topic[t].demanded
    BY <1>7
  <2> QED BY <2>1, <2>2 DEF Lives
<1>12. DisplayStage'
  BY <1>5, <1>6 DEF DisplayStage, DisplayStages, Early, AfterScreens, Chosen
<1> QED BY <1>1, <1>8, <1>10, <1>11, <1>12 DEF IdentitiesOK

-----------------------------------------------------------------------------
(* The steps of a poll. *)

\* What a step of a poll leaves alone.
LEMMA StepOfPoll ==
    ASSUME DisplayInv, UNCHANGED <<game, fresh, topic>>, pc # "idle",
           SessionRight(v', topic), v'.plan = v.plan, DisplayStage'
    PROVE  DisplayInv'
<1> USE DEF DisplayInv
<1>1. \A t \in Consumers : Lives(t)' BY DEF Lives
<1> QED BY <1>1 DEF IdentitiesOK, ServiceShaped, SessionRight

\* A step that changes neither owner nor data.
LEMMA SameRight ==
    ASSUME NEW q, NEW r, NEW shown, SessionRight(q, shown), IsDisplay(r),
           r.plan = q.plan, r.ui = q.ui, r.owner = q.owner, SameBatch(q, r)
    PROVE  /\ SessionRight(r, shown) /\ r.resets = q.resets
           /\ \A t \in Consumers : Quiet(q, t) => Quiet(r, t)
<1>1. \A t \in Consumers : OwnerNow(r, t) = OwnerNow(q, t) BY DEF OwnerNow
<1>2. Shows(r, shown) BY <1>1 DEF SessionRight, Shows, SameBatch
<1>3. \A t \in Consumers : ~Quiet(r, t) => ~Quiet(q, t) /\ r.out[t] = q.out[t]
  BY DEF SameBatch, Quiet
<1>4. Publishes(r) BY <1>1, <1>3 DEF SessionRight, Publishes
<1>5. r.twice = FALSE BY DEF SessionRight, SameBatch
<1> QED BY <1>2, <1>3, <1>4, <1>5 DEF SessionRight, SameBatch

LEMMA LoginSeen == ASSUME DisplayInv, Display!ReadLogin PROVE DisplayInv'
<1> USE DEF DisplayInv
<1> DEFINE found == [account |-> game.account]
<1>1. /\ pc = "login" /\ pc' = "world" /\ game.account # 0
      /\ v' = [v EXCEPT !.before = found] /\ UNCHANGED <<game, fresh, topic>>
  BY DEF Display!ReadLogin
<1>2. IsDisplay(v) BY DEF SessionRight
<1>4. found.account \in 1 .. fresh BY <1>1 DEF IdentitiesOK, Parts
<1> HIDE DEF found
<1>5. /\ IsDisplay(v') /\ v'.plan = v.plan /\ v'.ui = v.ui /\ v'.owner = v.owner
      /\ SameBatch(v, v') /\ v'.asked = v.asked /\ v'.before = found
  <2>1. /\ IsDisplay(v') /\ v'.plan = v.plan /\ v'.ui = v.ui /\ v'.owner = v.owner
        /\ v'.out = v.out /\ v'.resets = v.resets /\ v'.twice = v.twice
        /\ v'.asked = v.asked /\ v'.before = found
    BY <1>1, <1>2 DEF IsDisplay
  <2> QED BY <2>1 DEF SameBatch
<1>6. /\ SessionRight(v', topic) /\ v'.resets = v.resets
      /\ \A t \in Consumers : Quiet(v, t) => Quiet(v', t)
  BY <1>5, SameRight
<1>7. DisplayStage'
  BY <1>1, <1>4, <1>5, <1>6 DEF DisplayStage, DisplayStages, Early, AfterScreens, Chosen
<1> QED BY <1>1, <1>5, <1>6, <1>7, StepOfPoll

LEMMA WorldSeen == ASSUME DisplayInv, Display!ReadWorld PROVE DisplayInv'
<1> USE DEF DisplayInv
<1> DEFINE found == [account |-> v.before.account, client |-> game.client,
                     rules |-> game.rules]
<1>1. /\ pc = "world" /\ pc' = "screens"
      /\ v' = [v EXCEPT !.before = found] /\ UNCHANGED <<game, fresh, topic>>
  BY DEF Display!ReadWorld, Display!World
<1>2. IsDisplay(v) BY DEF SessionRight
<1>4. found.account \in 1 .. fresh /\ found.rules \in 0 .. fresh
  BY <1>1 DEF IdentitiesOK, Parts, DisplayStage
<1> HIDE DEF found
<1>5. /\ IsDisplay(v') /\ v'.plan = v.plan /\ v'.ui = v.ui /\ v'.owner = v.owner
      /\ SameBatch(v, v') /\ v'.asked = v.asked /\ v'.before = found
  <2>1. /\ IsDisplay(v') /\ v'.plan = v.plan /\ v'.ui = v.ui /\ v'.owner = v.owner
        /\ v'.out = v.out /\ v'.resets = v.resets /\ v'.twice = v.twice
        /\ v'.asked = v.asked /\ v'.before = found
    BY <1>1, <1>2 DEF IsDisplay
  <2> QED BY <2>1 DEF SameBatch
<1>6. /\ SessionRight(v', topic) /\ v'.resets = v.resets
      /\ \A t \in Consumers : Quiet(v, t) => Quiet(v', t)
  BY <1>5, SameRight
<1>7. DisplayStage'
  BY <1>1, <1>4, <1>5, <1>6
    DEF DisplayStage, DisplayStages, Early, AfterScreens, Chosen, Before
<1> QED BY <1>1, <1>5, <1>6, <1>7, StepOfPoll

LEMMA OwnerMissing ==
    ASSUME DisplayInv, NoOwnerIsNone, NEW kind, Display!NoOwner(kind)
    PROVE  DisplayInv'
<1> USE DEF DisplayInv
<1> DEFINE fault == Display!Fault(v, kind)
<1>1. /\ pc \in {"login", "world"} /\ pc' = "screens" /\ v' = [v EXCEPT !.fault = fault]
      /\ UNCHANGED <<game, fresh, topic>>
  BY DEF Display!NoOwner
<1>2. IsDisplay(v) BY DEF SessionRight
<1>3. fault # NoOwner BY DEF NoOwnerIsNone, Display!Fault
<1> HIDE DEF fault
<1>5. /\ IsDisplay(v') /\ v'.plan = v.plan /\ v'.ui = v.ui /\ v'.owner = v.owner
      /\ SameBatch(v, v') /\ v'.asked = v.asked /\ v'.fault = fault
  <2>1. /\ IsDisplay(v') /\ v'.plan = v.plan /\ v'.ui = v.ui /\ v'.owner = v.owner
        /\ v'.out = v.out /\ v'.resets = v.resets /\ v'.twice = v.twice
        /\ v'.asked = v.asked /\ v'.fault = fault
    BY <1>1, <1>2 DEF IsDisplay
  <2> QED BY <2>1 DEF SameBatch
<1>6. /\ SessionRight(v', topic) /\ v'.resets = v.resets
      /\ \A t \in Consumers : Quiet(v, t) => Quiet(v', t)
  BY <1>5, SameRight
<1>7. DisplayStage'
  BY <1>1, <1>3, <1>5, <1>6 DEF DisplayStage, DisplayStages, Early, AfterScreens, Chosen
<1> QED BY <1>1, <1>5, <1>6, <1>7, StepOfPoll

\* A screens topic that saw another interface is reset.
LEMMA ScreensReset ==
    ASSUME NEW q, SessionRight(q, topic), "screens" \notin q.resets, NEW sample
    PROVE  LET r == Display!ResetScreens(q, sample)
           IN /\ IsDisplay(r) /\ SamePoll(q, r) /\ r.owner = q.owner /\ r.fault = q.fault
              /\ r.twice = FALSE /\ r.resets \in {q.resets, q.resets \cup {"screens"}}
              /\ \A t \in Consumers : r.out[t] \in {q.out[t], NoOwner}
              /\ "screens" \in q.plan /\ q.ui \notin {NoOwner, sample.ui} =>
                    "screens" \in r.resets
<1> DEFINE again == "screens" \in q.plan /\ q.ui # NoOwner /\ q.ui # sample.ui
           r == Display!ResetScreens(q, sample)
<1>1. IsDisplay(q) /\ q.twice = FALSE BY DEF SessionRight
<1>2. CASE again
  <2> DEFINE p == Display!Reset(q, "screens")
  <2>1. /\ IsDisplay(p) /\ SamePoll(q, p) /\ p.owner = q.owner /\ p.fault = q.fault
        /\ p.resets = q.resets \cup {"screens"}
        /\ p.twice = (q.twice \/ "screens" \in q.resets)
        /\ \A t \in Consumers : p.out[t] = IF t = "screens" THEN NoOwner ELSE q.out[t]
    BY <1>1, ResetIs
  <2>2. r = p BY <1>2 DEF Display!ResetScreens
  <2> HIDE DEF p, r
  <2>3. r.twice = FALSE BY <1>1, <2>1, <2>2
  <2> QED BY <2>1, <2>2, <2>3 DEF r
<1>3. CASE ~again
  <2>1. r = q BY <1>3 DEF Display!ResetScreens
  <2> HIDE DEF r
  <2>2. SamePoll(q, q) BY DEF SamePoll
  <2> QED BY <1>1, <1>3, <2>1, <2>2 DEF r
<1> QED BY <1>2, <1>3

\* screens::read: the sample is of one interface, and its data is of that one.
LEMMA ScreensSeen ==
    ASSUME DisplayInv, NoOwnerIsNone, Consumers \subseteq {"screens", "relic"},
           Display!ReadScreens
    PROVE  DisplayInv'
<1> USE DEF DisplayInv
<1> DEFINE sample == [ui |-> [client |-> game.client, overlay |-> game.overlay],
                      movie |-> game.movie]
           q == Display!ResetScreens(v, sample)
           out == IF "screens" \in q.plan THEN [q.out EXCEPT !["screens"] = sample.ui]
                  ELSE q.out
<1>1. /\ pc = "screens" /\ UNCHANGED <<game, fresh, topic>>
      /\ pc' = IF v.asked THEN "relic" ELSE "commit"
  BY DEF Display!ReadScreens
<1>2. /\ IsDisplay(v) /\ SessionRight(v, topic) /\ v.resets = {} /\ v.asked \in BOOLEAN
      /\ \A t \in Consumers : Quiet(v, t)
  BY <1>1 DEF SessionRight, DisplayStage, Early
<1>3. /\ IsDisplay(q) /\ SamePoll(v, q) /\ q.owner = v.owner /\ q.fault = v.fault
      /\ q.twice = FALSE /\ q.resets \in {v.resets, v.resets \cup {"screens"}}
      /\ \A t \in Consumers : q.out[t] \in {v.out[t], NoOwner}
      /\ "screens" \in v.plan /\ v.ui \notin {NoOwner, sample.ui} => "screens" \in q.resets
  BY <1>2, ScreensReset
<1>4. v' = [q EXCEPT !.out = out, !.ui = sample.ui, !.sample = sample,
                     !.since = 0, !.next = v'.next]
  <2>1. Display!ScreenSample = sample BY DEF Display!ScreenSample
  <2> DEFINE shown == IF "screens" \in q.plan THEN [q EXCEPT !.out["screens"] = sample.ui]
                      ELSE q
             kept == [shown EXCEPT !.ui = sample.ui, !.sample = sample]
  <2>2. v' = [kept EXCEPT !.since = 0, !.next = Display!Interval(kept.plan)]
    BY <2>1 DEF Display!ReadScreens, Display!Sampled
  <2>3. shown = [q EXCEPT !.out = out] 
    <3> HIDE DEF q
    <3> QED BY <1>3 DEF IsDisplay
  <2> HIDE DEF out, sample, q, shown
  <2> QED BY <1>3, <2>2, <2>3 DEF IsDisplay
<1>5. sample.ui # NoOwner BY DEF NoOwnerIsNone
<1>6. sample.movie \in 0 .. fresh BY DEF IdentitiesOK, Parts
<1> HIDE DEF sample, q
<1>7. /\ out = [t \in Consumers |-> out[t]]
      /\ \A t \in Consumers : \/ t = "screens" /\ "screens" \in q.plan /\ out[t] = sample.ui
                              \/ ~(t = "screens" /\ "screens" \in q.plan) /\ out[t] = q.out[t]
  BY <1>3 DEF IsDisplay
<1> HIDE DEF out
<1>8. /\ IsDisplay(v') /\ v'.plan = q.plan /\ v'.owner = q.owner /\ v'.out = out
      /\ v'.resets = q.resets /\ v'.twice = q.twice /\ v'.ui = sample.ui
      /\ v'.sample = sample /\ v'.asked = q.asked /\ v'.before = q.before
      /\ v'.fault = q.fault
  BY <1>3, <1>4, <1>7 DEF IsDisplay
<1>9. /\ v'.plan = v.plan /\ v'.owner = v.owner /\ v'.asked = v.asked
      /\ v'.before = v.before /\ v'.fault = v.fault /\ v'.twice = FALSE
      /\ v'.resets \subseteq {"screens"}
      /\ "screens" \in v.plan /\ v.ui \notin {NoOwner, sample.ui} => "screens" \in v'.resets
  BY <1>2, <1>3, <1>8 DEF SamePoll
<1>10. \A t \in Consumers : \/ Quiet(v', t)
                            \/ t = "screens" /\ t \in v.plan /\ v'.out[t] = v'.ui
  BY <1>2, <1>3, <1>7, <1>8, <1>9 DEF Quiet
<1>11. Publishes(v')
  BY <1>5, <1>8, <1>9, <1>10 DEF Publishes, OwnerNow
<1>12. Shows(v', topic)
  <2> SUFFICES ASSUME NEW t \in Consumers, topic[t].owners # {}
      PROVE  /\ t \in v'.plan
             /\ t \in v'.resets \/ (topic[t].owners = {OwnerNow(v', t)}
                                    /\ OwnerNow(v', t) # NoOwner)
    BY DEF Shows
  <2>1. t \in v.plan /\ topic[t].owners = {OwnerNow(v, t)} /\ OwnerNow(v, t) # NoOwner
    BY <1>2 DEF SessionRight, Shows
  <2>2. CASE t = "screens" BY <1>8, <1>9, <2>1, <2>2 DEF OwnerNow
  <2>3. CASE t # "screens" BY <1>9, <2>1, <2>3 DEF OwnerNow
  <2> QED BY <2>2, <2>3
<1>13. SessionRight(v', topic) BY <1>8, <1>9, <1>11, <1>12 DEF SessionRight
<1>14. v'.asked /\ v'.fault = NoOwner => Before'
  BY <1>1, <1>9 DEF DisplayStage, Before
<1>15. v'.asked => "relic" \in v'.plan /\ Quiet(v', "relic")
  <2>1. v.asked => "relic" \in v.plan BY <1>1 DEF DisplayStage, Early
  <2> QED BY <1>2, <1>9, <1>10, <2>1 DEF IsDisplay
<1>16. DisplayStage'
  BY <1>1, <1>2, <1>6, <1>8, <1>9, <1>14, <1>15
    DEF DisplayStage, DisplayStages, Early, AfterScreens, Chosen
<1> QED BY <1>1, <1>9, <1>13, <1>16, StepOfPoll

\* The sink refuses the screens: a reset stays in the batch.
LEMMA ScreensUnsent ==
    ASSUME DisplayInv, Display!ScreensRefused
    PROVE  DisplayInv'
<1> USE DEF DisplayInv
<1>1. /\ pc = "screens" /\ pc' = "failed" /\ UNCHANGED <<game, fresh, topic>>
      /\ v' = Display!ResetScreens(v, Display!ScreenSample)
  BY DEF Display!ScreensRefused
<1>2. SessionRight(v, topic) /\ v.resets = {} /\ \A t \in Consumers : Quiet(v, t)
  BY <1>1 DEF DisplayStage, Early
<1>3. /\ IsDisplay(v') /\ SamePoll(v, v') /\ v'.owner = v.owner /\ v'.twice = FALSE
      /\ v.resets \subseteq v'.resets
      /\ \A t \in Consumers : v'.out[t] \in {v.out[t], NoOwner}
  BY <1>1, <1>2, ScreensReset
<1>4. \A t \in Consumers : OwnerNow(v', t) = OwnerNow(v, t)
  BY <1>3 DEF OwnerNow, SamePoll
<1>5. Shows(v', topic) BY <1>2, <1>3, <1>4 DEF SessionRight, Shows, SamePoll
<1>6. Publishes(v') BY <1>2, <1>3 DEF Publishes, Quiet
<1>7. DisplayStage'
  BY <1>1 DEF DisplayStage, DisplayStages, Early, AfterScreens, Chosen
<1> QED BY <1>1, <1>3, <1>5, <1>6, <1>7, StepOfPoll DEF SessionRight, SamePoll

LEMMA ScreensMissing == ASSUME DisplayInv, NEW kind, Display!NoScreens(kind) PROVE DisplayInv'
<1> USE DEF DisplayInv
<1> DEFINE left == IF kind = "Broken" THEN ReadRetry ELSE Display!Interval(v.plan)
<1>1. /\ pc = "screens" /\ pc' = "commit" /\ UNCHANGED <<game, fresh, topic>>
      /\ v' = Display!Unavailable(v, left)
  BY DEF Display!NoScreens
<1> HIDE DEF left
<1>2. SessionRight(v, topic) /\ IsDisplay(v) BY DEF SessionRight
<1>3. IsDisplay(v') /\ SamePoll(v, v') /\ SameBatch(v, v') /\ v'.owner = v.owner
  BY <1>1, <1>2, UnavailableKeeps
<1>4. SessionRight(v', topic) BY <1>2, <1>3, SameRight DEF SamePoll
<1>5. DisplayStage'
  BY <1>1 DEF DisplayStage, DisplayStages, Early, AfterScreens, Chosen
<1> QED BY <1>1, <1>3, <1>4, <1>5, StepOfPoll DEF SamePoll

-----------------------------------------------------------------------------
(* The relic topic. *)

\* An owner that goes is reset before another comes.
LEMMA ClearedRight ==
    ASSUME NEW q, SessionRight(q, topic), Consumers \subseteq {"screens", "relic"},
           "relic" \in Consumers => Quiet(q, "relic")
    PROVE  LET r == Display!ClearOwner(q)
           IN /\ SessionRight(r, topic) /\ SamePoll(q, r) /\ r.owner = NoOwner
              /\ r.fault = q.fault
              /\ "relic" \in Consumers => Quiet(r, "relic")
              /\ topic["relic"].owners # {} /\ "relic" \in Consumers => "relic" \in r.resets
<1> DEFINE r == Display!ClearOwner(q)
<1>1. IsDisplay(q) /\ q.twice = FALSE BY DEF SessionRight
<1>2. /\ IsDisplay(r) /\ SamePoll(q, r) /\ r.owner = NoOwner /\ r.fault = q.fault
      /\ q.twice = FALSE => r.twice = FALSE
      /\ r.resets \in {q.resets, q.resets \cup {"relic"}}
      /\ q.owner # NoOwner => "relic" \in r.resets
      /\ \A t \in Consumers : \/ r.out[t] = q.out[t]
                              \/ t = "relic" /\ r.out[t] = NoOwner
  BY <1>1, ClearOwnerIs
<1> HIDE DEF r
<1>3. ASSUME NEW t \in Consumers, topic[t].owners # {}
      PROVE  /\ t \in r.plan
             /\ t \in r.resets \/ (t = "screens" /\ topic[t].owners = {OwnerNow(r, t)}
                                   /\ OwnerNow(r, t) # NoOwner)
  <2>1. /\ t \in q.plan
        /\ t \in q.resets \/ (topic[t].owners = {OwnerNow(q, t)} /\ OwnerNow(q, t) # NoOwner)
    BY <1>3 DEF SessionRight, Shows
  <2>2. r.plan = q.plan /\ r.ui = q.ui BY <1>2 DEF SamePoll
  <2>3. CASE t = "screens" BY <1>2, <2>1, <2>2, <2>3 DEF OwnerNow
  <2>4. CASE t = "relic" BY <1>2, <2>1, <2>2, <2>4 DEF OwnerNow
  <2> QED BY <2>3, <2>4
<1>4. Shows(r, topic) BY <1>3 DEF Shows
<1>5. "relic" \in Consumers => Quiet(r, "relic") BY <1>2 DEF Quiet
<1>6. Publishes(r)
  <2> SUFFICES ASSUME NEW t \in Consumers, ~Quiet(r, t)
      PROVE  t = "screens" /\ ~Quiet(q, t) /\ r.out[t] = q.out[t]
    BY <1>2 DEF SessionRight, Publishes, OwnerNow, SamePoll
  <2> QED BY <1>2, <1>5 DEF Quiet
<1>7. SessionRight(r, topic) BY <1>1, <1>2, <1>4, <1>6 DEF SessionRight
<1>8. topic["relic"].owners # {} /\ "relic" \in Consumers => "relic" \in r.resets
  BY <1>3
<1> QED BY <1>2, <1>5, <1>7, <1>8 DEF r

\* The error arms of poll_relic.
LEMMA LostRight ==
    ASSUME NEW q, SessionRight(q, topic), Consumers \subseteq {"screens", "relic"},
           "relic" \in Consumers => Quiet(q, "relic"), NEW fault
    PROVE  LET r == Display!Lost(q, fault)
           IN SessionRight(r, topic) /\ r.plan = q.plan
<1> DEFINE p == Display!ClearOwner(q)
           r == Display!RelicUnavailable(p, fault)
<1>1. SessionRight(p, topic) /\ SamePoll(q, p) BY ClearedRight
<1>2. IsDisplay(p) BY <1>1 DEF SessionRight
<1> HIDE DEF p
<1>3. IsDisplay(r) /\ SamePoll(p, r) /\ SameBatch(p, r) /\ r.owner = p.owner
  BY <1>2, RelicUnavailableIs
<1> HIDE DEF r
<1>4. SessionRight(r, topic) BY <1>1, <1>3, SameRight DEF SamePoll
<1>5. r.plan = q.plan BY <1>1, <1>3 DEF SamePoll
<1> QED BY <1>4, <1>5 DEF r, p, Display!Lost

\* A poll that loses the owner commits the reset and the failure.
LEMMA LostEnds ==
    ASSUME DisplayInv, Consumers \subseteq {"screens", "relic"}, pc \in AfterScreens,
           NEW fault, v' = Display!Lost(v, fault), pc' = "commit",
           UNCHANGED <<game, fresh, topic>>
    PROVE  DisplayInv'
<1> USE DEF DisplayInv
<1>1. SessionRight(v, topic) /\ Quiet(v, "relic") BY DEF DisplayStage
<1>2. SessionRight(v', topic) /\ v'.plan = v.plan BY <1>1, LostRight
<1>3. DisplayStage' BY DEF DisplayStage, DisplayStages, Early, AfterScreens, Chosen
<1>4. pc # "idle" BY DEF AfterScreens, Chosen
<1> QED BY <1>2, <1>3, <1>4, StepOfPoll

LEMMA OwnerIsLost ==
    ASSUME DisplayInv, Consumers \subseteq {"screens", "relic"}, NEW kind,
           Display!OwnerLost(kind)
    PROVE  DisplayInv'
BY LostEnds DEF Display!OwnerLost, AfterScreens, Chosen

\* poll_relic up to the choices: the owner of the login, the mission and the interface.
LEMMA OwnerFound ==
    ASSUME DisplayInv, NoOwnerIsNone, Consumers \subseteq {"screens", "relic"},
           Display!RelicBefore
    PROVE  DisplayInv'
<1> USE DEF DisplayInv
<1> DEFINE fault == IF v.fault # NoOwner THEN v.fault
                    ELSE IF v.before.client # v.sample.ui.client
                         THEN Display!Fault(v, "NotReady")
                    ELSE NoOwner
           owner == Display!RelicOwner(v, v.before)
           q == IF v.owner # NoOwner /\ v.owner # owner THEN Display!ClearOwner(v) ELSE v
           open == v.sample.movie # 0
<1>1. /\ pc = "relic" /\ UNCHANGED <<game, fresh, topic>>
      /\ IF fault # NoOwner THEN v' = Display!Lost(v, fault) /\ pc' = "commit"
         ELSE /\ v' = [q EXCEPT !.owner = owner, !.picker = IF open THEN NoOwner ELSE Closed]
              /\ pc' = IF open THEN "choices" ELSE "loginAfter"
  BY DEF Display!RelicBefore
<1>2. CASE fault # NoOwner
  <2>1. v' = Display!Lost(v, fault) /\ pc' = "commit" BY <1>1, <1>2
  <2> HIDE DEF fault
  <2> QED BY <1>1, <2>1, LostEnds DEF AfterScreens
<1>3. CASE fault = NoOwner
  <2>1. v.fault = NoOwner
    <3>1. fault = v.fault \/ v.fault = NoOwner OBVIOUS
    <3> QED BY <1>3, <3>1
  <2>2. /\ v' = [q EXCEPT !.owner = owner, !.picker = IF open THEN NoOwner ELSE Closed]
        /\ pc' = IF open THEN "choices" ELSE "loginAfter"
    BY <1>1, <1>3
  <2>3. owner # NoOwner BY DEF NoOwnerIsNone, Display!RelicOwner
  <2>4. /\ v.asked = TRUE /\ Quiet(v, "relic") /\ "relic" \notin v.resets
        /\ "relic" \in v.plan /\ v.sample.movie \in 0 .. fresh /\ Before
        /\ SessionRight(v, topic) /\ IsDisplay(v)
    BY <1>1, <2>1 DEF DisplayStage, AfterScreens, SessionRight
  <2>5. /\ SessionRight(q, topic) /\ SamePoll(v, q) /\ q.fault = v.fault
        /\ Quiet(q, "relic")
        /\ topic["relic"].owners # {} =>
              "relic" \in q.resets \/ topic["relic"].owners = {owner}
    <3>1. CASE v.owner # NoOwner /\ v.owner # owner
      <4>1. q = Display!ClearOwner(v) BY <3>1
      <4>2. "relic" \in Consumers BY <2>4 DEF IsDisplay
      <4> HIDE DEF q, owner
      <4> QED BY <2>4, <4>1, <4>2, ClearedRight
    <3>2. CASE ~(v.owner # NoOwner /\ v.owner # owner)
      <4>1. q = v BY <3>2
      <4>2. topic["relic"].owners # {} => topic["relic"].owners = {v.owner} /\ v.owner # NoOwner
        BY <2>4 DEF SessionRight, Shows, OwnerNow, IsDisplay
      <4>3. SamePoll(v, v) BY DEF SamePoll
      <4> HIDE DEF q, owner
      <4> QED BY <2>4, <3>2, <4>1, <4>2, <4>3
    <3> QED BY <3>1, <3>2
  <2> HIDE DEF q, fault
  <2>6. /\ owner.account = v.before.account /\ owner.rules = v.before.rules
    BY DEF Display!RelicOwner
  <2>7. \A r : r.sample = v.sample /\ r.before = v.before =>
            Display!RelicOwner(r, r.before) = owner
    BY DEF Display!RelicOwner
  <2> HIDE DEF owner
  <2>8. IsDisplay(q) BY <2>5 DEF SessionRight
  <2>9. /\ IsDisplay(v') /\ v'.plan = q.plan /\ v'.ui = q.ui /\ v'.out = q.out
        /\ v'.resets = q.resets /\ v'.twice = q.twice /\ v'.asked = q.asked
        /\ v'.before = q.before /\ v'.fault = q.fault /\ v'.sample = q.sample
        /\ v'.owner = owner /\ v'.picker = IF open THEN NoOwner ELSE Closed
    BY <2>2, <2>8 DEF IsDisplay
  <2>10. /\ v'.plan = v.plan /\ v'.ui = v.ui /\ v'.asked = TRUE /\ v'.before = v.before
         /\ v'.sample = v.sample /\ q.plan = v.plan /\ q.ui = v.ui
    BY <2>4, <2>5, <2>9 DEF SamePoll
  <2>11. Shows(v', topic)
    <3> SUFFICES ASSUME NEW t \in Consumers, topic[t].owners # {}
        PROVE  /\ t \in v'.plan
               /\ t \in v'.resets \/ (topic[t].owners = {OwnerNow(v', t)}
                                      /\ OwnerNow(v', t) # NoOwner)
      BY DEF Shows
    <3>1. CASE t = "screens"
      BY <2>5, <2>9, <2>10, <3>1 DEF SessionRight, Shows, OwnerNow
    <3>2. CASE t = "relic" BY <2>3, <2>4, <2>5, <2>9, <2>10, <3>2 DEF OwnerNow
    <3> QED BY <3>1, <3>2
  <2>12. Publishes(v')
    <3> SUFFICES ASSUME NEW t \in Consumers, ~Quiet(v', t)
        PROVE  /\ t \in v'.plan /\ OwnerNow(v', t) # NoOwner
               /\ t = "screens" /\ v'.out[t] = v'.ui
      BY DEF Publishes
    <3>1. ~Quiet(q, t) /\ t = "screens" BY <2>5, <2>9 DEF Quiet
    <3> QED BY <2>5, <2>9, <2>10, <3>1 DEF SessionRight, Publishes, OwnerNow
  <2>13. SessionRight(v', topic)
    BY <2>5, <2>9, <2>11, <2>12 DEF SessionRight
  <2>14. Quiet(v', "relic") BY <2>5, <2>9 DEF Quiet
  <2>15. Before' BY <1>1, <2>4, <2>10 DEF Before
  <2>16. v'.owner = Display!RelicOwner(v', v'.before) BY <2>7, <2>9, <2>10
  <2>17. pc' \in Chosen => Choices'
    <3>1. pc' \in Chosen => ~open BY <2>2 DEF Chosen
    <3> QED BY <2>9, <3>1 DEF Choices
  <2>18. pc' \in {"choices", "loginAfter"} /\ (pc' = "choices" => open) BY <2>2
  <2>19. pc' = "choices" => v'.sample.movie \in 1 .. fresh'
    BY <1>1, <2>4, <2>10, <2>18 DEF IdentitiesOK
  <2>20. v'.asked = TRUE /\ "relic" \in v'.plan BY <2>4, <2>10
  <2>21. DisplayStage'
    BY <2>14, <2>15, <2>16, <2>17, <2>18, <2>19, <2>20
      DEF DisplayStage, DisplayStages, Early, AfterScreens, Chosen
  <2> QED BY <1>1, <2>10, <2>13, <2>21, StepOfPoll
<1> QED BY <1>2, <1>3

\* read_choices: what the vector holds is whose it is when it is read.
LEMMA ChoicesSeen ==
    ASSUME DisplayInv, NoOwnerIsNone, Display!ReadChoices
    PROVE  DisplayInv'
<1> USE DEF DisplayInv
<1> DEFINE vector == [account |-> game.account, rules |-> game.rules, movie |-> game.movie]
<1>1. /\ pc = "choices" /\ pc' = "recheck" /\ UNCHANGED <<game, fresh, topic>>
  BY DEF Display!ReadChoices
<1>2. PICK checks, fault :
         /\ v' = [v EXCEPT !.checks = checks, !.fault = fault,
                           !.picker = IF fault = NoOwner THEN vector ELSE NoOwner]
         /\ fault = NoOwner => v.before.rules # 0
  <2>1. PICK bad \in Display!Failures, kind \in Display!Kinds \cup {NoOwner} :
          LET answer == Display!EnsureAll(v.checks, <<"strings", "items">>, bad)
              fault == IF answer.left > 0 THEN [kind |-> "Broken", left |-> answer.left]
                       ELSE IF v.before.rules = 0 THEN Display!Fault(v, "NotReady")
                       ELSE IF kind # NoOwner THEN Display!Fault(v, kind)
                       ELSE NoOwner
          IN v' = [v EXCEPT !.checks = answer.checks, !.fault = fault,
                            !.picker = IF fault = NoOwner THEN vector ELSE NoOwner]
    BY DEF Display!ReadChoices, Display!RewardVector
  <2> DEFINE answer == Display!EnsureAll(v.checks, <<"strings", "items">>, bad)
             fault == IF answer.left > 0 THEN [kind |-> "Broken", left |-> answer.left]
                      ELSE IF v.before.rules = 0 THEN Display!Fault(v, "NotReady")
                      ELSE IF kind # NoOwner THEN Display!Fault(v, kind)
                      ELSE NoOwner
  <2>2. v' = [v EXCEPT !.checks = answer.checks, !.fault = fault,
                       !.picker = IF fault = NoOwner THEN vector ELSE NoOwner]
    BY <2>1
  <2> HIDE DEF answer
  <2>3. fault = NoOwner => v.before.rules # 0 BY DEF NoOwnerIsNone, Display!Fault
  <2> HIDE DEF fault
  <2> QED BY <2>2, <2>3
<1>3. /\ SessionRight(v, topic) /\ IsDisplay(v) /\ Before /\ v.asked = TRUE
      /\ v.owner = Display!RelicOwner(v, v.before) /\ v.sample.movie \in 1 .. fresh
      /\ Quiet(v, "relic") /\ "relic" \in v.plan
  BY <1>1 DEF SessionRight, DisplayStage, AfterScreens, Chosen
<1>4. vector.account = game["account"] /\ vector.rules = game["rules"]
      /\ vector.movie = game["movie"]
      /\ vector = [account |-> vector.account, rules |-> vector.rules,
                   movie |-> vector.movie]
  OBVIOUS
<1> HIDE DEF vector
<1>5. /\ IsDisplay(v') /\ v'.plan = v.plan /\ v'.ui = v.ui /\ v'.owner = v.owner
      /\ v'.out = v.out /\ v'.resets = v.resets /\ v'.twice = v.twice
      /\ v'.asked = v.asked /\ v'.before = v.before /\ v'.sample = v.sample
      /\ v'.fault = fault /\ v'.picker = IF fault = NoOwner THEN vector ELSE NoOwner
  BY <1>2, <1>3 DEF IsDisplay
<1>6. SameBatch(v, v') BY <1>5 DEF SameBatch
<1>7. SessionRight(v', topic) BY <1>3, <1>5, <1>6, SameRight
<1>8. Choices'
  <2> SUFFICES ASSUME fault = NoOwner PROVE Choices' BY <1>5 DEF Choices
  <2>1. v'.picker = vector BY <1>5
  <2> QED BY <1>1, <1>2, <1>4, <1>5, <2>1 DEF Choices
<1>9. Before' /\ v'.owner = Display!RelicOwner(v', v'.before)
  BY <1>1, <1>3, <1>5 DEF Before, Display!RelicOwner
<1>10. Quiet(v', "relic") BY <1>3, <1>5 DEF Quiet
<1>11. DisplayStage'
  BY <1>1, <1>3, <1>5, <1>8, <1>9, <1>10
    DEF DisplayStage, DisplayStages, Early, AfterScreens, Chosen
<1> QED BY <1>1, <1>5, <1>7, <1>11, StepOfPoll

\* recheck_screens: the picker is the one of the sample.
LEMMA RecheckKeeps == ASSUME DisplayInv, Display!Recheck PROVE DisplayInv'
<1> USE DEF DisplayInv
<1>1. /\ pc = "recheck" /\ pc' = "loginAfter" /\ UNCHANGED <<game, fresh, v, topic>>
      /\ v.sample = Display!ScreenSample
  BY DEF Display!Recheck, Display!ScreensKept
<1>2. v.sample.movie = game["movie"] BY <1>1 DEF Display!ScreenSample
<1>3. Choices' 
  <2>1. Choices BY <1>1 DEF DisplayStage, Chosen
  <2> QED BY <1>1, <1>2, <2>1 DEF Choices
<1>4. Before' BY <1>1 DEF DisplayStage, Chosen, Before
<1>5. v'.owner = Display!RelicOwner(v', v'.before) BY <1>1 DEF DisplayStage, Chosen
<1>6. Quiet(v', "relic") /\ v'.asked /\ "relic" \in v'.plan
  BY <1>1 DEF DisplayStage, AfterScreens, Chosen, Quiet
<1>7. v'.asked \in BOOLEAN BY <1>1 DEF DisplayStage, AfterScreens, Chosen
<1>8. DisplayStage'
  BY <1>1, <1>3, <1>4, <1>5, <1>6, <1>7
    DEF DisplayStage, DisplayStages, Early, AfterScreens, Chosen
<1>9. SessionRight(v', topic) BY <1>1 DEF SessionRight
<1> QED BY <1>1, <1>8, <1>9, StepOfPoll

\* The second resolve_owner reads the login.
LEMMA LoginReread == ASSUME DisplayInv, Display!LoginAfter PROVE DisplayInv'
<1> USE DEF DisplayInv
<1> DEFINE found == [account |-> game.account]
<1>1. /\ pc = "loginAfter" /\ pc' = "worldAfter" /\ UNCHANGED <<game, fresh, topic>>
      /\ v' = [v EXCEPT !.after = found]
  BY DEF Display!LoginAfter
<1>2. /\ IsDisplay(v) /\ SessionRight(v, topic) /\ Before /\ Choices /\ v.asked = TRUE
      /\ v.owner = Display!RelicOwner(v, v.before)
      /\ Quiet(v, "relic") /\ "relic" \in v.plan
  BY <1>1 DEF SessionRight, DisplayStage, AfterScreens, Chosen
<1>3. found.account = game["account"] OBVIOUS
<1> HIDE DEF found
<1>4. /\ IsDisplay(v') /\ v'.plan = v.plan /\ v'.ui = v.ui /\ v'.owner = v.owner
      /\ v'.out = v.out /\ v'.resets = v.resets /\ v'.twice = v.twice
      /\ v'.asked = v.asked /\ v'.before = v.before /\ v'.sample = v.sample
      /\ v'.fault = v.fault /\ v'.picker = v.picker /\ v'.after = found
  BY <1>1, <1>2 DEF IsDisplay
<1>5. SameBatch(v, v') BY <1>4 DEF SameBatch
<1>6. SessionRight(v', topic) BY <1>2, <1>4, <1>5, SameRight
<1>7. Choices' BY <1>1, <1>2, <1>3, <1>4 DEF Choices
<1>8. Before' /\ v'.owner = Display!RelicOwner(v', v'.before)
  BY <1>1, <1>2, <1>4 DEF Before, Display!RelicOwner
<1>9. Quiet(v', "relic") BY <1>2, <1>4 DEF Quiet
<1>10. DisplayStage'
  BY <1>1, <1>2, <1>4, <1>7, <1>8, <1>9
    DEF DisplayStage, DisplayStages, Early, AfterScreens, Chosen
<1> QED BY <1>1, <1>4, <1>6, <1>10, StepOfPoll

\* Choices whose owner is found again are of one picker, mission and account.
LEMMA ChoicesWhole ==
    ASSUME DisplayInv, pc = "worldAfter", Display!OwnerKept(v), v.fault = NoOwner,
           v.picker # Closed
    PROVE  v.picker = [account |-> v.owner.account, rules |-> v.owner.rules,
                       movie |-> v.sample.movie]
<1>1. Choices /\ v.owner = Display!RelicOwner(v, v.before)
  BY DEF DisplayInv, DisplayStage, Chosen
<1>2. v.owner.account = v.before.account /\ v.owner.rules = v.before.rules
  BY <1>1 DEF Display!RelicOwner
<1>3. Display!RelicOwner(v, Display!World(v.after.account)) = v.owner
  BY DEF Display!OwnerKept
<1>4. v.after.account = v.owner.account /\ game["rules"] = v.owner.rules
  <2>1. v.owner = [account |-> v.after.account, client |-> game.client,
                   rules |-> game.rules, ui |-> v.sample.ui]
    BY <1>3 DEF Display!RelicOwner, Display!World
  <2> QED BY <2>1
<1> QED BY <1>1, <1>2, <1>4 DEF Choices

\* The end of poll_relic: lost, unavailable or published.
LEMMA RelicEnds ==
    ASSUME DisplayInv, NoOwnerIsNone, Consumers \subseteq {"screens", "relic"},
           Display!WorldAfter
    PROVE  DisplayInv'
<1> USE DEF DisplayInv
<1>1. /\ pc = "worldAfter" /\ pc' = "commit" /\ UNCHANGED <<game, fresh, topic>>
      /\ v' = IF ~Display!OwnerKept(v) THEN Display!Lost(v, Display!Fault(v, "NotReady"))
              ELSE IF v.fault # NoOwner THEN Display!RelicUnavailable(v, v.fault)
              ELSE [v EXCEPT !.delay = 0, !.out["relic"] = Display!Relic(v.picker)]
  BY DEF Display!WorldAfter
<1>2. /\ SessionRight(v, topic) /\ IsDisplay(v) /\ Quiet(v, "relic") /\ "relic" \in v.plan
      /\ "relic" \in Consumers
      /\ v.owner = Display!RelicOwner(v, v.before) 
  BY <1>1 DEF SessionRight, DisplayStage, AfterScreens, Chosen, IsDisplay
<1>3. DisplayStage'
  BY <1>1 DEF DisplayStage, DisplayStages, Early, AfterScreens, Chosen
<1>4. CASE ~Display!OwnerKept(v)
  BY <1>1, <1>4, LostEnds DEF AfterScreens, Chosen
<1>5. CASE Display!OwnerKept(v) /\ v.fault # NoOwner
  <2>1. v' = Display!RelicUnavailable(v, v.fault) BY <1>1, <1>5
  <2>2. IsDisplay(v') /\ SamePoll(v, v') /\ SameBatch(v, v') /\ v'.owner = v.owner
    BY <1>2, <2>1, RelicUnavailableIs
  <2>3. SessionRight(v', topic) BY <1>2, <2>2, SameRight DEF SamePoll
  <2> QED BY <1>1, <1>3, <2>2, <2>3, StepOfPoll DEF SamePoll
<1>6. CASE Display!OwnerKept(v) /\ v.fault = NoOwner
  <2> DEFINE data == [owner |-> v.owner, movie |-> v.sample.movie, picker |-> v.picker]
             out == [t \in Consumers |-> IF t = "relic" THEN data ELSE v.out[t]]
  <2>1. v' = [v EXCEPT !.delay = 0, !.out = out]
    <3>1. v' = [v EXCEPT !.delay = 0, !.out = [v.out EXCEPT !["relic"] = data]]
      BY <1>1, <1>2, <1>6 DEF Display!Relic, IsDisplay
    <3>2. [v.out EXCEPT !["relic"] = data] = out BY <1>2 DEF IsDisplay
    <3> QED BY <3>1, <3>2
  <2>2. data.owner = v.owner /\ data.movie = v.sample.movie /\ data.picker = v.picker
    OBVIOUS
  <2> HIDE DEF data
  <2>3. /\ out = [t \in Consumers |-> out[t]] /\ out["relic"] = data
        /\ \A t \in Consumers \ {"relic"} : out[t] = v.out[t]
    BY <1>2
  <2> HIDE DEF out
  <2>4. /\ IsDisplay(v') /\ v'.plan = v.plan /\ v'.ui = v.ui /\ v'.owner = v.owner
        /\ v'.out = out /\ v'.resets = v.resets /\ v'.twice = v.twice
    BY <1>2, <2>1, <2>3 DEF IsDisplay
  <2>5. v.owner # NoOwner BY <1>2 DEF NoOwnerIsNone, Display!RelicOwner
  <2>6. v.picker # Closed =>
            v.picker = [account |-> v.owner.account, rules |-> v.owner.rules,
                        movie |-> v.sample.movie]
    BY <1>1, <1>6, ChoicesWhole
  <2>7. Publishes(v')
    <3> SUFFICES ASSUME NEW t \in Consumers, ~Quiet(v', t)
        PROVE  /\ t \in v'.plan /\ OwnerNow(v', t) # NoOwner
               /\ t = "screens" => v'.out[t] = v'.ui
               /\ t # "screens" =>
                     /\ v'.out[t].owner = v'.owner
                     /\ v'.out[t].picker # Closed =>
                           v'.out[t].picker = [account |-> v'.owner.account,
                                               rules |-> v'.owner.rules,
                                               movie |-> v'.out[t].movie]
      BY DEF Publishes
    <3>1. CASE t = "screens"
      <4>1. v'.out[t] = v.out[t] BY <2>3, <2>4, <3>1
      <4>2. ~Quiet(v, t) BY <4>1 DEF Quiet
      <4> QED BY <1>2, <2>4, <3>1, <4>1, <4>2 DEF SessionRight, Publishes, OwnerNow
    <3>2. CASE t = "relic"
      <4>1. v'.out[t] = data BY <2>3, <2>4, <3>2
      <4> QED BY <1>2, <2>2, <2>4, <2>5, <2>6, <3>2, <4>1 DEF OwnerNow
    <3> QED BY <3>1, <3>2
  <2>8. Shows(v', topic) BY <1>2, <2>4 DEF SessionRight, Shows, OwnerNow
  <2>9. SessionRight(v', topic) BY <1>2, <2>4, <2>7, <2>8 DEF SessionRight
  <2> QED BY <1>1, <1>3, <2>4, <2>9, StepOfPoll
<1> QED BY <1>4, <1>5, <1>6

\* The sink refuses the picker.
LEMMA RelicUnsent == ASSUME DisplayInv, Display!RelicRefused PROVE DisplayInv'
<1> USE DEF DisplayInv
<1>1. /\ pc = "worldAfter" /\ pc' = "failed" /\ UNCHANGED <<game, fresh, topic>>
      /\ v' = [v EXCEPT !.delay = 0]
  BY DEF Display!RelicRefused
<1>2. SessionRight(v, topic) /\ IsDisplay(v) BY DEF SessionRight
<1>3. /\ IsDisplay(v') /\ v'.plan = v.plan /\ v'.ui = v.ui /\ v'.owner = v.owner
      /\ v'.out = v.out /\ v'.resets = v.resets /\ v'.twice = v.twice
  BY <1>1, <1>2 DEF IsDisplay
<1>4. SameBatch(v, v') BY <1>3 DEF SameBatch
<1>5. SessionRight(v', topic) BY <1>2, <1>3, <1>4, SameRight
<1>6. DisplayStage'
  BY <1>1 DEF DisplayStage, DisplayStages, Early, AfterScreens, Chosen
<1> QED BY <1>1, <1>3, <1>5, <1>6, StepOfPoll

-----------------------------------------------------------------------------
(* The host's answer. *)

\* What the end of a poll keeps of it.
LEMMA DisplayEnds ==
    ASSUME NEW q, IsDisplay(q), NEW committed
    PROVE  LET r == Display!EndPoll(Display!Completed(q, committed))
           IN /\ IsDisplay(r) /\ r.plan = q.plan /\ r.ui = q.ui /\ r.owner = q.owner
              /\ r.resets = {} /\ r.twice = FALSE /\ r.asked = FALSE
              /\ \A t \in Consumers : Quiet(r, t)
<1> DEFINE c == Display!Completed(q, committed)
           out == Display!NoOutput
           r == Display!EndPoll(c)
<1>1. IsDisplay(c) /\ c.plan = q.plan /\ c.ui = q.ui /\ c.owner = q.owner
  <2>1. CASE committed BY <2>1 DEF Display!Completed
  <2>2. CASE ~committed
    <3>1. c = Display!Wake(q) BY <2>2 DEF Display!Completed
    <3> HIDE DEF c
    <3> QED BY <3>1, WakeKeeps DEF SamePoll
  <2> QED BY <2>1, <2>2
<1> HIDE DEF c
<1>2. r = [c EXCEPT !.out = out, !.resets = {}, !.twice = FALSE, !.asked = FALSE,
                    !.before = NoOwner, !.after = NoOwner, !.fault = NoOwner,
                    !.sample = NoOwner, !.picker = NoOwner]
  BY DEF Display!EndPoll
<1>3. out = [t \in Consumers |-> out[t]] /\ \A t \in Consumers : out[t] = NoOwner
  BY DEF Display!NoOutput
<1> HIDE DEF out, r
<1>4. /\ IsDisplay(r) /\ r.plan = c.plan /\ r.ui = c.ui /\ r.owner = c.owner /\ r.out = out
      /\ r.resets = {} /\ r.twice = FALSE /\ r.asked = FALSE
  BY <1>1, <1>2, <1>3 DEF IsDisplay
<1>5. \A t \in Consumers : Quiet(r, t) BY <1>3, <1>4 DEF Quiet
<1> QED BY <1>1, <1>4, <1>5 DEF r, c

\* A session between two polls.
LEMMA BetweenPolls ==
    ASSUME DisplayInv, UNCHANGED <<game, fresh>>, pc' = "idle", NEW committed,
           v' = Display!EndPoll(Display!Completed(v, committed)), ServiceShaped',
           \A t \in Consumers :
              topic'[t].owners # {} => /\ topic'[t].demanded /\ t \in v.plan
                                       /\ topic'[t].owners = {OwnerNow(v, t)}
                                       /\ OwnerNow(v, t) # NoOwner
    PROVE  DisplayInv'
<1>1. IsDisplay(v) BY DEF DisplayInv, SessionRight
<1>2. /\ IsDisplay(v') /\ v'.plan = v.plan /\ v'.ui = v.ui /\ v'.owner = v.owner
      /\ v'.resets = {} /\ v'.twice = FALSE /\ v'.asked = FALSE
      /\ \A t \in Consumers : Quiet(v', t)
  BY <1>1, DisplayEnds
<1>3. Shows(v', topic') BY <1>2 DEF Shows, OwnerNow
<1>4. SessionRight(v', topic') BY <1>2, <1>3 DEF SessionRight, Publishes
<1>5. \A t \in Consumers : Lives(t)' BY DEF Lives
<1>6. DisplayStage'
  BY <1>2 DEF DisplayStage, DisplayStages, Early, AfterScreens, Chosen
<1> QED BY <1>4, <1>5, <1>6 DEF DisplayInv, IdentitiesOK

\* A batch is committed: what is shown is the owner's that it was read for.
LEMMA BatchAccepted ==
    ASSUME DisplayInv, Consumers \subseteq {"screens", "relic"}, Display!Accepted
    PROVE  DisplayInv'
<1> DEFINE old(t) == IF t \in v.resets THEN {} ELSE topic[t].owners
           data(t) == v.out[t] \notin {NoOwner, Failed}
<1>1. /\ pc = "commit" /\ pc' = "idle" /\ UNCHANGED <<game, fresh>>
      /\ \A t \in v.plan : ~topic[t].fenced
      /\ v' = Display!EndPoll(Display!Completed(v, TRUE))
      /\ topic' = [t \in Consumers |->
            [topic[t] EXCEPT
               !.owners = IF data(t) THEN old(t) \cup {Display!OwnerOf(t)} ELSE old(t),
               !.told = v.out[t] # NoOwner \/ (topic[t].told /\ t \notin v.resets),
               !.shown = data(t) \/ (topic[t].shown /\ v.out[t] = NoOwner /\ t \notin v.resets)]]
  BY DEF Display!Accepted
<1>2. \A t \in Consumers :
         /\ topic'[t].owners = IF data(t) THEN old(t) \cup {Display!OwnerOf(t)} ELSE old(t)
         /\ topic'[t].demanded = topic[t].demanded
         /\ topic'[t] = [demanded |-> topic'[t].demanded, new |-> topic'[t].new,
                         fenced |-> topic'[t].fenced, renewed |-> topic'[t].renewed,
                         owners |-> topic'[t].owners, shown |-> topic'[t].shown,
                         told |-> topic'[t].told]
  <2> TAKE t \in Consumers
  <2>1. topic[t] = [demanded |-> topic[t].demanded, new |-> topic[t].new,
                    fenced |-> topic[t].fenced, renewed |-> topic[t].renewed,
                    owners |-> topic[t].owners, shown |-> topic[t].shown,
                    told |-> topic[t].told]
    BY DEF DisplayInv, ServiceShaped
  <2> DEFINE owners == IF data(t) THEN old(t) \cup {Display!OwnerOf(t)} ELSE old(t)
             told == v.out[t] # NoOwner \/ (topic[t].told /\ t \notin v.resets)
             shown == data(t) \/ (topic[t].shown /\ v.out[t] = NoOwner /\ t \notin v.resets)
  <2>2. topic'[t] = [topic[t] EXCEPT !.owners = owners, !.told = told, !.shown = shown]
    BY <1>1
  <2>3. topic'[t].owners = owners /\ topic'[t].demanded = topic[t].demanded
    <3> HIDE DEF owners, told, shown
    <3> QED BY <2>1, <2>2
  <2>4. topic'[t] = [demanded |-> topic'[t].demanded, new |-> topic'[t].new,
                     fenced |-> topic'[t].fenced, renewed |-> topic'[t].renewed,
                     owners |-> topic'[t].owners, shown |-> topic'[t].shown,
                     told |-> topic'[t].told]
    <3> HIDE DEF owners, told, shown
    <3> QED BY <2>1, <2>2
  <2> QED BY <2>3, <2>4
<1>3. ServiceShaped'
  <2>1. topic' = [t \in Consumers |-> topic'[t]] BY <1>1
  <2> QED BY <1>2, <2>1 DEF ServiceShaped
<1>4. ASSUME NEW t \in Consumers, topic'[t].owners # {}
      PROVE  /\ topic'[t].demanded /\ t \in v.plan
             /\ topic'[t].owners = {OwnerNow(v, t)} /\ OwnerNow(v, t) # NoOwner
  <2>1. old(t) # {} => /\ topic[t].demanded /\ t \in v.plan
                       /\ old(t) = {OwnerNow(v, t)} /\ OwnerNow(v, t) # NoOwner
    BY DEF DisplayInv, SessionRight, Shows, Lives
  <2>2. data(t) => /\ t \in v.plan /\ topic[t].demanded
                   /\ Display!OwnerOf(t) = OwnerNow(v, t) /\ OwnerNow(v, t) # NoOwner
    <3> SUFFICES ASSUME data(t)
        PROVE  /\ t \in v.plan /\ topic[t].demanded
               /\ Display!OwnerOf(t) = OwnerNow(v, t) /\ OwnerNow(v, t) # NoOwner
      OBVIOUS
    <3>1. /\ t \in v.plan /\ OwnerNow(v, t) # NoOwner
          /\ t = "screens" => v.out[t] = v.ui
          /\ t # "screens" => v.out[t].owner = v.owner
      BY DEF DisplayInv, SessionRight, Publishes, Quiet
    <3>2. topic[t].demanded BY <1>1, <3>1 DEF DisplayInv, Lives
    <3>3. Display!OwnerOf(t) = OwnerNow(v, t) BY <3>1 DEF Display!OwnerOf, OwnerNow
    <3> QED BY <3>1, <3>2, <3>3
  <2>3. /\ topic'[t].owners = IF data(t) THEN old(t) \cup {Display!OwnerOf(t)} ELSE old(t)
        /\ topic'[t].demanded = topic[t].demanded
    BY <1>2
  <2> HIDE DEF old, data
  <2> QED BY <1>4, <2>1, <2>2, <2>3
<1> QED BY <1>1, <1>3, <1>4, BetweenPolls

\* A batch is discarded, and its resets are not.
LEMMA BatchDiscarded ==
    ASSUME DisplayInv, Consumers \subseteq {"screens", "relic"}, NEW failed \in BOOLEAN,
           Display!Discarded(failed)
    PROVE  DisplayInv'
<1> DEFINE takes(t) == failed /\ t \in v.plan /\ ~topic[t].fenced
           told(t) == topic[t].told /\ t \notin v.plan
           shown(t) == topic[t].shown /\ ~takes(t)
<1>1. /\ pc \in {"commit", "failed"} /\ pc' = "idle" /\ UNCHANGED <<game, fresh>>
      /\ v' = Display!EndPoll(Display!Completed(v, FALSE))
      /\ topic' = [t \in Consumers |->
            IF Display!KeepReset(t)
            THEN [topic[t] EXCEPT !.owners = {}, !.new = TRUE, !.shown = FALSE, !.told = FALSE]
            ELSE [topic[t] EXCEPT !.told = told(t), !.shown = shown(t)]]
  BY DEF Display!Discarded
<1>2. \A t \in Consumers :
         /\ topic'[t].owners = IF Display!KeepReset(t) THEN {} ELSE topic[t].owners
         /\ topic'[t].demanded = topic[t].demanded
         /\ topic'[t] = [demanded |-> topic'[t].demanded, new |-> topic'[t].new,
                         fenced |-> topic'[t].fenced, renewed |-> topic'[t].renewed,
                         owners |-> topic'[t].owners, shown |-> topic'[t].shown,
                         told |-> topic'[t].told]
  <2> TAKE t \in Consumers
  <2>1. topic[t] = [demanded |-> topic[t].demanded, new |-> topic[t].new,
                    fenced |-> topic[t].fenced, renewed |-> topic[t].renewed,
                    owners |-> topic[t].owners, shown |-> topic[t].shown,
                    told |-> topic[t].told]
    BY DEF DisplayInv, ServiceShaped
  <2>2. topic'[t] = IF Display!KeepReset(t)
            THEN [topic[t] EXCEPT !.owners = {}, !.new = TRUE, !.shown = FALSE, !.told = FALSE]
            ELSE [topic[t] EXCEPT !.told = told(t), !.shown = shown(t)]
    BY <1>1
  <2> HIDE DEF told, shown
  <2>3. CASE Display!KeepReset(t) BY <2>1, <2>2, <2>3
  <2>4. CASE ~Display!KeepReset(t) BY <2>1, <2>2, <2>4
  <2> QED BY <2>3, <2>4
<1>3. ServiceShaped'
  <2>1. topic' = [t \in Consumers |-> topic'[t]] BY <1>1
  <2> QED BY <1>2, <2>1 DEF ServiceShaped
<1>4. ASSUME NEW t \in Consumers, topic'[t].owners # {}
      PROVE  /\ topic'[t].demanded /\ t \in v.plan
             /\ topic'[t].owners = {OwnerNow(v, t)} /\ OwnerNow(v, t) # NoOwner
  <2>1. /\ ~Display!KeepReset(t) /\ topic'[t].owners = topic[t].owners
        /\ topic'[t].demanded = topic[t].demanded
    BY <1>2, <1>4
  <2>2. topic[t].demanded /\ ~topic[t].renewed /\ t \in v.plan
    BY <1>1, <1>4, <2>1 DEF DisplayInv, SessionRight, Shows, Lives
  <2>3. t \notin v.resets BY <2>1, <2>2 DEF Display!KeepReset
  <2> QED BY <1>4, <2>1, <2>2, <2>3 DEF DisplayInv, SessionRight, Shows
<1> QED BY <1>1, <1>3, <1>4, BetweenPolls

-----------------------------------------------------------------------------
LEMMA DisplayStep ==
    ASSUME DisplayInv, NoOwnerIsNone, Consumers \subseteq {"screens", "relic"},
           [Display!Next]_Display!vars
    PROVE  DisplayInv'
<1>1. CASE UNCHANGED Display!vars
  <2>1. UNCHANGED <<game, fresh, v, pc, topic>> BY <1>1 DEF Display!vars
  <2>2. IdentitiesOK' /\ ServiceShaped' BY <2>1 DEF DisplayInv, IdentitiesOK, ServiceShaped
  <2>3. SessionRight(v', topic') BY <2>1 DEF DisplayInv
  <2>4. \A t \in Consumers : Lives(t)' BY <2>1 DEF DisplayInv, Lives
  <2>5. (Before <=> Before') /\ (Choices <=> Choices') BY <2>1 DEF Before, Choices
  <2>6. DisplayStage' BY <2>1, <2>5 DEF DisplayInv, DisplayStage, Quiet, Display!RelicOwner
  <2> QED BY <2>2, <2>3, <2>4, <2>6 DEF DisplayInv
<1>2. CASE \E part \in Moving : Display!GameBegins(part) \/ Display!GameEnds(part)
  BY <1>2, WorldMoves
<1>3. CASE Display!Tick BY <1>3, ClockKeeps
<1>4. CASE \E t \in Consumers : Display!ChangeDemand(t) \/ Display!Expire(t)
  BY <1>4, LifetimeMoves
<1>5. CASE Display!StartPoll BY <1>5, DisplayStarts
<1>6. CASE Display!ReadLogin \/ Display!ReadWorld BY <1>6, LoginSeen, WorldSeen
<1>7. CASE Display!ReadScreens \/ Display!ScreensRefused
  BY <1>7, ScreensSeen, ScreensUnsent
<1>8. CASE Display!RelicBefore \/ Display!ReadChoices \/ Display!Recheck
  BY <1>8, OwnerFound, ChoicesSeen, RecheckKeeps
<1>9. CASE Display!LoginAfter \/ Display!WorldAfter \/ Display!RelicRefused
  BY <1>9, LoginReread, RelicEnds, RelicUnsent
<1>10. CASE \E kind \in Display!Kinds :
               Display!NoOwner(kind) \/ Display!NoScreens(kind) \/ Display!OwnerLost(kind)
  BY <1>10, OwnerMissing, ScreensMissing, OwnerIsLost
<1>11. CASE Display!Accepted \/ \E failed \in BOOLEAN : Display!Discarded(failed)
  BY <1>11, BatchAccepted, BatchDiscarded
<1> QED BY <1>1, <1>2, <1>3, <1>4, <1>5, <1>6, <1>7, <1>8, <1>9, <1>10, <1>11
     DEF Display!Next

LEMMA DisplayIsRight ==
    ASSUME DisplayInv
    PROVE  Display!OneOwner /\ Display!OneReset /\ Display!WholePicker
<1>1. \A S : Display!Cardinality(S) = Cardinality(S)
  BY Zenon DEF Display!Cardinality, Cardinality, Display!IsFiniteSet, IsFiniteSet
<1>2. Display!OneOwner
  <2> SUFFICES ASSUME NEW t \in Consumers PROVE Cardinality(topic[t].owners) <= 1
    BY <1>1 DEF Display!OneOwner
  <2>1. CASE topic[t].owners = {}
    <3>1. Cardinality({}) = 0 BY FS_EmptySet
    <3> QED BY <2>1, <3>1
  <2>2. CASE \E owner : topic[t].owners = {owner}
    <3>1. PICK owner : topic[t].owners = {owner} BY <2>2
    <3>2. Cardinality({owner}) = 1 BY FS_Singleton
    <3> QED BY <3>1, <3>2
  <2> QED BY <2>1, <2>2 DEF DisplayInv, Lives
<1>3. Display!OneReset BY DEF DisplayInv, SessionRight, Display!OneReset
<1>4. Display!WholePicker
  <2> SUFFICES ASSUME "relic" \in v.plan, v.out["relic"] \notin {NoOwner, Failed},
                      v.out["relic"].picker # Closed
      PROVE  v.out["relic"].picker = [account |-> v.out["relic"].owner.account,
                                      rules |-> v.out["relic"].owner.rules,
                                      movie |-> v.out["relic"].movie]
    BY DEF Display!WholePicker
  <2>1. "relic" \in Consumers BY DEF DisplayInv, SessionRight, IsDisplay
  <2> QED BY <2>1 DEF DisplayInv, SessionRight, Publishes, Quiet
<1> QED BY <1>2, <1>3, <1>4

\* poll, poll_relic, discard_poll and recheck_screens: whatever logins, missions, clients,
\* overlays and refused polls come between any two reads, all that a topic publishes in
\* one lifetime has one owner, no poll resets a topic twice, and published choices are
\* those of the picker, mission and account they are published for.
THEOREM DisplayIsOnes ==
    ASSUME NoOwnerIsNone, Consumers \subseteq {"screens", "relic"}
    PROVE  Display!Spec => [](Display!OneOwner /\ Display!OneReset /\ Display!WholePicker)
<1>1. Display!Init => DisplayInv BY DisplayInit
<1>2. DisplayInv /\ [Display!Next]_Display!vars => DisplayInv' BY DisplayStep
<1>3. DisplayInv => Display!OneOwner /\ Display!OneReset /\ Display!WholePicker
  BY DisplayIsRight
<1> QED BY <1>1, <1>2, <1>3, PTL DEF Display!Spec
=============================================================================
