------------------------------ MODULE StringPool -------------------------------
(***************************************************************************)
(* Game string tokens (string_pool/mod.rs): the lookup of a token through  *)
(* its bucket, the chunked read of its text up to the terminating NUL, and *)
(* the bounded cache that spares the reads.                                *)
(*                                                                         *)
(* A text of the pool is given by its address and length; its bytes are    *)
(* not told apart, only whether they are all graphic.  Only the pages that *)
(* hold bytes of texts are mapped.                                         *)
(***************************************************************************)
EXTENDS Integers, FiniteSets, FiniteSetsExt, Functions

CONSTANTS
    Pools,          \* pool addresses the root has had
    Tokens,
    Layouts,        \* where texts may lie: functions <<pool, token>> -> [at, length, graphic]
    ChunkBytes,     \* STRING_READ_BYTES
    PageBytes,      \* a multiple of it
    MaxBytes,       \* MAX_STRING_BYTES
    MaxTokens,      \* MAX_STRING_TOKENS
    MaxDecoded      \* MAX_DECODED_BYTES

PoolAssumption ==
    /\ ChunkBytes \in Nat \ {0} /\ PageBytes \in Nat \ {0} /\ PageBytes % ChunkBytes = 0
    /\ MaxBytes \in Nat /\ MaxTokens \in Nat /\ MaxDecoded \in Nat
    /\ \A layout \in Layouts :
        /\ DOMAIN layout = Pools \X Tokens
        /\ \A key \in DOMAIN layout : layout[key].at \in Nat /\ layout[key].length \in Nat

VARIABLES
    texts,      \* the texts of the pools, which never change
    root,       \* the pool of the game
    values,     \* values of the cache: what each key resolved to
    decoded,    \* decoded_bytes
    asked,      \* the key that is resolved, None if none
    length,     \* bytes of value read so far
    chunk,      \* the span of the last read
    answer      \* what the last resolution gave

vars == <<texts, root, values, decoded, asked, length, chunk, answer>>

None == <<>>
NoSpan == [first |-> 1, last |-> 0]
Unanswered == [key |-> None, result |-> "none", text |-> None]

Least(a, b) == IF a < b THEN a ELSE b

-----------------------------------------------------------------------------

\* The next read of read_c_string: up to the end of its aligned chunk, and no
\* more than a text may have.
read_bytes(address, collected) ==
    Least(MaxBytes + 1 - collected, ChunkBytes - (address % ChunkBytes))

\* StringTokenCache::pool
Relocate(pool) ==
    /\ asked = None /\ pool # root
    /\ root' = pool
    /\ UNCHANGED <<values, decoded, asked, length, chunk, answer>>

key_of(pool, token) == <<pool, token>>

\* A cached token is answered without a read.
Cached(token) ==
    /\ asked = None /\ key_of(root, token) \in DOMAIN values
    /\ answer' = [key |-> <<root, token>>, result |-> "ok", text |-> values[key_of(root, token)]]
    /\ chunk' = NoSpan
    /\ UNCHANGED <<root, values, decoded, asked, length>>

\* Otherwise the bucket gives the address of the text.
Resolve(token) ==
    /\ asked = None /\ key_of(root, token) \notin DOMAIN values
    /\ asked' = <<root, token>> /\ length' = 0 /\ chunk' = NoSpan
    /\ answer' = Unanswered
    /\ UNCHANGED <<root, values, decoded>>

HasRoom(text) ==
    Cardinality(DOMAIN values) < MaxTokens /\ decoded + texts[text].length <= MaxDecoded

\* A full cache resolves, and keeps nothing.
Remember(key) ==
    LET kept == key_of(key[1], key[2]) IN
    IF HasRoom(key)
    THEN /\ values' = [k \in DOMAIN values \cup {kept} |-> IF k = kept THEN key ELSE values[k]]
         /\ decoded' = decoded + texts[key].length
    ELSE UNCHANGED <<values, decoded>>

Answer(result, text) ==
    /\ answer' = [key |-> asked, result |-> result, text |-> text]
    /\ asked' = None /\ length' = 0

\* One turn of read_c_string: the chunk holds the NUL, or all of it is text.
ReadChunk ==
    LET text == texts[asked]
        address == text.at + length
        n == read_bytes(address, length)
    IN  /\ asked # None /\ length <= MaxBytes
        /\ chunk' = [first |-> address, last |-> address + n - 1]
        /\ \/ /\ text.length < length + n /\ text.graphic
              /\ Answer("ok", asked) /\ Remember(asked)
           \/ /\ text.length < length + n /\ ~text.graphic
              /\ Answer("invalid", None) /\ UNCHANGED <<values, decoded>>
           \/ /\ text.length >= length + n
              /\ length' = length + n
              /\ UNCHANGED <<values, decoded, asked, answer>>
        /\ UNCHANGED root

TooLong ==
    /\ asked # None /\ length > MaxBytes
    /\ Answer("limit", None)
    /\ UNCHANGED <<root, values, decoded, chunk>>

Init ==
    /\ texts \in Layouts
    /\ root \in Pools
    /\ values = [k \in {} |-> None] /\ decoded = 0
    /\ asked = None /\ length = 0 /\ chunk = NoSpan /\ answer = Unanswered

Next ==
    /\ \/ \E pool \in Pools : Relocate(pool)
       \/ \E token \in Tokens : Cached(token) \/ Resolve(token)
       \/ ReadChunk \/ TooLong
    /\ UNCHANGED texts

Spec == Init /\ [][Next]_vars

-----------------------------------------------------------------------------
(* Properties.                                                              *)

\* The pages of a text and its NUL.
PagesOf(text) == {(text.at + i) \div PageBytes : i \in 0 .. text.length}

Mapped == UNION {PagesOf(texts[key]) : key \in DOMAIN texts}

\* No read touches a page beyond the one that holds the terminating NUL: a text
\* that ends with its page can be read, whatever lies behind it (read_c_string).
ReadsAreMapped ==
    \A a \in chunk.first .. chunk.last : a \div PageBytes \in Mapped

\* A token gives the text of the pool it was asked of, from the cache as from
\* memory, and is refused only for what its text is: too long, or not graphic
\* (StringTokenCache::resolve).
ResolvedRight ==
    /\ answer.result = "ok" => answer.text = answer.key
    /\ answer.result = "ok" => texts[answer.key].length <= MaxBytes /\ texts[answer.key].graphic
    /\ answer.result = "limit" => texts[answer.key].length > MaxBytes
    /\ answer.result = "invalid" => ~texts[answer.key].graphic

\* The cache stays within both of its limits, and decoded_bytes is what it holds.
CacheBounded ==
    /\ Cardinality(DOMAIN values) <= MaxTokens
    /\ decoded <= MaxDecoded
    /\ decoded = MapThenSumSet(LAMBDA k : texts[values[k]].length, DOMAIN values)
=============================================================================
