-------------------------------- MODULE World ----------------------------------
(***************************************************************************)
(* Who owns the rewards that are read (world.rs, and resolve_owner,        *)
(* recheck_screens and read_choices of session/visual.rs).  The rules of a *)
(* mission hang on a chain of shared objects, from a root in the module:   *)
(* client, context, region, rules.  The game replaces parts of the chain   *)
(* and releases objects while the chain is walked, before the rewards are  *)
(* read and again after it.                                                *)
(*                                                                         *)
(* Objects are numbers, given out once; 0 is the root, and null.  A shared *)
(* pointer is a control block and its object: the field that holds the     *)
(* control and the control's object are read one after the other, and the  *)
(* object of a released one is null.                                       *)
(***************************************************************************)
EXTENDS Integers, Sequences

CONSTANTS
    Levels,         \* objects of a complete chain
    MaxObjects      \* bound on the objects the game creates

WorldAssumption == Levels \in Nat \ {0} /\ MaxObjects \in Nat

VARIABLES
    next,       \* the shared pointer in each object and in the root
    made,       \* objects created
    released,   \* objects released
    phase,      \* what the poll does
    at,         \* the object whose pointer is read next
    control,    \* the control that was read, -1: none yet
    chain,      \* the chain as far as it is walked
    before,     \* the chain of the first walk
    open,       \* whether the sampled screens show the picker
    during,     \* the chains the game had while the rewards were read
    outcome     \* "reading", "accepted" or the error

game == <<next, made, released>>
local == <<phase, at, control, chain, before, open, outcome>>
vars == <<next, made, released, phase, at, control, chain, before, open, during, outcome>>

Objects == 1 .. MaxObjects
NotRead == -1

-----------------------------------------------------------------------------
(* The game.                                                                *)

Shared(x, gone) == IF x \in gone THEN 0 ELSE x

\* The chain from the root to the first null.
ChainOf(pointers, gone) ==
    LET walk[l \in 0 .. Levels] ==
            IF l = 0 THEN <<>>
            ELSE LET so_far == walk[l - 1]
                     last == IF so_far = <<>> THEN 0 ELSE so_far[Len(so_far)]
                     x == Shared(pointers[last], gone)
                 IN  IF Len(so_far) < l - 1 \/ x = 0 THEN so_far ELSE Append(so_far, x)
    IN  walk[Levels]

Present == ChainOf(next, released)

Change ==
    /\ outcome = "reading"
    /\ during' = IF phase = "read" THEN during \cup {ChainOf(next', released')} ELSE during
    /\ UNCHANGED local

\* A part of the chain is created, or replaced with all that hangs on it.
Create(l) ==
    /\ made < MaxObjects /\ l < Levels /\ l <= Len(Present)
    /\ next' = [next EXCEPT ![IF l = 0 THEN 0 ELSE Present[l]] = made + 1]
    /\ made' = made + 1
    /\ UNCHANGED released /\ Change

Clear(l) ==
    /\ l < Len(Present)
    /\ next' = [next EXCEPT ![IF l = 0 THEN 0 ELSE Present[l]] = 0]
    /\ UNCHANGED <<made, released>> /\ Change

Release(x) ==
    /\ x <= made /\ x \notin released
    /\ released' = released \cup {x}
    /\ UNCHANGED <<next, made>> /\ Change

Game ==
    \/ \E l \in 0 .. Levels - 1 : Create(l) \/ Clear(l)
    \/ \E x \in Objects : Release(x)

-----------------------------------------------------------------------------
(* The poll.                                                                *)

Fail(error) == outcome' = error /\ UNCHANGED <<phase, at, control, chain, before, open>>

Walk(p) == phase' = p /\ at' = 0 /\ control' = NotRead /\ chain' = <<>>

\* The screens and the picker follow the first walk, the second one ends the poll.
\* The screens have the client as their owner as well, and are only read again
\* where they show the picker.
Walks == {"before", "screens", "recheck", "after"}
Depth == IF phase \in {"before", "after"} THEN Levels ELSE 1

\* shared_field: the control of the next object; an object that was released
\* may hold anything, as a rule what its virtual table shows.
ReadControl ==
    /\ phase \in Walks /\ control = NotRead /\ Len(chain) < Depth
    /\ \/ /\ control' = next[at]
          /\ UNCHANGED <<phase, at, chain, before, open, outcome>>
       \/ at \in released /\ Fail("invalid")

\* shared: the object of the control.
ReadObject ==
    /\ phase \in Walks /\ control > 0 /\ Shared(control, released) # 0
    /\ chain' = Append(chain, control)
    /\ at' = control /\ control' = NotRead
    /\ UNCHANGED <<phase, before, open, outcome>>

Walked ==
    /\ phase \in Walks
    /\ \/ Len(chain) = Depth
       \/ control = 0
       \/ control > 0 /\ Shared(control, released) = 0

Client(c) == IF c = <<>> THEN <<>> ELSE <<c[1]>>

\* Without a picker there is nothing to read: it is closed.
Sampled ==
    /\ Walked /\ phase = "screens"
    /\ IF Client(before) # chain THEN Fail("changed")
       ELSE \E shown \in BOOLEAN :
                /\ open' = shown
                /\ IF shown THEN Walk("read") ELSE Walk("after")
                /\ UNCHANGED <<before, outcome>>

Resolved ==
    /\ Walked /\ phase = "before"
    /\ before' = chain /\ Walk("screens")
    /\ UNCHANGED <<open, outcome>>

\* read_choices, from the first of its reads to the last.
ReadChoices ==
    /\ phase = "read"
    /\ IF Len(before) < Levels THEN Fail("changed")
       ELSE Walk("recheck") /\ UNCHANGED <<before, open, outcome>>

Rechecked ==
    /\ Walked /\ phase = "recheck"
    /\ IF Client(before) # chain THEN Fail("changed")
       ELSE Walk("after") /\ UNCHANGED <<before, open, outcome>>

SameOwner(a, b) == a = b

Concluded ==
    /\ Walked /\ phase = "after"
    /\ outcome' = IF SameOwner(before, chain) THEN "accepted" ELSE "changed"
    /\ UNCHANGED <<phase, at, control, chain, before, open>>

Poll ==
    /\ outcome = "reading"
    /\ ReadControl \/ ReadObject \/ Resolved \/ Sampled \/ ReadChoices \/ Rechecked \/ Concluded
    /\ during' = IF phase' = "read" THEN during \cup {Present} ELSE during
    /\ UNCHANGED game

\* The next poll.
Restart ==
    /\ outcome # "reading"
    /\ outcome' = "reading" /\ Walk("before")
    /\ before' = <<>> /\ open' = FALSE /\ during' = {}
    /\ UNCHANGED game

Init ==
    /\ next = [x \in 0 .. MaxObjects |-> 0] /\ made = 0 /\ released = {}
    /\ phase = "before" /\ at = 0 /\ control = NotRead /\ chain = <<>>
    /\ before = <<>> /\ open = FALSE /\ during = {} /\ outcome = "reading"

Next == Game \/ Poll \/ Restart

Spec == Init /\ [][Next]_vars

-----------------------------------------------------------------------------
(* Properties.                                                              *)

\* Rewards that are published belong to the rules that were the game's all the
\* time they were read: neither a walk that was torn by a replacement nor one
\* that went through a released object is taken for the owner, and no other
\* world came in between (world::resolve, resolve_owner, poll_relic).
WorldHeld == outcome = "accepted" /\ open => during = {before} /\ Len(before) = Levels
=============================================================================
