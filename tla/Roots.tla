-------------------------------- MODULE Roots --------------------------------
(***************************************************************************)
(* roots/resolve.rs: resolve_account and resolve_profile_data walk pointers*)
(* of the running game, one read at a time, while the game changes what    *)
(* they point to.  read_stable (provider-sdk memory/coherence.rs) accepts  *)
(* a result when two walks agree.                                          *)
(*                                                                         *)
(* coherence.rs: "Agreement does not prove atomicity or exclude values     *)
(* changing and changing back between reads."  The game here changes any   *)
(* cell between any two reads; what is assumed is that no cell, and no     *)
(* account ID shown by a profile, returns within one resolution to a value *)
(* it has left.                                                            *)
(***************************************************************************)
EXTENDS Naturals, Sequences, FiniteSets, Functions

CONSTANTS
    Kind,         \* "account" (resolve_account) or "data" (resolve_profile_data)
    Owners,       \* controls of managers and of profile data
    Controls,     \* controls of profiles
    Objects,      \* addresses of managers, profiles and profile data
    Buffers,      \* addresses of vector storage and of account ID storage
    Accounts,     \* account IDs
    NullPointer,  \* a null pointer or the shared sentinel
    MaxProfiles,  \* profile controls that PROFILE_VECTOR_BYTES hold
    Moving,       \* bound: the cells that the game changes
    MaxChanges    \* bound: changes of the game during one resolution

BoundsAssumption ==
    /\ Kind \in {"account", "data"}
    /\ MaxProfiles \in Nat /\ MaxChanges \in Nat
    /\ NullPointer \notin Owners \cup Controls \cup Objects \cup Buffers

VARIABLES
    memories,  \* the cells when the resolution began and after each change
    pc,        \* the next read
    walk,      \* what this walk has read
    first,     \* the result of the first walk
    between,   \* the memory, by its number, between the walks
    result

vars == <<memories, pc, walk, first, between, result>>

mem == memories[Len(memories)]

OrNull(S) == S \cup {NullPointer}
Lists == [1..MaxProfiles -> OrNull(Controls)]

\* What one cell may hold: the two roots, the target of a control, the state and the
\* vector of a manager, the selector (zero or not), login byte and account ID header
\* of a profile, and what the buffers contain.
Holds ==
    [root |-> OrNull(Owners), field |-> OrNull(Owners),
     target |-> OrNull(Objects), profile |-> OrNull(Objects),
     state |-> BOOLEAN, pointer |-> OrNull(Buffers), size |-> 0..MaxProfiles,
     capacity |-> 0..(MaxProfiles + 1),
     selector |-> BOOLEAN, login |-> BOOLEAN, header |-> Buffers,
     contents |-> Lists, text |-> Accounts]

\* Where there are several cells of a kind, what they are the cells of.
CellsOf ==
    [target |-> Owners, profile |-> Controls, state |-> Objects, pointer |-> Objects,
     size |-> Objects, capacity |-> Objects, selector |-> Objects, login |-> Objects,
     header |-> Objects, contents |-> Buffers, text |-> Buffers]

Single == DOMAIN Holds \ DOMAIN CellsOf

Values(f, S) == IF f \in Single THEN S ELSE [CellsOf[f] -> S]

MemoriesOf(V) ==
    [root : V.root, field : V.field, target : V.target, profile : V.profile,
     state : V.state, pointer : V.pointer, size : V.size, capacity : V.capacity,
     selector : V.selector, login : V.login, header : V.header,
     contents : V.contents, text : V.text]

NewWalk == [control |-> NullPointer, target |-> NullPointer, pointer |-> NullPointer,
            size |-> 0, list |-> <<>>, at |-> 1, candidate |-> NullPointer,
            selected |-> NullPointer, object |-> NullPointer, header |-> NullPointer,
            account |-> NullPointer]
Absent == [outcome |-> "Absent"]
Error == [outcome |-> "Error"]
Present(w) ==
    [outcome |-> "Present", control |-> w.control, target |-> w.target,
     profile |-> w.selected, object |-> w.object, account |-> w.account]
Data(c, t) == [outcome |-> "Data", control |-> c, target |-> t]

-----------------------------------------------------------------------------
(* What is in a memory. *)

Shown(m, o) == m.text[m.header[o]]

\* A vector header that read_profile_vector accepts.
Consistent(pointer, size, capacity) ==
    /\ size <= capacity /\ capacity <= MaxProfiles
    /\ capacity # 0 => pointer # NullPointer

Manager(m) == IF m.root = NullPointer THEN NullPointer ELSE m.target[m.root]

NothingThere(m) ==
    IF Kind = "data" THEN m.field = NullPointer \/ m.target[m.field] = NullPointer
    ELSE LET o == Manager(m) IN o = NullPointer \/ ~m.state[o] \/ m.size[o] = 0

\* The controls that the manager lists.
Vector(m) ==
    LET o == Manager(m)
    IN IF NothingThere(m) \/ ~Consistent(m.pointer[o], m.size[o], m.capacity[o]) THEN <<>>
       ELSE SubSeq(m.contents[m.pointer[o]], 1, m.size[o])

Selected(m) ==
    {c \in Range(Vector(m)) \ {NullPointer} :
        LET o == m.profile[c] IN o # NullPointer /\ m.selector[o] /\ m.login[o]}

-----------------------------------------------------------------------------
(* The game. *)

\* Cells that do not move are those of a game that is logged in.
Usual ==
    [root |-> Owners, field |-> Owners, target |-> Objects, profile |-> Objects,
     state |-> {TRUE}, pointer |-> Buffers, size |-> {MaxProfiles},
     capacity |-> {MaxProfiles}, selector |-> {TRUE}, login |-> {TRUE},
     header |-> Buffers, contents |-> {l \in Lists : Controls \subseteq Range(l)},
     text |-> Accounts]

Initially(f) ==
    IF f \in Moving THEN Values(f, Holds[f])
    ELSE {CHOOSE v \in Values(f, Usual[f]) : TRUE}

FirstRead == IF Kind = "account" THEN "root" ELSE "getter"

Init ==
    /\ memories \in {<<m>> : m \in MemoriesOf([f \in DOMAIN Holds |-> Initially(f)])}
    /\ pc = FirstRead /\ walk = NewWalk
    /\ first = NullPointer /\ between = 0 /\ result = NullPointer

\* No account ID that a profile shows is again what it was.
NeverShownAgain(new) ==
    \A old \in Range(memories), o \in Objects :
       Shown(new, o) = Shown(old, o) => Shown(mem, o) = Shown(new, o)

Becomes(new) ==
    /\ NeverShownAgain(new)
    /\ memories' = Append(memories, new)
    /\ UNCHANGED <<pc, walk, first, between, result>>

\* A cell gets a value that it has not had.
Change(f) ==
    /\ pc # "done" /\ Len(memories) <= MaxChanges
    /\ \/ /\ f \in Single
          /\ \E v \in Holds[f] \ {m[f] : m \in Range(memories)} : Becomes([mem EXCEPT ![f] = v])
       \/ /\ f \notin Single
          /\ \E x \in CellsOf[f] : \E v \in Holds[f] \ {m[f][x] : m \in Range(memories)} :
                Becomes([mem EXCEPT ![f][x] = v])

-----------------------------------------------------------------------------
(* The walks. *)

\* Mutant: the walks are not compared.
TrustSecond(found) == found

\* read_stable on the second walk.
Agreed(found) == IF found = first THEN found ELSE Error

\* A walk ends: the first is kept for comparison, an error ends the resolution.
Finish(found) ==
    /\ walk' = NewWalk
    /\ IF first = NullPointer /\ found # Error
       THEN first' = found /\ between' = Len(memories) /\ pc' = FirstRead /\ UNCHANGED result
       ELSE /\ result' = IF found = Error THEN Error ELSE Agreed(found)
            /\ pc' = "done"
            /\ UNCHANGED <<first, between>>
    /\ UNCHANGED memories

GoOn(at, next) ==
    /\ walk' = next /\ pc' = at
    /\ UNCHANGED <<memories, first, between, result>>

\* Unreadable memory, or a vtable, a slot or an encoding that contradicts the facts.
ReadFails ==
    /\ pc # "done"
    /\ Finish(Error)

\* A vtable and its slots hold or contradict (ReadFails), and tell nothing else.
ReadManagerSlots == pc = "manager" /\ GoOn("state", walk)
ReadGetter == pc = "getter" /\ GoOn("field", walk)
ReadDataVtable == pc = "data" /\ Finish(Data(walk.control, walk.target))

\* The control that a root names, of the manager or of the profile data.
Follow(control) ==
    IF control = NullPointer THEN Finish(Absent)
    ELSE GoOn("target", [walk EXCEPT !.control = control])

ReadRoot == pc = "root" /\ Follow(mem.root)
ReadField == pc = "field" /\ Follow(mem.field)

\* read_control_target
ReadTarget ==
    /\ pc = "target"
    /\ LET o == mem.target[walk.control]
       IN IF o = NullPointer THEN Finish(Absent)
          ELSE GoOn(IF Kind = "account" THEN "manager" ELSE "data", [walk EXCEPT !.target = o])

ReadState ==
    /\ pc = "state"
    /\ IF ~mem.state[walk.target] THEN Finish(Absent) ELSE GoOn("pointer", walk)

\* read_profile_vector: pointer, size, capacity, and then the contents.
ReadPointer ==
    /\ pc = "pointer"
    /\ GoOn("size", [walk EXCEPT !.pointer = mem.pointer[walk.target]])

ReadSize ==
    /\ pc = "size"
    /\ GoOn("capacity", [walk EXCEPT !.size = mem.size[walk.target]])

ReadCapacity ==
    /\ pc = "capacity"
    /\ IF ~Consistent(walk.pointer, walk.size, mem.capacity[walk.target]) THEN Finish(Error)
       ELSE IF walk.size = 0 THEN Finish(Absent)
       ELSE GoOn("contents", walk)

ReadContents ==
    /\ pc = "contents"
    /\ GoOn("profile", [walk EXCEPT !.list = SubSeq(mem.contents[walk.pointer], 1, walk.size)])

\* select_profile is through with its vector.
AtEnd(w, at) == at > Len(w.list)

\* The next control, or the account of the one that was selected: a logged-in
\* manager whose profiles match none contradicts the layout.
Advance(w) ==
    IF ~AtEnd(w, w.at) THEN GoOn("profile", w)
    ELSE IF w.selected = NullPointer THEN Finish(Error)
    ELSE GoOn("header", w)

Skip == Advance([walk EXCEPT !.at = @ + 1])

Vacant(c) == c = NullPointer \/ mem.profile[c] = NullPointer

ReadProfile ==
    /\ pc = "profile"
    /\ LET c == walk.list[walk.at]
       IN IF Vacant(c) THEN Skip
          ELSE GoOn("selector", [walk EXCEPT !.candidate = mem.profile[c]])

ReadSelector ==
    /\ pc = "selector"
    /\ IF mem.selector[walk.candidate] THEN GoOn("login", walk) ELSE Skip

ReadLogin ==
    /\ pc = "login"
    /\ IF mem.login[walk.candidate] THEN GoOn("vtable", walk) ELSE Skip

\* The profile's vtable and slots; a second match is ambiguous.
SelectProfile ==
    /\ pc = "vtable"
    /\ IF walk.selected # NullPointer THEN Finish(Error)
       ELSE Advance([walk EXCEPT !.selected = walk.list[walk.at], !.object = walk.candidate,
                                 !.at = @ + 1])

\* read_account_id: the header, the characters, and the header again.
ReadHeader ==
    /\ pc = "header"
    /\ GoOn("text", [walk EXCEPT !.header = mem.header[walk.object]])

ReadText ==
    /\ pc = "text"
    /\ GoOn("recheck", [walk EXCEPT !.account = mem.text[walk.header]])

RereadHeader ==
    /\ pc = "recheck"
    /\ Finish(IF mem.header[walk.object] = walk.header THEN Present(walk) ELSE Error)

Next ==
    \/ \E f \in Moving : Change(f)
    \/ ReadFails \/ ReadRoot \/ ReadTarget \/ ReadManagerSlots \/ ReadState
    \/ ReadGetter \/ ReadField \/ ReadDataVtable
    \/ ReadPointer \/ ReadSize \/ ReadCapacity \/ ReadContents
    \/ ReadProfile \/ ReadSelector \/ ReadLogin \/ SelectProfile
    \/ ReadHeader \/ ReadText \/ RereadHeader

Spec == Init /\ [][Next]_vars

-----------------------------------------------------------------------------
(* Properties. *)

\* Shape of a walk: a vector position within the vector, a result at the end.
TypeOK ==
    /\ Range(memories) \subseteq MemoriesOf([f \in DOMAIN Holds |-> Values(f, Holds[f])])
    /\ walk.at \in 1..(Len(walk.list) + 1)
    /\ walk.selected # NullPointer => walk.object # NullPointer
    /\ (pc = "done") = (result # NullPointer)

\* Two walks that agree name what was there: at the instant between them the manager
\* they found owned by its control was logged in, the profile they found was in
\* place, selected and logged in, and showed that account ID, all at once, although
\* no read was atomic; and so for profile data.
FoundWasThere ==
    LET m == memories[between]
    IN /\ result # NullPointer /\ result.outcome = "Present" =>
             /\ m.root = result.control /\ m.target[m.root] = result.target
             /\ m.state[result.target]
             /\ m.profile[result.profile] = result.object
             /\ m.selector[result.object] /\ m.login[result.object]
             /\ Shown(m, result.object) = result.account
       /\ result # NullPointer /\ result.outcome = "Data" =>
             m.field = result.control /\ m.target[m.field] = result.target

\* The instants of the first and of the second walk.
Walks == {1..between, between..Len(memories)}

\* The cells that lead to the controls of a memory.
Way(m) ==
    LET o == Manager(m)
    IN <<m.root, o, m.pointer[o], m.size[o], m.capacity[o], Vector(m)>>

\* A profile is not named over another: one that stood selected throughout a walk,
\* in a vector that held still, would have made it ambiguous.
NoRival ==
    result # NullPointer /\ result.outcome = "Present" =>
       \A instants \in Walks, c \in Controls :
          (/\ \A i \in instants : c \in Selected(memories[i])
           /\ \A i, j \in instants :
                 /\ Way(memories[i]) = Way(memories[j])
                 /\ memories[i].profile[c] = memories[j].profile[c])
          => c = result.profile

\* "Absent" is never an artefact of a change under way: at some instant of the
\* resolution there was nothing to find.
AbsentWasTrue ==
    result # NullPointer /\ result.outcome = "Absent" => \E m \in Range(memories) : NothingThere(m)
=============================================================================
