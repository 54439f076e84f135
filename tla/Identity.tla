------------------------------ MODULE Identity ------------------------------
(***************************************************************************)
(* load_or_create of the service's and of a reader's identity file         *)
(* (identity.rs of the CLI and of the SDK): several processes may run it   *)
(* at the same time on first use, and each may die on the way.             *)
(***************************************************************************)
EXTENDS Naturals, FiniteSets, TLAPS

CONSTANTS
    Processes,       \* the processes that load the file
    None, Corrupt,   \* no file, and one that is not an identity
    MaxKeys          \* bound: keys ever generated

KeysAssumption == MaxKeys \in Nat \ {0}

VARIABLES
    file,    \* identity.key
    keys,    \* the number of keys generated
    proc     \* each process: where it is, its temporary file and its result

vars == <<file, keys, proc>>

Keys == 1..MaxKeys
NewProcess == [at |-> "read", temporary |-> None, key |-> None]

Init ==
    /\ file \in {None, Corrupt} /\ keys = 0
    /\ proc = [p \in Processes |-> NewProcess]

\* decode: a key, or an error that leaves the file as it is.
Decoded(p) == [proc[p] EXCEPT !.at = IF file = Corrupt THEN "error" ELSE "done",
                              !.key = IF file = Corrupt THEN None ELSE file]

\* load_or_create_at
Read(p) ==
    /\ proc[p].at = "read"
    /\ proc' = [proc EXCEPT ![p] = IF file = None THEN [@ EXCEPT !.at = "create"]
                                   ELSE Decoded(p)]
    /\ UNCHANGED <<file, keys>>

\* create: a new key in a temporary file, written and synced.
Create(p) ==
    /\ proc[p].at = "create" /\ keys < MaxKeys
    /\ keys' = keys + 1
    /\ proc' = [proc EXCEPT ![p].at = "persist", ![p].temporary = keys + 1]
    /\ UNCHANGED file

\* persist_noclobber: the first one wins, the others read what it wrote.
Persist(p) ==
    /\ proc[p].at = "persist"
    /\ IF file = None
       THEN /\ file' = proc[p].temporary
            /\ proc' = [proc EXCEPT ![p].at = "done", ![p].key = proc[p].temporary]
       ELSE /\ proc' = [proc EXCEPT ![p].at = "reread"]
            /\ UNCHANGED file
    /\ UNCHANGED keys

ReadWinner(p) ==
    /\ proc[p].at = "reread"
    /\ proc' = [proc EXCEPT ![p] = Decoded(p)]
    /\ UNCHANGED <<file, keys>>

\* Any file operation may fail with another error, and the caller with it.
Fails(p) ==
    /\ proc[p].at \in {"read", "create", "persist", "reread"}
    /\ proc' = [proc EXCEPT ![p].at = "error"]
    /\ UNCHANGED <<file, keys>>

\* A process dies or is restarted; its temporary file is never read.
Restart(p) ==
    /\ proc[p].at # "read"
    /\ proc' = [proc EXCEPT ![p] = NewProcess]
    /\ UNCHANGED <<file, keys>>

Next == \E p \in Processes : Read(p) \/ Create(p) \/ Persist(p) \/ ReadWinner(p) \/ Fails(p) \/ Restart(p)

Spec == Init /\ [][Next]_vars

-----------------------------------------------------------------------------
(* Properties. *)

\* Shape of the file and of the results.
TypeOK ==
    /\ file \in Keys \cup {None, Corrupt}
    /\ \A p \in Processes : proc[p].at = "done" => proc[p].key \in Keys

\* load_or_create: concurrent first launches agree on one key, and it is the one
\* in the file, so that an approval given to it survives restarts.
OneIdentity == \A p \in Processes : proc[p].at = "done" => proc[p].key = file

\* An identity that exists, readable or not, is never replaced.
NeverReplaced == file # None => file' = file

-----------------------------------------------------------------------------
(* Proofs, for any number of processes and keys.                            *)

\* A missing file and a broken one are not keys.
DistinctAssumption == None \notin Keys /\ Corrupt \notin Keys /\ None # Corrupt

\* Where a process may be, and what it may hold.
Places == {"read", "create", "persist", "reread", "done", "error"}
States == [at : Places, temporary : Keys \cup {None}, key : Keys \cup {None}]

\* Of a process: one about to persist has a key in its temporary file, one that lost
\* the race rereads a file that exists, and one that is done has the key of the file.
Sound(r, f) ==
    /\ r.at = "persist" => r.temporary \in Keys
    /\ r.at = "reread" => f # None
    /\ r.at = "done" => r.key = f /\ f \in Keys

\* The inductive invariant.
IInv ==
    /\ keys \in 0..MaxKeys
    /\ file \in Keys \cup {None, Corrupt}
    /\ proc \in [Processes -> States]
    /\ \A p \in Processes : Sound(proc[p], file)

\* It holds before the first process runs.
LEMMA InitInv == ASSUME KeysAssumption, DistinctAssumption, Init PROVE IInv
  BY DEF KeysAssumption, DistinctAssumption, Init, IInv, NewProcess, Keys, Places, States, Sound

\* A step changes one process, and creates the file at most.
LEMMA StepInv ==
    ASSUME IInv, NEW p \in Processes, NEW r \in States, Sound(r, file'),
           proc' = [proc EXCEPT ![p] = r],
           keys' \in 0..MaxKeys, file' \in Keys \cup {None, Corrupt},
           file' = file \/ (file = None /\ None \notin Keys)
    PROVE  IInv'
<1>1. proc' \in [Processes -> States] BY DEF IInv
<1>2. ASSUME NEW q \in Processes PROVE Sound(proc'[q], file')
  <2>1. CASE q = p BY <2>1 DEF IInv
  <2>2. CASE q # p
    <3>1. proc'[q] = proc[q] BY <2>2 DEF IInv
    <3>2. Sound(proc[q], file) BY DEF IInv
    <3>3. CASE file' = file BY <3>1, <3>2, <3>3
    <3>4. CASE file' # file BY <3>1, <3>2, <3>4 DEF Sound
    <3> QED BY <3>3, <3>4
  <2> QED BY <2>1, <2>2
<1> QED BY <1>1, <1>2 DEF IInv

\* Decoding a file that exists ends the call with its key or an error.
LEMMA DecodedSound ==
    ASSUME DistinctAssumption, IInv, NEW p \in Processes, file # None
    PROVE  Decoded(p) \in States /\ Sound(Decoded(p), file)
<1>0. proc[p] \in States BY DEF IInv
<1>1. CASE file = Corrupt
  <2>1. Decoded(p) = [proc[p] EXCEPT !.at = "error", !.key = None] BY <1>1 DEF Decoded
  <2> QED BY <1>0, <2>1 DEF States, Places, Sound
<1>2. CASE file # Corrupt
  <2>1. Decoded(p) = [proc[p] EXCEPT !.at = "done", !.key = file] BY <1>2 DEF Decoded
  <2>2. file \in Keys BY <1>2 DEF IInv
  <2> QED BY <1>0, <2>1, <2>2 DEF States, Places, Sound
<1> QED BY <1>1, <1>2

\* Every action keeps the invariant.
LEMMA NextInv == ASSUME KeysAssumption, DistinctAssumption, IInv, [Next]_vars PROVE IInv'
<1>0. proc \in [Processes -> States] BY DEF IInv
<1>1. CASE UNCHANGED vars BY <1>1 DEF vars, IInv
<1>2. ASSUME NEW p \in Processes, Read(p) PROVE IInv'
  <2>1. file' = file /\ keys' = keys BY <1>2 DEF Read
  <2>2. CASE file = None
    <3> DEFINE r == [proc[p] EXCEPT !.at = "create"]
    <3>1. proc' = [proc EXCEPT ![p] = r] BY <1>2, <2>2 DEF Read
    <3>2. r \in States /\ Sound(r, file) BY <1>0 DEF States, Places, Sound
    <3> HIDE DEF r
    <3> QED BY <2>1, <3>1, <3>2, StepInv DEF IInv
  <2>3. CASE file # None
    <3>1. proc' = [proc EXCEPT ![p] = Decoded(p)] BY <1>2, <2>3 DEF Read
    <3> QED BY <2>1, <2>3, <3>1, DecodedSound, StepInv DEF IInv
  <2> QED BY <2>2, <2>3
<1>3. ASSUME NEW p \in Processes, Create(p) PROVE IInv'
  <2> DEFINE r == [proc[p] EXCEPT !.at = "persist", !.temporary = keys + 1]
  <2>1. keys' \in 0..MaxKeys /\ keys + 1 \in Keys /\ file' = file
    BY <1>3 DEF Create, IInv, KeysAssumption, Keys
  <2>2. proc' = [proc EXCEPT ![p] = r] BY <1>0, <1>3, <2>1 DEF Create, States, Places
  <2>3. r \in States /\ Sound(r, file) BY <1>0, <2>1 DEF States, Places, Sound
  <2> HIDE DEF r
  <2> QED BY <2>1, <2>2, <2>3, StepInv DEF IInv
<1>4. ASSUME NEW p \in Processes, Persist(p) PROVE IInv'
  <2>1. proc[p].temporary \in Keys BY <1>4 DEF Persist, IInv, Sound
  <2>2. CASE file = None
    <3> DEFINE r == [proc[p] EXCEPT !.at = "done", !.key = proc[p].temporary]
    <3>1. file' = proc[p].temporary /\ keys' = keys BY <1>4, <2>2 DEF Persist
    <3>2. proc' = [proc EXCEPT ![p] = r] BY <1>0, <1>4, <2>1, <2>2 DEF Persist, States, Places
    <3>3. r \in States /\ Sound(r, file') BY <1>0, <2>1, <3>1 DEF States, Places, Sound
    <3> HIDE DEF r
    <3> QED BY <2>1, <2>2, <3>1, <3>2, <3>3, StepInv DEF IInv, DistinctAssumption
  <2>3. CASE file # None
    <3> DEFINE r == [proc[p] EXCEPT !.at = "reread"]
    <3>1. file' = file /\ keys' = keys BY <1>4, <2>3 DEF Persist
    <3>2. proc' = [proc EXCEPT ![p] = r] BY <1>0, <1>4, <2>3 DEF Persist, States, Places
    <3>3. r \in States /\ Sound(r, file) BY <1>0, <2>3 DEF States, Places, Sound
    <3> HIDE DEF r
    <3> QED BY <3>1, <3>2, <3>3, StepInv DEF IInv
  <2> QED BY <2>2, <2>3
<1>5. ASSUME NEW p \in Processes, ReadWinner(p) PROVE IInv'
  <2>1. file # None BY <1>5 DEF ReadWinner, IInv, Sound
  <2>2. proc' = [proc EXCEPT ![p] = Decoded(p)] /\ file' = file /\ keys' = keys
    BY <1>5 DEF ReadWinner
  <2> QED BY <2>1, <2>2, DecodedSound, StepInv DEF IInv
<1>6. ASSUME NEW p \in Processes, Fails(p) PROVE IInv'
  <2> DEFINE r == [proc[p] EXCEPT !.at = "error"]
  <2>1. proc' = [proc EXCEPT ![p] = r] /\ file' = file /\ keys' = keys
    BY <1>0, <1>6 DEF Fails, States, Places
  <2>2. r \in States /\ Sound(r, file) BY <1>0 DEF States, Places, Sound
  <2> HIDE DEF r
  <2> QED BY <2>1, <2>2, StepInv DEF IInv
<1>7. ASSUME NEW p \in Processes, Restart(p) PROVE IInv'
  <2>1. NewProcess \in States /\ Sound(NewProcess, file)
    BY DEF NewProcess, States, Places, Sound
  <2> QED BY <1>7, <2>1, StepInv DEF Restart, IInv
<1> QED BY <1>1, <1>2, <1>3, <1>4, <1>5, <1>6, <1>7 DEF Next

\* However many processes launch for the first time at once, and wherever each dies,
\* all that load an identity load the one in the file.
THEOREM OneIdentityHolds ==
    ASSUME KeysAssumption, DistinctAssumption
    PROVE  Spec => []OneIdentity
<1>1. IInv => OneIdentity BY DEF IInv, OneIdentity, Sound
<1> QED BY <1>1, InitInv, NextInv, PTL DEF Spec

\* No step of any process replaces a file that exists.
THEOREM IdentityKept == Spec => [][NeverReplaced]_vars
<1>1. ASSUME [Next]_vars PROVE [NeverReplaced]_vars
  BY <1>1 DEF Next, vars, NeverReplaced, Read, Create, Persist, ReadWinner, Fails, Restart
<1> QED BY <1>1, PTL DEF Spec

=============================================================================
