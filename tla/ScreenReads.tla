----------------------------- MODULE ScreenReads ------------------------------
(***************************************************************************)
(* One acquisition of the visible screens (topics/screens.rs over the      *)
(* shared objects of world.rs, under read_stable) while the game shows,    *)
(* hides, opens and closes screens.  Nothing locks the game: each step     *)
(* reads one word of its memory.                                           *)
(*                                                                         *)
(* A read_once is a list of reads that depends on what it has read so far: *)
(* the owner, the vector of movies, of each movie its flags in the order   *)
(* of the code until one of them hides it, then the vector and the owner   *)
(* again.  Movies are named by what they show.                             *)
(***************************************************************************)
EXTENDS Integers, Sequences, FiniteSets, SequencesExt

CONSTANTS
    Movies,         \* the movies of the game, each a screen of its own
    Changing,       \* the flags that the game changes
    Replaceable,    \* whether movies come and go and the whole UI is replaced
    MaxMovies,      \* MAX_MOVIES, capacity of the vector
    MaxWrites       \* bound on the changes during one read

Flags == {"shown", "hidden", "owned", "closing"}

ScreenAssumption ==
    /\ IsFiniteSet(Movies) /\ Changing \subseteq Flags /\ Replaceable \in BOOLEAN
    /\ MaxMovies \in Nat /\ MaxWrites \in Nat

VARIABLES
    ui,         \* the client, overlay and flash objects: an instance, 0 if none
    movies,     \* the vector of controls
    flags,      \* the flags of each movie
    writes,     \* changes since the read began
    views,      \* the screens that were visible since then
    steady,     \* the movies that were visible all the time
    pass,       \* read_stable reads twice
    pc,         \* what is read next
    owner,      \* resolve_ui of this pass
    header,     \* the length in the vector's header
    controls,   \* the controls behind it
    at,         \* the movie that is read
    found,      \* visible_movies of this pass
    sample,     \* what the first pass read
    outcome     \* "reading", "accepted" or the error

game == <<ui, movies, flags>>
local == <<pass, pc, owner, header, controls, at, found, sample, outcome>>
vars == <<ui, movies, flags, writes, views, steady, pass, pc, owner, header, controls, at, found,
          sample, outcome>>

Stale == 0    \* a control of no movie

Lists == {s \in UNION {[1 .. n -> Movies] : n \in 0 .. Cardinality(Movies)} :
            \A i, j \in DOMAIN s : s[i] = s[j] => i = j}

\* What each flag must be for the movie to be visible.
Wanted == [f \in Flags |-> f \in {"shown", "owned"}]

-----------------------------------------------------------------------------
(* The game.                                                                *)

Visible(m, u, list, f) == u # 0 /\ m \in Range(list) /\ f[m] = Wanted

Screens(u, list, f) == {m \in Movies : Visible(m, u, list, f)}

Change ==
    /\ outcome = "reading" /\ writes < MaxWrites
    /\ writes' = writes + 1
    /\ views' = views \cup {Screens(ui', movies', flags')}
    /\ steady' = steady \cap Screens(ui', movies', flags')
    /\ UNCHANGED local

Toggle(m, f) ==
    /\ f \in Changing /\ m \in Range(movies)
    /\ flags' = [flags EXCEPT ![m][f] = ~@]
    /\ UNCHANGED <<ui, movies>> /\ Change

Open(m) ==
    /\ Replaceable /\ m \notin Range(movies)
    /\ movies' = Append(movies, m)
    /\ UNCHANGED <<ui, flags>> /\ Change

\* A movie goes, the ones behind it move up.
Release(i) ==
    /\ Replaceable
    /\ movies' = RemoveAt(movies, i)
    /\ UNCHANGED <<ui, flags>> /\ Change

\* The client or a part of the UI is replaced or goes.
Replace(u) ==
    /\ Replaceable /\ u # ui
    /\ ui' = u /\ movies' = <<>>
    /\ UNCHANGED flags /\ Change

Game ==
    \/ \E m \in Movies : Open(m) \/ \E f \in Flags : Toggle(m, f)
    \/ \E i \in DOMAIN movies : Release(i)
    \/ \E u \in 0 .. 2 : Replace(u)

-----------------------------------------------------------------------------
(* The read.                                                                *)

Fail(error) == outcome' = error /\ UNCHANGED <<pass, pc, owner, header, controls, at, found, sample>>

\* resolve_ui: the client, its overlay and its flash player; without them there
\* is nothing to read.
ResolveUi ==
    /\ pc = "ui"
    /\ owner' = ui
    /\ pc' = IF ui = 0 THEN "ui_again" ELSE "header"
    /\ UNCHANGED <<pass, header, controls, at, found, sample, outcome>>

ScreenBounds(list) == Len(list) <= MaxMovies

ReadHeader ==
    /\ pc = "header"
    /\ IF ~ScreenBounds(movies) THEN Fail("invalid")
       ELSE /\ header' = Len(movies) /\ pc' = "controls"
            /\ UNCHANGED <<pass, owner, controls, at, found, sample, outcome>>

\* As many controls as the header said; behind the end of a vector that became
\* shorter still lies what was there.
ReadControls ==
    /\ pc = "controls"
    /\ controls' = IF header <= Len(movies) THEN SubSeq(movies, 1, header)
                   ELSE movies \o [i \in 1 .. header - Len(movies) |-> Stale]
    /\ at' = 1
    /\ pc' = IF header = 0 THEN "header_again" ELSE "control"
    /\ UNCHANGED <<pass, owner, header, found, sample, outcome>>

\* The next movie, or the end of the vector.
Skip ==
    /\ at' = at + 1
    /\ pc' = IF at = header THEN "header_again" ELSE "control"

\* shared: a control whose object has gone is skipped.
ReadControl ==
    /\ pc = "control"
    /\ IF controls[at] \in Range(movies) THEN pc' = "shown" /\ UNCHANGED at ELSE Skip
    /\ UNCHANGED <<pass, owner, header, controls, found, sample, outcome>>

Hides(m, f) == flags[m][f] # Wanted[f]

\* flag, and the movie's owner: the first that hides the movie ends its read.
ReadFlag(f, next) ==
    /\ pc = f
    /\ IF Hides(controls[at], f) THEN Skip ELSE pc' = next /\ UNCHANGED at
    /\ UNCHANGED <<pass, owner, header, controls, found, sample, outcome>>

\* The movie's path does not change; it names the screen.
ReadPath ==
    /\ pc = "path"
    /\ found' = Append(found, controls[at])
    /\ Skip
    /\ UNCHANGED <<pass, owner, header, controls, sample, outcome>>

SameHeader == Len(movies) = header

ReadHeaderAgain ==
    /\ pc = "header_again"
    /\ IF ~SameHeader THEN Fail("changed")
       ELSE pc' = "ui_again" /\ UNCHANGED <<pass, owner, header, controls, at, found, sample, outcome>>

Agree == sample = [owner |-> owner, found |-> found]

\* read_stable compares what both passes read: the owner and the movies.
EndPass ==
    /\ pc = "ui_again"
    /\ \/ ui # owner /\ Fail("changed")
       \/ /\ ui = owner /\ pass = 1
          /\ pass' = 2 /\ pc' = "ui"
          /\ sample' = [owner |-> owner, found |-> found]
          /\ found' = <<>> /\ header' = 0 /\ controls' = <<>> /\ owner' = 0
          /\ UNCHANGED <<at, outcome>>
       \/ /\ ui = owner /\ pass = 2
          /\ outcome' = IF Agree THEN "accepted" ELSE "changed"
          /\ UNCHANGED <<pass, pc, owner, header, controls, at, found, sample>>

Read ==
    /\ outcome = "reading"
    /\ \/ ResolveUi \/ ReadHeader \/ ReadControls \/ ReadControl \/ ReadPath
       \/ ReadFlag("shown", "hidden") \/ ReadFlag("hidden", "owned")
       \/ ReadFlag("owned", "closing") \/ ReadFlag("closing", "path")
       \/ ReadHeaderAgain \/ EndPass
    /\ UNCHANGED <<ui, movies, flags, writes, views, steady>>

\* A read begins in any state of the game.
Init ==
    /\ ui \in 0 .. 1 /\ movies \in Lists
    /\ flags \in [Movies -> {g \in [Flags -> BOOLEAN] : \A f \in Flags \ Changing : g[f] = Wanted[f]}]
    /\ writes = 0
    /\ views = {Screens(ui, movies, flags)}
    /\ steady = Screens(ui, movies, flags)
    /\ pass = 1 /\ pc = "ui" /\ owner = 0 /\ header = 0 /\ controls = <<>> /\ at = 1 /\ found = <<>>
    /\ sample = [owner |-> 0, found |-> <<>>]
    /\ outcome = "reading"

Next == Game \/ Read

Spec == Init /\ [][Next]_vars

-----------------------------------------------------------------------------
(* Properties.                                                              *)

\* The screens published were visible together at some instant of the read, for
\* as many changes of the game during one read as MaxWrites allows
\* (read_once under read_stable).
ScreensWereTrue == outcome = "accepted" => Range(found) \in views

\* A screen that is visible throughout the read is published, whatever else
\* changes: no movie is passed over because another one comes or goes.
SteadyIsFound == outcome = "accepted" => steady \subseteq Range(found)
=============================================================================
