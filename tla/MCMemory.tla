------------------------------ MODULE MCMemory ------------------------------
(***************************************************************************)
(* The reads of the game's memory in one model, from the bounded reader    *)
(* and the attachment to the process (Reader, Attachment) over the walks   *)
(* that find objects (Roots, World), texts (StringPool, NativeStrings) and *)
(* lists (ChatWalk, ScreenReads, RelicRewards) to the records and profiles *)
(* decoded from them (Records, ProfileReads, ChatMessages). Each part is   *)
(* one acquisition beside a game that goes on writing.                     *)
(*                                                                         *)
(* A behaviour is one of a single part, the one in part; a part with       *)
(* several bounds is here several times.                                   *)
(***************************************************************************)
EXTENDS Reader, Sequences, TLC

CONSTANTS
    Parts,          \* the parts to check
    w1, w2, c1, c2,     \* controls of owners and of profiles, objects, buffers and
    o1, o2, b1, b2, b3, a1, a2,     \* accounts of Roots
    NullPointer

VARIABLES
    part,          \* the part at work
    mem, torn, rebuild, adding, log, outcome, views, held, writes, runs, header, records,
    pc, pass, before, payload, next, ordered, first, ui, movies, flags, steady, owner,
    controls, at, found, sample, headers, buffers, writing, names, field, inner, outer,
    parts, text, name, links, body, list, op, written, cached, head, current, entry,
    entries, key, local, message, memories, walk, between, result, made, released, phase, control, chain, open, during, texts, root, values, decoded,
    asked, length, chunk, answer, paths, topic, payloads, process, started, target, ok,
    seen, memory, done, games

partVars == <<part, mem, torn, rebuild, adding, log, outcome, views, held, writes, runs,
              header, records, pc, pass, before, payload, next, ordered, first, ui,
              movies, flags, steady, owner, controls, at, found, sample, headers, buffers,
              writing, names, field, inner, outer, parts, text, name, links, body, list,
              op, written, cached, head, current, entry, entries, key, local, message,
              memories, walk, between, result, made, released, phase,
              control, chain, open, during, texts, root, values, decoded, asked, length,
              chunk, answer, paths, topic, payloads, base, size, pending, bytes, reads,
              last, touched, calls, process, started, target, ok, seen, memory,
              done, games>>

\* The cells of Roots that change in each of its parts, and how often.
OwnerCells == {"root", "target", "state", "selector"}
IdentifierCells == {"header", "text"}
ProfileCells == {"profile", "login"}
VectorCells == {"pointer", "size", "capacity", "contents"}
DataCells == {"field", "target"}

\* The other field of a player: the host of the squad, or an account of its own.
HostAlias == <<2, 2>>
OwnAlias == <<2, 3, 1>>

Visibility == {"shown", "closing"}
Ownership == {"owned"}

\* One text lies anywhere in the first pages and is empty, as long as allowed or
\* longer; of the others one ends with its page, one is not graphic.
PoolLayouts ==
    {(<<1, 1>> :> [at |-> a, length |-> n, graphic |-> TRUE]) @@
     (<<1, 2>> :> [at |-> 70, length |-> 3, graphic |-> TRUE]) @@
     (<<2, 1>> :> [at |-> 59, length |-> 4, graphic |-> TRUE]) @@
     (<<2, 2>> :> [at |-> 52, length |-> 2, graphic |-> FALSE]) :
        a \in 0 .. 15, n \in 0 .. 7}

\* Two item types of one path, one of another, one whose path does not join.
ItemTypes ==
    <<[leaf |-> TRUE, prefix |-> "slash", suffix |-> "plain", path |-> 1],
      [leaf |-> TRUE, prefix |-> "none", suffix |-> "rooted", path |-> 1],
      [leaf |-> TRUE, prefix |-> "slash", suffix |-> "plain", path |-> 2],
      [leaf |-> TRUE, prefix |-> "bare", suffix |-> "plain", path |-> 3]>>

\* Two tokens of one text.
TokenTexts == <<1, 1, 2, 3>>
RecordTopics == {"inventory", "mastery", "star_chart"}

\* The reads of each profile topic.
Inventory == INSTANCE ProfileReads WITH
    Topic <- "inventory", MaxWrites <- 4, MaxRecalculations <- 0

Mastery == INSTANCE ProfileReads WITH
    Topic <- "mastery", MaxWrites <- 3, MaxRecalculations <- 1

Intrinsics == INSTANCE ProfileReads WITH
    Topic <- "intrinsics", MaxWrites <- 4, MaxRecalculations <- 0

StarChart == INSTANCE ProfileReads WITH
    Topic <- "star_chart", MaxWrites <- 4, MaxRecalculations <- 0

Currencies == INSTANCE ProfileReads WITH
    Topic <- "currencies", MaxWrites <- 5, MaxRecalculations <- 0

\* A squad of two whose records also name the host.
Squad == INSTANCE RelicRewards WITH
    Accounts <- 1 .. 2, Local <- 2, Rewards <- {1}, AccountField <- 2,
    Aliases <- HostAlias, MaxChoices <- 2, MaxRecords <- 2, MaxWrites <- 6

\* Three accounts, and another field that looks like one.
Choices == INSTANCE RelicRewards WITH
    Accounts <- 1 .. 3, Local <- 2, Rewards <- {1, 2}, AccountField <- 2,
    Aliases <- OwnAlias, MaxChoices <- 2, MaxRecords <- 3, MaxWrites <- 5

\* Movies that are shown and closed.
FlagReads == INSTANCE ScreenReads WITH
    Movies <- 1 .. 2, Changing <- Visibility, Replaceable <- FALSE, MaxMovies <- 2,
    MaxWrites <- 3

\* Movies that replace each other.
MovieReads == INSTANCE ScreenReads WITH
    Movies <- 1 .. 3, Changing <- Ownership, Replaceable <- TRUE, MaxMovies <- 2,
    MaxWrites <- 2

\* A name, inline or in a buffer, that is rewritten.
Name == INSTANCE NativeStrings WITH
    ShortTexts <- {0, 1}, LongTexts <- {11, 12, 13}, TooLong <- {13}, MaxWrites <- 2

\* A message list that the game appends to and trims.
History == INSTANCE ChatWalk WITH
    Nodes <- 1 .. 3, Kept <- 3, MaxEntries <- 2, MaxMessages <- 3

Message == INSTANCE ChatMessages WITH
    Players <- {1, 2}, Prefixes <- {"region", "squad"}

\* The owner of the manager changes or loses it, the manager logs in and out, and
\* the profile is selected and deselected.
Account == INSTANCE Roots WITH
    Kind <- "account", Owners <- {w1, w2}, Controls <- {c1}, Objects <- {o1},
    Buffers <- {b1}, Accounts <- {a1}, MaxProfiles <- 1, Moving <- OwnerCells, MaxChanges <- 2

\* The account ID is rewritten, in place and in another buffer.
Identifier == INSTANCE Roots WITH
    Kind <- "account", Owners <- {w1}, Controls <- {c1}, Objects <- {o1},
    Buffers <- {b1, b2, b3}, Accounts <- {a1, a2}, MaxProfiles <- 1,
    Moving <- IdentifierCells, MaxChanges <- 2

\* Two profile controls are filled and freed, and their profiles log in and out.
Profiles == INSTANCE Roots WITH
    Kind <- "account", Owners <- {w1}, Controls <- {c1, c2}, Objects <- {o1, o2},
    Buffers <- {b1}, Accounts <- {a1}, MaxProfiles <- 2, Moving <- ProfileCells, MaxChanges <- 2

\* The profile vector grows, shrinks and is moved.
Vector == INSTANCE Roots WITH
    Kind <- "account", Owners <- {w1}, Controls <- {c1}, Objects <- {o1},
    Buffers <- {b1, b2}, Accounts <- {a1}, MaxProfiles <- 1, Moving <- VectorCells,
    MaxChanges <- 2

\* The control of the profile data changes, and the object it points to.
Data == INSTANCE Roots WITH
    Kind <- "data", Owners <- {w1, w2}, Controls <- {c1}, Objects <- {o1, o2},
    Buffers <- {b1}, Accounts <- {a1}, MaxProfiles <- 1, Moving <- DataCells, MaxChanges <- 2

RootParts == {"account", "identifier", "profiles", "vector", "data"}

\* The objects between the client and the world.
World == INSTANCE World WITH
    Levels <- 3, MaxObjects <- 4

\* Pages of eight bytes, read in chunks of four.
Pool == INSTANCE StringPool WITH
    Pools <- {1, 2}, Tokens <- {1, 2}, Layouts <- PoolLayouts, ChunkBytes <- 4,
    PageBytes <- 8, MaxBytes <- 5, MaxTokens <- 2, MaxDecoded <- 7

\* Words of two bits.
Vectors == INSTANCE Records WITH
    Descriptors <- ItemTypes, Texts <- TokenTexts, MaxItemTypes <- 2, WordBits <- 2,
    Values <- {0, 3}, MaxRecords <- 2, InventoryFamilies <- 1, Topics <- RecordTopics

\* A process that exits and whose pid is reused.
Attach == INSTANCE Attachment WITH
    MaxProcesses <- 4, Reads <- 2

\* The bounds of every part, which its own module states.
ASSUME PartsAssumption ==
    /\ Inventory!TopicAssumption /\ Mastery!TopicAssumption /\ Intrinsics!TopicAssumption
    /\ StarChart!TopicAssumption /\ Currencies!TopicAssumption
    /\ Inventory!BoundAssumption /\ Mastery!BoundAssumption /\ Intrinsics!BoundAssumption
    /\ StarChart!BoundAssumption /\ Currencies!BoundAssumption
    /\ Squad!RelicAssumption /\ Choices!RelicAssumption
    /\ FlagReads!ScreenAssumption /\ MovieReads!ScreenAssumption
    /\ Name!StringAssumption /\ History!WalkAssumption
    /\ Account!BoundsAssumption /\ Identifier!BoundsAssumption
    /\ Profiles!BoundsAssumption /\ Vector!BoundsAssumption /\ Data!BoundsAssumption
    /\ World!WorldAssumption
    /\ Pool!PoolAssumption /\ Vectors!RecordsAssumption /\ ReaderAssumption
    /\ Attach!AttachmentAssumption

\* The variables of the parts that are not at work hold no value, and keep it.
Unset == "unused"

Unused ==
    /\ part \notin {"inventory", "mastery", "intrinsics", "star_chart", "currencies"} =>
          /\ mem = Unset /\ torn = Unset /\ rebuild = Unset /\ adding = Unset
          /\ log = Unset /\ held = Unset /\ runs = Unset
    /\ part \in RootParts \cup {"message", "pool", "reader", "attachment"} =>
          /\ outcome = Unset
    /\ part \in RootParts \cup {"name", "message", "world", "pool", "records", "reader", "attachment"} =>
          /\ views = Unset
    /\ part \in RootParts \cup {"history", "message", "world", "pool", "records", "reader", "attachment"} =>
          /\ writes = Unset
    /\ part \notin {"squad", "choices", "flags", "movies", "name"} =>
          /\ header = Unset
    /\ part \notin {"squad", "choices"} =>
          /\ records = Unset /\ payload = Unset /\ ordered = Unset
    /\ part \notin RootParts \cup {"squad", "choices", "flags", "movies", "name", "history", "attachment"} =>
          /\ pc = Unset
    /\ part \notin {"squad", "choices", "flags", "movies", "history"} =>
          /\ pass = Unset
    /\ part \notin {"squad", "choices", "world"} =>
          /\ before = Unset /\ next = Unset
    /\ part \notin RootParts \cup {"squad", "choices", "history"} =>
          /\ first = Unset
    /\ part \notin {"flags", "movies"} =>
          /\ ui = Unset /\ movies = Unset /\ flags = Unset /\ steady = Unset
          /\ owner = Unset /\ controls = Unset /\ found = Unset /\ sample = Unset
    /\ part \notin {"flags", "movies", "world"} =>
          /\ at = Unset
    /\ part # "name" =>
          /\ headers = Unset /\ buffers = Unset /\ writing = Unset /\ names = Unset
          /\ field = Unset /\ inner = Unset /\ outer = Unset /\ text = Unset
          /\ name = Unset
    /\ part \notin {"name", "records"} =>
          /\ parts = Unset
    /\ part # "history" =>
          /\ links = Unset /\ body = Unset /\ list = Unset /\ op = Unset
          /\ written = Unset /\ cached = Unset /\ head = Unset /\ current = Unset
          /\ entries = Unset
    /\ part \notin {"history", "message"} =>
          /\ entry = Unset
    /\ part # "message" =>
          /\ key = Unset /\ local = Unset /\ message = Unset
    /\ part \notin RootParts =>
          /\ memories = Unset /\ walk = Unset /\ between = Unset
    /\ part \notin RootParts \cup {"attachment"} =>
          /\ result = Unset
    /\ part # "world" =>
          /\ made = Unset /\ released = Unset /\ phase = Unset /\ control = Unset
          /\ chain = Unset /\ open = Unset /\ during = Unset
    /\ part # "pool" =>
          /\ texts = Unset /\ root = Unset /\ values = Unset /\ decoded = Unset
          /\ asked = Unset /\ length = Unset /\ chunk = Unset /\ answer = Unset
    /\ part # "records" =>
          /\ paths = Unset /\ topic = Unset /\ payloads = Unset
    /\ part # "attachment" =>
          /\ process = Unset /\ started = Unset /\ target = Unset /\ ok = Unset
          /\ seen = Unset /\ memory = Unset /\ done = Unset /\ games = Unset

Kept ==
    /\ part \notin {"inventory", "mastery", "intrinsics", "star_chart", "currencies"} =>
          UNCHANGED <<mem, torn, rebuild, adding, log, held, runs>>
    /\ part \in RootParts \cup {"message", "pool", "reader", "attachment"} =>
          UNCHANGED <<outcome>>
    /\ part \in RootParts \cup {"name", "message", "world", "pool", "records", "reader", "attachment"} =>
          UNCHANGED <<views>>
    /\ part \in RootParts \cup {"history", "message", "world", "pool", "records", "reader", "attachment"} =>
          UNCHANGED <<writes>>
    /\ part \notin {"squad", "choices", "flags", "movies", "name"} =>
          UNCHANGED <<header>>
    /\ part \notin {"squad", "choices"} =>
          UNCHANGED <<records, payload, ordered>>
    /\ part \notin RootParts \cup {"squad", "choices", "flags", "movies", "name", "history", "attachment"} =>
          UNCHANGED <<pc>>
    /\ part \notin {"squad", "choices", "flags", "movies", "history"} =>
          UNCHANGED <<pass>>
    /\ part \notin {"squad", "choices", "world"} =>
          UNCHANGED <<before, next>>
    /\ part \notin RootParts \cup {"squad", "choices", "history"} =>
          UNCHANGED <<first>>
    /\ part \notin {"flags", "movies"} =>
          UNCHANGED <<ui, movies, flags, steady, owner, controls, found, sample>>
    /\ part \notin {"flags", "movies", "world"} =>
          UNCHANGED <<at>>
    /\ part # "name" =>
          UNCHANGED <<headers, buffers, writing, names, field, inner, outer, text, name>>
    /\ part \notin {"name", "records"} =>
          UNCHANGED <<parts>>
    /\ part # "history" =>
          UNCHANGED <<links, body, list, op, written, cached, head, current, entries>>
    /\ part \notin {"history", "message"} =>
          UNCHANGED <<entry>>
    /\ part # "message" =>
          UNCHANGED <<key, local, message>>
    /\ part \notin RootParts =>
          UNCHANGED <<memories, walk, between>>
    /\ part \notin RootParts \cup {"attachment"} =>
          UNCHANGED <<result>>
    /\ part # "world" =>
          UNCHANGED <<made, released, phase, control, chain, open, during>>
    /\ part # "pool" =>
          UNCHANGED <<texts, root, values, decoded, asked, length, chunk, answer>>
    /\ part # "records" =>
          UNCHANGED <<paths, topic, payloads>>
    /\ part # "reader" =>
          UNCHANGED <<base, size, pending, bytes, reads, last, touched, calls>>
    /\ part # "attachment" =>
          UNCHANGED <<process, started, target, ok, seen, memory, done, games>>

PartInit ==
    /\ part \in Parts
    /\ Init
    /\ part = "inventory" => Inventory!Init
    /\ part = "mastery" => Mastery!Init
    /\ part = "intrinsics" => Intrinsics!Init
    /\ part = "star_chart" => StarChart!Init
    /\ part = "currencies" => Currencies!Init
    /\ part = "squad" => Squad!Init
    /\ part = "choices" => Choices!Init
    /\ part = "flags" => FlagReads!Init
    /\ part = "movies" => MovieReads!Init
    /\ part = "name" => Name!Init
    /\ part = "history" => History!Init
    /\ part = "message" => Message!Init
    /\ part = "account" => Account!Init
    /\ part = "identifier" => Identifier!Init
    /\ part = "profiles" => Profiles!Init
    /\ part = "vector" => Vector!Init
    /\ part = "data" => Data!Init
    /\ part = "world" => World!Init
    /\ part = "pool" => Pool!Init
    /\ part = "records" => Vectors!Init
    /\ part = "attachment" => Attach!Init
    /\ Unused

PartNext ==
    /\ \/ part = "inventory" /\ Inventory!Next
       \/ part = "mastery" /\ Mastery!Next
       \/ part = "intrinsics" /\ Intrinsics!Next
       \/ part = "star_chart" /\ StarChart!Next
       \/ part = "currencies" /\ Currencies!Next
       \/ part = "squad" /\ Squad!Next
       \/ part = "choices" /\ Choices!Next
       \/ part = "flags" /\ FlagReads!Next
       \/ part = "movies" /\ MovieReads!Next
       \/ part = "name" /\ Name!Next
       \/ part = "history" /\ History!Next
       \/ part = "message" /\ Message!Next
       \/ part = "account" /\ Account!Next
       \/ part = "identifier" /\ Identifier!Next
       \/ part = "profiles" /\ Profiles!Next
       \/ part = "vector" /\ Vector!Next
       \/ part = "data" /\ Data!Next
       \/ part = "world" /\ World!Next
       \/ part = "pool" /\ Pool!Next
       \/ part = "records" /\ Vectors!Next
       \/ part = "reader" /\ Next
       \/ part = "attachment" /\ Attach!Next
    /\ Kept /\ UNCHANGED part

PartSpec == PartInit /\ [][PartNext]_partVars

-----------------------------------------------------------------------------
(* Properties. *)

\* Whatever an acquisition accepts was true: the profile, the picker, the
\* screens, the name or the history was in the game as read at one moment of the
\* read, although the game wrote, freed and reused memory between any two reads.
\* The manager, the profile, its account ID and the profile data that were found
\* were there together between the two walks; no profile was named over another that
\* stayed selected; an absence that was reported was one; and the process attached
\* to is the one discovered. What a read holds so far keeps its shape.
AcceptedWasTrue ==
    /\ part = "mastery" => Mastery!TypeOK
    /\ part = "vector" => Vector!TypeOK
    /\ part = "attachment" => Attach!TypeOK
    /\ part = "inventory" => Inventory!SnapshotWasTrue
    /\ part = "mastery" => Mastery!SnapshotWasTrue
    /\ part = "intrinsics" => Intrinsics!SnapshotWasTrue
    /\ part = "star_chart" => StarChart!SnapshotWasTrue
    /\ part = "currencies" => Currencies!SnapshotWasTrue
    /\ part = "mastery" => Mastery!ItemsWereTrue
    /\ part = "squad" => Squad!PickerWasTrue
    /\ part = "choices" => Choices!PickerWasTrue
    /\ part = "flags" => FlagReads!ScreensWereTrue
    /\ part = "name" => Name!NameWasTrue
    /\ part = "history" => History!HistoryWasTrue
    /\ part = "account" => Account!FoundWasThere
    /\ part = "identifier" => Identifier!FoundWasThere
    /\ part = "profiles" => Profiles!FoundWasThere
    /\ part = "vector" => Vector!FoundWasThere
    /\ part = "data" => Data!FoundWasThere
    /\ part = "profiles" => Profiles!NoRival
    /\ part = "account" => Account!AbsentWasTrue
    /\ part = "identifier" => Identifier!AbsentWasTrue
    /\ part = "profiles" => Profiles!AbsentWasTrue
    /\ part = "vector" => Vector!AbsentWasTrue
    /\ part = "data" => Data!AbsentWasTrue
    /\ part = "world" => World!WorldHeld
    /\ part = "attachment" => Attach!AttachedIsTarget

\* Decoding neither loses nor invents, nor refuses without a cause: counts of one
\* path are added up exactly, records are whole, progress is of distinct items, a
\* token is resolved in its own pool and a message is attributed to the
\* conversation it was sent in; a snapshot is refused for a record that cannot be
\* named or counted, and screens that hold still are found. A text is read from
\* mapped pages only, and the token cache stays within its two limits.
DecodedExactly ==
    /\ part = "records" => Vectors!TypeOK
    /\ part = "records" => Vectors!QuantityExact
    /\ part = "records" => Vectors!WholeRecords
    /\ part = "records" => Vectors!ProgressExact
    /\ part = "records" => Vectors!RefusedForCause
    /\ part = "pool" => Pool!ResolvedRight
    /\ part = "pool" => Pool!ReadsAreMapped
    /\ part = "pool" => Pool!CacheBounded
    /\ part = "message" => Message!ConversationAttributed
    /\ part = "movies" => MovieReads!SteadyIsFound

\* An error of what runs between two identity checks is reported of the target
\* alone: where the process has exited or its pid was reused, the error is
\* TargetChanged, as verify documents (with_current_process).
CauseIsTrue == [][part = "attachment" => Attach!CauseIsTrue]_partVars
=============================================================================
