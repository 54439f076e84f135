------------------------------- MODULE MCAgent ------------------------------
(***************************************************************************)
(* The parts of the agent beside the service itself, in one model: the     *)
(* poll of a hosted session (Host), the commands and the single agent they *)
(* start and stop (Agent), access settings (Access), the identity file     *)
(* (Identity), transport admission (Admission) and the lifecycle worker    *)
(* (Lifecycle).                                                            *)
(*                                                                         *)
(* A behaviour is one of a single part, the one in part; a part with       *)
(* several bounds is here several times. The members of Pair are           *)
(* interchangeable: topics, terminals, processes, peers.                   *)
(***************************************************************************)
EXTENDS Host, Integers, Sequences, TLC

CONSTANTS
    Parts,          \* the parts to check
    m1, m2,         \* topics, terminals, processes or peers
    stranger,       \* another process, or a peer that is not approved
    None, Corrupt

VARIABLES
    part,          \* the part at work
    saved, record, request, commandLock, agentLock, agents, cmd, settings, allowlist,
    lock, active, commands, expected, edits, file, keys, proc, server, conn, tasks,
    connections, requests, perConnection, global, local, credit, os, targets, error, next,
    todo, fresh, stop, published, worker

partVars == <<part, topic, revision, stopped, pc, seen, attached, host, ticket, result,
              baseline, begun, saved, record, request, commandLock, agentLock, agents,
              cmd, settings, allowlist, lock, active, commands, expected, edits, file,
              keys, proc, server, conn, tasks, connections, requests, perConnection,
              global, local, credit, os, targets, error, next, todo, fresh, stop,
              published, worker>>

Pair == {m1, m2}
Symmetry == Permutations(Pair)

BothPolicies == {"local", "remote"}
OneTerminal == {m1}
OnePeer == {"p"}
Everyone == Pair \cup {stranger}

\* Two terminals that set different policies.
Commanded == INSTANCE Agent WITH
    Commands <- Pair, Policies <- BothPolicies, MaxAgents <- 2, Killable <- {}

\* One terminal, and agents to retry with.
Retrying == INSTANCE Agent WITH
    Commands <- OneTerminal, Policies <- BothPolicies, MaxAgents <- 3, Killable <- {}

\* A terminal that may be killed.
Killing == INSTANCE Agent WITH
    Commands <- OneTerminal, Policies <- BothPolicies, MaxAgents <- 2,
    Killable <- OneTerminal

\* Two commands beside an edit by hand.
Access == INSTANCE Access WITH
    Commands <- Pair, Peers <- OnePeer, Names <- {"n"}, MaxEdits <- 1

\* Three processes that load the file at once, and restart.
Identity == INSTANCE Identity WITH
    Processes <- Everyone, MaxKeys <- 4

\* Two approved readers and one that is not; a second subscription of a peer
\* competes for the last global permit.
Limits == INSTANCE Admission WITH
    Peers <- Everyone, Remote <- TRUE, Approved <- Pair, Connections <- 1, Requests <- 3,
    RequestsPerConnection <- 2, Global <- 2, PerConnection <- 1, SessionScopes <- 0,
    SessionTopics <- 0

\* Two readers at once, in the local access mode.
Shared == INSTANCE Admission WITH
    Peers <- Pair, Remote <- FALSE, Approved <- Pair, Connections <- 2, Requests <- 4,
    RequestsPerConnection <- 3, Global <- 3, PerConnection <- 2, SessionScopes <- 0,
    SessionTopics <- 0

\* One reader and SubscriptionLimits::default; a Warframe session has nine
\* topics.
Scopes == INSTANCE Admission WITH
    Peers <- {m1}, Remote <- FALSE, Approved <- {}, Connections <- 1, Requests <- 1,
    RequestsPerConnection <- 1, Global <- 32, PerConnection <- 16, SessionScopes <- 4,
    SessionTopics <- 9

\* Two games.
Lifecycle == INSTANCE Lifecycle WITH
    Processes <- Pair, DiscoveryInterval <- 1, RetryInterval <- 2, pc <- worker,
    service <- published

\* The bounds of every part, which its own module states.
ASSUME PartsAssumption ==
    /\ Commanded!AgentAssumption /\ Retrying!AgentAssumption /\ Killing!AgentAssumption
    /\ Access!AccessAssumption /\ Identity!KeysAssumption /\ Lifecycle!LifecycleAssumption
    /\ Limits!LimitsAssumption /\ Shared!LimitsAssumption /\ Scopes!LimitsAssumption

\* The variables of the parts that are not at work hold no value, and keep it.
Idle == "unused"

Unused ==
    /\ part \notin {"commands", "retries", "kills"} =>
          /\ saved = Idle /\ record = Idle /\ request = Idle /\ commandLock = Idle
          /\ agentLock = Idle /\ agents = Idle /\ cmd = Idle
    /\ part # "access" =>
          /\ settings = Idle /\ allowlist = Idle /\ lock = Idle /\ commands = Idle
          /\ expected = Idle /\ edits = Idle
    /\ part \notin {"access", "limits", "shared", "scopes"} =>
          /\ active = Idle
    /\ part \notin {"identity", "lifecycle"} =>
          /\ file = Idle
    /\ part # "identity" =>
          /\ keys = Idle /\ proc = Idle
    /\ part \notin {"limits", "shared", "scopes"} =>
          /\ server = Idle /\ conn = Idle /\ tasks = Idle /\ connections = Idle
          /\ requests = Idle /\ perConnection = Idle /\ global = Idle /\ local = Idle
          /\ credit = Idle
    /\ part # "lifecycle" =>
          /\ os = Idle /\ targets = Idle /\ error = Idle /\ next = Idle /\ todo = Idle
          /\ fresh = Idle /\ stop = Idle /\ published = Idle /\ worker = Idle

Kept ==
    /\ part # "host" =>
          UNCHANGED <<topic, revision, stopped, pc, seen, attached, host, ticket, result,
                       baseline, begun>>
    /\ part \notin {"commands", "retries", "kills"} =>
          UNCHANGED <<saved, record, request, commandLock, agentLock, agents, cmd>>
    /\ part # "access" =>
          UNCHANGED <<settings, allowlist, lock, commands, expected, edits>>
    /\ part \notin {"access", "limits", "shared", "scopes"} =>
          UNCHANGED <<active>>
    /\ part \notin {"identity", "lifecycle"} =>
          UNCHANGED <<file>>
    /\ part # "identity" =>
          UNCHANGED <<keys, proc>>
    /\ part \notin {"limits", "shared", "scopes"} =>
          UNCHANGED <<server, conn, tasks, connections, requests, perConnection, global,
                       local, credit>>
    /\ part # "lifecycle" =>
          UNCHANGED <<os, targets, error, next, todo, fresh, stop, published, worker>>

PartInit ==
    /\ part \in Parts
    /\ Init
    /\ part = "commands" => Commanded!Init
    /\ part = "retries" => Retrying!Init
    /\ part = "kills" => Killing!Init
    /\ part = "access" => Access!Init
    /\ part = "identity" => Identity!Init
    /\ part = "limits" => Limits!Init
    /\ part = "shared" => Shared!Init
    /\ part = "scopes" => Scopes!Init
    /\ part = "lifecycle" => Lifecycle!Init
    /\ Unused

PartNext ==
    /\ \/ part = "host" /\ Next
       \/ part = "commands" /\ Commanded!Next
       \/ part = "retries" /\ Retrying!Next
       \/ part = "kills" /\ Killing!Next
       \/ part = "access" /\ Access!Next
       \/ part = "identity" /\ Identity!Next
       \/ part = "limits" /\ Limits!Next
       \/ part = "shared" /\ Shared!Next
       \/ part = "scopes" /\ Scopes!Next
       \/ part = "lifecycle" /\ Lifecycle!Next
    /\ Kept /\ UNCHANGED part

PartSpec == PartInit /\ [][PartNext]_partVars

-----------------------------------------------------------------------------
(* Properties. *)

\* Types of the state of every part.
PartsTypeOK ==
    /\ TypeOK
    /\ part = "commands" => Commanded!TypeOK
    /\ part = "retries" => Retrying!TypeOK
    /\ part = "kills" => Killing!TypeOK
    /\ part = "access" => Access!TypeOK
    /\ part = "identity" => Identity!TypeOK
    /\ part = "limits" => Limits!TypeOK
    /\ part = "shared" => Shared!TypeOK
    /\ part = "lifecycle" => Lifecycle!TypeOK

\* A command that returns has done what it says, whichever other commands ran
\* beside it and were killed on the way. A started agent is discoverable and runs
\* with the policy that was saved; a stopped one is gone and no child is left
\* behind; a change of the settings or of the list is never lost, its effect is
\* there on return, and a list that is not needed is not read; processes that
\* load or create one identity file end up with one key.
CommandsTookEffect ==
    /\ part = "commands" => Commanded!Discoverable
    /\ part = "retries" => Retrying!Discoverable
    /\ part = "kills" => Killing!Discoverable
    /\ part = "commands" => Commanded!AppliedOnReturn
    /\ part = "kills" => Killing!AppliedOnReturn
    /\ part = "commands" => Commanded!StoppedOnReturn
    /\ part = "retries" => Retrying!StoppedOnReturn
    /\ part = "kills" => Killing!StoppedOnReturn
    /\ part = "commands" => Commanded!NoOrphans
    /\ part = "retries" => Retrying!NoOrphans
    /\ part = "access" => Access!NoLostChange
    /\ part = "access" => Access!EffectOnReturn
    /\ part = "access" => Access!WantIsSaved
    /\ part = "access" => Access!LocalNeedsNoList
    /\ part = "identity" => Identity!OneIdentity

\* Permits are neither lost nor given out twice, whatever ends first: those that are
\* out are held by a task, subscriptions leave a peer the credit for its requests, a
\* connection slot outlives its tasks, and shutdown gets every permit back.
LimitsKept ==
    /\ part = "limits" => Limits!LimitsKept
    /\ part = "shared" => Shared!LimitsKept

\* The lifecycle worker sleeps only when it has nothing left to do: what it found
\* is published to the service, no candidate is left, and the registration file
\* agrees unless writing it failed.
SettledBeforeSleep ==
    /\ part = "lifecycle" => Lifecycle!PublishedBeforeSleep
    /\ part = "lifecycle" => Lifecycle!SettledBeforeSleep

\* What a process did not understand or did not check is never replaced: a file
\* that does not parse stays as it is until the user edits it, an identity file
\* keeps its key, and a target that was verified is not dropped because a listing
\* missed it.
NeverOverwritten ==
    [][/\ part = "access" => Access!BrokenIsKept
       /\ part = "identity" => Identity!NeverReplaced
       /\ part = "lifecycle" => Lifecycle!VerifiedIsKept]_partVars

\* SubscriptionLimits::default: "Allow four complete Warframe session scopes per
\* connection": a connection is out of slots only when it holds that many streams.
ScopesFit == part = "scopes" => Scopes!ScopesFit
=============================================================================
