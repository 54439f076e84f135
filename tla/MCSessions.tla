----------------------------- MODULE MCSessions -----------------------------
(***************************************************************************)
(* The sessions of the Warframe provider in one model: the polls of        *)
(* account data and chat (AccountSession, and AccountRecovery once the     *)
(* game settles), the polls of screens and relic rewards (Visual), and the *)
(* chat cursor between two publications (Chat).                            *)
(*                                                                         *)
(* A behaviour is one of a single part, the one in part; a part with       *)
(* several bounds is here several times.                                   *)
(***************************************************************************)
EXTENDS Naturals, Sequences, FiniteSets, TLC

CONSTANTS
    Parts,          \* the parts to check
    k1, k2,         \* names of chat channels
    None, Failed, Closed

VARIABLES
    part,          \* the part at work
    game, fresh, s, pc, topic, calm, elapsed, v, channels, written, history, cursor,
    pending, staged, polling, delivered, floor

vars == <<part, game, fresh, s, pc, topic, calm, elapsed, v, channels, written, history,
          cursor, pending, staged, polling, delivered, floor>>

PlayerAndChat == {"player", "chat"}
SharedLayouts == {"intrinsics", "star_chart"}
BothVisual == {"screens", "relic"}
RelicAlone == {"relic"}
OwnerMoves == {"client"}
PickerMoves == {"account", "rules", "movie"}
OverlayMoves == {"overlay"}
SomeLayouts == {"client", "relic", "items"}
OneKey == {k1}
TwoKeys == {k1, k2}

\* The player and chat, whose owners change.
Owners == INSTANCE AccountSession WITH
    Topics <- PlayerAndChat, Sample <- 1, ChatInterval <- 1, ChatBacklog <- 1,
    ValidationRetry <- 2, MaxIdentity <- 3

\* Two topics that share layouts.
Layouts == INSTANCE AccountSession WITH
    Topics <- SharedLayouts, Sample <- 1, ChatInterval <- 1, ChatBacklog <- 1,
    ValidationRetry <- 2, MaxIdentity <- 1

\* The game settles after any history.
Recovery == INSTANCE AccountRecovery WITH
    Topics <- PlayerAndChat, Sample <- 1, ChatInterval <- 1, ChatBacklog <- 1,
    ValidationRetry <- 2, MaxIdentity <- 2

\* Both visual topics, layouts that hold, and owners that change.
Display == INSTANCE Visual WITH
    Consumers <- BothVisual, ScreensInterval <- 1, RelicInterval <- 1, ReadRetry <- 1,
    ValidationRetry <- 1, Fallible <- {}, Moving <- OwnerMoves, MaxIdentity <- 2

\* The relic rewards alone.
Picker == INSTANCE Visual WITH
    Consumers <- RelicAlone, ScreensInterval <- 1, RelicInterval <- 1, ReadRetry <- 2,
    ValidationRetry <- 1, Fallible <- {}, Moving <- PickerMoves, MaxIdentity <- 2

\* Both, with layouts that fail and are retried.
Retried == INSTANCE Visual WITH
    Consumers <- BothVisual, ScreensInterval <- 2, RelicInterval <- 1, ReadRetry <- 2,
    ValidationRetry <- 2, Fallible <- SomeLayouts, Moving <- OverlayMoves,
    MaxIdentity <- 1

\* One channel name, recreated: trimming, gaps, rejections and clears.
Channel == INSTANCE Chat WITH
    Keys <- OneKey, Retained <- 3, MaxEvents <- 1, MaxChannels <- 1, MaxConversation <- 2,
    MaxInstances <- 2, MaxMessages <- 4, game <- channels

\* Two channels share one publication.
Channels == INSTANCE Chat WITH
    Keys <- TwoKeys, Retained <- 2, MaxEvents <- 2, MaxChannels <- 2,
    MaxConversation <- 3, MaxInstances <- 2, MaxMessages <- 2, game <- channels

\* The bounds of every part, which its own module states.
ASSUME PartsAssumption ==
    /\ Owners!BoundsAssumption /\ Layouts!BoundsAssumption /\ Recovery!BoundsAssumption
    /\ Owners!RetryAssumption /\ Layouts!RetryAssumption /\ Recovery!RetryAssumption
    /\ Display!IntervalsAssumption /\ Picker!IntervalsAssumption /\ Retried!IntervalsAssumption
    /\ Display!RetryAssumption /\ Picker!RetryAssumption /\ Retried!RetryAssumption
    /\ Channel!BoundsAssumption /\ Channels!BoundsAssumption

\* The variables of the parts that are not at work hold no value, and keep it.
Idle == "unused"

Unused ==
    /\ part \in {"chat", "channels"} =>
          /\ game = Idle /\ fresh = Idle /\ pc = Idle /\ topic = Idle
    /\ part \notin {"owners", "layouts", "recovery"} =>
          /\ s = Idle
    /\ part # "recovery" =>
          /\ calm = Idle /\ elapsed = Idle
    /\ part \notin {"visual", "picker", "retries"} =>
          /\ v = Idle
    /\ part \notin {"chat", "channels"} =>
          /\ channels = Idle /\ written = Idle /\ history = Idle /\ cursor = Idle
          /\ pending = Idle /\ staged = Idle /\ polling = Idle /\ delivered = Idle
          /\ floor = Idle

Kept ==
    /\ part \in {"chat", "channels"} =>
          UNCHANGED <<game, fresh, pc, topic>>
    /\ part \notin {"owners", "layouts", "recovery"} =>
          UNCHANGED <<s>>
    /\ part # "recovery" =>
          UNCHANGED <<calm, elapsed>>
    /\ part \notin {"visual", "picker", "retries"} =>
          UNCHANGED <<v>>
    /\ part \notin {"chat", "channels"} =>
          UNCHANGED <<channels, written, history, cursor, pending, staged, polling,
                       delivered, floor>>

Init ==
    /\ part \in Parts
    /\ part = "owners" => Owners!Init
    /\ part = "layouts" => Layouts!Init
    /\ part = "recovery" => Recovery!CalmInit
    /\ part = "visual" => Display!Init
    /\ part = "picker" => Picker!Init
    /\ part = "retries" => Retried!Init
    /\ part = "chat" => Channel!Init
    /\ part = "channels" => Channels!Init
    /\ Unused

Next ==
    /\ \/ part = "owners" /\ Owners!Next
       \/ part = "layouts" /\ Layouts!Next
       \/ part = "recovery" /\ Recovery!CalmNext
       \/ part = "visual" /\ Display!Next
       \/ part = "picker" /\ Picker!Next
       \/ part = "retries" /\ Retried!Next
       \/ part = "chat" /\ Channel!Next
       \/ part = "channels" /\ Channels!Next
    /\ Kept /\ UNCHANGED part

Spec == Init /\ [][Next]_vars

-----------------------------------------------------------------------------
(* Properties. *)

\* The values published within one lifetime of a topic are all of one owner,
\* although accounts, profile data, clients and missions change between any two
\* reads and the service refuses polls; a retained chat publication is of the
\* owner it is retried for, and the choices of a picker are all of one picker.
OneOwner ==
    /\ part = "owners" => Owners!OneOwner
    /\ part = "layouts" => Layouts!OneOwner
    /\ part = "owners" => Owners!PendingOwned
    /\ part = "visual" => Display!OneOwner
    /\ part = "picker" => Picker!OneOwner
    /\ part = "picker" => Picker!WholePicker

\* A poll resets a topic at most once, a reset is settled by what the topic shows
\* next, and the topics it wakes are validated before they are sampled.
ResetsAreSafe ==
    /\ part = "owners" => Owners!OneReset
    /\ part = "owners" => Owners!ResetIsSettled
    /\ part = "owners" => Owners!ValidatedFirst
    /\ part = "layouts" => Layouts!ValidatedFirst
    /\ part = "visual" => Display!OneReset

\* A session neither spins nor forgets. Every topic that a poll leaves due is due
\* for a reason; once the game settles, each demanded topic shows a value within
\* one retry and one sample; a visual topic that is owed a state keeps a deadline
\* for it, and no deadline is further off than its interval.
NothingForgotten ==
    /\ part = "owners" => Owners!TypeOK
    /\ part = "layouts" => Layouts!TypeOK
    /\ part = "visual" => Display!TypeOK
    /\ part = "picker" => Picker!TypeOK
    /\ part = "retries" => Retried!TypeOK
    /\ part = "owners" => Owners!NeverBusy
    /\ part = "visual" => Display!NeverBusy
    /\ part = "recovery" => Recovery!RecoversInTime
    /\ part = "retries" => Retried!NothingLost

\* Chat messages are delivered in the order written, each at most once, and from a
\* position on with none left out unless a gap tells of it: across refused
\* publications, trimmed lists and channels recreated under the same name and even
\* at the same address, the cursor stands where delivery ends, old messages are not
\* delivered as new, and several busy channels share one publication within its
\* limit. Positions and pending publications keep their shape.
ChatInOrder ==
    /\ part = "chat" => Channel!TypeOK
    /\ part = "channels" => Channels!TypeOK
    /\ part = "chat" => Channel!NativeOrder
    /\ part = "channels" => Channels!NativeOrder
    /\ part = "chat" => Channel!NothingSkipped
    /\ part = "channels" => Channels!NothingSkipped
    /\ part = "chat" => Channel!PositionIsDelivered
    /\ part = "channels" => Channels!PositionIsDelivered
    /\ part = "chat" => Channel!RetainedIsSkipped
    /\ part = "channels" => Channels!OneConversation
    /\ part = "channels" => Channels!BatchBounded

\* Another topic's poll never brings a failed check forward.
RetryKept == [][part = "layouts" => Layouts!RetryKept]_vars
=============================================================================
