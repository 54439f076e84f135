------------------------------- MODULE Visual -------------------------------
(***************************************************************************)
(* session/visual.rs and screen_demand.rs: one sample of the visible       *)
(* screens serves two topics, the screens themselves and the choices of an *)
(* open relic-reward picker.  The game changes login, client, mission      *)
(* rules, overlay and picker between any two reads of a poll; the service  *)
(* may refuse what a poll publishes.                                       *)
(*                                                                         *)
(* Deadlines are the time left until them.  An identity is a number that   *)
(* is never reused, 0 for none; an identity that hangs off another one     *)
(* goes away with it.                                                      *)
(***************************************************************************)
EXTENDS CachedChecks, FiniteSets

CONSTANTS
    Consumers,             \* a subset of {"screens", "relic"}
    None, Failed, Closed,  \* no value, an unavailable one, RelicRewardPicker::Closed
    ScreensInterval,       \* SCREENS_INTERVAL
    RelicInterval,         \* RELIC_INTERVAL
    ReadRetry,             \* READ_RETRY
    Fallible,              \* the layout checks that may fail
    Moving,                \* the parts of the game that change
    MaxIdentity            \* bound: identities of the game

Checks == {"executable", "client", "screens", "account", "world", "relic",
           "strings", "items"}

IntervalsAssumption ==
    /\ Consumers \subseteq {"screens", "relic"}
    /\ {ScreensInterval, RelicInterval, ReadRetry} \subseteq Nat \ {0}
    /\ RelicInterval <= ScreensInterval
    /\ Fallible \subseteq Checks
    /\ Moving \subseteq {"account", "client", "rules", "overlay", "movie"}
    /\ MaxIdentity \in Nat \ {0}

VARIABLES
    game,    \* account, client, rules, overlay and picker movie
    fresh,   \* the last identity used
    v,       \* VisualTopics, the batch and the locals of a poll
    pc,      \* where the poll is
    topic    \* the service's side: demand and lifetime of each topic

vars == <<game, fresh, v, pc, topic>>

-----------------------------------------------------------------------------
(* screen_demand.rs: the plan and the deadline of the shared source. *)

Larger(a, b) == IF a > b THEN a ELSE b
Smaller(a, b) == IF a < b THEN a ELSE b

\* SourcePlan::interval: the fastest request.
Interval(plan) == IF "relic" \in plan THEN RelicInterval ELSE ScreensInterval

\* ScreenSource::update
Update(q, plan) ==
    LET later == IF q.since = None THEN Interval(plan)
                 ELSE IF q.since > Interval(plan) THEN 0 ELSE Interval(plan) - q.since
    IN [q EXCEPT !.plan = plan,
                 !.since = IF plan = {} THEN None ELSE @,
                 !.next = CASE plan = {} -> None
                            [] plan = q.plan -> @
                            [] ~(plan \subseteq q.plan) -> 0
                            [] OTHER -> later]

WakeSource(q) == [q EXCEPT !.next = IF @ = None THEN None ELSE 0]
Due(q) == q.next = 0

Sampled(q) == [q EXCEPT !.since = 0, !.next = Interval(q.plan)]

-----------------------------------------------------------------------------
(* VisualTopics: demand, wake and the outcomes of a poll. *)

\* wake, for each of its topics whose generation begins.
Wake(q) == [WakeSource(q) EXCEPT !.retry = 0]

\* demand
Demand(q, plan) ==
    LET new == "relic" \in plan \ q.plan
    IN [Update(q, plan) EXCEPT
          !.retry = IF new THEN 0 ELSE @,
          !.delay = IF new THEN 0 ELSE @,
          !.owner = IF "relic" \in plan THEN @ ELSE None,
          !.ui = IF plan = {} THEN None ELSE @]

\* Mutant: only the source is woken.
CompletedSource(q, committed) == IF committed THEN q ELSE WakeSource(q)

\* poll_completed
Completed(q, committed) == IF committed THEN q ELSE Wake(q)

\* unavailable: both topics fail together, and the source is deferred.
Unavailable(q, left) ==
    [q EXCEPT !.out = [t \in Consumers |-> IF t \in q.plan THEN Failed ELSE @[t]],
              !.next = left]

Reset(q, t) == [q EXCEPT !.resets = @ \cup {t}, !.twice = @ \/ t \in q.resets,
                         !.out[t] = None]

\* clear_owner: at most one reset in a poll.
ClearOwner(q) ==
    IF q.owner = None \/ "relic" \in q.resets THEN [q EXCEPT !.owner = None]
    ELSE [Reset(q, "relic") EXCEPT !.owner = None]

\* Reasons: a target in transition, or data that is malformed or unreadable.
Kinds == {"NotReady", "Broken"}

\* The deadline a read of this poll retries at.
Backoff(q) == Larger(q.delay, RelicInterval)

\* relic_unavailable
RelicUnavailable(q, fault) ==
    [q EXCEPT !.out["relic"] = Failed,
              !.retry = IF fault.kind = "NotReady" THEN RelicInterval ELSE fault.left,
              !.delay = IF fault.kind = "NotReady" THEN 0
                        ELSE Smaller(2 * Backoff(q), ReadRetry)]

\* The error arms of poll_relic.
Lost(q, fault) == RelicUnavailable(ClearOwner(q), fault)

-----------------------------------------------------------------------------
NewService == [demanded |-> FALSE, new |-> FALSE, fenced |-> FALSE, renewed |-> FALSE,
               owners |-> {}, shown |-> FALSE, told |-> FALSE]

\* The batch of a poll that has nothing to publish.
NoOutput == [t \in Consumers |-> None]

\* VisualTopics::default, and no poll under way.
NewVisual ==
    [plan |-> {}, next |-> None, since |-> None, retry |-> 0, delay |-> 0,
     ui |-> None, owner |-> None, checks |-> [c \in Checks |-> Unchecked],
     out |-> NoOutput, resets |-> {}, twice |-> FALSE, asked |-> FALSE,
     before |-> None, after |-> None, fault |-> None, sample |-> None, picker |-> None]

\* The locals and the batch of a poll are dropped when it ends.
EndPoll(q) ==
    [q EXCEPT !.out = NoOutput, !.resets = {}, !.twice = FALSE, !.asked = FALSE,
              !.before = None, !.after = None, !.fault = None, !.sample = None,
              !.picker = None]

Init ==
    /\ \E movie \in {0, 1} :
          game = [account |-> 1, client |-> 1, rules |-> 1, overlay |-> 1, movie |-> movie]
    /\ fresh = 1
    /\ v = NewVisual /\ pc = "idle"
    /\ topic = [t \in Consumers |-> NewService]

-----------------------------------------------------------------------------
(* The game, the clock and the service. *)

\* What goes away with an identity.
Below(part) ==
    CASE part = "client" -> {"rules", "overlay", "movie"}
      [] part = "overlay" -> {"movie"}
      [] OTHER -> {}

Above(part) ==
    CASE part \in {"rules", "overlay"} -> {"client"}
      [] part = "movie" -> {"overlay"}
      [] OTHER -> {}

Changed(part, id) == [p \in DOMAIN game |-> IF p = part THEN id
                                            ELSE IF p \in Below(part) THEN 0 ELSE game[p]]

\* A login, client, mission, overlay or picker begins, in place of another or not.
GameBegins(part) ==
    /\ fresh < MaxIdentity
    /\ \A p \in Above(part) : game[p] # 0
    /\ fresh' = fresh + 1
    /\ game' = Changed(part, fresh + 1)
    /\ UNCHANGED <<v, pc, topic>>

GameEnds(part) ==
    /\ game[part] # 0
    /\ game' = Changed(part, 0)
    /\ UNCHANGED <<fresh, v, pc, topic>>

Sooner(n) == IF n = None \/ n = 0 THEN n ELSE n - 1

Tick ==
    /\ pc = "idle"
    /\ v' = [v EXCEPT !.next = Sooner(@), !.retry = Sooner(@),
                      !.since = IF @ = None THEN None ELSE Smaller(@ + 1, ScreensInterval),
                      !.checks = [c \in Checks |-> [@[c] EXCEPT !.left = Sooner(@)]]]
    /\ UNCHANGED <<game, fresh, pc, topic>>

\* Demand ends or begins; a beginning is a new generation.
ChangeDemand(t) ==
    /\ topic' = [topic EXCEPT ![t] =
                   [demanded |-> ~@.demanded, new |-> TRUE, fenced |-> TRUE, renewed |-> TRUE,
                    owners |-> {}, shown |-> FALSE, told |-> FALSE]]
    /\ UNCHANGED <<game, fresh, v, pc>>

\* A deadline passes: the epoch fences the poll, the generation stays.
Expire(t) ==
    /\ topic[t].demanded /\ topic[t].shown
    /\ topic' = [topic EXCEPT ![t].fenced = TRUE, ![t].shown = FALSE]
    /\ UNCHANGED <<game, fresh, v, pc>>

-----------------------------------------------------------------------------
(* VisualTopics::poll and poll_relic, one step for each read of the game. *)

\* begin_generation for what is new, then demand.
Begin(q) ==
    LET wanted == {t \in Consumers : topic[t].demanded}
    IN Demand(IF \E t \in wanted : topic[t].new THEN Wake(q) ELSE q, wanted)

\* bound: at most one check fails at a time.
Failures == {{}} \cup {{c} : c \in Fallible}

\* validate_relic, if the relic topic is tried in this poll.
ValidateRelic(q, bad) ==
    LET result == EnsureAll(q.checks, <<"account", "world", "relic">>, bad)
    IN IF ~("relic" \in q.plan /\ q.retry = 0) THEN q
       ELSE [q EXCEPT !.asked = TRUE, !.checks = result.checks,
                      !.fault = IF result.left = 0 THEN None
                                ELSE [kind |-> "Broken", left |-> result.left]]

\* The executable, the client and the screen layout, then the relic layouts.
Ready(q, bad) ==
    LET result == EnsureAll(q.checks, <<"executable", "client", "screens">>, bad)
        next == [q EXCEPT !.checks = result.checks]
    IN IF result.left > 0 THEN Unavailable(next, result.left) ELSE ValidateRelic(next, bad)

StartPoll ==
    /\ pc = "idle"
    /\ LET q == Begin(v)
       IN IF ~Due(q) THEN v' = q /\ pc' = "commit"
          ELSE \E bad \in Failures :
                  LET ready == Ready(q, bad)
                  IN /\ v' = ready
                     /\ pc' = IF ~Due(ready) THEN "commit"
                              ELSE IF ready.asked /\ ready.fault = None THEN "login"
                              ELSE "screens"
    /\ topic' = [t \in Consumers |-> [topic[t] EXCEPT !.fenced = ~topic[t].demanded,
                                                      !.renewed = FALSE,
                                                      !.new = @ /\ ~topic[t].demanded]]
    /\ UNCHANGED <<game, fresh>>

Fault(q, kind) == [kind |-> kind, left |-> Backoff(q)]

\* resolve_owner: the login.
ReadLogin ==
    /\ pc = "login" /\ game.account # 0
    /\ v' = [v EXCEPT !.before = [account |-> game.account]]
    /\ pc' = "world"
    /\ UNCHANGED <<game, fresh, topic>>

\* resolve_owner: the world under a login.
World(account) == [account |-> account, client |-> game.client, rules |-> game.rules]

ReadWorld ==
    /\ pc = "world"
    /\ v' = [v EXCEPT !.before = World(@.account)]
    /\ pc' = "screens"
    /\ UNCHANGED <<game, fresh, topic>>

\* There is no login, or one of the reads failed.
NoOwner(kind) ==
    /\ pc \in {"login", "world"}
    /\ v' = [v EXCEPT !.fault = Fault(v, kind)]
    /\ pc' = "screens"
    /\ UNCHANGED <<game, fresh, topic>>

\* screens::read, which reads twice and compares.
ScreenSample == [ui |-> [client |-> game.client, overlay |-> game.overlay],
                 movie |-> game.movie]

\* A screens topic that saw another interface is reset.
ResetScreens(q, sample) ==
    IF "screens" \in q.plan /\ q.ui # None /\ q.ui # sample.ui THEN Reset(q, "screens") ELSE q

ReadScreens ==
    /\ pc = "screens"
    /\ LET q == ResetScreens(v, ScreenSample)
           shown == IF "screens" \in q.plan THEN [q EXCEPT !.out["screens"] = ScreenSample.ui]
                    ELSE q
       IN v' = Sampled([shown EXCEPT !.ui = ScreenSample.ui, !.sample = ScreenSample])
    /\ pc' = IF v.asked THEN "relic" ELSE "commit"
    /\ UNCHANGED <<game, fresh, topic>>

NoScreens(kind) ==
    /\ pc = "screens"
    /\ v' = Unavailable(v, IF kind = "Broken" THEN ReadRetry ELSE Interval(v.plan))
    /\ pc' = "commit"
    /\ UNCHANGED <<game, fresh, topic>>

\* The sink refuses the screens: the source was not sampled, nor the interface kept.
ScreensRefused ==
    /\ pc = "screens" /\ "screens" \in v.plan
    /\ v' = ResetScreens(v, ScreenSample)
    /\ pc' = "failed"
    /\ UNCHANGED <<game, fresh, topic>>

RelicOwner(q, world) == [account |-> world.account, client |-> world.client,
                         rules |-> world.rules, ui |-> q.sample.ui]

\* poll_relic up to the choices: the owner, and whether the picker is open.
RelicBefore ==
    /\ pc = "relic"
    /\ LET fault == IF v.fault # None THEN v.fault
                    ELSE IF v.before.client # v.sample.ui.client THEN Fault(v, "NotReady")
                    ELSE None
           owner == RelicOwner(v, v.before)
           q == IF v.owner # None /\ v.owner # owner THEN ClearOwner(v) ELSE v
           open == v.sample.movie # 0
       IN IF fault # None THEN v' = Lost(v, fault) /\ pc' = "commit"
          ELSE /\ v' = [q EXCEPT !.owner = owner, !.picker = IF open THEN None ELSE Closed]
               /\ pc' = IF open THEN "choices" ELSE "loginAfter"
    /\ UNCHANGED <<game, fresh, topic>>

\* What the reward vector holds: the choices of this mission, picker and account.
RewardVector == [account |-> game.account, rules |-> game.rules, movie |-> game.movie]

\* read_choices
ReadChoices ==
    /\ pc = "choices"
    /\ \E bad \in Failures, kind \in Kinds \cup {None} :
          LET result == EnsureAll(v.checks, <<"strings", "items">>, bad)
              fault == IF result.left > 0 THEN [kind |-> "Broken", left |-> result.left]
                       ELSE IF v.before.rules = 0 THEN Fault(v, "NotReady")
                       ELSE IF kind # None THEN Fault(v, kind)
                       ELSE None
          IN v' = [v EXCEPT !.checks = result.checks, !.fault = fault,
                            !.picker = IF fault = None THEN RewardVector ELSE None]
    /\ pc' = "recheck"
    /\ UNCHANGED <<game, fresh, topic>>

ScreensKept == v.sample = ScreenSample

\* recheck_screens
Recheck ==
    /\ pc = "recheck" /\ ScreensKept
    /\ pc' = "loginAfter"
    /\ UNCHANGED <<game, fresh, v, topic>>

\* The screens changed, or a read failed after the choices were read.
OwnerLost(kind) ==
    /\ pc \in {"recheck", "loginAfter", "worldAfter"}
    /\ v' = Lost(v, Fault(v, kind))
    /\ pc' = "commit"
    /\ UNCHANGED <<game, fresh, topic>>

LoginAfter ==
    /\ pc = "loginAfter" /\ game.account # 0
    /\ v' = [v EXCEPT !.after = [account |-> game.account]]
    /\ pc' = "worldAfter"
    /\ UNCHANGED <<game, fresh, topic>>

\* Mutant: only the login is compared.
LoginKept(q) == q.after.account = q.owner.account

\* The second resolve_owner.
OwnerKept(q) == RelicOwner(q, World(q.after.account)) = q.owner

Relic(picker) == [owner |-> v.owner, movie |-> v.sample.movie, picker |-> picker]

WorldAfter ==
    /\ pc = "worldAfter"
    /\ v' = IF ~OwnerKept(v) THEN Lost(v, Fault(v, "NotReady"))
            ELSE IF v.fault # None THEN RelicUnavailable(v, v.fault)
            ELSE [v EXCEPT !.delay = 0, !.out["relic"] = Relic(v.picker)]
    /\ pc' = "commit"
    /\ UNCHANGED <<game, fresh, topic>>

\* The sink refuses the picker.
RelicRefused ==
    /\ pc = "worldAfter" /\ OwnerKept(v) /\ v.fault = None
    /\ v' = [v EXCEPT !.delay = 0]
    /\ pc' = "failed"
    /\ UNCHANGED <<game, fresh, topic>>

-----------------------------------------------------------------------------
(* The host commits or discards the batch. *)

OwnerOf(t) == IF t = "screens" THEN v.out[t] ELSE v.out[t].owner

\* commit_poll accepts: resets begin a lifetime, data belongs to it.
Accepted ==
    /\ pc = "commit" /\ ~v.twice
    /\ \A t \in v.plan : ~topic[t].fenced
    /\ topic' = [t \in Consumers |->
          LET old == IF t \in v.resets THEN {} ELSE topic[t].owners
              data == v.out[t] \notin {None, Failed}
          IN [topic[t] EXCEPT
                !.owners = IF data THEN old \cup {OwnerOf(t)} ELSE old,
                !.told = v.out[t] # None \/ (@ /\ t \notin v.resets),
                !.shown = data \/ (@ /\ v.out[t] = None /\ t \notin v.resets)]]
    /\ v' = EndPoll(Completed(v, TRUE))
    /\ pc' = "idle"
    /\ UNCHANGED <<game, fresh>>

KeepReset(t) == t \in v.resets /\ topic[t].demanded /\ ~topic[t].renewed

\* discard_poll: the data is dropped, a reset is not.  A poll that failed, unlike
\* one that was fenced off, also takes down what is shown.
Discarded(failed) ==
    /\ pc = "commit" \/ (pc = "failed" /\ failed)
    /\ topic' = [t \in Consumers |->
          IF KeepReset(t)
          THEN [topic[t] EXCEPT !.owners = {}, !.new = TRUE, !.shown = FALSE, !.told = FALSE]
          ELSE [topic[t] EXCEPT !.told = @ /\ t \notin v.plan,
                                !.shown = @ /\ ~(failed /\ t \in v.plan /\ ~topic[t].fenced)]]
    /\ v' = EndPoll(Completed(v, FALSE))
    /\ pc' = "idle"
    /\ UNCHANGED <<game, fresh>>

Next ==
    \/ \E part \in Moving : GameBegins(part) \/ GameEnds(part)
    \/ Tick
    \/ \E t \in Consumers : ChangeDemand(t) \/ Expire(t)
    \/ StartPoll \/ ReadLogin \/ ReadWorld \/ ReadScreens \/ ScreensRefused
    \/ RelicBefore \/ ReadChoices \/ Recheck \/ LoginAfter \/ WorldAfter \/ RelicRefused
    \/ \E kind \in Kinds : NoOwner(kind) \/ NoScreens(kind) \/ OwnerLost(kind)
    \/ Accepted
    \/ \E failed \in BOOLEAN : Discarded(failed)

Spec == Init /\ [][Next]_vars

-----------------------------------------------------------------------------
(* Properties. *)

\* Shape of the session: the source has a deadline exactly while it has a
\* consumer, and no deadline or delay passes its longest interval.
TypeOK ==
    /\ v.plan \subseteq Consumers
    /\ v.next = None <=> v.plan = {}
    /\ v.owner # None => "relic" \in v.plan
    /\ v.delay \in 0..ReadRetry
    /\ v.retry \in 0..Larger(ReadRetry, ValidationRetry)
    /\ v.next # None => v.next \in 0..Larger(ScreensInterval, Larger(ReadRetry, ValidationRetry))

\* poll, poll_relic, discard_poll: whatever logins, missions, clients and refused
\* polls come between, all that a topic publishes in one lifetime has one owner.
OneOwner == \A t \in Consumers : Cardinality(topic[t].owners) <= 1

\* batch.rs refuses a second reset of a topic in one poll: clear_owner asks once.
OneReset == ~v.twice

\* recheck_screens and the second resolve_owner: published choices are those of
\* the picker, mission and account they are published for, read while all three
\* were there.
WholePicker ==
    "relic" \in v.plan =>
      LET relic == v.out["relic"]
      IN relic \notin {None, Failed} /\ relic.picker # Closed =>
           relic.picker = [account |-> relic.owner.account, rules |-> relic.owner.rules,
                           movie |-> relic.movie]

\* A poll that ends has moved the deadline of the source: the session does not spin.
NeverBusy == pc = "commit" => ~Due(v)

\* wake, poll_completed: a topic that began a lifetime, was reset or lost a poll
\* to a refusal is told its state by the next sample, whatever its own backoff.
\* That sample is the poll itself, or at most one interval away if the other
\* consumer left and the deadline was computed anew.
NothingLost ==
    pc = "commit" => \A t \in v.plan :
        \/ v.out[t] # None \/ topic[t].told \/ topic[t].fenced
        \/ v.next <= Interval(v.plan) /\ (t = "relic" => v.retry = 0)
=============================================================================
