--------------------------- MODULE AccountSession ---------------------------
(***************************************************************************)
(* session/polling.rs, profile_data.rs and validation.rs of the Warframe   *)
(* provider: one WarframeSession polled by the host for the topics that    *)
(* belong to the logged-in account.  The game logs in and out and replaces *)
(* profile data between any two reads of a poll; the service may refuse    *)
(* what a poll publishes.                                                  *)
(*                                                                         *)
(* Deadlines are kept as the time left, so that the clock needs no bound;  *)
(* an account or profile-data identity is a number that is never reused.   *)
(* A sample is tagged with the owner the game had when it was read.        *)
(***************************************************************************)
EXTENDS CachedChecks, FiniteSets

CONSTANTS
    Topics,          \* a subset of AccountTopics
    None, Failed,    \* no value, and an unavailable one
    Sample,          \* SAMPLE_INTERVAL
    ChatInterval,    \* CHAT_INTERVAL
    ChatBacklog,     \* CHAT_BACKLOG_INTERVAL
    MaxIdentity      \* bound: account and profile-data identities

\* account_topics
AccountTopics ==
    {"inventory", "currencies", "player", "chat", "mastery", "intrinsics", "star_chart"}

BoundsAssumption ==
    /\ Topics \subseteq AccountTopics
    /\ {Sample, ChatInterval, ChatBacklog} \subseteq Nat \ {0}
    /\ MaxIdentity \in Nat

VARIABLES
    game,    \* the login and profile-data identities of the game, 0 for none
    fresh,   \* the last identity used
    s,       \* the WarframeSession, the batch and the locals of a poll
    pc,      \* where the poll is
    topic    \* the service's side: demand and lifetime of each topic

vars == <<game, fresh, s, pc, topic>>

DataTopics == Topics \ {"player"}
Owner(g) == [account |-> g.account, data |-> g.data]
OwnerOf(t, g) == IF t = "player" THEN [account |-> g.account, data |-> 0] ELSE Owner(g)

\* The shared layouts a topic's own layout rests on, in the order they are tried.
Shared(t) ==
    CASE t \in {"inventory", "mastery"} ->
            <<"string pool", "item types", "profile commit", "inventory ownership">>
      [] t = "intrinsics" -> <<"profile commit">>
      [] t = "star_chart" -> <<"profile commit", "string pool">>
      [] OTHER -> <<>>

Requires(t) == Append(Shared(t), t)

Checks == {"executable", "account identity", "profile data"} \cup Topics
            \cup UNION {Range(Shared(t)) : t \in Topics}

\* The order in which acquire samples and publishes.
SampleOrder == [inventory |-> 1, currencies |-> 2, mastery |-> 3, intrinsics |-> 4,
                star_chart |-> 5, player |-> 6, chat |-> 7]
First(ts) == CHOOSE t \in ts : \A u \in ts : SampleOrder[t] <= SampleOrder[u]

-----------------------------------------------------------------------------
(* Helpers of polling.rs on the session record. *)

Due(q, t) == q.topic[t].demanded /\ q.topic[t].left = 0
Demanded(q, ts) == {t \in ts : q.topic[t].demanded}

\* unavailable: health for the batch, and the deadline of the retry.
Unavailable(q, ts, left) ==
    [q EXCEPT !.topic = [t \in Topics |-> IF t \in Demanded(q, ts)
                                          THEN [q.topic[t] EXCEPT !.left = left]
                                          ELSE q.topic[t]],
              !.out = [t \in Topics |-> IF t \in Demanded(q, ts) THEN Failed
                                        ELSE q.out[t]]]

\* events.reset for every demanded topic of a group; the batch refuses a second one.
ResetTopics(q, ts) ==
    [q EXCEPT !.topic = [t \in Topics |-> IF t \in Demanded(q, ts)
                                          THEN [q.topic[t] EXCEPT !.left = 0]
                                          ELSE q.topic[t]],
              !.resets = @ \cup Demanded(q, ts),
              !.twice = @ \/ Demanded(q, ts) \cap q.resets # {},
              !.out = [t \in Topics |-> IF t \in Demanded(q, ts) THEN None ELSE q.out[t]]]

ForgetChat(q) == [q EXCEPT !.pending = None, !.staged = FALSE]

ResetAccount(q) == ResetTopics([ForgetChat(q) EXCEPT !.data = None], Topics)

ClearLogin(q) ==
    IF q.login = 0 THEN q ELSE ResetAccount([q EXCEPT !.login = 0])

ClearProfileData(q) ==
    IF q.data = None THEN q
    ELSE IF q.dataReset THEN [ForgetChat(q) EXCEPT !.data = None]
    ELSE ResetTopics([ForgetChat(q) EXCEPT !.data = None, !.dataReset = TRUE], DataTopics)

\* validate_profile_data
ValidateProfileData(q, bad) ==
    IF \A t \in DataTopics : ~Due(q, t) THEN q
    ELSE LET check == Ensure(q.checks["profile data"], "profile data" \in bad)
             next == [q EXCEPT !.checks["profile data"] = check]
         IN IF check.left > 0 THEN Unavailable(next, DataTopics, check.left) ELSE next

\* A topic is validated when due, after the shared layouts that it rests on.
ValidateTopic(q, t, bad) ==
    IF t \notin Topics \/ ~Due(q, t) THEN q
    ELSE LET result == EnsureAll(q.checks, Requires(t), bad)
             next == [q EXCEPT !.checks = result.checks]
         IN IF result.left > 0 THEN Unavailable(next, {t}, result.left) ELSE next

\* Mutant: only the profile data is validated after a reset.
ValidateDataOnly(q, bad) == ValidateProfileData(q, bad)

\* validate_progression_due
ValidateProgression(q, bad) ==
    LET mastery == ValidateTopic(q, "mastery", bad)
        intrinsics == ValidateTopic(mastery, "intrinsics", bad)
    IN ValidateTopic(intrinsics, "star_chart", bad)

\* What validate_due does after it.
ValidateOthers(q, bad) ==
    LET currencies == ValidateTopic(q, "currencies", bad)
        player == ValidateTopic(currencies, "player", bad)
    IN ValidateTopic(player, "chat", bad)

ValidateDue(q, bad) ==
    LET data == ValidateProfileData(q, bad)
        inventory == ValidateTopic(data, "inventory", bad)
        progression == ValidateProgression(inventory, bad)
    IN ValidateOthers(progression, bad)

\* validate_due as it runs again after a reset has woken deferred topics.
Revalidate(q, bad) == ValidateDue(q, bad)

-----------------------------------------------------------------------------
NewTopic == [demanded |-> FALSE, left |-> 0]
NewService == [demanded |-> FALSE, new |-> FALSE, fenced |-> FALSE, renewed |-> FALSE,
               owners |-> {}, shown |-> FALSE]

\* WarframeSession::default, and no poll under way.
NewSession ==
    [topic |-> [t \in Topics |-> NewTopic],
     checks |-> [c \in Checks |-> Unchecked],
     login |-> 0, data |-> None, pending |-> None, staged |-> FALSE,
     out |-> [t \in Topics |-> None], resets |-> {}, twice |-> FALSE,
     before |-> 0, reset |-> FALSE, dataReset |-> FALSE, owner |-> None,
     todo |-> {}, samples |-> [t \in Topics |-> None], dataKept |-> TRUE]

\* The locals and the batch of a poll are dropped when it ends.
EndPoll(q) ==
    [q EXCEPT !.out = [t \in Topics |-> None], !.resets = {}, !.twice = FALSE,
              !.before = 0, !.reset = FALSE, !.dataReset = FALSE, !.owner = None,
              !.todo = {}, !.samples = [t \in Topics |-> None], !.dataKept = TRUE]

Init ==
    /\ game = [account |-> 0, data |-> 0] /\ fresh = 0
    /\ s = NewSession /\ pc = "idle"
    /\ topic = [t \in Topics |-> NewService]

-----------------------------------------------------------------------------
(* The game, the clock and the service. *)

Login ==
    /\ fresh < MaxIdentity
    /\ fresh' = fresh + 1
    /\ game' = [account |-> fresh + 1, data |-> 0]
    /\ UNCHANGED <<s, pc, topic>>

Logout ==
    /\ game.account # 0
    /\ game' = [account |-> 0, data |-> 0]
    /\ UNCHANGED <<fresh, s, pc, topic>>

ReplaceData ==
    /\ game.account # 0 /\ fresh < MaxIdentity
    /\ fresh' = fresh + 1
    /\ game' = [game EXCEPT !.data = fresh + 1]
    /\ UNCHANGED <<s, pc, topic>>

DropData ==
    /\ game.data # 0
    /\ game' = [game EXCEPT !.data = 0]
    /\ UNCHANGED <<fresh, s, pc, topic>>

Sooner(n) == IF n = 0 THEN 0 ELSE n - 1

Tick ==
    /\ pc = "idle"
    /\ \/ \E t \in Topics : s.topic[t].left > 0
       \/ \E c \in Checks : s.checks[c].left > 0
    /\ s' = [s EXCEPT
              !.topic = [t \in Topics |-> [s.topic[t] EXCEPT !.left = Sooner(s.topic[t].left)]],
              !.checks = [c \in Checks |->
                            [s.checks[c] EXCEPT !.left = Sooner(s.checks[c].left)]]]
    /\ UNCHANGED <<game, fresh, pc, topic>>

\* Demand ends or begins; a beginning is a new generation.
ChangeDemand(t) ==
    /\ topic' = [topic EXCEPT ![t] =
                   [demanded |-> ~@.demanded, new |-> TRUE, fenced |-> TRUE,
                    renewed |-> TRUE, owners |-> {}, shown |-> FALSE]]
    /\ UNCHANGED <<game, fresh, s, pc>>

\* A deadline passes: the epoch fences the poll, the generation stays.
Expire(t) ==
    /\ topic[t].demanded /\ topic[t].shown
    /\ topic' = [topic EXCEPT ![t].fenced = TRUE, ![t].shown = FALSE]
    /\ UNCHANGED <<game, fresh, s, pc>>

-----------------------------------------------------------------------------
(* WarframeSession::poll, one step for each read of the account roots. *)

\* begin_generation, then the demand of this poll.
Begin(q) ==
    LET wanted == {t \in Topics : topic[t].demanded}
        begun == {t \in wanted : topic[t].new}
        told == IF "chat" \in begun THEN ForgetChat(q) ELSE q
    IN [told EXCEPT !.topic =
          [t \in Topics |->
             [demanded |-> t \in wanted,
              left |-> IF t \in begun \/ (t \in wanted /\ ~q.topic[t].demanded) THEN 0
                       ELSE q.topic[t].left]]]

\* Owners are forgotten with the last consumer that needs them.
Settle(q) ==
    LET chat == IF "chat" \in Demanded(q, Topics) THEN q ELSE ForgetChat(q)
    IN [chat EXCEPT !.data = IF Demanded(q, DataTopics) = {} THEN None ELSE @,
                    !.login = IF Demanded(q, Topics) = {} THEN 0 ELSE @]

\* The executable and the account layout, then every due topic's layouts.
Ready(q, bad) ==
    LET result == EnsureAll(q.checks, <<"executable", "account identity">>, bad)
        next == [q EXCEPT !.checks = result.checks]
    IN IF result.left > 0 THEN Unavailable(next, Topics, result.left)
       ELSE ValidateDue(next, bad)

\* bound: at most one check fails at a time.
Failures == {{}} \cup {{c} : c \in Checks}

StartPoll ==
    /\ pc = "idle"
    /\ LET q == Settle(Begin(s))
       IN IF \A t \in Topics : ~Due(q, t)
          THEN s' = q /\ pc' = "commit"
          ELSE \E bad \in Failures :
                  LET ready == Ready(q, bad)
                  IN /\ s' = ready
                     /\ pc' = IF \E t \in Topics : Due(ready, t) THEN "account" ELSE "commit"
    /\ topic' = [t \in Topics |-> [topic[t] EXCEPT !.fenced = ~topic[t].demanded,
                                                   !.renewed = FALSE,
                                                   !.new = @ /\ ~topic[t].demanded]]
    /\ UNCHANGED <<game, fresh>>

\* account_before found no login, or could not read it.
NoAccount ==
    /\ pc = "account"
    /\ s' = Unavailable(ClearLogin(s), Topics, Sample)
    /\ pc' = "commit"
    /\ UNCHANGED <<game, fresh, topic>>

\* account_before found a login.
AccountBefore ==
    /\ pc = "account"
    /\ game.account # 0
    /\ \E bad \in Failures :
          LET changed == s.login # 0 /\ s.login # game.account
              q == IF changed THEN Revalidate(ResetAccount(s), bad) ELSE s
          IN s' = [q EXCEPT !.login = game.account, !.before = game.account,
                            !.reset = changed, !.dataReset = changed]
    /\ pc' = "data"
    /\ UNCHANGED <<game, fresh, topic>>

\* What there is to sample once the owner of the data is known.
Todo(q) ==
    LET data == {t \in DataTopics : q.owner # None /\ Due(q, t)}
        name == {t \in Topics \cap {"player"} : Due(q, "chat") /\ q.pending = None}
        player == {t \in Topics \cap {"player"} : Due(q, t)}
    IN data \cup player \cup (IF "chat" \in Topics THEN name ELSE {})

\* profile_data_before, when no consumer is due.
NoDataDue ==
    /\ pc = "data"
    /\ \A t \in DataTopics : ~Due(s, t)
    /\ s' = [s EXCEPT !.todo = Todo(s)]
    /\ pc' = "sample"
    /\ UNCHANGED <<game, fresh, topic>>

\* The account owns no data yet, or it could not be read.
NoData ==
    /\ pc = "data"
    /\ \E t \in DataTopics : Due(s, t)
    /\ LET q == Unavailable(ClearProfileData(s), DataTopics, Sample)
       IN s' = [q EXCEPT !.todo = Todo(q)]
    /\ pc' = "sample"
    /\ UNCHANGED <<game, fresh, topic>>

\* The data is read through the profile of the account found before.
DataBefore ==
    /\ pc = "data"
    /\ \E t \in DataTopics : Due(s, t)
    /\ game.data # 0
    /\ LET owner == [account |-> s.before, data |-> game.data]
           changed == s.data # None /\ s.data # owner
       IN \E bad \in Failures :
             LET q == IF changed THEN Revalidate(ClearProfileData(s), bad) ELSE s
                 found == [q EXCEPT !.data = owner, !.owner = owner]
             IN s' = [found EXCEPT !.todo = Todo(found)]
    /\ pc' = "sample"
    /\ UNCHANGED <<game, fresh, topic>>

\* Every read of a topic's own data; a retained chat publication reads nothing.
TakeSample ==
    /\ pc = "sample" /\ s.todo # {}
    /\ LET t == First(s.todo)
           kept == t = "chat" /\ s.pending # None
       IN \E value \in {Failed, OwnerOf(t, game)}, bad \in BOOLEAN :
             \* sample_player validates its layout even for chat alone.
             LET check == IF t = "player" THEN Ensure(s.checks[t], bad) ELSE s.checks[t]
             IN /\ kept => value # Failed
                /\ check.left > 0 => value = Failed
                /\ bad => t = "player" /\ check.left = ValidationRetry
                /\ s' = [s EXCEPT !.todo = @ \ {t}, !.checks[t] = check,
                                  !.samples[t] = IF Due(s, t) THEN value ELSE None]
    /\ UNCHANGED <<game, fresh, pc, topic>>

DataKept == s.owner # None => s.owner.data = game.data

\* resolve_profile_data again; an error counts as a change.
DataAfter ==
    /\ pc = "sample" /\ s.todo = {}
    /\ \E read \in BOOLEAN :
          s' = [s EXCEPT !.dataKept = s.owner = None \/ (read /\ DataKept)]
    /\ pc' = "accountAfter"
    /\ UNCHANGED <<game, fresh, topic>>

AccountKept == s.before = game.account

\* account_unchanged failed: nothing that was read is published.
AccountChanged ==
    /\ pc = "accountAfter"
    /\ LET q == IF s.reset THEN s
                ELSE IF s.dataReset THEN ResetTopics(s, {"player"} \cap Topics)
                ELSE ResetAccount(s)
           gone == [ForgetChat(q) EXCEPT !.login = 0, !.data = None]
       IN s' = Unavailable(gone, Topics, Sample)
    /\ pc' = "commit"
    /\ UNCHANGED <<game, fresh, topic>>

AccountAfter ==
    /\ pc = "accountAfter"
    /\ AccountKept
    /\ pc' = "publish"
    /\ UNCHANGED <<game, fresh, s, topic>>

\* snapshot: a topic that was sampled shows its value or its failure.
Shown(q, ts) == {t \in ts : q.samples[t] \notin {None, Failed}}

\* publish_chat: a chat publication is kept, or prepared from its sample, and staged.
Show(q, ts, interval) ==
    LET failed == Demanded(q, {t \in ts : q.samples[t] = Failed})
        shown == Shown(q, ts)
        pending == IF "chat" \in shown /\ q.pending = None THEN q.samples["chat"]
                   ELSE q.pending
        Left(t) == IF t = "chat" THEN interval ELSE Sample
        Value(t) == IF t = "chat" THEN pending ELSE q.samples[t]
    IN [q EXCEPT
          !.pending = pending,
          !.staged = q.staged \/ "chat" \in shown,
          !.out = [t \in Topics |-> IF t \in shown THEN Value(t)
                                    ELSE IF t \in failed THEN Failed ELSE q.out[t]],
          !.topic = [t \in Topics |->
                       IF t \in shown THEN [q.topic[t] EXCEPT !.left = Left(t)]
                       ELSE IF t \in failed THEN [q.topic[t] EXCEPT !.left = Sample]
                       ELSE q.topic[t]]]

\* The player is published first, then the topics of profile data in order.
PlayerFirst == {"player"} \cap Topics

\* The publications of acquire.
Publish ==
    /\ pc = "publish"
    /\ IF s.dataKept
       THEN \E interval \in {ChatInterval, ChatBacklog} : s' = Show(s, Topics, interval)
       ELSE s' = Unavailable(ClearProfileData(Show(s, PlayerFirst, Sample)), DataTopics, Sample)
    /\ pc' = "commit"
    /\ UNCHANGED <<game, fresh, topic>>

\* Those published before t.
Before(t) ==
    IF t = "player" THEN {}
    ELSE PlayerFirst \cup {u \in DataTopics : SampleOrder[u] < SampleOrder[t]}

\* A sink refuses one publication: those before it have moved their deadlines.
PublishFails ==
    /\ pc = "publish" /\ s.dataKept
    /\ \E t \in Shown(s, Topics) :
          LET q == Show(s, Before(t), ChatInterval)
              staged == Show(q, {t}, ChatInterval)
          IN s' = IF t = "chat" THEN [staged EXCEPT !.topic = q.topic] ELSE q
    /\ pc' = "failed"
    /\ UNCHANGED <<game, fresh, topic>>

-----------------------------------------------------------------------------
(* The host commits or discards the batch. *)

Ticket == {t \in Topics : s.topic[t].demanded}
Fenced == \E t \in Ticket : topic[t].fenced

\* poll_completed
Completed(q, committed) ==
    IF ~q.staged THEN q
    ELSE IF committed THEN [q EXCEPT !.staged = FALSE, !.pending = None]
    ELSE [q EXCEPT !.staged = FALSE, !.topic["chat"].left = 0]

\* commit_poll accepts: resets begin a lifetime, data belongs to it.
Accepted ==
    /\ pc = "commit" /\ ~Fenced /\ ~s.twice
    /\ topic' = [t \in Topics |->
          LET old == IF t \in s.resets THEN {} ELSE topic[t].owners
              data == s.out[t] \notin {None, Failed}
          IN [topic[t] EXCEPT
                !.owners = IF data THEN old \cup {s.out[t]} ELSE old,
                !.shown = data \/ (@ /\ s.out[t] = None /\ t \notin s.resets)]]
    /\ s' = EndPoll(Completed(s, TRUE))
    /\ pc' = "idle"
    /\ UNCHANGED <<game, fresh>>

KeepReset(t) == t \in s.resets /\ topic[t].demanded /\ ~topic[t].renewed

\* discard_poll: the data is dropped, a reset is not.  A poll that failed, unlike
\* one that was fenced off, also takes down what is shown.
Discarded(failed) ==
    /\ pc = "commit" \/ (pc = "failed" /\ failed)
    /\ topic' = [t \in Topics |->
          IF KeepReset(t)
          THEN [topic[t] EXCEPT !.owners = {}, !.new = TRUE, !.shown = FALSE]
          ELSE [topic[t] EXCEPT !.shown =
                  @ /\ ~(failed /\ t \in Ticket /\ ~topic[t].fenced)]]
    /\ s' = EndPoll(Completed(s, FALSE))
    /\ pc' = "idle"
    /\ UNCHANGED <<game, fresh>>

Next ==
    \/ Login \/ Logout \/ ReplaceData \/ DropData \/ Tick
    \/ \E t \in Topics : ChangeDemand(t) \/ Expire(t)
    \/ StartPoll \/ NoAccount \/ AccountBefore
    \/ NoDataDue \/ NoData \/ DataBefore
    \/ TakeSample \/ DataAfter \/ AccountChanged \/ AccountAfter
    \/ Publish \/ PublishFails \/ Accepted
    \/ \E failed \in BOOLEAN : Discarded(failed)

Spec == Init /\ [][Next]_vars

-----------------------------------------------------------------------------
(* Properties. *)

Owners == [account : 1..MaxIdentity, data : 0..MaxIdentity]

\* Shape of the session: owners are real, a deadline is within its interval.
TypeOK ==
    /\ s.login \in 0..MaxIdentity
    /\ s.data = None \/ s.data \in Owners
    /\ s.pending = None \/ s.pending \in Owners
    /\ \A c \in Checks : s.checks[c].left > 0 => s.checks[c].status = "Failed"
    /\ s.staged => s.pending # None /\ pc \in {"commit", "failed"}

\* reset_account, account_unchanged, discard_poll: whatever logins, replacements
\* and refused polls come between, all that a topic publishes in one lifetime
\* belongs to one owner.
OneOwner == \A t \in Topics : Cardinality(topic[t].owners) <= 1

\* batch.rs refuses a second reset of a topic in one poll: acquire never asks.
OneReset == ~s.twice

\* A poll that succeeds leaves no demanded topic due: the session does not spin.
NeverBusy == pc = "commit" => \A t \in Topics : ~Due(s, t)

\* A topic is read only through layouts that passed, also when a reset within the
\* poll woke it.
ValidatedFirst ==
    \A t \in s.todo : Due(s, t) =>
        /\ \A c \in Range(Requires(t)) : s.checks[c].status = "Passed"
        /\ t # "player" => s.checks["profile data"].status = "Passed"

\* A reset topic is told its new state in the same poll: it does not stay
\* Initializing until the next deadline.
ResetIsSettled == pc = "commit" => \A t \in s.resets : s.out[t] # None

\* A chat publication kept for a retry belongs to the present login and data.
PendingOwned ==
    s.pending # None =>
        /\ s.data # None /\ s.data.account = s.login
        /\ s.pending = s.data

\* Another topic's poll never brings a failed check forward.
RetryKept ==
    \A c \in Checks : s.checks[c].left > 0 =>
        s'.checks[c] = s.checks[c] \/ (Tick /\ s'.checks[c].left = s.checks[c].left - 1)
=============================================================================
