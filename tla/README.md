# wf-observer: TLA+ models, checks and proofs

wf-observer is a local agent that watches game processes (Warframe), samples
their memory through a provider, and publishes typed topics (inventory, chat,
relic rewards, ...) to SDK clients over RPC streams. This directory holds
specifications of the agent, of its provider and of its SDK, the instances TLC
checks, and proofs. `PROJECT.json` maps every definition to the lines it models
and lists the hazards of the code with the properties that cover them.

## 1. Inventory

Paths are under `src/crates`: `cli` is `wf-observer-cli/src`, `sdk` is
`wf-observer-sdk/src`, `wf` is `games/warframe/provider/src`.

| Part | State it keeps | Operations | Modules |
|---|---|---|---|
| Service: `cli/service/{state,inner}.rs` | sessions; per topic demand, epoch, generation, health, snapshot, deadline; one sequence; `stopped`, `revision` | `update_lifecycle`, `settle`, `expire`, `emit`, `close`, `wait`, `snapshot`, `status` | `Inner`, `Service`, `Host`, `Queries` |
| Subscriptions: `cli/service/{subscriptions,queue}.rs` | registry, one bounded queue per stream | `subscribe`, `next`, drop, `offer`, `finish`, `pop`, `discard` | `Inner`, `Service`, `Stream` |
| Publication: `cli/service/{publication,batch}.rs` | tickets, staged batches | `ticket`, `commit_poll`, `discard_poll`, `fail_poll` | `Publication`, `Service` |
| Worker: `cli/lifecycle/worker.rs` | tracked targets, retry and discovery times | `step`, `run`, `publish` | `Lifecycle`, `Service` |
| Provider host: `cli/provider_host/session.rs` | `last_demand`, `generations`, `next_poll` | `poll`, `rebase_resets` | `Host`, `Service` |
| Delivery: `cli/transport/delivery.rs`, `sdk/subscription/reader.rs` | baselines and acknowledgements of both sides | encode, ack, reconstruct, resync | `StreamItems`, `PlainStream`, `Delivery` |
| Admission: `cli/transport/{connection,requests,server}.rs` | connection, request and subscription permits, stream credit | accept, serve, open, drop, shutdown | `Admission` |
| Agent: `cli/{agent,launch,application,singleton,startup}.rs`, `cli/runtime/*` | two locks, runtime record, shutdown request | start, stop, access, status, serve, die | `Agent` |
| Settings and approvals: `cli/{settings,authorization,launch}.rs` | two files | load, change, save, apply | `Access` |
| Identity: `cli/identity.rs`, `sdk/identity.rs` | one file | `load_or_create` | `Identity` |
| SDK stream: `sdk/subscription/{validation,feed,reader}.rs` | seen sessions and topics, cursor, cache | `accept`, `receive_once` | `Validation`, `Stream` |
| SDK sharing: `sdk/subscription/{manager,listener,feed}.rs` | shared feeds, listener queues | subscribe, attach, publish, finish, detach, close | `SharedFeeds` |
| SDK watches: `sdk/{watch,capability}.rs`, `sdk/api/*` | decoded cache, pending calls | `next`, `shutdown`, `read`, cancellation | `Watch` |
| SDK client: `sdk/{client,local}.rs`, `sdk/api/{client,warframe}.rs` | endpoint, closed flag, chosen session | connect, requests, close | `Queries` |
| Provider session: `wf/session/{polling,profile_data,validation}.rs` | owner, cached checks, deadlines, pending chat | `poll`, `begin_generation`, `poll_completed` | `CachedChecks`, `AccountSession`, `AccountRecovery` |
| Screens: `wf/session/{visual,screen_demand}.rs`, `wf/world.rs` | shared source, owner, deadlines | `poll`, `clear_owner`, `recheck_screens` | `Visual`, `World` |
| Account roots: `wf/roots/resolve.rs` | none | `resolve_account`, `resolve_profile_data` | `Roots` |
| Chat: `wf/topics/chat/*` | history, cursor, pending publication | read, deliver, retry, clear | `Chat`, `ChatWalk`, `ChatMessages` |
| Profile topics: `wf/topics/{inventory,mastery,intrinsics,star_chart,currencies}` | item path cache | acquire, decode | `ProfileReads`, `Records` |
| Screen topics: `wf/topics/{screens,relic_rewards}` | none | acquire | `ScreenReads`, `RelicRewards` |
| Strings: `wf/{native_string,string_pool}` | token cache | read, resolve | `NativeStrings`, `StringPool` |
| Memory: `memory-reader`, `provider-sdk/src/memory` | attachment, budgets | discover, attach, verify, read | `Attachment`, `Reader` |
| Layout checks, payload models, bindings, `xtask`, examples | tables | | not modelled |

**How they interact.** A worker thread runs the lifecycle: it discovers games,
attaches to them, publishes the host's status, and polls each attachment. A poll
takes a *ticket* (the epochs and generations of the demanded topics) under the
service's lock, releases it, lets the provider sample into a batch, and takes
the lock again to commit; a refused commit takes it a third time to discard.
The provider reads another program's memory, word by word, while that program
writes. Meanwhile RPC tasks subscribe, read queues and drop streams, a task
expires topics, and commands of other processes start, stop and reconfigure the
agent through files and locks. In the client, one task per feed reads a stream
and hands its states and events to the listeners of any number of watches.

**What is hard here.** Everything a poll uses is stale by the time it is used:
its ticket, its owner, the pointers it walked. Number spaces run out in the
middle of a handler. Queues overflow and must still end as valid streams. Two
ends of a stream must agree on a baseline without a round trip. Listeners attach
while the last one detaches. Any process may be killed between two writes to
files. A game cannot be stopped to be read.

**What makes it correct.** Data is shown only while demanded and fresh, and never
that of another owner or source; what is published was true at some moment; a
client's state converges to the service's; nobody waits for what already
happened; numbers, permits, processes and demands that are taken are given back.

## 2. Modules

The core, and how it is composed:

| Module | Models |
|---|---|
| `Inner`, `Publication` | the record behind the service's mutex and its methods, as operators from record to record |
| `Service` | the state machine over that record: worker, requests, expiry, shutdown |
| `Validation`, `Stream` | the SDK's `Validation` and cache as operators; `Stream` composes `Service` with one client per stream |
| `Host` | a hosted session's poll, step by step, against a service reduced to demand, generations, epochs and the wake-up revision |
| `Lifecycle` | the worker's loop: discovery, attachment, retirement, publishing to the service and to the file |
| `StreamItems`, `PlainStream`, `Delivery` | `PlainStream` is what delivery promises: items arrive complete, once, in order. `Delivery` is the code: patches, baselines, acknowledgements. It implements the first through `Plain == INSTANCE PlainStream WITH ...`, whose pipe is what the frames under way stand for |
| `SharedFeeds` | feeds, listeners, subscribe calls and close, one action per critical section |
| `Watch`, `Queries` | the callers' side: watches and one-shot requests |
| `Admission`, `Agent`, `Access`, `Identity` | permits; processes, locks and files |

The provider. All of these run against a game that changes between any two
reads, and compare what is published with what the game was:

| Module | Models |
|---|---|
| `CachedChecks` | a check whose failure is kept until its retry, extended by `AccountSession` |
| `AccountSession`, `AccountRecovery` | a poll of the account's topics from demand to `poll_completed`; the second adds a calm after which recovery is timed |
| `Visual`, `World` | a poll of the screen topics; the pointer walk that names the owner of rewards |
| `Roots` | the two pointer walks that name account and profile data, one action per read |
| `Chat`, `ChatWalk`, `ChatMessages` | cursor and retries; the walk over the game's linked list; attribution of a message |
| `ProfileReads`, `Records` | the order of reads of five topics; the decoding of the vectors |
| `ScreenReads`, `RelicRewards`, `NativeStrings`, `StringPool` | one acquisition each |
| `Attachment`, `Reader` | which process is read, and which bytes |

`Service` and `Stream` are checked as they are, with the constants of their `.cfg`
files. `MCClient`, `MCAgent`, `MCSessions`, `MCMemory` and `MCLiveness` compose the other modules: a
behaviour is one of a single *part*, chosen by the variable `part` in the initial
state from the constant `Parts`, and a module checked with several bounds is there
several times. `MCClient`, `MCAgent` and `MCMemory` extend `Delivery`, `Host` and
`Reader`, so that the properties of these are the very definitions their theorems state.
The properties of these runs are conjunctions, one conjunct per part, of the properties
that the component modules define. The proofs are in
`ServiceProofs`, `FenceProofs`, `QueueProofs`, `HostProofs`, `DeliveryProofs`,
`AccessProofs`, `ReaderProofs` and, being short, at the end of `Identity`.

An action is one critical section, one file operation, one message or one read of
the game's memory, whichever the part is made of. What a handler does without
letting go of its lock is one action, trailing calls included: `Subscribe` of
`Service` expires, validates, registers, settles, captures and queues. What a
handler does after an `await`, an unlock or another read is another action.

History variables (`crossed`, `views`, `names`, `delivered`, `occurred`,
`expected`, ...) record what happened; no guard reads them, except that some bound
the search. Definitions named after a change of another (`SwitchSameEpoch`,
`DropNone`, ...) are deliberately wrong versions of it, used by no action: with one
in the place of the original its property fails, which shows that the property
depends on the code it speaks about.

### Abstractions

- **Data.** Payloads, builds, reasons, names and keys are model values or small
  numbers. A queued frame has size 1, so budgets count frames.
- **Numbers.** `MaxSequence`, `MaxEpoch`, `MaxGeneration` of `Service` stand for
  `u64::MAX` and close the service as the code does. Elsewhere counters named
  `Max...` bound the search: how often the game, a user or a peer changes
  something, or how many identities there are. Widths in `Reader` and `Records`
  are scaled down so that sums wrap.
- **Time.** In `Service` an armed deadline may be found passed at any moment, which
  covers every timing. Where retry times matter (`AccountSession`, `Visual`,
  `Lifecycle`) a deadline is the time left until it, so the clock needs no bound.
- **Identities** (processes, logins, profile data, objects of `World`) are never
  reused except where reuse is the question: pids in `Attachment`, nodes in
  `ChatWalk`, buffers in `NativeStrings`, addresses of channels in `Chat`, addresses
  in `Watch`, session ids of another run in `Queries`. A list node that is used again
  differs from the old entry in its link or its contents, since the cursor compares
  both; the same message, in the same second, at the same place is the same to it.
- **Interfaces.** A module that stands for one side reduces the other to what it
  can do: `Host`, `AccountSession` and `Visual` have a service that changes demand
  and refuses polls as `Service` may, `Watch` has a listener that behaves as in
  `SharedFeeds`, `Chat` takes a history as a value, which `ChatWalk` justifies,
  `AccountSession` and `Visual` take an owner as a value, which `Roots` and `World`
  justify, and `Agent` takes a policy as a value, which `Access` unfolds.
- **The game** is external. What the code relies on, and the models assume of it,
  is stated at the top of each module: a rebuild of the profile raises
  `force_update` before its first write and changes the synchronization tokens
  after its last one; the mastery calculation works under a dirty flag; a protected
  word is two stores with a check between them. `coherence.rs` says that agreement of
  two reads does not exclude values that change and change back between them, so the
  models assume that there are none: in `Roots` no cell, and no account ID that a
  profile shows, is again within one resolution what it was before.

## 3. Runs

Every run finishes within five minutes with two workers. Bounds are in the `.cfg`
files and, for the parts of a composition, in its `INSTANCE ... WITH` definitions.

| Run | Question and properties | Bounds, and why they suffice |
|---|---|---|
| `service_contention` | two streams compete for a topic: well-typed numbers (`TypeOK`), exact demand (`DemandExact`), told readers (`NoStrandedReader`), an empty service after a stop (`StoppedHoldsNothing`), resets that survive a refused poll (`ResetsSurvive`), numbers that only grow (`FencesMonotone`) | one ticket is crossed by two demand changes, an expiry and a reset: epochs up to 3; every counter is exhausted |
| `service_topics` | a snapshot and an event topic in one ticket, of which a part may be fenced: `Freshness`, `NoLateOutput` | two topics, one push each |
| `service_sessions` | two sessions share the budgets: `WithinBudgets` | queues overflow inside `settle`; snapshots exceed the retained budget by one |
| `stream_one`, `stream_two`, `stream_liveness` | streams are valid (`SdkAccepts`, `ClosesProperly`), converge (`CatchesUp`), and end (`ForgottenIsTold`, `InitializingEnds`) | queues of three frames, overflown by one batch; two streams read at different speeds |
| `client` | deltas always apply (`DeltasApply`) and delivery is a plain stream (`ImplementsPlainStream`); what listeners, watches and queries are told is true (`ToldIsTrue`); ends are reported and release what they held (`EndsAreReported`); close is final (`NothingAfterClose`) | delivery: a baseline, its replacement, a late ACK and a reset, with payloads that collide under `MCHash`; feeds: the last listener and the next one, each part with the faults it is about; watches: two calls, addresses reused within three states; queries: two runs and two ids, so that an id comes again |
| `agent` | the provider's idea of lifetimes is the service's (`BaselineCurrent`, `NeverBegunTwice`); no demand change is slept through (`NoSleepThroughDemand`, `SettledBeforeSleep`); commands did what they say (`CommandsTookEffect`); permits are conserved (`LimitsKept`); what was not understood is kept (`NeverOverwritten`) | host: two topics, one resets while the other lapses; two terminals and two or three agents: one dying, one starting, one to retry with; three processes for an identity: a writer, a loser, one that comes later; limits of two or three, reached by one peer and by all together |
| `admission_scopes` | violation, see Findings | the default limits |
| `sessions` | data of one owner only (`OneOwner`), resets (`ResetsAreSafe`), no busy loop and no forgotten topic (`NothingForgotten`), chat order (`ChatInOrder`), kept retries (`RetryKept`) | three identities: an owner, its successor, and one during the recheck; chat: four messages over three retained, two instances of a channel at one address or at two, two channels in one publication |
| `memory` | what an acquisition accepts was true at a moment (`AcceptedWasTrue`), decoding, mapped pages and caches (`DecodedExactly`), ranges and budgets of the reader (`WithinLimits`), reported causes (`CauseIsTrue`) | profile data: three to five writes in one read, more than one rebuild; screens, choices and names: two to six; `Roots`: two changes of the owner, the vector, the profiles, the account ID or the data, at any point of the two walks, so that both meet memory that moves (the cells of a part are its `Moving`, the others stand still); three list nodes, so that a freed one is used again; three reward records of which two qualify; the pid changes hands three times; addresses of three bits and counts of two, so that sums wrap |
| `liveness` | demand is served (`DemandIsServed`), calls return (`CallsReturn`), stops end (`StopsEnd`) | as above, without symmetry |

Among the conjuncts are `ListenersMirrorFeed`, `NoOrphanedListener`, `EventsAccounted`,
`SnapshotIsTheSessions` (client), `Discoverable`, `AppliedOnReturn`, `NoLostChange`,
`OneIdentity` (agent), `SnapshotWasTrue`, `HistoryWasTrue`, `FoundWasThere` (memory):
each has its own comment where it is defined.

**Symmetry** is declared only for interchangeable values and never in a run with a
temporal property of liveness.

**Deadlock** is checked wherever the system cannot stop. `CHECK_DEADLOCK FALSE` is
set where it may: a stream, a client or a server that was closed, a worker that
ended, one acquisition that is over, or a search bound that is used up.

**Fairness.** Nothing is assumed of games, users, peers or subscribers. Assumed are:
tokio tasks that are ready run (streams, feeds, listeners, calls, the tasks of a
connection); an aborted task ends; timeouts fire; OS threads and processes that are
not blocked are scheduled; the worker's bounded wait ends; the maintenance task of
`application.rs` finds a deadline that stays passed. All of this is weak fairness
per task. `Chat` alone uses strong fairness: polls of chat recur although other
polls come between, and the service does not refuse every one of them.
That a demand change is polled (`Demand ~> DemandServed` for the part `host`)
assumes neither timeouts nor deadlines: the wake-up alone does it. The fairness of
the streams is stated in `FairStreamSpec` of `Stream`, that of the others in the
components and collected in `MCLiveness`.

### Findings

- `admission_scopes` (violation of `ScopesFit`): `SubscriptionLimits::default` allows
  16 streams per connection. The comment above it says that this allows four
  complete Warframe session scopes at one stream per topic; a session has nine
  topics, so the limit is below two scopes.

### Observations

Worth knowing:

- The comment on `SnapshotWatch::shutdown` says it waits for pending receives to
  finish. A receive gives its lock back with its item in hand and decodes afterwards,
  so shutdown may return before the call that decodes has returned; no state of the
  watch is touched by it any more.
- A cancelled `next` of the exported API may lose the item its task had taken, one per
  cancellation (`EventsAccounted` says so). The raw SDK loses none.
- When the other consumer of the screen source leaves in the same poll, the deadline
  is computed anew and a wake-up waits for at most one interval (`NothingLost`).
- Two mastery recalculations within one read could agree on partial sums;
  `MaxRecalculations` is 1. Four flag changes within one double read of the screens
  could agree on a picture that never was; `MaxWrites` is 3. `coherence.rs` concedes
  the latter kind.
- Two walks of `Roots` that agree show that the profile they name was selected at the
  moment between them (`FoundWasThere`), not that it was the only one: a second profile
  that the first walk passed while it was vacant, that is filled before that walk ends
  and deselected before the next one reaches it, was selected beside it for a moment.
  No cell changes back in this. `NoRival` says what holds: a profile that is selected
  throughout one of the walks, in a vector that holds still, makes it ambiguous.
- A chat conversation has no position until an entry of it was seen. What the game
  writes to a channel that was baselined empty, or was not there, and trims before the
  next accepted publication is lost without a `Gap`; `NothingSkipped` states this
  exception. `Gap` is documented for a tracked channel that lost its prior position,
  which this is not. A channel that is closed takes its unread messages with it, and
  one that is recreated at the address of an empty one continues its conversation.
- An edit of the allowlist by hand between a command's load and its save is
  overwritten; commands among themselves hold a lock (`NoLostChange`).
- Some checks are redundant with each other: in `RelicRewards` the second read of the
  payload and `read_stable`; in `Queries` the run check and the comparison of the
  answer's source. Removing one of a pair violates nothing.

## 4. Proofs

Each theorem holds for every value of the constants that satisfies the named
assumptions of the modules. `ConstantsAssumption` and `EndsAssumption` of `Inner`:
sessions and topics are finite sets of numbers, limits are numbers, and the values that
stand for an absent payload, an absent end or "keep" differ from all others.
`PushesAssumption` of `Publication`: a batch makes at least one and at most three pushes
per topic, the lengths the model enumerates. `EnumerationAssumption` of `Service` and
`BoundsAssumption` of `Host` are types; `TicketAssumption` of `Host` and
`DeltaAssumption` of `Delivery` say that the value for "none" is no ticket and no
snapshot. The modules that are only instantiated (`Identity`, `Access`, `Lifecycle`,
`Attachment`, `Queries`, `Watch`, `SharedFeeds`) and `Reader` have their assumptions as
definitions, which the theorems name as hypotheses and the assumptions of the composing
modules check. Besides types they say:

- the values that stand for an absent target, feed or body differ from what they could
  be confused with (`LifecycleAssumption`, `SharedAssumption`, `WatchAssumption`);
- there is at least one address for an `Arc`, since a watch starts with a state
  (`WatchAssumption`), session ids are positive, since 0 is the id of none, and targets
  and processes are finitely many (`QueriesAssumption`, `LifecycleAssumption`);
- a subscribe call selects at least one topic and none twice, since
  `Manager::subscribe` sorts and deduplicates its topics and refuses an empty list
  (`SharedAssumption`).

**`ServiceProofs`** (`Spec` of `Service`)

- `TypeCorrect`: `[]TypeOK`; no counter passes its maximum.
- `FreshnessHolds`: `[]Freshness`.
- `StoppedHolds`: `[]StoppedHoldsNothing`.

None of these is inductive alone. That a commit's snapshot carries the current
generation rests on the types of the staged topic and of the ticket; that a kept
stamp is known rests on the stamps of all topics before the step; and a handler that
exhausts a number closes the service in the middle, so each part has to hold there
too. The inductive invariant `IInv` says: the record is `Good` (well typed; every
topic satisfies `FreshTopic`; a stopped service is empty; every stamp is at most the
sequence), the runtime status is typed, handles are subscription ids, and a ticket
holds typed fences. One lemma per method takes a good state to a good state, whether
it finishes or closes the service on the way; one lemma per group of actions follows,
and `NextInv` combines them.

**`FenceProofs`** extends it from states to steps.

- `FencesGrow`: `Spec => FencesMonotone`. Every method `Rises`: it takes no number,
  generation or epoch back, ends demand only with a new epoch and starts it only with
  a new generation. The relation is transitive, so it passes through every handler,
  including one that closes the service half way.
- `ResetsKept`: `Spec => ResetsSurvive`. A refused poll leaves the generation it
  sampled only if the discard ended it.
- `LateOutputRefused`: `Spec => []NoLateOutput`. The history `crossed` of a poll says
  which topics changed since its ticket. `FInv` adds `TicketFenced` to `IInv`: a
  topic whose epoch and generation are still those of the ticket has not been
  crossed. That is what makes the comparison in `commit_poll` sufficient, and the
  relations `Silent`, `Held` and `Calm` say of each method which topics it leaves
  alone.

**`QueueProofs`** is about queues and subscribers.

- `DemandHolds`: `Spec => []DemandExact`.
- `ReadersHold`: `Spec => []NoStrandedReader`.
- `BudgetsHold`: `Spec => []WithinBudgets`.

`QInv` is `IInv` with `QueuesHold`: queues are well formed lists within their budget
(`QueueOK`), demand is what the registered subscribers ask for (`Exact`), a reader has
its terminal or a registered subscriber (`Waits`), and the retained snapshots fit
(`RetainedFit`). Every method is `Served`: it keeps queues well formed, reopens no
ended queue, and gives a subscriber that it forgets a terminal. The point of the first
theorem is `settle`: its updates may overflow queues and so unregister subscribers
whose demand it has just counted. `SettleOnceExact` and `SettleExact` show that two
rounds are enough: the second can only withdraw demand, and the updates of a withdrawn
topic match no registered subscriber, so nobody is lost in it. `RetainedFit` holds
because no method but a commit adds a snapshot, and `Valid` has counted that one.

**`HostProofs`** (`Spec` of `Host`)

- `TypeCorrect`, and `BaselineHolds`: `[]BaselineCurrent`, `SleepHolds`:
  `[]NoSleepThroughDemand`, `BegunOnce`: `NeverBegunTwice`.

The inductive invariant relates the three copies of a ticket a poll keeps (the one
taken, the one rebased by its own resets, the provider's generations) to the service's
fences place by place: what a lapse crossed is refused later, what a reset rebased is
one generation ahead of the ticket, and before a sleep the revision is the one the
last ticket was taken at unless the worker is about to be woken.

Of `Lifecycle`, for any finite set of processes and any intervals:

- `SleepsSettled`: `[]PublishedBeforeSleep` and `[]SettledBeforeSleep`; `KeepsVerified`:
  `[][VerifiedIsKept]_vars`.

`LifeInv` follows one iteration of the loop: each half of a publication shows what the
worker knows until that changes again, and a retirement that is not published yet is
marked by `fresh`, which the polls do not end with (`ShownOK`); a target is `Attaching`
only while the worker is in its attempt (`AttemptOK`). The second theorem goes through
the assignments to `targets`: only `Retire` takes an attachment from a running process,
since an attempt is for a target that is `Attaching` and discovery keeps what is tracked.

**`DeliveryProofs`** is about what travels from the service to a caller of the SDK.

`Delivery`, for all sessions, topics, payloads and hash functions, colliding ones
included:

- `DeltasHold`: `Spec => []DeltasApply`.
- `Refinement`: `Spec => ImplementsPlainStream`.

A baseline held for acknowledged is the one the SDK has installed and no frame under
way touches its key (`AckedInv`). To survive the arrival of an acknowledgement this
needs the same of every acknowledgement under way that still matches the baseline
(`AckInv`), and of the frame it will acknowledge that it is the last one for its key
(`LastInv`). A delta is sent against an acknowledged baseline, so that baseline is
still there when it arrives (`DeltaInv`). `Inv` is their conjunction with the types,
an order on the numbers (`SeqInv`), and the fact that a stream without ACKs has
nothing acknowledged (`FullOnlyInv`). The refinement maps each step to the plain
stream's step of the same name, or to a stutter when only acknowledgements move.

`Queries`, for any number of calls, clones, targets and runs of the service:

- `RequestsRight`: `[]SnapshotIsTheSessions`, `[]SingleWasOnly`, `[]FailedIsReleased`;
  `ClosedClientIsSilent`: `[][NothingAfterClose]_vars`.

An answer that holds data came within its deadline and, when the call returns it, names
the run and session the call asked for, so that a later run that uses the id again is not
taken for the earlier one; a list of sessions with one element was complete at a moment
of the call, also when it is read from a message under way (`CallOK`). Once `close` has
returned the closed flag is set for every clone (`ClientOK`), and no call in progress
succeeds against it.

`Watch`, in every mode and for any number of concurrent calls, cancellations and
addresses:

- `WatchesAreRight`: `[]DecodedIsCurrent`, `[]EventsInOrder`, `[]EndIsReported`,
  `[]FailureReleases`, `[]ReadReleases`; `NoEventIsLost`: `[]EventsAccounted`.

The decoded cache is found by the address of an `Arc`, and addresses are used again. It is
right because whatever holds an address, the cache included, keeps its `Arc` alive:
equal addresses among all holders mean equal bodies (`ArcsOK`). Everything that was taken
from the queue is older than everything in it (`OrderOK`). For the second theorem every
event has exactly one place, the queue, the hand of one call, the returned or the lost
ones (`PlacesOK`), and each lost one used up a cancelled call (`LossOK`).

`SharedFeeds`, for any number of listeners, topics, incarnations, generations and events:

- `FeedsAreShared`: `[]ListenersMirrorFeed`, `[]NoOrphanedListener`, `[]NoStrandedFeed`
  and `[]SetupReportsCause`.

Listener and feed each keep a reference to the other, changed under different locks.
`SharingInv` says where they may disagree: between `attach` and `register` of the call
that holds the lock, and while a listener that was closed still has feeds to detach from
(`BothKnow`). A feed that nobody started is as it was made (`UnusedOK`). A stopped feed has
a task, its own, a subscriber's or the closing one, that has its listeners on its list
(`StopsTold`). At most one feed of a topic is in use (`OneLive`), for otherwise two of them
would write the same place of a listener; this is what the state shown is traced back by
(`MirrorOK`, with `OnlyPast` for a call that has topics still to attach). Every end that
says `Closed` comes from the client's own flag (`CallsRight`, `CausesOK`).

**`Identity`**, for any number of processes and keys (`KeysAssumption`,
`DistinctAssumption`: a missing or broken file is no key)

- `OneIdentityHolds`: `Spec => []OneIdentity`; `IdentityKept`: `Spec =>
  [][NeverReplaced]_vars`.

A process that lost the race reads a file later, so the invariant has to say that a file
it is sent to exists, and that a finished process has the key of the file at every later
moment; both rest on the file being created once.

**`AccessProofs`**, for any number of commands, peers, names and edits
(`NobodyAssumption`: no command is called nobody)

- `ChangesKept`: `[]NoLostChange`; `WantsSaved`: `[]WantIsSaved`; `EffectsHold`:
  `[]EffectOnReturn`; `LocalStarts`: `[]LocalNeedsNoList`; `BrokenStays`:
  `[][BrokenIsKept]_vars`.

The properties speak of the end of a command, and what makes them true is what it read
at its start. `IInv` says that a command between its first read and its return holds the
lock (`Held`), and that as long as the user has edited nothing since it began, what it
read is what the files say (`Current`): mode and list before the save, the wanted policy
after it. The files change only under the lock or by an edit, so no step of another
command disturbs this (`StepInv`).

**`ReaderProofs`**, for all widths, limits, budgets and lengths (`ReaderAssumption`)

- `ReadsArePaid`: `[]BudgetsHold`; `ReadsStayInside`: `[]ReadsInBounds`;
  `RefusalsAreExact`: `[]RefusedOutside`; `AcceptedStaysReadable`: `[]AcceptedIsReadable`
  where `MinAddress <= 1`, as in `READ_LIMITS` (`target.rs`).
- `LimitsHold`: `[]WithinLimits`, the four together, which the run `memory` checks.

`RangeExact`, `AtExact` and `ModuleExact` say of the three checks that they accept exactly
the spans that lie inside as numbers of any size. The invariant adds that a reader that
exists has an image that lies within the limits as a whole, which is why a module read is
never refused by the second check, and that a header that decoded leaves a payload within
them.

`Attachment`, for any number of processes that get the pid in turn (`AttachmentAssumption`):

- `AttachedRight`: `[]AttachedIsTarget`; `CausesAreTrue`: `[][CauseIsTrue]_vars`.

A marker identifies one owner of the pid, and later owners have larger ones. Before the
check that follows it, an operation may have worked on a later process than the target
(`NotBefore`); if that check finds the target, there has been no later one, so the process
is the game and its memory is what was opened (`Checks`). For the second theorem the
history variable `seen` keeps which process ran under the pid while an operation was
under way, and `SeenRunning` says: if the check after a module look-up or a probe still
finds the target, then the target ran while that was made, although the process may exit and the pid change hands on either side.
`TargetChanged` and `TargetNotFound` mean that the target does not run any more. The
theorem says nothing of the `Open` errors and of a failed read of the acquisition itself,
which no identity check follows.

`AccountSession`, for every subset of the account's topics, every interval and any number
of identities (`Topics \subseteq AccountTopics`):

- `OwnersAreOne`: `[](OneOwner /\ OneReset /\ PendingOwned)`;
- `RetriesAreKept`: `[][RetryKept]_vars`, the action property the run `sessions` checks.

The invariant `AccountInv` relates the two sides of the host. What the service shows of a
topic is the owner the session remembers, or the topic is to be reset by the poll under
way (`Matches`); the session forgets an owner only with such a reset. What a refused poll
resets the service keeps (`KeepReset`), unless the topic has begun a lifetime since, in
which it shows nothing yet (`LifetimesOK`). A sample carries the owner found before the
reads if that owner is found again after them, because identities are never reused
(`SampleOK`); `game` may change at every step in between. `ResetsOK` says what the resets
of a poll were at each stage, from which follows that `account_unchanged` asks for none a
second time. For `RetryKept`, whatever a poll validates (`Patient`) leaves a check whose
failure has a deadline as it is: only the clock moves it.

`Visual`, for every interval, every set of layouts that fail and any number of identities
(`Consumers \subseteq {"screens", "relic"}`, and a value for "no owner" that is no owner and
no fault, `NoOwnerIsNone`):

- `DisplayIsOnes`: `[](OneOwner /\ OneReset /\ WholePicker)`.

The invariant `DisplayInv` is built like `AccountInv`, the interface being the owner of the
screens (`OwnerNow`, `Shows`, `Lives`). For `WholePicker` it follows one set of choices from
its read to its publication (`Choices`): if the login is found again it was the vector's, by
`recheck_screens` the picker is the sample's, and the mission is still compared when the
world is read a second time, so the choices have the owner they are published with.

**Only model-checked, and why:**

- the liveness properties, which are out of the prover's reach;
- `SdkAccepts`, `ClosesProperly` and `CatchesUp` of `Stream`, which say what folding the
  SDK's validation over a queue yields and would need induction over data;
- `LimitsKept`, whose sums over peers would need the same;
- `EventsCurrent` of `SharedFeeds` and the bound of its buffers: the code filters a
  buffered queue, and `SelectSeq` is a recursive operator that the provers cannot expand;
- of the sessions: the deadlines (`NothingForgotten`), the parts of `ResetsAreSafe` that
  say when a topic is validated and settled, and `ChatInOrder`;
- apart from the reader's and the attachment's, the parts of `AcceptedWasTrue` and
  `DecodedExactly`: their invariants are about long sequences of reads.

## 5. Plan

1. *(done)* Service core, publication, streams; first theorems.
2. *(done)* Host, lifecycle, delivery with its refinement and proof, shared feeds,
   watches, client requests, admission, agent, files.
3. *(done)* Provider: sessions, roots, chat, acquisitions, strings, memory.
4. *(done)* Proofs of every invariant and action property of `Service`, `Host` and
   `Delivery` that a run checks; of `Identity`, `Access` and `Reader`; of the safety
   properties of `Lifecycle`, `Attachment`, `Queries` and `Watch`, of those of
   `SharedFeeds` but for its buffers, and of who owns what `AccountSession` and `Visual`
   publish.
5. Open: proofs of the deadlines of the sessions, of `Chat`, and of the acquisitions.

## 6. Not modelled

- **Layout validation** (`layout_windows.rs`, `matching.rs`, `*/validation.rs`, `*/facts.rs`):
  tables of instruction bytes compared with one image. It has no state and no order
  that matters; its outcome is a nondeterministic choice where it is used.
- **Payload models and the typed SDK API**: constructors without state, but for those
  of inventory, mastery and star chart, whose rules are in `Records`.
- **Serialization, message sizes in bytes, logging, formatting, the static catalog.**
- **Platform calls** below `memory-reader`, the router and QUIC: external, by how the
  code uses them.
- **Build tooling, packaging, examples.**
