----------------------------- MODULE Lifecycle ------------------------------
(***************************************************************************)
(* lifecycle/worker.rs: the worker thread that discovers game processes,   *)
(* attaches to them, polls their sessions and publishes what it knows,     *)
(* first to the service and then to the registration file.  Processes      *)
(* start and exit, and a stop arrives, between any two of its steps.       *)
(*                                                                         *)
(* A process is a pid with its start marker, never reused.  Deadlines are  *)
(* the time left until them.                                               *)
(***************************************************************************)
EXTENDS Naturals, Sequences, SequencesExt, FiniteSets

CONSTANTS
    Processes,          \* the game processes that ever run
    None,               \* no target
    DiscoveryInterval,  \* DISCOVERY_INTERVAL
    RetryInterval       \* RETRY_INTERVAL

LifecycleAssumption ==
    /\ IsFiniteSet(Processes)
    /\ {DiscoveryInterval, RetryInterval} \subseteq Nat \ {0}
    /\ None \notin [activity : {"Attaching", "Observing", "Retrying"}, left : Nat]

VARIABLES
    os,        \* each process: "unborn", "running", "exited"
    targets,   \* the tracked targets, None for a process without one
    error,     \* discovery_error
    next,      \* time left until next_discovery
    todo,      \* the candidates this step has still to try
    fresh,     \* the retirements to publish
    stop,      \* the stop channel has a message
    service,   \* the status the service shows
    file,      \* the status the registration file shows
    pc         \* where the worker is, or how it ended

world == <<os, stop>>
vars == <<os, targets, error, next, todo, fresh, stop, service, file, pc>>

Attached(p) == targets[p] # None /\ targets[p].activity = "Observing"

\* status
Status == [error |-> error, targets |-> [p \in Processes |->
              IF targets[p] = None THEN None ELSE targets[p].activity]]

NoStatus == [error |-> FALSE, targets |-> [p \in Processes |-> None]]

Target(activity, left) == [activity |-> activity, left |-> left]

Init ==
    /\ os = [p \in Processes |-> "unborn"] /\ stop = FALSE
    /\ targets = [p \in Processes |-> None] /\ error = FALSE /\ next = 0
    /\ todo = <<>> /\ fresh = FALSE
    /\ service = NoStatus /\ file = NoStatus /\ pc = "step"

-----------------------------------------------------------------------------
(* The operating system, the clock and the agent. *)

Launch(p) ==
    /\ os[p] = "unborn"
    /\ os' = [os EXCEPT ![p] = "running"]
    /\ UNCHANGED <<targets, error, next, todo, fresh, stop, service, file, pc>>

ExitGame(p) ==
    /\ os[p] = "running"
    /\ os' = [os EXCEPT ![p] = "exited"]
    /\ UNCHANGED <<targets, error, next, todo, fresh, stop, service, file, pc>>

RequestStop ==
    /\ ~stop
    /\ stop' = TRUE
    /\ UNCHANGED <<os, targets, error, next, todo, fresh, service, file, pc>>

Sooner(n) == IF n = 0 THEN 0 ELSE n - 1

\* Time passes while the worker waits; it is woken by a deadline or a change.
Wait ==
    /\ pc = "wait"
    /\ next' = Sooner(next)
    /\ targets' = [p \in Processes |->
                     IF targets[p] = None THEN None ELSE [targets[p] EXCEPT !.left = Sooner(@)]]
    /\ pc' = "step"
    /\ UNCHANGED <<world, error, todo, fresh, service, file>>

Wake ==
    /\ pc = "wait"
    /\ pc' = "step"
    /\ UNCHANGED <<world, targets, error, next, todo, fresh, service, file>>

-----------------------------------------------------------------------------
(* Lifecycle::step. *)

\* The return on a stop that has arrived, wherever it is looked for.
Stopping ==
    /\ stop
    /\ \/ pc \in {"step", "discover", "attach"}
       \/ pc = "candidate" /\ todo # <<>>
       \/ pc = "poll" /\ \E p \in Processes : targets[p] # None
    /\ pc' = "stopped"
    /\ UNCHANGED <<world, targets, error, next, todo, fresh, service, file>>

\* publish: the service, and then the file; an error of either ends the worker.
PublishService(from, to) ==
    /\ pc = from
    /\ service' = Status
    /\ pc' = to
    /\ UNCHANGED <<world, targets, error, next, todo, fresh, file>>

PublishFile(from, to) ==
    /\ pc = from
    /\ file' = Status
    /\ pc' = to
    /\ UNCHANGED <<world, targets, error, next, todo, fresh, service>>

PublishFails(places) ==
    /\ pc \in places
    /\ pc' = "failed"
    /\ UNCHANGED <<world, targets, error, next, todo, fresh, service, file>>

\* Attachments whose process is gone are dropped.
DropExited ==
    /\ pc = "step" /\ ~stop
    /\ targets' = [p \in Processes |->
                     IF Attached(p) /\ os[p] = "exited" THEN None ELSE targets[p]]
    /\ pc' = "publish1"
    /\ UNCHANGED <<world, error, next, todo, fresh, service, file>>

NotDue ==
    /\ pc = "discover" /\ ~stop
    /\ next > 0
    /\ pc' = "poll"
    /\ UNCHANGED <<world, targets, error, next, todo, fresh, service, file>>

\* discover fails, and is tried again later.
DiscoveryFails ==
    /\ pc = "discover" /\ ~stop
    /\ next = 0
    /\ error' = TRUE
    /\ next' = RetryInterval
    /\ pc' = "publish2"
    /\ UNCHANGED <<world, targets, todo, fresh, service, file>>

Kept(candidates, p) == Attached(p) \/ p \in candidates

\* discover returns running processes, and may miss some of them.
Discover ==
    /\ pc = "discover" /\ ~stop
    /\ next = 0
    /\ \E candidates \in SUBSET {p \in Processes : os[p] = "running"} :
          /\ todo' = SetToSeq(candidates)
          /\ targets' = [p \in Processes |-> IF Kept(candidates, p) THEN targets[p] ELSE None]
    /\ error' = FALSE
    /\ next' = DiscoveryInterval
    /\ pc' = "publish3"
    /\ UNCHANGED <<world, fresh, service, file>>

\* A candidate that is attached, or whose retry is not due.
Skip ==
    /\ pc = "candidate" /\ ~stop /\ todo # <<>>
    /\ Attached(Head(todo)) \/ (targets[Head(todo)] # None /\ targets[Head(todo)].left > 0)
    /\ todo' = Tail(todo)
    /\ UNCHANGED <<world, targets, error, next, fresh, service, file, pc>>

BeginAttach ==
    /\ pc = "candidate" /\ ~stop /\ todo # <<>>
    /\ LET p == Head(todo)
       IN /\ ~Attached(p)
          /\ targets[p] # None => targets[p].left = 0
          /\ targets' = [targets EXCEPT ![p] = Target("Attaching", 0)]
    /\ pc' = "publish4"
    /\ UNCHANGED <<world, error, next, todo, fresh, service, file>>

\* attach, which fails if the process is gone by its end.
AttachEnds(ok) ==
    /\ pc = "attach" /\ ~stop
    /\ ok => os[Head(todo)] = "running"
    /\ targets' = [targets EXCEPT ![Head(todo)] =
                     IF ok THEN Target("Observing", 0) ELSE Target("Retrying", RetryInterval)]
    /\ todo' = Tail(todo)
    /\ pc' = "publish5"
    /\ UNCHANGED <<world, error, next, fresh, service, file>>

StepEnds ==
    /\ pc = "candidate" /\ todo = <<>>
    /\ pc' = "poll"
    /\ UNCHANGED <<world, targets, error, next, todo, fresh, service, file>>

-----------------------------------------------------------------------------
(* The rest of run: every session is polled, and failures are published. *)

\* A session whose poll fails is retired: the attachment is dropped.
Retire(p) ==
    /\ pc = "poll" /\ ~stop
    /\ Attached(p)
    /\ targets' = [targets EXCEPT ![p] = Target("Retrying", RetryInterval)]
    /\ fresh' = TRUE
    /\ UNCHANGED <<world, error, next, todo, service, file, pc>>

\* Mutant: a retirement is published by the next step.
PolledOnly ==
    /\ pc = "poll"
    /\ fresh' = FALSE
    /\ pc' = "wait"
    /\ UNCHANGED <<world, targets, error, next, todo, service, file>>

Polled ==
    /\ pc = "poll"
    /\ fresh' = FALSE
    /\ pc' = IF fresh THEN "publish6" ELSE "wait"
    /\ UNCHANGED <<world, targets, error, next, todo, service, file>>

\* Where each publication goes on.
After == [publish1 |-> "discover", publish2 |-> "poll", publish3 |-> "candidate",
          publish4 |-> "attach", publish5 |-> "candidate", publish6 |-> "wait"]

\* The second half of each publication.
Filing == [publish1 |-> "file1", publish2 |-> "file2", publish3 |-> "file3",
           publish4 |-> "file4", publish5 |-> "file5", publish6 |-> "file6"]

Publish ==
    \E place \in DOMAIN After :
        \/ PublishService(place, Filing[place])
        \/ PublishFile(Filing[place], After[place])

Worker ==
    \/ Stopping \/ Publish \/ DropExited \/ NotDue \/ DiscoveryFails \/ Discover
    \/ Skip \/ BeginAttach \/ StepEnds \/ Polled \/ Wait
    \/ \E ok \in BOOLEAN : AttachEnds(ok)

Next ==
    \/ Worker \/ Wake \/ RequestStop
    \/ \E p \in Processes : Launch(p) \/ ExitGame(p) \/ Retire(p)
    \/ PublishFails(DOMAIN After \cup {Filing[place] : place \in DOMAIN After})

Spec == Init /\ [][Next]_vars

-----------------------------------------------------------------------------
(* Properties. *)

Ended == pc \in {"stopped", "failed"}

\* Shape of the worker: a deadline runs only for a target that failed.
TypeOK ==
    /\ next \in 0..RetryInterval \cup 0..DiscoveryInterval
    /\ \A p \in Processes : targets[p] # None =>
          /\ targets[p].activity \in {"Attaching", "Observing", "Retrying"}
          /\ targets[p].left > 0 => targets[p].activity = "Retrying"
          /\ os[p] # "unborn"

\* publish: whenever the worker sleeps, the service and the registration file both
\* show what it knows, whichever branch of the step or the polls changed it.
PublishedBeforeSleep == pc = "wait" => service = Status /\ file = Status

\* No target is left half-way: while the worker sleeps each one is observed or
\* has a retry.
SettledBeforeSleep ==
    pc = "wait" => \A p \in Processes : targets[p] # None => targets[p].activity # "Attaching"

\* step, retain: an attachment to a process that runs is dropped only by its own
\* failed poll, never by a discovery that missed it.
VerifiedIsKept ==
    \A p \in Processes : Attached(p) /\ os[p] = "running" /\ ~Attached(p)' => Retire(p)

Observed(p) == service.targets[p] = "Observing"

=============================================================================
