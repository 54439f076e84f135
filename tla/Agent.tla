------------------------------- MODULE Agent -------------------------------
(***************************************************************************)
(* The background agent and the commands that manage it: agent.rs,         *)
(* launch.rs, singleton.rs, startup.rs, application.rs and runtime/ of the *)
(* CLI.  Commands and agents are processes that share two file locks, the  *)
(* runtime record, the shutdown request and the saved settings, and each   *)
(* of them may be killed between any two steps: its locks are released,    *)
(* its files stay.                                                         *)
(*                                                                         *)
(* A policy stands for the access mode with its allowlist, so that access  *)
(* and peers are one operation here.  An agent is a process instance (pid  *)
(* and start marker), never reused.                                        *)
(***************************************************************************)
EXTENDS Naturals, FiniteSets

CONSTANTS
    Commands,    \* the terminals commands are run from
    Policies,    \* what settings and allowlist may say
    None,        \* no process, no file
    MaxAgents,   \* bound: agents ever spawned
    Killable     \* the commands that may be killed

AgentAssumption ==
    /\ MaxAgents \in Nat \ {0}
    /\ Killable \subseteq Commands

VARIABLES
    saved,        \* settings.toml and allowlist.toml
    record,       \* runtime.json: agent, policy and host status
    request,      \* the agent the shutdown request names
    commandLock,  \* the command that holds command.lock
    agentLock,    \* the agent or command that holds agent.lock
    agents,       \* phase, policy and parent of every process spawned
    cmd           \* where each command is

files == <<saved, record, request>>
vars == <<saved, record, request, commandLock, agentLock, agents, cmd>>

Agents == 1..MaxAgents

\* The phases of an agent in which its process exists.
Alive(a) == agents[a].phase \notin {"none", "dead"}

\* It told its parent that it is ready, and nothing has asked it to stop.
Serving(a) == agents[a].phase = "serving"

\* The phases after a successful report_ready.
Ready(a) ==
    agents[a].phase \in {"serving", "stopping", "answered", "unregistered", "exiting"}

NewCommand == [at |-> "idle", op |-> "start", want |-> None, then |-> "idle",
               found |-> None, child |-> None, retries |-> 0]
NewAgent == [phase |-> "none", policy |-> None, parent |-> None]

Init ==
    /\ saved \in Policies /\ record = None /\ request = None
    /\ commandLock = None /\ agentLock = None
    /\ agents = [a \in Agents |-> NewAgent]
    /\ cmd = [c \in Commands |-> NewCommand]

-----------------------------------------------------------------------------
(* agent.rs: one step for each file or lock an agent touches. *)

Phase(a, from, to) ==
    /\ agents[a].phase = from
    /\ agents' = [agents EXCEPT ![a].phase = to]

\* AgentLock::acquire
AcquireLock(a) ==
    /\ Phase(a, "spawned", "locked")
    /\ agentLock = None
    /\ agentLock' = a
    /\ UNCHANGED <<files, commandLock, cmd>>

\* Settings and policy are read once, then the transport is started.
LoadPolicy(a) ==
    /\ agents[a].phase = "locked"
    /\ agents' = [agents EXCEPT ![a].phase = "loaded", ![a].policy = saved]
    /\ UNCHANGED <<files, commandLock, agentLock, cmd>>

\* Registration::publish: first the request that was left behind.
ClearStaleRequest(a) ==
    /\ Phase(a, "loaded", "cleared")
    /\ request' = None
    /\ UNCHANGED <<saved, record, commandLock, agentLock, cmd>>

Register(a) ==
    /\ Phase(a, "cleared", "registered")
    /\ record' = [agent |-> a, policy |-> agents[a].policy, host |-> 0]
    /\ UNCHANGED <<saved, request, commandLock, agentLock, cmd>>

\* A step of the start fails: the lock is dropped, then the failure is reported.
StartFails(a) ==
    /\ \/ agents[a].phase = "spawned" /\ agentLock # None
       \/ agents[a].phase \in {"locked", "loaded", "cleared"}
    /\ agents' = [agents EXCEPT ![a].phase = "failed"]
    /\ agentLock' = IF agentLock = a THEN None ELSE agentLock
    /\ UNCHANGED <<files, commandLock, cmd>>

\* The parent still reads the pipe.
Reading(a) == cmd[agents[a].parent].child = a

\* report_ready
ReportReady(a) ==
    /\ Phase(a, "registered", "serving") /\ Reading(a)
    /\ UNCHANGED <<files, commandLock, agentLock, cmd>>

\* The pipe is broken: RunningAgent::shutdown.
ReportFails(a) ==
    /\ Phase(a, "registered", "stopping") /\ ~Reading(a)
    /\ UNCHANGED <<files, commandLock, agentLock, cmd>>

\* Registration::update, for a new host status.
UpdateRecord(a) ==
    /\ Serving(a)
    /\ record' = [agent |-> a, policy |-> agents[a].policy,
                  host |-> IF record # None THEN 1 - record.host ELSE 0]
    /\ UNCHANGED <<saved, request, commandLock, agentLock, agents, cmd>>

\* wait_for_shutdown_request finds its own name.
SeeRequest(a) ==
    /\ Phase(a, "serving", "stopping") /\ request = a
    /\ UNCHANGED <<files, commandLock, agentLock, cmd>>

\* A signal, or a worker that failed.
Quit(a) ==
    /\ Phase(a, "serving", "stopping")
    /\ UNCHANGED <<files, commandLock, agentLock, cmd>>

\* run_worker and RunningAgent::shutdown: the request, the record, the lock.
ClearRequest(a) ==
    /\ Phase(a, "stopping", "answered")
    /\ request' = IF request = a THEN None ELSE request
    /\ UNCHANGED <<saved, record, commandLock, agentLock, cmd>>

Unregister(a) ==
    /\ Phase(a, "answered", "unregistered")
    /\ record' = IF record # None /\ record.agent = a THEN None ELSE record
    /\ UNCHANGED <<saved, request, commandLock, agentLock, cmd>>

ReleaseLock(a) ==
    /\ Phase(a, "unregistered", "exiting")
    /\ agentLock' = None
    /\ UNCHANGED <<files, commandLock, cmd>>

Exit(a) ==
    /\ agents[a].phase \in {"failed", "exiting"}
    /\ agents' = [agents EXCEPT ![a].phase = "dead"]
    /\ UNCHANGED <<files, commandLock, agentLock, cmd>>

Killed(a) ==
    /\ agents' = [agents EXCEPT ![a].phase = "dead"]
    /\ agentLock' = IF agentLock = a THEN None ELSE agentLock

\* A crash anywhere, at the phases between which locks or files differ.
Crash(a) ==
    /\ agents[a].phase \in {"locked", "cleared", "registered", "serving", "answered"}
    /\ Killed(a)
    /\ UNCHANGED <<files, commandLock, cmd>>

AgentStep(a) ==
    \/ AcquireLock(a) \/ LoadPolicy(a) \/ ClearStaleRequest(a) \/ Register(a)
    \/ ReportReady(a) \/ ReportFails(a) \/ SeeRequest(a)
    \/ ClearRequest(a) \/ Unregister(a) \/ ReleaseLock(a) \/ Exit(a)

-----------------------------------------------------------------------------
(* singleton.rs, storage.rs and shutdown.rs, as a command runs them. *)

At(c, place) == cmd[c].at = place
Goto(c, place) == cmd' = [cmd EXCEPT ![c].at = place]

\* current_agent is called, and its result goes to `then`.
Look(c, then) == cmd' = [cmd EXCEPT ![c].at = "look", ![c].then = then]

Found(c, agent) == cmd' = [cmd EXCEPT ![c].at = cmd[c].then, ![c].found = agent]

\* command_lock, and what each command does first.
Begin(c, op, want) ==
    /\ At(c, "idle") /\ commandLock = None
    /\ commandLock' = c
    /\ cmd' = [cmd EXCEPT ![c] = [NewCommand EXCEPT
                 !.at = "look", !.op = op,
                 !.want = IF op = "start" THEN saved ELSE want,
                 !.then = CASE op = "start" -> "reconcile"
                            [] op = "access" -> "save"
                            [] op = "stop" -> "stop"]]
    /\ UNCHANGED <<files, agentLock, agents>>

\* status takes no lock.
BeginStatus(c) ==
    /\ At(c, "idle")
    /\ cmd' = [cmd EXCEPT ![c] = [NewCommand EXCEPT !.at = "look", !.op = "status",
                                                    !.then = "ok"]]
    /\ UNCHANGED <<files, commandLock, agentLock, agents>>

\* current_agent_at: no record, the record of a live process, or a stale one.
ReadRecord(c) ==
    /\ At(c, "look")
    /\ IF record = None \/ Alive(record.agent) THEN Found(c, record)
       ELSE cmd' = [cmd EXCEPT ![c].at = "sweep", ![c].found = record]
    /\ UNCHANGED <<files, commandLock, agentLock, agents>>

\* Mutant: a stale record is removed without the agent lock.
SweepUnlocked(c) ==
    /\ At(c, "sweep")
    /\ Goto(c, "swept")
    /\ UNCHANGED <<files, commandLock, agentLock, agents>>

\* remove_stale_record: only under the agent lock.
Sweep(c) ==
    /\ At(c, "sweep")
    /\ IF agentLock # None THEN Found(c, None) /\ UNCHANGED agentLock
       ELSE Goto(c, "swept") /\ agentLock' = c
    /\ UNCHANGED <<files, commandLock, agents>>

\* Whether the file still holds the bytes that were read.
CompareRecord(c) ==
    /\ At(c, "swept")
    /\ Goto(c, IF record = cmd[c].found THEN "remove" ELSE "unlock")
    /\ UNCHANGED <<files, commandLock, agentLock, agents>>

RemoveRecord(c) ==
    /\ At(c, "remove")
    /\ record' = None
    /\ Goto(c, "unlock")
    /\ UNCHANGED <<saved, request, commandLock, agentLock, agents>>

DropLock(c) ==
    /\ At(c, "unlock")
    /\ agentLock' = IF agentLock = c THEN None ELSE agentLock
    /\ Found(c, None)
    /\ UNCHANGED <<files, commandLock, agents>>

\* stop: nothing to do, or stop_agent.
Stop(c) ==
    /\ At(c, "stop")
    /\ Goto(c, IF cmd[c].found = None THEN "ok" ELSE "request")
    /\ UNCHANGED <<files, commandLock, agentLock, agents>>

WriteRequest(c) ==
    /\ At(c, "request")
    /\ request' = cmd[c].found.agent
    /\ Goto(c, "wait")
    /\ UNCHANGED <<saved, record, commandLock, agentLock, agents>>

\* wait_for_exit
SeeExit(c) ==
    /\ At(c, "wait") /\ ~Alive(cmd[c].found.agent)
    /\ Goto(c, "unrequest")
    /\ UNCHANGED <<files, commandLock, agentLock, agents>>

\* The request is left behind.
WaitTimesOut(c) ==
    /\ At(c, "wait") /\ Alive(cmd[c].found.agent)
    /\ Goto(c, "error")
    /\ UNCHANGED <<files, commandLock, agentLock, agents>>

RemoveRequest(c) ==
    /\ At(c, "unrequest")
    /\ request' = IF request = cmd[c].found.agent THEN None ELSE request
    /\ Goto(c, IF cmd[c].op = "stop" THEN "ok" ELSE "launch")
    /\ UNCHANGED <<saved, record, commandLock, agentLock, agents>>

-----------------------------------------------------------------------------
(* launch.rs. *)

\* set_access and peers: save, and apply to a service that was running.
Save(c) ==
    /\ At(c, "save")
    /\ saved' = cmd[c].want
    /\ Look(c, IF cmd[c].found = None THEN "ok" ELSE "reconcile")
    /\ UNCHANGED <<record, request, commandLock, agentLock, agents>>

Compatible(c) == cmd[c].found.policy = cmd[c].want

\* reconcile_existing_agent
Reconcile(c) ==
    /\ At(c, "reconcile")
    /\ CASE cmd[c].found = None -> cmd' = [cmd EXCEPT ![c].at = "launch", ![c].retries = 1]
         [] cmd[c].found # None /\ Compatible(c) -> Look(c, "ok")
         [] OTHER -> cmd' = [cmd EXCEPT ![c].at = "request", ![c].retries = 1]
    /\ UNCHANGED <<files, commandLock, agentLock, agents>>

\* spawn_agent, which fails when the bound is reached.
Spawn(c) ==
    /\ At(c, "launch")
    /\ LET free == {a \in Agents : agents[a].phase = "none"}
           a == CHOOSE n \in free : \A m \in free : n <= m
       IN IF free = {} THEN Goto(c, "error") /\ UNCHANGED agents
          ELSE /\ agents' = [agents EXCEPT ![a].phase = "spawned", ![a].parent = c]
               /\ cmd' = [cmd EXCEPT ![c].at = "await", ![c].child = a]
    /\ UNCHANGED <<files, commandLock, agentLock>>

Child(c) == cmd[c].child

\* startup::read ends with Ready: the child's own record is looked for.
SeeReady(c) ==
    /\ At(c, "await")
    /\ Ready(Child(c))
    /\ Look(c, "verify")
    /\ UNCHANGED <<files, commandLock, agentLock, agents>>

\* It ends with a failure or the end of the pipe, and the child is reaped.
SeeFailure(c) ==
    /\ At(c, "await") /\ agents[Child(c)].phase = "dead"
    /\ cmd' = [cmd EXCEPT ![c].child = None, ![c].at = "look", ![c].then = "compete"]
    /\ UNCHANGED <<files, commandLock, agentLock, agents>>

\* It does not end in time, or a failed child does not exit: terminate_child.
KillChild(c) ==
    /\ At(c, "await") /\ Alive(Child(c))
    /\ Killed(Child(c))
    /\ cmd' = [cmd EXCEPT ![c].child = None, ![c].at = "look", ![c].then = "compete"]
    /\ UNCHANGED <<files, commandLock>>

\* The child registered itself with the wanted policy, or is terminated.
Verify(c) ==
    /\ At(c, "verify")
    /\ IF cmd[c].found # None /\ cmd[c].found.agent = Child(c) /\ Compatible(c)
       THEN Look(c, "ok") /\ UNCHANGED <<agents, agentLock>>
       ELSE /\ Killed(Child(c))
            /\ cmd' = [cmd EXCEPT ![c].child = None, ![c].at = "look", ![c].then = "compete"]
    /\ UNCHANGED <<files, commandLock>>

\* competing_agent, and the one retry of launch_agent.
Compete(c) ==
    /\ At(c, "compete")
    /\ IF cmd[c].found # None THEN IF Compatible(c) THEN Look(c, "ok") ELSE Goto(c, "error")
       ELSE IF agentLock # None THEN Look(c, "compete")
       ELSE IF cmd[c].retries = 0 THEN Goto(c, "error")
       ELSE cmd' = [cmd EXCEPT ![c].at = "launch", ![c].retries = 0]
    /\ UNCHANGED <<files, commandLock, agentLock, agents>>

CompeteTimesOut(c) ==
    /\ At(c, "compete") /\ cmd[c].found = None /\ agentLock # None
    /\ Goto(c, "error")
    /\ UNCHANGED <<files, commandLock, agentLock, agents>>

\* The command returns, and its process ends.
Return(c) ==
    /\ cmd[c].at \in {"ok", "error"}
    /\ cmd' = [cmd EXCEPT ![c] = NewCommand]
    /\ commandLock' = IF commandLock = c THEN None ELSE commandLock
    /\ UNCHANGED <<files, agentLock, agents>>

Kill(c) ==
    /\ c \in Killable /\ cmd[c].at \notin {"idle", "ok", "error"}
    /\ cmd' = [cmd EXCEPT ![c] = NewCommand]
    /\ commandLock' = IF commandLock = c THEN None ELSE commandLock
    /\ agentLock' = IF agentLock = c THEN None ELSE agentLock
    /\ UNCHANGED <<files, agents>>

CommandStep(c) ==
    \/ ReadRecord(c) \/ Sweep(c) \/ CompareRecord(c) \/ RemoveRecord(c) \/ DropLock(c)
    \/ Stop(c) \/ WriteRequest(c) \/ SeeExit(c) \/ RemoveRequest(c) \/ Save(c) \/ Reconcile(c) \/ Spawn(c)
    \/ SeeReady(c) \/ SeeFailure(c) \/ Verify(c) \/ Compete(c) \/ Return(c)

-----------------------------------------------------------------------------
Next ==
    \/ \E a \in Agents : AgentStep(a) \/ StartFails(a) \/ UpdateRecord(a) \/ Quit(a) \/ Crash(a)
    \/ \E c \in Commands :
          \/ \E op \in {"start", "stop", "access"}, want \in Policies : Begin(c, op, want)
          \/ BeginStatus(c) \/ CommandStep(c)
          \/ WaitTimesOut(c) \/ KillChild(c) \/ CompeteTimesOut(c) \/ Kill(c)

Spec == Init /\ [][Next]_vars

-----------------------------------------------------------------------------
(* Properties. *)

\* Shape of the shared files and locks: only a live process holds a lock, and a
\* lock holder is where it may hold one.
TypeOK ==
    /\ saved \in Policies
    /\ request \in Agents \cup {None}
    /\ record # None => record.agent \in Agents /\ record.policy \in Policies
    /\ agentLock \in Agents => Alive(agentLock)
    /\ commandLock # None => cmd[commandLock].at # "idle"

\* current_agent, remove_stale_record, unregister: the record names the agent that
\* serves, whatever crashed, whichever command or status swept a stale record at
\* the same time.
Discoverable == \A a \in Agents : Serving(a) => record # None /\ record.agent = a

\* start, set_access, peers: when the command returns without an error, an agent
\* that serves does so with the policy the command asked for, also after commands
\* that were killed half-way.
AppliedOnReturn ==
    \A c \in Commands : At(c, "ok") /\ cmd[c].op \in {"start", "access"} =>
        \A a \in Agents : Serving(a) => agents[a].policy = cmd[c].want

\* stop: when it returns without an error no agent serves.
StoppedOnReturn ==
    \A c \in Commands : At(c, "ok") /\ cmd[c].op = "stop" =>
        \A a \in Agents : ~Serving(a)

\* launch_agent: a command that returns with an error has reaped the child that
\* did not become ready.
NoOrphans ==
    \A c \in Commands : cmd[c].at \in {"ok", "error"} /\ commandLock = c =>
        \A a \in Agents : agents[a].parent = c /\ c \notin Killable => ~Alive(a) \/ Ready(a)

=============================================================================
