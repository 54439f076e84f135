-------------------------------- MODULE Access ---------------------------------
(***************************************************************************)
(* The files that say who may read: settings.toml with the access mode and *)
(* allowlist.toml with the approved peers (settings.rs, authorization.rs), *)
(* and the commands that change them (launch.rs: start, set_access,        *)
(* peers).  Commands run as processes of their own, may be killed at any   *)
(* point, and the user may edit the files.  Agent has how a policy is      *)
(* applied to the service; here it is one step that may fail.              *)
(***************************************************************************)
EXTENDS Integers, FiniteSets, Functions

CONSTANTS
    Commands,       \* processes of the command line
    Peers,          \* endpoint identifiers
    Names,          \* names a peer may be given
    MaxEdits        \* bound on the edits by hand

AccessAssumption ==
    /\ IsFiniteSet(Commands) /\ IsFiniteSet(Peers) /\ IsFiniteSet(Names) /\ MaxEdits \in Nat

VARIABLES
    settings,       \* "local", "remote" or "invalid"
    allowlist,      \* whether it is valid, and the name of every peer in it
    lock,           \* the command that holds the command lock
    active,         \* the policy of the service, or NoPolicy
    commands,       \* the commands
    expected,       \* the peers after every change that was saved
    edits           \* edits by hand

vars == <<settings, allowlist, lock, active, commands, expected, edits>>

Nobody == "nobody"
NoName == "unnamed"
NoPeers == [p \in {} |-> NoName]
NoPolicy == [mode |-> "none", approved |-> {}]
Modes == {"local", "remote"}
Lists == UNION {[ps -> Names \cup {NoName}] : ps \in SUBSET Peers}

NoCommand == [op |-> [is |-> "none"], phase |-> "none", mode |-> "none", list |-> NoPeers,
              running |-> FALSE, want |-> NoPolicy, seen |-> 0]

\* What a command may be asked to do.
Operations ==
    [is : {"start"}] \cup [is : {"access"}, mode : Modes]
        \cup [is : {"allow"}, peer : Peers, name : Names \cup {NoName}]
        \cup [is : {"revoke"}, peer : Peers]

-----------------------------------------------------------------------------
(* Policies.                                                                *)

\* Policy::new: nobody is approved where everybody local is let in.
NewPolicy(mode, peers) == [mode |-> mode, approved |-> IF mode = "remote" THEN peers ELSE {}]

\* Policy::load reads the list only where it counts.
ReadsList(mode) == mode = "remote"

Loads(mode) == mode \in Modes /\ (ReadsList(mode) => allowlist.valid)

LoadedPolicy(mode) == NewPolicy(mode, IF ReadsList(mode) THEN DOMAIN allowlist.peers ELSE {})

\* Policy::permits
Permits(policy, peer) == policy.mode = "local" \/ peer \in policy.approved

\* Allowlist::allow and Allowlist::revoke: a peer that is approved already keeps
\* its name unless it gets another.
Changed(list, op) ==
    IF op.is = "revoke" THEN Restrict(list, DOMAIN list \ {op.peer})
    ELSE IF op.is = "allow"
    THEN [p \in DOMAIN list \cup {op.peer} |->
            IF p # op.peer \/ (p \in DOMAIN list /\ op.name = NoName) THEN list[p] ELSE op.name]
    ELSE list

-----------------------------------------------------------------------------
(* Commands.                                                                *)

ForPeers(c) == commands[c].op.is \in {"allow", "revoke"}

Goto(c, phase) == commands' = [commands EXCEPT ![c].phase = phase]

\* A command that fails returns and releases the lock.
Fail(c, phase) == Goto(c, phase) /\ lock' = Nobody /\ UNCHANGED <<settings, allowlist, active, expected, edits>>

Begin(c, op) ==
    /\ commands[c].phase = "none" /\ lock = Nobody
    /\ commands' = [commands EXCEPT ![c] = [NoCommand EXCEPT !.op = op, !.phase = "settings", !.seen = edits]]
    /\ lock' = c
    /\ UNCHANGED <<settings, allowlist, active, expected, edits>>

\* settings::load: what is no setting is an error, never a default.
LoadSettings(c) ==
    /\ commands[c].phase = "settings"
    /\ IF settings \notin Modes THEN Fail(c, "settings_invalid")
       ELSE /\ commands' = [commands EXCEPT ![c].phase = "list",
                                ![c].mode = IF commands[c].op.is = "access" THEN commands[c].op.mode
                                            ELSE settings]
            /\ UNCHANGED <<settings, allowlist, lock, active, expected, edits>>

\* Mutant: a list that cannot be read is taken for an empty one.
ListAnyway(c) == ForPeers(c) \/ Loads(commands[c].mode)

\* Whether what the command needs of the list can be read.
ListLoads(c) == IF ForPeers(c) THEN allowlist.valid ELSE Loads(commands[c].mode)

\* Allowlist::load with the change, or Policy::load.
LoadList(c) ==
    /\ commands[c].phase = "list"
    /\ IF ~ListLoads(c) THEN Fail(c, "list_invalid")
       ELSE LET list == Changed(IF allowlist.valid THEN allowlist.peers ELSE NoPeers, commands[c].op)
            IN  /\ commands' = [commands EXCEPT ![c].phase = "look", ![c].list = list,
                                    ![c].want = IF ForPeers(c) THEN NewPolicy(commands[c].mode, DOMAIN list)
                                                ELSE LoadedPolicy(commands[c].mode)]
                /\ UNCHANGED <<settings, allowlist, lock, active, expected, edits>>

\* current_agent: only a running service is told of a change.
LookForAgent(c) ==
    /\ commands[c].phase = "look"
    /\ commands' = [commands EXCEPT ![c].phase = "save",
                        ![c].running = commands[c].op.is = "start" \/ active # NoPolicy]
    /\ UNCHANGED <<settings, allowlist, lock, active, expected, edits>>

\* save_at replaces a file as a whole, or fails and leaves it.
Save(c) ==
    /\ commands[c].phase = "save"
    /\ \/ /\ settings' = IF commands[c].op.is = "access" THEN commands[c].mode ELSE settings
          /\ IF ForPeers(c)
             THEN /\ allowlist' = [valid |-> TRUE, peers |-> commands[c].list]
                  /\ expected' = Changed(expected, commands[c].op)
             ELSE UNCHANGED <<allowlist, expected>>
          /\ Goto(c, IF commands[c].running THEN "apply" ELSE "done")
          /\ UNCHANGED <<lock, active, edits>>
       \/ commands[c].op.is # "start" /\ Fail(c, "save_failed")

\* start_configured: a service with the wanted policy is kept; another one is
\* replaced by one that loads its policy from the files, and that must be the one
\* the command wanted.
Apply(c) ==
    /\ commands[c].phase = "apply"
    /\ \/ /\ active = commands[c].want \/ (Loads(settings) /\ LoadedPolicy(settings) = commands[c].want)
          /\ active' = commands[c].want
          /\ Goto(c, "done")
          /\ UNCHANGED <<settings, allowlist, lock, expected, edits>>
       \/ /\ active # commands[c].want
          /\ ~(Loads(settings) /\ LoadedPolicy(settings) = commands[c].want)
          /\ Goto(c, "mismatch") /\ active' = NoPolicy /\ lock' = Nobody
          /\ UNCHANGED <<settings, allowlist, expected, edits>>
       \/ /\ active # commands[c].want
          /\ Goto(c, "not_applied") /\ lock' = Nobody
          /\ active' \in {active, NoPolicy}
          /\ UNCHANGED <<settings, allowlist, expected, edits>>

Return(c) ==
    /\ commands[c].phase \notin {"none", "settings", "list", "look", "save", "apply"}
    /\ commands' = [commands EXCEPT ![c] = NoCommand]
    /\ lock' = IF lock = c THEN Nobody ELSE lock
    /\ UNCHANGED <<settings, allowlist, active, expected, edits>>

\* The lock goes with the process; what was not saved is lost.
Kill(c) ==
    /\ commands[c].phase \in {"settings", "list", "look", "save", "apply"}
    /\ commands' = [commands EXCEPT ![c] = NoCommand]
    /\ lock' = IF lock = c THEN Nobody ELSE lock
    /\ UNCHANGED <<settings, allowlist, active, expected, edits>>

\* The service stops by itself or by the stop command.
ServiceStops ==
    /\ active # NoPolicy /\ active' = NoPolicy
    /\ UNCHANGED <<settings, allowlist, lock, commands, expected, edits>>

\* The user breaks or repairs a file.
EditList(valid) ==
    /\ edits < MaxEdits /\ edits' = edits + 1
    /\ allowlist' = [valid |-> valid, peers |-> NoPeers]
    /\ expected' = NoPeers
    /\ UNCHANGED <<settings, lock, active, commands>>

EditSettings(text) ==
    /\ edits < MaxEdits /\ edits' = edits + 1
    /\ settings' = text
    /\ UNCHANGED <<allowlist, lock, active, commands, expected>>

Init ==
    /\ settings = "local" /\ allowlist = [valid |-> TRUE, peers |-> NoPeers]
    /\ lock = Nobody /\ active = NoPolicy /\ expected = NoPeers /\ edits = 0
    /\ commands = [c \in Commands |-> NoCommand]

Command(c) ==
    \/ \E op \in Operations : Begin(c, op)
    \/ LoadSettings(c) \/ LoadList(c) \/ LookForAgent(c) \/ Save(c) \/ Apply(c) \/ Return(c) \/ Kill(c)

Next ==
    \/ \E c \in Commands : Command(c)
    \/ ServiceStops
    \/ \E valid \in BOOLEAN : EditList(valid)
    \/ \E text \in Modes \cup {"invalid"} : EditSettings(text)

Spec == Init /\ [][Next]_vars

-----------------------------------------------------------------------------
(* Properties.                                                              *)

\* Values.
TypeOK ==
    /\ settings \in Modes \cup {"invalid"} /\ allowlist.valid \in BOOLEAN
    /\ allowlist.peers \in Lists /\ expected \in Lists
    /\ lock \in Commands \cup {Nobody} /\ edits \in 0 .. MaxEdits
    /\ active.approved \subseteq Peers /\ active.mode = "local" => active.approved = {}

\* No change that was saved is undone by another command: the list holds, with
\* their names, the peers that the saved changes leave, one after the other
\* (peers holds the command lock from the load to the save).
NoLostChange == (edits = 0 /\ allowlist.valid) => allowlist.peers = expected

\* What a command wants the service to do is what the files say after its save:
\* unless the user edits them meanwhile, the service that is started loads that
\* very policy, and the command does not refuse it (Allowlist::policy,
\* Policy::load).
WantIsSaved ==
    \A c \in Commands : commands[c].phase = "mismatch" => edits > commands[c].seen

\* When a command that saw a service running returns without an error, a service
\* that runs permits an approved peer and not a revoked one.
EffectOnReturn ==
    \A c \in Commands :
        commands[c].phase = "done" /\ commands[c].running /\ active # NoPolicy
            /\ ForPeers(c) /\ commands[c].mode = "remote" =>
        (Permits(active, commands[c].op.peer) <=> commands[c].op.is = "allow")

\* A list that needs repair keeps nobody from local access: only what needs the
\* list fails because of it (the comment in Policy::load).
LocalNeedsNoList ==
    \A c \in Commands : commands[c].phase = "list_invalid" =>
        ForPeers(c) \/ commands[c].mode = "remote"

\* A file that was broken when a command began is left for the user to repair:
\* no command replaces it by what it takes for its contents (Allowlist::load_at;
\* the test invalid_settings_do_not_fall_back_to_a_different_mode).
BrokenIsKept ==
    \/ edits' # edits
    \/ (~allowlist.valid => UNCHANGED allowlist) /\ (settings = "invalid" => UNCHANGED settings)
    \/ \E c \in Commands : commands[c].phase = "save" /\ edits > commands[c].seen
=============================================================================
