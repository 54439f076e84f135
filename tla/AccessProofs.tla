---------------------------- MODULE AccessProofs ----------------------------
(***************************************************************************)
(* Proofs about the access files, for any number of commands, peers, names *)
(* and edits by hand.                                                      *)
(***************************************************************************)
EXTENDS Access, TLAPS

\* The lock is free or held by a command.
NobodyAssumption == MaxEdits \in Nat /\ Nobody \notin Commands

Named == Names \cup {NoName}
Ops == Operations \cup {[is |-> "none"]}
Policies ==
    {policy \in [mode : Modes \cup {"none"}, approved : SUBSET Peers] :
        policy.mode = "local" => policy.approved = {}}
Busy == {"settings", "list", "look", "save", "apply"}
Failed == {"settings_invalid", "list_invalid", "save_failed", "mismatch", "not_applied"}
Phases == {"none", "done"} \cup Busy \cup Failed
States == [op : Ops, phase : Phases, mode : Modes \cup {"none"}, list : Lists,
           running : BOOLEAN, want : Policies, seen : Nat]

Peerwise(k) == k.op.is \in {"allow", "revoke"}

\* What a command k that no edit came after has read is still what the files say: its
\* mode and list before the save, and after it the policy that it wants.
Current(k) ==
    /\ k.phase \in {"list", "look", "save"} =>
          settings \in Modes /\ (k.op.is # "access" => k.mode = settings)
    /\ k.phase \in {"look", "save"} =>
          IF Peerwise(k)
          THEN /\ allowlist.valid /\ k.list = Changed(allowlist.peers, k.op)
               /\ k.want = NewPolicy(k.mode, DOMAIN k.list)
          ELSE Loads(k.mode) /\ k.want = LoadedPolicy(k.mode)
    /\ k.phase = "apply" => Loads(settings) /\ k.want = LoadedPolicy(settings)

\* What holds of a command whoever edits the files.
Sound(k) ==
    /\ k.seen <= edits
    /\ k.phase \notin {"none", "settings", "settings_invalid"} => k.mode \in Modes
    /\ k.phase \in {"look", "save", "apply", "done"} /\ Peerwise(k) =>
          \E list \in Lists : k.want = NewPolicy(k.mode, DOMAIN Changed(list, k.op))
    /\ k.phase = "mismatch" => edits > k.seen
    /\ k.phase = "list_invalid" => Peerwise(k) \/ k.mode = "remote"
    /\ k.phase = "done" /\ k.running => active \in {k.want, NoPolicy}
    /\ k.seen = edits => Current(k)

Typed ==
    /\ settings \in Modes \cup {"invalid"}
    /\ allowlist \in [valid : BOOLEAN, peers : Lists]
    /\ expected \in Lists
    /\ lock \in Commands \cup {Nobody}
    /\ active \in Policies
    /\ edits \in 0 .. MaxEdits
    /\ commands \in [Commands -> States]

\* A command that has read something holds the lock until it returns.
Held == \A c \in Commands : commands[c].phase \in Busy \cup {"done"} => lock = c

\* Before the first edit the list is what the saved changes leave.
Unedited == edits = 0 => allowlist.valid /\ allowlist.peers = expected

\* The inductive invariant.
IInv == Typed /\ Held /\ Unedited /\ \A c \in Commands : Sound(commands[c])

-----------------------------------------------------------------------------
(* Lists and policies. *)

\* Of what operations are made.
LEMMA OpTyped ==
    ASSUME NEW op \in Ops
    PROVE  /\ op.is = "access" => op.mode \in Modes
           /\ op.is = "allow" => op.peer \in Peers /\ op.name \in Named
           /\ op.is = "revoke" => op.peer \in Peers
           /\ op.is \in {"none", "start", "access", "allow", "revoke"}
<1>1. CASE op \in [is : {"start"}] BY <1>1
<1>2. CASE op \in [is : {"access"}, mode : Modes] BY <1>2
<1>3. CASE op \in [is : {"allow"}, peer : Peers, name : Names \cup {NoName}]
  BY <1>3 DEF Named
<1>4. CASE op \in [is : {"revoke"}, peer : Peers] BY <1>4
<1>5. CASE op = [is |-> "none"] BY <1>5
<1> QED BY <1>1, <1>2, <1>3, <1>4, <1>5 DEF Ops, Operations

\* A list is a function from some of the peers to names.
LEMMA ListDef == \A l : l \in Lists <=> \E S \in SUBSET Peers : l \in [S -> Named]
  BY DEF Lists, Named

\* The domain of a list are peers, and its values names.
LEMMA ListDomain == \A l \in Lists : DOMAIN l \subseteq Peers /\ l \in [DOMAIN l -> Named]
  BY ListDef

\* The empty list is one.
LEMMA NoPeersTyped == NoPeers \in Lists
<1>1. NoPeers \in [{} -> Named] BY DEF NoPeers
<1> QED BY <1>1, ListDef

\* A change of a list is one, and it has the peer exactly if it was allowed.
LEMMA ChangedTyped ==
    ASSUME NEW l \in Lists, NEW op \in Ops
    PROVE  /\ Changed(l, op) \in Lists
           /\ op.is = "allow" => op.peer \in DOMAIN Changed(l, op)
           /\ op.is = "revoke" => op.peer \notin DOMAIN Changed(l, op)
<1>0. DOMAIN l \subseteq Peers /\ l \in [DOMAIN l -> Named] BY ListDomain
<1>1. CASE op.is = "revoke"
  <2>1. Changed(l, op) = [x \in DOMAIN l \ {op.peer} |-> l[x]]
    BY <1>1 DEF Changed, Restrict
  <2>2. Changed(l, op) \in [DOMAIN l \ {op.peer} -> Named] BY <1>0, <2>1
  <2> QED BY <1>0, <1>1, <2>1, <2>2, ListDef
<1>2. CASE op.is = "allow"
  <2> DEFINE S == DOMAIN l \cup {op.peer}
             g == [p \in S |->
                     IF p # op.peer \/ (p \in DOMAIN l /\ op.name = NoName) THEN l[p] ELSE op.name]
  <2>1. Changed(l, op) = g BY <1>2 DEF Changed
  <2>2. S \subseteq Peers /\ op.name \in Named BY <1>0, <1>2, OpTyped
  <2>3. g \in [S -> Named] BY <1>0, <2>2
  <2>4. DOMAIN g = S OBVIOUS
  <2> HIDE DEF g
  <2> QED BY <1>2, <2>1, <2>2, <2>3, <2>4, ListDef
<1>3. CASE op.is \notin {"allow", "revoke"}
  <2>1. Changed(l, op) = l BY <1>3 DEF Changed
  <2> QED BY <1>3, <2>1
<1> QED BY <1>1, <1>2, <1>3

\* A policy of a mode.
LEMMA PolicyTyped ==
    ASSUME NEW mode \in Modes, NEW S \in SUBSET Peers
    PROVE  NewPolicy(mode, S) \in Policies
  BY DEF NewPolicy, Policies, Modes

\* The policy of no service and the state of no command are ones.
LEMMA NoneTyped == NoPolicy \in Policies /\ NoCommand \in States
<1>1. NoPolicy \in Policies BY DEF NoPolicy, Policies, Modes
<1>2. [is |-> "none"] \in Ops BY DEF Ops
<1> QED BY <1>1, <1>2, NoPeersTyped DEF NoCommand, States, Phases

\* A command at rest has nothing to keep.
LEMMA NoneSound == ASSUME Typed PROVE Sound(NoCommand)
  BY DEF Typed, Sound, Current, NoCommand

\* The invariant holds with no command and empty files.
LEMMA InitInv == ASSUME NobodyAssumption, Init PROVE IInv
<1>1. Typed
  BY NoPeersTyped, NoneTyped DEF Init, Typed, NobodyAssumption, Modes
<1>2. Held BY DEF Init, Held, NoCommand, Busy
<1>3. Unedited BY DEF Init, Unedited
<1>4. \A c \in Commands : Sound(commands[c])
  BY <1>1, NoneSound DEF Init
<1> QED BY <1>1, <1>2, <1>3, <1>4 DEF IInv

-----------------------------------------------------------------------------
(* Steps. *)

FileVars == <<settings, allowlist, active>>

\* A step of one command: the files change only under its lock, so a command that has
\* read them is not disturbed.
LEMMA StepInv ==
    ASSUME NobodyAssumption, IInv, NEW c \in Commands, Typed', Unedited', edits' = edits,
           \A d \in Commands \ {c} : commands'[d] = commands[d],
           Sound(commands[c])', commands'[c].phase \in Busy \cup {"done"} => lock' = c,
           UNCHANGED FileVars \/ lock = c,
           \/ lock' = lock
           \/ lock = Nobody /\ lock' = c
           \/ lock = c /\ lock' = Nobody
    PROVE  IInv'
<1>1. ASSUME NEW d \in Commands \ {c} PROVE Sound(commands[d])'
  <2>1. Sound(commands[d]) /\ commands'[d] = commands[d] BY DEF IInv
  <2>2. CASE UNCHANGED FileVars
    BY <2>1, <2>2 DEF FileVars, Sound, Current, Loads, LoadedPolicy, ReadsList
  <2>3. CASE commands[d].phase \notin Busy \cup {"done"}
    BY <2>1, <2>3 DEF Sound, Current, Busy
  <2>4. CASE commands[d].phase \in Busy \cup {"done"}
    <3>1. lock = d BY <2>4 DEF IInv, Held
    <3> QED BY <2>2, <3>1
  <2> QED BY <2>3, <2>4
<1>2. ASSUME NEW d \in Commands, commands'[d].phase \in Busy \cup {"done"} PROVE lock' = d
  <2>1. CASE d = c BY <1>2, <2>1
  <2>2. CASE d # c
    <3>1. lock = d BY <1>2, <2>2 DEF IInv, Held
    <3> QED BY <2>2, <3>1 DEF NobodyAssumption
  <2> QED BY <2>1, <2>2
<1>3. Held' BY <1>2 DEF Held
<1>4. \A d \in Commands : Sound(commands[d])' BY <1>1
<1> QED BY <1>3, <1>4 DEF IInv

\* A step that changes nothing but a command, and the lock.
LEMMA OwnStep ==
    ASSUME NobodyAssumption, IInv, NEW c \in Commands,
           UNCHANGED <<settings, allowlist, active, expected, edits>>,
           commands' \in [Commands -> States],
           \A d \in Commands \ {c} : commands'[d] = commands[d],
           Sound(commands[c])', commands'[c].phase \in Busy \cup {"done"} => lock' = c,
           \/ lock' = lock
           \/ lock = Nobody /\ lock' = c
           \/ lock = c /\ lock' = Nobody
    PROVE  IInv'
<1>1. Typed' BY DEF IInv, Typed
<1>2. Unedited' BY DEF IInv, Unedited
<1> QED BY <1>1, <1>2, StepInv DEF FileVars

\* What goto leaves of a command.
LEMMA GotoState ==
    ASSUME Typed, NEW c \in Commands, NEW phase \in Phases, Goto(c, phase)
    PROVE  /\ commands' \in [Commands -> States]
           /\ \A d \in Commands \ {c} : commands'[d] = commands[d]
           /\ LET k == commands[c] n == commands'[c]
              IN  /\ n.phase = phase /\ n.op = k.op /\ n.mode = k.mode /\ n.list = k.list
                  /\ n.running = k.running /\ n.want = k.want /\ n.seen = k.seen
  BY DEF Typed, Goto, States

\* A command that fails loses the lock; what it must still say is why.
LEMMA FailInv ==
    ASSUME NobodyAssumption, IInv, NEW c \in Commands, NEW phase \in Failed, Fail(c, phase),
           lock = c, commands[c].mode \in Modes \/ phase = "settings_invalid",
           phase = "mismatch" => edits > commands[c].seen,
           phase = "list_invalid" => ForPeers(c) \/ commands[c].mode = "remote"
    PROVE  IInv'
<1>1. /\ Goto(c, phase) /\ lock' = Nobody
      /\ UNCHANGED <<settings, allowlist, active, expected, edits>>
  BY DEF Fail
<1>2. /\ commands' \in [Commands -> States]
      /\ \A d \in Commands \ {c} : commands'[d] = commands[d]
      /\ LET k == commands[c] n == commands'[c]
         IN  /\ n.phase = phase /\ n.op = k.op /\ n.mode = k.mode /\ n.seen = k.seen
  BY <1>1, GotoState DEF IInv, Phases
<1>3. commands[c].seen <= edits BY DEF IInv, Sound
<1>4. Sound(commands[c])' BY <1>1, <1>2, <1>3 DEF Sound, Current, Peerwise, ForPeers, Failed
<1> QED BY <1>1, <1>2, <1>4, OwnStep DEF Failed, Busy


\* A command that begins takes the lock and has read nothing.
LEMMA BeginInv ==
    ASSUME NobodyAssumption, IInv, NEW c \in Commands, NEW op \in Operations, Begin(c, op)
    PROVE  IInv'
<1> DEFINE k == [NoCommand EXCEPT !.op = op, !.phase = "settings", !.seen = edits]
<1>1. /\ lock = Nobody /\ lock' = c /\ commands' = [commands EXCEPT ![c] = k]
      /\ UNCHANGED <<settings, allowlist, active, expected, edits>>
  BY DEF Begin
<1>2. edits \in Nat /\ commands \in [Commands -> States] BY DEF IInv, Typed, NobodyAssumption
<1>3. k \in States /\ k.phase = "settings" /\ k.seen = edits
  BY <1>2, NoneTyped DEF States, Ops, Phases, Busy
<1> HIDE DEF k
<1>4. /\ commands' \in [Commands -> States] /\ commands'[c] = k
      /\ \A d \in Commands \ {c} : commands'[d] = commands[d]
  BY <1>1, <1>2, <1>3
<1>5. Sound(commands[c])' BY <1>1, <1>2, <1>3, <1>4 DEF Sound, Current
<1> QED BY <1>1, <1>4, <1>5, OwnStep

\* settings::load: the mode is the one asked for, or the one in the file.
LEMMA LoadSettingsInv ==
    ASSUME NobodyAssumption, IInv, NEW c \in Commands, LoadSettings(c)
    PROVE  IInv'
<1>0. /\ Typed /\ commands[c] \in States /\ commands[c].phase = "settings" /\ lock = c
      /\ Sound(commands[c])
  BY DEF LoadSettings, IInv, Typed, Held, Busy
<1>1. CASE settings \notin Modes
  BY <1>0, <1>1, FailInv DEF LoadSettings, Failed
<1>2. CASE settings \in Modes
  <2> DEFINE mode == IF commands[c].op.is = "access" THEN commands[c].op.mode ELSE settings
  <2>1. commands[c].op \in Ops BY <1>0 DEF States
  <2>2. mode \in Modes BY <1>2, <2>1, OpTyped
  <2>3. /\ commands' = [commands EXCEPT ![c].phase = "list", ![c].mode = mode]
        /\ UNCHANGED <<settings, allowlist, lock, active, expected, edits>>
    BY <1>2 DEF LoadSettings
  <2>4. commands[c].op.is # "access" => mode = settings OBVIOUS
  <2> HIDE DEF mode
  <2>5. /\ commands' \in [Commands -> States]
        /\ \A d \in Commands \ {c} : commands'[d] = commands[d]
        /\ LET k == commands[c] n == commands'[c]
           IN  n.phase = "list" /\ n.op = k.op /\ n.mode = mode /\ n.seen = k.seen
    BY <1>0, <2>2, <2>3 DEF Typed, States, Phases, Busy
  <2>6. Sound(commands[c])'
    BY <1>0, <1>2, <2>2, <2>3, <2>4, <2>5 DEF Sound, Current
  <2> QED BY <1>0, <2>3, <2>5, <2>6, OwnStep
<1> QED BY <1>1, <1>2

\* Allowlist::load or Policy::load: what the command wants follows from what it read.
LEMMA LoadListInv ==
    ASSUME NobodyAssumption, IInv, NEW c \in Commands, LoadList(c)
    PROVE  IInv'
<1>0. /\ Typed /\ commands[c] \in States /\ commands[c].phase = "list" /\ lock = c
      /\ Sound(commands[c]) /\ commands[c].mode \in Modes
  BY DEF LoadList, IInv, Typed, Held, Busy, Sound
<1>1. CASE ~ListLoads(c)
  <2>1. ForPeers(c) \/ commands[c].mode = "remote"
    BY <1>0, <1>1 DEF ListLoads, Loads, ReadsList
  <2> QED BY <1>0, <1>1, <2>1, FailInv DEF LoadList, Failed
<1>2. CASE ListLoads(c)
  <2> DEFINE old == IF allowlist.valid THEN allowlist.peers ELSE NoPeers
             list == Changed(old, commands[c].op)
             want == IF ForPeers(c) THEN NewPolicy(commands[c].mode, DOMAIN list)
                     ELSE LoadedPolicy(commands[c].mode)
  <2>1. commands[c].op \in Ops /\ old \in Lists
    BY <1>0, NoPeersTyped DEF States, Typed
  <2>2. list \in Lists /\ DOMAIN list \subseteq Peers BY <2>1, ChangedTyped, ListDomain
  <2>3. want \in Policies
    <3>1. DOMAIN allowlist.peers \subseteq Peers BY <1>0, ListDomain DEF Typed
    <3> QED BY <1>0, <2>2, <3>1, PolicyTyped DEF LoadedPolicy
  <2>4. /\ commands' = [commands EXCEPT ![c].phase = "look", ![c].list = list, ![c].want = want]
        /\ UNCHANGED <<settings, allowlist, lock, active, expected, edits>>
    BY <1>2 DEF LoadList
  <2>5. ForPeers(c) => /\ want = NewPolicy(commands[c].mode, DOMAIN list)
                       /\ allowlist.valid /\ list = Changed(allowlist.peers, commands[c].op)
                       /\ allowlist.peers \in Lists
    BY <1>0, <1>2 DEF ListLoads, Typed
  <2>6. ~ForPeers(c) => Loads(commands[c].mode) /\ want = LoadedPolicy(commands[c].mode)
    BY <1>2 DEF ListLoads
  <2> HIDE DEF list, want
  <2>7. /\ commands' \in [Commands -> States]
        /\ \A d \in Commands \ {c} : commands'[d] = commands[d]
        /\ LET k == commands[c] n == commands'[c]
           IN  /\ n.phase = "look" /\ n.op = k.op /\ n.mode = k.mode /\ n.seen = k.seen
               /\ n.list = list /\ n.want = want
    BY <1>0, <2>2, <2>3, <2>4 DEF Typed, States, Phases, Busy
  <2>8. Sound(commands[c])'
    BY <1>0, <2>4, <2>5, <2>6, <2>7
       DEF Sound, Current, Peerwise, ForPeers, Loads, LoadedPolicy, ReadsList
  <2> QED BY <1>0, <2>4, <2>7, <2>8, OwnStep
<1> QED BY <1>1, <1>2

\* current_agent changes nothing the command has read.
LEMMA LookInv ==
    ASSUME NobodyAssumption, IInv, NEW c \in Commands, LookForAgent(c)
    PROVE  IInv'
<1>0. /\ Typed /\ commands[c] \in States /\ commands[c].phase = "look" /\ lock = c
      /\ Sound(commands[c])
  BY DEF LookForAgent, IInv, Typed, Held, Busy, Sound
<1> DEFINE running == commands[c].op.is = "start" \/ active # NoPolicy
<1>1. /\ commands' = [commands EXCEPT ![c].phase = "save", ![c].running = running]
      /\ UNCHANGED <<settings, allowlist, lock, active, expected, edits>>
  BY DEF LookForAgent
<1>2. running \in BOOLEAN OBVIOUS
<1> HIDE DEF running
<1>3. /\ commands' \in [Commands -> States]
      /\ \A d \in Commands \ {c} : commands'[d] = commands[d]
      /\ LET k == commands[c] n == commands'[c]
         IN  /\ n.phase = "save" /\ n.op = k.op /\ n.mode = k.mode /\ n.seen = k.seen
             /\ n.list = k.list /\ n.want = k.want
  BY <1>0, <1>1, <1>2 DEF Typed, States, Phases, Busy
<1>4. Sound(commands[c])'
  BY <1>0, <1>1, <1>3 DEF Sound, Current, Peerwise, Loads, LoadedPolicy, ReadsList
<1> QED BY <1>0, <1>1, <1>3, <1>4, OwnStep


\* save: what the command read under the lock is what it replaces, so the change is
\* made to the list of the last saved one, and the files then load what it wants.
LEMMA SaveInv ==
    ASSUME NobodyAssumption, IInv, NEW c \in Commands, Save(c)
    PROVE  IInv'
<1> DEFINE k == commands[c]
<1>0. /\ Typed /\ k \in States /\ k.phase = "save" /\ lock = c
      /\ Sound(k) /\ k.mode \in Modes
  BY DEF Save, IInv, Typed, Held, Busy, Sound
<1>1. CASE commands[c].op.is # "start" /\ Fail(c, "save_failed")
  BY <1>0, <1>1, FailInv DEF Failed
<1>2. CASE /\ settings' = IF k.op.is = "access" THEN k.mode ELSE settings
           /\ IF ForPeers(c)
              THEN /\ allowlist' = [valid |-> TRUE, peers |-> k.list]
                   /\ expected' = Changed(expected, k.op)
              ELSE UNCHANGED <<allowlist, expected>>
           /\ Goto(c, IF k.running THEN "apply" ELSE "done")
           /\ UNCHANGED <<lock, active, edits>>
  <2> DEFINE phase == IF k.running THEN "apply" ELSE "done"
  <2>1. phase \in Phases BY DEF Phases, Busy
  <2>2. Goto(c, phase) BY <1>2
  <2>3. phase \in {"apply", "done"} /\ (phase = "done" => ~k.running)
    BY <1>0 DEF States
  <2> HIDE DEF phase
  <2>4. /\ commands' \in [Commands -> States]
        /\ \A d \in Commands \ {c} : commands'[d] = commands[d]
        /\ LET n == commands'[c]
           IN  /\ n.phase = phase /\ n.op = k.op /\ n.mode = k.mode /\ n.list = k.list
               /\ n.running = k.running /\ n.want = k.want /\ n.seen = k.seen
    BY <1>0, <2>1, <2>2, GotoState
  <2>5. k.list \in Lists /\ k.op \in Ops /\ k.seen \in Nat BY <1>0 DEF States
  <2>6. Typed'
    <3>1. settings' \in Modes \cup {"invalid"} BY <1>0, <1>2 DEF Typed
    <3>2. allowlist' \in [valid : BOOLEAN, peers : Lists]
      <4>1. CASE ForPeers(c)
        <5>1. allowlist' = [valid |-> TRUE, peers |-> k.list] BY <1>2, <4>1
        <5> QED BY <2>5, <5>1
      <4>2. CASE ~ForPeers(c) BY <1>0, <1>2, <4>2 DEF Typed
      <4> QED BY <4>1, <4>2
    <3>3. expected' \in Lists BY <1>0, <1>2, <2>5, ChangedTyped DEF Typed
    <3> QED BY <1>0, <1>2, <2>4, <3>1, <3>2, <3>3 DEF Typed
  <2>7. edits \in Nat /\ k.seen <= edits BY <1>0 DEF Typed, Sound, NobodyAssumption
  <2>8. Unedited'
    <3>1. CASE edits = 0
      <4>1. k.seen = edits BY <2>5, <2>7, <3>1
      <4>2. Current(k) BY <1>0, <4>1 DEF Sound
      <4>3. allowlist.valid /\ allowlist.peers = expected BY <3>1 DEF IInv, Unedited
      <4>4. CASE ForPeers(c)
        <5>1. k.list = Changed(allowlist.peers, k.op)
          BY <1>0, <4>2, <4>4 DEF Current, Peerwise, ForPeers
        <5> QED BY <1>2, <4>3, <4>4, <5>1 DEF Unedited
      <4>5. CASE ~ForPeers(c) BY <1>2, <4>3, <4>5 DEF Unedited
      <4> QED BY <4>4, <4>5
    <3>2. CASE edits # 0 BY <1>2, <3>2 DEF Unedited
    <3> QED BY <3>1, <3>2
  <2>9. ASSUME k.seen = edits PROVE (Loads(settings) /\ k.want = LoadedPolicy(settings))'
    <3>1. Current(k) BY <1>0, <2>9 DEF Sound
    <3>2. settings' = k.mode BY <1>0, <1>2, <3>1 DEF Current
    <3>3. commands'[c].want = k.want BY <2>4
    <3>4. CASE ForPeers(c)
      <4>1. k.want = NewPolicy(k.mode, DOMAIN k.list)
        BY <1>0, <3>1, <3>4 DEF Current, Peerwise, ForPeers
      <4>2. allowlist'.valid /\ allowlist'.peers = k.list BY <1>2, <3>4
      <4> QED BY <1>0, <3>2, <3>3, <4>1, <4>2 DEF Loads, LoadedPolicy, ReadsList, NewPolicy
    <3>5. CASE ~ForPeers(c)
      <4>1. Loads(k.mode) /\ k.want = LoadedPolicy(k.mode)
        BY <1>0, <3>1, <3>5 DEF Current, Peerwise, ForPeers
      <4>2. allowlist' = allowlist BY <1>2, <3>5
      <4> QED BY <3>2, <3>3, <4>1, <4>2 DEF Loads, LoadedPolicy, ReadsList
    <3> QED BY <3>4, <3>5
  <2>10. Sound(commands[c])'
    <3>1. Current(commands[c])' \/ k.seen # edits
      BY <2>3, <2>4, <2>9 DEF Current
    <3>2. edits' = edits BY <1>2
    <3> QED BY <1>0, <2>3, <2>4, <2>7, <3>1, <3>2 DEF Sound, Peerwise
  <2> QED BY <1>0, <1>2, <2>4, <2>6, <2>8, <2>10, StepInv
<1> QED BY <1>1, <1>2 DEF Save

\* start_configured: without an edit the files load the policy that the command wants.
LEMMA ApplyInv ==
    ASSUME NobodyAssumption, IInv, NEW c \in Commands, Apply(c)
    PROVE  IInv'
<1> DEFINE k == commands[c]
<1>0. /\ Typed /\ k \in States /\ k.phase = "apply" /\ lock = c
      /\ Sound(k) /\ k.mode \in Modes /\ k.seen <= edits
  BY DEF Apply, IInv, Typed, Held, Busy, Sound
<1>1. UNCHANGED <<settings, allowlist, expected, edits>> BY DEF Apply
<1>2. ASSUME NEW phase \in {"done", "mismatch", "not_applied"}, Goto(c, phase),
             active' \in {k.want, active, NoPolicy}, phase = "done" => active' = k.want,
             phase = "mismatch" => edits > k.seen,
             lock' = IF phase = "done" THEN lock ELSE Nobody
      PROVE  IInv'
  <2>1. phase \in Phases BY DEF Phases, Failed
  <2>2. /\ commands' \in [Commands -> States]
        /\ \A d \in Commands \ {c} : commands'[d] = commands[d]
        /\ LET n == commands'[c]
           IN  /\ n.phase = phase /\ n.op = k.op /\ n.mode = k.mode /\ n.list = k.list
               /\ n.running = k.running /\ n.want = k.want /\ n.seen = k.seen
    BY <1>0, <1>2, <2>1, GotoState
  <2>3. k.want \in Policies BY <1>0 DEF States
  <2>4. Typed' BY <1>0, <1>1, <1>2, <2>2, <2>3, NoneTyped DEF Typed
  <2>5. Unedited' BY <1>1 DEF IInv, Unedited
  <2>6. Sound(commands[c])' BY <1>0, <1>1, <1>2, <2>2 DEF Sound, Current, Peerwise
  <2> QED BY <1>0, <1>1, <1>2, <2>2, <2>4, <2>5, <2>6, StepInv DEF Busy
<1>3. CASE active' = k.want /\ Goto(c, "done") /\ UNCHANGED lock
  BY <1>2, <1>3
<1>4. CASE /\ ~(Loads(settings) /\ LoadedPolicy(settings) = k.want)
           /\ Goto(c, "mismatch") /\ active' = NoPolicy /\ lock' = Nobody
  <2>1. k.seen # edits BY <1>0, <1>4 DEF Sound, Current
  <2>2. edits > k.seen BY <1>0, <2>1 DEF Typed, States, NobodyAssumption
  <2> QED BY <1>2, <1>4, <2>2
<1>5. CASE Goto(c, "not_applied") /\ lock' = Nobody /\ active' \in {active, NoPolicy}
  BY <1>2, <1>5
<1> QED BY <1>3, <1>4, <1>5 DEF Apply

\* A command that returns or is killed leaves the lock to the others.
LEMMA GoneInv ==
    ASSUME NobodyAssumption, IInv, NEW c \in Commands, Return(c) \/ Kill(c)
    PROVE  IInv'
<1>1. /\ commands' = [commands EXCEPT ![c] = NoCommand]
      /\ lock' = IF lock = c THEN Nobody ELSE lock
      /\ UNCHANGED <<settings, allowlist, active, expected, edits>>
  BY DEF Return, Kill
<1>2. /\ commands' \in [Commands -> States] /\ commands'[c] = NoCommand
      /\ \A d \in Commands \ {c} : commands'[d] = commands[d]
  BY <1>1, NoneTyped DEF IInv, Typed
<1>3. Sound(commands[c])'
  <2>1. edits' \in Nat BY <1>1 DEF IInv, Typed, NobodyAssumption
  <2> QED BY <1>2, <2>1 DEF Sound, Current, NoCommand
<1> QED BY <1>1, <1>2, <1>3, OwnStep DEF NoCommand, Busy

\* The service stops by itself.
LEMMA StopsInv == ASSUME IInv, ServiceStops PROVE IInv'
<1>1. active' = NoPolicy /\ UNCHANGED <<settings, allowlist, lock, commands, expected, edits>>
  BY DEF ServiceStops
<1>2. Typed' BY <1>1, NoneTyped DEF IInv, Typed
<1>3. Held' /\ Unedited' BY <1>1 DEF IInv, Held, Unedited
<1>4. \A c \in Commands : Sound(commands[c])'
  BY <1>1 DEF IInv, Sound, Current, Loads, LoadedPolicy, ReadsList
<1> QED BY <1>2, <1>3, <1>4 DEF IInv

\* After an edit no command counts on what it has read.
LEMMA EditInv ==
    ASSUME NobodyAssumption, IInv, edits' = edits + 1, edits < MaxEdits,
           settings' \in Modes \cup {"invalid"},
           allowlist' \in [valid : BOOLEAN, peers : Lists], expected' \in Lists,
           UNCHANGED <<lock, active, commands>>
    PROVE  IInv'
<1>1. edits \in Nat BY DEF IInv, Typed, NobodyAssumption
<1>2. Typed' BY <1>1 DEF IInv, Typed, NobodyAssumption
<1>3. Held' /\ Unedited' BY <1>1 DEF IInv, Held, Unedited
<1>4. ASSUME NEW c \in Commands PROVE Sound(commands[c])'
  <2>1. commands'[c] = commands[c] /\ commands[c].seen \in Nat /\ Sound(commands[c])
    BY DEF IInv, Typed, States
  <2>2. commands[c].seen < edits' BY <1>1, <2>1 DEF Sound
  <2> QED BY <1>1, <2>1, <2>2 DEF Sound
<1> QED BY <1>2, <1>3, <1>4 DEF IInv

\* Every action keeps the invariant.
LEMMA NextInv == ASSUME NobodyAssumption, IInv, [Next]_vars PROVE IInv'
<1>1. CASE UNCHANGED vars
  BY <1>1 DEF vars, IInv, Typed, Held, Unedited, Sound, Current, Loads, LoadedPolicy, ReadsList
<1>2. ASSUME NEW c \in Commands, Command(c) PROVE IInv'
  BY <1>2, BeginInv, LoadSettingsInv, LoadListInv, LookInv, SaveInv, ApplyInv, GoneInv
     DEF Command
<1>3. CASE ServiceStops BY <1>3, StopsInv
<1>4. ASSUME NEW valid \in BOOLEAN, EditList(valid) PROVE IInv'
  <2>1. allowlist' \in [valid : BOOLEAN, peers : Lists] /\ expected' \in Lists
    BY <1>4, NoPeersTyped DEF EditList
  <2> QED BY <1>4, <2>1, EditInv DEF EditList, IInv, Typed
<1>5. ASSUME NEW text \in Modes \cup {"invalid"}, EditSettings(text) PROVE IInv'
  BY <1>5, EditInv DEF EditSettings, IInv, Typed
<1> QED BY <1>1, <1>2, <1>3, <1>4, <1>5 DEF Next


-----------------------------------------------------------------------------
(* Theorems. *)

\* The invariant holds in every state.
LEMMA SpecInv == ASSUME NobodyAssumption PROVE Spec => []IInv
  BY InitInv, NextInv, PTL DEF Spec

\* Until the user edits it, the list holds exactly what the saved changes leave, in
\* whatever order any number of commands load, save, fail or are killed.
THEOREM ChangesKept == ASSUME NobodyAssumption PROVE Spec => []NoLostChange
<1>1. IInv => NoLostChange BY DEF IInv, Unedited, NoLostChange
<1> QED BY <1>1, SpecInv, PTL

\* A command finds a service that does not have the policy it wants only if the user
\* edited the files after it began.
THEOREM WantsSaved == ASSUME NobodyAssumption PROVE Spec => []WantIsSaved
<1>1. IInv => WantIsSaved BY DEF IInv, Sound, WantIsSaved
<1> QED BY <1>1, SpecInv, PTL

\* When allow or revoke returns, a running service permits the peer or does not.
THEOREM EffectsHold == ASSUME NobodyAssumption PROVE Spec => []EffectOnReturn
<1>1. ASSUME IInv, NEW c \in Commands,
             commands[c].phase = "done", commands[c].running, active # NoPolicy,
             ForPeers(c), commands[c].mode = "remote"
      PROVE  Permits(active, commands[c].op.peer) <=> commands[c].op.is = "allow"
  <2> DEFINE k == commands[c]
  <2>1. k \in States /\ Sound(k) BY <1>1 DEF IInv, Typed
  <2>2. active = k.want BY <1>1, <2>1 DEF Sound
  <2>3. PICK list \in Lists : k.want = NewPolicy(k.mode, DOMAIN Changed(list, k.op))
    BY <1>1, <2>1 DEF Sound, Peerwise, ForPeers
  <2>4. active = [mode |-> "remote", approved |-> DOMAIN Changed(list, k.op)]
    BY <1>1, <2>2, <2>3 DEF NewPolicy
  <2>5. k.op \in Ops BY <2>1 DEF States
  <2> HIDE DEF k
  <2>6. Permits(active, k.op.peer) <=> k.op.peer \in DOMAIN Changed(list, k.op)
    BY <2>4 DEF Permits
  <2>7. k.op.is = "allow" \/ k.op.is = "revoke" BY <1>1 DEF ForPeers, k
  <2>8. Permits(active, k.op.peer) <=> k.op.is = "allow"
    BY <2>5, <2>6, <2>7, ChangedTyped
  <2> QED BY <2>8 DEF k
<1>2. IInv => EffectOnReturn BY <1>1 DEF EffectOnReturn
<1> QED BY <1>2, SpecInv, PTL

\* A list that cannot be read stops only the commands that need it.
THEOREM LocalStarts == ASSUME NobodyAssumption PROVE Spec => []LocalNeedsNoList
<1>1. IInv => LocalNeedsNoList
  BY DEF IInv, Sound, Peerwise, LocalNeedsNoList, ForPeers
<1> QED BY <1>1, SpecInv, PTL

\* No command replaces a file it found broken, unless the user broke it after the
\* command had read it.
THEOREM BrokenStays == ASSUME NobodyAssumption PROVE Spec => [][BrokenIsKept]_vars
<1>1. ASSUME IInv, [Next]_vars PROVE [BrokenIsKept]_vars
  <2>1. ASSUME NEW c \in Commands, Save(c) PROVE BrokenIsKept
    <3> DEFINE k == commands[c]
    <3>1. k \in States /\ Sound(k) /\ k.phase = "save" /\ edits \in Nat
      BY <1>1, <2>1 DEF IInv, Typed, Save, NobodyAssumption
    <3>2. k.seen \in Nat /\ k.seen <= edits BY <3>1 DEF States, Sound
    <3>3. CASE k.seen = edits
      <4>1. Current(k) BY <3>1, <3>3 DEF Sound
      <4>2. settings \in Modes /\ (ForPeers(c) => allowlist.valid)
        BY <3>1, <4>1 DEF Current, Peerwise, ForPeers
      <4>3. settings # "invalid" BY <4>2 DEF Modes
      <4>4. ~ForPeers(c) => allowlist' = allowlist BY <2>1 DEF Save, Fail
      <4> QED BY <4>2, <4>3, <4>4 DEF BrokenIsKept
    <3>4. CASE k.seen # edits BY <3>1, <3>2, <3>4 DEF BrokenIsKept
    <3> QED BY <3>3, <3>4
  <2>2. CASE UNCHANGED vars BY <2>2 DEF vars
  <2>3. ASSUME NEW c \in Commands, Command(c), ~Save(c) PROVE BrokenIsKept
    <3>1. UNCHANGED <<settings, allowlist>>
      BY <2>3 DEF Command, Begin, LoadSettings, LoadList, LookForAgent, Apply, Return, Kill, Fail
    <3> QED BY <3>1 DEF BrokenIsKept
  <2>4. CASE ServiceStops BY <2>4 DEF ServiceStops, BrokenIsKept
  <2>5. ASSUME NEW valid \in BOOLEAN, EditList(valid) PROVE BrokenIsKept
    <3>1. edits \in Nat BY <1>1 DEF IInv, Typed, NobodyAssumption
    <3> QED BY <2>5, <3>1 DEF EditList, BrokenIsKept
  <2>6. ASSUME NEW text, EditSettings(text) PROVE BrokenIsKept
    <3>1. edits \in Nat BY <1>1 DEF IInv, Typed, NobodyAssumption
    <3> QED BY <2>6, <3>1 DEF EditSettings, BrokenIsKept
  <2> QED BY <1>1, <2>1, <2>2, <2>3, <2>4, <2>5, <2>6 DEF Next
<1> QED BY <1>1, SpecInv, PTL DEF Spec

=============================================================================
