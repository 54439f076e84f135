------------------------------- MODULE ChatWalk --------------------------------
(***************************************************************************)
(* How the history of a channel is read (chat/acquisition.rs): a walk over *)
(* the game's doubly linked list of entries while the game appends to it,  *)
(* drops its oldest entries and reuses their nodes.  Chat takes the        *)
(* history as one value; this module is about why that is sound.           *)
(*                                                                         *)
(* Node 0 is the sentinel.  The game's appends and drops are several       *)
(* stores each, with the list in no proper state in between; the two links *)
(* of a node are read together, everything else is read on its own.        *)
(***************************************************************************)
EXTENDS Integers, Sequences, FiniteSets

CONSTANTS
    Nodes,          \* addresses of entries
    Kept,           \* entries the game keeps
    MaxEntries,     \* MAX_ENTRIES of the reader
    MaxMessages     \* bound on the messages written

WalkAssumption ==
    /\ Nodes \subseteq Nat \ {0} /\ IsFiniteSet(Nodes)
    /\ Kept \in Nat \ {0} /\ MaxEntries \in Nat \ {0} /\ MaxMessages \in Nat

VARIABLES
    links,      \* [next, previous] of each node and of the sentinel
    body,       \* the message of each node
    list,       \* the nodes of the list, as the game means it
    op,         \* the game's operation under way
    written,    \* messages written
    views,      \* the histories the channel had since the read began
    cached,     \* the history of the last read
    pc,         \* what is read next
    pass,       \* 0: against the cache; 1 and 2: read_stable
    head,       \* entry_links of the channel header
    current,    \* the node that is read
    entry,      \* its links and its message so far
    entries,    \* the entries of this pass
    first,      \* those of the first pass
    outcome     \* "reading", "accepted", "unchanged" or the error

game == <<links, body, list, op, written>>
local == <<pc, pass, head, current, entry, entries, first, outcome>>
vars == <<links, body, list, op, written, views, cached, pc, pass, head, current, entry,
          entries, first, outcome>>

Gone == 0       \* the message of a node that was never filled
None == <<>>
Idle == [kind |-> "none", node |-> 0]
NoEntry == [address |-> 0, links |-> [next |-> 0, previous |-> 0], body |-> Gone]

-----------------------------------------------------------------------------
(* The game.                                                                *)

Change == views' = views \cup {[i \in DOMAIN list' |-> body'[list'[i]]]}

Step(next, node) == op' = [kind |-> next, node |-> node]

Free == {n \in Nodes : \A i \in DOMAIN list : list[i] # n}

\* A node is filled before it is linked.
BeginAppend(n) ==
    /\ op = Idle /\ n \in Free /\ written < MaxMessages /\ Len(list) < Kept
    /\ written' = written + 1
    /\ body' = [body EXCEPT ![n] = written + 1]
    /\ links' = [links EXCEPT ![n] = [next |-> 0, previous |-> links[0].previous]]
    /\ Step("next", n)
    /\ UNCHANGED <<list, views>>

LinkForward ==
    /\ op.kind = "next"
    /\ links' = [links EXCEPT ![links[0].previous].next = op.node]
    /\ Step("tail", op.node)
    /\ UNCHANGED <<body, list, written, views>>

LinkTail ==
    /\ op.kind = "tail"
    /\ links' = [links EXCEPT ![0].previous = op.node]
    /\ list' = Append(list, op.node) /\ op' = Idle
    /\ UNCHANGED <<body, written>> /\ Change

\* The oldest entry is unlinked and its node is freed.  Links and message stay
\* in it until it is filled again: if they did not, reading them would fail and
\* end the read.
BeginDrop ==
    /\ op = Idle /\ list # <<>>
    /\ links' = [links EXCEPT ![0].next = links[list[1]].next]
    /\ Step("unlink", list[1])
    /\ UNCHANGED <<body, list, written, views>>

Unlink ==
    /\ op.kind = "unlink"
    /\ links' = [links EXCEPT ![links[op.node].next].previous = 0]
    /\ list' = Tail(list)
    /\ op' = Idle
    /\ UNCHANGED <<body, written>> /\ Change

Game ==
    /\ (\E n \in Nodes : BeginAppend(n)) \/ LinkForward \/ LinkTail \/ BeginDrop \/ Unlink
    /\ UNCHANGED local /\ UNCHANGED cached

-----------------------------------------------------------------------------
(* The read.                                                                *)

Fail(error) == outcome' = error /\ UNCHANGED <<pc, pass, head, current, entry, entries, first>>

\* headers: of the one channel only the links of its list of entries matter.
\* With the headers of the cached history only its tail is looked at.
ReadHead ==
    /\ pc = "head"
    /\ head' = links[0]
    /\ IF pass = 0
       THEN IF cached.head = links[0]
            THEN /\ UNCHANGED pass
                 /\ IF cached.entries = <<>> THEN pc' = "head_again" /\ UNCHANGED current
                    ELSE pc' = "links" /\ current' = cached.entries[Len(cached.entries)].address
            ELSE pass' = 1 /\ pc' = "head" /\ UNCHANGED current
       ELSE /\ UNCHANGED pass
            /\ current' = links[0].next
            /\ pc' = IF links[0].next = 0 THEN "end" ELSE "links"
    /\ entries' = <<>>
    /\ UNCHANGED <<entry, first, outcome>>

\* A walk stops at a limit and at a node it has already seen.
Endless ==
    \/ Len(entries) >= MaxEntries
    \/ \E i \in DOMAIN entries : entries[i].address = current

\* read_entry: the links, the message, and the links again.
ReadLinks ==
    /\ pc = "links"
    /\ \/ pass > 0 /\ Endless /\ Fail("invalid")
       \/ /\ pass > 0 => ~Endless
          /\ entry' = [address |-> current, links |-> links[current], body |-> Gone]
          /\ pc' = "body"
          /\ UNCHANGED <<pass, head, current, entries, first, outcome>>

ReadBody ==
    /\ pc = "body"
    /\ entry' = [entry EXCEPT !.body = body[current]]
    /\ pc' = "links_again"
    /\ UNCHANGED <<pass, head, current, entries, first, outcome>>

Previous == IF entries = <<>> THEN 0 ELSE entries[Len(entries)].address

ComesFrom == entry.links.previous = Previous

ReadLinksAgain ==
    /\ pc = "links_again"
    /\ \/ entry.links # links[current] /\ Fail("changed")
       \/ /\ entry.links = links[current] /\ pass = 0
          /\ \/ /\ entry = cached.entries[Len(cached.entries)]
                /\ pc' = "head_again" /\ UNCHANGED pass
             \/ /\ entry # cached.entries[Len(cached.entries)]
                /\ pc' = "head" /\ pass' = 1
          /\ UNCHANGED <<head, current, entry, entries, first, outcome>>
       \/ entry.links = links[current] /\ pass > 0 /\ ~ComesFrom /\ Fail("changed")
       \/ /\ entry.links = links[current] /\ pass > 0 /\ ComesFrom
          /\ entries' = Append(entries, entry)
          /\ current' = entry.links.next
          /\ pc' = IF entry.links.next = 0 THEN "end" ELSE "links"
          /\ UNCHANGED <<pass, head, entry, first, outcome>>

EndsAtTail == Previous = head.previous

\* The walk ended at the sentinel: from the tail the header named, or not.
EndWalk ==
    /\ pc = "end"
    /\ IF EndsAtTail
       THEN pc' = "head_again" /\ UNCHANGED <<pass, head, current, entry, entries, first, outcome>>
       ELSE Fail("changed")

\* The headers again end a pass: against the cache, the first and the second.
ReadHeadAgain ==
    /\ pc = "head_again"
    /\ \/ /\ pass = 0 /\ links[0] = head
          /\ outcome' = "unchanged"
          /\ UNCHANGED <<pc, pass, head, current, entry, entries, first>>
       \/ /\ pass = 0 /\ links[0] # head
          /\ pass' = 1 /\ pc' = "head"
          /\ UNCHANGED <<head, current, entry, entries, first, outcome>>
       \/ pass > 0 /\ links[0] # head /\ Fail("changed")
       \/ /\ pass = 1 /\ links[0] = head
          /\ pass' = 2 /\ pc' = "head" /\ first' = entries
          /\ UNCHANGED <<head, current, entry, entries, outcome>>
       \/ /\ pass = 2 /\ links[0] = head
          /\ outcome' = IF first = entries THEN "accepted" ELSE "changed"
          /\ UNCHANGED <<pc, pass, head, current, entry, entries, first>>

Read ==
    /\ outcome = "reading"
    /\ ReadHead \/ ReadLinks \/ ReadBody \/ ReadLinksAgain \/ EndWalk \/ ReadHeadAgain
    /\ UNCHANGED <<game, views, cached>>

\* The next poll begins with the history of the last one that was read.
Restart ==
    /\ outcome # "reading"
    /\ cached' = IF outcome = "accepted" THEN [head |-> head, entries |-> entries] ELSE cached
    /\ views' = {[i \in DOMAIN list |-> body[list[i]]]}
    /\ pc' = "head" /\ pass' = 0 /\ outcome' = "reading"
    /\ head' = NoEntry.links /\ current' = 0 /\ entry' = NoEntry /\ entries' = <<>> /\ first' = <<>>
    /\ UNCHANGED game

Init ==
    /\ links = [n \in Nodes \cup {0} |-> [next |-> 0, previous |-> 0]]
    /\ body = [n \in Nodes |-> Gone]
    /\ list = <<>> /\ op = Idle /\ written = 0
    /\ views = {<<>>}
    /\ cached = [head |-> NoEntry.links, entries |-> <<>>]
    /\ pc = "head" /\ pass = 1 /\ outcome = "reading"
    /\ head = NoEntry.links /\ current = 0 /\ entry = NoEntry /\ entries = <<>> /\ first = <<>>

Next == Game \/ Read \/ Restart

Spec == Init /\ [][Next]_vars

-----------------------------------------------------------------------------
(* Properties.                                                              *)

Messages(es) == [i \in DOMAIN es |-> es[i].body]

\* The history a poll works with is one the channel had during the poll: the
\* walk never follows a freed or reused node into another history, never stops
\* short, and a cached history is only called unchanged if it is
\* (read_chat, read_entry, headers).
HistoryWasTrue ==
    /\ outcome = "accepted" => Messages(entries) \in views
    /\ outcome = "unchanged" => Messages(cached.entries) \in views
=============================================================================
