---------------------------- MODULE PlainStream ----------------------------
(***************************************************************************)
(* What snapshot delivery promises to a feed: the items of a subscription  *)
(* arrive complete, once, in the order they were taken from it.  How the   *)
(* payloads travel (full, or as patches against acknowledged baselines) is *)
(* not visible here; Delivery implements it.                               *)
(***************************************************************************)
EXTENDS StreamItems

VARIABLES
    taken,          \* the item last taken from the subscription
    pipe,           \* items taken and not yet installed
    cache           \* the state the feed publishes

pvars == <<taken, pipe, cache>>

PInit ==
    /\ taken = NoEntry
    /\ pipe = <<>>
    /\ cache = [k \in Keys |-> NoEntry]

Deliver ==
    /\ pipe' = Append(pipe, taken')
    /\ UNCHANGED cache

Install ==
    /\ pipe # <<>>
    /\ pipe' = Tail(pipe)
    /\ cache' = Apply(cache, Head(pipe))
    /\ UNCHANGED taken

PSpec == PInit /\ [][Deliver \/ Install]_pvars
=============================================================================
