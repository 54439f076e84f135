-------------------------- MODULE AccountRecovery --------------------------
(***************************************************************************)
(* AccountSession after the disturbances end: from some moment on the game *)
(* stays logged in with profile data, its memory is readable, subscribers  *)
(* keep their demand, the service accepts what is published, and the host  *)
(* (past any retry delay of its own) polls when schedule tells it to.      *)
(***************************************************************************)
EXTENDS AccountSession

VARIABLES
    calm,     \* the disturbances have ended
    elapsed   \* the time since then, up to ValidationRetry

\* The host polls for a new demand and for a passed deadline.
PollDue == \E t \in Topics :
    topic[t].demanded /\ (topic[t].new \/ ~s.topic[t].demanded \/ s.topic[t].left = 0)

\* The steps of a poll in which nothing goes wrong.
CalmPoll ==
    /\ pc = "idle" => PollDue
    /\ \/ StartPoll \/ AccountBefore \/ NoDataDue \/ DataBefore
       \/ TakeSample \/ DataAfter \/ AccountAfter \/ Publish \/ Accepted
    /\ \A c \in Checks : s'.checks[c].status = "Failed" => s.checks[c].left > 0
    /\ \A t \in Topics : s'.samples[t] # Failed
    /\ s'.dataKept
    /\ UNCHANGED elapsed

CalmTick ==
    /\ ~PollDue
    /\ Tick
    /\ elapsed' = IF elapsed < ValidationRetry THEN elapsed + 1 ELSE elapsed

\* A poll caught by the change of circumstances ends before they settle.
CalmDown ==
    /\ ~calm /\ pc = "idle" /\ game.account # 0 /\ game.data # 0
    /\ calm' = TRUE
    /\ UNCHANGED <<vars, elapsed>>

CalmInit == Init /\ calm = FALSE /\ elapsed = 0

CalmNext ==
    \/ ~calm /\ Next /\ UNCHANGED <<calm, elapsed>>
    \/ CalmDown
    \/ calm /\ (CalmPoll \/ CalmTick) /\ UNCHANGED calm

\* Whatever failures, deadlines, owners and refusals came before, one validation
\* retry later every demanded topic shows the present owner's data.
RecoversInTime ==
    calm /\ elapsed = ValidationRetry /\ pc = "idle" /\ ~PollDue =>
        \A t \in Topics : topic[t].demanded =>
            topic[t].shown /\ topic[t].owners = {OwnerOf(t, game)}
=============================================================================
