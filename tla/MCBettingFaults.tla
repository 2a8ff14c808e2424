--------------------------- MODULE MCBettingFaults ---------------------------
(* Two instances of BettingHandler in one check: with every fault but a lost *)
(* reply of the save, and with the faults refunds are promised under.        *)
EXTENDS MCBettingHandler

VARIABLE focus  \* the instance a behaviour is of

Refunds == INSTANCE BettingHandler WITH Faults <- {"credit", "engine"}

MCvars == <<vars, focus>>

MCInit == Init /\ focus \in {"faults", "refunds"}

MCNext ==
    /\ \/ focus = "faults" /\ Next
       \/ focus = "refunds" /\ Refunds!Next
    /\ UNCHANGED focus

MCFairness ==
    \A r \in Requests :
        /\ WF_MCvars(focus = "refunds" /\ Refunds!Handle(r) /\ UNCHANGED focus)
        /\ WF_MCvars(focus = "refunds" /\ Refunds!WatchdogStep(r) /\ UNCHANGED focus)
        /\ WF_MCvars(focus = "refunds" /\ Refunds!TimePasses(r) /\ UNCHANGED focus)

MCSpec == MCInit /\ [][MCNext]_MCvars /\ MCFairness

\* FailedBetIsRefunded, where nothing fails but refunds and the engine: debit,
\* script and queue calls that fail are beyond what the handler makes up for.
RefundsArrive == focus = "refunds" => FailedBetIsRefunded

\* HeldChipsMove under the same faults.
RefundsMove ==
    \A r \in Requests :
        focus = "refunds" /\ debits[r] > 0
            ~> (r \in bets \/ credits[r] > 0 \/ deadLetters[r] > 0)
=============================================================================
