------------------------------ MODULE MCTables ------------------------------
(* Two instances of PlayerActions in one check: two taps of a button beside a *)
(* request for a seat, and two bets beside the calls without a version.       *)
EXTENDS MCPlayerActions

VARIABLE focus  \* the instance a behaviour is of

Mixed == INSTANCE PlayerActions WITH Faults <- {"redis", "reply"}

Updating == {a1, a2, s1}

MCvars == <<vars, focus>>

MCInit == Init /\ focus \in {"updates", "mixed"}

Updates(t) == focus = "updates" /\ Step(t) /\ UNCHANGED focus

MCNext ==
    \/ \E t \in Updating : Updates(t)
    \/ focus = "mixed" /\ UNCHANGED focus /\ \E t \in Tasks \ Updating : Mixed!Step(t)
    \/ UNCHANGED focus /\ \E b \in Buttons : ActionLockExpires(b)

MCSpec == MCInit /\ [][MCNext]_MCvars /\ \A t \in Updating : WF_MCvars(Updates(t))

\* Every request of the first instance ends: only another writer can make one
\* retry (RequestsEnd).
UpdatesEnd == focus = "updates" ~> \A t \in Updating : pc[t] = "done"
=============================================================================
