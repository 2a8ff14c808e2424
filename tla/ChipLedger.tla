----------------------------- MODULE ChipLedger -----------------------------
(***************************************************************************)
(* What two-phase betting promises about the chips of a request: they      *)
(* leave the wallet once, and then either stay in the bet for good or are  *)
(* returned for good.  (docs/TWO_PHASE_COMMIT_DESIGN.md, Phase             *)
(* Responsibilities; implemented by BettingHandler and WalletService.)      *)
(***************************************************************************)
CONSTANT Requests

VARIABLE chips

Init == chips = [r \in Requests |-> "wallet"]

Move(r, from, to) ==
    /\ chips[r] = from
    /\ chips' = [chips EXCEPT ![r] = to]

Next ==
    \E r \in Requests :
        \/ Move(r, "wallet", "held")
        \/ Move(r, "held", "bet")
        \/ Move(r, "held", "returned")

Spec == Init /\ [][Next]_chips
=============================================================================
