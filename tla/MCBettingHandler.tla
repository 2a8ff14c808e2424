--------------------------- MODULE MCBettingHandler ---------------------------
(* Instances of BettingHandler for TLC: two requests, of two players or of    *)
(* one player whose wallet holds enough for either bet but not for both.      *)
EXTENDS BettingHandler

CONSTANTS r1, r2, alice, bob

TwoPlayers == [r \in Requests |-> IF r = r1 THEN alice ELSE bob]
OnePlayer == [r \in Requests |-> alice]
Amounts == [r \in Requests |-> IF r = r1 THEN 2 ELSE 1]
OneFree == [r \in Requests |-> IF r = r1 THEN 2 ELSE 0]
Balances == [u \in Users |-> 2]
=============================================================================
