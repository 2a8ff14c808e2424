------------------------------- MODULE MCHand -------------------------------
(* Small tables for the hand: uneven wallets, so that side pots and failed *)
(* calls occur.                                                            *)
EXTENDS Hand

\* Three different wallets in every order: the big blind alone, one and two
\* raises more.  A short all-in, a side pot and a failed call all occur.
UnevenWallets == {w \in [Seats -> {2, 4, 5}] : \A s, q \in Seats : w[s] = w[q] => s = q}

\* The lowest seats are taken: what joining players are given.
NoGaps == {0 .. n - 1 : n \in 2 .. MaxPlayers}
=============================================================================
