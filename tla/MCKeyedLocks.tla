---------------------------- MODULE MCKeyedLocks ----------------------------
(* Instances of LockManager for TLC: the wallets' keys of two players, which *)
(* have one level, and a player's key below them.                            *)
EXTENDS LockManager, TLC

CONSTANTS walletKey, otherKey, playerKey

MCLevel == (walletKey :> 3) @@ (otherKey :> 3) @@ (playerKey :> 0)
MCHierarchy == {playerKey}
MCMayDescend == {<<walletKey, playerKey>>, <<otherKey, playerKey>>}
MCBatches == {<<walletKey, otherKey>>, <<otherKey, walletKey>>}
=============================================================================
