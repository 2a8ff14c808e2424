--------------------------- MODULE MCPlayerActions ---------------------------
(* Instances of PlayerActions for TLC.  The button of a task matters for     *)
(* actions only.                                                             *)
EXTENDS PlayerActions

CONSTANTS a1, a2, b1, b2, s1, old, del, writeLock, guardLock, call

AllKinds == [t \in Tasks |-> CASE t \in {a1, a2} -> "action"
                               [] t \in {b1, b2} -> "bet"
                               [] t = s1 -> "seat"
                               [] t = old -> "legacy"
                               [] OTHER -> "delete"]
TwoLocks == [t \in Tasks |-> IF t \in {b1, b2, s1} THEN guardLock ELSE writeLock]
SameButton == [t \in Tasks |-> call]
=============================================================================
