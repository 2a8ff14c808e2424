--------------------------- MODULE BettingHandler ---------------------------
(***************************************************************************)
(* BettingHandler.handle_betting_action (pokerapp/betting_handler.py) on    *)
(* one table, driving WalletService and the versioned game state.          *)
(***************************************************************************)
EXTENDS WalletService

CONSTANTS
    NoRequest,     \* "no request holds the table lock"
    SlowHandlers,  \* TRUE: a handler may still be at work when the TTL is over
    MaxVersion     \* bound on the versions that other writers produce

ASSUME HandlerAssumption ==
    /\ NoRequest \notin Requests
    /\ SlowHandlers \in BOOLEAN
    /\ MaxVersion \in Nat

VARIABLES
    at,           \* the await each handle_betting_action stands before
    tableLock,    \* the request inside acquire_table_write_lock
    game,         \* the game state hash in Redis
    readVersion,  \* the version a request loaded under the lock
    bets          \* requests whose bet is in the saved game state

handlerVars == <<at, tableLock, game, readVersion, bets>>
vars == <<walletVars, handlerVars>>

Places == {"idle", "balance", "debit", "create", "unreserve", "lock", "load",
           "commit", "save", "rollback", "done"}

TypeOK ==
    /\ WalletTypeOK
    /\ at \in [Requests -> Places]
    /\ tableLock \in Requests \cup {NoRequest}
    /\ game \in [live : BOOLEAN, version : Nat, turn : Users]
    /\ readVersion \in [Requests -> Nat]
    /\ bets \subseteq Requests

Init ==
    /\ WalletInit
    /\ at = [r \in Requests |-> "idle"]
    /\ tableLock = NoRequest
    /\ \E u \in Users : game = [live |-> TRUE, version |-> 1, turn |-> u]
    /\ readVersion = [r \in Requests |-> 0]
    /\ bets = {}

-----------------------------------------------------------------------------
\* Control moves to place p; leaving the locked section releases the lock.
Goto(r, p) == at' = [at EXCEPT ![r] = p]

ReleaseLock(r) ==
    tableLock' = IF tableLock = r THEN NoRequest ELSE tableLock

\* _rollback(reservation_id, ..., allow_committed): a request that reserved
\* nothing just ends.
Abort(r, allow) ==
    IF Amount[r] > 0
    THEN /\ Goto(r, "rollback")
         /\ StartRollback("handler", r)
         /\ force' = [force EXCEPT ![r] = allow]
         /\ UNCHANGED tableLock
    ELSE /\ Goto(r, "done")
         /\ ReleaseLock(r)
         /\ UNCHANGED callVars

-----------------------------------------------------------------------------
(* Phase 1, without the table lock.                                        *)

\* _validate_action: rejected, free (fold, check), or to be paid for.
Validate(r) ==
    /\ at[r] = "idle"
    /\ \/ Goto(r, "done")
       \/ Amount[r] = 0 /\ Goto(r, "lock")
       \/ Amount[r] > 0 /\ Goto(r, "balance")
    /\ UNCHANGED <<walletVars, tableLock, game, readVersion, bets>>

CheckBalance(r) ==
    /\ at[r] = "balance"
    /\ Goto(r, IF balance[Owner[r]] >= Amount[r] THEN "debit" ELSE "done")
    /\ UNCHANGED <<walletVars, tableLock, game, readVersion, bets>>

\* The balance was read an await ago: the debit itself may be refused now.
Reserve(r) ==
    /\ at[r] = "debit"
    /\ \/ DebitWallet(r) /\ Goto(r, "create")
       \/ /\ balance[Owner[r]] < Amount[r] /\ Goto(r, "done")
          /\ UNCHANGED walletVars
       \/ DebitTimesOut(r) /\ Goto(r, "done")
    /\ UNCHANGED <<tableLock, game, readVersion, bets>>

Record(r) ==
    /\ at[r] = "create"
    /\ \/ CreateReservation(r) /\ Goto(r, "lock")
       \/ CreateTimesOut(r) /\ Goto(r, "unreserve")
    /\ UNCHANGED <<tableLock, game, readVersion, bets>>

Unreserve(r) ==
    /\ at[r] = "unreserve"
    /\ ReturnDebit(r) \/ ReturnDebitFails(r)
    /\ Goto(r, "done")
    /\ UNCHANGED <<tableLock, game, readVersion, bets>>

-----------------------------------------------------------------------------
(* Phase 2, _commit_with_retry and _commit_and_save.                       *)

AcquireLock(r) ==
    /\ at[r] = "lock"
    /\ tableLock = NoRequest
    /\ tableLock' = r
    /\ Goto(r, "load")
    /\ UNCHANGED <<walletVars, game, readVersion, bets>>

\* An attempt that times out is retried (no step here) until the policy says
\* otherwise.
GiveUpLock(r) ==
    /\ at[r] = "lock"
    /\ tableLock # NoRequest
    /\ Abort(r, FALSE)
    /\ UNCHANGED <<recordVars, chipVars, late, game, readVersion, bets>>

MayPlay(r) == game.live /\ game.turn = Owner[r]

LoadState(r) ==
    /\ at[r] = "load"
    /\ MayPlay(r)
    /\ readVersion' = [readVersion EXCEPT ![r] = game.version]
    /\ Goto(r, IF Amount[r] > 0 THEN "commit" ELSE "save")
    /\ UNCHANGED <<walletVars, tableLock, game, bets>>

RejectState(r) ==
    /\ at[r] = "load"
    /\ ~MayPlay(r)
    /\ Abort(r, FALSE)
    /\ UNCHANGED <<recordVars, chipVars, late, game, readVersion, bets>>

\* An exception before the commit ends the request without a rollback: the
\* refund is left to the watchdog.
LoadRaises(r) ==
    /\ "engine" \in Faults
    /\ at[r] = "load"
    /\ Goto(r, "done")
    /\ ReleaseLock(r)
    /\ UNCHANGED <<walletVars, game, readVersion, bets>>

Commit(r) ==
    /\ at[r] = "commit"
    /\ CommitReservation(r)
    /\ Goto(r, "save")
    /\ UNCHANGED <<tableLock, game, readVersion, bets>>

CommitFails(r) ==
    /\ at[r] = "commit"
    /\ \/ CommitRefused(r) /\ UNCHANGED late
       \/ "redis" \in Faults /\ GiveUpOn("commit", r)
    /\ Abort(r, TRUE)
    /\ UNCHANGED <<recordVars, chipVars, game, readVersion, bets>>

\* _apply_action and the compare-and-set of save_game_state_with_version: what
\* is written is the state that was loaded, with the bet of r in it.
AnyVersion(r) == TRUE  \* mutant of VersionMatches: a blind write

VersionMatches(r) == game.version = readVersion[r]

WriteState(r) ==
    /\ bets' = bets \cup {r}
    /\ \E u \in Users :
          game' = [live |-> TRUE, version |-> game.version + 1, turn |-> u]

SaveState(r) ==
    /\ at[r] = "save"
    /\ VersionMatches(r)
    /\ WriteState(r)
    /\ Goto(r, "done")
    /\ ReleaseLock(r)
    /\ UNCHANGED <<walletVars, readVersion>>

SaveConflict(r) ==
    /\ at[r] = "save"
    /\ ~VersionMatches(r)
    /\ Abort(r, TRUE)
    /\ UNCHANGED <<recordVars, chipVars, late, game, readVersion, bets>>

\* apply_betting_action or the save raises; when the reply of the script was
\* lost, the bet is in the saved state all the same.
SaveRaises(r) ==
    /\ at[r] = "save"
    /\ \/ "engine" \in Faults /\ UNCHANGED <<game, bets>>
       \/ "save" \in Faults /\ VersionMatches(r) /\ WriteState(r)
    /\ Abort(r, TRUE)
    /\ UNCHANGED <<recordVars, chipVars, late, readVersion>>

HandlerRollback(r) ==
    /\ at[r] = "rollback"
    /\ RollbackStep("handler", r)
    /\ UNCHANGED handlerVars

RollbackReturns(r) ==
    /\ at[r] = "rollback"
    /\ call["handler"][r] = "idle"
    /\ Goto(r, "done")
    /\ ReleaseLock(r)
    /\ UNCHANGED <<walletVars, game, readVersion, bets>>

-----------------------------------------------------------------------------
(* Everything else that runs meanwhile.                                    *)

WatchdogStep(r) ==
    /\ WatchdogFires(r) \/ RollbackStep("watchdog", r)
    /\ UNCHANGED handlerVars

\* While a handler is quick its reservation does not reach the TTL.
TimePasses(r) ==
    /\ \/ (SlowHandlers \/ at[r] = "done") /\ TTLReached(r)
       \/ GracePassed(r)
       \/ PendingExpires(r)
       \/ at[r] = "done" /\ FinalExpires(r)
    /\ UNCHANGED handlerVars

LateArrival(r) ==
    /\ \E op \in LateOps : LateEffect(op, r)
    /\ UNCHANGED handlerVars

\* Another writer of the same key, here or in another process: a different
\* action was saved, the hand ended or a new one began.
OtherWrite ==
    /\ game.version < MaxVersion
    /\ \E l \in BOOLEAN, u \in Users :
          game' = [live |-> l, version |-> game.version + 1, turn |-> u]
    /\ UNCHANGED <<walletVars, at, tableLock, readVersion, bets>>

Crash ==
    /\ "crash" \in Faults
    /\ \E r \in Requests : at[r] \notin {"idle", "done"} \/ watchdog[r] # "none"
    /\ LoseTasks
    /\ at' = [r \in Requests |-> IF at[r] = "idle" THEN "idle" ELSE "done"]
    /\ tableLock' = NoRequest
    /\ UNCHANGED <<game, readVersion, bets>>

Handle(r) ==
    \/ Validate(r)    \/ CheckBalance(r) \/ Reserve(r)     \/ Record(r)
    \/ Unreserve(r)   \/ AcquireLock(r)  \/ GiveUpLock(r)  \/ LoadState(r)
    \/ RejectState(r) \/ LoadRaises(r)   \/ Commit(r)      \/ CommitFails(r)
    \/ SaveState(r)   \/ SaveConflict(r) \/ SaveRaises(r)
    \/ HandlerRollback(r) \/ RollbackReturns(r)

Next ==
    \/ \E r \in Requests :
          Handle(r) \/ WatchdogStep(r) \/ TimePasses(r) \/ LateArrival(r)
    \/ OtherWrite
    \/ Crash

Spec == Init /\ [][Next]_vars

-----------------------------------------------------------------------------
(* Correctness.                                                            *)

\* A bet that is in the saved game state was debited once, was never given
\* back, and its reservation was not undone: whatever the watchdog, the expiry,
\* late scripts and a crash do around commit_reservation and the save.
PaidExactlyOnce ==
    \A r \in bets : Amount[r] > 0 =>
        /\ debits[r] = 1 /\ credits[r] = 0
        /\ record[r] \in {"committed", "absent"}

\* Why that holds, by the place the handler stands at: until the commit nothing
\* but the watchdog can touch the reservation, a refund makes it rolled_back
\* first, and from the commit on nobody touches it.
Untouched(r) ==
    /\ record[r] = "absent" /\ watchdog[r] = "none" /\ credits[r] = 0
    /\ call["watchdog"][r] = "idle" /\ late[r] = {}

Unrefunded(r) ==
    /\ credits[r] = 0
    /\ call["watchdog"][r] \in {"idle", "script"}
    /\ late[r] \subseteq {"rollback"}

Paid(r) ==
    /\ debits[r] = 1 /\ credits[r] = 0
    /\ watchdog[r] = "none" /\ call["watchdog"][r] = "idle"
    /\ late[r] \subseteq {"rollback"}

StageInv(r) ==
    /\ at[r] \in {"idle", "balance", "debit"} => Untouched(r) /\ debits[r] = 0
    /\ at[r] = "create" => Untouched(r) /\ debits[r] = 1
    /\ at[r] \in {"lock", "load", "commit"} =>
        /\ debits[r] = 1 /\ record[r] # "committed"
        /\ late[r] \subseteq {"rollback", "credit"}
        /\ record[r] = "pending" => Unrefunded(r)
    /\ at[r] = "save" => Paid(r) /\ record[r] = "committed"
    /\ r \in bets => /\ at[r] = "done" /\ Paid(r)
                     /\ record[r] \in {"committed", "absent"}

PaidInv == \A r \in Requests : Amount[r] > 0 => StageInv(r)

\* rollback_reservation, the except branch of reserve_chips and the watchdog
\* together never give back more than was taken ("return chips").
RefundedAtMostOnce == \A r \in Requests : credits[r] <= debits[r]

\* No task of the request is left and nothing is on its way.
Settled(r) ==
    /\ at[r] = "done" /\ watchdog[r] = "none" /\ late[r] = {}

\* "Rollback pending reservation - return chips", "Refund failure - push to
\* wallet:dlq": when everything about a request is over, debited chips are in a
\* bet, back in the wallet or in the dead-letter queue.
FailedBetIsRefunded ==
    \A r \in Requests : Settled(r) /\ debits[r] > 0 =>
        r \in bets \/ credits[r] > 0 \/ deadLetters[r] > 0

\* A bet is only written over a live state in which it is its player's turn,
\* although turn and version were read two awaits before the save.
SavedInTurn ==
    [][\A r \in Requests : r \in bets' \ bets => MayPlay(r)]_vars

\* The ledger of chips this protocol promises.
Chips(r) ==
    CASE Amount[r] = 0 \/ debits[r] = 0 -> "wallet"
      [] Amount[r] > 0 /\ debits[r] > 0 /\ credits[r] = 0 ->
            IF r \in bets THEN "bet" ELSE "held"
      [] OTHER -> IF r \in bets THEN "bet and returned" ELSE "returned"

Ledger == INSTANCE ChipLedger WITH chips <- [r \in Requests |-> Chips(r)]

LedgerSpec == Ledger!Spec

\* The event loop resumes every task that can run, and timers go off.
Fairness ==
    \A r \in Requests :
        /\ WF_vars(Handle(r))
        /\ WF_vars(WatchdogStep(r))
        /\ WF_vars(TimePasses(r))

FairSpec == Spec /\ Fairness

\* Debited chips do not stay held for ever: the handler or the watchdog brings
\* them into a bet, back, or to the dead-letter queue.
HeldChipsMove ==
    \A r \in Requests :
        debits[r] > 0 ~> (r \in bets \/ credits[r] > 0 \/ deadLetters[r] > 0)
=============================================================================
