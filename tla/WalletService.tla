--------------------------- MODULE WalletService ---------------------------
(***************************************************************************)
(* The wallet side of the two-phase betting protocol                       *)
(* (pokerapp/wallet_service.py).                                           *)
(*                                                                         *)
(* A reservation debits the player's wallet, records itself in Redis as    *)
(* pending and starts a watchdog task; it is then committed or rolled      *)
(* back.  Every await of the code is a step of its own, so the handler,    *)
(* the watchdog, Redis' expiry and late effects of timed-out calls         *)
(* interleave between any two of them.  The module holds the state and the *)
(* steps; BettingHandler composes them with the caller.                    *)
(***************************************************************************)
EXTENDS Naturals, FiniteSets

CONSTANTS
    Requests,        \* betting requests; each makes at most one reservation
    Users,           \* players
    Owner,           \* [Requests -> Users]
    Amount,          \* [Requests -> Nat], chips the request must pay
    InitialBalance,  \* [Users -> Nat]
    Faults           \* which calls may fail: a subset of FaultKinds

(* "debit"  the wallet debit times out     "credit" a wallet credit fails  *)
(* "redis"  a Redis script or read fails   "dlq"    a dead-letter push fails*)
(* "engine" loading or applying raises     "save"   the reply of the saving *)
(* script is lost                          "crash"  the bot process dies    *)
FaultKinds == {"debit", "credit", "redis", "dlq", "engine", "save", "crash"}

ASSUME RequestAssumption ==
    /\ Owner \in [Requests -> Users]
    /\ Amount \in [Requests -> Nat]
    /\ InitialBalance \in [Users -> Nat]
    /\ Faults \subseteq FaultKinds

Callers == {"handler", "watchdog"}

\* Operations that can take effect after their caller has given up on them.
LateOps == {"debit", "create", "commit", "rollback", "force", "credit"}

VARIABLES
    record,       \* status field of the Redis hash wallet:reservation:<id>
    age,          \* 0: before the TTL, 1: TTL reached, 2: grace period over
    watchdog,     \* the task in WalletService._watchdogs
    balance,      \* wallet repository
    debits,       \* how often the request's amount left the wallet
    credits,      \* how often it came back
    deadLetters,  \* entries pushed to wallet:dlq for the request
    call,         \* where a rollback_reservation call of a caller stands
    force,        \* allow_committed of the handler's rollback call
    late          \* timed-out operations that may still be executed

recordVars == <<record, age, watchdog>>
chipVars == <<balance, debits, credits, deadLetters>>
callVars == <<call, force>>
walletVars == <<recordVars, chipVars, callVars, late>>

WalletTypeOK ==
    /\ record \in [Requests -> {"absent", "pending", "committed", "rolled_back"}]
    /\ age \in [Requests -> 0..2]
    /\ watchdog \in [Requests -> {"none", "sleeping", "running"}]
    /\ balance \in [Users -> Nat]
    /\ debits \in [Requests -> Nat]
    /\ credits \in [Requests -> Nat]
    /\ deadLetters \in [Requests -> Nat]
    /\ call \in [Callers -> [Requests -> {"idle", "script", "load", "credit", "dlq"}]]
    /\ force \in [Requests -> BOOLEAN]
    /\ late \in [Requests -> SUBSET LateOps]

WalletInit ==
    /\ record = [r \in Requests |-> "absent"]
    /\ age = [r \in Requests |-> 0]
    /\ watchdog = [r \in Requests |-> "none"]
    /\ balance = InitialBalance
    /\ debits = [r \in Requests |-> 0]
    /\ credits = [r \in Requests |-> 0]
    /\ deadLetters = [r \in Requests |-> 0]
    /\ call = [c \in Callers |-> [r \in Requests |-> "idle"]]
    /\ force = [r \in Requests |-> FALSE]
    /\ late = [r \in Requests |-> {}]

-----------------------------------------------------------------------------
(* Building blocks.                                                        *)

\* Mutant of Debit: no check of the balance at the debit itself.
DebitUnchecked(r) ==
    /\ balance' = [balance EXCEPT ![Owner[r]] = @ - Amount[r]]
    /\ debits' = [debits EXCEPT ![r] = @ + 1]

Debit(r) ==
    /\ balance[Owner[r]] >= Amount[r]
    /\ balance' = [balance EXCEPT ![Owner[r]] = @ - Amount[r]]
    /\ debits' = [debits EXCEPT ![r] = @ + 1]

Credit(r) ==
    /\ balance' = [balance EXCEPT ![Owner[r]] = @ + Amount[r]]
    /\ credits' = [credits EXCEPT ![r] = @ + 1]

\* _with_timeout gave up on an operation: it is lost, or still on its way.
GiveUpOn(op, r) ==
    late' = late \/ late' = [late EXCEPT ![r] = @ \cup {op}]

\* _cancel_watchdog: the entry is popped and the task cancelled.  A task that
\* is inside its own rollback leaves whatever call it was awaiting behind.
WatchdogAwaits(r) ==
    CASE call["watchdog"][r] = "script" -> {"rollback"}
      [] call["watchdog"][r] = "credit" -> {"credit"}
      [] OTHER -> {}

CancelWatchdog(r) ==
    /\ watchdog' = [watchdog EXCEPT ![r] = "none"]
    /\ \E ops \in SUBSET WatchdogAwaits(r) :
          late' = [late EXCEPT ![r] = @ \cup ops]

\* Both callers' positions once caller c has reached pos and the watchdog of r
\* is cancelled.
CallAfterCancel(c, r) ==
    [call EXCEPT ![c][r] = "idle", !["watchdog"][r] = "idle"]

-----------------------------------------------------------------------------
(* reserve_chips after its balance check, one disjunct per await.          *)

DebitWallet(r) ==
    /\ Debit(r)
    /\ UNCHANGED <<recordVars, credits, deadLetters, callVars, late>>

DebitTimesOut(r) ==
    /\ "debit" \in Faults
    /\ GiveUpOn("debit", r)
    /\ UNCHANGED <<recordVars, chipVars, callVars>>

\* Mutant of CreateReservation: the watchdog is not scheduled.
CreateUnwatched(r) ==
    /\ record' = [record EXCEPT ![r] = "pending"]
    /\ UNCHANGED <<age, watchdog, chipVars, callVars, late>>

\* _CREATE_RESERVATION_SCRIPT and _schedule_watchdog.
CreateReservation(r) ==
    /\ record' = [record EXCEPT ![r] = "pending"]
    /\ watchdog' = [watchdog EXCEPT ![r] = "sleeping"]
    /\ UNCHANGED <<age, chipVars, callVars, late>>

CreateTimesOut(r) ==
    /\ "redis" \in Faults
    /\ GiveUpOn("create", r)
    /\ UNCHANGED <<recordVars, chipVars, callVars>>

\* The except branch gives the debited chips back.
ReturnDebit(r) ==
    /\ Credit(r)
    /\ UNCHANGED <<recordVars, debits, deadLetters, callVars, late>>

ReturnDebitFails(r) ==
    /\ "credit" \in Faults
    /\ GiveUpOn("credit", r)
    /\ UNCHANGED <<recordVars, chipVars, callVars>>

-----------------------------------------------------------------------------
(* commit_reservation.                                                     *)

\* Mutant of CommitReservation: it accepts a rolled-back record.
CommitAnyStatus(r) ==
    /\ record[r] # "absent"
    /\ record' = [record EXCEPT ![r] = "committed"]
    /\ CancelWatchdog(r)
    /\ call' = [call EXCEPT !["watchdog"][r] = "idle"]
    /\ UNCHANGED <<age, chipVars, force>>

CommitReservation(r) ==
    /\ record[r] \in {"pending", "committed"}
    /\ record' = [record EXCEPT ![r] = "committed"]
    /\ CancelWatchdog(r)
    /\ call' = [call EXCEPT !["watchdog"][r] = "idle"]
    /\ UNCHANGED <<age, chipVars, force>>

CommitRefused(r) == record[r] \in {"absent", "rolled_back"}

-----------------------------------------------------------------------------
(* rollback_reservation, called by the handler or by the watchdog.         *)

AllowCommitted(c, r) == c = "handler" /\ force[r]

StartRollback(c, r) == call' = [call EXCEPT ![c][r] = "script"]

\* _ROLLBACK_RESERVATION_SCRIPT says the chips are due: it answers "rolled_back"
\* for a pending record and for one that was rolled back before, "compensated"
\* for a committed one that may be undone.
RefundDue(c, r) ==
    \/ record[r] \in {"pending", "rolled_back"}
    \/ record[r] = "committed" /\ AllowCommitted(c, r)

RollbackScript(c, r) ==
    /\ call[c][r] = "script"
    /\ RefundDue(c, r)
    /\ record' = [record EXCEPT ![r] = "rolled_back"]
    /\ call' = [call EXCEPT ![c][r] = "load"]
    /\ UNCHANGED <<age, watchdog, chipVars, force, late>>

\* A call that ends without a refund leaves the watchdog alone, unless it is
\* the watchdog's own.
EndCall(c, r) ==
    /\ call' = [call EXCEPT ![c][r] = "idle"]
    /\ watchdog' = IF c = "watchdog" THEN [watchdog EXCEPT ![r] = "none"]
                                     ELSE watchdog

\* "missing", or "committed" without permission.
RollbackRefused(c, r) ==
    /\ call[c][r] = "script"
    /\ ~RefundDue(c, r)
    /\ EndCall(c, r)
    /\ UNCHANGED <<record, age, chipVars, force, late>>

RollbackTimesOut(c, r) ==
    /\ "redis" \in Faults
    /\ call[c][r] = "script"
    /\ GiveUpOn(IF AllowCommitted(c, r) THEN "force" ELSE "rollback", r)
    /\ EndCall(c, r)
    /\ UNCHANGED <<record, age, chipVars, force>>

LoadReservation(c, r) ==
    /\ call[c][r] = "load"
    /\ record[r] # "absent"
    /\ call' = [call EXCEPT ![c][r] = "credit"]
    /\ UNCHANGED <<recordVars, chipVars, force, late>>

\* _load_reservation swallows the error and answers None: nothing is credited,
\* the call still succeeds and the watchdog is cancelled.
LoadReservationFails(c, r) ==
    /\ "redis" \in Faults \/ record[r] = "absent"
    /\ call[c][r] = "load"
    /\ CancelWatchdog(r)
    /\ call' = CallAfterCancel(c, r)
    /\ UNCHANGED <<record, age, chipVars, force>>

\* Mutant of CreditRefund: the watchdog is not cancelled.
CreditKeepsWatchdog(c, r) ==
    /\ call[c][r] = "credit"
    /\ Credit(r)
    /\ EndCall(c, r)
    /\ UNCHANGED <<record, age, debits, deadLetters, force, late>>

CreditRefund(c, r) ==
    /\ call[c][r] = "credit"
    /\ Credit(r)
    /\ watchdog' = [watchdog EXCEPT ![r] = "none"]
    /\ IF c = "handler" THEN CancelWatchdog(r) ELSE UNCHANGED late
    /\ call' = CallAfterCancel(c, r)
    /\ UNCHANGED <<record, age, debits, deadLetters, force>>

\* Mutant of CreditFails: a refund that fails is not routed to the queue.
CreditFailsSilently(c, r) ==
    /\ "credit" \in Faults
    /\ call[c][r] = "credit"
    /\ CancelWatchdog(r)
    /\ call' = CallAfterCancel(c, r)
    /\ UNCHANGED <<record, age, chipVars, force>>

CreditFails(c, r) ==
    /\ "credit" \in Faults
    /\ call[c][r] = "credit"
    /\ GiveUpOn("credit", r)
    /\ call' = [call EXCEPT ![c][r] = "dlq"]
    /\ UNCHANGED <<recordVars, chipVars, force>>

\* _handle_refund_failure; a push that fails is only logged.
PushDeadLetter(c, r) ==
    /\ call[c][r] = "dlq"
    /\ \/ deadLetters' = [deadLetters EXCEPT ![r] = @ + 1]
       \/ "dlq" \in Faults /\ UNCHANGED deadLetters
    /\ CancelWatchdog(r)
    /\ call' = CallAfterCancel(c, r)
    /\ UNCHANGED <<record, age, balance, debits, credits, force>>

RollbackStep(c, r) ==
    \/ RollbackScript(c, r)
    \/ RollbackRefused(c, r)
    \/ RollbackTimesOut(c, r)
    \/ LoadReservation(c, r)
    \/ LoadReservationFails(c, r)
    \/ CreditRefund(c, r)
    \/ CreditFails(c, r)
    \/ PushDeadLetter(c, r)

-----------------------------------------------------------------------------
(* The watchdog, the record's expiry and effects that arrive late.         *)

\* _auto_rollback wakes up after reservation_ttl seconds.
WatchdogFires(r) ==
    /\ watchdog[r] = "sleeping"
    /\ age[r] > 0
    /\ watchdog' = [watchdog EXCEPT ![r] = "running"]
    /\ StartRollback("watchdog", r)
    /\ UNCHANGED <<record, age, chipVars, force, late>>

TTLReached(r) ==
    /\ record[r] # "absent"
    /\ age[r] = 0
    /\ age' = [age EXCEPT ![r] = 1]
    /\ UNCHANGED <<record, watchdog, chipVars, callVars, late>>

\* The grace period (30 s) outlasts the watchdog's wake-up and its one script
\* call, which is cut off after 5 s.
GracePassed(r) ==
    /\ age[r] = 1
    /\ watchdog[r] # "sleeping"
    /\ call["watchdog"][r] # "script"
    /\ age' = [age EXCEPT ![r] = 2]
    /\ UNCHANGED <<record, watchdog, chipVars, callVars, late>>

PendingExpires(r) ==
    /\ record[r] = "pending"
    /\ age[r] = 2
    /\ record' = [record EXCEPT ![r] = "absent"]
    /\ UNCHANGED <<age, watchdog, chipVars, callVars, late>>

\* Committed and rolled-back records live for another hour.
FinalExpires(r) ==
    /\ record[r] \in {"committed", "rolled_back"}
    /\ \A c \in Callers : call[c][r] = "idle"
    /\ record' = [record EXCEPT ![r] = "absent"]
    /\ UNCHANGED <<age, watchdog, chipVars, callVars, late>>

\* What the Redis scripts do to a record when nobody reads their answer.
LateStatus(op, status) ==
    CASE op = "create" /\ status = "absent" -> "pending"
      [] op = "commit" /\ status = "pending" -> "committed"
      [] op = "rollback" /\ status = "pending" -> "rolled_back"
      [] op = "force" /\ status \in {"pending", "committed"} -> "rolled_back"
      [] OTHER -> status

LateEffect(op, r) ==
    /\ op \in late[r]
    /\ late' = [late EXCEPT ![r] = @ \ {op}]
    /\ \/ op = "debit" /\ Debit(r) /\ UNCHANGED <<record, credits>>
       \/ /\ op = "debit" /\ balance[Owner[r]] < Amount[r]
          /\ UNCHANGED <<record, balance, debits, credits>>
       \/ op = "credit" /\ Credit(r) /\ UNCHANGED <<record, debits>>
       \/ /\ op \notin {"debit", "credit"}
          /\ record' = [record EXCEPT ![r] = LateStatus(op, @)]
          /\ UNCHANGED <<balance, debits, credits>>
    /\ UNCHANGED <<age, watchdog, deadLetters, callVars>>

\* The process dies: tasks are gone, Redis and the wallets stay.
LoseTasks ==
    /\ watchdog' = [r \in Requests |-> "none"]
    /\ call' = [c \in Callers |-> [r \in Requests |-> "idle"]]
    /\ UNCHANGED <<record, age, chipVars, force, late>>
=============================================================================
