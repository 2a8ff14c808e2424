----------------------- MODULE BettingHandler_proofs -----------------------
(***************************************************************************)
(* Proofs about the two-phase betting protocol, for any number of          *)
(* requests, players, amounts and other writers.                           *)
(*                                                                         *)
(*   TypeCorrect         no balance is ever negative, whatever fails       *)
(*   PaidOnce            a saved bet is paid for exactly once, unless the  *)
(*                       reply of the saving script is lost                *)
(*   SavedWithinTurn     a bet is saved in its player's turn               *)
(*   KeepsLedger         the protocol implements ChipLedger, unless that   *)
(*                       reply is lost                                     *)
(*   RefundedOnceAtMost  no bet is refunded twice, if handlers are quick   *)
(*   RefundsAreMade      nothing debited is forgotten, if only refunds and *)
(*                       the engine fail                                   *)
(***************************************************************************)
EXTENDS BettingHandler, TLAPS

USE RequestAssumption, HandlerAssumption

\* Every step concerns one request, the game state, or is a crash.
StepOf(r) == Handle(r) \/ WatchdogStep(r) \/ TimePasses(r) \/ LateArrival(r)

\* The wallet service and the handler start well typed.
LEMMA InitTypeOK == Init => TypeOK
BY DEF Init, WalletInit, TypeOK, WalletTypeOK, Callers, Places

\* A timed-out call leaves at most one known operation behind.
LEMMA GiveUpType ==
    ASSUME NEW op \in LateOps, NEW r \in Requests, WalletTypeOK, GiveUpOn(op, r)
    PROVE  late' \in [Requests -> SUBSET LateOps]
BY DEF GiveUpOn, WalletTypeOK

\* Every await of rollback_reservation keeps the wallet's types.
LEMMA RollbackStepType ==
    ASSUME NEW c \in Callers, NEW r \in Requests, WalletTypeOK, RollbackStep(c, r)
    PROVE  WalletTypeOK'
<1> USE DEF WalletTypeOK, Callers
<1>1. CASE RollbackScript(c, r)
  BY <1>1 DEF RollbackScript, chipVars
<1>2. CASE RollbackRefused(c, r)
  BY <1>2 DEF RollbackRefused, EndCall, chipVars
<1>3. CASE RollbackTimesOut(c, r)
  BY <1>3 DEF RollbackTimesOut, EndCall, GiveUpOn, LateOps, chipVars
<1>4. CASE LoadReservation(c, r)
  BY <1>4 DEF LoadReservation, chipVars, recordVars
<1>5. CASE LoadReservationFails(c, r)
  BY <1>5 DEF LoadReservationFails, CancelWatchdog, WatchdogAwaits,
     CallAfterCancel, LateOps, chipVars
<1>6. CASE CreditRefund(c, r)
  BY <1>6 DEF CreditRefund, Credit, CancelWatchdog, WatchdogAwaits,
     CallAfterCancel, LateOps, chipVars
<1>7. CASE CreditFails(c, r)
  BY <1>7 DEF CreditFails, GiveUpOn, LateOps, chipVars, recordVars
<1>8. CASE PushDeadLetter(c, r)
  BY <1>8 DEF PushDeadLetter, CancelWatchdog, WatchdogAwaits,
     CallAfterCancel, LateOps
<1> QED
  BY <1>1, <1>2, <1>3, <1>4, <1>5, <1>6, <1>7, <1>8 DEF RollbackStep

\* _rollback as called by the handler keeps the types of what it changes.
LEMMA AbortType ==
    ASSUME NEW r \in Requests, NEW allow, allow \in BOOLEAN, TypeOK, Abort(r, allow)
    PROVE  /\ at' \in [Requests -> Places]
           /\ tableLock' \in Requests \cup {NoRequest}
           /\ call' \in [Callers -> [Requests -> {"idle", "script", "load", "credit", "dlq"}]]
           /\ force' \in [Requests -> BOOLEAN]
BY DEF TypeOK, WalletTypeOK, Abort, Goto, ReleaseLock, StartRollback, Places,
   Callers, callVars

\* Phase 1.
LEMMA ReserveType ==
    ASSUME NEW r \in Requests, TypeOK,
           Validate(r) \/ CheckBalance(r) \/ Reserve(r) \/ Record(r) \/ Unreserve(r)
    PROVE  TypeOK'
<1> USE DEF TypeOK, WalletTypeOK, Goto, Places, walletVars, recordVars, chipVars,
        callVars
<1>1. CASE Validate(r)
  BY <1>1 DEF Validate
<1>2. CASE CheckBalance(r)
  BY <1>2 DEF CheckBalance
<1>3. CASE Reserve(r)
  <2>1. CASE DebitWallet(r) /\ Goto(r, "create")
    BY <1>3, <2>1 DEF Reserve, DebitWallet, Debit
  <2>2. CASE balance[Owner[r]] < Amount[r] /\ Goto(r, "done") /\ UNCHANGED walletVars
    BY <1>3, <2>2 DEF Reserve
  <2>3. CASE DebitTimesOut(r) /\ Goto(r, "done")
    BY <1>3, <2>3 DEF Reserve, DebitTimesOut, GiveUpOn, LateOps
  <2> QED
    BY <1>3, <2>1, <2>2, <2>3 DEF Reserve
<1>4. CASE Record(r)
  <2>1. CASE CreateReservation(r) /\ Goto(r, "lock")
    BY <1>4, <2>1 DEF Record, CreateReservation
  <2>2. CASE CreateTimesOut(r) /\ Goto(r, "unreserve")
    BY <1>4, <2>2, GiveUpType DEF Record, CreateTimesOut, LateOps
  <2> QED
    BY <1>4, <2>1, <2>2 DEF Record
<1>5. CASE Unreserve(r)
  <2>1. CASE ReturnDebit(r)
    BY <1>5, <2>1 DEF Unreserve, ReturnDebit, Credit
  <2>2. CASE ReturnDebitFails(r)
    BY <1>5, <2>2, GiveUpType DEF Unreserve, ReturnDebitFails, LateOps
  <2> QED
    BY <1>5, <2>1, <2>2 DEF Unreserve
<1> QED
  BY <1>1, <1>2, <1>3, <1>4, <1>5

\* Phase 2 up to the save.
LEMMA LockedType ==
    ASSUME NEW r \in Requests, TypeOK,
           \/ AcquireLock(r) \/ GiveUpLock(r) \/ LoadState(r) \/ RejectState(r)
           \/ LoadRaises(r) \/ Commit(r) \/ CommitFails(r)
    PROVE  TypeOK'
<1> USE DEF walletVars, recordVars, chipVars, callVars
<1>1. CASE AcquireLock(r)
  BY <1>1 DEF AcquireLock, TypeOK, WalletTypeOK, Goto, Places
<1>2. CASE GiveUpLock(r)
  <2>1. Abort(r, FALSE)
    BY <1>2 DEF GiveUpLock
  <2> QED
    BY <1>2, <2>1, AbortType DEF GiveUpLock, TypeOK, WalletTypeOK
<1>3. CASE LoadState(r)
  BY <1>3 DEF LoadState, TypeOK, WalletTypeOK, Goto, Places
<1>4. CASE RejectState(r)
  <2>1. Abort(r, FALSE)
    BY <1>4 DEF RejectState
  <2> QED
    BY <1>4, <2>1, AbortType DEF RejectState, TypeOK, WalletTypeOK
<1>5. CASE LoadRaises(r)
  BY <1>5 DEF LoadRaises, TypeOK, WalletTypeOK, Goto, Places, ReleaseLock
<1>6. CASE Commit(r)
  BY <1>6 DEF Commit, CommitReservation, CancelWatchdog, WatchdogAwaits, TypeOK,
     WalletTypeOK, Goto, Places, LateOps, Callers
<1>7. CASE CommitFails(r)
  <2>1. late' \in [Requests -> SUBSET LateOps]
    BY <1>7 DEF CommitFails, GiveUpOn, TypeOK, WalletTypeOK, LateOps
  <2> QED
    BY <1>7, <2>1, AbortType DEF CommitFails, TypeOK, WalletTypeOK
<1> QED
  BY <1>1, <1>2, <1>3, <1>4, <1>5, <1>6, <1>7

\* The saving script writes a well-typed game state.
LEMMA WriteType ==
    ASSUME NEW r \in Requests, TypeOK, WriteState(r)
    PROVE  /\ game' \in [live : BOOLEAN, version : Nat, turn : Users]
           /\ bets' \subseteq Requests
BY DEF TypeOK, WriteState

\* Neither do the save, its failures and the end of the handler break the types.
LEMMA SaveType ==
    ASSUME NEW r \in Requests, TypeOK,
           \/ SaveState(r) \/ SaveConflict(r) \/ SaveRaises(r)
           \/ HandlerRollback(r) \/ RollbackReturns(r)
    PROVE  TypeOK'
<1> USE DEF walletVars, recordVars, chipVars, callVars
<1>1. CASE SaveState(r)
  BY <1>1, WriteType DEF SaveState, TypeOK, WalletTypeOK, Goto, Places, ReleaseLock
<1>2. CASE SaveConflict(r)
  BY <1>2, AbortType DEF SaveConflict, TypeOK, WalletTypeOK
<1>3. CASE SaveRaises(r)
  BY <1>3, AbortType, WriteType DEF SaveRaises, TypeOK, WalletTypeOK
<1>4. CASE HandlerRollback(r)
  BY <1>4, RollbackStepType DEF HandlerRollback, handlerVars, TypeOK, Callers
<1>5. CASE RollbackReturns(r)
  BY <1>5 DEF RollbackReturns, TypeOK, WalletTypeOK, Goto, Places, ReleaseLock
<1> QED
  BY <1>1, <1>2, <1>3, <1>4, <1>5

\* Watchdog, clock and late effects keep the types.
LEMMA BackgroundType ==
    ASSUME NEW r \in Requests, TypeOK,
           WatchdogStep(r) \/ TimePasses(r) \/ LateArrival(r)
    PROVE  TypeOK'
<1> USE DEF TypeOK, handlerVars, recordVars, chipVars, callVars
<1>1. CASE WatchdogStep(r)
  <2>1. CASE WatchdogFires(r)
    BY <1>1, <2>1 DEF WatchdogStep, WatchdogFires, StartRollback, WalletTypeOK, Callers
  <2>2. CASE RollbackStep("watchdog", r)
    BY <1>1, <2>2, RollbackStepType DEF WatchdogStep, Callers
  <2> QED
    BY <1>1, <2>1, <2>2 DEF WatchdogStep
<1>2. CASE TimePasses(r)
  BY <1>2 DEF TimePasses, TTLReached, GracePassed, PendingExpires, FinalExpires,
     WalletTypeOK
<1>3. CASE LateArrival(r)
  <2>1. PICK op \in LateOps : LateEffect(op, r)
    BY <1>3 DEF LateArrival
  <2>2. UNCHANGED handlerVars
    BY <1>3 DEF LateArrival
  <2>3. record' \in [Requests -> {"absent", "pending", "committed", "rolled_back"}]
    BY <2>1 DEF LateEffect, LateStatus, WalletTypeOK
  <2>4. /\ balance' \in [Users -> Nat]
        /\ debits' \in [Requests -> Nat]
        /\ credits' \in [Requests -> Nat]
    <3>1. CASE Debit(r) /\ UNCHANGED credits
      BY <3>1 DEF Debit, WalletTypeOK
    <3>2. CASE Credit(r) /\ UNCHANGED debits
      BY <3>2 DEF Credit, WalletTypeOK
    <3>3. CASE UNCHANGED <<balance, debits, credits>>
      BY <3>3 DEF WalletTypeOK
    <3> QED
      BY <2>1, <3>1, <3>2, <3>3 DEF LateEffect
  <2> QED
    BY <2>1, <2>2, <2>3, <2>4 DEF LateEffect, WalletTypeOK
<1> QED
  BY <1>1, <1>2, <1>3

\* Every step keeps the types.
LEMMA NextTypeOK == TypeOK /\ [Next]_vars => TypeOK'
<1> SUFFICES ASSUME TypeOK, [Next]_vars PROVE TypeOK'
  OBVIOUS
<1>1. ASSUME NEW r \in Requests, StepOf(r) PROVE TypeOK'
  BY <1>1, ReserveType, LockedType, SaveType, BackgroundType DEF StepOf, Handle
<1>2. CASE OtherWrite
  BY <1>2 DEF OtherWrite, TypeOK, WalletTypeOK, walletVars, recordVars, chipVars, callVars
<1>3. CASE Crash
  BY <1>3 DEF Crash, LoseTasks, TypeOK, WalletTypeOK, Places, chipVars
<1>4. CASE UNCHANGED vars
  BY <1>4 DEF vars, handlerVars, TypeOK, WalletTypeOK, walletVars, recordVars,
     chipVars, callVars
<1> QED
  BY <1>1, <1>2, <1>3, <1>4 DEF Next, StepOf

\* Type correctness of the two-phase betting protocol.
THEOREM TypeCorrect == Spec => []TypeOK
<1>1. Init => TypeOK
  BY InitTypeOK
<1>2. TypeOK /\ [Next]_vars => TypeOK'
  BY NextTypeOK
<1> QED
  BY <1>1, <1>2, PTL DEF Spec

-----------------------------------------------------------------------------
(* A saved bet is paid for exactly once.  The inductive invariant PaidInv   *)
(* speaks of one request at a time: a step of another request leaves all it *)
(* mentions alone.                                                          *)

Same(q) ==
    /\ record'[q] = record[q] /\ watchdog'[q] = watchdog[q] /\ age'[q] = age[q]
    /\ debits'[q] = debits[q] /\ credits'[q] = credits[q]
    /\ call'["watchdog"][q] = call["watchdog"][q] /\ late'[q] = late[q]
    /\ call'["handler"][q] = call["handler"][q]
    /\ deadLetters'[q] = deadLetters[q] /\ force'[q] = force[q]
    /\ at'[q] = at[q] /\ (q \in bets' <=> q \in bets)

\* The invariant of a request survives whatever leaves its fields alone.
LEMMA SameKeeps ==
    ASSUME NEW q \in Requests, StageInv(q), Same(q)
    PROVE  StageInv(q)'
BY DEF StageInv, Same, Untouched, Unrefunded, Paid

\* A rollback touches no other request.
LEMMA RollbackFrame ==
    ASSUME NEW c \in Callers, NEW r \in Requests, NEW q \in Requests, q # r,
           WalletTypeOK, RollbackStep(c, r)
    PROVE  /\ record'[q] = record[q] /\ watchdog'[q] = watchdog[q] /\ age'[q] = age[q]
           /\ debits'[q] = debits[q] /\ credits'[q] = credits[q]
           /\ call'["watchdog"][q] = call["watchdog"][q] /\ late'[q] = late[q]
           /\ call'["handler"][q] = call["handler"][q]
           /\ deadLetters'[q] = deadLetters[q] /\ force'[q] = force[q]
<1> USE DEF WalletTypeOK, Callers, chipVars, recordVars
<1>1. CASE RollbackScript(c, r)
  BY <1>1 DEF RollbackScript
<1>2. CASE RollbackRefused(c, r)
  BY <1>2 DEF RollbackRefused, EndCall
<1>3. CASE RollbackTimesOut(c, r)
  BY <1>3 DEF RollbackTimesOut, EndCall, GiveUpOn
<1>4. CASE LoadReservation(c, r)
  BY <1>4 DEF LoadReservation
<1>5. CASE LoadReservationFails(c, r)
  BY <1>5 DEF LoadReservationFails, CancelWatchdog, CallAfterCancel
<1>6. CASE CreditRefund(c, r)
  BY <1>6 DEF CreditRefund, Credit, CancelWatchdog, CallAfterCancel
<1>7. CASE CreditFails(c, r)
  BY <1>7 DEF CreditFails, GiveUpOn
<1>8. CASE PushDeadLetter(c, r)
  BY <1>8 DEF PushDeadLetter, CancelWatchdog, CallAfterCancel
<1> QED
  BY <1>1, <1>2, <1>3, <1>4, <1>5, <1>6, <1>7, <1>8 DEF RollbackStep

\* What the handler's _rollback call means for control and the watchdog.
LEMMA AbortFrame ==
    ASSUME NEW r \in Requests, NEW allow, TypeOK, Abort(r, allow)
    PROVE  /\ at' = [at EXCEPT ![r] = IF Amount[r] > 0 THEN "rollback" ELSE "done"]
           /\ call'["watchdog"] = call["watchdog"]
           /\ \A q \in Requests \ {r} :
                call'["handler"][q] = call["handler"][q] /\ force'[q] = force[q]
BY DEF TypeOK, WalletTypeOK, Abort, Goto, StartRollback, Callers, callVars

\* A step of one request touches no other request.
LEMMA StepFrame ==
    ASSUME NEW r \in Requests, NEW q \in Requests, q # r, TypeOK, StepOf(r)
    PROVE  Same(q)
<1> USE DEF TypeOK, WalletTypeOK, Same, Goto, walletVars, recordVars, chipVars,
        callVars, handlerVars
<1>1. CASE Validate(r) \/ CheckBalance(r) \/ LoadState(r) \/ LoadRaises(r)
           \/ AcquireLock(r) \/ RollbackReturns(r)
  BY <1>1 DEF Validate, CheckBalance, LoadState, LoadRaises, AcquireLock,
     RollbackReturns
<1>2. CASE Reserve(r)
  BY <1>2 DEF Reserve, DebitWallet, Debit, DebitTimesOut, GiveUpOn
<1>3. CASE Record(r)
  BY <1>3 DEF Record, CreateReservation, CreateTimesOut, GiveUpOn
<1>4. CASE Unreserve(r)
  BY <1>4 DEF Unreserve, ReturnDebit, ReturnDebitFails, Credit, GiveUpOn
<1>5. CASE GiveUpLock(r) \/ RejectState(r) \/ SaveConflict(r)
  BY <1>5, AbortFrame DEF GiveUpLock, RejectState, SaveConflict
<1>6. CASE Commit(r)
  BY <1>6 DEF Commit, CommitReservation, CancelWatchdog, Callers
<1>7. CASE CommitFails(r)
  <2>1. Abort(r, TRUE) /\ late'[q] = late[q]
    BY <1>7 DEF CommitFails, GiveUpOn
  <2> QED
    BY <1>7, <2>1, AbortFrame DEF CommitFails
<1>8. CASE SaveState(r)
  BY <1>8 DEF SaveState, WriteState
<1>9. CASE SaveRaises(r)
  BY <1>9, AbortFrame DEF SaveRaises, WriteState
<1>10. CASE HandlerRollback(r)
  BY <1>10, RollbackFrame DEF HandlerRollback, Callers
<1>11. CASE WatchdogStep(r)
  BY <1>11, RollbackFrame DEF WatchdogStep, WatchdogFires, StartRollback, Callers
<1>12. CASE TimePasses(r)
  BY <1>12 DEF TimePasses, TTLReached, GracePassed, PendingExpires, FinalExpires
<1>13. CASE LateArrival(r)
  BY <1>13 DEF LateArrival, LateEffect, Debit, Credit
<1> QED
  BY <1>1, <1>2, <1>3, <1>4, <1>5, <1>6, <1>7, <1>8, <1>9, <1>10, <1>11, <1>12,
     <1>13 DEF StepOf, Handle

(* The request's own steps, place by place. *)
LEMMA OwnReserve ==
    ASSUME NEW r \in Requests, Amount[r] > 0, TypeOK, StageInv(r),
           Validate(r) \/ CheckBalance(r) \/ Reserve(r) \/ Record(r) \/ Unreserve(r)
    PROVE  StageInv(r)'
<1> USE DEF TypeOK, WalletTypeOK, StageInv, Goto, walletVars, recordVars, chipVars,
        callVars
<1>1. CASE Validate(r) \/ CheckBalance(r)
  BY <1>1 DEF Validate, CheckBalance, Untouched
<1>2. CASE Reserve(r)
  BY <1>2 DEF Reserve, DebitWallet, Debit, DebitTimesOut, Untouched
<1>3. CASE Record(r)
  BY <1>3 DEF Record, CreateReservation, CreateTimesOut, Untouched, Unrefunded
<1>4. CASE Unreserve(r)
  BY <1>4 DEF Unreserve
<1> QED
  BY <1>1, <1>2, <1>3, <1>4

\* Phase 2 up to commit_reservation keeps it: a commit finds the record pending,
\* so nothing was refunded.
LEMMA OwnCommit ==
    ASSUME NEW r \in Requests, Amount[r] > 0, TypeOK, StageInv(r),
           \/ AcquireLock(r) \/ GiveUpLock(r) \/ LoadState(r) \/ RejectState(r)
           \/ LoadRaises(r) \/ Commit(r) \/ CommitFails(r)
    PROVE  StageInv(r)'
<1> USE DEF TypeOK, WalletTypeOK, StageInv, walletVars, recordVars, chipVars,
        callVars
<1>1. CASE AcquireLock(r) \/ LoadState(r) \/ LoadRaises(r)
  BY <1>1 DEF AcquireLock, LoadState, LoadRaises, Goto, Unrefunded
<1>2. CASE GiveUpLock(r) \/ RejectState(r)
  <2>1. at[r] \in {"lock", "load"} /\ Abort(r, FALSE) /\ bets' = bets
    BY <1>2 DEF GiveUpLock, RejectState
  <2>2. at'[r] = "rollback" /\ r \notin bets
    BY <2>1, AbortFrame
  <2> QED
    BY <2>1, <2>2
<1>3. CASE Commit(r)
  <2>1. record[r] = "pending" /\ Unrefunded(r) /\ debits[r] = 1
    BY <1>3 DEF Commit, CommitReservation
  <2>2. late'[r] \subseteq {"rollback"}
    BY <1>3, <2>1 DEF Commit, CommitReservation, CancelWatchdog, WatchdogAwaits,
       Unrefunded
  <2>3. Paid(r)' /\ record'[r] = "committed" /\ at'[r] = "save" /\ bets' = bets
    BY <1>3, <2>1, <2>2 DEF Commit, CommitReservation, CancelWatchdog, Goto,
       Unrefunded, Paid, Callers
  <2> QED
    BY <1>3, <2>3 DEF Commit
<1>4. CASE CommitFails(r)
  <2>1. at[r] = "commit" /\ Abort(r, TRUE) /\ bets' = bets
    BY <1>4 DEF CommitFails
  <2>2. at'[r] = "rollback" /\ r \notin bets
    BY <2>1, AbortFrame
  <2> QED
    BY <2>1, <2>2
<1> QED
  BY <1>1, <1>2, <1>3, <1>4

\* The save and the handler's rollback keep it.
LEMMA OwnSave ==
    ASSUME NEW r \in Requests, Amount[r] > 0, TypeOK, StageInv(r),
           "save" \notin Faults,
           \/ SaveState(r) \/ SaveConflict(r) \/ SaveRaises(r)
           \/ HandlerRollback(r) \/ RollbackReturns(r)
    PROVE  StageInv(r)'
<1> USE DEF TypeOK, WalletTypeOK, StageInv, walletVars, recordVars, chipVars,
        callVars
<1>1. CASE SaveState(r)
  BY <1>1 DEF SaveState, WriteState, Goto, Paid
<1>2. CASE SaveConflict(r) \/ SaveRaises(r)
  <2>1. at'[r] = "rollback" /\ r \notin bets
    BY <1>2, AbortFrame DEF SaveConflict, SaveRaises
  <2>2. bets' = bets
    BY <1>2 DEF SaveConflict, SaveRaises
  <2> QED
    BY <2>1, <2>2
<1>3. CASE HandlerRollback(r)
  BY <1>3 DEF HandlerRollback, handlerVars
<1>4. CASE RollbackReturns(r)
  BY <1>4 DEF RollbackReturns, Goto
<1> QED
  BY <1>1, <1>2, <1>3, <1>4

\* The watchdog's rollback on a request that has reached neither the save nor
\* the saved state.
LEMMA OwnWatchdog ==
    ASSUME NEW r \in Requests, Amount[r] > 0, TypeOK, StageInv(r), WatchdogStep(r)
    PROVE  StageInv(r)'
<1> USE DEF TypeOK, WalletTypeOK, StageInv, recordVars, chipVars, callVars, handlerVars
<1>1. CASE WatchdogFires(r)
  BY <1>1 DEF WatchdogStep, WatchdogFires, StartRollback, Untouched, Unrefunded, Paid,
     Callers
<1>2. CASE RollbackStep("watchdog", r)
  <2>1. call["watchdog"][r] # "idle" /\ UNCHANGED handlerVars
    BY <1>2 DEF WatchdogStep, WatchdogFires, RollbackStep, RollbackScript, RollbackRefused,
       RollbackTimesOut, LoadReservation, LoadReservationFails, CreditRefund,
       CreditFails, PushDeadLetter
  <2>2. SUFFICES ASSUME at[r] \in {"lock", "load", "commit"}
                 PROVE  /\ debits'[r] = 1 /\ record'[r] # "committed"
                        /\ late'[r] \subseteq {"rollback", "credit"}
                        /\ record'[r] = "pending" => Unrefunded(r)'
    BY <2>1 DEF Untouched, Paid
  <2>3. record[r] = "pending" => Unrefunded(r)
    BY <2>2
  <2> USE DEF Unrefunded, Callers
  <2>4. CASE RollbackScript("watchdog", r)
    BY <2>2, <2>4 DEF RollbackScript
  <2>5. CASE RollbackRefused("watchdog", r)
    BY <2>2, <2>5 DEF RollbackRefused, EndCall
  <2>6. CASE RollbackTimesOut("watchdog", r)
    BY <2>2, <2>6 DEF RollbackTimesOut, EndCall, GiveUpOn, AllowCommitted
  <2>7. CASE LoadReservation("watchdog", r)
    BY <2>2, <2>7 DEF LoadReservation
  <2>8. CASE LoadReservationFails("watchdog", r)
    BY <2>2, <2>8 DEF LoadReservationFails, CancelWatchdog, WatchdogAwaits
  <2>9. CASE CreditRefund("watchdog", r)
    BY <2>2, <2>9 DEF CreditRefund, Credit
  <2>10. CASE CreditFails("watchdog", r)
    BY <2>2, <2>10 DEF CreditFails, GiveUpOn
  <2>11. CASE PushDeadLetter("watchdog", r)
    BY <2>2, <2>11 DEF PushDeadLetter, CancelWatchdog, WatchdogAwaits
  <2> QED
    BY <1>2, <2>4, <2>5, <2>6, <2>7, <2>8, <2>9, <2>10, <2>11 DEF RollbackStep
<1> QED
  BY <1>1, <1>2 DEF WatchdogStep

\* Expiry and late effects keep it.
LEMMA OwnTime ==
    ASSUME NEW r \in Requests, Amount[r] > 0, TypeOK, StageInv(r),
           TimePasses(r) \/ LateArrival(r)
    PROVE  StageInv(r)'
<1> USE DEF TypeOK, WalletTypeOK, StageInv, recordVars, chipVars, callVars, handlerVars
<1>1. CASE TimePasses(r)
  BY <1>1 DEF TimePasses, TTLReached, GracePassed, PendingExpires, FinalExpires,
     Untouched, Unrefunded, Paid
<1>2. CASE LateArrival(r)
  <2>1. PICK op \in LateOps : LateEffect(op, r)
    BY <1>2 DEF LateArrival
  <2>2. /\ op \in late[r]
        /\ late'[r] = late[r] \ {op}
        /\ UNCHANGED <<age, watchdog, call, handlerVars>>
    BY <1>2, <2>1 DEF LateArrival, LateEffect
  <2>3. CASE op = "credit"
    <3>1. \/ record[r] # "pending" /\ UNCHANGED <<record, debits>>
          \/ at[r] \notin {"lock", "load", "commit"}
      BY <2>1, <2>2, <2>3 DEF LateEffect, Unrefunded
    <3> QED
      BY <2>2, <2>3, <3>1 DEF Untouched, Paid
  <2>4. CASE op = "rollback"
    BY <2>1, <2>2, <2>4 DEF LateEffect, LateStatus, Untouched, Unrefunded, Paid
  <2>5. CASE op \notin {"credit", "rollback"}
    BY <2>2, <2>5 DEF Untouched, Unrefunded, Paid
  <2> QED
    BY <2>3, <2>4, <2>5
<1> QED
  BY <1>1, <1>2

\* PaidInv is inductive, given the types and that no save reply is lost.
LEMMA NextPaidInv ==
    ASSUME "save" \notin Faults, TypeOK, PaidInv, [Next]_vars
    PROVE  PaidInv'
<1> SUFFICES ASSUME NEW q \in Requests, Amount[q] > 0 PROVE StageInv(q)'
  BY DEF PaidInv
<1>1. StageInv(q)
  BY DEF PaidInv
<1>2. ASSUME NEW r \in Requests, StepOf(r) PROVE StageInv(q)'
  <2>1. CASE q = r
    BY <1>1, <1>2, <2>1, OwnReserve, OwnCommit, OwnSave, OwnWatchdog, OwnTime
    DEF StepOf, Handle
  <2>2. CASE q # r
    BY <1>1, <1>2, <2>2, StepFrame, SameKeeps
  <2> QED
    BY <2>1, <2>2
<1>3. CASE OtherWrite
  BY <1>1, <1>3, SameKeeps DEF OtherWrite, Same, walletVars, recordVars, chipVars, callVars
<1>4. CASE Crash
  BY <1>1, <1>4 DEF Crash, LoseTasks, StageInv, Untouched, Unrefunded, Paid, TypeOK, Places,
     chipVars, Callers
<1>5. CASE UNCHANGED vars
  BY <1>1, <1>5, SameKeeps DEF vars, handlerVars, Same, walletVars, recordVars, chipVars,
     callVars
<1> QED
  BY <1>2, <1>3, <1>4, <1>5 DEF Next, StepOf

\* Whatever times out, fails or crashes, a bet in the saved game state was debited
\* once and never refunded, provided the reply of the saving script is not lost.
THEOREM PaidOnce ==
    ASSUME "save" \notin Faults
    PROVE  Spec => []PaidExactlyOnce
<1>1. Init => PaidInv
  BY DEF Init, WalletInit, PaidInv, StageInv, Untouched, Callers
<1>2. TypeOK /\ PaidInv /\ [Next]_vars => PaidInv'
  BY NextPaidInv
<1>3. TypeOK /\ PaidInv => PaidExactlyOnce
  BY DEF TypeOK, PaidInv, StageInv, Paid, PaidExactlyOnce
<1> QED
  BY <1>1, <1>2, <1>3, TypeCorrect, PTL DEF Spec
-----------------------------------------------------------------------------
(* A bet is saved in turn.  Versions only grow, so that a handler that finds *)
(* the version it has read finds the state it has checked.                   *)

ReadInv ==
    \A r \in Requests :
        /\ readVersion[r] <= game.version
        /\ at[r] \in {"commit", "save"} /\ readVersion[r] = game.version => MayPlay(r)

\* A step leaves the game state alone or gives it a later version.
LEMMA VersionsGrow ==
    ASSUME TypeOK, [Next]_vars
    PROVE  game' = game \/ game'.version = game.version + 1
<1>1. ASSUME NEW r \in Requests, StepOf(r)
      PROVE  game' = game \/ game'.version = game.version + 1
  <2> USE DEF handlerVars
  <2>0. WriteState(r) => game'.version = game.version + 1
    BY DEF WriteState
  <2>1. CASE Handle(r)
    BY <2>0, <2>1 DEF Handle, Validate, CheckBalance, Reserve, Record, Unreserve, AcquireLock,
       GiveUpLock, LoadState, RejectState, LoadRaises, Commit, CommitFails, SaveState,
       SaveConflict, SaveRaises, HandlerRollback, RollbackReturns
  <2>2. CASE WatchdogStep(r) \/ TimePasses(r) \/ LateArrival(r)
    BY <2>2 DEF WatchdogStep, TimePasses, LateArrival
  <2> QED
    BY <1>1, <2>1, <2>2 DEF StepOf
<1> QED
  BY <1>1 DEF Next, StepOf, OtherWrite, Crash, vars, handlerVars

\* Only the load of a request sets the version it has read, and control reaches the
\* commit or the save only from there.
LEMMA ReadsAreLoads ==
    ASSUME TypeOK, [Next]_vars, NEW q \in Requests
    PROVE  \/ LoadState(q)
           \/ /\ readVersion'[q] = readVersion[q]
              /\ at'[q] \in {"commit", "save"} => at[q] \in {"commit", "save"}
<1> USE DEF TypeOK, Goto
<1>1. ASSUME NEW r \in Requests, StepOf(r), ~LoadState(q)
      PROVE  /\ readVersion'[q] = readVersion[q]
             /\ at'[q] \in {"commit", "save"} => at[q] \in {"commit", "save"}
  <2> USE <1>1
  <2>1. CASE Validate(r) \/ CheckBalance(r) \/ Reserve(r) \/ Record(r) \/ Unreserve(r)
             \/ AcquireLock(r) \/ LoadRaises(r) \/ Commit(r) \/ SaveState(r)
             \/ RollbackReturns(r)
    BY <2>1 DEF Validate, CheckBalance, Reserve, Record, Unreserve, AcquireLock, LoadRaises,
       Commit, SaveState, RollbackReturns
  <2>2. CASE GiveUpLock(r) \/ RejectState(r) \/ CommitFails(r) \/ SaveConflict(r) \/ SaveRaises(r)
    BY <2>2, AbortFrame DEF GiveUpLock, RejectState, CommitFails, SaveConflict,
       SaveRaises
  <2>3. CASE LoadState(r)
    BY <2>3 DEF LoadState
  <2>4. CASE HandlerRollback(r) \/ WatchdogStep(r) \/ TimePasses(r) \/ LateArrival(r)
    BY <2>4 DEF HandlerRollback, WatchdogStep, TimePasses, LateArrival, handlerVars
  <2> QED
    BY <2>1, <2>2, <2>3, <2>4 DEF StepOf, Handle
<1> QED
  BY <1>1 DEF Next, StepOf, OtherWrite, Crash, vars, handlerVars

\* A bet enters the saved state only through a save that finds its version.
LEMMA BetsAreSaves ==
    ASSUME TypeOK, [Next]_vars, NEW q \in Requests, q \in bets' \ bets
    PROVE  at[q] = "save" /\ VersionMatches(q)
<1>1. ASSUME NEW r \in Requests, StepOf(r)
      PROVE  q = r /\ at[r] = "save" /\ VersionMatches(r)
  BY <1>1 DEF StepOf, Handle, Validate, CheckBalance, Reserve, Record, Unreserve,
     AcquireLock, GiveUpLock, LoadState, RejectState, LoadRaises, Commit, CommitFails,
     SaveState, SaveConflict, SaveRaises, HandlerRollback, RollbackReturns, WriteState,
     WatchdogStep, TimePasses, LateArrival, handlerVars
<1> QED
  BY <1>1 DEF Next, StepOf, OtherWrite, Crash, vars, handlerVars

\* A bet is only written over a live state in which it is its player's turn, although
\* turn and version were read two awaits before, whatever fails and whoever else
\* writes.
THEOREM SavedWithinTurn == Spec => SavedInTurn
<1>1. Init => ReadInv
  BY DEF Init, ReadInv
<1>2. TypeOK /\ ReadInv /\ [Next]_vars => ReadInv'
  <2> SUFFICES ASSUME TypeOK, ReadInv, [Next]_vars, NEW q \in Requests
               PROVE  /\ readVersion'[q] <= game'.version
                      /\ at'[q] \in {"commit", "save"} /\ readVersion'[q] = game'.version
                           => MayPlay(q)'
    BY DEF ReadInv
  <2>1. CASE LoadState(q)
    BY <2>1 DEF LoadState, TypeOK, MayPlay
  <2>2. CASE ~LoadState(q)
    BY <2>2, ReadsAreLoads, VersionsGrow DEF TypeOK, ReadInv, MayPlay
  <2> QED
    BY <2>1, <2>2
<1>3. TypeOK /\ ReadInv /\ [Next]_vars
        => [\A r \in Requests : r \in bets' \ bets => MayPlay(r)]_vars
  BY BetsAreSaves DEF ReadInv, VersionMatches
<1> QED
  BY <1>1, <1>2, <1>3, TypeCorrect, PTL DEF Spec, SavedInTurn

-----------------------------------------------------------------------------
(* The promised ledger.  A request is debited once, and nothing is given     *)
(* back, nor on its way, before.                                             *)

Unpaid(r) ==
    /\ record[r] = "absent" /\ watchdog[r] = "none" /\ credits[r] = 0
    /\ call["handler"][r] = "idle" /\ call["watchdog"][r] = "idle"
    /\ late[r] \subseteq {"debit"}

DebitedOnce(r) ==
    /\ debits[r] \in {0, 1}
    /\ debits[r] = 0 => Unpaid(r) /\ at[r] \in {"idle", "balance", "debit", "done"}
    /\ at[r] \in {"idle", "balance", "debit"} => debits[r] = 0 /\ late[r] = {}
    /\ "debit" \in late[r] => debits[r] = 0

OnceInv == \A r \in Requests : Amount[r] > 0 => DebitedOnce(r)

(* While handlers are quick, whoever may still refund a request has not been *)
(* beaten to it: the watchdog sleeps until the handler is done.              *)

MayRefund == {"script", "load", "credit"}

Refunded(r) == credits[r] = 1 \/ "credit" \in late[r]

RefundedOnce(r) ==
    /\ at[r] # "done" => age[r] = 0 /\ watchdog[r] # "running"
    /\ at[r] \in {"idle", "balance", "debit", "create", "unreserve"} => watchdog[r] = "none"
    /\ call["handler"][r] # "idle" => at[r] = "rollback"
    /\ call["watchdog"][r] # "idle" <=> watchdog[r] = "running"
    /\ credits[r] \in {0, 1}
    /\ "credit" \in late[r] => credits[r] = 0
    /\ Refunded(r) =>
        /\ debits[r] = 1 /\ at[r] \in {"rollback", "done"}
        /\ \A c \in Callers : call[c][r] \notin MayRefund
        /\ call["handler"][r] = "dlq" \/ watchdog[r] # "sleeping"

\* A request with nothing to pay stays away from the wallet.
Free(r) ==
    /\ Unpaid(r) /\ late[r] = {} /\ debits[r] = 0
    /\ at[r] \in {"idle", "lock", "load", "save", "done"}

FreeInv == \A r \in Requests : Amount[r] = 0 => Free(r)

RefundInv == \A r \in Requests : Amount[r] > 0 => RefundedOnce(r)

\* Both invariants of a request survive whatever leaves its fields alone.
LEMMA SameKeepsRefunds ==
    ASSUME NEW q \in Requests, Same(q)
    PROVE  /\ DebitedOnce(q) => DebitedOnce(q)'
           /\ RefundedOnce(q) => RefundedOnce(q)'
           /\ Free(q) => Free(q)'
BY DEF DebitedOnce, RefundedOnce, Free, Refunded, Unpaid, Same, Callers

\* What the handler's _rollback call does to a request.
LEMMA AbortEffect ==
    ASSUME NEW r \in Requests, NEW allow, TypeOK, Abort(r, allow)
    PROVE  /\ Amount[r] > 0 => at'[r] = "rollback" /\ call'["handler"][r] = "script"
           /\ Amount[r] = 0 => at'[r] = "done" /\ UNCHANGED call
           /\ call'["watchdog"][r] = call["watchdog"][r]
BY DEF TypeOK, WalletTypeOK, Abort, Goto, StartRollback, Callers, callVars,
   RequestAssumption

\* A rollback runs only while its caller is inside it; it debits nothing, and adds
\* to the late operations only what it or the watchdog was awaiting.
LEMMA RollbackEffect ==
    ASSUME NEW c \in Callers, NEW r \in Requests, TypeOK, RollbackStep(c, r)
    PROVE  /\ call[c][r] # "idle" /\ debits' = debits
           /\ "debit" \in late'[r] => "debit" \in late[r]
BY DEF TypeOK, WalletTypeOK, Callers, RollbackStep, RollbackScript, RollbackRefused,
   RollbackTimesOut, LoadReservation, LoadReservationFails, CreditRefund, CreditFails,
   PushDeadLetter, EndCall, GiveUpOn, CancelWatchdog, WatchdogAwaits, Credit, chipVars

\* A request is debited once: what the handler does itself.
LEMMA OwnDebits ==
    ASSUME NEW r \in Requests, Amount[r] > 0, TypeOK, DebitedOnce(r), Handle(r)
    PROVE  DebitedOnce(r)'
<1> USE DEF TypeOK, WalletTypeOK, DebitedOnce, walletVars, recordVars, chipVars, callVars
<1>1. CASE Validate(r) \/ CheckBalance(r)
  BY <1>1 DEF Validate, CheckBalance, Goto, Unpaid
<1>2. CASE Reserve(r)
  BY <1>2 DEF Reserve, DebitWallet, Debit, DebitTimesOut, GiveUpOn, Goto, Unpaid
<1>3. CASE Record(r)
  BY <1>3 DEF Record, CreateReservation, CreateTimesOut, GiveUpOn, Goto
<1>4. CASE Unreserve(r)
  BY <1>4 DEF Unreserve, ReturnDebit, ReturnDebitFails, Credit, GiveUpOn, Goto
<1>5. CASE AcquireLock(r) \/ LoadState(r) \/ LoadRaises(r) \/ SaveState(r) \/ RollbackReturns(r)
  BY <1>5 DEF AcquireLock, LoadState, LoadRaises, SaveState, RollbackReturns, Goto
<1>6. CASE GiveUpLock(r) \/ RejectState(r) \/ CommitFails(r) \/ SaveConflict(r) \/ SaveRaises(r)
  <2>1. /\ at[r] \in {"lock", "load", "commit", "save"} /\ debits' = debits
        /\ UNCHANGED late \/ GiveUpOn("commit", r)
    BY <1>6 DEF GiveUpLock, RejectState, CommitFails, SaveConflict, SaveRaises
  <2>2. Abort(r, TRUE) \/ Abort(r, FALSE)
    BY <1>6 DEF GiveUpLock, RejectState, CommitFails, SaveConflict, SaveRaises
  <2>3. at'[r] = "rollback"
    BY <2>2, AbortEffect
  <2>4. "debit" \in late'[r] => "debit" \in late[r]
    BY <2>1 DEF GiveUpOn
  <2> QED
    BY <2>1, <2>3, <2>4
<1>7. CASE Commit(r)
  BY <1>7 DEF Commit, CommitReservation, CancelWatchdog, WatchdogAwaits, Goto, Callers
<1>8. CASE HandlerRollback(r)
  BY <1>8, RollbackEffect DEF HandlerRollback, Callers, Unpaid, handlerVars
<1> QED
  BY <1>1, <1>2, <1>3, <1>4, <1>5, <1>6, <1>7, <1>8 DEF Handle

\* The same of the watchdog, expiry and late effects.
LEMMA BackgroundDebits ==
    ASSUME NEW r \in Requests, TypeOK, DebitedOnce(r),
           WatchdogStep(r) \/ TimePasses(r) \/ LateArrival(r)
    PROVE  DebitedOnce(r)'
<1> USE DEF TypeOK, WalletTypeOK, DebitedOnce, Unpaid, recordVars, chipVars, callVars,
        handlerVars
<1>1. CASE WatchdogStep(r)
  <2>1. debits[r] # 0
    BY <1>1, RollbackEffect DEF WatchdogStep, WatchdogFires, Callers
  <2> QED
    BY <1>1, <2>1, RollbackEffect DEF WatchdogStep, WatchdogFires, Callers
<1>2. CASE TimePasses(r)
  BY <1>2 DEF TimePasses, TTLReached, GracePassed, PendingExpires, FinalExpires
<1>3. CASE LateArrival(r)
  <2>1. PICK op \in LateOps : LateEffect(op, r)
    BY <1>3 DEF LateArrival
  <2>2. op \in late[r] /\ late'[r] = late[r] \ {op} /\ UNCHANGED <<watchdog, call, at>>
    BY <1>3, <2>1 DEF LateArrival, LateEffect
  <2>3. CASE op = "debit"
    BY <2>1, <2>2, <2>3 DEF LateEffect, Debit
  <2>4. CASE op # "debit"
    BY <2>1, <2>2, <2>4 DEF LateEffect, Credit
  <2> QED
    BY <2>3, <2>4
<1> QED
  BY <1>1, <1>2, <1>3

\* OnceInv is inductive.
LEMMA NextOnceInv ==
    ASSUME TypeOK, OnceInv, [Next]_vars
    PROVE  OnceInv'
<1> SUFFICES ASSUME NEW q \in Requests, Amount[q] > 0 PROVE DebitedOnce(q)'
  BY DEF OnceInv
<1>1. DebitedOnce(q)
  BY DEF OnceInv
<1>2. ASSUME NEW r \in Requests, StepOf(r) PROVE DebitedOnce(q)'
  BY <1>1, <1>2, OwnDebits, BackgroundDebits, StepFrame, SameKeepsRefunds DEF StepOf
<1>3. CASE OtherWrite
  BY <1>1, <1>3, SameKeepsRefunds DEF OtherWrite, Same, walletVars, recordVars, chipVars,
     callVars
<1>4. CASE Crash
  BY <1>1, <1>4 DEF Crash, LoseTasks, DebitedOnce, Unpaid, TypeOK, Places, chipVars, Callers
<1>5. CASE UNCHANGED vars
  BY <1>1, <1>5, SameKeepsRefunds DEF vars, handlerVars, Same, walletVars, recordVars,
     chipVars, callVars
<1> QED
  BY <1>2, <1>3, <1>4, <1>5 DEF Next, StepOf

\* Debits, refunds and bets only grow, and no step takes chips and does something
\* else with them.
LEMMA OneMoveAtATime ==
    ASSUME NEW r \in Requests, TypeOK, StepOf(r)
    PROVE  /\ debits'[r] >= debits[r] /\ credits'[r] >= credits[r] /\ bets \subseteq bets'
           /\ debits'[r] # debits[r] => credits'[r] = credits[r] /\ bets' = bets
<1> USE DEF TypeOK, WalletTypeOK, walletVars, recordVars, chipVars, callVars, handlerVars
<1>1. CASE Validate(r) \/ CheckBalance(r) \/ AcquireLock(r) \/ LoadState(r) \/ LoadRaises(r)
           \/ RollbackReturns(r) \/ TimePasses(r)
  BY <1>1 DEF Validate, CheckBalance, AcquireLock, LoadState, LoadRaises, RollbackReturns,
     TimePasses, TTLReached, GracePassed, PendingExpires, FinalExpires
<1>2. CASE Reserve(r) \/ Record(r) \/ Unreserve(r)
  BY <1>2 DEF Reserve, DebitWallet, Debit, DebitTimesOut, Record, CreateReservation,
     CreateTimesOut, Unreserve, ReturnDebit, ReturnDebitFails, Credit
<1>3. CASE GiveUpLock(r) \/ RejectState(r) \/ CommitFails(r) \/ SaveConflict(r)
  <2>1. UNCHANGED <<debits, credits, bets>>
    BY <1>3 DEF GiveUpLock, RejectState, CommitFails, SaveConflict
  <2> QED
    BY <2>1
<1>4. CASE Commit(r) \/ SaveState(r) \/ SaveRaises(r)
  <2>1. UNCHANGED <<debits, credits>>
    BY <1>4 DEF Commit, CommitReservation, SaveState, SaveRaises
  <2>2. UNCHANGED bets \/ WriteState(r)
    BY <1>4 DEF Commit, SaveState, SaveRaises
  <2> QED
    BY <2>1, <2>2 DEF WriteState
<1>5. ASSUME NEW c \in Callers, RollbackStep(c, r)
      PROVE  debits' = debits /\ credits'[r] >= credits[r]
  BY <1>5 DEF RollbackStep, RollbackScript, RollbackRefused, RollbackTimesOut,
     LoadReservation, LoadReservationFails, CreditRefund, CreditFails, PushDeadLetter, Credit
<1>6. CASE HandlerRollback(r) \/ WatchdogStep(r)
  BY <1>5, <1>6 DEF HandlerRollback, WatchdogStep, WatchdogFires, Callers
<1>7. CASE LateArrival(r)
  BY <1>7 DEF LateArrival, LateEffect, Debit, Credit
<1> QED
  BY <1>1, <1>2, <1>3, <1>4, <1>6, <1>7 DEF StepOf, Handle

\* A step of a request moves its chips along the ledger or leaves them.
LEMMA OwnLedger ==
    ASSUME NEW r \in Requests, TypeOK, OnceInv, OnceInv', PaidInv, PaidInv', StepOf(r)
    PROVE  \/ Chips(r)' = Chips(r)
           \/ Chips(r) = "wallet" /\ Chips(r)' = "held"
           \/ Chips(r) = "held" /\ Chips(r)' \in {"bet", "returned"}
<1>1. CASE Amount[r] = 0
  BY <1>1 DEF Chips
<1>2. CASE Amount[r] > 0
  <2>1. DebitedOnce(r) /\ DebitedOnce(r)' /\ StageInv(r) /\ StageInv(r)'
    BY <1>2 DEF OnceInv, PaidInv
  <2>2. /\ debits[r] \in {0, 1} /\ debits'[r] \in {0, 1}
        /\ debits[r] = 0 => credits[r] = 0
        /\ r \in bets => debits[r] = 1 /\ credits[r] = 0
        /\ r \in bets' => debits'[r] = 1 /\ credits'[r] = 0
        /\ credits[r] \in Nat /\ credits'[r] \in Nat
    <3>1. TypeOK'
      BY NextTypeOK DEF Next, StepOf
    <3> QED
      BY <2>1, <3>1 DEF DebitedOnce, Unpaid, StageInv, Paid, TypeOK, WalletTypeOK
  <2>3. Chips(r) = IF debits[r] = 0 THEN "wallet" ELSE IF credits[r] # 0 THEN "returned"
                   ELSE IF r \in bets THEN "bet" ELSE "held"
    <3>1. CASE debits[r] = 0
      BY <3>1 DEF Chips
    <3>2. CASE debits[r] # 0 /\ credits[r] = 0
      <4>1. debits[r] > 0
        BY <2>2, <3>2
      <4>2. CASE r \in bets
        BY <1>2, <3>2, <4>1, <4>2 DEF Chips
      <4>3. CASE r \notin bets
        BY <1>2, <3>2, <4>1, <4>3 DEF Chips
      <4> QED
        BY <4>2, <4>3
    <3>3. CASE debits[r] # 0 /\ credits[r] # 0
      BY <1>2, <2>2, <3>3 DEF Chips
    <3> QED
      BY <3>1, <3>2, <3>3
  <2>4. Chips(r)' = IF debits'[r] = 0 THEN "wallet" ELSE IF credits'[r] # 0 THEN "returned"
                    ELSE IF r \in bets' THEN "bet" ELSE "held"
    <3>1. CASE debits'[r] = 0
      BY <3>1 DEF Chips
    <3>2. CASE debits'[r] # 0 /\ credits'[r] = 0
      <4>1. debits'[r] > 0
        BY <2>2, <3>2
      <4>2. CASE r \in bets'
        BY <1>2, <3>2, <4>1, <4>2 DEF Chips
      <4>3. CASE r \notin bets'
        BY <1>2, <3>2, <4>1, <4>3 DEF Chips
      <4> QED
        BY <4>2, <4>3
    <3>3. CASE debits'[r] # 0 /\ credits'[r] # 0
      BY <1>2, <2>2, <3>3 DEF Chips
    <3> QED
      BY <3>1, <3>2, <3>3
  <2>5. /\ debits'[r] >= debits[r] /\ credits'[r] >= credits[r] /\ (r \in bets => r \in bets')
        /\ debits'[r] # debits[r] => credits'[r] = credits[r] /\ bets' = bets
    BY OneMoveAtATime
  <2> QED
    BY <2>2, <2>3, <2>4, <2>5
<1> QED
  BY <1>1, <1>2 DEF RequestAssumption

\* The two-phase protocol keeps the promise of ChipLedger: whatever times out, fails or
\* crashes, the chips of a request leave the wallet once and then stay in the bet or
\* are returned, for good, provided the reply of the saving script is not lost.
THEOREM KeepsLedger ==
    ASSUME "save" \notin Faults
    PROVE  Spec => LedgerSpec
<1> DEFINE chips == [r \in Requests |-> Chips(r)]
<1>1. Init => Ledger!Init
  BY DEF Init, WalletInit, Ledger!Init, Chips
<1>2. Init => OnceInv
  BY DEF Init, WalletInit, OnceInv, DebitedOnce, Unpaid, Callers
<1>3. TypeOK /\ OnceInv /\ [Next]_vars => OnceInv'
  BY NextOnceInv
<1>4. Init => PaidInv
  BY DEF Init, WalletInit, PaidInv, StageInv, Untouched, Callers
<1>5. TypeOK /\ PaidInv /\ [Next]_vars => PaidInv'
  BY NextPaidInv
<1>6. TypeOK /\ OnceInv /\ OnceInv' /\ PaidInv /\ PaidInv' /\ [Next]_vars
        => [Ledger!Next]_chips
  <2> SUFFICES ASSUME TypeOK, OnceInv, OnceInv', PaidInv, PaidInv', [Next]_vars
               PROVE  [Ledger!Next]_chips
    OBVIOUS
  <2>1. ASSUME NEW r \in Requests, StepOf(r) PROVE [Ledger!Next]_chips
    <3>1. \A q \in Requests \ {r} : Chips(q)' = Chips(q)
      BY <2>1, StepFrame DEF Same, Chips
    <3>2. CASE Chips(r)' = Chips(r)
      BY <3>1, <3>2
    <3>3. chips' = [chips EXCEPT ![r] = Chips(r)']
      BY <3>1
    <3>4. CASE Chips(r) = "wallet" /\ Chips(r)' = "held"
      <4>1. Ledger!Move(r, "wallet", "held")
        BY <3>3, <3>4 DEF Ledger!Move
      <4> QED
        BY <4>1 DEF Ledger!Next
    <3>5. CASE Chips(r) = "held" /\ Chips(r)' \in {"bet", "returned"}
      <4>1. Ledger!Move(r, "held", "bet") \/ Ledger!Move(r, "held", "returned")
        BY <3>3, <3>5 DEF Ledger!Move
      <4> QED
        BY <4>1 DEF Ledger!Next
    <3> QED
      BY <2>1, <3>2, <3>4, <3>5, OwnLedger
  <2>2. CASE OtherWrite \/ Crash \/ UNCHANGED vars
    <3>1. UNCHANGED <<debits, credits, bets>>
      BY <2>2 DEF OtherWrite, Crash, LoseTasks, vars, handlerVars, walletVars, recordVars,
         chipVars, callVars
    <3>2. \A q \in Requests : Chips(q)' = Chips(q)
      BY <3>1 DEF Chips
    <3> QED
      BY <3>2
  <2> QED
    BY <2>1, <2>2 DEF Next, StepOf
<1> QED
  BY <1>1, <1>2, <1>3, <1>4, <1>5, <1>6, TypeCorrect, PTL DEF Spec, LedgerSpec, Ledger!Spec

-----------------------------------------------------------------------------
(* Refunds of quick handlers.                                                *)

\* A rollback call refunds at most once: what the handler's call may leave behind.
LEMMA HandlerRefunds ==
    ASSUME NEW r \in Requests, TypeOK, DebitedOnce(r), RefundedOnce(r), HandlerRollback(r)
    PROVE  RefundedOnce(r)'
<1> USE DEF TypeOK, WalletTypeOK, RefundedOnce, Refunded, MayRefund, Callers, recordVars,
        chipVars, handlerVars
<1>1. /\ at[r] = "rollback" /\ call["watchdog"][r] = "idle" /\ watchdog[r] # "running"
      /\ debits[r] = 1 /\ UNCHANGED at /\ RollbackStep("handler", r)
  BY RollbackEffect DEF HandlerRollback, DebitedOnce, Unpaid
<1>2. CASE RollbackScript("handler", r)
  BY <1>1, <1>2 DEF RollbackScript
<1>3. CASE RollbackRefused("handler", r)
  BY <1>1, <1>3 DEF RollbackRefused, EndCall
<1>4. CASE RollbackTimesOut("handler", r)
  BY <1>1, <1>4 DEF RollbackTimesOut, EndCall, GiveUpOn
<1>5. CASE LoadReservation("handler", r)
  BY <1>1, <1>5 DEF LoadReservation
<1>6. CASE LoadReservationFails("handler", r)
  BY <1>1, <1>6 DEF LoadReservationFails, CancelWatchdog, WatchdogAwaits, CallAfterCancel
<1>7. CASE CreditRefund("handler", r)
  BY <1>1, <1>7 DEF CreditRefund, Credit, CancelWatchdog, WatchdogAwaits, CallAfterCancel
<1>8. CASE CreditFails("handler", r)
  BY <1>1, <1>8 DEF CreditFails, GiveUpOn
<1>9. CASE PushDeadLetter("handler", r)
  BY <1>1, <1>9 DEF PushDeadLetter, CancelWatchdog, WatchdogAwaits, CallAfterCancel
<1> QED
  BY <1>1, <1>2, <1>3, <1>4, <1>5, <1>6, <1>7, <1>8, <1>9 DEF RollbackStep

\* The watchdog refunds only a request whose handler is done.
LEMMA WatchdogRefunds ==
    ASSUME NEW r \in Requests, TypeOK, DebitedOnce(r), RefundedOnce(r), WatchdogStep(r)
    PROVE  RefundedOnce(r)'
<1> USE DEF TypeOK, WalletTypeOK, RefundedOnce, Refunded, MayRefund, Callers, recordVars,
        chipVars, handlerVars
<1>1. CASE WatchdogFires(r)
  BY <1>1 DEF WatchdogStep, WatchdogFires, StartRollback
<1>2. CASE RollbackStep("watchdog", r)
  <2>1. /\ at[r] = "done" /\ call["handler"][r] = "idle" /\ watchdog[r] = "running"
        /\ debits[r] = 1 /\ UNCHANGED at /\ call["watchdog"][r] # "idle"
    BY <1>2, RollbackEffect DEF WatchdogStep, WatchdogFires, DebitedOnce, Unpaid
  <2>2. CASE RollbackScript("watchdog", r)
    BY <2>1, <2>2 DEF RollbackScript
  <2>3. CASE RollbackRefused("watchdog", r)
    BY <2>1, <2>3 DEF RollbackRefused, EndCall
  <2>4. CASE RollbackTimesOut("watchdog", r)
    BY <2>1, <2>4 DEF RollbackTimesOut, EndCall, GiveUpOn, AllowCommitted
  <2>5. CASE LoadReservation("watchdog", r)
    BY <2>1, <2>5 DEF LoadReservation
  <2>6. CASE LoadReservationFails("watchdog", r)
    BY <2>1, <2>6 DEF LoadReservationFails, CancelWatchdog, WatchdogAwaits, CallAfterCancel
  <2>7. CASE CreditRefund("watchdog", r)
    BY <2>1, <2>7 DEF CreditRefund, Credit, CallAfterCancel
  <2>8. CASE CreditFails("watchdog", r)
    BY <2>1, <2>8 DEF CreditFails, GiveUpOn
  <2>9. CASE PushDeadLetter("watchdog", r)
    BY <2>1, <2>9 DEF PushDeadLetter, CancelWatchdog, WatchdogAwaits, CallAfterCancel
  <2> QED
    BY <1>2, <2>2, <2>3, <2>4, <2>5, <2>6, <2>7, <2>8, <2>9 DEF RollbackStep
<1> QED
  BY <1>1, <1>2 DEF WatchdogStep

\* The other steps of the handler: only the except branch of reserve_chips refunds.
LEMMA OwnRefunds ==
    ASSUME NEW r \in Requests, Amount[r] > 0, TypeOK, DebitedOnce(r), RefundedOnce(r),
           Handle(r)
    PROVE  RefundedOnce(r)'
<1> USE DEF TypeOK, WalletTypeOK, RefundedOnce, Refunded, MayRefund, Callers, walletVars,
        recordVars, chipVars, callVars
<1>1. CASE Validate(r) \/ CheckBalance(r)
  BY <1>1 DEF Validate, CheckBalance, Goto, DebitedOnce, Unpaid
<1>2. CASE Reserve(r)
  BY <1>2 DEF Reserve, DebitWallet, Debit, DebitTimesOut, GiveUpOn, Goto, DebitedOnce, Unpaid
<1>3. CASE Record(r)
  BY <1>3 DEF Record, CreateReservation, CreateTimesOut, GiveUpOn, Goto
<1>4. CASE Unreserve(r)
  <2>1. debits[r] = 1
    BY <1>4 DEF Unreserve, DebitedOnce
  <2> QED
    BY <1>4, <2>1 DEF Unreserve, ReturnDebit, ReturnDebitFails, Credit, GiveUpOn, Goto
<1>5. CASE AcquireLock(r) \/ LoadState(r) \/ LoadRaises(r) \/ SaveState(r)
  BY <1>5 DEF AcquireLock, LoadState, LoadRaises, SaveState, Goto
<1>6. CASE RollbackReturns(r)
  BY <1>6 DEF RollbackReturns, Goto
<1>7. CASE GiveUpLock(r) \/ RejectState(r) \/ CommitFails(r) \/ SaveConflict(r) \/ SaveRaises(r)
  <2>1. /\ at[r] \in {"lock", "load", "commit", "save"}
        /\ UNCHANGED <<watchdog, age, debits, credits>>
        /\ UNCHANGED late \/ GiveUpOn("commit", r)
    BY <1>7 DEF GiveUpLock, RejectState, CommitFails, SaveConflict, SaveRaises
  <2>2. Abort(r, TRUE) \/ Abort(r, FALSE)
    BY <1>7 DEF GiveUpLock, RejectState, CommitFails, SaveConflict, SaveRaises
  <2>3. /\ at'[r] = "rollback" /\ call'["handler"][r] = "script"
        /\ call'["watchdog"][r] = call["watchdog"][r]
    BY <2>2, AbortEffect
  <2>4. ("credit" \in late'[r]) = ("credit" \in late[r])
    BY <2>1 DEF GiveUpOn
  <2> QED
    BY <2>1, <2>3, <2>4
<1>8. CASE Commit(r)
  BY <1>8 DEF Commit, CommitReservation, CancelWatchdog, WatchdogAwaits, Goto
<1> QED
  BY <1>1, <1>2, <1>3, <1>4, <1>5, <1>6, <1>7, <1>8, HandlerRefunds DEF Handle

\* Expiry and late effects: while a handler is quick its record has no age.
LEMMA TimeRefunds ==
    ASSUME NEW r \in Requests, ~SlowHandlers, TypeOK, DebitedOnce(r), RefundedOnce(r),
           TimePasses(r) \/ LateArrival(r)
    PROVE  RefundedOnce(r)'
<1> USE DEF TypeOK, WalletTypeOK, RefundedOnce, Refunded, MayRefund, Callers, recordVars,
        chipVars, callVars, handlerVars
<1>1. CASE TimePasses(r)
  BY <1>1 DEF TimePasses, TTLReached, GracePassed, PendingExpires, FinalExpires
<1>2. CASE LateArrival(r)
  <2>1. PICK op \in LateOps : LateEffect(op, r)
    BY <1>2 DEF LateArrival
  <2>2. /\ op \in late[r] /\ late'[r] = late[r] \ {op}
        /\ UNCHANGED <<watchdog, call, at, age>>
    BY <1>2, <2>1 DEF LateArrival, LateEffect
  <2>3. CASE op = "debit"
    BY <2>1, <2>2, <2>3 DEF LateEffect, Debit, DebitedOnce, Unpaid
  <2>4. CASE op = "credit"
    BY <2>1, <2>2, <2>4 DEF LateEffect, Credit
  <2>5. CASE op \notin {"debit", "credit"}
    BY <2>1, <2>2, <2>5 DEF LateEffect
  <2> QED
    BY <2>3, <2>4, <2>5
<1> QED
  BY <1>1, <1>2

\* A request with nothing to pay never reaches the wallet.
LEMMA OwnFree ==
    ASSUME NEW r \in Requests, Amount[r] = 0, TypeOK, Free(r), StepOf(r)
    PROVE  Free(r)'
<1> USE DEF TypeOK, WalletTypeOK, Free, Unpaid, Callers, walletVars, recordVars, chipVars,
        callVars, handlerVars
<1>1. CASE Validate(r) \/ AcquireLock(r) \/ LoadState(r) \/ LoadRaises(r) \/ SaveState(r)
  BY <1>1 DEF Validate, AcquireLock, LoadState, LoadRaises, SaveState, Goto
<1>2. CASE GiveUpLock(r) \/ RejectState(r) \/ SaveConflict(r) \/ SaveRaises(r)
  <2>1. Abort(r, TRUE) \/ Abort(r, FALSE)
    BY <1>2 DEF GiveUpLock, RejectState, SaveConflict, SaveRaises
  <2>2. at'[r] = "done" /\ UNCHANGED call
    BY <2>1, AbortEffect
  <2>3. UNCHANGED <<record, watchdog, debits, credits, late>>
    BY <1>2 DEF GiveUpLock, RejectState, SaveConflict, SaveRaises
  <2> QED
    BY <2>2, <2>3
<1>3. CASE TimePasses(r)
  BY <1>3 DEF TimePasses, TTLReached, GracePassed, PendingExpires, FinalExpires
<1>4. CASE WatchdogStep(r)
  BY <1>4, RollbackEffect DEF WatchdogStep, WatchdogFires
<1>5. CASE LateArrival(r)
  BY <1>5 DEF LateArrival, LateEffect
<1> QED
  BY <1>1, <1>2, <1>3, <1>4, <1>5 DEF StepOf, Handle, CheckBalance, Reserve, Record,
     Unreserve, Commit, CommitFails, HandlerRollback, RollbackReturns

\* FreeInv is inductive.
LEMMA NextFreeInv ==
    ASSUME TypeOK, FreeInv, [Next]_vars
    PROVE  FreeInv'
<1> SUFFICES ASSUME NEW q \in Requests, Amount[q] = 0 PROVE Free(q)'
  BY DEF FreeInv
<1>1. Free(q)
  BY DEF FreeInv
<1>2. ASSUME NEW r \in Requests, StepOf(r) PROVE Free(q)'
  BY <1>1, <1>2, OwnFree, StepFrame, SameKeepsRefunds
<1>3. CASE OtherWrite
  BY <1>1, <1>3, SameKeepsRefunds DEF OtherWrite, Same, walletVars, recordVars, chipVars,
     callVars
<1>4. CASE Crash
  BY <1>1, <1>4 DEF Crash, LoseTasks, Free, Unpaid, TypeOK, Places, chipVars, Callers
<1>5. CASE UNCHANGED vars
  BY <1>1, <1>5, SameKeepsRefunds DEF vars, handlerVars, Same, walletVars, recordVars,
     chipVars, callVars
<1> QED
  BY <1>2, <1>3, <1>4, <1>5 DEF Next, StepOf

\* RefundInv is inductive, given the types, that requests are debited once, and that
\* handlers are quick.
LEMMA NextRefundInv ==
    ASSUME ~SlowHandlers, TypeOK, OnceInv, RefundInv, [Next]_vars
    PROVE  RefundInv'
<1> SUFFICES ASSUME NEW q \in Requests, Amount[q] > 0 PROVE RefundedOnce(q)'
  BY DEF RefundInv
<1>1. DebitedOnce(q) /\ RefundedOnce(q)
  BY DEF OnceInv, RefundInv
<1>2. ASSUME NEW r \in Requests, StepOf(r) PROVE RefundedOnce(q)'
  BY <1>1, <1>2, OwnRefunds, WatchdogRefunds, TimeRefunds, StepFrame, SameKeepsRefunds
  DEF StepOf
<1>3. CASE OtherWrite
  BY <1>1, <1>3, SameKeepsRefunds DEF OtherWrite, Same, walletVars, recordVars, chipVars,
     callVars
<1>4. CASE Crash
  BY <1>1, <1>4 DEF Crash, LoseTasks, RefundedOnce, Refunded, MayRefund, DebitedOnce, Unpaid,
     TypeOK, WalletTypeOK, Places, chipVars, Callers
<1>5. CASE UNCHANGED vars
  BY <1>1, <1>5, SameKeepsRefunds DEF vars, handlerVars, Same, walletVars, recordVars,
     chipVars, callVars
<1> QED
  BY <1>2, <1>3, <1>4, <1>5 DEF Next, StepOf

\* While handlers are quick, the handler's rollback, the except branch of reserve_chips,
\* the watchdog, calls that arrive late and a crash together give back at most what was
\* taken, whatever fails.
THEOREM RefundedOnceAtMost ==
    ASSUME ~SlowHandlers
    PROVE  Spec => []RefundedAtMostOnce
<1>1. Init => OnceInv /\ RefundInv /\ FreeInv
  BY DEF Init, WalletInit, OnceInv, DebitedOnce, RefundInv, RefundedOnce, Refunded, MayRefund,
     FreeInv, Free, Unpaid, Callers
<1>2. TypeOK /\ OnceInv /\ RefundInv /\ FreeInv /\ [Next]_vars
        => OnceInv' /\ RefundInv' /\ FreeInv'
  BY NextOnceInv, NextRefundInv, NextFreeInv
<1>3. TypeOK /\ RefundInv /\ FreeInv => RefundedAtMostOnce
  BY DEF TypeOK, WalletTypeOK, RefundInv, RefundedOnce, Refunded, FreeInv, Free, Unpaid,
     RefundedAtMostOnce, RequestAssumption
<1> QED
  BY <1>1, <1>2, <1>3, TypeCorrect, PTL DEF Spec

-----------------------------------------------------------------------------
(* Nothing is lost where only refunds and the engine fail.  Somebody answers *)
(* for every debited request that is neither in a bet nor refunded nor in    *)
(* the dead-letter queue: the handler on its way, the watchdog while the     *)
(* record is pending, or a rollback call past its script.                    *)

Owed(r) == debits[r] = 1 /\ credits[r] = 0 /\ deadLetters[r] = 0 /\ r \notin bets

Past == {"load", "credit", "dlq"}

WatchdogOn(r) ==
    \/ watchdog[r] = "sleeping" /\ call["watchdog"][r] = "idle"
    \/ watchdog[r] = "running" /\ call["watchdog"][r] = "script"

Undoable(r) ==
    /\ record[r] = "committed" /\ watchdog[r] = "none" /\ call["watchdog"][r] = "idle"
    /\ late[r] \subseteq {"rollback"}
    /\ \/ at[r] = "save"
       \/ at[r] = "rollback" /\ call["handler"][r] = "script" /\ force[r]

Answered(r) ==
    \/ at[r] = "create"
    \/ Undoable(r)
    \/ /\ record[r] = "pending" /\ age[r] <= 1 /\ late[r] = {}
       /\ WatchdogOn(r) /\ call["handler"][r] \notin Past
    \/ /\ record[r] = "rolled_back"
       /\ \/ call["handler"][r] \in Past
          \/ call["watchdog"][r] \in Past /\ watchdog[r] = "running"

AnsweredFor(r) ==
    /\ at[r] # "unreserve" /\ "debit" \notin late[r]
    /\ (call["handler"][r] # "idle" => at[r] = "rollback")
    /\ at[r] \in {"idle", "balance", "debit", "create"} => age[r] = 0
    /\ Owed(r) => Answered(r)

OwedInv == \A r \in Requests : Amount[r] > 0 => AnsweredFor(r)

\* It survives whatever leaves a request's fields alone.
LEMMA SameKeepsOwed ==
    ASSUME NEW q \in Requests, AnsweredFor(q), Same(q)
    PROVE  AnsweredFor(q)'
BY DEF AnsweredFor, Answered, Undoable, WatchdogOn, Owed, Same

\* The handler answers until it has reserved, and from the commit to the end of its
\* rollback.
LEMMA OwnOwed ==
    ASSUME NEW r \in Requests, Amount[r] > 0, Faults \subseteq {"credit", "engine"},
           TypeOK, DebitedOnce(r), StageInv(r), AnsweredFor(r), Handle(r), ~HandlerRollback(r)
    PROVE  AnsweredFor(r)'
<1> USE DEF TypeOK, WalletTypeOK, AnsweredFor, Owed, walletVars, recordVars, chipVars, callVars
<1>1. CASE Validate(r) \/ CheckBalance(r)
  BY <1>1 DEF Validate, CheckBalance, Goto, DebitedOnce
<1>2. CASE Reserve(r)
  BY <1>2 DEF Reserve, DebitWallet, Debit, DebitTimesOut, Goto, Answered, DebitedOnce, Unpaid
<1>3. CASE Record(r)
  <2>1. CreateReservation(r) /\ at[r] = "create" /\ at' = [at EXCEPT ![r] = "lock"]
    BY <1>3 DEF Record, CreateTimesOut, Goto
  <2> QED
    BY <1>3, <2>1 DEF Record, CreateReservation, StageInv, Untouched, Answered, WatchdogOn, Past
<1>4. CASE AcquireLock(r) \/ LoadState(r) \/ LoadRaises(r)
  BY <1>4 DEF AcquireLock, LoadState, LoadRaises, Goto, Answered, Undoable, WatchdogOn
<1>5. CASE SaveState(r) \/ RollbackReturns(r)
  BY <1>5 DEF SaveState, WriteState, RollbackReturns, Goto, Answered, Undoable, WatchdogOn
<1>6. CASE Commit(r)
  <2>1. record[r] = "pending" /\ Unrefunded(r)
    BY <1>6 DEF Commit, CommitReservation, StageInv
  <2>2. late'[r] \subseteq {"rollback"}
    BY <1>6, <2>1 DEF Commit, CommitReservation, CancelWatchdog, WatchdogAwaits, Unrefunded
  <2> QED
    BY <1>6, <2>2 DEF Commit, CommitReservation, CancelWatchdog, Goto, Callers, Answered,
       Undoable
<1>7. CASE GiveUpLock(r) \/ RejectState(r) \/ CommitFails(r) \/ SaveConflict(r) \/ SaveRaises(r)
  <2>1. /\ at[r] \in {"lock", "load", "commit", "save"}
        /\ UNCHANGED <<record, age, watchdog, debits, credits, deadLetters, late, bets>>
        /\ at[r] # "save" => Abort(r, FALSE) \/ record[r] # "committed"
    BY <1>7 DEF GiveUpLock, RejectState, CommitFails, CommitRefused, SaveConflict, SaveRaises
  <2>2. /\ Abort(r, TRUE) \/ Abort(r, FALSE)
        /\ at[r] = "save" => Abort(r, TRUE)
    BY <1>7 DEF GiveUpLock, RejectState, CommitFails, SaveConflict, SaveRaises
  <2>3. /\ at'[r] = "rollback" /\ call'["handler"][r] = "script"
        /\ call'["watchdog"][r] = call["watchdog"][r]
    BY <2>2, AbortEffect
  <2>4. at[r] = "save" => force'[r]
    BY <2>2 DEF Abort
  <2>5. call["handler"][r] = "idle"
    BY <2>1
  <2> QED
    BY <2>1, <2>3, <2>4, <2>5 DEF Answered, Undoable, WatchdogOn, Past
<1> QED
  BY <1>1, <1>2, <1>3, <1>4, <1>5, <1>6, <1>7 DEF Handle, Unreserve

\* A rollback of the handler hands over to nobody before it has refunded or queued.
LEMMA HandlerOwed ==
    ASSUME NEW r \in Requests, Faults \subseteq {"credit", "engine"},
           TypeOK, DebitedOnce(r), AnsweredFor(r), HandlerRollback(r)
    PROVE  AnsweredFor(r)'
<1> USE DEF TypeOK, WalletTypeOK, AnsweredFor, Owed, Answered, Undoable, WatchdogOn, Past,
        Callers, recordVars, chipVars, handlerVars
<1>1. /\ at[r] = "rollback" /\ UNCHANGED <<at, bets>> /\ RollbackStep("handler", r)
      /\ "debit" \notin late'[r]
  BY RollbackEffect DEF HandlerRollback
<1>2. CASE RollbackScript("handler", r)
  BY <1>1, <1>2 DEF RollbackScript
<1>3. CASE RollbackRefused("handler", r)
  BY <1>1, <1>3 DEF RollbackRefused, EndCall, RefundDue, AllowCommitted
<1>4. CASE LoadReservation("handler", r)
  BY <1>1, <1>4 DEF LoadReservation
<1>5. CASE LoadReservationFails("handler", r)
  BY <1>1, <1>5 DEF LoadReservationFails, CancelWatchdog, CallAfterCancel
<1>6. CASE CreditRefund("handler", r)
  BY <1>1, <1>6 DEF CreditRefund, Credit, CallAfterCancel
<1>7. CASE CreditFails("handler", r)
  BY <1>1, <1>7 DEF CreditFails
<1>8. CASE PushDeadLetter("handler", r)
  BY <1>1, <1>8 DEF PushDeadLetter, CallAfterCancel
<1> QED
  BY <1>1, <1>2, <1>3, <1>4, <1>5, <1>6, <1>7, <1>8 DEF RollbackStep, RollbackTimesOut

\* Nor does the watchdog.
LEMMA WatchdogOwed ==
    ASSUME NEW r \in Requests, Amount[r] > 0, Faults \subseteq {"credit", "engine"},
           TypeOK, StageInv(r), AnsweredFor(r), WatchdogStep(r)
    PROVE  AnsweredFor(r)'
<1> USE DEF TypeOK, WalletTypeOK, AnsweredFor, Owed, Answered, Undoable, WatchdogOn, Past,
        Callers, recordVars, chipVars, handlerVars
<1>1. CASE WatchdogFires(r)
  BY <1>1 DEF WatchdogStep, WatchdogFires, StartRollback
<1>2. CASE RollbackStep("watchdog", r)
  <2>1. UNCHANGED <<at, bets>> /\ "debit" \notin late'[r]
    BY <1>2, RollbackEffect DEF WatchdogStep
  <2>2. CASE RollbackScript("watchdog", r)
    BY <2>1, <2>2 DEF RollbackScript, StageInv, Untouched
  <2>3. CASE RollbackRefused("watchdog", r)
    BY <2>1, <2>3 DEF RollbackRefused, EndCall, RefundDue
  <2>4. CASE LoadReservation("watchdog", r)
    BY <2>1, <2>4 DEF LoadReservation
  <2>5. CASE LoadReservationFails("watchdog", r)
    BY <2>1, <2>5 DEF LoadReservationFails, CancelWatchdog, CallAfterCancel, StageInv, Untouched
  <2>6. CASE CreditRefund("watchdog", r)
    BY <2>1, <2>6 DEF CreditRefund, Credit, CallAfterCancel
  <2>7. CASE CreditFails("watchdog", r)
    BY <2>1, <2>7 DEF CreditFails
  <2>8. CASE PushDeadLetter("watchdog", r)
    BY <2>1, <2>8 DEF PushDeadLetter, CallAfterCancel
  <2> QED
    BY <1>2, <2>2, <2>3, <2>4, <2>5, <2>6, <2>7, <2>8 DEF RollbackStep, RollbackTimesOut
<1> QED
  BY <1>1, <1>2 DEF WatchdogStep

\* A pending record outlives the watchdog's wait, and no late script unsettles a record
\* somebody answers for.
LEMMA TimeOwed ==
    ASSUME NEW r \in Requests, Amount[r] > 0, TypeOK, DebitedOnce(r), StageInv(r),
           AnsweredFor(r), TimePasses(r) \/ LateArrival(r)
    PROVE  AnsweredFor(r)'
<1> USE DEF TypeOK, WalletTypeOK, AnsweredFor, Owed, Answered, Undoable, WatchdogOn, Past,
        Callers, recordVars, chipVars, callVars, handlerVars
<1>1. CASE TimePasses(r)
  BY <1>1 DEF TimePasses, TTLReached, GracePassed, PendingExpires, FinalExpires, StageInv,
     Untouched
<1>2. CASE LateArrival(r)
  <2>1. PICK op \in LateOps : LateEffect(op, r)
    BY <1>2 DEF LateArrival
  <2>2. /\ op \in late[r] /\ late'[r] = late[r] \ {op}
        /\ UNCHANGED <<watchdog, call, force, at, age, deadLetters, bets>>
    BY <1>2, <2>1 DEF LateArrival, LateEffect
  <2>3. CASE op = "credit"
    BY <2>1, <2>2, <2>3 DEF LateEffect, Credit
  <2>4. CASE op \notin {"debit", "credit"}
    BY <2>1, <2>2, <2>4 DEF LateEffect, LateStatus, StageInv, Untouched
  <2> QED
    BY <2>2, <2>3, <2>4
<1> QED
  BY <1>1, <1>2

\* OwedInv is inductive under the faults the handler makes up for.
LEMMA NextOwedInv ==
    ASSUME Faults \subseteq {"credit", "engine"}, TypeOK, OnceInv, PaidInv, OwedInv,
           [Next]_vars
    PROVE  OwedInv'
<1> SUFFICES ASSUME NEW q \in Requests, Amount[q] > 0 PROVE AnsweredFor(q)'
  BY DEF OwedInv
<1>1. DebitedOnce(q) /\ StageInv(q) /\ AnsweredFor(q)
  BY DEF OnceInv, PaidInv, OwedInv
<1>2. ASSUME NEW r \in Requests, StepOf(r) PROVE AnsweredFor(q)'
  BY <1>1, <1>2, OwnOwed, HandlerOwed, WatchdogOwed, TimeOwed, StepFrame, SameKeepsOwed
  DEF StepOf
<1>3. CASE OtherWrite
  BY <1>1, <1>3, SameKeepsOwed DEF OtherWrite, Same, walletVars, recordVars, chipVars,
     callVars
<1>4. CASE UNCHANGED vars
  BY <1>1, <1>4, SameKeepsOwed DEF vars, handlerVars, Same, walletVars, recordVars,
     chipVars, callVars
<1> QED
  BY <1>2, <1>3, <1>4 DEF Next, StepOf, Crash

\* Where only refunds and the engine fail, chips that were debited are in a saved bet,
\* back in the wallet or in the dead-letter queue as soon as nothing is at work for their
\* request, however slow the handler and whatever the watchdog has done meanwhile.
THEOREM RefundsAreMade ==
    ASSUME Faults \subseteq {"credit", "engine"}
    PROVE  Spec => []FailedBetIsRefunded
<1>1. Init => OnceInv /\ PaidInv /\ OwedInv /\ FreeInv
  BY DEF Init, WalletInit, OnceInv, DebitedOnce, Unpaid, PaidInv, StageInv, Untouched,
     OwedInv, AnsweredFor, Owed, FreeInv, Free, Callers
<1>2. TypeOK /\ OnceInv /\ PaidInv /\ OwedInv /\ FreeInv /\ [Next]_vars
        => OnceInv' /\ PaidInv' /\ OwedInv' /\ FreeInv'
  BY NextOnceInv, NextPaidInv, NextOwedInv, NextFreeInv
<1>3. TypeOK /\ OnceInv /\ OwedInv /\ FreeInv => FailedBetIsRefunded
  <2> SUFFICES ASSUME TypeOK, OnceInv, OwedInv, FreeInv, NEW r \in Requests, Settled(r), debits[r] > 0
               PROVE  r \in bets \/ credits[r] > 0 \/ deadLetters[r] > 0
    BY DEF FailedBetIsRefunded
  <2>1. CASE Amount[r] > 0
    BY <2>1 DEF TypeOK, WalletTypeOK, OnceInv, DebitedOnce, OwedInv, AnsweredFor, Owed,
       Answered, Undoable, WatchdogOn, Past, Settled
  <2>2. CASE Amount[r] = 0
    BY <2>2 DEF FreeInv, Free
  <2> QED
    BY <2>1, <2>2 DEF RequestAssumption
<1> QED
  BY <1>1, <1>2, <1>3, TypeCorrect, PTL DEF Spec
=============================================================================
