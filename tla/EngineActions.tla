--------------------------- MODULE EngineActions ---------------------------
(***************************************************************************)
(* GameEngine.process_action and handle_player_action: an action on the    *)
(* hand kept as a JSON document with a version in Redis.                   *)
(*                                                                         *)
(* A request takes the action lock of its chat, user and kind of action,   *)
(* checks the document, reads it again under the player's lock and changes *)
(* its copy, collects the bets under the pot's lock when the round is      *)
(* over, and saves under the table's lock.  Between the awaits nothing     *)
(* else runs, so each critical section is one step; entering one may time  *)
(* out.  A request works on its own copy: call[r].copy.                    *)
(***************************************************************************)
EXTENDS Integers, FiniteSets, FiniteSetsExt, Sums

CONSTANTS Requests,   \* button presses, numbered as they come
          SeatUsers,  \* number of players in the document
          Stack,      \* chips of a player at first
          Bet,        \* current_bet at first
          RaiseBy,    \* amount of a raise
          Acts,       \* _valid_player_actions
          NoDoc, NoRequest

SeatNos == 0..(SeatUsers - 1)

Documents ==
  [version : Nat \ {0}, bet : Nat, pot : Nat, turn : SeatNos,
   players : [SeatNos -> [chips : 0..Stack, bet : Nat, acted : BOOLEAN, folded : BOOLEAN]]]

ASSUME EngineAssumption ==
  /\ Requests \subseteq Nat /\ NoRequest \notin Requests
  /\ SeatUsers \in Nat \ {0} /\ Stack \in Nat /\ Bet \in Nat /\ RaiseBy \in Int
  /\ Acts = {"fold", "check", "call", "raise", "all_in"}
  /\ NoDoc \notin Documents

VARIABLES doc,      \* game:{chat}:state in Redis
          call,     \* what each request has done so far
          tapLock   \* action lock: <<player, action>> -> request

engineVars == <<doc, call, tapLock>>

Player == [chips |-> Stack, bet |-> 0, acted |-> FALSE, folded |-> FALSE]

EngineInit ==
  /\ doc = [version |-> 1, bet |-> Bet, pot |-> 0, turn |-> 0,
            players |-> [p \in SeatNos |-> Player]]
  /\ call = [r \in Requests |-> [at |-> "new"]]
  /\ tapLock = [k \in SeatNos \X Acts |-> NoRequest]

At(r) == call[r].at
Who(r) == call[r].who
TapKey(r) == <<Who(r), call[r].act>>

-----------------------------------------------------------------------------
(* What an action does to a document *)

RequiredAmount(act, d, p) ==
  CASE act = "call" -> d.bet - d.players[p].bet
    [] act = "raise" -> d.bet - d.players[p].bet + RaiseBy
    [] act = "all_in" -> d.players[p].chips
    [] OTHER -> 0

Contribution(act, d, p) == Max({0, RequiredAmount(act, d, p)})

\* Mutant of CanApply: nobody looks at the stack.
CanAlways(act, d, p) == TRUE

CanApply(act, d, p) == Contribution(act, d, p) <= d.players[p].chips

\* Mutant of Applied: every contribution raises the bet.
AppliedToBet(act, d, p) ==
  LET paid == Contribution(act, d, p)
  IN [d EXCEPT !.players[p].chips = @ - paid, !.players[p].bet = @ + paid,
               !.players[p].acted = TRUE,
               !.players[p].folded = @ \/ act = "fold",
               !.bet = @ + paid]

Applied(act, d, p) ==
  LET paid == Contribution(act, d, p)
      staked == d.players[p].bet + paid
  IN [d EXCEPT !.players[p] = [chips |-> @.chips - paid, bet |-> staked, acted |-> TRUE,
                               folded |-> @.folded \/ act = "fold"],
               !.bet = IF act \in {"raise", "all_in"} THEN Max({@, staked}) ELSE @]

Unfolded(d) == {p \in SeatNos : ~d.players[p].folded}

RoundComplete(d) ==
  \/ Cardinality(Unfolded(d)) <= 1
  \/ \A p \in Unfolded(d) :
       d.players[p].acted /\ (d.players[p].bet = d.bet \/ d.players[p].chips = 0)

Bets(d) == Sum([p \in SeatNos |-> d.players[p].bet], SeatNos)

\* Mutant of CollectBets: the bets stay where they are.
CopyBets(d) == [d EXCEPT !.pot = @ + Bets(d)]

CollectBets(d) ==
  [d EXCEPT !.pot = @ + Bets(d),
            !.players = [p \in SeatNos |-> [d.players[p] EXCEPT !.bet = 0]]]

\* The next player who has not folded, or the same index.
NextTurn(d) ==
  LET after == {i \in 1..SeatUsers : (d.turn + i) % SeatUsers \in Unfolded(d)}
  IN IF after = {} THEN d.turn ELSE (d.turn + Min(after)) % SeatUsers

Advance(d) == [d EXCEPT !.turn = NextTurn(d), !.version = @ + 1]

-----------------------------------------------------------------------------
(* A request *)

Answer(r, reply) ==
  call' = [call EXCEPT ![r] = [at |-> "answered", who |-> Who(r), act |-> call[r].act,
                               reply |-> reply]]

\* process_action: the action lock is held by another tap of the same button.
Tap(r, p, act) ==
  /\ At(r) = "new" /\ \A q \in Requests : q < r => At(q) # "new"
  /\ call' = [call EXCEPT ![r] =
       IF tapLock[<<p, act>>] = NoRequest THEN [at |-> "locked", who |-> p, act |-> act]
       ELSE [at |-> "done", who |-> p, act |-> act, reply |-> "refused"]]
  /\ tapLock' = [tapLock EXCEPT ![<<p, act>>] = IF @ = NoRequest THEN r ELSE @]
  /\ UNCHANGED doc

\* Its time to live ends.
TapLockExpires(k) ==
  /\ tapLock[k] # NoRequest
  /\ tapLock' = [tapLock EXCEPT ![k] = NoRequest]
  /\ UNCHANGED <<doc, call>>

\* Step 1, under the table's read lock.
Validate(r) ==
  /\ At(r) = "locked"
  /\ IF doc = NoDoc \/ (doc # NoDoc /\ doc.players[Who(r)].folded)
     THEN Answer(r, "refused") ELSE call' = [call EXCEPT ![r].at = "valid"]
  /\ UNCHANGED <<doc, tapLock>>

\* Mutants of Apply: the player may act again; the state that was read is
\* changed in place.
ApplyAgain(r) ==
  /\ At(r) = "valid"
  /\ IF doc = NoDoc \/ (doc # NoDoc /\ ~CanApply(call[r].act, doc, Who(r)))
     THEN Answer(r, "refused")
     ELSE call' = [call EXCEPT ![r] =
            [at |-> "applied", who |-> Who(r), act |-> @.act,
             copy |-> Applied(@.act, doc, Who(r))]]
  /\ UNCHANGED <<doc, tapLock>>

ApplyInPlace(r) ==
  /\ At(r) = "valid"
  /\ IF doc = NoDoc \/ (doc # NoDoc /\ doc.players[Who(r)].acted)
        \/ (doc # NoDoc /\ ~CanApply(call[r].act, doc, Who(r)))
     THEN Answer(r, "refused") /\ UNCHANGED doc
     ELSE /\ doc' = Applied(call[r].act, doc, Who(r))
          /\ call' = [call EXCEPT ![r] =
               [at |-> "applied", who |-> Who(r), act |-> @.act, copy |-> doc']]
  /\ UNCHANGED tapLock

\* Step 2, under the player's lock: read again, change the copy.  Nobody asks
\* whose turn it is.
Apply(r) ==
  /\ At(r) = "valid"
  /\ IF doc = NoDoc \/ (doc # NoDoc /\ doc.players[Who(r)].acted)
        \/ (doc # NoDoc /\ ~CanApply(call[r].act, doc, Who(r)))
     THEN Answer(r, "refused")
     ELSE call' = [call EXCEPT ![r] =
            [at |-> "applied", who |-> Who(r), act |-> @.act,
             copy |-> Applied(@.act, doc, Who(r))]]
  /\ UNCHANGED <<doc, tapLock>>

\* Step 3, under the pot's lock.
CollectPot(r) ==
  /\ At(r) = "applied"
  /\ LET d == call[r].copy
         over == call[r].act \in {"call", "raise", "all_in"} /\ RoundComplete(d)
     IN call' = [call EXCEPT ![r].at = "collected",
                             ![r].copy = IF over THEN CollectBets(d) ELSE d]
  /\ UNCHANGED <<doc, tapLock>>

\* Mutant of VersionMatches: whatever is stored is replaced.
AnyDocument(d) == TRUE

\* _SAVE_GAME_STATE_LUA: a missing document has version 0.
VersionMatches(d) == (IF doc = NoDoc THEN 0 ELSE doc.version) = d.version

\* Step 4, under the table's write lock.
SaveState(r) ==
  /\ At(r) = "collected"
  /\ IF VersionMatches(call[r].copy)
     THEN doc' = Advance(call[r].copy) /\ Answer(r, "success")
     ELSE UNCHANGED doc /\ Answer(r, "refused")
  /\ UNCHANGED tapLock

\* The connection breaks before or after the script ran: "Internal error".
SaveRaises(r, applied) ==
  /\ At(r) = "collected"
  /\ applied => VersionMatches(call[r].copy)
  /\ doc' = IF applied THEN Advance(call[r].copy) ELSE doc
  /\ Answer(r, "error")
  /\ UNCHANGED tapLock

\* A load fails, or a lock cannot be had in time.
StepFails(r) ==
  /\ At(r) \in {"locked", "valid", "applied", "collected"}
  /\ Answer(r, "refused")
  /\ UNCHANGED <<doc, tapLock>>

\* finally: only the own token is taken away.
ReleaseTap(r) ==
  /\ At(r) = "answered"
  /\ tapLock' = [tapLock EXCEPT ![TapKey(r)] = IF @ = r THEN NoRequest ELSE @]
  /\ call' = [call EXCEPT ![r].at = "done"]
  /\ UNCHANGED doc

\* PEXPIRE of the document.
DocExpires ==
  /\ doc # NoDoc
  /\ doc' = NoDoc
  /\ UNCHANGED <<call, tapLock>>

EngineNext ==
  \/ \E r \in Requests :
       \/ \E p \in SeatNos, act \in Acts : Tap(r, p, act)
       \/ Validate(r) \/ Apply(r) \/ CollectPot(r) \/ SaveState(r)
       \/ StepFails(r) \/ ReleaseTap(r)
       \/ \E applied \in BOOLEAN : SaveRaises(r, applied)
  \/ \E k \in DOMAIN tapLock : TapLockExpires(k)
  \/ DocExpires

EngineSpec == EngineInit /\ [][EngineNext]_engineVars

-----------------------------------------------------------------------------
(* Properties *)

EngineTypeOK ==
  /\ doc # NoDoc =>
       /\ doc.version \in Nat /\ doc.bet \in Nat /\ doc.pot \in Nat /\ doc.turn \in SeatNos
       /\ \A p \in SeatNos : doc.players[p].chips \in 0..Stack /\ doc.players[p].bet \in Nat
  /\ \A r \in Requests : At(r) \in
       {"new", "locked", "valid", "applied", "collected", "answered", "done"}
  /\ tapLock \in [SeatNos \X Acts -> Requests \cup {NoRequest}]

Replies(p, reply) ==
  {r \in Requests : At(r) \in {"answered", "done"} /\ Who(r) = p /\ call[r].reply = reply}

\* Chips only move between stacks, bets and the pot, whatever the requests of
\* all players have read before the others saved.
ChipsOfDocument ==
  doc # NoDoc =>
    doc.pot + Bets(doc) + Sum([p \in SeatNos |-> doc.players[p].chips], SeatNos)
      = SeatUsers * Stack

\* test_fine_grained_locking.py, "Only one action should succeed": two taps of
\* one player on two buttons have two action locks, and still one succeeds.
OneSuccessPerPlayer == \A p \in SeatNos : Cardinality(Replies(p, "success")) <= 1

\* What was acknowledged stays in the document, whoever saves after it.
AcknowledgedStays ==
  doc # NoDoc => \A p \in SeatNos : Replies(p, "success") # {} => doc.players[p].acted

\* A player none of whose requests succeeded or broke off has not acted and
\* has all the chips.
RefusedLeavesNoTrace ==
  doc # NoDoc => \A p \in SeatNos :
    (\A r \in Requests : At(r) \in {"answered", "done"} /\ Who(r) = p
       => call[r].reply = "refused")
    /\ (\A r \in Requests : At(r) \notin {"new"} /\ Who(r) = p => At(r) \in {"answered", "done"})
    => doc.players[p] = [Player EXCEPT !.bet = doc.players[p].bet]

\* Nobody resets has_acted: a round all unfolded players acted in is over, or
\* somebody raised after another had acted, or checked below the bet.
StuckOnlyByRaise ==
  doc # NoDoc =>
    \/ \E p \in Unfolded(doc) : ~doc.players[p].acted
    \/ RoundComplete(doc) \/ doc.pot > 0
    \/ \E r \in Requests : At(r) # "new" /\ call[r].act \in {"raise", "all_in", "check"}

\* Whatever the requests of a round have read before others saved: chips are
\* conserved, each player acts once, what was acknowledged stays, what was refused
\* left no trace, and the round can go on.
DocumentInv ==
  /\ ChipsOfDocument
  /\ OneSuccessPerPlayer
  /\ AcknowledgedStays
  /\ RefusedLeavesNoTrace
  /\ StuckOnlyByRaise

=============================================================================
