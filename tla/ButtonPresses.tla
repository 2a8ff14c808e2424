--------------------------- MODULE ButtonPresses ---------------------------
(***************************************************************************)
(* What keeps a press of an inline button from counting twice, or on a     *)
(* game it was not shown for.  Two guards:                                 *)
(*                                                                         *)
(*  - protect_against_races (aiogram_flow.py): the callback's id is marked *)
(*    on the game and saved with its version, the action lock of the user  *)
(*    and the button is taken, the game is loaded again, its stage and     *)
(*    callback version are compared with the button's, and only then does  *)
(*    the handler run, with the version it must save under.                *)
(*  - CallbackTokenManager (pokerbotview.py): every button carries a token *)
(*    stored under its nonce; the press reads it, marks it used and only   *)
(*    then calls the engine (_handle_action_callback).                     *)
(*                                                                         *)
(* Telegram may deliver one callback more than once, with the same id.     *)
(***************************************************************************)
EXTENDS Naturals, Sequences, FiniteSets

CONSTANTS Presses,       \* deliveries to the guarded handler
          HistoryLimit,  \* _CALLBACK_HISTORY_LIMIT
          LastStage,     \* stages of a hand are 0 .. LastStage
          MaxMoves,      \* bound: steps of the game that no press makes
          Taps,          \* presses of the buttons that carry a token
          Tokens,        \* tokens generated
          NoPress

ASSUME PressAssumption == HistoryLimit \in Nat \ {0} /\ LastStage \in Nat

VARIABLES table,   \* the stored game: hand, stage, cb (callback_version), rev, marks
          shown,   \* the buttons on the chat's messages
          press,   \* the guarded handler's runs
          holder,  \* action lock of a button: the press that holds it
          acted,   \* the effects saved so far (history)
          moves,   \* moves of others so far
          token,   \* Redis: state of each token's record
          whole,   \* the button carries its token's whole nonce
          tap,     \* _handle_action_callback's runs
          played,  \* taps that reached the engine, and for which token (history)
          crossed  \* tokens read by two taps before either marked it (history)

gateVars  == <<table, shown, press, holder, acted, moves>>
tokenVars == <<token, whole, tap, played, crossed>>
pressVars == <<table, shown, press, holder, acted, moves, token, whole, tap, played, crossed>>

Buttons == [hand : Nat, stage : 0..LastStage, cb : Nat]

(* processed_callbacks, its deque and how many ids the hand has marked. *)
NoMarks == [known |-> {}, order |-> <<>>, count |-> 0]

(* build_action_callback_data: a button names the stage and callback version *)
(* of the game it was drawn for; "hand" is what it cannot name (history).    *)
ButtonOf(g) == [hand |-> g.hand, stage |-> g.stage, cb |-> g.cb]

(* Mutant of MarkSeen: the deque has no limit. *)
MarkAll(marks, id) ==
    [known |-> marks.known \union {id},
     order |-> Append(marks.order, id),
     count |-> marks.count + 1]

(* mark_callback_processed of an unseen id: the deque drops its oldest entry *)
(* when it is full, and the id then popped from it is forgotten.             *)
MarkSeen(marks, id) ==
    LET known == marks.known \union {id}
        full  == Append(marks.order, id)
        order == IF Len(full) > HistoryLimit THEN Tail(full) ELSE full
        over  == Cardinality(known) > HistoryLimit
    IN  [known |-> IF over THEN known \ {Head(order)} ELSE known,
         order |-> IF over THEN Tail(order) ELSE order,
         count |-> marks.count + 1]

NotPressed == [pc |-> "idle", id |-> NoPress, button |-> NoPress, copy |-> NoPress, mark |-> NoPress]

PressInit ==
    /\ table = [hand |-> 1, stage |-> 0, cb |-> 0, rev |-> 0, marks |-> NoMarks]
    /\ shown = {ButtonOf(table)}
    /\ press = [p \in Presses |-> NotPressed]
    /\ holder = <<>>
    /\ acted = {}
    /\ moves = 0
    /\ token = [k \in Tokens |-> "none"]
    /\ whole = [k \in Tokens |-> FALSE]
    /\ tap = [t \in Taps |-> [pc |-> "idle", token |-> NoPress]]
    /\ played = {}
    /\ crossed = {}

-----------------------------------------------------------------------------
(* The game as others move it. *)

(* The stored game changes: its version grows, its buttons are drawn again. *)
Store(g) == table' = [g EXCEPT !.rev = @ + 1] /\ shown' = shown \union {ButtonOf(g)}

(* progress_stage: the next stage and a new callback version. *)
NextStage(g) == [g EXCEPT !.stage = @ + 1, !.cb = @ + 1]

(* reset(), then increment_callback_version: the version starts over, and so *)
(* do the marks.                                                             *)
NextHand(g) == [g EXCEPT !.hand = @ + 1, !.stage = 0, !.cb = 1, !.marks = NoMarks]

(* A save by someone else, a stage that ends on a message, a hand that ends. *)
OthersMove ==
    /\ moves < MaxMoves
    /\ moves' = moves + 1
    /\ \/ Store(table)
       \/ table.stage < LastStage /\ Store(NextStage(table))
       \/ Store(NextHand(table))
    /\ UNCHANGED <<press, holder, acted, tokenVars>>

-----------------------------------------------------------------------------
(* protect_against_races. *)

(* The press goes on, or ends, and drops the copy of the game it had. *)
Go(p, pc) == press' = [press EXCEPT ![p].pc = pc, ![p].copy = NoPress]

(* Telegram delivers a press of a button: a new callback id. *)
PressButton(p) ==
    /\ press[p].pc = "idle"
    /\ \E b \in shown :
         press' = [press EXCEPT ![p] = [NotPressed EXCEPT !.pc = "mark", !.id = p, !.button = b]]
    /\ UNCHANGED <<table, shown, holder, acted, moves, tokenVars>>

(* Telegram delivers an earlier callback once more, under its id. *)
PressAgain(p) ==
    /\ press[p].pc = "idle"
    /\ \E q \in Presses \ {p} :
         /\ press[q].pc # "idle"
         /\ press' = [press EXCEPT ![p] = [NotPressed EXCEPT
                !.pc = "mark", !.id = press[q].id, !.button = press[q].button]]
    /\ UNCHANGED <<table, shown, holder, acted, moves, tokenVars>>

(* load_game_with_version, and mark_callback_processed on what was loaded. *)
MarkCallback(p) ==
    /\ press[p].pc = "mark"
    /\ press' = [press EXCEPT ![p] =
         IF @.id \in table.marks.known THEN [@ EXCEPT !.pc = "over"]
         ELSE [@ EXCEPT !.pc = "save", !.mark = [hand |-> table.hand, nth |-> table.marks.count],
                        !.copy = [table EXCEPT !.marks = MarkSeen(@, press[p].id)]]]
    /\ UNCHANGED <<table, shown, holder, acted, moves, tokenVars>>

(* Mutant of SaveMark: the version is not checked. *)
SaveMarkOver(p) ==
    /\ press[p].pc = "save"
    /\ Store(press[p].copy) /\ Go(p, "lock")
    /\ UNCHANGED <<holder, acted, moves, tokenVars>>

(* save_game_with_version_check of the mark; a conflict ends the press. *)
SaveMark(p) ==
    /\ press[p].pc = "save"
    /\ IF table.rev = press[p].copy.rev
         THEN Store(press[p].copy) /\ Go(p, "lock")
         ELSE Go(p, "over") /\ UNCHANGED <<table, shown>>
    /\ UNCHANGED <<holder, acted, moves, tokenVars>>

(* acquire_action_lock_with_retry on the user's key for this button, which   *)
(* waits for a while and then gives the press up.                            *)
LockButton(p) ==
    /\ press[p].pc = "lock"
    /\ \/ /\ press[p].button \notin DOMAIN holder
          /\ holder' = [b \in DOMAIN holder \union {press[p].button} |->
                          IF b = press[p].button THEN p ELSE holder[b]]
          /\ Go(p, "check")
       \/ /\ press[p].button \in DOMAIN holder
          /\ Go(p, "over")
          /\ UNCHANGED holder
    /\ UNCHANGED <<table, shown, acted, moves, tokenVars>>

Without(b) == [c \in DOMAIN holder \ {b} |-> holder[c]]

(* release_action_lock of the finally block: only the holder's token. *)
Unlock(p) ==
    LET b == press[p].button
    IN  holder' = IF b \in DOMAIN holder /\ holder[b] = p THEN Without(b) ELSE holder

(* The lock's time to live ends while its press still works. *)
LockExpires ==
    /\ \E b \in DOMAIN holder : holder' = Without(b)
    /\ UNCHANGED <<table, shown, press, acted, moves, tokenVars>>

(* load_game_with_version again; an outdated version or stage refuses. *)
CheckButton(p) ==
    /\ press[p].pc = "check"
    /\ IF table.cb = press[p].button.cb /\ table.stage = press[p].button.stage
         THEN /\ press' = [press EXCEPT ![p].pc = "act", ![p].copy = table]
              /\ UNCHANGED holder
         ELSE Go(p, "over") /\ Unlock(p)
    /\ UNCHANGED <<table, shown, acted, moves, tokenVars>>

(* Mutant of Act: the version is not checked. *)
ActBlindly(p) ==
    /\ press[p].pc = "act"
    /\ Go(p, "over")
    /\ Unlock(p)
    /\ \/ Store(press[p].copy)
       \/ table.stage < LastStage /\ Store(NextStage(press[p].copy))
    /\ acted' = acted \union {[press |-> p, id |-> press[p].id, mark |-> press[p].mark,
                               button |-> press[p].button, on |-> ButtonOf(table)]}
    /\ UNCHANGED <<moves, tokenVars>>

(* The handler: it plays on the loaded game, which may end the stage, and    *)
(* saves under the version it was given, or raises; the lock is released.    *)
Act(p) ==
    /\ press[p].pc = "act"
    /\ Go(p, "over")
    /\ Unlock(p)
    /\ \/ /\ table.rev = press[p].copy.rev
          /\ \/ Store(press[p].copy)
             \/ table.stage < LastStage /\ Store(NextStage(press[p].copy))
          /\ acted' = acted \union {[press |-> p, id |-> press[p].id, mark |-> press[p].mark,
                                     button |-> press[p].button, on |-> ButtonOf(table)]}
       \/ UNCHANGED <<table, shown, acted>>
    /\ UNCHANGED <<moves, tokenVars>>

-----------------------------------------------------------------------------
(* Tokens. *)

(* generate_token stores the token under its whole nonce; the buttons of     *)
(* _create_action_buttons carry the nonce's first eight characters, any      *)
(* other caller has the whole of it.                                         *)
GenerateToken(k) ==
    /\ token[k] = "none"
    /\ token' = [token EXCEPT ![k] = "fresh"]
    /\ \E w \in BOOLEAN : whole' = [whole EXCEPT ![k] = w]
    /\ UNCHANGED <<gateVars, tap, played, crossed>>

(* Redis drops the record; marking it used would store it again. *)
TokenExpires(k) ==
    /\ token[k] \in {"fresh", "used"}
    /\ token' = [token EXCEPT ![k] = "gone"]
    /\ UNCHANGED <<gateVars, whole, tap, played, crossed>>

(* The record a press finds: under a part of the nonce there is none. *)
Found(k) == IF whole[k] THEN token[k] ELSE "gone"

(* validate_token up to its read: refused unless there is an unused record. *)
ReadToken(t) ==
    /\ tap[t].pc = "idle"
    /\ \E k \in Tokens :
         /\ token[k] # "none"
         /\ tap' = [tap EXCEPT ![t] =
                [pc |-> IF Found(k) = "fresh" THEN "use" ELSE "refused", token |-> k]]
         /\ crossed' = IF Found(k) = "fresh" /\ \E s \in Taps : tap[s] = [pc |-> "use", token |-> k]
                         THEN crossed \union {k} ELSE crossed
    /\ UNCHANGED <<gateVars, token, whole, played>>

(* Mutant of UseToken: the record is not written back. *)
UseUnmarked(t) ==
    /\ tap[t].pc = "use"
    /\ tap' = [tap EXCEPT ![t].pc = "play"]
    /\ UNCHANGED <<gateVars, token, whole, played, crossed>>

(* validate_token's second half: the record is written back, marked used. *)
UseToken(t) ==
    /\ tap[t].pc = "use"
    /\ token' = [token EXCEPT ![tap[t].token] = "used"]
    /\ tap' = [tap EXCEPT ![t].pc = "play"]
    /\ UNCHANGED <<gateVars, whole, played, crossed>>

(* process_action; whatever it answers, the token stays used. *)
PlayToken(t) ==
    /\ tap[t].pc = "play"
    /\ tap' = [tap EXCEPT ![t].pc = "over"]
    /\ \E ok \in BOOLEAN : played' = IF ok THEN played \union {t} ELSE played
    /\ UNCHANGED <<gateVars, token, whole, crossed>>

GuardStep(p) ==
    \/ PressButton(p) \/ PressAgain(p) \/ MarkCallback(p) \/ SaveMark(p)
    \/ LockButton(p) \/ CheckButton(p) \/ Act(p)

TokenStep ==
    \/ \E k \in Tokens : GenerateToken(k) \/ TokenExpires(k)
    \/ \E t \in Taps : ReadToken(t) \/ UseToken(t) \/ PlayToken(t)

GuardNext == (\E p \in Presses : GuardStep(p)) \/ OthersMove \/ LockExpires

PressNext == GuardNext \/ TokenStep

PressSpec == PressInit /\ [][PressNext]_pressVars

-----------------------------------------------------------------------------
(* The variables keep their types. *)
PressTypeOK ==
    /\ table.stage \in 0..LastStage
    /\ Len(table.marks.order) <= HistoryLimit
    /\ \A p \in Presses : press[p].pc \in {"idle", "mark", "save", "lock", "check", "act", "over"}
    /\ DOMAIN holder \subseteq shown
    /\ token \in [Tokens -> {"none", "fresh", "used", "gone"}]
    /\ \A t \in Taps : tap[t].pc \in {"idle", "use", "refused", "play", "over"}

(* However often a callback is delivered, and even when the lock has         *)
(* expired, the runs that mark it in one hand have one effect: only after    *)
(* HistoryLimit more callbacks, which push its mark out, does it count again.*)
CallbackCountsOnce ==
    \A e, f \in acted :
        /\ e.id = f.id
        /\ e.mark.hand = f.mark.hand
        /\ e.press # f.press
        => e.mark.nth >= f.mark.nth + HistoryLimit \/ f.mark.nth >= e.mark.nth + HistoryLimit

(* A press changes the game only in the stage and callback version its       *)
(* button was drawn for, though the game moves between the check of the      *)
(* button and the save.                                                      *)
EffectInItsStage ==
    \A e \in acted : e.on.stage = e.button.stage /\ e.on.cb = e.button.cb

(* A token lets one press through, unless two presses read it before either  *)
(* has marked it used.                                                       *)
TokenPlaysOnce ==
    \A s, t \in played : tap[s].token = tap[t].token => s = t \/ tap[s].token \in crossed

\* A button pressed twice, delivered twice or pressed late counts once and only in
\* the stage it was drawn for.
PressInv ==
  /\ CallbackCountsOnce
  /\ EffectInItsStage
  /\ TokenPlaysOnce

=============================================================================
