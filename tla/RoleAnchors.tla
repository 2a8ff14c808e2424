---------------------------- MODULE RoleAnchors ----------------------------
(* The role anchors of PokerBotViewer (pokerbotview.py): one message per     *)
(* player in the group chat with his cards and whose turn it is. A record in  *)
(* memory says what each anchor shows. The start of a hand sends anchors, its  *)
(* turns and streets edit or replace them, both under a lock; the anchors of    *)
(* players who have left are deleted outside it.                               *)
EXTENDS Integers, Sequences, FiniteSets, FiniteSetsExt, SequencesExt

CONSTANTS Players,    \* numbers: the order of the seats
          Painters,   \* calls that may run at the same time
          AnchorPresses,    \* button presses a call may serve
          NoButton, NoAnchor,
          MaxSent, MaxGameMoves, MaxCalls, MaxMisses  \* bounds

Texts == {"plain", "green", "red"}  \* without a light, or with its colour
Cards == Nat \X Nat  \* the cards of a hand beside the board of a street
Anchor == [msg : Nat, cards : Cards, text : Texts, light : Texts, sig : [cards : Cards, text : Texts]]

ASSUME AnchorsAssumption ==
  /\ Players \subseteq Nat \ {0} /\ IsFiniteSet(Players) /\ NoAnchor \notin Anchor
  /\ {MaxSent, MaxGameMoves, MaxCalls, MaxMisses} \subseteq Nat

VARIABLES round,      \* street (0 outside a hand), hand, turn, who is seated and active
          lastStage,      \* ChatAnchorState.current_stage: the street the view saw last
          chat,      \* the messages in the chat: the cards and the text of each
          sent,       \* how many anchors were sent
          roles,    \* ChatAnchorState.role_anchors
          anchors,    \* player.anchor_message, 0 for none
          deletedMarks,      \* _deleted_messages
          deletions,  \* _role_anchor_deletions
          throttle,   \* _last_callback_edit: the press and street a message was edited for
          line,       \* role_anchor_lock: who holds it, then who waits
          tasks,      \* per painter: where its call is and what it works on
          doomed,     \* messages with a _delete_replaced_message task, and how far it is
          gameMoves, callsBegun, misses,
          strays, unshown, parted  \* history: see the properties

messageVars == <<chat, sent, deletedMarks, deletions, doomed, strays>>
recordVars == <<roles, anchors, unshown, parted>>
anchorVars == <<round, lastStage, messageVars, recordVars, throttle, line, tasks, gameMoves, callsBegun, misses>>

NoCall == [at |-> "idle", kind |-> "update", todo |-> {}, cards |-> <<0, 0>>,
           turn |-> 0, press |-> NoButton, text |-> "plain", old |-> 0]

AnchorsInit(seats) ==
  /\ round = [street |-> 0, hand |-> 0, turn |-> 0, seated |-> seats, active |-> seats]
  /\ lastStage = 0 /\ chat = [m \in {} |-> NoAnchor] /\ sent = 0
  /\ roles = [p \in Players |-> NoAnchor] /\ anchors = [p \in Players |-> 0]
  /\ deletedMarks = {} /\ deletions = {} /\ throttle = [m \in 1..MaxSent |-> NoButton]
  /\ doomed = [m \in 1..MaxSent |-> "no"]
  /\ line = <<>> /\ tasks = [t \in Painters |-> NoCall]
  /\ gameMoves = 0 /\ callsBegun = 0 /\ misses = 0
  /\ strays = {} /\ unshown = {} /\ parted = {}

\* The game beside the anchors: hands, streets, turns, folds, players who leave and
\* come back as new Player objects.
GameMoves ==
  /\ gameMoves < MaxGameMoves /\ gameMoves' = gameMoves + 1
  /\ \E p \in Players :
       \/ /\ p \in round.seated /\ round.street = 0
          /\ round' = [round EXCEPT !.street = 1, !.hand = @ + 1, !.turn = p, !.active = round.seated]
          /\ UNCHANGED anchors
       \/ /\ p \in round.active /\ round.street > 0
          /\ round' \in {[round EXCEPT !.turn = p], [round EXCEPT !.street = 2],
                         [round EXCEPT !.active = @ \ {p}], [round EXCEPT !.street = 0, !.turn = 0]}
          /\ UNCHANGED anchors
       \/ /\ p \in round.seated
          /\ round' = [round EXCEPT !.seated = @ \ {p}, !.active = @ \ {p}]
          /\ UNCHANGED anchors
       \/ /\ p \notin round.seated /\ round.street = 0
          /\ round' = [round EXCEPT !.seated = @ \cup {p}, !.active = @ \cup {p}]
          /\ anchors' = [anchors EXCEPT ![p] = 0]
  /\ UNCHANGED <<lastStage, messageVars, roles, unshown, parted, throttle, line, tasks, callsBegun, misses>>

(* Beginning, taking the lock and ending a call.                             *)

\* A call looks at stage, board and turn, and only then waits for the lock.
LookThenWait(t, at, kind, todo, press) ==
  /\ lastStage' = round.street
  /\ tasks' = [tasks EXCEPT ![t] = [NoCall EXCEPT !.at = at, !.kind = kind, !.todo = todo, !.press = press,
                                      !.cards = <<round.hand, round.street>>, !.turn = round.turn]]
Begins(t) == tasks[t].at = "idle" /\ callsBegun < MaxCalls /\ callsBegun' = callsBegun + 1

\* send_player_role_anchors, at the start of a hand.
BeginSend(t) ==
  /\ Begins(t) /\ round.street = 1
  /\ LookThenWait(t, "working", "send", round.seated, NoButton) /\ line' = Append(line, t)
  /\ UNCHANGED <<round, messageVars, recordVars, throttle, gameMoves, misses>>

\* update_player_anchors_and_keyboards, for a turn or a street.
BeginUpdate(t, press) ==
  /\ Begins(t)
  /\ LookThenWait(t, "working", "update", Players, press) /\ line' = Append(line, t)
  /\ UNCHANGED <<round, messageVars, recordVars, throttle, gameMoves, misses>>

\* clear_all_player_anchors: not during a hand.
BeginClear(t, press) ==
  /\ Begins(t) /\ round.street = 0
  /\ LookThenWait(t, "clearing", "update", {p \in Players \ round.seated : roles[p] # NoAnchor}, press)
  /\ UNCHANGED <<round, messageVars, recordVars, throttle, line, gameMoves, misses>>

HasLock(t) == line # <<>> /\ Head(line) = t
PlayerOf(t) == Min(tasks[t].todo)
Turned(t) == [tasks[t] EXCEPT !.at = "working", !.todo = @ \ {PlayerOf(t)}]
NextPlayer(t) == tasks' = [tasks EXCEPT ![t] = Turned(t)]
Working(t, kind) == tasks[t].at = "working" /\ tasks[t].kind = kind /\ HasLock(t) /\ tasks[t].todo # {}

EndCall(t) ==
  /\ tasks[t].at = "working" /\ HasLock(t) /\ tasks[t].todo = {}
  /\ tasks' = [tasks EXCEPT ![t] = NoCall] /\ line' = Tail(line) /\ lastStage' = round.street
  /\ UNCHANGED <<round, messageVars, recordVars, throttle, gameMoves, callsBegun, misses>>

(* Messages in the chat.                                                     *)

Looks(t) == [cards |-> tasks[t].cards, text |-> tasks[t].text]
Fits == sent < MaxSent
\* A new message reaches the chat.
Deliver(t) == /\ sent' = sent + 1 /\ chat' = [m \in DOMAIN chat \cup {sent + 1} |-> IF m = sent + 1 THEN Looks(t) ELSE chat[m]]
Misses == misses < MaxMisses /\ misses' = misses + 1
\* A send that ends without an answer has reached the chat or not.
SendLost(t) ==
  \/ Fits /\ Deliver(t) /\ strays' = strays \cup {sent + 1}
  \/ UNCHANGED <<sent, chat, strays>>
Vanish(m) == chat' = [n \in DOMAIN chat \ {m} |-> chat[n]]
\* The message lock: an edit in Telegram's hands and a deletion exclude each other.
MessageFree(m) == \A t \in Painters : ~(tasks[t].old = m /\ tasks[t].at \in {"editing", "resending", "retrying", "retryResending"})
\* A record that was dropped while its new message was on its way leaves it behind.
Unrecorded(t) == IF roles[PlayerOf(t)] = NoAnchor THEN {sent + 1} ELSE {}

\* Mutant of Painted: the message is not noted.
PaintedInPlace(t, m) ==
  LET p == PlayerOf(t) IN
    [roles EXCEPT ![p] = IF @ = NoAnchor THEN @
       ELSE [msg |-> @.msg, cards |-> tasks[t].cards, text |-> tasks[t].text, light |-> tasks[t].text,
             sig |-> Looks(t)]]

\* What a record says once an anchor was painted; nothing if it was dropped meanwhile.
Painted(t, m) ==
  LET p == PlayerOf(t) IN
    [roles EXCEPT ![p] = IF @ = NoAnchor THEN @
       ELSE [msg |-> m, cards |-> tasks[t].cards, text |-> tasks[t].text, light |-> tasks[t].text,
             sig |-> Looks(t)]]
\* The end of an update: what was intended is recorded as shown by m.
RecordAs(t, m, shows) ==
  LET p == PlayerOf(t) IN
    /\ roles' = Painted(t, m) /\ anchors' = [anchors EXCEPT ![p] = m]
    /\ parted' = parted \ {p}
    /\ unshown' = IF shows THEN unshown \ {m} ELSE unshown \cup {m}
    /\ NextPlayer(t)
\* A record whose player points to another message forgets that message.
Forgotten(t) == IF PlayerOf(t) \in parted THEN {roles[PlayerOf(t)].msg} ELSE {}

(* send_player_role_anchors.                                                 *)

\* The cards of this moment beside the board seen at the beginning.
Dealt(t) == <<round.hand, tasks[t].cards[2]>>

Kept(p) == roles[p] # NoAnchor /\ roles[p].msg \notin deletions

\* A recorded anchor that was not deleted is taken to show what is said of it: no edit.
Reuse(t) ==
  LET p == PlayerOf(t) IN
    /\ Working(t, "send") /\ Kept(p)
    /\ deletedMarks' = deletedMarks \ {roles[p].msg}
    /\ roles' = [roles EXCEPT ![p] = [msg |-> @.msg, cards |-> Dealt(t), text |-> "plain", light |-> "plain",
                                          sig |-> [cards |-> Dealt(t), text |-> "plain"]]]
    /\ anchors' = [anchors EXCEPT ![p] = roles[p].msg] /\ parted' = parted \ {p}
    /\ unshown' = unshown \cup {roles[p].msg} /\ NextPlayer(t)
    /\ UNCHANGED <<round, lastStage, chat, sent, deletions, doomed, strays, throttle, line, gameMoves, callsBegun, misses>>

StartSend(t) ==
  LET p == PlayerOf(t) IN
    /\ Working(t, "send") /\ ~Kept(p) /\ Fits
    /\ deletions' = IF roles[p] = NoAnchor THEN deletions ELSE deletions \ {roles[p].msg}
    /\ tasks' = [tasks EXCEPT ![t].at = "sending", ![t].cards = Dealt(t)]
    /\ UNCHANGED <<round, lastStage, chat, sent, deletedMarks, doomed, strays, recordVars, throttle, line, gameMoves, callsBegun, misses>>

AnchorSent(t) ==
  LET p == PlayerOf(t) IN
    /\ tasks[t].at = "sending" /\ Fits /\ Deliver(t)
    /\ roles' = [roles EXCEPT ![p] = [msg |-> sent + 1, cards |-> tasks[t].cards, text |-> "plain", light |-> "plain", sig |-> Looks(t)]]
    /\ anchors' = [anchors EXCEPT ![p] = sent + 1] /\ parted' = parted \ {p} /\ NextPlayer(t)
    /\ UNCHANGED <<round, lastStage, deletedMarks, deletions, doomed, strays, unshown, throttle, line, gameMoves, callsBegun, misses>>

\* The send fails or times out: the player has no anchor, the loop goes on.
SendFails(t) ==
  /\ tasks[t].at = "sending" /\ Misses /\ SendLost(t) /\ NextPlayer(t)
  /\ UNCHANGED <<round, lastStage, deletedMarks, deletions, doomed, recordVars, throttle, line, gameMoves, callsBegun>>

\* Mutant of SendCancelled: the lock stays taken.
CancelledInLock(t) ==
  /\ tasks[t].kind = "send" /\ tasks[t].at \in {"working", "sending"} /\ Misses
  /\ IF tasks[t].at = "sending" THEN SendLost(t) ELSE UNCHANGED <<sent, chat, strays>>
  /\ tasks' = [tasks EXCEPT ![t] = NoCall] /\ UNCHANGED line
  /\ UNCHANGED <<round, lastStage, deletedMarks, deletions, doomed, recordVars, throttle, gameMoves, callsBegun>>

\* start_game waits 30 seconds for all of it.
SendCancelled(t) ==
  /\ tasks[t].kind = "send" /\ tasks[t].at \in {"working", "sending"} /\ Misses
  /\ IF tasks[t].at = "sending" THEN SendLost(t) ELSE UNCHANGED <<sent, chat, strays>>
  /\ tasks' = [tasks EXCEPT ![t] = NoCall] /\ line' = RemoveFirst(line, t)
  /\ UNCHANGED <<round, lastStage, deletedMarks, deletions, doomed, recordVars, throttle, gameMoves, callsBegun>>

(* update_player_anchors_and_keyboards.                                      *)

\* The light changes its colour at every update of the player to act.
AnchorText(t, p) ==
  CASE tasks[t].turn # p -> "plain"
    [] roles[p].light = "green" -> "red"
    [] OTHER -> "green"

Unchanged(t, p) ==
  LET r == roles[p] IN
    /\ r # NoAnchor /\ r.text = AnchorText(t, p) /\ r.cards = Dealt(t)
    /\ r.sig = [cards |-> Dealt(t), text |-> AnchorText(t, p)]

SkipAnchor(t) ==
  LET p == PlayerOf(t) IN
    /\ Working(t, "update")
    /\ p \notin round.active \/ anchors[p] = 0 \/ roles[p] = NoAnchor \/ Unchanged(t, p)
    /\ NextPlayer(t)
    /\ UNCHANGED <<round, lastStage, messageVars, recordVars, throttle, line, gameMoves, callsBegun, misses>>

StartUpdate(t) ==
  LET p == PlayerOf(t) IN
    /\ Working(t, "update") /\ p \in round.active /\ anchors[p] # 0
    /\ roles[p] # NoAnchor /\ ~Unchanged(t, p)
    /\ tasks' = [tasks EXCEPT ![t].at = "painting", ![t].cards = Dealt(t), ![t].text = AnchorText(t, p), ![t].old = anchors[p]]
    /\ UNCHANGED <<round, lastStage, messageVars, recordVars, throttle, line, gameMoves, callsBegun, misses>>

\* _update_message leaves a message alone that was deleted, or edited before for this
\* press and street, and answers as if it had been edited.
Token(t) == IF tasks[t].press = NoButton THEN NoButton ELSE <<tasks[t].press, round.street>>
LeavesAlone(t) == tasks[t].old \in deletedMarks \/ (Token(t) # NoButton /\ throttle[tasks[t].old] = Token(t))
\* An unchanged keyboard is edited in place, a changed one needs a new message.
InPlace(t) == LET r == roles[PlayerOf(t)] IN r # NoAnchor /\ r.msg = tasks[t].old /\ r.cards = tasks[t].cards

UpdateLeavesAlone(t) ==
  /\ tasks[t].at = "painting" /\ LeavesAlone(t)
  /\ strays' = strays \cup Forgotten(t) /\ RecordAs(t, tasks[t].old, FALSE)
  /\ UNCHANGED <<round, lastStage, chat, sent, deletedMarks, deletions, doomed, throttle, line, gameMoves, callsBegun, misses>>

\* The call to Telegram of an update or of its second attempt.
CallTelegram(t, from, inPlace, anew) ==
  /\ tasks[t].at = from /\ ~LeavesAlone(t)
  /\ tasks' = [tasks EXCEPT ![t].at = IF InPlace(t) THEN inPlace ELSE anew]
  /\ throttle' = IF InPlace(t) /\ Token(t) # NoButton THEN [throttle EXCEPT ![tasks[t].old] = Token(t)] ELSE throttle
  /\ UNCHANGED <<round, lastStage, messageVars, recordVars, line, gameMoves, callsBegun, misses>>

Edit(t) == CallTelegram(t, "painting", "editing", "resending")
EditAgain(t) == CallTelegram(t, "retry", "retrying", "retryResending")

AnchorEdited(t) ==
  /\ tasks[t].at = "editing" /\ tasks[t].old \in DOMAIN chat
  /\ chat' = [chat EXCEPT ![tasks[t].old] = Looks(t)]
  /\ strays' = strays \cup Forgotten(t) /\ RecordAs(t, tasks[t].old, TRUE)
  /\ UNCHANGED <<round, lastStage, sent, deletedMarks, deletions, doomed, throttle, line, gameMoves, callsBegun, misses>>

\* Telegram refuses an edit or a resend, or the network's time-out hides that it has
\* reached the chat.
Unanswered(t, leftOver) ==
  \/ UNCHANGED <<chat, sent>> /\ strays' = strays \cup leftOver
  \/ /\ tasks[t].at \in {"editing", "retrying"} /\ tasks[t].old \in DOMAIN chat
     /\ chat' = [chat EXCEPT ![tasks[t].old] = Looks(t)]
     /\ UNCHANGED sent /\ strays' = strays \cup leftOver
  \/ /\ tasks[t].at \in {"resending", "retryResending"} /\ Fits /\ Deliver(t)
     /\ strays' = strays \cup leftOver \cup {sent + 1}

\* Either is answered with the old message, as a successful one.
UpdateRefused(t) ==
  /\ tasks[t].at \in {"editing", "resending"} /\ Unanswered(t, Forgotten(t))
  /\ Misses \/ (tasks[t].at = "editing" /\ tasks[t].old \notin DOMAIN chat /\ UNCHANGED misses)
  /\ RecordAs(t, tasks[t].old, FALSE)
  /\ throttle' \in {throttle, [throttle EXCEPT ![tasks[t].old] = NoButton]}
  /\ UNCHANGED <<round, lastStage, deletedMarks, deletions, doomed, line, gameMoves, callsBegun>>

\* Mutant of Resent: nobody deletes the old message.
ResentBeside(t) ==
  /\ tasks[t].at = "resending" /\ Fits /\ Deliver(t)
  /\ strays' = strays \cup Forgotten(t) \cup Unrecorded(t) /\ RecordAs(t, sent + 1, TRUE)
  /\ throttle' = [throttle EXCEPT ![tasks[t].old] = NoButton, ![sent + 1] = Token(t)]
  /\ UNCHANGED <<round, lastStage, deletedMarks, deletions, doomed, line, gameMoves, callsBegun, misses>>

\* The new message is sent and recorded, the old one left to a task of its own.
Resent(t) ==
  /\ tasks[t].at = "resending" /\ Fits /\ Deliver(t)
  /\ doomed' = [doomed EXCEPT ![tasks[t].old] = "waiting"]
  /\ strays' = strays \cup Forgotten(t) \cup Unrecorded(t) /\ RecordAs(t, sent + 1, TRUE)
  /\ throttle' = [throttle EXCEPT ![tasks[t].old] = NoButton, ![sent + 1] = Token(t)]
  /\ UNCHANGED <<round, lastStage, deletedMarks, deletions, line, gameMoves, callsBegun, misses>>

\* The call times out, whether or not it has reached the chat: another attempt is made
\* if the record still is of this message.
MayHaveEdited(t, m) ==
  \/ UNCHANGED <<chat, unshown>>
  \/ m \in DOMAIN chat /\ chat' = [chat EXCEPT ![m] = Looks(t)] /\ unshown' = unshown \cup {m}
NoAnswer(t) ==
  IF tasks[t].at \in {"editing", "retrying"} THEN MayHaveEdited(t, tasks[t].old) /\ UNCHANGED <<sent, strays>>
  ELSE SendLost(t) /\ UNCHANGED unshown

\* Mutant of UpdateRaises: what was intended is recorded.
RaisedRecorded(t) ==
  /\ tasks[t].at \in {"editing", "resending"} /\ Misses
  /\ roles' = Painted(t, tasks[t].old) /\ NextPlayer(t)
  /\ UNCHANGED <<round, lastStage, messageVars, anchors, unshown, parted, throttle, line, gameMoves, callsBegun>>

UpdateRaises(t) ==
  LET r == roles[PlayerOf(t)] IN
    /\ tasks[t].at \in {"editing", "resending"} /\ Misses /\ NoAnswer(t)
    /\ tasks' = [tasks EXCEPT ![t] = IF r # NoAnchor /\ r.msg = tasks[t].old THEN [@ EXCEPT !.at = "retry"] ELSE Turned(t)]
    /\ UNCHANGED <<round, lastStage, deletedMarks, deletions, doomed, roles, anchors, parted, throttle, line, gameMoves, callsBegun>>

(* The second attempt, in _should_create_anchor_fallback: whatever it shows, *)
(* only its text and message are recorded.                                    *)

Recover(t, m) ==
  LET p == PlayerOf(t) IN
    /\ roles' = [roles EXCEPT ![p] = IF @ = NoAnchor THEN @ ELSE [@ EXCEPT !.msg = m, !.text = tasks[t].text]]
    /\ NextPlayer(t)

RetryLeavesAlone(t) ==
  /\ tasks[t].at = "retry" /\ LeavesAlone(t) /\ Recover(t, tasks[t].old)
  /\ unshown' = unshown \cup {tasks[t].old}
  /\ UNCHANGED <<round, lastStage, messageVars, anchors, parted, throttle, line, gameMoves, callsBegun, misses>>

\* _update_message records the light of an edit in place.
RetryApplied(t) ==
  LET p == PlayerOf(t) m == tasks[t].old IN
    /\ tasks[t].at = "retrying" /\ m \in DOMAIN chat /\ chat' = [chat EXCEPT ![m] = Looks(t)]
    /\ roles' = [roles EXCEPT ![p] = IF @ = NoAnchor THEN @ ELSE [@ EXCEPT !.text = tasks[t].text, !.light = tasks[t].text]]
    /\ unshown' = unshown \ {m} /\ NextPlayer(t)
    /\ UNCHANGED <<round, lastStage, sent, deletedMarks, deletions, doomed, strays, anchors, parted, throttle, line, gameMoves, callsBegun, misses>>

\* The player keeps pointing to the old message, its record to the new one.
RetryResent(t) ==
  LET p == PlayerOf(t) IN
    /\ tasks[t].at = "retryResending" /\ Fits /\ Deliver(t) /\ Recover(t, sent + 1)
    /\ doomed' = [doomed EXCEPT ![tasks[t].old] = "waiting"]
    /\ strays' = strays \cup Unrecorded(t)
    /\ parted' = IF roles[p] = NoAnchor THEN parted ELSE parted \cup {p}
    /\ unshown' = unshown \cup {sent + 1}
    /\ throttle' = [throttle EXCEPT ![tasks[t].old] = NoButton, ![sent + 1] = Token(t)]
    /\ UNCHANGED <<round, lastStage, deletedMarks, deletions, anchors, line, gameMoves, callsBegun, misses>>

RetryRefused(t) ==
  /\ tasks[t].at \in {"retrying", "retryResending"} /\ Misses /\ Unanswered(t, {})
  /\ Recover(t, tasks[t].old) /\ unshown' = unshown \cup {tasks[t].old}
  /\ throttle' \in {throttle, [throttle EXCEPT ![tasks[t].old] = NoButton]}
  /\ UNCHANGED <<round, lastStage, deletedMarks, deletions, doomed, anchors, parted, line, gameMoves, callsBegun>>

RetryRaises(t) ==
  /\ tasks[t].at \in {"retrying", "retryResending"} /\ Misses /\ NoAnswer(t) /\ NextPlayer(t)
  /\ UNCHANGED <<round, lastStage, deletedMarks, deletions, doomed, roles, anchors, parted, throttle, line, gameMoves, callsBegun>>

(* Deleting messages.                                                        *)

RolesOf(m) == {p \in Players : roles[p] # NoAnchor /\ roles[p].msg = m}
Protected(m) == RolesOf(m) # {} /\ (lastStage > 0 \/ round.street > 0)

\* delete_message in Telegram's hands: done, refused or without an answer.
DeleteCall(m, recorded) ==
  /\ MessageFree(m) /\ throttle' = [throttle EXCEPT ![m] = NoButton]
  /\ \/ /\ m \in DOMAIN chat /\ Vanish(m) /\ deletedMarks' = deletedMarks \cup {m}
        /\ deletions' = (IF recorded THEN deletions \cup {m} ELSE deletions) /\ UNCHANGED misses
     \/ m \notin DOMAIN chat /\ UNCHANGED <<chat, deletedMarks, deletions, misses>>
     \/ m \in DOMAIN chat /\ Misses /\ (Vanish(m) \/ UNCHANGED chat) /\ UNCHANGED <<deletedMarks, deletions>>
  /\ UNCHANGED sent

\* The task of a replaced message looks for its record and the stage, then deletes.
DecideDelete(m) ==
  /\ doomed[m] = "waiting"
  /\ doomed' = [doomed EXCEPT ![m] = IF Protected(m) THEN "no" ELSE IF RolesOf(m) # {} THEN "recorded" ELSE "alone"]
  /\ UNCHANGED <<round, lastStage, chat, sent, deletedMarks, deletions, strays, recordVars, throttle, line, tasks, gameMoves, callsBegun, misses>>

DeleteReplaced(m) ==
  /\ doomed[m] \in {"recorded", "alone"} /\ DeleteCall(m, doomed[m] = "recorded")
  /\ doomed' = [doomed EXCEPT ![m] = "no"] /\ strays' = strays \cup {m}
  /\ UNCHANGED <<round, lastStage, recordVars, line, tasks, gameMoves, callsBegun>>

\* clear_all_player_anchors: the anchors of who has left, one after the other.
PopRecord(p) == roles' = [roles EXCEPT ![p] = NoAnchor] /\ parted' = parted \ {p}

ClearBlocked(t) ==
  LET p == PlayerOf(t) IN
    /\ tasks[t].at = "clearing" /\ tasks[t].todo # {} /\ (roles[p] = NoAnchor \/ round.street > 0)
    /\ strays' = strays \cup (IF roles[p] = NoAnchor THEN {} ELSE {roles[p].msg})
    /\ PopRecord(p) /\ tasks' = [tasks EXCEPT ![t].todo = @ \ {p}]
    /\ UNCHANGED <<round, lastStage, chat, sent, deletedMarks, deletions, doomed, anchors, unshown, throttle, line, gameMoves, callsBegun, misses>>

StartClear(t) ==
  LET p == PlayerOf(t) IN
    /\ tasks[t].at = "clearing" /\ tasks[t].todo # {} /\ roles[p] # NoAnchor /\ round.street = 0
    /\ tasks' = [tasks EXCEPT ![t].at = "leaving", ![t].old = roles[p].msg]
    /\ UNCHANGED <<round, lastStage, messageVars, recordVars, throttle, line, gameMoves, callsBegun, misses>>

\* The record is dropped whatever it is of by now.
Cleared(t) ==
  LET p == PlayerOf(t) IN
    /\ tasks[t].at = "leaving" /\ DeleteCall(tasks[t].old, TRUE)
    /\ strays' = strays \cup {tasks[t].old} \cup (IF roles[p] = NoAnchor THEN {} ELSE {roles[p].msg})
    /\ PopRecord(p) /\ tasks' = [tasks EXCEPT ![t].at = "clearing", ![t].todo = @ \ {p}]
    /\ UNCHANGED <<round, lastStage, doomed, anchors, unshown, line, gameMoves, callsBegun>>

\* The anchors of those who stay are valid and their lights out; then an update.
EndClear(t) ==
  /\ tasks[t].at = "clearing" /\ tasks[t].todo = {}
  /\ deletedMarks' = deletedMarks \ {anchors[p] : p \in round.seated}
  /\ roles' = [p \in Players |-> IF p \in round.seated /\ anchors[p] # 0 /\ roles[p] # NoAnchor
                                     THEN [roles[p] EXCEPT !.light = "plain"] ELSE roles[p]]
  /\ IF round.seated = {} THEN tasks' = [tasks EXCEPT ![t] = NoCall] /\ UNCHANGED <<line, lastStage>>
     ELSE LookThenWait(t, "working", "update", Players, tasks[t].press) /\ line' = Append(line, t)
  /\ UNCHANGED <<round, chat, sent, deletions, doomed, strays, anchors, unshown, parted, throttle, gameMoves, callsBegun, misses>>

PainterStep(t) ==
  \/ BeginSend(t) \/ (\E press \in AnchorPresses \cup {NoButton} : BeginUpdate(t, press) \/ BeginClear(t, press)) \/ EndCall(t)
  \/ Reuse(t) \/ StartSend(t) \/ AnchorSent(t) \/ SendFails(t) \/ SendCancelled(t)
  \/ SkipAnchor(t) \/ StartUpdate(t) \/ UpdateLeavesAlone(t) \/ Edit(t) \/ EditAgain(t)
  \/ AnchorEdited(t) \/ UpdateRefused(t) \/ Resent(t) \/ UpdateRaises(t)
  \/ RetryLeavesAlone(t) \/ RetryApplied(t) \/ RetryResent(t) \/ RetryRefused(t) \/ RetryRaises(t)
  \/ ClearBlocked(t) \/ StartClear(t) \/ Cleared(t) \/ EndClear(t)

AnchorsNext ==
  \/ GameMoves
  \/ \E t \in Painters : PainterStep(t)
  \/ \E m \in 1..sent : DecideDelete(m) \/ DeleteReplaced(m)

AnchorsSpec == (\E seats \in SUBSET Players : AnchorsInit(seats)) /\ [][AnchorsNext]_anchorVars

(* Properties.                                                               *)

OutsideLock == {"idle", "clearing", "leaving"}

\* Types, and who is in the lock's line: the calls between their look and their end,
\* only the first of which has begun to work on a player (_get_anchor_lock, async with).
AnchorsTypeOK ==
  /\ round.active \subseteq round.seated /\ round.street \in 0..2 /\ lastStage \in 0..2
  /\ DOMAIN chat \subseteq 1..sent /\ sent <= MaxSent
  /\ \A p \in Players : anchors[p] \in 0..sent /\ (roles[p] = NoAnchor \/ (roles[p] \in Anchor /\ roles[p].msg \in 1..sent))
  /\ deletedMarks \cup deletions \cup unshown \cup strays \subseteq 1..sent
  /\ \A t \in Painters : Len(SelectSeq(line, LAMBDA x : x = t)) = (IF tasks[t].at \in OutsideLock THEN 0 ELSE 1)
  /\ \A t \in Painters : tasks[t].at \in OutsideLock \cup {"working"} \/ HasLock(t)

\* One anchor per player stays in the chat: a message that is no record's is about to be
\* deleted by its task. Exactly these are left over: a send or resend without an answer, a
\* deletion refused, guarded or without an answer, a record dropped or moved back while
\* its new message was under way (_update_message, clear_all_player_anchors).
NoStrayAnchor ==
  \A m \in DOMAIN chat : RolesOf(m) # {} \/ doomed[m] # "no" \/ m \in strays

\* What a record says of cards and text is on the chat, unless the message was taken to
\* show it without an edit that succeeded: reused, left alone, refused, or edited by a
\* second attempt, whose cards are not recorded (update_role after _update_message).
ShownAsRecorded ==
  \A p \in Players : (roles[p] # NoAnchor /\ roles[p].msg \in DOMAIN chat \ unshown) =>
      chat[roles[p].msg] = [cards |-> roles[p].cards, text |-> roles[p].text]

\* player.anchor_message and the registry name one message, except after a second
\* attempt that sent a new one (_should_create_anchor_fallback records it alone).
AnchorMatchesRecord ==
  \A p \in round.seated : (roles[p] # NoAnchor /\ anchors[p] # 0) =>
      (anchors[p] = roles[p].msg \/ p \in parted)

\* Updates, replacements, button presses and clean-ups of the role anchors leave one
\* message per player, which shows what is recorded of it.
AnchorsInv ==
  /\ NoStrayAnchor
  /\ ShownAsRecorded
  /\ AnchorMatchesRecord

=============================================================================
