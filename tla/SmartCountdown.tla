--------------------------- MODULE SmartCountdown ---------------------------
(***************************************************************************)
(* The waiting countdown of one chat: SmartCountdownManager, the ready     *)
(* list that starts and cancels it (PokerBotModel.join_game, start,        *)
(* _prune_ready_seats) and what GameEngine does when it completes.         *)
(*                                                                         *)
(* The manager keeps dictionaries by chat: the task, the state shown, the  *)
(* queued updates.  A coroutine that starts or cancels a countdown awaits  *)
(* between reading and writing them; the countdown's task and the batch    *)
(* worker await while they edit the message.                               *)
(*                                                                         *)
(* overlap, revoked and late remember what has happened; no action's guard *)
(* reads them.                                                             *)
(***************************************************************************)
EXTENDS Integers, FiniteSets, FiniteSetsExt

CONSTANTS MaxCalls,   \* bound: updates that join or start, in a behaviour
          Guests,     \* users who may sit down
          MinPlayers, \* _min_players
          Laps,       \* milestones before 0
          MaxTasks,   \* bound: countdown tasks in a behaviour
          MaxShown,   \* bound: player count shown
          NoTimer, NoCount

ASSUME CountdownAssumption ==
  /\ IsFiniteSet(Guests) /\ MaxTasks \in Nat /\ MaxCalls \in Nat /\ Laps \in Nat
  /\ NoTimer \notin Nat /\ NoCount \notin Nat

TaskIds == 1..MaxTasks
Coros == 1..MaxCalls  \* the coroutines that serve them

VARIABLES seated, ready,  \* game.players, game.ready_users
          hand,           \* game.state: INITIAL or a round
          prompt,         \* ready_message_game_id names the current game
          active,         \* _active_countdowns[chat]
          shown,          \* _countdown_states[chat]: its player count
          pending,        \* last entry of _pending_updates[chat]; 0: empty
          task,           \* countdown tasks
          co,             \* coroutines
          worker,         \* state _batch_worker is sending, or NoCount
          overlap,        \* two calls cancelled or started at once
          revoked,        \* tasks alive when a cancellation returned
          late            \* the worker wrote a state after a cancellation

cdVars == <<seated, ready, hand, prompt, active, shown, pending, task, co, worker,
            overlap, revoked, late>>
tableVars == <<seated, ready, hand, prompt>>
tracks == <<overlap, revoked, late>>

CdInit ==
  /\ seated = {} /\ ready = {} /\ hand = "initial" /\ prompt = FALSE
  /\ active = NoTimer /\ shown = NoCount /\ pending = NoCount
  /\ task = [t \in TaskIds |-> [at |-> "none"]]
  /\ co = [c \in Coros |-> [at |-> "idle"]]
  /\ worker = NoCount
  /\ overlap = FALSE /\ revoked = {} /\ late = FALSE

Undone == {t \in TaskIds : task[t].at \notin {"none", "done"}}
Alive == {t \in Undone : ~task[t].cancel}

\* Calls that are cancelling or starting a countdown.
Busy == {c \in Coros : co[c].at \in {"awaiting", "sending"}}

\* is_countdown_active
IsActive == active # NoTimer /\ active \in Undone

\* Mutant of ReadyCount: who is ready and seated counts twice.
CountedTwice == Cardinality(ready) + Cardinality(seated)

\* _build_ready_player_roster: without ready users, everybody seated.
ReadyCount == Cardinality(IF ready = {} THEN seated ELSE ready \cap seated)

GoTo(c, place) == co' = [co EXCEPT ![c] = place]
Return(c) == GoTo(c, [at |-> "done"])
ScheduleAutoStart(c) == GoTo(c, [at |-> "schedule"])
CancelAutoStart(c, next) == GoTo(c, [at |-> "cancel", then |-> next, n |-> 0])
Arrives(c) == co[c].at = "idle" /\ \A d \in 1..(c-1) : co[d].at # "idle"

-----------------------------------------------------------------------------
(* The ready list *)

\* join_game: the prompt is shown, the user is ready and seated, stale marks go,
\* and the countdown is started or cancelled.
Join(c, u) ==
  /\ Arrives(c) /\ hand = "initial"
  /\ prompt' = TRUE
  /\ ready' = (ready \cup {u}) \cap (seated \cup {u})
  /\ seated' = seated \cup {u}
  /\ IF Cardinality(ready') >= MinPlayers THEN ScheduleAutoStart(c)
     ELSE CancelAutoStart(c, "return")
  /\ UNCHANGED <<hand, active, shown, pending, task, worker, tracks>>

\* ready, with a prompt of another game or none: every seat is emptied, whatever
\* the state of the game.  With the current prompt it is a join.
EmptyTable(c) ==
  /\ Arrives(c) /\ ~prompt
  /\ seated' = {} /\ ready' = {}
  /\ prompt' = (hand = "initial")
  /\ Return(c)
  /\ UNCHANGED <<hand, active, shown, pending, task, worker, tracks>>

\* leave_game: seat and mark go, the countdown goes on,
LeaveGame(c, u) ==
  /\ Arrives(c) /\ hand = "initial" /\ u \in seated
  /\ seated' = seated \ {u} /\ ready' = ready \ {u}
  /\ GoTo(c, [at |-> "refresh"])
  /\ UNCHANGED <<hand, prompt, active, shown, pending, task, worker, tracks>>

\* and shows, after the save, who is left.
RefreshDisplay == IsActive /\ shown # NoCount /\ shown' = ReadyCount

RefreshAfterLeave(c) ==
  /\ co[c].at = "refresh"
  /\ RefreshDisplay \/ (~(IsActive /\ shown # NoCount) /\ UNCHANGED shown)
  /\ Return(c)
  /\ UNCHANGED <<tableVars, active, pending, task, worker, tracks>>

\* start: it cancels the countdown, checks the ready list, and _start_game
\* cancels once more.
ManualStart(c) ==
  /\ Arrives(c)
  /\ CancelAutoStart(c, "check")
  /\ UNCHANGED <<tableVars, active, shown, pending, task, worker, tracks>>

CheckReady(c) ==
  /\ co[c].at = "check"
  /\ IF hand = "initial"
     THEN /\ ready' = ready \cap seated
          /\ IF Cardinality(ready') >= MinPlayers
             THEN CancelAutoStart(c, "begin") ELSE Return(c)
     ELSE UNCHANGED ready /\ Return(c)
  /\ UNCHANGED <<seated, hand, prompt, active, shown, pending, task, worker, tracks>>

\* _start_game: the prompt is taken down, the marks stay.
BeginHand(c) ==
  /\ co[c].at = "begin"
  /\ hand' = "playing" /\ prompt' = FALSE
  /\ Return(c)
  /\ UNCHANGED <<seated, ready, active, shown, pending, task, worker, tracks>>

\* The hand ends: reset empties the table.
EndHand ==
  /\ hand = "playing"
  /\ hand' = "initial" /\ seated' = {} /\ ready' = {} /\ prompt' = FALSE
  /\ UNCHANGED <<active, shown, pending, task, co, worker, tracks>>

-----------------------------------------------------------------------------
(* start_waiting_countdown, start_countdown, cancel_countdown *)

\* Too few players for a new countdown, or the display of the running one is
\* refreshed, or a new one is started.
Schedule(c) ==
  /\ co[c].at = "schedule"
  /\ \/ ReadyCount < 2 /\ ~IsActive /\ Return(c) /\ UNCHANGED shown
     \/ RefreshDisplay /\ Return(c)
     \/ /\ ReadyCount >= 2 \/ IsActive
        /\ ~(IsActive /\ shown # NoCount)
        /\ GoTo(c, [at |-> "cancel", then |-> "start", n |-> ReadyCount])
        /\ UNCHANGED shown
  /\ UNCHANGED <<tableVars, active, pending, task, worker, tracks>>

\* Mutant of Clear: a start sets the state up and forgets the queue.
ClearWithoutQueue(c) ==
  /\ shown' = IF co[c].then = "start" THEN co[c].n ELSE NoCount
  /\ pending' = NoCount
  /\ revoked' = revoked \cup Undone
  /\ GoTo(c, [at |-> CASE co[c].then = "start" -> "sending"
                       [] co[c].then = "return" -> "done"
                       [] OTHER -> co[c].then])

\* The dictionaries are cleared; a start fills them again at once.
Clear(c) ==
  LET then == co[c].then
  IN /\ shown' = IF then = "start" THEN co[c].n ELSE NoCount
     /\ pending' = IF then = "start" THEN 0 ELSE NoCount
     /\ revoked' = revoked \cup Undone
     /\ GoTo(c, [at |-> CASE then = "start" -> "sending"
                          [] then = "return" -> "done"
                          [] OTHER -> then])

\* Mutant of BeginCancel: the entry goes, the task runs on.
CancelEntry(c) ==
  /\ co[c].at = "cancel"
  /\ active' = NoTimer
  /\ overlap' = (overlap \/ Busy # {})
  /\ Clear(c)
  /\ UNCHANGED <<tableVars, task, worker, late>>

\* cancel_countdown takes the task out and awaits its end; without a task it
\* goes on at once.
BeginCancel(c) ==
  /\ co[c].at = "cancel"
  /\ active' = NoTimer
  /\ overlap' = (overlap \/ Busy # {})
  /\ IF IsActive
     THEN /\ task' = [task EXCEPT ![active].cancel = TRUE]
          /\ GoTo(c, [at |-> "awaiting", then |-> co[c].then, n |-> co[c].n, on |-> active])
          /\ UNCHANGED <<shown, pending, revoked>>
     ELSE Clear(c) /\ UNCHANGED task
  /\ UNCHANGED <<tableVars, worker, late>>

\* Mutant of EndCancel: the task's end is not awaited.
CancelUnawaited(c) ==
  /\ co[c].at = "awaiting"
  /\ Clear(c)
  /\ UNCHANGED <<tableVars, active, task, worker, overlap, late>>

EndCancel(c) ==
  /\ co[c].at = "awaiting" /\ co[c].on \notin Undone
  /\ Clear(c)
  /\ UNCHANGED <<tableVars, active, task, worker, overlap, late>>

\* Mutant of SpawnCountdown: the manager does not note the task.
SpawnUnknown(c, t) ==
  /\ co[c].at = "sending" /\ task[t].at = "none" /\ \A s \in 1..(t-1) : task[s].at # "none"
  /\ task' = [task EXCEPT ![t] = [at |-> "new", left |-> Laps, cancel |-> FALSE]]
  /\ Return(c)
  /\ UNCHANGED <<tableVars, active, shown, pending, worker, tracks>>

\* The first message is out: the task is created.
SpawnCountdown(c, t) ==
  /\ co[c].at = "sending" /\ task[t].at = "none" /\ \A s \in 1..(t-1) : task[s].at # "none"
  /\ task' = [task EXCEPT ![t] = [at |-> "new", left |-> Laps, cancel |-> FALSE]]
  /\ active' = t
  /\ Return(c)
  /\ UNCHANGED <<tableVars, shown, pending, worker, tracks>>

\* Telegram refuses it: the state stays behind.
SendFails(c) ==
  /\ co[c].at = "sending"
  /\ Return(c)
  /\ UNCHANGED <<tableVars, active, shown, pending, task, worker, tracks>>

-----------------------------------------------------------------------------
(* The countdown's task *)

\* _run_countdown: finally
Finish(t, how) ==
  /\ task' = [task EXCEPT ![t] = [at |-> "done", how |-> how]]
  /\ active' = IF active = t THEN NoTimer ELSE active
  /\ shown' = NoCount /\ pending' = NoCount

\* _merge_pending_state: the last update queued, or the state as it is.
Merged == IF pending \in {0, NoCount} THEN shown ELSE pending

\* A milestone: what was queued is merged into the state and shown.
Milestone(t) ==
  /\ t \in Alive /\ task[t].at \in {"new", "asleep"}
  /\ IF shown = NoCount THEN Finish(t, "vanished")
     ELSE /\ shown' = Merged
          /\ pending' = IF pending = NoCount THEN NoCount ELSE 0
          /\ task' = [task EXCEPT ![t].at = "editing"]
          /\ UNCHANGED active
  /\ UNCHANGED <<tableVars, co, worker, tracks>>

\* Mutant of Edited: the milestones are not used up.
EditedAgain(t) ==
  /\ t \in Alive /\ task[t].at = "editing"
  /\ task' = [task EXCEPT ![t].at = IF task[t].left = 0 THEN "completing" ELSE "asleep"]
  /\ UNCHANGED <<tableVars, active, shown, pending, co, worker, tracks>>

Edited(t) ==
  /\ t \in Alive /\ task[t].at = "editing"
  /\ task' = [task EXCEPT ![t] = IF @.left = 0 THEN [@ EXCEPT !.at = "completing"]
                                 ELSE [@ EXCEPT !.at = "asleep", !.left = task[t].left - 1]]
  /\ UNCHANGED <<tableVars, active, shown, pending, co, worker, tracks>>

\* _handle_countdown_completion asks for GameState.WAITING, which the enum does
\* not have: the error is logged and nothing is started.
Complete(t) ==
  /\ t \in Alive /\ task[t].at = "completing"
  /\ Finish(t, "completed")
  /\ UNCHANGED <<tableVars, co, worker, tracks>>

\* The cancellation arrives; a task that had not begun has no finally to run.
Cancelled(t) ==
  /\ t \in Undone \ Alive
  /\ IF task[t].at = "new"
     THEN /\ task' = [task EXCEPT ![t] = [at |-> "done", how |-> "cancelled"]]
          /\ UNCHANGED <<active, shown, pending>>
     ELSE Finish(t, "cancelled")
  /\ UNCHANGED <<tableVars, co, worker, tracks>>

-----------------------------------------------------------------------------
(* Updates in between *)

\* on_player_joined: without a queue it raises, and the caller logs it.
PlayerJoined ==
  /\ shown # NoCount /\ pending # NoCount /\ shown < MaxShown
  /\ shown' = shown + 1 /\ pending' = shown + 1
  /\ UNCHANGED <<tableVars, active, task, co, worker, tracks>>

\* _batch_worker takes the last update, edits the message, and stores it.
WorkerTakes ==
  /\ worker = NoCount /\ pending \notin {NoCount, 0}
  /\ worker' = pending /\ pending' = 0
  /\ UNCHANGED <<tableVars, active, shown, task, co, tracks>>

WorkerStores ==
  /\ worker # NoCount
  /\ shown' = worker /\ worker' = NoCount
  /\ late' = (late \/ shown = NoCount)
  /\ UNCHANGED <<tableVars, active, pending, task, co, overlap, revoked>>

CdNext ==
  \/ \E c \in Coros :
       \/ \E u \in Guests : Join(c, u) \/ LeaveGame(c, u)
       \/ EmptyTable(c) \/ RefreshAfterLeave(c)
       \/ ManualStart(c) \/ CheckReady(c) \/ BeginHand(c) \/ Schedule(c)
       \/ BeginCancel(c) \/ EndCancel(c) \/ SendFails(c)
       \/ \E t \in TaskIds : SpawnCountdown(c, t)
  \/ \E t \in TaskIds : Milestone(t) \/ Edited(t) \/ Complete(t) \/ Cancelled(t)
  \/ EndHand \/ PlayerJoined \/ WorkerTakes \/ WorkerStores

CdSpec == CdInit /\ [][CdNext]_cdVars

-----------------------------------------------------------------------------
(* Properties *)

CdTypeOK ==
  /\ seated \subseteq Guests /\ ready \subseteq Guests /\ hand \in {"initial", "playing"}
  /\ prompt \in BOOLEAN
  /\ active \in TaskIds \cup {NoTimer}
  /\ {shown, pending, worker} \subseteq (0..MaxShown) \cup {NoCount}
  /\ revoked \subseteq TaskIds

\* A running countdown is the one the manager knows, so that it can be
\* cancelled: another runs only after two calls were under way at once.
StrayOnlyByOverlap == \A t \in Alive : active = t \/ overlap

\* A countdown that was there when a cancellation returned does not complete,
\* two calls at once left out.
RevokedDoesNotComplete ==
  \A t \in revoked : task[t].at = "done" /\ task[t].how = "completed" => overlap

\* A countdown ends without completing or being cancelled only if two calls
\* were under way at once: the end of one task, or the return of one
\* cancellation, cleared what another start had set up.
VanishedOnlyBy ==
  \A t \in TaskIds : task[t].at = "done" /\ task[t].how = "vanished" => overlap

\* The state has its queue, or the join hook raises: it has none only when the
\* worker stored a state after the countdown was gone.
StateHasItsQueue == shown # NoCount /\ pending = NoCount => late

\* Once the updates stop, no countdown is running and no cancellation waits.
CountdownsEnd ==
  (Undone # {} \/ \E c \in Coros : co[c].at = "awaiting") ~>
  (Undone = {} /\ \A c \in Coros : co[c].at # "awaiting")

\* A countdown under way can be cancelled, a cancelled one does not complete, and
\* none vanishes: the starts, ticks, cancellations and ends of a chat's tasks lose
\* one only when two calls were under way at once.
CountdownInv ==
  /\ StrayOnlyByOverlap
  /\ RevokedDoesNotComplete
  /\ VanishedOnlyBy
  /\ StateHasItsQueue

\* tests/test_game_engine.py:132: "test_countdown_completion_starts_game"
CompletionStartsHand ==
  [][\A t \in TaskIds : Complete(t) /\ hand = "initial" /\ Cardinality(seated) >= 2
       => hand' = "playing"]_cdVars
=============================================================================
