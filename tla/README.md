# Verification of the Poker Telegram bot

TLA+ models of the parts of this repository that move chips, protect a table
and play a hand; TLC runs on small instances; proofs that TLAPS checks for
every value of the constants.  Paths without a directory are under
`src/pokerapp/`.

Contents: 1 the system, 2 modules and code, 3 runs, 4 bounds and fairness,
5 proofs, 6 where code and documents disagree, 7 what is not modelled,
8 plan.

To repeat a run: `tlc -config Hand_play.cfg MCHand.tla` (section 3 lists the
pairs); to repeat a proof: `tlapm PlayerActions_proofs.tla`.

## 1. The system

One bot process (or several, on one Redis) serves many Telegram groups.  Each
group is a table.  Updates arrive as asyncio tasks; a task runs until its next
`await`, so everything read before an `await` may be old after it.  State that
outlives a process is in Redis: the pickled game and its version counter, the
wallets, betting reservations, locks, queues.

### Components

| Component | State | Operations | Hard behaviour | What makes it correct |
|---|---|---|---|---|
| Wallet reservations (`wallet_service.py`) | Redis hash per reservation, watchdog tasks, wallet balances, dead-letter queue | `reserve_chips`, `commit_reservation`, `rollback_reservation`, `_auto_rollback` | handler races watchdog; a timed-out call may take effect later; crash between debit and record; expiry | a saved bet is paid once; a bet that is not saved is refunded, once |
| Two-phase betting (`betting_handler.py`) | nothing of its own; table lock, versioned game hash | `handle_betting_action`: validate, reserve, lock, load, commit, apply, save | every step can fail after the last one took effect; other writers of the key | bets saved in turn, no chips held for ever |
| Table readers-writer lock (`lock_manager.py`) | per process: reader count, waiting writers, `asyncio.Lock`, event; in Redis: one key per kind | `table_read_lock`, `table_write_lock` | cancellation in every wait, writer priority, TTL of the key | exclusion, no lost wake-up, no starved writer |
| Action lock (`lock_manager.py`) | Redis key with a token per player and button | `acquire_action_lock`, `release_action_lock` | TTL shorter than the holder's work | a second tap stays out |
| Game storage (`table_manager.py`) | snapshot and version in Redis, cached objects in the process | `load_game_with_version`, `save_game_with_version_check`, `get_game`, `save_game`, `delete_game` | two reads that are not one; WATCH/EXEC; a missing counter; shared objects | no update is lost |
| Table updates (`pokerbotmodel.py`, `game_engine.py`) | the locks and the storage | player actions, `process_bet`, join, leave, chip updates | two different locks for one table; endless retries that charge again | isolation of versioned saves, termination |
| A hand (`pokerbotmodel.py`, `matchmaking_service.py`, `game_engine.py`, `entities.py`) | seats, states, bets, pot, turn, street; reservations per game; stop vote | start and blinds, fold, call, raise, all-in, street, settlement, stop vote | all-in below the rate, side pots, odd chips, everyone all-in, leaving turns | chips are conserved, stakes even, pots paid to the right hands, the hand ends |
| Keyed locks (`lock_manager.py`, `utils/locks.py`) | lock object per key, pool, owner, depth, records in each task's context, open circuits | `acquire`, `release`, `guard`, `acquire_batch`, idle cleanup, `emergency_reset` | the fast path runs in another task than its caller, child tasks inherit records, cleanup takes idle-looking locks | a key admits one task, a lock nobody is in is free, batches do not wait in circles |
| Action-state dictionaries (`game_engine.py`) | JSON document with version, one action lock per player and button | `process_action`, `handle_player_action` | four steps under four locks on a copy read at the first | one action per player, chips conserved, a refused action leaves nothing |
| Waiting countdown (`countdown_manager.py`, `pokerbotmodel.py`) | one task per chat, state, batch of updates, ready list, prompt | join, leave, ready, start, `start_countdown`, `cancel_countdown`, tick | end of an old task against the start of a new one | the countdown that runs is the one known; it ends or is cancelled |
| Countdown queue (`services/countdown_*.py`) | bounded queue, tracking by message, worker | enqueue, three cancellations, worker | superseded while it waits, stop with messages left | one live countdown per message |
| Private matches (`private_match_service.py`) | sorted set, state hashes, match records | enqueue, pair, cancel, expire | lost answer of ZPOPMIN, failure between pop and state | nobody is in two matches or forgotten |
| Message edits (`utils/messaging_service.py`) | pending edit and waiters per message, three caches, deletion marks | edit, delete, flush | newer edit while flushing, deletion meanwhile | callers are answered, nothing is edited after deletion |
| Statistics (`stats/`) | batch buffer, flush tasks, history rows and totals, report caches | record a hand, flush, close, read a report | failed and cancelled flush, shutdown, stale report | each hand is counted once, in order |
| Saved table (`table_manager.py`, `state_validator.py`, `recovery_service.py`, cleanup jobs) | snapshot, shared object, reservations | join, start of a hand, save, repair, restart | a save in the middle of a start; repair of what another holds | a repair never takes a running hand |
| Button guards (`aiogram_flow.py`, `pokerbotcontrol.py`, `pokerbotview.py`) | callback marks in the game, button tokens in Redis | `protect_against_races`, token callback | delivered twice, late, beside another | a press counts once and in its stage |
| Role anchors (`pokerbotview.py`) | record per player, `player.anchor_message`, messages, deletion tasks | send, update, replace, clear, delete | edits and deletions of one message under different locks | one anchor per player, showing what is recorded |
| Everything else | — | dispatch, rendering, Telegram and Redis wrappers, SQL, metrics, configuration | little state of its own | — |

### How they interact

- A player's button press goes through the **action lock**, then
  `table_write_lock`, then **storage**: load the game and version, let the
  **hand** change it (taking chips with `wallet.authorize`), save it if the
  version has not moved.
- `process_bet`, `join_game`, `leave_game` and `update_player_chips` do the
  same under `acquire_table_write_lock`.  This is `guard()` on another lock:
  the two groups do not exclude each other, only the version check is between
  them.
- `get_game`/`save_game` callers share the cached object with everybody else
  in the process and do not check the version.
- `BettingHandler` is the two-phase path: reserve outside the lock, commit and
  save inside, roll back on failure; `WalletService` keeps a watchdog task per
  reservation that rolls it back after its TTL.
- Before a hand, joins and readiness start and refresh the **waiting
  countdown**, which edits its message through **message edits**; a private
  match creates its table from the **match queue**.
- Each update of a hand repaints the **role anchors**; a **button** carries the
  stage and version it was drawn for.  A finished hand goes to **statistics**
  and drops cached reports.
- At start-up and from cleanup jobs `load_game` validates the **saved table**
  and may put it back to waiting.
- A stop vote cancels the running hand: it returns what is reserved under the
  hand's game id.

The hazards this produces, each with its line and the properties that cover
it, are in `PROJECT.json`.

## 2. Modules and code

| Module | Models | Rests on |
|---|---|---|
| `WalletService` | `wallet_service.py`, one step per await | — |
| `BettingHandler` | `betting_handler.py` with the table lock and versioned save it uses | extends `WalletService`; implements `ChipLedger` |
| `ChipLedger` | abstract: wallet → held → bet or returned | — |
| `TableRWLock` | `table_read_lock`, `table_write_lock` and their Redis keys | — |
| `TableManager` | `table_manager.py`, one step per Redis call | — |
| `PlayerActions` | the tasks that update a table | extends `TableManager` |
| `Hand` | one hand at one table | — |
| `LockManager` | keyed locks: `acquire`, `guard`, `acquire_batch`, cleanup, circuit | — |
| `ActionLock` | token locks and `acquire_with_smart_retry` keys, Redis or in memory | — |
| `EngineActions` | `GameEngine.process_action` and what it calls | — |
| `SmartCountdown` | `countdown_manager.py` with its callers in `pokerbotmodel.py` | — |
| `CountdownQueue` | `services/countdown_queue.py`, `countdown_worker.py` | — |
| `PrivateMatch` | `private_match_service.py` and its three handlers | — |
| `MessageEdits` | edit and delete of one message in `utils/messaging_service.py` | — |
| `Statistics` | `stats/buffer.py`, recording in `stats/service.py`, report caches | — |
| `SavedTable` | joins, start of a hand, saves, repairs, restarts of one table | — |
| `ButtonPresses` | `protect_against_races`; callback tokens | — |
| `RoleAnchors` | the anchors of `pokerbotview.py` | — |
| `Sums` | the sum of a function over a finite set | used by `Hand` and `EngineActions` |
| `MCBettingFaults`, `MCTables` | two instances of one module in one run | `MCBettingHandler`, `MCPlayerActions` |
| `MCProgress` | five components somebody waits for, one at a time | their modules |
| `MCShared` | eight components with shared state, one at a time | their modules, `MCKeyedLocks` |
| other `MC*` | the values for TLC | the module of that name |
| `SumTheorems` | laws of sums, least elements, remainders | `Sums`, TLAPS |
| `Locks_proofs` | theorems about the three kinds of locks | `TableRWLock`, `ActionLock`, `LockManager`, TLAPS |
| `Requests_proofs` | theorems about requests that read, wait and write | `PrivateMatch`, `ButtonPresses`, `EngineActions`, `SumTheorems` |
| `Countdown_proofs` | theorems about the two countdowns | `SmartCountdown`, `CountdownQueue`, TLAPS |
| `Shared_proofs` | theorems about what several tasks write | `SavedTable`, `MessageEdits`, `Statistics`, `RoleAnchors`, `SumTheorems` |
| other `*_proofs` | theorems | the module of that name and TLAPS |

**WalletService / BettingHandler.**  `at[r]` is the await at which request
`r`'s `handle_betting_action` stands, `call[c][r]` the await inside
`rollback_reservation` of caller `c` (handler or watchdog).  `record` and `age`
are the Redis hash's status and its way through TTL and grace period.
`_with_timeout` cancels a call that may already be on its way: the operation is
then put in `late` and `LateArrival` may execute it at any time.  `debits`,
`credits` and `deadLetters` count what happened to a request's chips.
`OtherWrite` stands for every other writer of the game key.  `Crash` drops all
tasks and keeps Redis and the wallets.  The retry policy of `_commit_with_retry`
(attempts, delays) is a choice to try again or give up.

**TableRWLock.**  A task stands at `pc`; the fields of `_RWLockState` exist per
bot instance (`Home` says where a task runs); `key` holds who set the Redis key
of each kind.  A section under `reader_lock` contains no await, so it is one
step.  Faults: the smart retry gives up, a task is cancelled while waiting or
draining, or inside the retry (before or after the SET took effect), or the order
check raises behind a reader's count (`"hierarchy"`: `_validate_lock_hierarchy`
runs into undefined names, line 4027, when the task has a record of the hierarchy).  A key
expires at any time if its task is gone, and under a live holder when
`SlowHolders`.

**TableManager / PlayerActions.**  A game is the set of tasks whose update is in
it, so losing an update is visible.  Without a game, or with one that cannot be
decoded, `join_game` goes on with a new one; everybody else reads the version,
sets it to 0 if it is missing, and returns.  `cache` names the object in
`TableManager._tables`, `holds` the object a task works on: two tasks that hold
one object see each other's changes, as in Python.  `watching` are the
connections whose WATCH still stands.  `since` is history: what happened to the
key since a task read it.  `Kind` picks the code path, `Lock` the lock it takes.

**Hand.**  `table` is the `Game`; `wallet` and `reserved` are the two Redis
hashes of the wallet (`reserved` under the game's id only); `vote` is the stop
request; `stake` is history.  A player is named by the seat; cards are a rank
per contender, chosen when the pot is settled.  `ProcessPlaying` is the tail of
each action: next turn, next street or settlement.  Each handler is one step,
because it runs under the table's write lock and a version check (`TableRWLock`
and `PlayerActions` are about exactly that).  With `ServiceBound = TRUE` the
missing attribute `game_service` is the service the documents name; with
`FALSE` it is missing, as in the program (section 6).

**LockManager.**  `owner` is `ReentrantAsyncLock._owner`, `rec` and `acq` are
the records in contexts, `stacks` the exit stacks kept by task and key, `step`
the place inside `acquire`.  `wait_for` runs the fast path in a task of its own,
hence an acquisition may belong to a task that is already over.  `Spawn` copies
a context to a child.  `blame` is history: which of the six causes (a failed
rollback, a re-entry, an inherited record, a bypass, a forced release, a
recycled object) a key met.  A level is any number; `MayDescend` names the pairs
of keys the order check lets through downwards.

**ActionLock.**  `req[c]` is the request of client `c`, `store` who set a key,
`spent` the tries whose time to live has run out.  `line` is the list of waiters
of a smart key: the look at its depth (LLEN), joining (LPUSH) and leaving (LREM)
are awaits of their own, and each may fail, which is logged and forgotten.
`stranded` is history: entries whose waiter crashed, was cancelled while it
joined, or did not get its LREM through.  A lost answer is a choice of whether
the command took effect.  The in-memory backend is the same store
without lost answers.

**EngineActions.**  A request validates, applies, collects the pot and saves,
each under another lock, on the copy it read first.

**SmartCountdown / CountdownQueue.**  `task` are the countdown tasks, `co` the
coroutines of joins, leaves and starts at their awaits; a cancelled task ends at
its next await.  `overlap`, `revoked`, `late` are history.  The queue's worker
takes, ticks and completes; each cancellation is one step, as it has no await
between reading and marking.

**PrivateMatch.**  `ask` are requests at their Redis commands, `waiting` and
`old` the sorted set, `status` the state hashes.  `touched` is history: the users
whose key a request changed while another had popped them or had made them a
match, and those with two requests under way.

**MessageEdits.**  One message.  `queued` and `waiters` are the pending edit,
`flush` the flush task; `remembered`, `lastText`, `lastPayload` the three
caches.  The awaits between a cache's answer and the send are steps.  Telegram may
carry out an edit or a deletion whose answer is lost, or whose caller the view's
`wait_for` has cancelled: a deletion is `late` then (`LateDelete`).  `unmarked` is
history: a deletion that failed or was given up took the mark off a message that
is gone, that another deletes, or that its own request may still delete.

**Statistics.**  A flush takes a batch, commits it hand by hand, retries it, or
puts it back.  `memory`, `stored`, `shared` are the report caches, `reader` the
requests that may be carrying an old report while a hand is recorded.

**SavedTable.**  A table is the stage, the number of seats, dealer, deck size
and board, which is what validation looks at, and the chips bet on it.  The
process has one shared object (`chat_data` names the same one, save for a handler
that still holds an older one); a start of a hand changes it over several awaits,
two of them blinds, any of which may raise (`StartFails`), while joins, saves and
repairs go on.  A join checks, seats and saves in three steps.  `EmptyTable` is
the ready prompt that unseats everybody when it is not the current game's.  An
action works on a copy of the stored hand once both blinds are in it: before,
nobody has the turn.  `lateJoin`, `staleWrite`, `halfStart`, `emptied` and
`failed` are history, for the exceptions of `SavedInv`.

**ButtonPresses.**  `table` is the stored game as the guard sees it; a press
reads it, waits for its lock, reads it again and acts.  Tokens are separate.

**RoleAnchors.**  `line` is `role_anchor_lock`, first come first served;
`tasks[t]` the call a painter is in; `doomed[m]` the deletion task of a replaced
message.  A reply of Telegram is success, refusal, a new message, or none.
`_update_message` takes a time-out of the network for a refusal, so the edit, or
the resent message, may be in the chat all the same (`Unanswered`).

**Focus.**  `MCProgress`, `MCShared`, `MCTables` and `MCBettingFaults` check
several instances in one run: the initial state picks one (`focus`), the
others' variables keep their initial values.  The behaviours are those of each
module alone, side by side; nothing of one component can disturb another, and
liveness formulas name their focus where two instances share variables.

## 3. Runs

| Run | Module, configuration | Distinct states | Question |
|---|---|---|---|
| `betting_faults` | `MCBettingFaults`, `Betting_faults.cfg` | 62,517 | Is a saved bet paid exactly once under every fault but a lost save reply, does the protocol implement `ChipLedger`, are bets saved in turn; do failed bets come back and held chips move on when only refunds and the engine fail? |
| `betting_timely` | `MCBettingHandler`, `Betting_timely.cfg` | 449,539 | Are wallets never overdrawn, and is nothing refunded twice when handlers finish before the TTL? |
| `betting_double_refund` | `MCBettingHandler`, `Betting_double_refund.cfg` | violation | Is nothing refunded twice when a handler outlives the TTL? No. |
| `tables` | `MCTables`, `Tables.cfg` | 1,282,489 | Double taps and a seat request end without losing an update of their lock; versioned saves are isolated among retrying bets, legacy saves and a deletion |
| `table_lost_update` | `MCPlayerActions`, `Table_lost_update.cfg` | violation | Do the two locks together lose no update? No. |
| `hand_play` | `MCHand`, `Hand_play.cfg` | 31,373 | Chips, stakes, turn, pots, end of hand |
| `hand_stop` | `MCHand`, `Hand_stop.cfg` | violation | Does a stop vote refund the players? Not the blinds. |
| `hand_unbound` | `MCHand`, `Hand_unbound.cfg` | violation | Does a hand end in the program as it stands? No. |
| `progress` | `MCProgress`, `Progress.cfg` | 109,678 | Do the table lock, the action locks, the two countdown mechanisms and the statistics buffer finish what they begin, safely? |
| `shared` | `MCShared`, `Shared.cfg` | 2,140,317 | Are the promises of the eight components with shared state kept in every interleaving? |
| `countdown_completion` | `SmartCountdown`, `Countdown_completion.cfg` | violation | Does the end of the countdown start a hand? No. |
| `locks_rollback` | `MCKeyedLocks`, `Locks_rollback.cfg` | violation | Is a lock released when validation refuses it after the fast path? No. |

What the properties say:

- `PaidExactlyOnce`: a bet in the saved state was debited once, never credited,
  its reservation not undone.  It takes a watchdog, an expiry or a late script
  between commit and save to break it.
- `RefundedAtMostOnce`, `RefundsArrive` (`FailedBetIsRefunded`): no request gets back more than it
  paid; when all its tasks are over, paid chips are in a bet, in the wallet or in
  the dead-letter queue.
- `SavedInTurn`: turn and version are read two awaits before the save, and still
  a bet only lands on a live state with its player on turn.
- `RefundsMove` (`HeldChipsMove`, liveness): debited chips reach one of those three places.
- `LedgerSpec`: refinement of `ChipLedger`; chips never go back from a bet or
  out of a refund.
- `Exclusion`, `WriterServedLocally` (liveness) and `TableLockInv`: the promises
  of the readers-writer lock.  `TableLockInv` joins `NoPhantomReaderLocally`,
  `NoLostWakeupLocally` (counts are exact and no sleeper is forgotten, in one
  instance without Redis) and `OneWriterByKey` (one writer across instances
  while no holder outlives its TTL).
- `SavesAreIsolated`: no versioned save lands on a save completed since its task
  read the version, unless the counter was restarted (deleted, or found missing
  by another task) in between.
- `NotLostUnderLock`: no versioned save undoes what a task under its lock has
  reported, although tasks under the other lock save in between; until a save
  without a version begins.
- `OneTap`: until its TTL the action lock keeps a second tap out.
- `ChargedTwiceAcrossLocks`: a bet pays a second time only when a task under the
  other lock was active.
- `UpdatesEnd` (`RequestsEnd`, liveness): the unbounded retry loops end.
- `ChipsInPlay`: wallet plus bets is the wallet at the start; the pot is the sum
  of the bets.
- `EvenStakes`: no round closes while somebody who can still bet has put in
  less than another contender.
- `TurnIsPlayable`: the turn is never with an empty, folded or all-in seat.
- `FairPayout`: settled at any moment and with any cards, the pot is paid out
  whole, the best hand gets every chip it matched, and an uncalled bet returns.
- `OnlyBlindsAreLost`: no step changes the sum of wallets and pot, but a stop
  vote, which loses exactly the blinds.
- `HandEnds` (liveness): betting cannot go round for ever.

- `HoldersInv`: a client that believes it holds a token key holds it until its
  time is over (`TokenHeld`, `TokenExclusion`); a smart key, which anybody may
  delete, is shared only after a TTL ran out (`SmartExclusion`); an entry of the
  waiters' list is that of a client that waits for the key, but for the `stranded`
  ones (`LineIsOfWaiters`).  `OrphansAreFreed` (liveness): a key
  without a holder is freed by its TTL.
- `CountdownInv`: a running countdown is the known one, a cancelled one does not
  complete, none vanishes (`StrayOnlyByOverlap`, `RevokedDoesNotComplete`,
  `VanishedOnlyBy`), each unless two calls overlapped; `StateHasItsQueue`.
- `QueueInv`: `OneLivePerMessage`, `QueueMatchesTracking`,
  `CancelledNeverCompletes`.  `CountdownsSettle` (liveness): countdowns and queued
  messages come to an end.
- `HandsAreCounted` (liveness): a finished hand is counted, given up or left in
  the buffer of a service being closed.
- `LossesAreBlamed`: two tasks inside one key, a lock taken by nobody, a stale
  bypass mark, each only after a cause in `blame`.  What is left out by the
  causes is what the code gets wrong or accepts; the invariant says that there
  is nothing else.  `CirclesAreLetIn`: two tasks wait for each other across
  levels only where the order check let both in: one descends by a pair that may
  be taken in either order, the other holds a third key at least as high
  (`_validate_lock_order` compares with the highest level held).
- `DocumentInv`: chips of the document are conserved, one success per player
  whatever buttons race, an acknowledged action stays, a refused one leaves no
  trace, a round that cannot go on was raised in.
- `MatchInv`: one match per user, who waits is queued, who is matched gets a
  game, pairs are two, two who wait meet; each with the failures that excuse it,
  or for a user in `touched`: the code reads a state and pops in two commands,
  so a second request of one user can write over what a match has set.
- `EditsInv`: every caller has somebody who will answer, no edit after a
  deletion unless a deletion took its mark off (`unmarked`), one call that
  somebody waits for at Telegram at a time, nothing new is skipped as known,
  deleters are woken.
- `StatsInv`: a record is in exactly one place or written; totals count a hand
  once, as the rows do; hands are counted in order (streaks depend on it).
- `SavedInv`: at rest the snapshot passes validation and the wallets hold what
  it says, but for five named events: a late join, a stale write, a start that
  failed (for the snapshot: once it had set the stage; for the wallets: once it
  had asked for a blind), a hand whose players a ready prompt unseated, and, for
  the wallets, a crash between the first blind and the save.  The code has all
  five, and the property does not catch them: it says that there is no sixth.
- `PressInv`: a callback acts once per hand within the history's length, only in
  its stage and version; a token plays once, unless two presses read it first.
- `AnchorsInv`: no anchor is left over but for the listed losses; what is
  recorded is shown; player and registry name the same message.

An invariant that ends in `Inv` is a conjunction of named parts, each with its
own comment in the module.

Every property is also shown to be breakable: `PROJECT.json` lists for each a
mutated definition (a dropped guard, a missing reset, a swapped order), for a
conjunction usually one per part, with which TLC finds it violated; the mutated forms stand before the originals in
the modules.

## 4. Bounds and fairness

**Bounds.**  Betting: two requests (`betting_faults`: one
paid, one free, because free actions skip the wallet and only compete for the
table; `betting_timely`: two paid ones of one player), versions of other writers
up to `MaxVersion` = 2, one record per request.  A race here needs one request,
its watchdog and one other writer, all present.  `MaxVersion` bounds
`OtherWrite` only; saves by requests always go through.

Readers-writer lock: three tasks, so that a reader, a writer and a waiting third
meet; one instance, and two instances split 1 and 2 (task `t4` takes part in the first only).  `MaxReaders` = 3 bounds
the count that uncounted-off readers would push up; reads that would pass it do
not start.

Table: two groups of tasks, one instance each, each task with one update; a lost
update needs two, a conflict with restart of the counter three.  Versions are
unbounded but each task saves once per attempt.  The first has two taps of one
button and a seat request; the second two bets, a legacy save and a deletion.

Hand: three seats with two or three of them taken, blinds 1 and 2, one raise
button of 1, wallets 2, 4 and 5 in every order, two card ranks, one hand.
Different wallets give short all-ins, two side pots, refused calls and odd
chips; two ranks give wins, ties and split side pots.  `MaxHands` = 1: a hand
starts from an empty table with any of the wallets, so a second hand would start
from a state like the first, with other wallets and the next dealer.  Seats are
filled from the lowest, as joining does.  After a player leaves there can be a
gap, and then `_find_next_active_player_index` counts list positions where the
turn check reads seats: `TurnIsPlayable` fails for such seatings, in the model
as in the code.  Players can pay the big blind, as the join check demands, so
`Blind`'s all-in branch is not reached.

Keyed locks: two tasks, three keys on two levels, three acquisitions in all
(`MaxOps`; four in the second instance, where only asking and waiting matter,
because a circle needs two each), one retry, circuit threshold 1.  Action lock:
two clients, one token and one smart key, two tries; three tries in all; a line of one
is deeper than `QueueThreshold` = 0 and within `WaitDepth` = 1, so all three answers of the look
at the line occur.  Engine actions: two
requests, two seats, all five actions.  Waiting countdown: two guests, two
tasks, one lap.  Countdown queue: three messages in two chats with capacity 2, so
that the queue is full once.  Private matches: three users and three requests,
two at once, with one failure or one expiry: the third user is the one who could
be taken twice.
Message edits: two edits of three contents, two deletions, one fault.
Statistics: two hands, batches of two, two mishaps, a timer and the shutdown.
Saved table: two joiners, a job, a save, three bets, one crash, three of failed
starts, saves, jobs, crashes and joins under way together; after a late join or a
stale write nothing is promised and the behaviour ends there, after a hand lost
its players only a start goes on.  Button presses:
three presses, two
at once, with a history of two, so that a mark is pushed out; two taps of a
token.  Role anchors: three messages; either two painters on one player or one at
a time on two, four game moves and failures together (`MaxGameMoves`, minus one
with two players).

**Deadlock.**  Requests, hands, countdowns and calls come to an end, hence
`CHECK_DEADLOCK FALSE`; that nothing stops half-way is what the liveness
properties (`RefundsMove`, `UpdatesEnd`, `HandEnds`, those of `progress`) and
parts like `CallersAreAnswered` and `DeletersAreTold` check.

**Fairness.**  `BettingHandler`: weak fairness per request for the handler, the
watchdog and time; the event loop resumes every task whose await is over,
timers go off, Redis expires keys.  No fairness for late effects (they may never
arrive), for other writers or for crashes.  `TableRWLock`: weak fairness for a
task's steps once it has begun, and strong fairness for taking the writer lock,
because `asyncio.Lock` wakes its waiters in order of arrival; none for readers
or writers to begin.  `PlayerActions`: weak fairness per task.
`ActionLock`: weak fairness for the expiry of keys and for the steps of a client
inside a request.  `SmartCountdown`: for the steps of a countdown task and the
return of a cancellation; none for players.  `CountdownQueue`: for the worker
while it runs.  `Statistics`: for the steps of flushes, the timer's included.
The modules of `shared` state no fairness and no liveness.  `Hand`: the
player on turn eventually presses a button.  This is an assumption about the
players: no code acts for a player who does not.

## 5. Proofs

All theorems have the form `Spec => []Inv`, `Spec => [][A]_vars` or
`Spec => AbstractSpec` and hold for every value of the constants the `ASSUME`s
allow.  Each rests on an inductive invariant, which TLC checked on small
instances before it was proved.  Where a theorem has a hypothesis about a
constant, the statement is false without it, and sections 4 and 6 say what
happens then; a theorem without one holds for every fault the module has.

**Betting** (`BettingHandler_proofs`: any requests, players, amounts).

- `TypeCorrect`.  Naturality of balances is the point: `Debit` is guarded at the
  debit, not at the earlier balance check.
- `PaidOnce`: `PaidExactlyOnce` if `"save" \notin Faults`.
  `PaidExactlyOnce` is not inductive: it says nothing of requests on their way.
  `StageInv` says for each place of the handler what the reservation can look
  like there: before the commit only the watchdog touches it, and a refund makes
  it `rolled_back` first, which the commit refuses; from the commit on no
  watchdog and no harmful late call is left.  The proof shows that steps of other
  requests leave all variables of `r` alone (`StepFrame`) and goes through the
  steps of `r` itself.
- `SavedWithinTurn`: `SavedInTurn`, with every fault.  `ReadInv`: versions only
  grow, so a handler whose version still stands finds the state it checked.
- `KeepsLedger`: the protocol implements `ChipLedger` if `"save" \notin Faults`.
  `OnceInv` (a request is debited once at most, and a late debit is its only one)
  and `PaidInv` make each step move the chips of one request along the ledger or
  not at all (`OneMoveAtATime`).
- `RefundedOnceAtMost`: `RefundedAtMostOnce` for quick handlers, all faults at
  once.  Three callers and their late calls can refund.  `RefundInv` shows for
  each how the record and the two calls stand when it still may (`MayRefund`),
  and that two never may; `FreeInv` is the case of a request that costs nothing.
- `RefundsAreMade`: `FailedBetIsRefunded`, with handlers of any speed, where only
  refunds and the engine fail.  `OwedInv`: what is debited and not in a bet is
  answered for by the handler's place, the watchdog, or a pending record.

**Table lock** (`Locks_proofs`: any finite set of tasks, any instances).

- `TypeCorrect` and `ExclusionHolds`: `LockInv` joins three
  facts: the writer lock is held exactly by the task in `w_drain` or `writing`;
  who writes sees count 0; every reader inside is counted (the count may be too
  high, after a cancellation, but never too low).  Exclusion does not depend on
  Redis, cancellation or expiry.
- `ReadersCounted`: `NoPhantomReader`, if no reader is cancelled inside the retry,
  the retry does not give up and the order check refuses no reader: only between
  the count and the body's `try` is a counted reader lost.
- `WakeupsKept`: `NoLostWakeup`, with every fault.  `WakeupInv` adds where the
  holder of the writer lock lives and that an active writer writes.
- `OneWriterHolds`: `OneWriter` with Redis and without slow holders.  `KeyInv`:
  from `w_queue` to its release, the key of a writer is its own.

**Table updates** (`PlayerActions_proofs`: any tasks, kinds and locks).

- `TypeCorrect`, `TapsAreExclusive` (`OneTap`, inductive
  with type correctness), `CounterLeads` and `SavesIsolated`: `IsolationInv`
  says that from its read to its save a task finds the counter where it read it
  or higher, strictly higher if a save was completed since, and that a WATCH
  that stands means the counter has not moved.  Then an EXEC that succeeds
  cannot follow an unseen save.  The argument does not use the locks, which is
  why it covers the two that exclude nobody of the other group.
- `ChargedOnceUnderOneLock`: `ChargedTwiceAcrossLocks`, if the requests that try
  again (`process_bet` and joining) share a lock, as they
  do for one table.  `LockedInv` keeps whoever is inside in possession of the
  lock, `CounterInv` fixes the counter from a read to the save while no task of
  another lock is between its lock and its end, and then (`ChargeInv`) the first
  attempt is the last.
- `AcknowledgedIsKept`: `NotLostUnderLock`, with at most two locks (the code has
  two) and without the fault `corrupt`.  `KeptInv`: an update in the snapshot is
  in every copy read under its own lock, and one that is lost is in no copy
  under the other, so that it cannot come back behind a task that has read the
  game without it (`CopiesFollow`, `SaveKeeps`).  Each condition is needed: with
  a third lock, with a save of the shared object, or with a corrupt snapshot that
  is thrown away while the other lock's task still holds a good copy, TLC finds a
  lost update with four tasks, one more than the run has.

**The hand** (`Hand_proofs`: any number of seats, wallets, raises and cards).
Each button is first shown to move the game as `Moved` says; then the tail of the
handler (`TurnPasses`, `StreetDealt`, `HandSettled`, `NotServed`) is treated once
for all buttons.

- `PlayKeepsTypes`: `TypeOK`; a wallet, bet or pot is never negative, including
  the remainders of side pots.
- `StakesStayEven`: `EvenStakes`.  `RoundInv` says what a betting round has put
  in, and that it is the pot.
- `TurnStaysPlayable`: `TurnIsPlayable` where the lowest seats are taken
  (`NoGaps`, section 4).  `TurnInv`: some contender can act, and the turn is there.
- `ChipsStayInPlay`: `ChipsInPlay` where the service is bound (`Accounts`: wallet
  and bet together are the stake).
- `ChipsAreKept`: `OnlyBlindsAreLost`, under both hypotheses.  The settlement
  pays out the pot whole: the layers of all-in bets add up to the bets, the shares
  of a layer with its odd chips to the layer.
- `PayoutIsFair`: `FairPayout`, where the lowest seats are taken.

The settlement is a fold over finite sets.  The library's induction theorems take an
operator and cannot be used; `LeastSet` and `LeastNat` (from `WFMin`) replace
them: the set of exceptions, if not empty, has a least element, and removing
one element from it gives a contradiction.  The laws of sums (empty set, one more
element, split, order) follow from these two.  They are in `SumTheorems`, cited
by `Hand_proofs` and `Requests_proofs`.

**Keyed locks** (`Locks_proofs`: any tasks, keys, objects, levels and nesting).

- `LocksLostOnlyByBlame`: `LossesAreBlamed`.  `KeyedInv` has parts that hold
  whatever happened (`LockShape`, `RecordShape`, `RecordsCounted`: the records and
  exit stacks of a context belong together; `PoolApart`: an object in the pool is
  no key's; `SlowIsAdmitted`; `MarkIsIn`) and parts that hold until an object is
  recycled (`AimsRight`: who waits, waits for the object of its key;
  `OwnedByKeys`; `KeySound(k)` for each key without blame: the owner's record and
  nobody else's).  Each operation is one lemma about the key it works on and one
  that the other keys do not notice.
- `CirclesOnlyWhereLetIn`: `CirclesAreLetIn`.  The first form of this invariant
  said that only keys of one level are waited for in a circle.  It held on the
  checked instance and was not inductive: with a third key held, a pair that may
  be taken downwards closes a circle across levels.  The invariant now says what
  the order check gives.

**Engine actions** (`Requests_proofs`: any seats, chips and requests).

- `DocumentStaysWhole` (`DocumentInv`) and `EngineKeepsTypes`.  `EngineIInv`: the
  chips of the document and of every copy add up to what the players brought
  (`Whole`); a copy of the stored version differs from it in its own player
  alone, who has not acted there, and other copies cannot be saved any more
  (`CopyFits`); who has succeeded has acted in the document, and whoever differs
  from the start has a request that succeeded or broke off (`Traced`).

**Private matches** (`Requests_proofs`: any users and requests).

- `MatchesAreSound`: `MatchInv`, with pops repeated after a lost reply, states
  that expire and requests that fail at any command.  `MatchIInv`: a user is in
  the hands of one request (`HandsApart`), in the set, or claimed by one match
  (`Claimed`); the state fits the place (`StatesFit`, `Stands`), who has looked
  for a match found the set as it must be (`WaiterFound`, `Started`, `Crowd`);
  matches are of two, and both see the same one (`PairsAreTwo`, `PairsMatch`).
  The attempt to prove it showed that `touched` missed a key changed after a
  match was made, which takes more requests than the run has.

**The other components** (any number of clients, presses, messages, calls, hands).

- `Locks_proofs!ActionTypeCorrect` and `KeysAreHeld` (`HoldersInv`).
  `KeysInv` adds to the parts of `HoldersInv` that every request
  under way has an id of its own, not above the last one given out, and that the
  holder of a smart key has set it while no time to live ran out on that key.
  The ids make the comparison in the release script safe; without them nothing
  would say that a late release does not meet another's token.  That token and
  smart keys are different keys is an assumption.
- `Countdown_proofs!QueueKeepsOrder` (`QueueInv`) and `CountdownsAreTracked`
  (`CountdownInv`).  `QueueIInv`: the queue is in order of the messages' numbers
  and holds what is tracked as waiting.  `CdIInv`: who waits for a cancelled task
  is still inside its call, and until two calls are under way at once one is busy
  and one task runs.
- `Requests_proofs!PressesCountOnce` (`PressInv`).  `PressIInv` follows a
  callback's mark through the bounded history, and says who may be between
  reading and deleting one token.
- `Shared_proofs!SnapshotAtRest` (`SavedInv`), `EditsAreAnswered` (`EditsInv`),
  `HandsCountOnce` (`StatsInv`).  `SavedIInv`: until a late join, a
  stale write or an emptied table, a table without a hand has no chips on it
  (`Opening`), the object of a start carries what the start has done (`InStart`),
  without one snapshot and shared object are valid unless a start failed
  (`AtRest`), and the wallets follow the snapshot, or the blinds of the start
  (`PaidUp`), until a start breaks off at a blind (`Unpaid`).  `EditsIInv`: what is queued is what the last waiter asked
  for, who is superseded was answered or cut off, the caches hold what was
  shown, and while a deletion is under way or done its mark is there
  unless one took it off (`MarkKept`).  `StatsIInv`: a record is in the buffer or in one batch, and with one
  flush at a time batch and buffer are one line in the order the hands
  finished, so that a batch put back in front keeps it.
- `Shared_proofs!AnchorsStayTrue` (`AnchorsInv`), with clears, deletions and lost
  answers beside the updates.  `AnchorsIInv`: who works on an anchor has the lock
  (`OneWorks`); what two players and their records name are different messages
  (`NamesApart`); the message an update works on is its player's alone, and the
  recorded one unless they have parted (`OldStands`, `RecordStands`); a new
  anchor is sent only over one that has left the chat (`SendStands`,
  `DeletedAreGone`).  The run's `AnchorMatchesRecord` speaks of the seated; the
  induction needs it of every player (`MatchesRecord`).

**Model-checked only**: all liveness and `ENABLED`, which the prover does not
handle; the types of `LockManager` (its contexts are
flattened and filtered sequences, which the provers do not compute with) and of
the anchors (how often a painter stands in the line).  The invariants of the modules `MCProgress`, `MCShared`
and `MCBettingFaults` are conjunctions over the components for runs that check
several at once: `TableLockInv` is `ReadersCounted`, `WakeupsKept` and
`OneWriterHolds` in the instance each needs, `RefundsArrive` is `RefundsAreMade`,
`TypesOK` the types of the components.

## 6. Where code and documents disagree

1. `betting_double_refund`: `_ROLLBACK_RESERVATION_SCRIPT` gives the same answer
   for a record it has just rolled back and for one rolled back earlier, and the
   caller credits on that answer (`wallet_service.py:393`).  A handler that fails
   after the watchdog has acted refunds a second time.
2. `table_lost_update`: `load_game_with_version` reads game and version in two
   calls (`table_manager.py:288`).  A save in between under the other lock is
   seen in the version only, and is overwritten.
3. `hand_stop`: blinds are reserved under the chat's id (`pokerbotmodel.py:2711`),
   a stop vote refunds what is under the game's id: both blinds are lost.
4. `hand_unbound`: `_process_playing` calls `self.game_service`
   (`pokerbotmodel.py:1839`), which no code assigns.  The action that ends a
   round loses its chips and is not saved.

5. `countdown_completion`: `_handle_countdown_completion` compares with
   `GameState.WAITING` (`game_engine.py:3488`), which the enum does not have.
   `tests/test_game_engine.py:132` says a completed countdown starts a game, and
   sets the missing member itself (lines 12-13).
6. `locks_rollback`: when validation refuses a lock taken on the fast path
   (`lock_manager.py:2562`), the release runs in another task than the
   acquisition and raises; `tests/test_lock_manager_fixes.py:108` says the lock
   is released.

Three more limits show when a constant is changed, and no document of the
repository says otherwise clearly enough to call it a disagreement:
`PaidExactlyOnce` needs the save's reply (`"save"` out of `Faults`): a lost
reply makes the handler compensate a bet that stands; `FailedBetIsRefunded`
needs no crash: nothing looks for pending records at start-up; `OneWriter` needs
holders that respect the TTL: the key is deleted whoever set it.

Seen while modelling, and not given a run (the models have the behaviour or
leave the unreachable part out):

- Storage: the object `get_game` returns is shared and changed outside any lock
  (`table_manager.py:84`); cancelling runs under the stage lock, actions under
  the table's (`game_engine.py:5279`); `/ready` in the middle of a hand empties
  the table (`pokerbotmodel.py:1612`); a start that times out after the blinds
  (`matchmaking_service.py:551`) passes the save of `/start`
  (`pokerbotmodel.py:1724`).
- Chips: the chips of an action are gone when `_process_playing` raises
  (`pokerbotmodel.py:2118`); `_load_reservation` answers `None` on any error and
  the rollback then reports success (`wallet_service.py:408`).
- Caches: `utils/cache.py:45` says the message cache holds the payload last sent
  successfully, and `messaging_service.py:1386` stores it whatever the edit
  returned; the report a private chat asked for is cached under that chat's key
  (`utils/cache.py:301`), while a finished hand drops the table's.
- Buttons: `callback_version` restarts with `Game.reset()`; the button carries
  eight characters of the token's nonce (`pokerbotview.py:5098`) and
  `pokerbotcontrol.py:386` compares an action with its label.  Neither guard is
  wired up: nothing is decorated with the first, and the view is built without
  Redis.
- Role anchors: with a message id `_update_message` never answers `None`, so the
  forced refresh and the retry for a rate limit are unreachable and a refused
  edit is recorded as shown; a timeout leaves the press in the throttle, and the
  second attempt is skipped as already done; a second attempt that sends a new
  message updates the registry only, so the next update moves the record back
  and strands the new message; `_send_new_role_anchor` and
  `_refresh_role_anchor_in_place` are unreachable; a deletion decided before a
  record moves back can take a live anchor.
- Locks: `_validate_lock_hierarchy` raises `NameError` for the second lock of the
  hierarchy a task asks for (`lock_manager.py:4027`), in `table_read_lock` behind
  the reader's count; an entry of a waiters' list whose LREM fails stays for up to
  300 seconds (`lock_manager.py:4737`).
- Messages: a deletion cancelled by the view's time limit takes its mark off and
  leaves the queued edits (`messaging_service.py:1712`), whatever Telegram does.
- Countdown: the guards in the view are dead (`_is_countdown_active` answers
  `False`).

## 7. What is not modelled

In the modelled components: the player index in `TableManager`; `finish_rate`
(never called) in `Hand`; the interleaving of a stop vote (under the stage lock)
with an action (under the table's lock); the stage, player and countdown locks,
traces and `detect_deadlock` of `LockManager`; the legacy loop and the traffic
light of the countdown; forced edits, edits of markup alone, sending and
throttling in message edits; SQL, streak arithmetic and report texts in
statistics; private keyboards and the turn message beside the role anchors;
retry arithmetic, which is a choice; logging and metrics everywhere.  What
`wallet.authorize` reserved in finished hands stays in Redis under their ids;
nothing reads it again, and `Hand` forgets it when the id changes.

The forms of `progress_stage` and `finalize_game` that work on a snapshot have no
caller in `src/`.  The other components without a module, with the reason, are
in `PROJECT.json`: dispatch, rendering, Telegram and Redis wrappers, SQL,
identities and configuration have no state worth checking or are a remote
interface whose failures are inputs of the models; hand evaluation is a pure
function of seven cards, covered by `tests/hands.txt`.

## 8. Plan

Done: betting, locks, table updates, the hand; then the components whose tasks
share state (section 2).  Left:

1. Composition of `Hand` with `PlayerActions`: stop votes against actions, the
   chips of an action whose save conflicts, two tables on one wallet.
2. An abstract lock with expiry that `ActionLock` implements; one owner per key
   for `LockManager` without its listed causes.
3. The wallet the model uses when no service is given (`pokerbotmodel.py` from
   line 2771), and the determination of winners.
