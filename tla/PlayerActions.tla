---------------------------- MODULE PlayerActions ----------------------------
(***************************************************************************)
(* The tasks that change one table's game, over TableManager:              *)
(*   "action"  _handle_locked_player_action (pokerbotmodel.py): action     *)
(*             lock, table_write_lock, one attempt;                        *)
(*   "bet"     process_bet (game_engine.py): acquire_table_write_lock,     *)
(*             chips, again after a conflict;                              *)
(*   "seat"    join_game, leave_game, update_player_chips: as "bet",       *)
(*             without chips;                                              *)
(*   "legacy"  get_game, a change to the cached object, save_game;         *)
(*   "delete"  delete_game.                                                *)
(* acquire_table_write_lock and table_write_lock are different locks (one  *)
(* is guard() on a ReentrantAsyncLock, the other TableRWLock): Lock says   *)
(* which one a task takes.                                                 *)
(***************************************************************************)
EXTENDS TableManager

CONSTANTS
    Kind,        \* [Tasks -> Kinds]
    Locks,       \* the table's locks
    Lock,        \* [Tasks -> Locks]
    Buttons,     \* action-lock keys: player and kind of action
    Button,      \* [Tasks -> Buttons]
    NoTask       \* "nobody"

Kinds == {"action", "bet", "seat", "legacy", "delete"}

ASSUME ActionAssumption ==
    /\ Kind \in [Tasks -> Kinds]
    /\ Lock \in [Tasks -> Locks]
    /\ Button \in [Tasks -> Buttons]
    /\ NoTask \notin Tasks

VARIABLES
    pc,          \* the await a task stands before
    tableLock,   \* the holder of each table lock
    actionLock,  \* the task whose token is in each action-lock key
    lapsed,      \* tasks whose action lock ran into its TTL
    paid,        \* how often wallet.authorize took the chips of a task
    acked        \* tasks that reported success, until the game is deleted

actionVars == <<pc, tableLock, actionLock, lapsed, paid, acked>>
vars == <<tableVars, actionVars>>

Places == {"idle", "lock", "get_lock", "get", "change", "load", "version", "init", "play",
           "watch", "exec", "index", "write", "incr", "delete_version",
           "absent", "absent_init",
           "unlock", "release", "done"}

TypeOK ==
    /\ TableTypeOK
    /\ pc \in [Tasks -> Places]
    /\ tableLock \in [Locks -> Tasks \cup {NoTask}]
    /\ actionLock \in [Buttons -> Tasks \cup {NoTask}]
    /\ lapsed \subseteq Tasks
    /\ paid \in [Tasks -> Nat]
    /\ acked \subseteq Tasks

Init ==
    /\ TableInit
    /\ pc = [t \in Tasks |-> "idle"]
    /\ tableLock = [l \in Locks |-> NoTask]
    /\ actionLock = [b \in Buttons |-> NoTask]
    /\ lapsed = {}
    /\ paid = [t \in Tasks |-> 0]
    /\ acked = {}

-----------------------------------------------------------------------------
Goto(t, p) == pc' = [pc EXCEPT ![t] = p]

\* A step of t that moves control only, and maybe the table.
Moves(t, from, to) ==
    /\ pc[t] = from
    /\ Goto(t, to)
    /\ UNCHANGED <<tableLock, actionLock, lapsed, paid, acked>>

\* Leaving the locked section, by the end of the request or to try again.
ReleaseTable(t) ==
    tableLock' = [tableLock EXCEPT ![Lock[t]] = IF @ = t THEN NoTask ELSE @]

\* Mutant of AfterConflict: the next attempt does not load the game again.
RetryWithoutReload(t) ==
    /\ Goto(t, IF Kind[t] = "action" THEN "unlock" ELSE "watch")
    /\ UNCHANGED <<tableLock, actionLock, lapsed, paid, acked>>

\* A save that returns False: an action gives up, the others start again.
AfterConflict(t) ==
    /\ IF Kind[t] = "action" THEN Goto(t, "unlock") /\ UNCHANGED tableLock
                             ELSE Goto(t, "lock") /\ ReleaseTable(t)
    /\ UNCHANGED <<actionLock, lapsed, paid, acked>>

-----------------------------------------------------------------------------
(* Locks.                                                                  *)

\* acquire_action_lock: SET NX EX with a fresh token.
TakeActionLock(t) ==
    /\ Kind[t] = "action"
    /\ pc[t] = "idle"
    /\ actionLock[Button[t]] = NoTask
    /\ actionLock' = [actionLock EXCEPT ![Button[t]] = t]
    /\ Goto(t, "lock")
    /\ UNCHANGED <<tableVars, tableLock, lapsed, paid, acked>>

ActionLockBusy(t) ==
    /\ Kind[t] = "action"
    /\ actionLock[Button[t]] # NoTask
    /\ Moves(t, "idle", "done")
    /\ UNCHANGED tableVars

ActionLockExpires(b) ==
    /\ actionLock[b] # NoTask
    /\ actionLock' = [actionLock EXCEPT ![b] = NoTask]
    /\ lapsed' = lapsed \cup {actionLock[b]}
    /\ UNCHANGED <<tableVars, pc, tableLock, paid, acked>>

Start(t) ==
    /\ Kind[t] \in {"bet", "seat", "delete"}
    /\ Moves(t, "idle", "lock")
    /\ UNCHANGED tableVars

\* Mutant of Enter: the lock is not waited for.
EnterAnyway(t, from, to) ==
    /\ pc[t] = from
    /\ tableLock' = [tableLock EXCEPT ![Lock[t]] = t]
    /\ Goto(t, to)
    /\ UNCHANGED <<actionLock, lapsed, paid>>

Enter(t, from, to) ==
    /\ pc[t] = from
    /\ tableLock[Lock[t]] = NoTask
    /\ tableLock' = [tableLock EXCEPT ![Lock[t]] = t]
    /\ Goto(t, to)
    /\ UNCHANGED <<actionLock, lapsed, paid>>

EnterToLoad(t) ==
    /\ Kind[t] \in {"action", "bet", "seat"}
    /\ Enter(t, "lock", "load")
    /\ UNCHANGED <<tableVars, acked>>

\* The lock's timeout runs out while somebody else holds it.
TableLockBusy(t) ==
    /\ pc[t] \in {"lock", "get_lock"}
    /\ tableLock[Lock[t]] # NoTask
    /\ Goto(t, "release")
    /\ UNCHANGED <<tableVars, tableLock, actionLock, lapsed, paid, acked>>

Unlock(t) ==
    /\ pc[t] = "unlock"
    /\ ReleaseTable(t)
    /\ Goto(t, "release")
    /\ UNCHANGED <<tableVars, actionLock, lapsed, paid, acked>>

\* Mutant of OwnToken: the key is deleted without a look at the token.
AnyToken(t) == actionLock[Button[t]] # NoTask

\* RELEASE_ACTION_LOCK_SCRIPT compares the token.
OwnToken(t) == actionLock[Button[t]] = t

Release(t) ==
    /\ pc[t] = "release"
    /\ actionLock' = IF Kind[t] = "action" /\ OwnToken(t)
                     THEN [actionLock EXCEPT ![Button[t]] = NoTask] ELSE actionLock
    /\ Goto(t, "done")
    /\ UNCHANGED <<tableVars, tableLock, lapsed, paid, acked>>

-----------------------------------------------------------------------------
(* Versioned updates: actions, bets and seats.                             *)

Load(t) ==
    /\ ReadGame(t)
    /\ Moves(t, "load", "version")

\* Without a game only join_game goes on, with a new one; the others read the
\* version all the same, and return.
WithoutGame(t) ==
    \/ Moves(t, "load", "absent") /\ UNCHANGED localVars
    \/ Kind[t] = "seat" /\ Moves(t, "load", "version") /\ NewGame(t)

LoadNothing(t) == ReadNothing /\ WithoutGame(t)

LoadCorrupted(t) == ReadCorrupted /\ WithoutGame(t)

LoadVersion(t) ==
    /\ ReadVersion(t)
    /\ \/ Moves(t, "version", IF version = NoVersion THEN "init" ELSE "play")
       \/ Moves(t, "absent", IF version = NoVersion THEN "absent_init" ELSE "unlock")

VersionMissing(t) ==
    /\ InitVersion
    /\ Moves(t, "init", "play") \/ Moves(t, "absent_init", "unlock")

\* Not the player's turn, too few chips, no free seat...
Reject(t) ==
    /\ Moves(t, "play", "unlock")
    /\ UNCHANGED tableVars

\* The processor: wallet.authorize takes the chips, then the game is changed.
Play(t) ==
    /\ pc[t] = "play"
    /\ ApplyToLoaded(t)
    /\ Goto(t, "watch")
    /\ paid' = IF Kind[t] = "seat" THEN paid ELSE [paid EXCEPT ![t] = @ + 1]
    /\ UNCHANGED <<tableLock, actionLock, lapsed, acked>>

\* _process_playing raises after the chips are gone.
PlayRaises(t) ==
    /\ "engine" \in Faults
    /\ Kind[t] = "action"
    /\ pc[t] = "play"
    /\ Goto(t, "unlock")
    /\ paid' = [paid EXCEPT ![t] = @ + 1]
    /\ UNCHANGED <<tableVars, tableLock, actionLock, lapsed, acked>>

CheckVersion(t) ==
    /\ Watch(t)
    /\ Moves(t, "watch", "exec")

VersionChanged(t) ==
    /\ pc[t] = "watch"
    /\ VersionConflict(t)
    /\ AfterConflict(t)
    /\ UNCHANGED tableVars

Exec(t) ==
    /\ ExecSave(t)
    /\ Moves(t, "exec", "index")

\* WatchError.
ExecAborts(t) ==
    /\ pc[t] = "exec"
    /\ ~WatchStands(t)
    /\ AfterConflict(t)
    /\ UNCHANGED tableVars

\* RedisError, before the transaction ran or when only its reply is missing.
ExecRaises(t) ==
    /\ Moves(t, "exec", "unlock")
    /\ \/ "redis" \in Faults /\ UNCHANGED tableVars
       \/ "reply" \in Faults /\ ExecSave(t)

\* After _update_player_index.
Cache(t) ==
    /\ pc[t] = "index"
    /\ CacheLoaded(t)
    /\ acked' = acked \cup {t}
    /\ Goto(t, "unlock")
    /\ UNCHANGED <<tableLock, actionLock, lapsed, paid>>

-----------------------------------------------------------------------------
(* get_game ... save_game.                                                 *)

GetCached(t) ==
    /\ Kind[t] = "legacy"
    /\ cache # NoGame
    /\ Moves(t, "idle", "change")
    /\ holds' = [holds EXCEPT ![t] = cache]
    /\ UNCHANGED <<redisVars, cache, object, data, readVersion, since>>

GetMisses(t) ==
    /\ Kind[t] = "legacy"
    /\ cache = NoGame
    /\ Moves(t, "idle", "get_lock")
    /\ UNCHANGED tableVars

EnterToGet(t) ==
    /\ Enter(t, "get_lock", "get")
    /\ UNCHANGED <<tableVars, acked>>

\* Under the lock the cache is looked at again; then the snapshot is loaded, or
\* an empty game is made and written.
Get(t) ==
    /\ pc[t] = "get"
    /\ \/ cache # NoGame /\ UNCHANGED tableVars
       \/ cache = NoGame /\ (LoadIntoCache(t) \/ CreateInCache(t))
    /\ ReleaseTable(t)
    /\ Goto(t, "idle")
    /\ UNCHANGED <<actionLock, lapsed, paid, acked>>

Change(t) ==
    /\ ApplyTo(holds[t], t)
    /\ UNCHANGED data
    /\ Moves(t, "change", "lock")

EnterToSave(t) ==
    /\ Kind[t] = "legacy"
    /\ Enter(t, "lock", "write")
    /\ CacheHeld(t)
    /\ UNCHANGED acked

WriteGame(t) ==
    /\ WriteSnapshot(t)
    /\ Moves(t, "write", "incr")

\* _save raises; the cache already has the game.
WriteRaises(t) ==
    /\ "redis" \in Faults
    /\ Moves(t, "write", "unlock")
    /\ UNCHANGED tableVars

\* An INCR that fails is only logged.
Increment(t) ==
    /\ pc[t] = "incr"
    /\ \/ IncrementVersion(t)
       \/ "redis" \in Faults /\ UNCHANGED tableVars
    /\ acked' = acked \cup {t}
    /\ Goto(t, "unlock")
    /\ UNCHANGED <<tableLock, actionLock, lapsed, paid>>

-----------------------------------------------------------------------------
(* delete_game.                                                            *)

EnterToDelete(t) ==
    /\ Kind[t] = "delete"
    /\ Enter(t, "lock", "delete_version")
    /\ DeleteSnapshot
    /\ acked' = {}

DeleteRest(t) ==
    /\ DeleteVersion(t)
    /\ Moves(t, "delete_version", "unlock")

-----------------------------------------------------------------------------
Step(t) ==
    \/ TakeActionLock(t) \/ ActionLockBusy(t) \/ Start(t)     \/ EnterToLoad(t)
    \/ TableLockBusy(t)  \/ Unlock(t)         \/ Release(t)   \/ Load(t)
    \/ LoadNothing(t)    \/ LoadCorrupted(t)  \/ LoadVersion(t) \/ VersionMissing(t)
    \/ Reject(t)         \/ Play(t)           \/ PlayRaises(t)
    \/ CheckVersion(t)   \/ VersionChanged(t) \/ Exec(t)      \/ ExecAborts(t)
    \/ ExecRaises(t)     \/ Cache(t)
    \/ GetCached(t)      \/ GetMisses(t)      \/ EnterToGet(t) \/ Get(t)
    \/ Change(t)         \/ EnterToSave(t)    \/ WriteGame(t) \/ WriteRaises(t)
    \/ Increment(t)      \/ EnterToDelete(t)  \/ DeleteRest(t)

Next ==
    \/ \E t \in Tasks : Step(t)
    \/ \E b \in Buttons : ActionLockExpires(b)

Spec == Init /\ [][Next]_vars

\* The event loop resumes every task that can run.
FairSpec == Spec /\ \A t \in Tasks : WF_vars(Step(t))

-----------------------------------------------------------------------------
(* Correctness.                                                            *)

Versioned == {t \in Tasks : Kind[t] \in {"action", "bet", "seat"}}

\* "saves only commit when the version observed during load matches": whatever
\* the locks do, no versioned save lands on top of another save, versioned or
\* legacy, that was completed after its task read the version; unless the counter
\* was restarted in between, by delete_game or by a task that found it missing.
IsolatedSave(t) ==
    pc[t] = "exec" /\ pc'[t] = "index" =>
        "saved" \notin since[t] \/ "restarted" \in since[t]

SavesAreIsolated == [][\A t \in Versioned : IsolatedSave(t)]_vars

\* Why it holds, the inductive invariant of its proof: from its read to its save a
\* task finds the counter where it read it or higher, higher if a save was completed
\* meanwhile, and a WATCH that stands means that it has not moved at all.
InFlight(t) == pc[t] \in {"init", "play", "watch", "exec"}

IsolationInv ==
    /\ \A t \in Tasks :
          InFlight(t) /\ "restarted" \notin since[t] =>
              /\ Version >= readVersion[t]
              /\ "saved" \in since[t] => Version > readVersion[t]
    /\ \A t \in watching : pc[t] = "exec" => Version = readVersion[t]

\* "avoid lost updates", as far as the locks reach: an update whose task reported
\* success is not overwritten by a versioned save of a task under the same lock.
KeepsAcknowledged ==
    \A t, u \in Versioned :
        /\ pc[t] = "exec" /\ snapshot' # snapshot
        /\ pc'[t] # "exec" /\ Lock[t] = Lock[u]
        /\ u \in acked /\ u \in snapshot
        => u \in snapshot'

\* get_game ... save_game works on the object that the process shares.
InShared(t) == Kind[t] = "legacy" /\ pc[t] \notin {"idle", "get_lock", "get"}

\* So no save undoes what was reported under its own lock, whatever the tasks under the
\* other one save between its read and its write, until a save without a version begins
\* (docs/architecture.md).
NotLostUnderLock == [][(\E t \in Tasks : InShared(t)) \/ KeepsAcknowledged]_vars

\* An acknowledged update stays in the game until the game is deleted.
NoLostUpdate ==
    \A u \in acked : snapshot # NoGame => u \in snapshot

\* Double taps: as long as a task in its action lock has not outlived the TTL its
\* token is in the key, so a second tap of the button stays out; also when a task
\* that did outlive it releases the key behind its successor's back.
InAction(t) == Kind[t] = "action" /\ pc[t] \notin {"idle", "done"}

OneTap ==
    \A t \in Tasks : InAction(t) => t \in lapsed \/ actionLock[Button[t]] = t

\* process_bet takes the chips on every attempt and gives none back: it charges
\* a bet twice only if a task under the other lock changed the table meanwhile,
\* never because of the requests it shares its lock with.
InPlay(u) == pc[u] \notin {"idle", "get_lock", "get", "change", "lock"}

ChargedTwiceAcrossLocks ==
    \A t \in Tasks :
        paid[t] > 1 => \E u \in Tasks : Lock[u] # Lock[t] /\ InPlay(u)

\* Every request ends, although process_bet, join_game and the others retry for
\* ever: only another writer can make them retry.
RequestsEnd == \A t \in Tasks : <>(pc[t] = "done")
=============================================================================
