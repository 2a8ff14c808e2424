---------------------------- MODULE TableManager ----------------------------
(***************************************************************************)
(* Where one table's game lives (pokerapp/table_manager.py): the pickled   *)
(* game and its version counter in Redis, and the game object that the     *)
(* process keeps in TableManager._tables.                                  *)
(*                                                                         *)
(* A game is abstracted to the set of tasks whose update is in it.  A game *)
(* object in memory is named after the task that unpickled it, so that two *)
(* users of one cached object see each other's changes.  The module holds  *)
(* the state and the steps, one per Redis call; PlayerActions composes     *)
(* them with their callers.                                                *)
(***************************************************************************)
EXTENDS Naturals

CONSTANTS
    Tasks,      \* tasks that update the game, each at most once
    NoGame,     \* no snapshot, no cached object (a set of something else than tasks)
    NoVersion,  \* the version key is missing
    Faults      \* a subset of FaultKinds

(* "corrupt" a snapshot cannot be unpickled    "redis" a write fails       *)
(* "reply"   the reply of an EXEC is lost      "engine" game logic raises  *)
FaultKinds == {"corrupt", "redis", "reply", "engine"}

ASSUME TableAssumption ==
    /\ NoGame \notin SUBSET Tasks /\ NoGame \notin Tasks /\ NoGame \cap Tasks = {}
    /\ NoVersion \notin Nat
    /\ Faults \subseteq FaultKinds

VARIABLES
    snapshot,     \* chat:<id>:game
    version,      \* game:<id>:version
    watching,     \* tasks whose WATCH on the version key still stands
    cache,        \* TableManager._tables[<id>]
    object,       \* contents of the object each task unpickled
    holds,        \* the object a task works on
    data,         \* what a task's pickle.dumps produced
    readVersion,  \* the version a task loaded
    since         \* history: what befell the game since that read

redisVars == <<snapshot, version, watching>>
localVars == <<object, holds, data, readVersion>>
tableVars == <<redisVars, cache, localVars, since>>

Games == SUBSET Tasks
Events == {"saved", "restarted"}

TableTypeOK ==
    /\ snapshot \in Games \cup {NoGame}
    /\ version \in Nat \cup {NoVersion}
    /\ watching \subseteq Tasks
    /\ cache \in Tasks \cup {NoGame}
    /\ object \in [Tasks -> Games]
    /\ holds \in [Tasks -> Tasks]
    /\ data \in [Tasks -> Games]
    /\ readVersion \in [Tasks -> Nat]
    /\ since \in [Tasks -> SUBSET Events]

TableInit ==
    /\ snapshot = {} /\ version \in {NoVersion, 0}
    /\ watching = {}
    /\ cache = NoGame
    /\ object = [t \in Tasks |-> {}]
    /\ holds = [t \in Tasks |-> t]
    /\ data = [t \in Tasks |-> {}]
    /\ readVersion = [t \in Tasks |-> 0]
    /\ since = [t \in Tasks |-> {}]

-----------------------------------------------------------------------------
\* Mutant of Version: a missing key is not read as 0.
RawVersion == version

\* int(raw), or 0 without one.
Version == IF version = NoVersion THEN 0 ELSE version

\* A write of the version key ends every WATCH on it.
SetVersion(v) == version' = v /\ watching' = {}

\* A complete save, or a deletion of the counter, behind everybody else's back.
Befalls(t, event) ==
    since' = [u \in Tasks |-> IF u = t THEN since[u] ELSE since[u] \cup {event}]

-----------------------------------------------------------------------------
(* load_game_with_version: two reads and perhaps a write.                  *)

ReadGame(t) ==
    /\ snapshot # NoGame
    /\ object' = [object EXCEPT ![t] = snapshot]
    /\ holds' = [holds EXCEPT ![t] = t]
    /\ UNCHANGED <<redisVars, cache, data, readVersion, since>>

\* There is no game, or the snapshot cannot be decoded, or not be recovered: it is
\* deleted then, its version and the cached object are not.
ReadCorrupted ==
    /\ "corrupt" \in Faults
    /\ snapshot # NoGame
    /\ snapshot' = NoGame
    /\ UNCHANGED <<version, watching, cache, since>>

ReadNothing ==
    /\ snapshot = NoGame
    /\ UNCHANGED <<redisVars, cache, since>>

\* A Game() of the task's own.
NewGame(t) ==
    /\ object' = [object EXCEPT ![t] = {}]
    /\ holds' = [holds EXCEPT ![t] = t]
    /\ UNCHANGED <<data, readVersion>>

ReadVersion(t) ==
    /\ readVersion' = [readVersion EXCEPT ![t] = Version]
    /\ since' = [since EXCEPT ![t] = {}]
    /\ UNCHANGED <<redisVars, cache, object, holds, data>>

\* A missing key is set to 0, in a call of its own: by now another task may have
\* counted in it.
InitVersion ==
    /\ SetVersion(0)
    /\ since' = [u \in Tasks |-> since[u] \cup {"restarted"}]
    /\ UNCHANGED <<snapshot, cache, localVars>>

-----------------------------------------------------------------------------
(* Changing the object in hand.                                            *)

ApplyTo(o, t) ==
    /\ holds' = [holds EXCEPT ![t] = o]
    /\ object' = [object EXCEPT ![o] = @ \cup {t}]
    /\ UNCHANGED <<redisVars, cache, readVersion, since>>

\* The game the task loaded itself, and its pickle.
ApplyToLoaded(t) ==
    /\ ApplyTo(t, t)
    /\ data' = [data EXCEPT ![t] = object[t] \cup {t}]

-----------------------------------------------------------------------------
(* save_game_with_version_check: WATCH and GET, then MULTI/EXEC.           *)

VersionConflict(t) == Version # readVersion[t]

Watch(t) ==
    /\ ~VersionConflict(t)
    /\ watching' = watching \cup {t}
    /\ UNCHANGED <<snapshot, version, cache, localVars, since>>

\* Mutant of WatchStands: the transaction does not depend on the WATCH.
NeverMindWatch(t) == TRUE

WatchStands(t) == t \in watching

ExecSave(t) ==
    /\ WatchStands(t)
    /\ snapshot' = data[t]
    /\ SetVersion(readVersion[t] + 1)
    /\ Befalls(t, "saved")
    /\ UNCHANGED <<cache, localVars>>

CacheLoaded(t) ==
    /\ cache' = t
    /\ UNCHANGED <<redisVars, localVars, since>>

-----------------------------------------------------------------------------
(* save_game: cache, snapshot, then the version, each on its own.          *)

CacheHeld(t) ==
    /\ cache' = holds[t]
    /\ data' = [data EXCEPT ![t] = object[holds[t]]]
    /\ UNCHANGED <<redisVars, object, holds, readVersion, since>>

WriteSnapshot(t) ==
    /\ snapshot' = data[t]
    /\ UNCHANGED <<version, watching, cache, localVars, since>>

\* Mutant of IncrementVersion: the counter is left alone.
IncrementForgotten(t) ==
    /\ Befalls(t, "saved")
    /\ UNCHANGED <<redisVars, cache, localVars>>

IncrementVersion(t) ==
    /\ SetVersion(Version + 1)
    /\ Befalls(t, "saved")
    /\ UNCHANGED <<snapshot, cache, localVars>>

-----------------------------------------------------------------------------
(* get_game without a cached object, under the write lock.                 *)

LoadIntoCache(t) ==
    /\ snapshot # NoGame
    /\ object' = [object EXCEPT ![t] = snapshot]
    /\ cache' = t
    /\ UNCHANGED <<redisVars, holds, data, readVersion, since>>

CreateInCache(t) ==
    /\ snapshot = NoGame
    /\ object' = [object EXCEPT ![t] = {}]
    /\ snapshot' = {}
    /\ cache' = t
    /\ UNCHANGED <<version, watching, holds, data, readVersion, since>>

-----------------------------------------------------------------------------
(* delete_game.                                                            *)

DeleteSnapshot ==
    /\ cache' = NoGame
    /\ snapshot' = NoGame
    /\ UNCHANGED <<version, watching, localVars, since>>

DeleteVersion(t) ==
    /\ IF version = NoVersion THEN UNCHANGED <<version, watching>>
                              ELSE SetVersion(NoVersion)
    /\ Befalls(t, "restarted")
    /\ UNCHANGED <<snapshot, cache, localVars>>
=============================================================================
