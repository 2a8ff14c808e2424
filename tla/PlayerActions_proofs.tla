------------------------ MODULE PlayerActions_proofs ------------------------
(***************************************************************************)
(* What the version counter, the action lock and the table's locks         *)
(* guarantee, for any number of tasks of any kind, any assignment of locks *)
(* and buttons and any faults, but for the conditions that the last two    *)
(* theorems name.                                                          *)
(*                                                                         *)
(*   TypeCorrect              type correctness                             *)
(*   TapsAreExclusive         a second tap stays out                       *)
(*   CounterLeads             the version counter is ahead of what a task  *)
(*                            has read, by every save it has not seen      *)
(*   SavesIsolated            no versioned save lands on an unseen one     *)
(*   ChargedOnceUnderOneLock  a bet pays twice only through the other lock *)
(*   AcknowledgedIsKept       no save undoes what its own lock protects    *)
(***************************************************************************)
EXTENDS PlayerActions, TLAPS

USE TableAssumption, ActionAssumption

-----------------------------------------------------------------------------
(* Types.                                                                  *)

\* Every call of the table manager keeps the types of its state.
LEMMA TableStepType ==
    ASSUME TableTypeOK, NEW t \in Tasks,
           \/ ReadGame(t) \/ LoadNothing(t) \/ LoadCorrupted(t) \/ ReadVersion(t) \/ InitVersion
           \/ ApplyToLoaded(t) \/ Watch(t) \/ ExecSave(t) \/ CacheLoaded(t)
           \/ CacheHeld(t) \/ WriteSnapshot(t) \/ IncrementVersion(t) \/ LoadIntoCache(t)
           \/ CreateInCache(t) \/ DeleteSnapshot \/ DeleteVersion(t)
    PROVE  TableTypeOK'
<1> USE DEF TableTypeOK, Games, Events, redisVars, localVars
<1>1. CASE ReadGame(t)
  BY <1>1 DEF ReadGame
<1>2. CASE LoadNothing(t) \/ LoadCorrupted(t)
  BY <1>2 DEF LoadNothing, LoadCorrupted, ReadNothing, ReadCorrupted, WithoutGame, NewGame
<1>3. CASE ReadVersion(t)
  BY <1>3 DEF ReadVersion, Version
<1>4. CASE InitVersion
  BY <1>4 DEF InitVersion, SetVersion
<1>5. CASE ApplyToLoaded(t)
  BY <1>5 DEF ApplyToLoaded, ApplyTo
<1>6. CASE Watch(t)
  BY <1>6 DEF Watch
<1>7. CASE ExecSave(t)
  BY <1>7 DEF ExecSave, SetVersion, Befalls
<1>8. CASE CacheLoaded(t)
  BY <1>8 DEF CacheLoaded
<1>9. CASE CacheHeld(t)
  BY <1>9 DEF CacheHeld
<1>10. CASE WriteSnapshot(t)
  BY <1>10 DEF WriteSnapshot
<1>11. CASE IncrementVersion(t)
  BY <1>11 DEF IncrementVersion, SetVersion, Version, Befalls
<1>12. CASE LoadIntoCache(t)
  BY <1>12 DEF LoadIntoCache
<1>13. CASE CreateInCache(t)
  BY <1>13 DEF CreateInCache
<1>14. CASE DeleteSnapshot
  BY <1>14 DEF DeleteSnapshot
<1>15. CASE DeleteVersion(t)
  BY <1>15 DEF DeleteVersion, SetVersion, Befalls
<1> QED
  BY <1>1, <1>2, <1>3, <1>4, <1>5, <1>6, <1>7, <1>8,
     <1>9, <1>10, <1>11, <1>12, <1>13, <1>14, <1>15

\* The types of the tasks' own state.
ActionTypeOK ==
    /\ pc \in [Tasks -> Places]
    /\ tableLock \in [Locks -> Tasks \cup {NoTask}]
    /\ actionLock \in [Buttons -> Tasks \cup {NoTask}]
    /\ lapsed \subseteq Tasks
    /\ paid \in [Tasks -> Nat]
    /\ acked \subseteq Tasks

\* A step of a task keeps the types of the table.
LEMMA StepTableType ==
    ASSUME TypeOK, NEW t \in Tasks, Step(t)
    PROVE  TableTypeOK'
<1> USE DEF TypeOK
<1>1. CASE \/ Load(t) \/ LoadNothing(t) \/ LoadCorrupted(t) \/ LoadVersion(t) \/ VersionMissing(t)
           \/ Play(t) \/ CheckVersion(t) \/ Exec(t) \/ Cache(t)
           \/ EnterToSave(t) \/ WriteGame(t) \/ EnterToDelete(t) \/ DeleteRest(t)
  BY <1>1, TableStepType DEF Load, LoadVersion,
                             VersionMissing, Play, CheckVersion, Exec, Cache,
                             EnterToSave, WriteGame, EnterToDelete,
                             DeleteRest
<1>2. CASE \/ TakeActionLock(t) \/ ActionLockBusy(t) \/ Start(t) \/ EnterToLoad(t)
           \/ TableLockBusy(t) \/ Unlock(t) \/ Release(t) \/ Reject(t)
           \/ PlayRaises(t) \/ VersionChanged(t) \/ ExecAborts(t) \/ GetMisses(t)
           \/ EnterToGet(t) \/ WriteRaises(t)
  <2>1. UNCHANGED tableVars
    BY <1>2 DEF TakeActionLock, ActionLockBusy, Start, EnterToLoad,
                TableLockBusy, Unlock, Release, Reject, PlayRaises,
                VersionChanged, ExecAborts, GetMisses, EnterToGet,
                WriteRaises, Moves
  <2> QED
    BY <2>1 DEF tableVars, redisVars, localVars, TableTypeOK
<1>4. CASE ExecRaises(t)
  <2>1. CASE UNCHANGED tableVars
    BY <2>1 DEF TableTypeOK, tableVars, redisVars, localVars
  <2> QED
    BY <1>4, <2>1, TableStepType DEF ExecRaises
<1>5. CASE GetCached(t)
  BY <1>5 DEF GetCached, TableTypeOK, redisVars
<1>6. CASE Get(t)
  <2>1. CASE UNCHANGED tableVars
    BY <2>1 DEF TableTypeOK, tableVars, redisVars, localVars
  <2> QED
    BY <1>6, <2>1, TableStepType DEF Get
<1>7. CASE Change(t)
  BY <1>7 DEF Change, ApplyTo, TableTypeOK, Games, redisVars
<1>8. CASE Increment(t)
  <2>1. CASE UNCHANGED tableVars
    BY <2>1 DEF TableTypeOK, tableVars, redisVars, localVars
  <2> QED
    BY <1>8, <2>1, TableStepType DEF Increment
<1> QED
  BY <1>1, <1>2, <1>4, <1>5, <1>6, <1>7, <1>8 DEF Step

\* And those of the tasks.
LEMMA StepActionType ==
    ASSUME TypeOK, NEW t \in Tasks, Step(t)
    PROVE  ActionTypeOK'
<1> USE DEF ActionTypeOK, Places, Goto
<1>0. ActionTypeOK
  BY DEF TypeOK
<1>1. CASE \/ ActionLockBusy(t) \/ Start(t) \/ Load(t) \/ LoadNothing(t)
           \/ LoadCorrupted(t) \/ LoadVersion(t) \/ VersionMissing(t) \/ Reject(t)
           \/ CheckVersion(t) \/ Exec(t) \/ ExecRaises(t) \/ GetCached(t)
           \/ GetMisses(t) \/ Change(t) \/ WriteGame(t) \/ WriteRaises(t)
           \/ DeleteRest(t)
  <2>1. PICK from \in Places, to \in Places : Moves(t, from, to)
    BY <1>1 DEF ActionLockBusy, Start, Load, LoadNothing, LoadCorrupted, WithoutGame,
                LoadVersion, VersionMissing, Reject, CheckVersion, Exec,
                ExecRaises, GetCached, GetMisses, Change, WriteGame,
                WriteRaises, DeleteRest
  <2> QED
    BY <1>0, <2>1 DEF Moves
<1>2. CASE TakeActionLock(t)
  BY <1>0, <1>2 DEF TakeActionLock
<1>3. CASE EnterToLoad(t)
  BY <1>0, <1>3 DEF EnterToLoad, Enter
<1>4. CASE TableLockBusy(t)
  BY <1>0, <1>4 DEF TableLockBusy
<1>5. CASE Unlock(t)
  BY <1>0, <1>5 DEF Unlock, ReleaseTable
<1>6. CASE Release(t)
  BY <1>0, <1>6 DEF Release
<1>7. CASE Play(t)
  BY <1>0, <1>7 DEF Play
<1>8. CASE PlayRaises(t)
  BY <1>0, <1>8 DEF PlayRaises
<1>9. CASE VersionChanged(t)
  BY <1>0, <1>9 DEF VersionChanged, AfterConflict, ReleaseTable
<1>10. CASE ExecAborts(t)
  BY <1>0, <1>10 DEF ExecAborts, AfterConflict, ReleaseTable
<1>11. CASE Cache(t)
  BY <1>0, <1>11 DEF Cache
<1>12. CASE EnterToGet(t)
  BY <1>0, <1>12 DEF EnterToGet, Enter
<1>13. CASE Get(t)
  BY <1>0, <1>13 DEF Get, ReleaseTable
<1>14. CASE EnterToSave(t)
  BY <1>0, <1>14 DEF EnterToSave, Enter
<1>15. CASE Increment(t)
  BY <1>0, <1>15 DEF Increment
<1>16. CASE EnterToDelete(t)
  BY <1>0, <1>16 DEF EnterToDelete, Enter
<1> QED
  BY <1>1, <1>2, <1>3, <1>4, <1>5, <1>6, <1>7, <1>8, <1>9, <1>10, <1>11,
     <1>12, <1>13, <1>14, <1>15, <1>16 DEF Step

\* Every step keeps the types.
LEMMA NextTypeOK == TypeOK /\ [Next]_vars => TypeOK'
<1> SUFFICES ASSUME TypeOK, [Next]_vars PROVE TypeOK'
  OBVIOUS
<1>1. ASSUME NEW t \in Tasks, Step(t) PROVE TypeOK'
  BY <1>1, StepTableType, StepActionType DEF TypeOK, ActionTypeOK
<1>2. ASSUME NEW b \in Buttons, ActionLockExpires(b) PROVE TypeOK'
  BY <1>2 DEF ActionLockExpires, TypeOK, TableTypeOK, tableVars, redisVars, localVars
<1>3. CASE UNCHANGED vars
  BY <1>3 DEF vars, actionVars, TypeOK, TableTypeOK, tableVars, redisVars, localVars
<1> QED
  BY <1>1, <1>2, <1>3 DEF Next

\* Type correctness of the table and its tasks.
THEOREM TypeCorrect == Spec => []TypeOK
<1>1. Init => TypeOK
  BY DEF Init, TableInit, TypeOK, TableTypeOK, Places, Games, Events
<1> QED
  BY <1>1, NextTypeOK, PTL DEF Spec

-----------------------------------------------------------------------------
(* Double taps.                                                            *)

\* A step of a task neither enters an action without its token nor takes the
\* token of another one.
LEMMA StepOneTap ==
    ASSUME TypeOK, OneTap, NEW u \in Tasks, Step(u)
    PROVE  OneTap'
<1> SUFFICES ASSUME NEW t \in Tasks, InAction(t)' PROVE (t \in lapsed \/ actionLock[Button[t]] = t)'
  BY DEF OneTap
<1> USE DEF TypeOK, InAction, Goto
<1>1. CASE TakeActionLock(u)
  BY <1>1 DEF TakeActionLock, OneTap
<1>2. CASE Release(u)
  BY <1>2 DEF Release, OwnToken, OneTap
<1>3. ASSUME UNCHANGED <<actionLock, lapsed>>, InAction(t)
      PROVE  (t \in lapsed \/ actionLock[Button[t]] = t)'
  BY <1>3 DEF OneTap
<1>4. CASE \/ ActionLockBusy(u) \/ Start(u) \/ Load(u) \/ LoadNothing(u)
           \/ LoadCorrupted(u) \/ LoadVersion(u) \/ VersionMissing(u) \/ Reject(u)
           \/ CheckVersion(u) \/ Exec(u) \/ ExecRaises(u) \/ GetCached(u)
           \/ GetMisses(u) \/ Change(u) \/ WriteGame(u) \/ WriteRaises(u)
           \/ DeleteRest(u)
  <2>1. UNCHANGED <<actionLock, lapsed>>
    BY <1>4 DEF ActionLockBusy, Start, Load, LoadNothing, LoadCorrupted, WithoutGame,
                LoadVersion, VersionMissing, Reject, CheckVersion, Exec,
                ExecRaises, GetCached, GetMisses, Change, WriteGame,
                WriteRaises, DeleteRest, Moves
  <2>2. InAction(t)
    BY <1>4 DEF ActionLockBusy, Start, Load, LoadNothing, LoadCorrupted, WithoutGame,
                LoadVersion, VersionMissing, Reject, CheckVersion, Exec,
                ExecRaises, GetCached, GetMisses, Change, WriteGame,
                WriteRaises, DeleteRest, Moves
  <2> QED
    BY <1>3, <2>1, <2>2
<1>5. CASE \/ EnterToLoad(u) \/ TableLockBusy(u) \/ Unlock(u) \/ Play(u)
           \/ PlayRaises(u) \/ VersionChanged(u) \/ ExecAborts(u) \/ Cache(u)
           \/ EnterToGet(u) \/ Get(u) \/ EnterToSave(u) \/ Increment(u)
           \/ EnterToDelete(u)
  <2>1. UNCHANGED <<actionLock, lapsed>>
    BY <1>5 DEF EnterToLoad, TableLockBusy, Unlock, Play, PlayRaises,
                VersionChanged, ExecAborts, Cache, EnterToGet, Get,
                EnterToSave, Increment, EnterToDelete, Enter, AfterConflict
  <2>2. InAction(t)
    BY <1>5 DEF EnterToLoad, TableLockBusy, Unlock, Play, PlayRaises,
                VersionChanged, ExecAborts, Cache, EnterToGet, Get,
                EnterToSave, Increment, EnterToDelete, Enter, AfterConflict
  <2> QED
    BY <1>3, <2>1, <2>2
<1> QED
  BY <1>1, <1>2, <1>3, <1>4, <1>5 DEF Step

\* As long as a task has not outlived its TTL, its token keeps other taps out.
THEOREM TapsAreExclusive == Spec => []OneTap
<1>1. Init => OneTap
  BY DEF Init, OneTap, InAction
<1>2. TypeOK /\ OneTap /\ [Next]_vars => OneTap'
  <2> SUFFICES ASSUME TypeOK, OneTap, [Next]_vars PROVE OneTap'
    OBVIOUS
  <2>1. ASSUME NEW b \in Buttons, ActionLockExpires(b) PROVE OneTap'
    BY <2>1 DEF ActionLockExpires, OneTap, InAction, TypeOK
  <2>2. CASE UNCHANGED vars
    BY <2>2 DEF vars, actionVars, OneTap, InAction
  <2> QED
    BY <2>1, <2>2, StepOneTap DEF Next
<1> QED
  BY <1>1, <1>2, TypeCorrect, PTL DEF Spec

-----------------------------------------------------------------------------
(* Isolation of versioned saves.                                           *)

\* The counter reads as a number.
LEMMA VersionType == TypeOK => Version \in Nat
BY DEF TypeOK, TableTypeOK, Version

\* A step that leaves counter, watches and histories alone, and brings its task to
\* no place where they matter unless it stood at one.
LEMMA QuietStep ==
    ASSUME TypeOK, IsolationInv, NEW u \in Tasks, NEW p, Goto(u, p),
           UNCHANGED <<version, watching, readVersion, since>>,
           p \in {"init", "play", "watch", "exec"} => InFlight(u),
           p = "exec" => pc[u] = "exec"
    PROVE  IsolationInv'
BY DEF TypeOK, IsolationInv, InFlight, Goto, Version

\* A complete save counts one up from a number nobody in flight has passed.
LEMMA CountedSave ==
    ASSUME TypeOK, IsolationInv, NEW u \in Tasks, Befalls(u, "saved"),
           SetVersion(Version + 1), UNCHANGED readVersion,
           NEW p, Goto(u, p), p \notin {"init", "play", "watch", "exec"}
    PROVE  IsolationInv'
<1>1. watching' = {} /\ Version' = Version + 1 /\ Version \in Nat
  BY VersionType DEF SetVersion, Version, TypeOK, TableTypeOK
<1>2. ASSUME NEW t \in Tasks, InFlight(t)', "restarted" \notin since'[t]
      PROVE  Version' > readVersion'[t]
  <2>1. t # u /\ InFlight(t) /\ "restarted" \notin since[t]
    BY <1>2 DEF TypeOK, TableTypeOK, Goto, InFlight, Befalls
  <2>2. Version >= readVersion[t] /\ readVersion[t] \in Nat
    BY <2>1 DEF IsolationInv, TypeOK, TableTypeOK
  <2> QED
    BY <1>1, <2>2
<1>3. ASSUME NEW t \in Tasks PROVE readVersion'[t] \in Nat
  BY DEF TypeOK, TableTypeOK
<1> QED
  BY <1>1, <1>2, <1>3 DEF IsolationInv

\* A transaction whose WATCH stands is such a save.
LEMMA ExecCounts ==
    ASSUME TypeOK, IsolationInv, NEW u \in Tasks, pc[u] = "exec", ExecSave(u),
           NEW p, Goto(u, p), p \notin {"init", "play", "watch", "exec"}
    PROVE  IsolationInv'
<1>1. readVersion[u] = Version
  BY DEF IsolationInv, ExecSave, WatchStands
<1> QED
  BY <1>1, CountedSave DEF ExecSave, localVars

\* Every step of a task keeps the invariant.
LEMMA StepIsolation ==
    ASSUME TypeOK, IsolationInv, NEW u \in Tasks, Step(u)
    PROVE  IsolationInv'
<1>1. CASE \/ ActionLockBusy(u) \/ Start(u) \/ Load(u) \/ LoadNothing(u)
           \/ LoadCorrupted(u) \/ Reject(u) \/ GetCached(u) \/ GetMisses(u)
           \/ Change(u) \/ WriteGame(u) \/ WriteRaises(u)
  <2>1. UNCHANGED <<version, watching, readVersion, since>>
    BY <1>1 DEF ActionLockBusy, Start, Load, LoadNothing, LoadCorrupted, WithoutGame,
                Reject, GetCached, GetMisses, Change, WriteGame, WriteRaises,
                Moves, ReadGame, ReadCorrupted, ReadNothing, NewGame, ApplyTo, ApplyToLoaded,
                CacheLoaded, CacheHeld, WriteSnapshot, LoadIntoCache,
                CreateInCache, DeleteSnapshot, tableVars, redisVars,
                localVars
  <2>2. PICK p \in Places :
          /\ Goto(u, p)
          /\ p \in {"init", "play", "watch", "exec"} => InFlight(u)
          /\ p # "exec"
    BY <1>1 DEF ActionLockBusy, Start, Load, LoadNothing, LoadCorrupted, WithoutGame,
                Reject, GetCached, GetMisses, Change, WriteGame, WriteRaises,
                Moves, InFlight, Places
  <2> QED
    BY <2>1, <2>2, QuietStep
<1>2. CASE \/ TakeActionLock(u) \/ EnterToLoad(u) \/ TableLockBusy(u) \/ Unlock(u)
           \/ Release(u) \/ Play(u) \/ PlayRaises(u) \/ VersionChanged(u)
           \/ ExecAborts(u) \/ Cache(u) \/ EnterToGet(u) \/ Get(u)
           \/ EnterToSave(u) \/ EnterToDelete(u)
  <2>1. UNCHANGED <<version, watching, readVersion, since>>
    BY <1>2 DEF TakeActionLock, EnterToLoad, TableLockBusy, Unlock, Release,
                Play, PlayRaises, VersionChanged, ExecAborts, Cache,
                EnterToGet, Get, EnterToSave, EnterToDelete, Enter,
                AfterConflict, ReadGame, ReadCorrupted, ReadNothing, NewGame, ApplyTo,
                ApplyToLoaded, CacheLoaded, CacheHeld, WriteSnapshot,
                LoadIntoCache, CreateInCache, DeleteSnapshot, tableVars,
                redisVars, localVars
  <2>2. PICK p \in Places :
          /\ Goto(u, p)
          /\ p \in {"init", "play", "watch", "exec"} => InFlight(u)
          /\ p # "exec"
    BY <1>2 DEF TakeActionLock, EnterToLoad, TableLockBusy, Unlock, Release,
                Play, PlayRaises, VersionChanged, ExecAborts, Cache,
                EnterToGet, Get, EnterToSave, EnterToDelete, Enter,
                AfterConflict, InFlight, Places
  <2> QED
    BY <2>1, <2>2, QuietStep
<1>3. CASE LoadVersion(u)
  <2>1. /\ UNCHANGED <<version, watching>>
        /\ readVersion' = [readVersion EXCEPT ![u] = Version]
        /\ since' = [since EXCEPT ![u] = {}]
    BY <1>3 DEF LoadVersion, ReadVersion, redisVars
  <2>2. PICK p \in {"init", "play", "absent_init", "unlock"} : Goto(u, p)
    BY <1>3 DEF LoadVersion, Moves
  <2> QED
    BY <2>1, <2>2, VersionType DEF TypeOK, TableTypeOK, IsolationInv, InFlight, Goto, Version
<1>4. CASE VersionMissing(u)
  BY <1>4 DEF VersionMissing, InitVersion, SetVersion, Moves, Goto, TypeOK, TableTypeOK,
              IsolationInv
<1>5. CASE CheckVersion(u)
  <2>1. /\ Version = readVersion[u] /\ watching' = watching \cup {u}
        /\ UNCHANGED <<version, readVersion, since>>
        /\ pc[u] = "watch" /\ Goto(u, "exec")
    BY <1>5 DEF CheckVersion, Watch, VersionConflict, Moves, localVars
  <2> QED
    BY <2>1 DEF TypeOK, TableTypeOK, IsolationInv, InFlight, Goto, Version
<1>6. CASE Exec(u)
  BY <1>6, ExecCounts DEF Exec, Moves
<1>7. CASE ExecRaises(u)
  <2>1. CASE UNCHANGED tableVars
    BY <1>7, <2>1, QuietStep DEF ExecRaises, Moves, tableVars, redisVars, localVars
  <2>2. CASE ExecSave(u)
    BY <1>7, <2>2, ExecCounts DEF ExecRaises, Moves
  <2> QED
    BY <1>7, <2>1, <2>2 DEF ExecRaises
<1>8. CASE Increment(u)
  <2>1. CASE UNCHANGED tableVars
    BY <1>8, <2>1, QuietStep DEF Increment, tableVars, redisVars, localVars
  <2>2. CASE IncrementVersion(u)
    BY <1>8, <2>2, CountedSave DEF Increment, IncrementVersion, localVars
  <2> QED
    BY <1>8, <2>1, <2>2 DEF Increment
<1>9. CASE DeleteRest(u)
  <2>1. /\ watching' \subseteq watching /\ UNCHANGED readVersion
        /\ Befalls(u, "restarted") /\ Goto(u, "unlock")
        /\ version' = version \/ watching' = {}
    BY <1>9 DEF DeleteRest, DeleteVersion, SetVersion, Moves, localVars
  <2> QED
    BY <2>1 DEF TypeOK, TableTypeOK, IsolationInv, InFlight, Goto, Befalls, Version
<1> QED
  BY <1>1, <1>2, <1>3, <1>4, <1>5, <1>6, <1>7, <1>8, <1>9 DEF Step

\* The counter is never behind a task in flight.
LEMMA NextIsolation == TypeOK /\ IsolationInv /\ [Next]_vars => IsolationInv'
<1> SUFFICES ASSUME TypeOK, IsolationInv, [Next]_vars PROVE IsolationInv'
  OBVIOUS
<1>1. ASSUME NEW b \in Buttons, ActionLockExpires(b) PROVE IsolationInv'
  BY <1>1 DEF ActionLockExpires, tableVars, redisVars, localVars, IsolationInv, InFlight,
              Version
<1>2. CASE UNCHANGED vars
  BY <1>2 DEF vars, tableVars, redisVars, localVars, actionVars, IsolationInv, InFlight, Version
<1> QED
  BY <1>1, <1>2, StepIsolation DEF Next

\* The invariant of the proof holds, for any mix of writers.
THEOREM CounterLeads == Spec => []IsolationInv
<1>1. Init => IsolationInv
  BY DEF Init, TableInit, IsolationInv, InFlight
<1> QED
  BY <1>1, NextIsolation, TypeCorrect, PTL DEF Spec

\* Only the transaction brings a task from its EXEC to its index.
LEMMA OnlyExec ==
    ASSUME TypeOK, NEW u \in Tasks, Step(u), NEW t \in Tasks,
           pc[t] = "exec", pc'[t] = "index"
    PROVE  Exec(t)
<1>1. ASSUME \/ ActionLockBusy(u) \/ Start(u) \/ Load(u) \/ LoadNothing(u)
             \/ LoadCorrupted(u) \/ LoadVersion(u) \/ VersionMissing(u) \/ Reject(u)
             \/ CheckVersion(u) \/ ExecRaises(u) \/ GetCached(u) \/ GetMisses(u)
             \/ Change(u) \/ WriteGame(u) \/ WriteRaises(u) \/ DeleteRest(u)
      PROVE  FALSE
  BY <1>1 DEF ActionLockBusy, Start, Load, LoadNothing, LoadCorrupted, WithoutGame,
              LoadVersion, VersionMissing, Reject, CheckVersion, ExecRaises,
              GetCached, GetMisses, Change, WriteGame, WriteRaises,
              DeleteRest, Moves, Goto, TypeOK
<1>2. ASSUME \/ TakeActionLock(u) \/ EnterToLoad(u) \/ TableLockBusy(u) \/ Unlock(u)
             \/ Release(u) \/ Play(u) \/ PlayRaises(u) \/ VersionChanged(u)
             \/ ExecAborts(u) \/ Cache(u) \/ EnterToGet(u) \/ Get(u)
             \/ EnterToSave(u) \/ Increment(u) \/ EnterToDelete(u)
      PROVE  FALSE
  BY <1>2 DEF TakeActionLock, EnterToLoad, TableLockBusy, Unlock, Release,
              Play, PlayRaises, VersionChanged, ExecAborts, Cache,
              EnterToGet, Get, EnterToSave, Increment, EnterToDelete, Enter,
              AfterConflict, Goto, TypeOK
<1>3. CASE Exec(u)
  BY <1>3 DEF Exec, Moves, Goto, TypeOK
<1> QED
  BY <1>1, <1>2, <1>3 DEF Step

\* No versioned save lands on a completed save that its task has not read.
THEOREM SavesIsolated == Spec => SavesAreIsolated
<1>1. TypeOK /\ IsolationInv /\ [Next]_vars => [\A t \in Versioned : IsolatedSave(t)]_vars
  <2> SUFFICES ASSUME TypeOK, IsolationInv, Next, NEW t \in Versioned,
                      pc[t] = "exec", pc'[t] = "index"
               PROVE  "saved" \notin since[t] \/ "restarted" \in since[t]
    BY DEF IsolatedSave
  <2>1. t \in Tasks
    BY DEF Versioned
  <2>2. ~ \E b \in Buttons : ActionLockExpires(b)
    BY DEF ActionLockExpires
  <2>3. Exec(t)
    BY <2>1, <2>2, OnlyExec DEF Next
  <2>4. t \in watching
    BY <2>3 DEF Exec, ExecSave, WatchStands
  <2>5. Version = readVersion[t]
    BY <2>4 DEF IsolationInv
  <2> QED
    BY <2>1, <2>5, VersionType DEF IsolationInv, InFlight
<1> QED
  BY <1>1, TypeCorrect, CounterLeads, PTL DEF Spec, SavesAreIsolated
-----------------------------------------------------------------------------
(* Double charges.                                                         *)

\* process_bet, join_game and the others all take acquire_table_write_lock, the
\* guard() of one keyed lock: the requests that try again share a lock.
RetriesShareALock ==
    \A t, u \in Tasks :
        Kind[t] \in {"bet", "seat"} /\ Kind[u] \in {"bet", "seat"} => Lock[t] = Lock[u]

\* A task under another lock is, or has been, between its lock and its end.
Meddler(t) == \E u \in Tasks : Lock[u] # Lock[t] /\ InPlay(u)

\* Where a task holds its table lock.
Locked == {"get", "load", "version", "init", "play", "watch", "exec", "index",
           "write", "incr", "delete_version", "absent", "absent_init", "unlock"}

\* Up to where an attempt has not charged anybody.
Uncharged == {"idle", "lock", "load", "version", "init", "play"}

\* Who is inside has the lock, and each kind of task keeps to its own places.
LockedInv ==
    /\ \A t \in Tasks : pc[t] \in Locked => tableLock[Lock[t]] = t
    /\ \A t \in Tasks :
          /\ pc[t] \in {"load", "version", "init", "play", "watch", "exec", "index"}
                => Kind[t] \in {"action", "bet", "seat"}
          /\ pc[t] \in {"get_lock", "get", "change"} => Kind[t] = "legacy"

\* Without a meddler a bet finds the counter where it read it, so that its first
\* attempt is its last one; an action has no second attempt anyway.
ChargeInv ==
    \A t \in Tasks :
        /\ Kind[t] \notin {"action", "bet"} => paid[t] = 0
        /\ (Kind[t] = "action" \/ ~Meddler(t)) =>
              /\ paid[t] <= 1
              /\ pc[t] \in Uncharged => paid[t] = 0

CounterInv ==
    \A t \in Tasks :
        /\ pc[t] = "init" => readVersion[t] = 0
        /\ (Kind[t] = "bet" /\ ~Meddler(t)) =>
              /\ pc[t] \in {"play", "watch"} => Version = readVersion[t]
              /\ pc[t] = "exec" => t \in watching

\* A step moves its own task only.
LEMMA StepGoes ==
    ASSUME TypeOK, NEW u \in Tasks, Step(u)
    PROVE  /\ pc'[u] \in Places
           /\ \A t \in Tasks \ {u} : pc'[t] = pc[t]
<1> USE DEF Goto, Places, TypeOK
<1>1. CASE \/ ActionLockBusy(u) \/ Start(u) \/ Load(u) \/ LoadNothing(u)
           \/ LoadCorrupted(u) \/ LoadVersion(u) \/ VersionMissing(u) \/ Reject(u)
           \/ CheckVersion(u) \/ Exec(u) \/ ExecRaises(u) \/ GetCached(u)
           \/ GetMisses(u) \/ Change(u) \/ WriteGame(u) \/ WriteRaises(u)
           \/ DeleteRest(u)
  BY <1>1 DEF ActionLockBusy, Start, Load, LoadNothing, LoadCorrupted, WithoutGame,
              LoadVersion, VersionMissing, Reject, CheckVersion, Exec,
              ExecRaises, GetCached, GetMisses, Change, WriteGame,
              WriteRaises, DeleteRest, Moves
<1>2. CASE \/ TakeActionLock(u) \/ EnterToLoad(u) \/ TableLockBusy(u) \/ Unlock(u)
           \/ Release(u) \/ Play(u) \/ PlayRaises(u) \/ VersionChanged(u)
           \/ ExecAborts(u) \/ Cache(u) \/ EnterToGet(u) \/ Get(u)
           \/ EnterToSave(u) \/ Increment(u) \/ EnterToDelete(u)
  BY <1>2 DEF TakeActionLock, EnterToLoad, TableLockBusy, Unlock, Release,
              Play, PlayRaises, VersionChanged, ExecAborts, Cache,
              EnterToGet, Get, EnterToSave, Increment, EnterToDelete, Enter,
              AfterConflict
<1> QED
  BY <1>1, <1>2 DEF Step

\* The steps that neither take nor give a table lock stay inside or outside of it,
\* in the places of their kind.
LEMMA StaysLocked ==
    ASSUME TypeOK, LockedInv, NEW u \in Tasks, Step(u), UNCHANGED tableLock,
           pc'[u] \in Locked => pc[u] \in Locked,
           pc'[u] \in {"load", "version", "init", "play", "watch", "exec", "index"}
              => Kind[u] \in {"action", "bet", "seat"},
           pc'[u] \in {"get_lock", "get", "change"} => Kind[u] = "legacy"
    PROVE  LockedInv'
<1>1. \A t \in Tasks \ {u} : pc'[t] = pc[t]
  BY StepGoes
<1> QED
  BY <1>1 DEF LockedInv

\* Table locks exclude each other's tasks.
LEMMA StepLocked ==
    ASSUME TypeOK, LockedInv, NEW u \in Tasks, Step(u)
    PROVE  LockedInv'
<1>0. \A t \in Tasks \ {u} : pc'[t] = pc[t]
  BY StepGoes
<1>1. CASE \/ ActionLockBusy(u) \/ Start(u) \/ Load(u) \/ LoadNothing(u)
           \/ LoadCorrupted(u) \/ LoadVersion(u) \/ VersionMissing(u) \/ Reject(u)
           \/ CheckVersion(u) \/ Exec(u) \/ ExecRaises(u) \/ GetCached(u)
           \/ GetMisses(u) \/ Change(u) \/ WriteGame(u) \/ WriteRaises(u)
           \/ DeleteRest(u)
  <2>1. /\ UNCHANGED tableLock
        /\ pc'[u] \in Locked => pc[u] \in Locked
        /\ pc'[u] \in {"load", "version", "init", "play", "watch", "exec", "index"}
              => pc[u] \in {"load", "version", "init", "play", "watch", "exec"}
        /\ pc'[u] \in {"get_lock", "get", "change"} => Kind[u] = "legacy"
    BY <1>1 DEF ActionLockBusy, Start, Load, LoadNothing, LoadCorrupted, WithoutGame,
                LoadVersion, VersionMissing, Reject, CheckVersion, Exec,
                ExecRaises, GetCached, GetMisses, Change, WriteGame,
                WriteRaises, DeleteRest, Moves, Goto, TypeOK, Locked
  <2> QED
    BY <2>1, StaysLocked DEF LockedInv
<1>2. CASE \/ TakeActionLock(u) \/ TableLockBusy(u) \/ Release(u) \/ Play(u)
           \/ PlayRaises(u) \/ Cache(u) \/ Increment(u)
  <2>1. /\ UNCHANGED tableLock
        /\ pc'[u] \in Locked => pc[u] \in Locked
        /\ pc'[u] \in {"load", "version", "init", "play", "watch", "exec", "index"}
              => pc[u] \in {"load", "version", "init", "play", "watch", "exec"}
        /\ pc'[u] \in {"get_lock", "get", "change"} => Kind[u] = "legacy"
    BY <1>2 DEF TakeActionLock, TableLockBusy, Release, Play, PlayRaises,
                Cache, Increment, Goto, TypeOK, Locked
  <2> QED
    BY <2>1, StaysLocked DEF LockedInv
<1>3. CASE EnterToLoad(u) \/ EnterToGet(u) \/ EnterToSave(u) \/ EnterToDelete(u)
  <2>1. /\ tableLock[Lock[u]] = NoTask
        /\ tableLock' = [tableLock EXCEPT ![Lock[u]] = u]
        /\ pc'[u] \in {"load", "get", "write", "delete_version"}
        /\ pc'[u] = "load" => Kind[u] \in {"action", "bet", "seat"}
        /\ pc'[u] = "get" => pc[u] = "get_lock"
    BY <1>3 DEF EnterToLoad, EnterToGet, EnterToSave, EnterToDelete, Enter, Goto, TypeOK
  <2> QED
    BY <1>0, <2>1 DEF LockedInv, TypeOK
<1>4. CASE Unlock(u) \/ Get(u) \/ VersionChanged(u) \/ ExecAborts(u)
  <2>1. CASE ReleaseTable(u) /\ pc'[u] \in {"release", "idle", "lock"}
    <3>1. \A t \in Tasks \ {u} : tableLock[Lock[t]] = t => tableLock'[Lock[t]] = t
      BY <2>1 DEF ReleaseTable, TypeOK
    <3> QED
      BY <1>0, <2>1, <3>1 DEF LockedInv, Locked
  <2>2. CASE UNCHANGED tableLock /\ pc'[u] = "unlock" /\ pc[u] \in {"watch", "exec"}
    BY <2>2, StaysLocked DEF Locked
  <2> QED
    BY <1>4, <2>1, <2>2 DEF Unlock, Get, VersionChanged, ExecAborts, AfterConflict, Goto, TypeOK
<1> QED
  BY <1>1, <1>2, <1>3, <1>4 DEF Step

\* Only the requests that try again ever leave the play.
LEMMA StaysInPlay ==
    ASSUME TypeOK, LockedInv, NEW u \in Tasks, Step(u), NEW v \in Tasks,
           Kind[v] \notin {"bet", "seat"}, InPlay(v)
    PROVE  InPlay(v)'
<1>1. CASE v # u
  BY <1>1, StepGoes DEF InPlay
<1>2. CASE v = u
  <2> USE <1>2 DEF InPlay, Goto, TypeOK
  <2>1. CASE \/ ActionLockBusy(u) \/ Start(u) \/ Load(u) \/ LoadNothing(u)
             \/ LoadCorrupted(u) \/ LoadVersion(u) \/ VersionMissing(u) \/ Reject(u)
             \/ CheckVersion(u) \/ Exec(u) \/ ExecRaises(u) \/ GetCached(u)
             \/ GetMisses(u) \/ Change(u) \/ WriteGame(u) \/ WriteRaises(u)
             \/ DeleteRest(u)
    BY <2>1 DEF ActionLockBusy, Start, Load, LoadNothing, LoadCorrupted, WithoutGame,
                LoadVersion, VersionMissing, Reject, CheckVersion, Exec,
                ExecRaises, GetCached, GetMisses, Change, WriteGame,
                WriteRaises, DeleteRest, Moves
  <2>2. CASE \/ TakeActionLock(u) \/ EnterToLoad(u) \/ TableLockBusy(u) \/ Unlock(u)
             \/ Release(u) \/ Play(u) \/ PlayRaises(u) \/ Cache(u)
             \/ EnterToGet(u) \/ Get(u) \/ EnterToSave(u) \/ Increment(u)
             \/ EnterToDelete(u)
    BY <2>2 DEF TakeActionLock, EnterToLoad, TableLockBusy, Unlock, Release,
                Play, PlayRaises, Cache, EnterToGet, Get, EnterToSave,
                Increment, EnterToDelete, Enter
  <2>3. CASE VersionChanged(u) \/ ExecAborts(u)
    <3>1. Kind[u] = "action"
      BY <2>3 DEF VersionChanged, ExecAborts, LockedInv, Watch, Exec
    <3> QED
      BY <2>3, <3>1 DEF VersionChanged, ExecAborts, AfterConflict
  <2> QED
    BY <2>1, <2>2, <2>3 DEF Step
<1> QED
  BY <1>1, <1>2

\* A bet that has met a meddler keeps it.
LEMMA MeddlerStays ==
    ASSUME RetriesShareALock, TypeOK, LockedInv, NEW u \in Tasks, Step(u),
           NEW t \in Tasks, Kind[t] = "bet", Meddler(t)
    PROVE  Meddler(t)'
<1>1. PICK v \in Tasks : Lock[v] # Lock[t] /\ InPlay(v)
  BY DEF Meddler
<1>2. Kind[v] \notin {"bet", "seat"}
  BY <1>1 DEF RetriesShareALock
<1> QED
  BY <1>1, <1>2, StaysInPlay DEF Meddler

\* Who charges: the processor, once, for an action or a bet.
LEMMA StepPays ==
    ASSUME TypeOK, LockedInv, NEW u \in Tasks, Step(u)
    PROVE  \/ UNCHANGED paid
           \/ /\ pc[u] = "play" /\ pc'[u] \in {"watch", "unlock"}
              /\ Kind[u] \in {"action", "bet"}
              /\ paid' = [paid EXCEPT ![u] = @ + 1]
<1>1. CASE Play(u)
  BY <1>1 DEF Play, LockedInv, Goto, TypeOK
<1>2. CASE PlayRaises(u)
  BY <1>2 DEF PlayRaises, Goto, TypeOK
<1>3. CASE \/ ActionLockBusy(u) \/ Start(u) \/ Load(u) \/ LoadNothing(u)
           \/ LoadCorrupted(u) \/ LoadVersion(u) \/ VersionMissing(u) \/ Reject(u)
           \/ CheckVersion(u) \/ Exec(u) \/ ExecRaises(u) \/ GetCached(u)
           \/ GetMisses(u) \/ Change(u) \/ WriteGame(u) \/ WriteRaises(u)
           \/ DeleteRest(u)
  BY <1>3 DEF ActionLockBusy, Start, Load, LoadNothing, LoadCorrupted, WithoutGame,
              LoadVersion, VersionMissing, Reject, CheckVersion, Exec,
              ExecRaises, GetCached, GetMisses, Change, WriteGame,
              WriteRaises, DeleteRest, Moves
<1>4. CASE \/ TakeActionLock(u) \/ EnterToLoad(u) \/ TableLockBusy(u) \/ Unlock(u)
           \/ Release(u) \/ VersionChanged(u) \/ ExecAborts(u) \/ Cache(u)
           \/ EnterToGet(u) \/ Get(u) \/ EnterToSave(u) \/ Increment(u)
           \/ EnterToDelete(u)
  BY <1>4 DEF TakeActionLock, EnterToLoad, TableLockBusy, Unlock, Release,
              VersionChanged, ExecAborts, Cache, EnterToGet, Get,
              EnterToSave, Increment, EnterToDelete, Enter, AfterConflict
<1> QED
  BY <1>1, <1>2, <1>3, <1>4 DEF Step

\* A charged task comes to a new attempt only by a conflict, and a bet meets a
\* conflict only with a meddler about.
LEMMA StepAgain ==
    ASSUME TypeOK, LockedInv, CounterInv, NEW u \in Tasks, Step(u),
           Kind[u] = "action" \/ (Kind[u] = "bet" /\ ~Meddler(u)), pc'[u] \in Uncharged
    PROVE  pc[u] \in Uncharged
<1> USE DEF Uncharged, Goto, TypeOK
<1>1. CASE \/ ActionLockBusy(u) \/ Start(u) \/ Load(u) \/ LoadNothing(u)
           \/ LoadCorrupted(u) \/ LoadVersion(u) \/ VersionMissing(u) \/ Reject(u)
           \/ CheckVersion(u) \/ Exec(u) \/ ExecRaises(u) \/ GetCached(u)
           \/ GetMisses(u) \/ WriteGame(u) \/ WriteRaises(u) \/ DeleteRest(u)
  BY <1>1 DEF ActionLockBusy, Start, Load, LoadNothing, LoadCorrupted, WithoutGame,
              LoadVersion, VersionMissing, Reject, CheckVersion, Exec,
              ExecRaises, GetCached, GetMisses, WriteGame,
              WriteRaises, DeleteRest, Moves
<1>2. CASE \/ TakeActionLock(u) \/ EnterToLoad(u) \/ TableLockBusy(u) \/ Unlock(u)
           \/ Release(u) \/ Play(u) \/ PlayRaises(u) \/ Cache(u)
           \/ EnterToGet(u) \/ EnterToSave(u) \/ Increment(u) \/ EnterToDelete(u)
  BY <1>2 DEF TakeActionLock, EnterToLoad, TableLockBusy, Unlock, Release,
              Play, PlayRaises, Cache, EnterToGet, EnterToSave,
              Increment, EnterToDelete, Enter
<1>3. CASE Change(u) \/ Get(u)
  BY <1>3 DEF Change, Get, Moves, LockedInv
<1>4. CASE VersionChanged(u) \/ ExecAborts(u)
  <2>1. CASE Kind[u] = "action"
    BY <1>4, <2>1 DEF VersionChanged, ExecAborts, AfterConflict
  <2>2. CASE Kind[u] = "bet" /\ ~Meddler(u)
    BY <1>4, <2>2 DEF VersionChanged, ExecAborts, CounterInv, VersionConflict, WatchStands
  <2> QED
    BY <2>1, <2>2
<1> QED
  BY <1>1, <1>2, <1>3, <1>4 DEF Step

\* Charges stay counted.
LEMMA StepCharge ==
    ASSUME RetriesShareALock, TypeOK, LockedInv, CounterInv, ChargeInv,
           NEW u \in Tasks, Step(u)
    PROVE  ChargeInv'
<1> SUFFICES ASSUME NEW t \in Tasks
             PROVE  /\ Kind[t] \notin {"action", "bet"} => paid'[t] = 0
                    /\ (Kind[t] = "action" \/ ~Meddler(t)') =>
                          /\ paid'[t] <= 1
                          /\ pc'[t] \in Uncharged => paid'[t] = 0
  BY DEF ChargeInv
<1>1. CASE Kind[t] \notin {"action", "bet"}
  BY <1>1, StepPays DEF ChargeInv, TypeOK
<1>2. CASE Kind[t] = "action" \/ (Kind[t] = "bet" /\ ~Meddler(t)')
  <2>1. Kind[t] = "action" \/ (Kind[t] = "bet" /\ ~Meddler(t))
    BY <1>2, MeddlerStays
  <2>2. paid[t] \in Nat /\ paid[t] <= 1 /\ (pc[t] \in Uncharged => paid[t] = 0)
    BY <2>1 DEF ChargeInv, TypeOK
  <2>3. CASE t # u
    <3>1. pc'[t] = pc[t] /\ paid'[t] = paid[t]
      BY <2>3, StepGoes, StepPays DEF TypeOK
    <3> QED
      BY <1>2, <2>2, <3>1
  <2>4. CASE t = u /\ UNCHANGED paid
    <3>1. pc'[t] \in Uncharged => pc[t] \in Uncharged
      BY <2>1, <2>4, StepAgain
    <3> QED
      BY <1>2, <2>2, <2>4, <3>1
  <2>5. CASE t = u /\ pc[u] = "play" /\ pc'[u] \in {"watch", "unlock"}
             /\ paid' = [paid EXCEPT ![u] = @ + 1]
    <3>1. paid'[t] = paid[t] + 1 /\ paid[t] = 0 /\ pc'[t] \notin Uncharged
      BY <2>2, <2>5 DEF TypeOK, Uncharged
    <3> QED
      BY <1>2, <3>1
  <2> QED
    BY <2>3, <2>4, <2>5, StepPays
<1>3. CASE Kind[t] = "bet" /\ Meddler(t)'
  BY <1>3
<1> QED
  BY <1>1, <1>2, <1>3

\* Who moves the counter is in play and inside a table lock.
LEMMA StepCounts ==
    ASSUME TypeOK, NEW u \in Tasks, Step(u)
    PROVE  \/ version' = version /\ watching \subseteq watching'
           \/ pc[u] \in {"init", "absent_init", "exec", "incr", "delete_version"}
<1>1. CASE \/ VersionMissing(u) \/ Exec(u) \/ ExecRaises(u) \/ DeleteRest(u)
  BY <1>1 DEF VersionMissing, Exec, ExecRaises, DeleteRest, Moves
<1>2. CASE CheckVersion(u)
  BY <1>2 DEF CheckVersion, Watch
<1>3. CASE Increment(u)
  BY <1>3 DEF Increment
<1>4. CASE \/ ActionLockBusy(u) \/ Start(u) \/ Load(u) \/ LoadNothing(u)
           \/ LoadCorrupted(u) \/ LoadVersion(u) \/ Reject(u)
           \/ GetCached(u) \/ GetMisses(u) \/ Change(u) \/ WriteGame(u)
           \/ WriteRaises(u)
  BY <1>4 DEF ActionLockBusy, Start, Load, LoadNothing, LoadCorrupted, WithoutGame,
              LoadVersion, Reject, GetCached, GetMisses, Change, WriteGame,
              WriteRaises, ReadGame, ReadCorrupted, ReadNothing, NewGame, ReadVersion, ApplyTo,
              WriteSnapshot, tableVars, redisVars, localVars
<1>5. CASE \/ TakeActionLock(u) \/ EnterToLoad(u) \/ TableLockBusy(u) \/ Unlock(u)
           \/ Release(u) \/ Play(u) \/ PlayRaises(u) \/ VersionChanged(u)
           \/ ExecAborts(u) \/ Cache(u) \/ EnterToGet(u) \/ Get(u)
           \/ EnterToSave(u) \/ EnterToDelete(u)
  BY <1>5 DEF TakeActionLock, EnterToLoad, TableLockBusy, Unlock, Release,
              Play, PlayRaises, VersionChanged, ExecAborts, Cache,
              EnterToGet, Get, EnterToSave, EnterToDelete, ApplyTo,
              ApplyToLoaded, CacheLoaded, CacheHeld, LoadIntoCache,
              CreateInCache, DeleteSnapshot, tableVars, redisVars, localVars
<1> QED
  BY <1>1, <1>2, <1>3, <1>4, <1>5 DEF Step

\* What a task read changes by its own read only.
LEMMA StepReads ==
    ASSUME TypeOK, NEW u \in Tasks, Step(u)
    PROVE  LoadVersion(u) \/ UNCHANGED readVersion
<1>1. CASE \/ ActionLockBusy(u) \/ Start(u) \/ Load(u) \/ LoadNothing(u)
           \/ LoadCorrupted(u) \/ VersionMissing(u) \/ Reject(u)
           \/ CheckVersion(u) \/ Exec(u) \/ ExecRaises(u)
           \/ GetCached(u) \/ GetMisses(u) \/ Change(u) \/ WriteGame(u)
           \/ WriteRaises(u) \/ DeleteRest(u)
  BY <1>1 DEF ActionLockBusy, Start, Load, LoadNothing, LoadCorrupted, WithoutGame,
              VersionMissing, Reject, CheckVersion, Exec, ExecRaises,
              GetCached, GetMisses, Change, WriteGame, WriteRaises, DeleteRest,
              ReadGame, ReadCorrupted, ReadNothing, NewGame, InitVersion, Watch, ExecSave, ApplyTo,
              WriteSnapshot, DeleteVersion, tableVars, redisVars, localVars
<1>2. CASE \/ TakeActionLock(u) \/ EnterToLoad(u) \/ TableLockBusy(u) \/ Unlock(u)
           \/ Release(u) \/ Play(u) \/ PlayRaises(u) \/ VersionChanged(u)
           \/ ExecAborts(u) \/ Cache(u) \/ EnterToGet(u) \/ Get(u)
           \/ EnterToSave(u) \/ Increment(u) \/ EnterToDelete(u)
  BY <1>2 DEF TakeActionLock, EnterToLoad, TableLockBusy, Unlock, Release,
              Play, PlayRaises, VersionChanged, ExecAborts, Cache,
              EnterToGet, Get, EnterToSave, Increment, EnterToDelete, ApplyTo,
              ApplyToLoaded, CacheLoaded, CacheHeld, LoadIntoCache,
              CreateInCache, DeleteSnapshot, IncrementVersion, tableVars,
              redisVars, localVars
<1> QED
  BY <1>1, <1>2 DEF Step

\* A bet alone under its lock finds the counter where it read it.
LEMMA StepCounter ==
    ASSUME RetriesShareALock, TypeOK, LockedInv, CounterInv, NEW u \in Tasks, Step(u)
    PROVE  CounterInv'
<1> SUFFICES ASSUME NEW t \in Tasks
             PROVE  /\ pc'[t] = "init" => readVersion'[t] = 0
                    /\ (Kind[t] = "bet" /\ ~Meddler(t)') =>
                          /\ pc'[t] \in {"play", "watch"} => Version' = readVersion'[t]
                          /\ pc'[t] = "exec" => t \in watching'
  BY DEF CounterInv
<1>1. CASE t # u
  <2>1. pc'[t] = pc[t] /\ readVersion'[t] = readVersion[t]
    BY <1>1, StepGoes, StepReads DEF LoadVersion, ReadVersion, TypeOK, TableTypeOK
  <2>2. ASSUME Kind[t] = "bet", ~Meddler(t)', pc[t] \in {"play", "watch", "exec"}
        PROVE  version' = version /\ watching \subseteq watching'
    <3>1. ~Meddler(t)
      BY <2>2, MeddlerStays
    <3>2. SUFFICES ASSUME pc[u] \in {"init", "absent_init", "exec", "incr", "delete_version"} PROVE FALSE
      BY StepCounts
    <3>3. Lock[u] = Lock[t]
      BY <3>1, <3>2 DEF Meddler, InPlay
    <3> QED
      BY <1>1, <2>2, <3>2, <3>3 DEF LockedInv, Locked
  <2>3. ASSUME Kind[t] = "bet", ~Meddler(t)' PROVE ~Meddler(t)
    BY <2>3, MeddlerStays
  <2> QED
    BY <2>1, <2>2, <2>3 DEF CounterInv, Version
<1>2. CASE t = u
  <2> USE <1>2 DEF Goto, TypeOK
  <2>1. CASE LoadVersion(u)
    <3>1. /\ readVersion'[u] = Version /\ UNCHANGED <<version, watching>>
          /\ pc'[u] = "init" => version = NoVersion
          /\ pc'[u] \in {"init", "play", "absent_init", "unlock"}
      BY <2>1 DEF LoadVersion, ReadVersion, Moves, TableTypeOK, redisVars
    <3> QED
      BY <3>1 DEF Version
  <2>2. CASE VersionMissing(u)
    BY <2>2 DEF VersionMissing, InitVersion, SetVersion, Moves, localVars, CounterInv, Version
  <2>3. CASE Play(u)
    <3>1. pc[u] = "play" /\ pc'[u] = "watch" /\ UNCHANGED <<version, readVersion>>
      BY <2>3 DEF Play, ApplyToLoaded, ApplyTo, redisVars
    <3> QED
      BY <3>1, MeddlerStays DEF CounterInv, Version
  <2>4. CASE CheckVersion(u)
    BY <2>4 DEF CheckVersion, Watch, Moves
  <2>5. CASE \/ ActionLockBusy(u) \/ Start(u) \/ Load(u) \/ LoadNothing(u)
             \/ LoadCorrupted(u) \/ Reject(u) \/ Exec(u) \/ ExecRaises(u)
             \/ GetCached(u) \/ GetMisses(u) \/ Change(u) \/ WriteGame(u)
             \/ WriteRaises(u) \/ DeleteRest(u)
    BY <2>5 DEF ActionLockBusy, Start, Load, LoadNothing, LoadCorrupted, WithoutGame,
                Reject, Exec, ExecRaises, GetCached, GetMisses, Change,
                WriteGame, WriteRaises, DeleteRest, Moves
  <2>6. CASE \/ TakeActionLock(u) \/ EnterToLoad(u) \/ TableLockBusy(u) \/ Unlock(u)
             \/ Release(u) \/ PlayRaises(u) \/ VersionChanged(u)
             \/ ExecAborts(u) \/ Cache(u) \/ EnterToGet(u) \/ Get(u)
             \/ EnterToSave(u) \/ Increment(u) \/ EnterToDelete(u)
    BY <2>6 DEF TakeActionLock, EnterToLoad, TableLockBusy, Unlock, Release,
                PlayRaises, VersionChanged, ExecAborts, Cache, EnterToGet,
                Get, EnterToSave, Increment, EnterToDelete, Enter,
                AfterConflict
  <2> QED
    BY <2>1, <2>2, <2>3, <2>4, <2>5, <2>6 DEF Step
<1> QED
  BY <1>1, <1>2

\* process_bet charges a bet twice only if a task under the other lock changed the
\* table meanwhile: never because of the requests it shares its lock with.
THEOREM ChargedOnceUnderOneLock ==
    ASSUME RetriesShareALock
    PROVE  Spec => []ChargedTwiceAcrossLocks
<1> DEFINE ChargeIInv == LockedInv /\ CounterInv /\ ChargeInv
<1>1. Init => ChargeIInv
  BY DEF Init, TableInit, LockedInv, CounterInv, ChargeInv, Locked, Uncharged
<1>2. TypeOK /\ ChargeIInv /\ [Next]_vars => ChargeIInv'
  <2> SUFFICES ASSUME TypeOK, ChargeIInv, [Next]_vars PROVE ChargeIInv'
    OBVIOUS
  <2>1. ASSUME NEW t \in Tasks, Step(t) PROVE ChargeIInv'
    BY <2>1, StepLocked, StepCounter, StepCharge
  <2>2. ASSUME \/ UNCHANGED vars
               \/ \E b \in Buttons : ActionLockExpires(b)
        PROVE  ChargeIInv'
    <3>1. UNCHANGED <<pc, tableLock, paid, version, watching, readVersion>>
      BY <2>2 DEF ActionLockExpires, vars, actionVars, tableVars, redisVars, localVars
    <3> QED
      BY <3>1 DEF LockedInv, CounterInv, ChargeInv, Meddler, InPlay, Version
  <2> QED
    BY <2>1, <2>2 DEF Next
<1>3. TypeOK /\ ChargeIInv => ChargedTwiceAcrossLocks
  BY DEF ChargeInv, Meddler, ChargedTwiceAcrossLocks, TypeOK
<1> QED
  BY <1>1, <1>2, <1>3, TypeCorrect, PTL DEF Spec

-----------------------------------------------------------------------------
(* Acknowledged updates.                                                   *)

\* The locks of the code: table_write_lock and acquire_table_write_lock.
AtMostTwoLocks == \A k, l, m \in Locks : k = l \/ l = m \/ k = m

\* Nobody has begun to save the object that the process shares.
NoSharedSaves == \A t \in Tasks : ~InShared(t)

\* Between its read and its save a task has a copy of the game of its own.
HasCopy(t) == pc[t] \in {"version", "init", "play", "watch", "exec"}
Copy(t) == IF pc[t] \in {"watch", "exec"} THEN data[t] ELSE object[t]

\* The task's update is saved, whether it has said so or not.
Saved(u) == pc[u] = "index" \/ u \in acked

\* While an update is in the snapshot, it is in the copies under its own lock; once it
\* is lost, it is in no copy under the other lock, which alone could bring it back after
\* another task has read the game without it.
CopiesFollow(u, t) ==
    /\ Lock[t] = Lock[u] /\ u \in snapshot => u \in Copy(t)
    /\ Lock[t] # Lock[u] /\ u \notin snapshot => u \notin Copy(t)

KeptInv ==
    /\ \A t \in Tasks : pc[t] \in {"watch", "exec"} => t \in data[t]
    /\ \A t \in Tasks : pc[t] \notin {"write", "incr"}
    /\ \A u \in acked : pc[u] \in {"unlock", "release", "done"}
    /\ \A u, t \in Tasks : Saved(u) /\ HasCopy(t) /\ t # u => CopiesFollow(u, t)

\* A step that leaves the snapshot, the copies and the acknowledgements alone.
LEMMA KeptAside ==
    ASSUME TypeOK, KeptInv, NEW s \in Tasks, NEW p, Goto(s, p),
           UNCHANGED <<snapshot, object, data, acked>>,
           p \notin {"index", "write", "incr"},
           p \in {"version", "init", "play"} => pc[s] \in {"version", "init", "play"},
           p \in {"watch", "exec"} => pc[s] \in {"watch", "exec"},
           pc[s] \in {"unlock", "release", "done"} => p \in {"unlock", "release", "done"}
    PROVE  KeptInv'
<1>1. pc'[s] = p /\ \A t \in Tasks \ {s} : pc'[t] = pc[t]
  BY DEF Goto, TypeOK
<1>2. \A t \in Tasks : Saved(t)' => Saved(t)
  BY <1>1 DEF Saved
<1>3. \A t \in Tasks : HasCopy(t)' => HasCopy(t) /\ Copy(t)' = Copy(t)
  BY <1>1 DEF HasCopy, Copy
<1>4. \A u, t \in Tasks : Saved(u)' /\ HasCopy(t)' /\ t # u => CopiesFollow(u, t)'
  BY <1>2, <1>3 DEF KeptInv, CopiesFollow
<1>5. acked \subseteq Tasks
  BY DEF TypeOK
<1> QED
  BY <1>1, <1>4, <1>5 DEF KeptInv

\* A step of a task that comes to a copy, or changes its own.
LEMMA KeptByCopy ==
    ASSUME TypeOK, KeptInv, NEW s \in Tasks, NEW p \in {"version", "watch"}, Goto(s, p),
           UNCHANGED <<snapshot, acked>>, pc[s] \notin {"unlock", "release", "done"},
           \A t \in Tasks \ {s} : object'[t] = object[t] /\ data'[t] = data[t],
           p = "watch" => s \in data'[s],
           \A u \in Tasks \ {s} : Saved(u) => CopiesFollow(u, s)'
    PROVE  KeptInv'
<1>1. pc'[s] = p /\ \A t \in Tasks \ {s} : pc'[t] = pc[t]
  BY DEF Goto, TypeOK
<1>2. s \notin acked /\ acked \subseteq Tasks
  BY DEF TypeOK, KeptInv
<1>3. \A t \in Tasks : Saved(t)' => Saved(t) /\ t # s
  BY <1>1, <1>2 DEF Saved
<1>4. \A t \in Tasks \ {s} : HasCopy(t)' => HasCopy(t) /\ Copy(t)' = Copy(t)
  BY <1>1 DEF HasCopy, Copy
<1>5. \A u, t \in Tasks : Saved(u)' /\ HasCopy(t)' /\ t # u => CopiesFollow(u, t)'
  <2> SUFFICES ASSUME NEW u \in Tasks, NEW t \in Tasks, Saved(u)', HasCopy(t)', t # u
               PROVE  CopiesFollow(u, t)'
    OBVIOUS
  <2>1. CASE t = s
    BY <1>3, <2>1
  <2>2. CASE t # s
    BY <1>3, <1>4, <2>2 DEF KeptInv, CopiesFollow
  <2> QED
    BY <2>1, <2>2
<1>6. \A t \in Tasks : pc'[t] \in {"watch", "exec"} => t \in data'[t]
  BY <1>1 DEF KeptInv
<1> QED
  BY <1>1, <1>2, <1>5, <1>6 DEF KeptInv

\* Whoever holds a copy holds the lock, and so does whoever is about to say so.
LEMMA OneInside ==
    ASSUME LockedInv, NEW s \in Tasks, NEW t \in Tasks, Lock[s] = Lock[t],
           pc[s] \in Locked, pc[t] \in Locked
    PROVE  s = t
BY DEF LockedInv

\* A save brings back no update of the other lock and loses none of its own.
LEMMA SaveKeeps ==
    ASSUME AtMostTwoLocks, TypeOK, LockedInv, KeptInv, NEW s \in Tasks, pc[s] = "exec",
           ExecSave(s), NEW p \in {"index", "unlock"}, Goto(s, p), UNCHANGED acked
    PROVE  KeptInv'
<1>1. pc'[s] = p /\ \A t \in Tasks \ {s} : pc'[t] = pc[t]
  BY DEF Goto, TypeOK
<1>2. snapshot' = data[s] /\ UNCHANGED <<object, data>>
  BY DEF ExecSave, localVars
<1>3. s \notin acked /\ acked \subseteq Tasks /\ s \in data[s]
  BY DEF TypeOK, KeptInv
<1>4. HasCopy(s) /\ Copy(s) = data[s]
  BY DEF HasCopy, Copy
<1>5. \A t \in Tasks : HasCopy(t)' => HasCopy(t) /\ t # s /\ Copy(t)' = Copy(t) /\ Lock[t] # Lock[s]
  BY <1>1, <1>2, OneInside DEF HasCopy, Copy, Locked
<1>6. \A u, t \in Tasks : Saved(u)' /\ HasCopy(t)' /\ t # u => CopiesFollow(u, t)'
  <2> SUFFICES ASSUME NEW u \in Tasks, NEW t \in Tasks, Saved(u)', HasCopy(t)', t # u
               PROVE  CopiesFollow(u, t)'
    OBVIOUS
  <2>1. CASE u = s
    BY <1>2, <1>3, <1>5, <2>1 DEF CopiesFollow
  <2>2. CASE u # s
    <3>1. Saved(u)
      BY <1>1, <2>2 DEF Saved
    <3>2. CopiesFollow(u, s) /\ CopiesFollow(u, t)
      BY <1>4, <1>5, <2>2, <3>1 DEF KeptInv
    <3>3. Lock[u] # Lock[s] => Lock[t] = Lock[u]
      BY <1>5 DEF AtMostTwoLocks
    <3> QED
      BY <1>2, <1>4, <1>5, <3>2, <3>3 DEF CopiesFollow
  <2> QED
    BY <2>1, <2>2
<1>7. \A t \in Tasks : pc'[t] \in {"watch", "exec"} => t \in data'[t]
  BY <1>1, <1>2 DEF KeptInv
<1> QED
  BY <1>1, <1>3, <1>6, <1>7 DEF KeptInv

\* After a deletion nobody is acknowledged, and who is about to be is alone.
LEMMA DeletionKeeps ==
    ASSUME AtMostTwoLocks, TypeOK, LockedInv, KeptInv, NEW s \in Tasks, EnterToDelete(s)
    PROVE  KeptInv'
<1>1. pc[s] = "lock" /\ pc'[s] = "delete_version" /\ \A t \in Tasks \ {s} : pc'[t] = pc[t]
  BY DEF EnterToDelete, Enter, Goto, TypeOK
<1>2. /\ tableLock[Lock[s]] = NoTask /\ UNCHANGED <<object, data>>
      /\ snapshot' = NoGame /\ acked' = {}
  BY DEF EnterToDelete, Enter, DeleteSnapshot, localVars
<1>3. \A t \in Tasks : pc[t] \in Locked => Lock[t] # Lock[s]
  BY <1>2 DEF LockedInv
<1>4. \A u, t \in Tasks : ~(Saved(u)' /\ HasCopy(t)' /\ t # u)
  <2> SUFFICES ASSUME NEW u \in Tasks, NEW t \in Tasks, Saved(u)', HasCopy(t)', t # u
               PROVE  FALSE
    OBVIOUS
  <2>1. pc[u] \in Locked /\ pc[t] \in Locked
    BY <1>1, <1>2 DEF Saved, HasCopy, Locked
  <2>2. Lock[t] = Lock[u]
    BY <1>3, <2>1 DEF AtMostTwoLocks
  <2> QED
    BY <2>1, <2>2, OneInside
<1>5. \A t \in Tasks : pc'[t] \in {"watch", "exec"} => t \in data'[t]
  BY <1>1, <1>2 DEF KeptInv
<1> QED
  BY <1>1, <1>2, <1>4, <1>5 DEF KeptInv

\* Every step keeps what the locks promise to the acknowledged.
LEMMA StepKept ==
    ASSUME AtMostTwoLocks, NoSharedSaves, "corrupt" \notin Faults,
           TypeOK, LockedInv, KeptInv, NEW s \in Tasks, Step(s), NoSharedSaves'
    PROVE  KeptInv'
<1>1. CASE \/ ActionLockBusy(s) \/ Start(s) \/ LoadVersion(s) \/ VersionMissing(s)
           \/ Reject(s) \/ CheckVersion(s) \/ DeleteRest(s)
  <2>1. PICK p \in Places :
          /\ Goto(s, p) /\ UNCHANGED <<snapshot, object, data, acked>>
          /\ p \notin {"index", "write", "incr"}
          /\ p \in {"version", "init", "play"} => pc[s] \in {"version", "init", "play"}
          /\ p \in {"watch", "exec"} => pc[s] \in {"watch", "exec"}
          /\ pc[s] \notin {"unlock", "release", "done"}
    BY <1>1 DEF ActionLockBusy, Start, LoadVersion, VersionMissing, Reject,
                CheckVersion, DeleteRest, Moves, ReadVersion, InitVersion, Watch,
                DeleteVersion, tableVars, redisVars, localVars, Places
  <2> QED
    BY <2>1, KeptAside
<1>2. CASE \/ TakeActionLock(s) \/ EnterToLoad(s) \/ TableLockBusy(s) \/ Unlock(s)
           \/ Release(s) \/ PlayRaises(s) \/ VersionChanged(s) \/ ExecAborts(s)
  <2>1. PICK p \in Places :
          /\ Goto(s, p) /\ UNCHANGED <<snapshot, object, data, acked>>
          /\ p \notin {"index", "write", "incr", "version", "init", "play", "watch", "exec"}
          /\ pc[s] \in {"unlock", "release", "done"} => p \in {"unlock", "release", "done"}
    BY <1>2 DEF TakeActionLock, EnterToLoad, TableLockBusy, Unlock, Release,
                PlayRaises, VersionChanged, ExecAborts, Enter, AfterConflict,
                tableVars, redisVars, localVars, Places
  <2> QED
    BY <2>1, KeptAside
<1>3. CASE Load(s)
  <2>1. /\ pc[s] = "load" /\ Goto(s, "version") /\ UNCHANGED <<snapshot, acked, data>>
        /\ object' = [object EXCEPT ![s] = snapshot]
    BY <1>3 DEF Load, Moves, ReadGame, redisVars
  <2>2. pc'[s] = "version" /\ object'[s] = snapshot
    BY <2>1 DEF Goto, TypeOK, TableTypeOK
  <2>3. \A u \in Tasks \ {s} : CopiesFollow(u, s)'
    BY <2>1, <2>2 DEF CopiesFollow, Copy
  <2>4. \A t \in Tasks \ {s} : object'[t] = object[t] /\ data'[t] = data[t]
    BY <2>1 DEF TypeOK, TableTypeOK
  <2> QED
    BY <2>1, <2>3, <2>4, KeptByCopy
<1>4. CASE LoadNothing(s)
  <2>1. CASE Moves(s, "load", "absent") /\ UNCHANGED <<redisVars, localVars>>
    BY <2>1, KeptAside DEF Moves, redisVars, localVars
  <2>2. CASE /\ Moves(s, "load", "version") /\ snapshot = NoGame
             /\ object' = [object EXCEPT ![s] = {}] /\ UNCHANGED <<redisVars, data>>
    <3>1. pc'[s] = "version" /\ object'[s] = {} /\ UNCHANGED snapshot
      BY <2>2 DEF Moves, Goto, TypeOK, TableTypeOK, redisVars
    <3>2. \A u \in Tasks : u \notin snapshot
      BY <2>2
    <3>3. \A u \in Tasks \ {s} : CopiesFollow(u, s)'
      BY <3>1, <3>2 DEF CopiesFollow, Copy
    <3>4. \A t \in Tasks \ {s} : object'[t] = object[t] /\ data'[t] = data[t]
      BY <2>2 DEF TypeOK, TableTypeOK
    <3> QED
      BY <2>2, <3>1, <3>3, <3>4, KeptByCopy DEF Moves
  <2> QED
    BY <1>4, <2>1, <2>2 DEF LoadNothing, ReadNothing, WithoutGame, NewGame
<1>5. CASE Play(s)
  <2>1. /\ pc[s] = "play" /\ Goto(s, "watch") /\ UNCHANGED <<snapshot, acked>>
        /\ object' = [object EXCEPT ![s] = @ \cup {s}]
        /\ data' = [data EXCEPT ![s] = object[s] \cup {s}]
    BY <1>5 DEF Play, ApplyToLoaded, ApplyTo, redisVars
  <2>2. pc'[s] = "watch" /\ data'[s] = object[s] \cup {s}
    BY <2>1 DEF Goto, TypeOK, TableTypeOK
  <2>3. HasCopy(s) /\ Copy(s) = object[s] /\ Copy(s)' = object[s] \cup {s}
    BY <2>1, <2>2 DEF HasCopy, Copy
  <2>4. \A u \in Tasks \ {s} : Saved(u) => CopiesFollow(u, s)'
    BY <2>1, <2>3 DEF KeptInv, CopiesFollow
  <2>5. \A t \in Tasks \ {s} : object'[t] = object[t] /\ data'[t] = data[t]
    BY <2>1 DEF TypeOK, TableTypeOK
  <2> QED
    BY <2>1, <2>2, <2>4, <2>5, KeptByCopy
<1>6. CASE Exec(s)
  BY <1>6, SaveKeeps DEF Exec, Moves
<1>7. CASE ExecRaises(s)
  <2>1. CASE UNCHANGED tableVars
    BY <1>7, <2>1, KeptAside DEF ExecRaises, Moves, tableVars, redisVars, localVars
  <2>2. CASE ExecSave(s)
    BY <1>7, <2>2, SaveKeeps DEF ExecRaises, Moves
  <2> QED
    BY <1>7, <2>1, <2>2 DEF ExecRaises
<1>8. CASE Cache(s)
  <2>1. /\ pc[s] = "index" /\ pc'[s] = "unlock" /\ \A t \in Tasks \ {s} : pc'[t] = pc[t]
        /\ UNCHANGED <<snapshot, object, data>> /\ acked' = acked \cup {s}
    BY <1>8 DEF Cache, CacheLoaded, Goto, TypeOK, redisVars, localVars
  <2>2. \A u \in Tasks : Saved(u)' = Saved(u)
    BY <2>1 DEF Saved
  <2>3. \A t \in Tasks : HasCopy(t)' = HasCopy(t) /\ Copy(t)' = Copy(t)
    BY <2>1 DEF HasCopy, Copy
  <2>4. \A u, t \in Tasks : Saved(u)' /\ HasCopy(t)' /\ t # u => CopiesFollow(u, t)'
    BY <2>1, <2>2, <2>3 DEF KeptInv, CopiesFollow
  <2> QED
    BY <2>1, <2>4 DEF KeptInv, TypeOK
<1>9. CASE EnterToDelete(s)
  BY <1>9, DeletionKeeps
<1>10. CASE LoadCorrupted(s)
  BY <1>10 DEF LoadCorrupted, ReadCorrupted
<1>11. CASE GetMisses(s) \/ EnterToGet(s) \/ (Get(s) /\ UNCHANGED tableVars)
  <2>1. PICK p \in Places :
          /\ Goto(s, p) /\ UNCHANGED <<snapshot, object, data, acked>>
          /\ p \in {"idle", "get_lock", "get"}
          /\ pc[s] \notin {"unlock", "release", "done"}
    BY <1>11 DEF GetMisses, EnterToGet, Get, Enter, Moves, tableVars, redisVars, localVars, Places
  <2> QED
    BY <2>1, KeptAside
<1>12. CASE Get(s) /\ (LoadIntoCache(s) \/ CreateInCache(s))
  <2>1. /\ pc[s] = "get" /\ pc'[s] = "idle" /\ \A t \in Tasks \ {s} : pc'[t] = pc[t]
        /\ UNCHANGED <<data, acked>> /\ \A t \in Tasks \ {s} : object'[t] = object[t]
        /\ snapshot' = snapshot \/ (snapshot = NoGame /\ snapshot' = {})
    BY <1>12 DEF Get, LoadIntoCache, CreateInCache, Goto, TypeOK, TableTypeOK, redisVars
  <2>2. \A u \in Tasks : Saved(u)' => Saved(u)
    BY <2>1 DEF Saved
  <2>3. \A t \in Tasks : HasCopy(t)' => HasCopy(t) /\ Copy(t)' = Copy(t)
    BY <2>1 DEF HasCopy, Copy
  <2>4. \A u \in Tasks : u \in snapshot' <=> u \in snapshot
    BY <2>1
  <2>5. \A u, t \in Tasks : Saved(u)' /\ HasCopy(t)' /\ t # u => CopiesFollow(u, t)'
    BY <2>2, <2>3, <2>4 DEF KeptInv, CopiesFollow
  <2> QED
    BY <2>1, <2>5 DEF KeptInv, TypeOK
<1>13. CASE \/ GetCached(s) \/ Change(s) \/ EnterToSave(s) \/ WriteGame(s)
            \/ WriteRaises(s) \/ Increment(s)
  <2>1. Kind[s] = "legacy" => pc'[s] \in {"idle", "get_lock", "get"}
    BY DEF NoSharedSaves, InShared
  <2> QED
    BY <1>13, <2>1 DEF GetCached, Change, EnterToSave, WriteGame, WriteRaises,
                       Increment, Enter, Moves, Goto, LockedInv, KeptInv, TypeOK
<1> QED
  BY <1>1, <1>2, <1>3, <1>4, <1>5, <1>6, <1>7, <1>8, <1>9, <1>10, <1>11, <1>12, <1>13
  DEF Step, Get

\* Who works on the shared object has begun for good.
LEMMA SharedStays ==
    ASSUME TypeOK, LockedInv, NEW s \in Tasks, Step(s), NoSharedSaves'
    PROVE  NoSharedSaves
<1> SUFFICES ASSUME NEW t \in Tasks, InShared(t) PROVE InShared(t)'
  BY DEF NoSharedSaves
<1>1. CASE t # s
  BY <1>1, StepGoes DEF InShared
<1>2. CASE t = s
  <2> USE <1>2 DEF InShared, Goto, TypeOK
  <2>1. CASE \/ ActionLockBusy(s) \/ Start(s) \/ Load(s) \/ LoadNothing(s)
             \/ LoadCorrupted(s) \/ LoadVersion(s) \/ VersionMissing(s) \/ Reject(s)
             \/ CheckVersion(s) \/ Exec(s) \/ ExecRaises(s) \/ GetCached(s)
             \/ GetMisses(s) \/ Change(s) \/ WriteGame(s) \/ WriteRaises(s)
             \/ DeleteRest(s)
    BY <2>1 DEF ActionLockBusy, Start, Load, LoadNothing, LoadCorrupted, WithoutGame,
                LoadVersion, VersionMissing, Reject, CheckVersion, Exec,
                ExecRaises, GetCached, GetMisses, Change, WriteGame,
                WriteRaises, DeleteRest, Moves
  <2>2. CASE \/ TakeActionLock(s) \/ EnterToLoad(s) \/ TableLockBusy(s) \/ Unlock(s)
             \/ Release(s) \/ Play(s) \/ PlayRaises(s) \/ VersionChanged(s)
             \/ ExecAborts(s) \/ Cache(s) \/ EnterToGet(s) \/ Get(s)
             \/ EnterToSave(s) \/ Increment(s) \/ EnterToDelete(s)
    BY <2>2 DEF TakeActionLock, EnterToLoad, TableLockBusy, Unlock, Release,
                Play, PlayRaises, VersionChanged, ExecAborts, Cache,
                EnterToGet, Get, EnterToSave, Increment, EnterToDelete, Enter,
                AfterConflict
  <2> QED
    BY <2>1, <2>2 DEF Step
<1> QED
  BY <1>1, <1>2

\* A task before its EXEC changes the snapshot by its transaction only.
LEMMA OnlyExecSaves ==
    ASSUME TypeOK, NEW t \in Tasks, Step(t), pc[t] = "exec", snapshot' # snapshot
    PROVE  snapshot' = data[t]
<1>1. Exec(t) \/ ExecRaises(t) \/ ExecAborts(t)
  <2>1. ASSUME \/ TakeActionLock(t) \/ ActionLockBusy(t) \/ Start(t) \/ EnterToLoad(t)
               \/ TableLockBusy(t) \/ Unlock(t) \/ Release(t) \/ Load(t)
               \/ LoadNothing(t) \/ LoadCorrupted(t) \/ LoadVersion(t)
               \/ VersionMissing(t) \/ Reject(t) \/ Play(t) \/ PlayRaises(t)
               \/ CheckVersion(t) \/ VersionChanged(t)
        PROVE  FALSE
    BY <2>1 DEF TakeActionLock, ActionLockBusy, Start, EnterToLoad, TableLockBusy, Unlock,
                Release, Load, LoadNothing, LoadCorrupted, WithoutGame, LoadVersion, VersionMissing,
                Reject, Play, PlayRaises, CheckVersion, VersionChanged, Enter, Moves
  <2>2. ASSUME \/ Cache(t) \/ GetCached(t) \/ GetMisses(t) \/ EnterToGet(t) \/ Get(t)
               \/ Change(t) \/ EnterToSave(t) \/ WriteGame(t) \/ WriteRaises(t)
               \/ Increment(t) \/ EnterToDelete(t) \/ DeleteRest(t)
        PROVE  FALSE
    BY <2>2 DEF Cache, GetCached, GetMisses, EnterToGet, Get, Change, EnterToSave,
                WriteGame, WriteRaises, Increment, EnterToDelete, DeleteRest, Enter, Moves
  <2> QED
    BY <2>1, <2>2 DEF Step
<1> QED
  BY <1>1 DEF Exec, ExecRaises, ExecAborts, ExecSave, tableVars, redisVars

\* Under two locks, with snapshots that can be read, and until somebody saves without
\* a version, no versioned save undoes what a task under its lock has reported as done,
\* although tasks under the other lock, deletions and get_game may come in between
\* (save_game_with_version_check).
THEOREM AcknowledgedIsKept ==
    ASSUME AtMostTwoLocks, "corrupt" \notin Faults
    PROVE  Spec => NotLostUnderLock
<1> DEFINE KeptIInv == LockedInv /\ (NoSharedSaves => KeptInv)
<1>1. Init => KeptIInv
  BY DEF Init, TableInit, LockedInv, KeptInv, Locked, HasCopy
<1>2. TypeOK /\ KeptIInv /\ [Next]_vars => KeptIInv'
  <2> SUFFICES ASSUME TypeOK, KeptIInv, [Next]_vars PROVE KeptIInv'
    OBVIOUS
  <2>1. ASSUME NEW t \in Tasks, Step(t) PROVE KeptIInv'
    BY <2>1, StepLocked, StepKept, SharedStays
  <2>2. ASSUME UNCHANGED vars \/ \E b \in Buttons : ActionLockExpires(b)
        PROVE  KeptIInv'
    <3>1. UNCHANGED <<pc, tableLock, snapshot, object, data, acked>>
      BY <2>2 DEF ActionLockExpires, vars, actionVars, tableVars, redisVars, localVars
    <3> QED
      BY <3>1 DEF LockedInv, NoSharedSaves, InShared, KeptInv, Saved, HasCopy, CopiesFollow, Copy
  <2> QED
    BY <2>1, <2>2 DEF Next
<1>3. TypeOK /\ KeptIInv /\ [Next]_vars => [(\E t \in Tasks : InShared(t)) \/ KeepsAcknowledged]_vars
  <2> SUFFICES ASSUME TypeOK, KeptInv, Next, NEW t \in Versioned, NEW u \in Versioned,
                      pc[t] = "exec", snapshot' # snapshot, pc'[t] # "exec",
                      Lock[t] = Lock[u], u \in acked, u \in snapshot
               PROVE  u \in snapshot'
    BY DEF KeepsAcknowledged, NoSharedSaves
  <2>1. t \in Tasks /\ u \in Tasks
    BY DEF Versioned
  <2>2. PICK s \in Tasks : Step(s)
    BY DEF Next, ActionLockExpires, tableVars, redisVars
  <2>3. s = t
    BY <2>1, <2>2, StepGoes
  <2>4. snapshot' = data[t]
    BY <2>2, <2>3, OnlyExecSaves
  <2>5. u # t /\ HasCopy(t) /\ Copy(t) = data[t] /\ Saved(u)
    BY <2>1 DEF KeptInv, HasCopy, Copy, Saved
  <2>6. CopiesFollow(u, t)
    BY <2>1, <2>5 DEF KeptInv
  <2> QED
    BY <2>4, <2>5, <2>6 DEF CopiesFollow
<1> QED
  BY <1>1, <1>2, <1>3, TypeCorrect, PTL DEF Spec, NotLostUnderLock
=============================================================================
