------------------------------ MODULE MCShared ------------------------------
(* The components whose callers share state across awaits, one at a time:   *)
(* LockManager's keyed locks, the engine's dict-state actions, the private  *)
(* match queue, message edits, statistics, the saved table, button presses, *)
(* role anchors.                                                             *)
EXTENDS MCKeyedLocks, EngineActions, PrivateMatch, MessageEdits, Statistics,
        SavedTable, ButtonPresses, RoleAnchors

CONSTANTS c1, c2, c3

VARIABLE focus  \* the component a behaviour is about

\* Two contents with one text and different markup.
MCText(c) == IF c = c3 THEN c1 ELSE c

allVars == <<lockVars, engineVars, matchVars, editVars, statsVars, savedVars, pressVars, anchorVars>>
MCvars == <<allVars, focus>>

\* Two tasks wait for each other across two levels after five acquisitions, two more
\* than the locks' instance has, three of them nested; on the way nothing matters but
\* asking, waiting and leaving.
Circles == INSTANCE LockManager WITH MaxOps <- 5, MaxDepth <- 3

AskAndWait(t) ==
    \/ \E k \in Keys, o \in Objs : Circles!BeginFast(t, k, o)
    \/ Circles!FastAcquire(t)
    \/ \E o \in Objs : Circles!SlowRefused(t, o) \/ Circles!BeginSlow(t, o)
    \/ Circles!SlowAcquire(t) \/ Circles!SlowTimeout(t) \/ Circles!SlowFail(t) \/ Circles!Release(t)
    \/ \E s \in Batches : Circles!StartBatch(t, s)

MCInit ==
    /\ focus \in {"locks", "circles", "engine", "match", "edits", "statistics", "table", "guard", "token", "painters", "seats"}
    /\ LockInit /\ EngineInit /\ MatchInit /\ EditsInit(c1)
    /\ StatsInit /\ SavedInit /\ PressInit
    /\ AnchorsInit(IF focus = "seats" THEN Players ELSE {1})

InLocks == focus = "locks" /\ UNCHANGED <<engineVars, matchVars, editVars, statsVars, savedVars, pressVars, anchorVars>>
InCircles == focus = "circles" /\ UNCHANGED <<engineVars, matchVars, editVars, statsVars, savedVars, pressVars, anchorVars>>
InEngine == focus = "engine" /\ UNCHANGED <<lockVars, matchVars, editVars, statsVars, savedVars, pressVars, anchorVars>>
\* Two requests of the match queue are under way at once, and meet a failure or an expiry.
InMatch ==
    /\ UNCHANGED <<lockVars, engineVars, editVars, statsVars, savedVars, pressVars, anchorVars>>
    /\ Cardinality(UnderWay') <= 2 /\ failures' + expiries' <= 1
InEdits == focus = "edits" /\ UNCHANGED <<lockVars, engineVars, matchVars, statsVars, savedVars, pressVars, anchorVars>>
InStatistics == focus = "statistics" /\ UNCHANGED <<lockVars, engineVars, matchVars, editVars, savedVars, pressVars, anchorVars>>
\* The mishaps of a table and the joins under way share a bound; once a copy was
\* written late or a hand unseated nothing is promised, and only a start goes on.
InTable ==
    /\ focus = "table" /\ UNCHANGED <<lockVars, engineVars, matchVars, editVars, statsVars, pressVars, anchorVars>>
    /\ ~lateJoin /\ ~staleWrite /\ (emptied => start.at # "idle")
    /\ saves' + jobs' + crashes' + Cardinality(failed')
         + Cardinality({j \in Joiners : join'[j].at # "idle"}) <= 3
\* Two of the presses are being handled at once.
InGuard ==
    /\ UNCHANGED <<lockVars, engineVars, matchVars, editVars, statsVars, savedVars, anchorVars>>
    /\ Cardinality({p \in Presses : press'[p].pc \notin {"idle", "over"}}) <= 2
InToken == focus = "token" /\ UNCHANGED <<lockVars, engineVars, matchVars, editVars, statsVars, savedVars, anchorVars>>
\* Two calls on the anchor of one player, or one call at a time on those of two; the
\* game's moves and the failures share a bound.
InPainters ==
    /\ focus = "painters" /\ UNCHANGED <<lockVars, engineVars, matchVars, editVars, statsVars, savedVars, pressVars>>
    /\ round'.seated \subseteq {1} /\ gameMoves' + misses' <= MaxGameMoves
InSeats ==
    /\ focus = "seats" /\ UNCHANGED <<lockVars, engineVars, matchVars, editVars, statsVars, savedVars, pressVars>>
    /\ gameMoves' + misses' < MaxGameMoves /\ Cardinality({t \in Painters : tasks'[t].at # "idle"}) <= 1

MCNext ==
    /\ UNCHANGED focus
    /\ \/ InLocks /\ LockNext
       \/ InCircles /\ \E t \in Callers : AskAndWait(t)
       \/ InEngine /\ EngineNext
       \/ focus = "match" /\ MatchNext /\ InMatch
       \/ InEdits /\ EditsNext
       \/ InStatistics /\ StatsNext
       \/ focus = "table" /\ SavedNext /\ InTable
       \/ focus = "guard" /\ GuardNext /\ InGuard
       \/ InToken /\ TokenStep
       \/ focus \in {"painters", "seats"} /\ AnchorsNext /\ (InPainters \/ InSeats)

MCSpec == MCInit /\ [][MCNext]_MCvars

\* The component at work keeps its types.
TypesOK ==
    /\ focus = "locks" => LockTypeOK
    /\ focus = "circles" => Circles!LockTypeOK
    /\ focus = "engine" => EngineTypeOK
    /\ focus = "match" => MatchTypeOK
    /\ focus = "edits" => EditsTypeOK
    /\ focus = "statistics" => StatsTypeOK
    /\ focus = "table" => SavedTypeOK
    /\ focus \in {"guard", "token"} => PressTypeOK
    /\ focus \in {"painters", "seats"} => AnchorsTypeOK
=============================================================================
