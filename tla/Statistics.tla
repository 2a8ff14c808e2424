------------------------------ MODULE Statistics ------------------------------
(***************************************************************************)
(* The statistics of one player: finished hands are put in an in-memory     *)
(* buffer (stats/buffer.py), flushed by a timer, by the caller that fills   *)
(* it or at shutdown, and written hand by hand (stats/service.py); reports  *)
(* are read through a shared Redis cache and a local cache with a Redis     *)
(* copy (player_identity_manager.py, utils/cache.py).                       *)
(*                                                                         *)
(* A report is the set of the hands whose history rows it was built from.   *)
(* A hand belongs to a group chat; the player reads in a private chat, and  *)
(* the local cache is keyed by chat as well as by player.                   *)
(***************************************************************************)
EXTENDS Integers, Sequences, FiniteSets, SequencesExt

CONSTANTS Hands, Timer, Closer,   \* who may flush: a hand's caller, the timer, close()
          Readers,                \* requests for the report
          MaxSize, BatchRetries,    \* stats_batch_buffer configuration
          MaxMishaps,              \* bound: failed writes, failed batches, crashes
          MaxReads,               \* bound: requests for the report
          NoReport

ASSUME StatisticsAssumption ==
  /\ Timer \notin Hands /\ Closer \notin Hands \cup {Timer}
  /\ MaxSize \in Nat \ {0} /\ BatchRetries \in Nat

VARIABLES finished,   \* where the report of each finished hand stands
          added,      \* the hands in the order their records were buffered
          buffer,     \* StatsBatchBuffer._buffer
          flusher,      \* each flush: where it is, its batch, payloads done, attempts
          service,    \* StatsService: open, closing, closed
          counted,    \* how often the player's totals include a hand
          rows,       \* hands with PlayerHandHistory rows
          applied,    \* the hands in the order they were first counted
          memory,     \* AdaptivePlayerReportCache._cache, under the private chat's key
          stored,     \* its copy in Redis
          shared,     \* the shared PlayerReportCache in Redis
          reader,     \* each request: where it is and the report it carries
          reads, mishaps,
          redone, lost, reordered   \* history: recounted by a cancel, given up, flushes at once

sinkVars == <<added, buffer, flusher, service, counted, rows, applied, redone, lost, reordered>>
cacheVars == <<memory, stored, shared>>
readVars == <<reader, reads>>
statsVars == <<finished, sinkVars, cacheVars, readVars, mishaps>>

Flushers == Hands \cup {Timer, Closer}
Rest == [at |-> "idle", batch |-> <<>>, done |-> 0, tries |-> 0]

StatsInit ==
  /\ finished = [h \in Hands |-> "none"] /\ added = <<>> /\ buffer = <<>>
  /\ flusher = [f \in Flushers |-> Rest] /\ service = "open"
  /\ counted = [h \in Hands |-> 0] /\ rows = {} /\ applied = <<>>
  /\ memory = NoReport /\ stored = NoReport /\ shared = NoReport
  /\ reader = [r \in Readers |-> [at |-> "idle", report |-> {}]]
  /\ reads = 0 /\ mishaps = 0
  /\ redone = {} /\ lost = {} /\ reordered = FALSE

FlushUnderWay == {f \in Flushers : flusher[f].at # "idle"}

(***************************************************************************)
(* Recording a hand                                                        *)
(***************************************************************************)
\* StatsReporter.invalidate_players: the shared report goes; the local entry that
\* goes is that of the hand's chat, which is not the one a private chat reads.
Invalidate == shared' = NoReport /\ UNCHANGED <<memory, stored>>

\* hand_finished_deferred, record_hand_finished_batch, add: the record is buffered,
\* and a buffer that is full is flushed by this caller. Once the service is closed
\* there is no buffer and the caller writes the record itself.
Record(h) ==
  /\ finished[h] = "none"
  /\ IF service = "closed"
     THEN /\ flusher' = [flusher EXCEPT ![h] = [Rest EXCEPT !.at = "direct", !.batch = <<h>>]]
          /\ finished' = [finished EXCEPT ![h] = "flushing"]
          /\ reordered' = (reordered \/ buffer # <<>> \/ FlushUnderWay # {})
          /\ UNCHANGED buffer
     ELSE /\ buffer' = Append(buffer, h)
          /\ finished' = [finished EXCEPT ![h] = IF Len(buffer') >= MaxSize THEN "full" ELSE "added"]
          /\ UNCHANGED <<flusher, reordered>>
  /\ added' = Append(added, h)
  /\ UNCHANGED <<service, counted, rows, applied, redone, lost, cacheVars, readVars, mishaps>>

\* The end of hand_finished_deferred, after the record and the flush it caused.
Reported(h) ==
  /\ finished[h] = "added" \/ (finished[h] = "flushing" /\ flusher[h].at = "idle")
  /\ finished' = [finished EXCEPT ![h] = "reported"]
  /\ Invalidate
  /\ UNCHANGED <<sinkVars, readVars, mishaps>>

(***************************************************************************)
(* StatsBatchBuffer                                                        *)
(***************************************************************************)
\* Mutant of MayFlush: the timer is not started.
MayFlushFull(f) ==
  /\ flusher[f].at = "idle"
  /\ \/ f = Closer /\ service = "closing"
     \/ f \in Hands /\ finished[f] = "full"

MayFlush(f) ==
  /\ flusher[f].at = "idle"
  /\ \/ f = Timer /\ service = "open" /\ added # <<>>
     \/ f = Closer /\ service = "closing"
     \/ f \in Hands /\ finished[f] = "full"

\* Mutant of Take: the records stay in the buffer.
TakeCopy(f) ==
  /\ MayFlush(f)
  /\ buffer # <<>>
  /\ flusher' = [flusher EXCEPT ![f] = [Rest EXCEPT !.at = "writing", !.batch = buffer]]
  /\ reordered' = (reordered \/ FlushUnderWay # {})
  /\ finished' = IF f \in Hands THEN [finished EXCEPT ![f] = "flushing"] ELSE finished
  /\ UNCHANGED <<added, buffer, service, counted, rows, applied, redone, lost, cacheVars, readVars, mishaps>>

\* _flush: take all that is buffered.
Take(f) ==
  /\ MayFlush(f)
  /\ buffer # <<>>
  /\ flusher' = [flusher EXCEPT ![f] = [Rest EXCEPT !.at = "writing", !.batch = buffer]]
  /\ buffer' = <<>>
  /\ reordered' = (reordered \/ FlushUnderWay # {})
  /\ finished' = IF f \in Hands THEN [finished EXCEPT ![f] = "flushing"] ELSE finished
  /\ UNCHANGED <<added, service, counted, rows, applied, redone, lost, cacheVars, readVars, mishaps>>

\* A caller that finds the buffer already emptied by another flush.
NothingLeft(h) ==
  /\ finished[h] = "full" /\ buffer = <<>>
  /\ finished' = [finished EXCEPT ![h] = "added"]
  /\ UNCHANGED <<sinkVars, cacheVars, readVars, mishaps>>

Current(f) == flusher[f].batch[flusher[f].done + 1]
Writing(f) == flusher[f].at \in {"writing", "direct"} /\ flusher[f].done < Len(flusher[f].batch)

\* _process_hand_finished_batch commits: the hand's history rows are replaced,
\* the player's totals grow, the local entry of the hand's chat is dropped.
Commit(f) ==
  /\ Writing(f)
  /\ LET h == Current(f) IN
       /\ counted' = [counted EXCEPT ![h] = @ + 1]
       /\ rows' = rows \cup {h}
       /\ applied' = IF h \in rows THEN applied ELSE Append(applied, h)
  /\ flusher' = [flusher EXCEPT ![f].done = @ + 1]
  /\ UNCHANGED <<finished, added, buffer, service, redone, lost, reordered, cacheVars, readVars, mishaps>>

\* Its exception is logged by _flush_hand_batch_records, which goes on.
CommitFails(f) ==
  /\ Writing(f) /\ mishaps < MaxMishaps
  /\ lost' = lost \cup {Current(f)}
  /\ flusher' = [flusher EXCEPT ![f].done = @ + 1]
  /\ mishaps' = mishaps + 1
  /\ UNCHANGED <<finished, added, buffer, service, counted, rows, applied, redone, reordered, cacheVars, readVars>>

\* Mutants of BatchFails: one try more than configured; a batch that was written
\* in part is tried again from its start.
BatchFailsOnceMore(f) ==
  /\ flusher[f].at = "writing" /\ flusher[f].done = 0 /\ mishaps < MaxMishaps
  /\ IF flusher[f].tries <= BatchRetries
     THEN flusher' = [flusher EXCEPT ![f].at = "backoff", ![f].tries = @ + 1] /\ UNCHANGED buffer
     ELSE flusher' = [flusher EXCEPT ![f] = Rest] /\ buffer' = flusher[f].batch \o buffer
  /\ service' = IF f = Closer /\ flusher[f].tries > BatchRetries THEN "closed" ELSE service
  /\ mishaps' = mishaps + 1
  /\ UNCHANGED <<finished, added, counted, rows, applied, redone, lost, reordered, cacheVars, readVars>>

BatchFailsInPart(f) ==
  /\ flusher[f].at = "writing" /\ mishaps < MaxMishaps
  /\ IF flusher[f].tries < BatchRetries
     THEN /\ flusher' = [flusher EXCEPT ![f].at = "backoff", ![f].tries = @ + 1, ![f].done = 0]
          /\ UNCHANGED buffer
     ELSE flusher' = [flusher EXCEPT ![f] = Rest] /\ buffer' = flusher[f].batch \o buffer
  /\ service' = IF f = Closer /\ flusher[f].tries >= BatchRetries THEN "closed" ELSE service
  /\ mishaps' = mishaps + 1
  /\ UNCHANGED <<finished, added, counted, rows, applied, redone, lost, reordered, cacheVars, readVars>>

\* The callback itself raises: back off and try the batch again, or put it back
\* in front of what was buffered meanwhile.
BatchFails(f) ==
  /\ flusher[f].at = "writing" /\ flusher[f].done = 0 /\ mishaps < MaxMishaps
  /\ IF flusher[f].tries < BatchRetries
     THEN flusher' = [flusher EXCEPT ![f].at = "backoff", ![f].tries = @ + 1] /\ UNCHANGED buffer
     ELSE flusher' = [flusher EXCEPT ![f] = Rest] /\ buffer' = flusher[f].batch \o buffer
  /\ service' = IF f = Closer /\ flusher[f].tries >= BatchRetries THEN "closed" ELSE service
  /\ mishaps' = mishaps + 1
  /\ UNCHANGED <<finished, added, counted, rows, applied, redone, lost, reordered, cacheVars, readVars>>

Retry(f) ==
  /\ flusher[f].at = "backoff"
  /\ flusher' = [flusher EXCEPT ![f].at = "writing"]
  /\ UNCHANGED <<finished, added, buffer, service, counted, rows, applied, redone, lost, reordered, cacheVars, readVars, mishaps>>

Flushed(f) ==
  /\ f # Closer /\ flusher[f].at # "idle" /\ flusher[f].done = Len(flusher[f].batch)
  /\ flusher' = [flusher EXCEPT ![f] = Rest]
  /\ UNCHANGED <<finished, added, buffer, service, counted, rows, applied, redone, lost, reordered, cacheVars, readVars, mishaps>>

\* Mutant of BeginClose: the batch goes behind what was buffered meanwhile.
CloseBehind ==
  /\ service = "open"
  /\ service' = "closing"
  /\ buffer' = buffer \o flusher[Timer].batch
  /\ redone' = redone \cup ToSet(SubSeq(flusher[Timer].batch, 1, flusher[Timer].done))
  /\ flusher' = [flusher EXCEPT ![Timer] = Rest]
  /\ UNCHANGED <<finished, added, counted, rows, applied, lost, reordered, cacheVars, readVars, mishaps>>

\* StatsService.close, StatsBatchBuffer.shutdown: the timer's task is cancelled;
\* a batch it is writing goes back whole, with the hands already committed.
BeginClose ==
  /\ service = "open"
  /\ service' = "closing"
  /\ buffer' = flusher[Timer].batch \o buffer
  /\ redone' = redone \cup ToSet(SubSeq(flusher[Timer].batch, 1, flusher[Timer].done))
  /\ flusher' = [flusher EXCEPT ![Timer] = Rest]
  /\ UNCHANGED <<finished, added, counted, rows, applied, lost, reordered, cacheVars, readVars, mishaps>>

\* The last flush is over (or had nothing to take): the service lets the buffer
\* go. What was added to it meanwhile stays there, unless its caller is flushing.
EndClose ==
  /\ service = "closing"
  /\ flusher[Closer].at = "idle" => buffer = <<>>
  /\ flusher[Closer].at # "idle" => flusher[Closer].done = Len(flusher[Closer].batch)
  /\ service' = "closed"
  /\ flusher' = [flusher EXCEPT ![Closer] = Rest]
  /\ UNCHANGED <<finished, added, buffer, counted, rows, applied, redone, lost, reordered, cacheVars, readVars, mishaps>>

\* The process dies and starts again: the database and Redis remain.
Crash ==
  /\ mishaps < MaxMishaps
  /\ mishaps' = mishaps + 1
  /\ lost' = lost \cup ToSet(buffer)
               \cup UNION {ToSet(SubSeq(flusher[f].batch, flusher[f].done + 1, Len(flusher[f].batch))) : f \in Flushers}
  /\ buffer' = <<>> /\ flusher' = [f \in Flushers |-> Rest] /\ service' = "open"
  /\ finished' = [h \in Hands |-> IF finished[h] = "none" THEN "none" ELSE "reported"]
  /\ memory' = NoReport /\ reader' = [r \in Readers |-> [at |-> "idle", report |-> {}]]
  /\ UNCHANGED <<added, counted, rows, applied, redone, reordered, stored, shared, reads>>

(***************************************************************************)
(* Reading the report: send_statistics_report                               *)
(***************************************************************************)
KeyLocked == \E r \in Readers : reader[r].at = "keeping"
Carry(r, at, report) == reader' = [reader EXCEPT ![r] = [at |-> at, report |-> report]]

\* The shared cache answers, or the request goes on to the local one.
AskReport(r) ==
  /\ reader[r].at = "idle" /\ reads < MaxReads
  /\ reads' = reads + 1
  /\ IF shared # NoReport THEN Carry(r, "idle", shared) ELSE Carry(r, "asking", {})
  /\ UNCHANGED <<finished, sinkVars, cacheVars, mishaps>>

\* get_with_context under the key's lock: the memory, the copy in Redis (which
\* then lives in memory for a whole period again), or the database.
Lookup(r) ==
  /\ reader[r].at = "asking" /\ ~KeyLocked
  /\ \/ memory # NoReport /\ Carry(r, "sharing", memory) /\ UNCHANGED memory
     \/ memory = NoReport /\ stored # NoReport /\ Carry(r, "sharing", stored) /\ memory' = stored
     \/ memory = NoReport /\ stored = NoReport /\ Carry(r, "keeping", rows) /\ UNCHANGED memory
  /\ UNCHANGED <<finished, sinkVars, stored, shared, reads, mishaps>>

\* The loaded report is kept in memory and copied to Redis.
Keep(r) ==
  /\ reader[r].at = "keeping"
  /\ memory' = reader[r].report /\ stored' = reader[r].report
  /\ Carry(r, "sharing", reader[r].report)
  /\ UNCHANGED <<finished, sinkVars, shared, reads, mishaps>>

\* The formatted report goes into the shared cache and to the player, unless the
\* player has no hand to report.
Share(r) ==
  /\ reader[r].at = "sharing"
  /\ shared' = IF reader[r].report = {} THEN shared ELSE reader[r].report
  /\ Carry(r, "idle", reader[r].report)
  /\ UNCHANGED <<finished, sinkVars, memory, stored, reads, mishaps>>

\* The caches' times to live.
ExpireMemory == /\ memory # NoReport /\ memory' = NoReport
                /\ UNCHANGED <<finished, sinkVars, stored, shared, readVars, mishaps>>
ExpireStored == /\ stored # NoReport /\ stored' = NoReport
                /\ UNCHANGED <<finished, sinkVars, memory, shared, readVars, mishaps>>
ExpireShared == /\ shared # NoReport /\ shared' = NoReport
                /\ UNCHANGED <<finished, sinkVars, memory, stored, readVars, mishaps>>

StatsStep(f) == Take(f) \/ Commit(f) \/ Retry(f) \/ Flushed(f)

CountHands ==
  \/ \E h \in Hands : Record(h) \/ Reported(h) \/ NothingLeft(h)
  \/ \E f \in Flushers : StatsStep(f) \/ CommitFails(f) \/ BatchFails(f)
  \/ BeginClose \/ EndClose \/ Crash

ReadReports ==
  \/ \E r \in Readers : AskReport(r) \/ Lookup(r) \/ Keep(r) \/ Share(r)
  \/ ExpireMemory \/ ExpireStored \/ ExpireShared

StatsNext == CountHands \/ ReadReports

StatsSpec == StatsInit /\ [][StatsNext]_statsVars

(***************************************************************************)
(* Properties                                                              *)
(***************************************************************************)
\* Types: every variable stays within its domain.
StatsTypeOK ==
  /\ finished \in [Hands -> {"none", "added", "full", "flushing", "reported"}]
  /\ added \in Seq(Hands) /\ buffer \in Seq(Hands) /\ applied \in Seq(Hands)
  /\ \A f \in Flushers : /\ flusher[f].at \in {"idle", "writing", "direct", "backoff"}
                         /\ flusher[f].batch \in Seq(Hands)
                         /\ flusher[f].done \in 0..Len(flusher[f].batch)
                         /\ flusher[f].tries \in 0..BatchRetries
  /\ service \in {"open", "closing", "closed"} /\ counted \in [Hands -> Nat]
  /\ rows \cup redone \cup lost \subseteq Hands /\ reordered \in BOOLEAN
  /\ \A c \in {memory, stored, shared} : c = NoReport \/ c \subseteq Hands
  /\ \A r \in Readers : /\ reader[r].at \in {"idle", "asking", "keeping", "sharing"}
                        /\ reader[r].report \subseteq Hands

Carried(h) == (IF h \in ToSet(buffer) THEN {"buffer"} ELSE {})
             \cup {f \in Flushers : h \in ToSet(SubSeq(flusher[f].batch, flusher[f].done + 1, Len(flusher[f].batch)))}

\* A finished hand is accounted for: its record is in the buffer, or in exactly one
\* flush that has not written it yet, or written, or given up by a failed write or
\* a crash. The hand-over between add, the flushes and the rebuffering of a failed
\* or cancelled batch drops nothing and copies nothing (StatsBatchBuffer._flush).
NoRecordLostOrCopied ==
  \A h \in ToSet(added) : /\ Cardinality(Carried(h)) <= 1
                          /\ Carried(h) = {} => h \in rows \cup lost

\* The totals count a hand once, as its history rows do, except one the shutdown
\* put back after its rows were committed: replacing rows is idempotent, adding to
\* totals is not (_process_hand_finished_batch).
TotalsMatchHistory ==
  \A h \in Hands : /\ counted[h] > 0 <=> h \in rows
                   /\ counted[h] > 1 => h \in redone

\* As long as no two flushes were under way at once (or a hand of a closed service
\* was written past them), hands are counted in the order
\* they finished, whatever batch failed and was put back (a hand whose own write
\* failed may be counted later, when its cancelled batch is written again): the win and loss streaks, which
\* depend on that order, are right.
CountedInOrder ==
  ~reordered => \A i, j \in 1..Len(applied) :
    i < j /\ applied[j] \notin lost => SelectInSeq(added, LAMBDA h : h = applied[i]) < SelectInSeq(added, LAMBDA h : h = applied[j])

\* The buffer, its flushes and the tables together hold each finished hand once, in
\* order, whatever fails, is cancelled or closes in between.
StatsInv ==
  /\ NoRecordLostOrCopied
  /\ TotalsMatchHistory
  /\ CountedInOrder

\* A finished hand is counted in the end, or was given up, or lies in the buffer of
\* a service that is being closed: the timer flushes what no caller does.
HandsAreCounted ==
  \A h \in Hands : (h \in ToSet(added)) ~> (h \in rows \cup lost \/ service # "open")
===============================================================================
