----------------------------- MODULE TableRWLock -----------------------------
(***************************************************************************)
(* The readers-writer lock of a table: LockManager.table_read_lock and     *)
(* table_write_lock (pokerapp/lock_manager.py) with the Redis key that     *)
(* acquire_with_smart_retry sets around them.                              *)
(*                                                                         *)
(* Tasks live in bot instances.  An instance keeps one _RWLockState per    *)
(* table (asyncio objects, invisible to other instances); the two Redis    *)
(* keys table_read:<chat> and table_write:<chat> are shared.  A section    *)
(* under reader_lock never awaits anything, so it is one step.             *)
(***************************************************************************)
EXTENDS Naturals, FiniteSets

CONSTANTS
    Tasks,           \* tasks that use the lock, again and again
    Instances,       \* bot processes
    Home,            \* [Tasks -> Instances]
    NoTask,          \* "nobody"
    WithRedis,       \* is there a Redis client?
    WriterPriority,  \* LockManager.writer_priority
    SlowHolders,     \* may a Redis key outlive its TTL's holder?
    MaxReaders,      \* bound on reader_count, which phantom readers would push up
    Faults           \* a subset of FaultKinds

(* "give_up"       the smart retry runs out of attempts                    *)
(* "cancel"        a task is cancelled while it waits or drains            *)
(* "cancel_retry"  a task is cancelled inside the smart retry              *)
(* "hierarchy"     a reader asks while its task has a record of another    *)
(*                 lock of the hierarchy, and the order check raises       *)
FaultKinds == {"give_up", "cancel", "cancel_retry", "hierarchy"}

ASSUME LockAssumption ==
    /\ IsFiniteSet(Tasks)
    /\ Home \in [Tasks -> Instances]
    /\ NoTask \notin Tasks
    /\ WithRedis \in BOOLEAN /\ WriterPriority \in BOOLEAN
    /\ SlowHolders \in BOOLEAN /\ MaxReaders \in Nat
    /\ Faults \subseteq FaultKinds

VARIABLES
    pc,                \* where each task stands
    reader_count,      \* per instance, as are the next four
    writer_waiting,
    has_active_writer,
    write_lock,        \* the task that holds the asyncio.Lock, or NoTask
    no_writer_event,
    key                \* the task whose SET NX took the Redis key, or NoTask

vars == <<pc, reader_count, writer_waiting, has_active_writer, write_lock,
          no_writer_event, key>>

ReaderPlaces == {"r_wait", "r_retry", "reading", "r_release"}
WriterPlaces == {"w_retry", "w_queue", "w_drain", "writing", "w_release"}
Kinds == {"read", "write"}

TypeOK ==
    /\ pc \in [Tasks -> {"idle"} \cup ReaderPlaces \cup WriterPlaces]
    /\ reader_count \in [Instances -> Nat]
    /\ writer_waiting \in [Instances -> Nat]
    /\ has_active_writer \in [Instances -> BOOLEAN]
    /\ write_lock \in [Instances -> Tasks \cup {NoTask}]
    /\ no_writer_event \in [Instances -> BOOLEAN]
    /\ key \in [Kinds -> Tasks \cup {NoTask}]

Init ==
    /\ pc = [t \in Tasks |-> "idle"]
    /\ reader_count = [i \in Instances |-> 0]
    /\ writer_waiting = [i \in Instances |-> 0]
    /\ has_active_writer = [i \in Instances |-> FALSE]
    /\ write_lock = [i \in Instances |-> NoTask]
    /\ no_writer_event = [i \in Instances |-> TRUE]
    /\ key = [k \in Kinds |-> NoTask]

-----------------------------------------------------------------------------
Goto(t, p) == pc' = [pc EXCEPT ![t] = p]

Locked(i) == write_lock[i] # NoTask

\* max(0, n - 1)
Less(n) == IF n > 0 THEN n - 1 ELSE 0

\* Mutant of TakeKey: an answer of Redis that nothing was set is not looked at.
TakeKeyBlindly(t, k) ==
    key' = IF WithRedis THEN [key EXCEPT ![k] = t] ELSE key

\* acquire_with_smart_retry got the key; without a client it always does.
TakeKey(t, k) ==
    IF WithRedis THEN key[k] = NoTask /\ key' = [key EXCEPT ![k] = t]
                 ELSE UNCHANGED key

\* _release_lock_internal deletes the key, whoever set it.
DropKey(k) ==
    key' = IF WithRedis THEN [key EXCEPT ![k] = NoTask] ELSE key

\* The attempts are used up, or the task is cancelled between two of them, before
\* or after Redis has executed the SET of the last one.
RetryEnds(t, k) ==
    \/ "give_up" \in Faults /\ WithRedis /\ key[k] # NoTask /\ UNCHANGED key
    \/ "cancel_retry" \in Faults /\ (UNCHANGED key \/ TakeKey(t, k))

-----------------------------------------------------------------------------
(* table_read_lock.                                                        *)

MustWait(i) ==
    \/ Locked(i) \/ has_active_writer[i]
    \/ WriterPriority /\ writer_waiting[i] > 0

AtDoor(t) ==
    \/ pc[t] = "idle"
    \/ pc[t] = "r_wait" /\ no_writer_event[Home[t]]

ReadWait(t) ==
    /\ pc[t] = "idle"
    /\ MustWait(Home[t])
    /\ Goto(t, "r_wait")
    /\ UNCHANGED <<reader_count, writer_waiting, has_active_writer, write_lock,
                   no_writer_event, key>>

\* The section under reader_lock that lets a reader in.
CountReader(t) ==
    LET i == Home[t] IN
    /\ AtDoor(t)
    /\ ~MustWait(i)
    /\ reader_count[i] < MaxReaders
    /\ reader_count' = [reader_count EXCEPT ![i] = @ + 1]
    /\ no_writer_event' = [no_writer_event EXCEPT
          ![i] = @ \/ (writer_waiting[i] = 0 /\ ~Locked(i))]
    /\ UNCHANGED <<writer_waiting, has_active_writer, write_lock, key>>

\* The reader counts itself before it fights for the Redis key.
ReadEnter(t) == CountReader(t) /\ Goto(t, "r_retry")

\* _validate_lock_hierarchy raises behind the count and before the try block.
ReadRefused(t) == "hierarchy" \in Faults /\ CountReader(t) /\ Goto(t, "idle")

ReadBegin(t) ==
    /\ pc[t] = "r_retry"
    /\ TakeKey(t, "read")
    /\ Goto(t, "reading")
    /\ UNCHANGED <<reader_count, writer_waiting, has_active_writer, write_lock,
                   no_writer_event>>

\* The exception leaves before the try block: nothing is undone.
ReadFails(t) ==
    /\ pc[t] = "r_retry"
    /\ RetryEnds(t, "read")
    /\ Goto(t, "idle")
    /\ UNCHANGED <<reader_count, writer_waiting, has_active_writer, write_lock,
                   no_writer_event>>

\* Mutant of ReadEnd: the count is kept.
ReadEndCountKept(t) ==
    /\ pc[t] = "reading"
    /\ Goto(t, "r_release")
    /\ UNCHANGED <<reader_count, writer_waiting, has_active_writer, write_lock,
                   no_writer_event, key>>

\* Body over, or cancelled in it: the finally block up to its await.
ReadEnd(t) ==
    LET i == Home[t] IN
    /\ pc[t] = "reading"
    /\ reader_count' = [reader_count EXCEPT ![i] = Less(@)]
    /\ no_writer_event' = [no_writer_event EXCEPT
          ![i] = @ \/ (writer_waiting[i] = 0 /\ ~Locked(i) /\ ~has_active_writer[i])]
    /\ Goto(t, "r_release")
    /\ UNCHANGED <<writer_waiting, has_active_writer, write_lock, key>>

ReadRelease(t) ==
    /\ pc[t] = "r_release"
    /\ DropKey("read")
    /\ Goto(t, "idle")
    /\ UNCHANGED <<reader_count, writer_waiting, has_active_writer, write_lock,
                   no_writer_event>>

ReadCancelled(t) ==
    /\ "cancel" \in Faults
    /\ pc[t] = "r_wait"
    /\ Goto(t, "idle")
    /\ UNCHANGED <<reader_count, writer_waiting, has_active_writer, write_lock,
                   no_writer_event, key>>

-----------------------------------------------------------------------------
(* table_write_lock.                                                       *)

WriteAsk(t) ==
    /\ pc[t] = "idle"
    /\ Goto(t, "w_retry")
    /\ UNCHANGED <<reader_count, writer_waiting, has_active_writer, write_lock,
                   no_writer_event, key>>

\* The key is taken and _mark_writer_waiting runs.
WriteMark(t) ==
    LET i == Home[t] IN
    /\ pc[t] = "w_retry"
    /\ TakeKey(t, "write")
    /\ writer_waiting' = [writer_waiting EXCEPT ![i] = @ + 1]
    /\ no_writer_event' = [no_writer_event EXCEPT ![i] = FALSE]
    /\ Goto(t, "w_queue")
    /\ UNCHANGED <<reader_count, has_active_writer, write_lock>>

WriteFails(t) ==
    /\ pc[t] = "w_retry"
    /\ RetryEnds(t, "write")
    /\ Goto(t, "idle")
    /\ UNCHANGED <<reader_count, writer_waiting, has_active_writer, write_lock,
                   no_writer_event>>

\* async with state.write_lock
WriteLock(t) ==
    LET i == Home[t] IN
    /\ pc[t] = "w_queue"
    /\ ~Locked(i)
    /\ write_lock' = [write_lock EXCEPT ![i] = t]
    /\ Goto(t, "w_drain")
    /\ UNCHANGED <<reader_count, writer_waiting, has_active_writer,
                   no_writer_event, key>>

\* Mutant of Drained: the writer does not look at the readers.
DrainedAnyway(i) == TRUE

\* The poll every 10 ms found no reader.
Drained(i) == reader_count[i] = 0

WriteBegin(t) ==
    LET i == Home[t] IN
    /\ pc[t] = "w_drain"
    /\ Drained(i)
    /\ has_active_writer' = [has_active_writer EXCEPT ![i] = TRUE]
    /\ Goto(t, "writing")
    /\ UNCHANGED <<reader_count, writer_waiting, write_lock, no_writer_event, key>>

\* Mutant of Leave: the waiting mark is taken back twice, without the max.
LeaveTwice(i, lock) ==
    /\ writer_waiting' = [writer_waiting EXCEPT ![i] = @ - 2]
    /\ UNCHANGED no_writer_event

\* Mutant of Leave: the last writer does not set the event.
LeaveQuietly(i, lock) ==
    /\ writer_waiting' = [writer_waiting EXCEPT ![i] = Less(@)]
    /\ UNCHANGED no_writer_event

\* _unmark_writer_waiting, with the writer lock in state lock and no active
\* writer of this task any more.
Leave(i, lock) ==
    /\ writer_waiting' = [writer_waiting EXCEPT ![i] = Less(@)]
    /\ no_writer_event' = [no_writer_event EXCEPT
          ![i] = @ \/ (Less(writer_waiting[i]) = 0 /\ lock = NoTask
                       /\ ~has_active_writer'[i])]

\* The finally blocks of the writer up to the release of the key; none of them
\* suspends the task.
WriteEnd(t) ==
    LET i == Home[t] IN
    /\ pc[t] = "writing"
    /\ has_active_writer' = [has_active_writer EXCEPT ![i] = FALSE]
    /\ write_lock' = [write_lock EXCEPT ![i] = NoTask]
    /\ Leave(i, NoTask)
    /\ Goto(t, "w_release")
    /\ UNCHANGED <<reader_count, key>>

WriteRelease(t) ==
    /\ pc[t] = "w_release"
    /\ DropKey("write")
    /\ Goto(t, "idle")
    /\ UNCHANGED <<reader_count, writer_waiting, has_active_writer, write_lock,
                   no_writer_event>>

WriteCancelled(t) ==
    LET i == Home[t]
        lock == IF write_lock[i] = t THEN NoTask ELSE write_lock[i]
    IN
    /\ "cancel" \in Faults
    /\ pc[t] \in {"w_queue", "w_drain"}
    /\ write_lock' = [write_lock EXCEPT ![i] = lock]
    /\ UNCHANGED has_active_writer
    /\ Leave(i, lock)
    /\ Goto(t, "w_release")
    /\ UNCHANGED <<reader_count, key>>

-----------------------------------------------------------------------------
\* Between taking the key and deleting it.
KeyInUse(k) ==
    key[k] # NoTask /\ pc[key[k]] \in
        (IF k = "read" THEN {"reading", "r_release"}
                       ELSE {"w_queue", "w_drain", "writing", "w_release"})

KeyExpires(k) ==
    /\ key[k] # NoTask
    /\ SlowHolders \/ ~KeyInUse(k)
    /\ key' = [key EXCEPT ![k] = NoTask]
    /\ UNCHANGED <<pc, reader_count, writer_waiting, has_active_writer, write_lock,
                   no_writer_event>>

Read(t) ==
    \/ ReadWait(t) \/ ReadEnter(t) \/ ReadRefused(t) \/ ReadBegin(t) \/ ReadFails(t)
    \/ ReadEnd(t) \/ ReadRelease(t) \/ ReadCancelled(t)

Write(t) ==
    \/ WriteAsk(t) \/ WriteMark(t) \/ WriteFails(t) \/ WriteLock(t)
    \/ WriteBegin(t) \/ WriteEnd(t) \/ WriteRelease(t) \/ WriteCancelled(t)

Next ==
    \/ \E t \in Tasks : Read(t) \/ Write(t)
    \/ \E k \in Kinds : KeyExpires(k)

Spec == Init /\ [][Next]_vars

\* A task that can run does; asyncio.Lock hands itself over in arrival order.
Fairness ==
    \A t \in Tasks :
        /\ WF_vars(ReadBegin(t)) /\ WF_vars(ReadEnd(t)) /\ WF_vars(ReadRelease(t))
        /\ WF_vars(WriteMark(t)) /\ SF_vars(WriteLock(t)) /\ WF_vars(WriteBegin(t))
        /\ WF_vars(WriteEnd(t)) /\ WF_vars(WriteRelease(t))

FairSpec == Spec /\ Fairness

-----------------------------------------------------------------------------
(* Correctness.                                                            *)

\* "No readers or writers can proceed" beside a writer, in one instance.
Exclusion ==
    \A t, u \in Tasks :
        t # u /\ pc[t] = "writing" /\ Home[t] = Home[u]
            => pc[u] \notin {"reading", "writing"}

\* "No ... writers can proceed" in any instance.
OneWriter ==
    \A t, u \in Tasks : pc[t] = "writing" /\ pc[u] = "writing" => t = u

Inside(i) == {t \in Tasks : Home[t] = i /\ pc[t] \in {"r_retry", "reading"}}

Writers(i) == {t \in Tasks : Home[t] = i /\ pc[t] \in {"w_queue", "w_drain", "writing"}}

\* reader_count is the number of readers there are: it goes back to 0, and a
\* writer is never kept out by a reader that is gone.
NoPhantomReader == \A i \in Instances : reader_count[i] = Cardinality(Inside(i))

\* The event readers sleep on is clear exactly while some writer is there to
\* set it: no sleeper is forgotten, and none is woken in front of a writer.
NoLostWakeup ==
    \A i \in Instances :
        /\ writer_waiting[i] = Cardinality(Writers(i))
        /\ no_writer_event[i] <=> Writers(i) = {}

\* Why Exclusion holds: the writer lock is held exactly by a task between its
\* acquisition and its release, every reader inside is counted, and a writer
\* only writes at count 0.
LockInv ==
    /\ \A t \in Tasks :
          /\ pc[t] \in {"w_drain", "writing"} <=> write_lock[Home[t]] = t
          /\ pc[t] = "writing" => reader_count[Home[t]] = 0
    /\ \A i \in Instances : Cardinality(Inside(i)) <= reader_count[i]

\* A writer that stands in the queue or drains the readers does not stay there,
\* however many readers come and whoever else is cancelled.
WriterServed ==
    \A t \in Tasks :
        pc[t] \in {"w_queue", "w_drain"} ~> pc[t] \notin {"w_queue", "w_drain"}
=============================================================================
