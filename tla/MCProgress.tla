----------------------------- MODULE MCProgress -----------------------------
(* The components somebody waits for, one at a time: the action lock, the   *)
(* readers-writer lock of a table without Redis and with it, the countdown  *)
(* before a hand, the queue of countdown messages, the statistics of hands. *)
EXTENDS TableRWLock, ActionLock, SmartCountdown, CountdownQueue, Statistics

CONSTANTS t1, t2, t3, t4, botA, botB

VARIABLE focus  \* the component a behaviour is about

\* Task t1 of the readers-writer lock is alone in its instance.
TwoInstances == [t \in Tasks |-> IF t = t1 THEN botA ELSE botB]

OneInstance == {t \in Tasks : Home[t] = botB}

Redis == INSTANCE TableRWLock WITH
            WithRedis <- TRUE, WriterPriority <- FALSE,
            Faults <- FaultKinds

MCvars == <<vars, actionVars, cdVars, queueVars, statsVars, focus>>

MCInit ==
    /\ focus \in {"local", "redis", "action", "countdown", "queue", "statistics"}
    /\ Init /\ ActionInit /\ CdInit /\ QueueInit /\ StatsInit

InLocal == focus = "local" /\ UNCHANGED <<actionVars, cdVars, queueVars, statsVars, focus>>
InRedis == focus = "redis" /\ UNCHANGED <<actionVars, cdVars, queueVars, statsVars, focus>>
InAction == focus = "action" /\ UNCHANGED <<vars, cdVars, queueVars, statsVars, focus>>
InCountdown == focus = "countdown" /\ UNCHANGED <<vars, actionVars, queueVars, statsVars, focus>>
InQueue == focus = "queue" /\ UNCHANGED <<vars, actionVars, cdVars, statsVars, focus>>
InStatistics == focus = "statistics" /\ UNCHANGED <<vars, actionVars, cdVars, queueVars, focus>>

MCNext ==
    \/ InLocal /\ \E t \in OneInstance : Read(t) \/ Write(t)
    \/ InRedis /\ \/ \E t \in Tasks \ {t4} : Redis!Read(t) \/ Redis!Write(t)
                  \/ \E k \in Kinds : Redis!KeyExpires(k)
    \/ InAction /\ ActionNext
    \/ InCountdown /\ CdNext
    \/ InQueue /\ QueueNext
    \/ InStatistics /\ CountHands

\* The event loop resumes every task that can run, asyncio.Lock hands itself over
\* in arrival order, keys expire; callers come as they like.
MCFairness ==
    /\ \A t \in OneInstance :
         /\ WF_MCvars(InLocal /\ (ReadBegin(t) \/ ReadEnd(t) \/ ReadRelease(t)
                                  \/ WriteMark(t) \/ WriteBegin(t) \/ WriteEnd(t) \/ WriteRelease(t)))
         /\ SF_MCvars(InLocal /\ WriteLock(t))
    /\ \A k \in LockKeys : WF_MCvars(InAction /\ Expire(k))
    /\ \A c \in Clients :
         WF_MCvars(InAction /\ RequestGoesOn(c))
    /\ \A t \in TaskIds :
         WF_MCvars(InCountdown /\ (Milestone(t) \/ Edited(t) \/ Complete(t) \/ Cancelled(t)))
    /\ \A c \in Coros : WF_MCvars(InCountdown /\ EndCancel(c))
    /\ WF_MCvars(InQueue /\ WorkerStep)
    /\ \A f \in Hands \cup {Timer} : WF_MCvars(InStatistics /\ StatsStep(f))

MCSpec == MCInit /\ [][MCNext]_MCvars /\ MCFairness

\* Every component keeps its types.
TypesOK == TypeOK /\ ActionTypeOK /\ CdTypeOK /\ QueueTypeOK /\ StatsTypeOK

\* NoPhantomReader and NoLostWakeup, in one instance without Redis: a task that is
\* cancelled inside the smart retry, or refused by the order check, leaves its count
\* behind.
NoPhantomReaderLocally == focus = "local" => NoPhantomReader

NoLostWakeupLocally == focus = "local" => NoLostWakeup

\* OneWriter: across instances it is the Redis key that admits one writer.
OneWriterByKey == focus = "redis" => OneWriter

\* What the waiters of a table lock rely on: the counts of readers and waiting
\* writers are exact, the event is set for those who sleep on it, and the key lets
\* one writer in (_RWLockState, table_read_lock, table_write_lock).
TableLockInv == NoPhantomReaderLocally /\ NoLostWakeupLocally /\ OneWriterByKey

\* WriterServed, without Redis and with writer priority, of one of the tasks of the
\* instance: they are interchangeable.
WriterServedLocally ==
    focus = "local" /\ pc[t2] \in {"w_queue", "w_drain"} ~> pc[t2] \notin {"w_queue", "w_drain"}

\* Countdowns come to an end, the tasks of a chat as well as the queued messages.
CountdownsSettle == CountdownsEnd /\ EveryCountdownSettles
=============================================================================
