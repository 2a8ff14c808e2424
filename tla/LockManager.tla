---------------------------- MODULE LockManager ----------------------------
(***************************************************************************)
(* The keyed locks of LockManager (acquire, release, guard, acquire_batch, *)
(* the lock pool, the circuit breaker, shutdown) and the forced release of *)
(* GameEngine.emergency_reset.                                             *)
(*                                                                         *)
(* A key names a lock object of ReentrantAsyncLock.  acquire enters the    *)
(* object inside asyncio.wait_for, which on the Python the project ships   *)
(* with (3.11) runs in a task of its own: until _register_lock_owner names *)
(* the caller, the object belongs to that task, which has already ended.   *)
(* Gone stands for every task that has ended.                              *)
(*                                                                         *)
(* body[t] is the stack of guards t is inside of, as t sees it: what the   *)
(* code records about it is in the other variables.  blame[k] remembers    *)
(* which of the six ways  to lose track of a lock has happened to key k;   *)
(* no action reads it.                                                     *)
(***************************************************************************)
EXTENDS Integers, Sequences, FiniteSets, SequencesExt

CONSTANTS Callers,       \* asyncio tasks that take locks
          Keys,        \* lock keys
          Objs,        \* ReentrantAsyncLock objects
          Batches,     \* key sequences acquire_batch is called with
          LockLevel,   \* LOCK_LEVELS of each key
          Hierarchy,   \* keys whose category _validate_lock_hierarchy ranks
          MayDescend,  \* pairs <<held, requested>> of _ALLOWED_DESCENDING_CATEGORIES
          MaxRetries,  \* _max_retries
          Threshold,   \* _circuit_breaker_threshold
          MaxRecords,  \* bound: acquisition records alive at once
          MaxDepth,    \* bound: nested guards of a task
          MaxOps,      \* bound: acquisitions and forced releases in a behaviour
          Nobody, Gone

\* Nobody and Gone are no tasks, Nobody is no object and no key.
ASSUME KeyedAssumption ==
  /\ Nobody \notin Callers \cup Objs \cup Keys \cup {Gone}
  /\ Gone \notin Callers
  /\ LockLevel \in [Keys -> Int]

VARIABLES locks,      \* _locks: key -> object, or Nobody
          pool,       \* _lock_pool
          owner,      \* ReentrantAsyncLock._owner of each object
          age,        \* _acquired_at_ts of each object: none, fresh or old
          ownerTask,  \* _lock_owner_tasks
          rec,        \* _LockAcquisition records: key and count
          acq,        \* the records in each task's context, oldest first
          stacks,     \* _lock_exit_stacks: task, key -> objects to leave
          step,         \* where each task is inside acquire
          plan,       \* keys acquire_batch still has to take
          body,       \* guards each task is inside of
          timeouts,   \* _timeout_count
          opened,     \* keys of _circuit_reset_time
          bypassed,   \* _bypassed_locks
          down,       \* _shutdown_initiated
          ops, blame

lockVars == <<locks, pool, owner, age, ownerTask, rec, acq, stacks, step, plan, body,
              timeouts, opened, bypassed, down, ops, blame>>

Records == 1..MaxRecords
Causes == {"rollback", "again", "inherit", "bypass", "force", "recycle"}
Ways == {"lock", "again", "bypass"}
Free == [at |-> "free"]

LockInit ==
  /\ locks = [k \in Keys |-> Nobody]
  /\ pool = {}
  /\ owner = [o \in Objs |-> Nobody]
  /\ age = [o \in Objs |-> "none"]
  /\ ownerTask = [k \in Keys |-> Nobody]
  /\ rec = [i \in Records |-> [key |-> Nobody, count |-> 0]]
  /\ acq = [t \in Callers |-> <<>>]
  /\ stacks = [t \in Callers \cup {Gone} |-> [k \in Keys |-> <<>>]]
  /\ step = [t \in Callers |-> Free]
  /\ plan = [t \in Callers |-> <<>>]
  /\ body = [t \in Callers |-> <<>>]
  /\ timeouts = [k \in Keys |-> 0]
  /\ opened = {}
  /\ bypassed = {}
  /\ down = FALSE
  /\ ops = 0
  /\ blame = [k \in Keys |-> {}]

-----------------------------------------------------------------------------
(* What acquire consults. *)

Held(t) == {rec[i].key : i \in ToSet(acq[t])}

\* The oldest record of k in t's context.
PlaceOf(t, k) == Min({n \in DOMAIN acq[t] : rec[acq[t][n]].key = k})
RecordOf(t, k) == acq[t][PlaceOf(t, k)]

Spare(i) == \A t \in Callers : i \notin ToSet(acq[t])
Unused == CHOOSE i \in Records : Spare(i)

\* _validate_lock_hierarchy builds its message from names it does not define:
\* with a ranked lock held, asking for a ranked lock raises NameError.
HierarchyFails(t, k) == k \in Hierarchy /\ Held(t) \cap Hierarchy # {}

\* Mutant of OrderFails: asking for a higher level is not refused.
DescentFails(t, k) ==
  \E h \in Held(t) : LockLevel[h] > LockLevel[k] /\ <<h, k>> \notin MayDescend

\* _validate_lock_order
OrderFails(t, k) ==
  /\ Held(t) # {}
  /\ \/ \A h \in Held(t) : LockLevel[h] < LockLevel[k]
     \/ \E h \in Held(t) : LockLevel[h] > LockLevel[k] /\ <<h, k>> \notin MayDescend

Refused(t, k) == HierarchyFails(t, k) \/ OrderFails(t, k)

CircuitBroken(k) == timeouts[k] >= Threshold

\* Objects nobody refers to: a new ReentrantAsyncLock is one of them.
Referenced ==
  {locks[k] : k \in Keys} \cup pool
    \cup {step[t].obj : t \in {u \in Callers : step[u].at # "free"}}
    \cup UNION {ToSet(stacks[t][k]) : t \in Callers \cup {Gone}, k \in Keys}

\* _get_lock: the key's object, one from the pool, or a new one.
Candidates(k) ==
  CASE locks[k] # Nobody -> {locks[k]}
    [] locks[k] = Nobody /\ pool # {} -> pool
    [] OTHER -> LET new == Objs \ Referenced
                IN {o \in new : o = CHOOSE any \in new : TRUE}

GetLock(k, o) ==
  /\ o \in Candidates(k)
  /\ locks' = [locks EXCEPT ![k] = o]
  /\ pool' = pool \ {o}

\* _reset_circuit_state
ResetCircuit(k) ==
  /\ timeouts' = [timeouts EXCEPT ![k] = 0]
  /\ opened' = opened \ {k}
  /\ bypassed' = bypassed \ {k}

\* A batch takes its next key, a plain guard any key.
Wants(t, k) == IF plan[t] = <<>> THEN TRUE ELSE Head(plan[t]) = k

EnterBody(t, k, how) ==
  /\ body' = [body EXCEPT ![t] = Append(@, [key |-> k, how |-> how])]
  /\ plan' = [plan EXCEPT ![t] = IF @ = <<>> THEN <<>> ELSE Tail(@)]
  /\ step' = [step EXCEPT ![t] = Free]

\* acquire raises or answers False: a guard raises, a batch stops.
GiveUp(t) ==
  /\ step' = [step EXCEPT ![t] = Free]
  /\ plan' = [plan EXCEPT ![t] = <<>>]
  /\ UNCHANGED body

-----------------------------------------------------------------------------
(* acquire *)

\* acquire_batch orders its keys by level only; keys of one level stay in the
\* order they were given in.
BatchOrder(s) ==
  LET levels == SetToSortSeq({LockLevel[k] : k \in ToSet(s)}, <) IN
  FlattenSeq([i \in DOMAIN levels |-> SelectSeq(s, LAMBDA k : LockLevel[k] = levels[i])])

StartBatch(t, s) ==
  /\ step[t].at = "free" /\ body[t] = <<>> /\ plan[t] = <<>>
  /\ ops < MaxOps
  /\ plan' = [plan EXCEPT ![t] = BatchOrder(s)]
  /\ UNCHANGED <<locks, pool, owner, age, ownerTask, rec, acq, stacks, step, body,
                 timeouts, opened, bypassed, down, ops, blame>>

CanBegin(t, k) ==
  /\ step[t].at = "free"
  /\ Len(body[t]) < MaxDepth
  /\ ops < MaxOps
  /\ Wants(t, k)

\* An open circuit lets the caller through without the lock.
Bypass(t, k) ==
  /\ CanBegin(t, k) /\ ~down /\ CircuitBroken(k)
  /\ bypassed' = bypassed \cup {k}
  /\ EnterBody(t, k, "bypass")
  /\ ops' = ops + 1
  /\ UNCHANGED <<locks, pool, owner, age, ownerTask, rec, acq, stacks, timeouts,
                 opened, down, blame>>

\* The circuit is closed, or its reset interval is over.
BeginFast(t, k, o) ==
  /\ CanBegin(t, k) /\ ~down
  /\ GetLock(k, o)
  /\ IF CircuitBroken(k) THEN ResetCircuit(k)
     ELSE UNCHANGED <<timeouts, opened, bypassed>>
  /\ step' = [step EXCEPT ![t] = [at |-> "fast", key |-> k, obj |-> o]]
  /\ ops' = ops + 1
  /\ UNCHANGED <<owner, age, ownerTask, rec, acq, stacks, plan, body, down, blame>>

\* shutdown has begun: acquire answers False.
Rejected(t, k) ==
  /\ CanBegin(t, k) /\ down
  /\ ops' = ops + 1
  /\ GiveUp(t)
  /\ UNCHANGED <<locks, pool, owner, age, ownerTask, rec, acq, stacks, timeouts,
                 opened, bypassed, down, blame>>

\* _record_acquired, _register_lock_owner and _register_lock_stack
RecordAcquired(t, k, o) ==
  /\ owner' = [owner EXCEPT ![o] = t]
  /\ age' = [age EXCEPT ![o] = "fresh"]
  /\ ownerTask' = [ownerTask EXCEPT ![k] = t]
  /\ IF acq[t] # <<>> /\ rec[Last(acq[t])].key = k
     THEN /\ rec' = [rec EXCEPT ![Last(acq[t])].count = @ + 1]
          /\ UNCHANGED acq
     ELSE /\ \E i \in Records : Spare(i)
          /\ rec' = [rec EXCEPT ![Unused] = [key |-> k, count |-> 1]]
          /\ acq' = [acq EXCEPT ![t] = Append(@, Unused)]
  /\ stacks' = [stacks EXCEPT ![t][k] = Append(@, o)]

\* The fast path enters the lock before it validates the order.
FastAcquire(t) ==
  LET k == step[t].key  o == step[t].obj IN
  /\ step[t].at = "fast" /\ owner[o] = Nobody
  /\ ~Refused(t, k)
  /\ RecordAcquired(t, k, o)
  /\ ResetCircuit(k)
  /\ EnterBody(t, k, "lock")
  /\ UNCHANGED <<locks, pool, down, ops, blame>>

\* Validation fails with the lock entered: closing the exit stack asks the
\* object to release a lock its owner is not the caller of, which raises.
FastRefused(t) ==
  LET k == step[t].key  o == step[t].obj IN
  /\ step[t].at = "fast" /\ owner[o] = Nobody
  /\ Refused(t, k)
  /\ owner' = [owner EXCEPT ![o] = Gone]
  /\ blame' = [blame EXCEPT ![k] = @ \cup {"rollback"}]
  /\ GiveUp(t)
  /\ UNCHANGED <<locks, pool, age, ownerTask, rec, acq, stacks, timeouts, opened,
                 bypassed, down, ops>>

\* The object is taken: after a millisecond acquire turns to the slow path,
\* which counts a re-entrant acquisition instead of waiting,
Reenter(t, o) ==
  LET k == step[t].key IN
  /\ step[t].at = "fast" /\ owner[step[t].obj] # Nobody
  /\ k \in Held(t)
  /\ GetLock(k, o)
  /\ rec' = [rec EXCEPT ![RecordOf(t, k)].count = @ + 1]
  /\ ownerTask' = [ownerTask EXCEPT ![k] = IF @ = Nobody THEN t ELSE @]
  /\ ResetCircuit(k)
  /\ EnterBody(t, k, "again")
  /\ blame' = IF owner[o] = t THEN blame ELSE [blame EXCEPT ![k] = @ \cup {"inherit"}]
  /\ UNCHANGED <<owner, age, acq, stacks, down, ops>>

\* validates the order before it waits,
SlowRefused(t, o) ==
  LET k == step[t].key IN
  /\ step[t].at = "fast" /\ owner[step[t].obj] # Nobody
  /\ k \notin Held(t) /\ Refused(t, k)
  /\ GetLock(k, o)
  /\ GiveUp(t)
  /\ UNCHANGED <<owner, age, ownerTask, rec, acq, stacks, timeouts, opened, bypassed,
                 down, ops, blame>>

\* and then waits for the object with a share of the time each try.
BeginSlow(t, o) ==
  LET k == step[t].key IN
  /\ step[t].at = "fast" /\ owner[step[t].obj] # Nobody
  /\ k \notin Held(t) /\ ~Refused(t, k)
  /\ GetLock(k, o)
  /\ step' = [step EXCEPT ![t] = [at |-> "slow", key |-> k, obj |-> o, tries |-> 0]]
  /\ UNCHANGED <<owner, age, ownerTask, rec, acq, stacks, plan, body, timeouts, opened,
                 bypassed, down, ops, blame>>

SlowAcquire(t) ==
  LET k == step[t].key  o == step[t].obj IN
  /\ step[t].at = "slow" /\ owner[o] = Nobody
  /\ RecordAcquired(t, k, o)
  /\ ResetCircuit(k)
  /\ EnterBody(t, k, "lock")
  /\ UNCHANGED <<locks, pool, down, ops, blame>>

SlowTimeout(t) ==
  /\ step[t].at = "slow" /\ owner[step[t].obj] # Nobody
  /\ step[t].tries < MaxRetries
  /\ step' = [step EXCEPT ![t].tries = @ + 1]
  /\ UNCHANGED <<locks, pool, owner, age, ownerTask, rec, acq, stacks, plan, body,
                 timeouts, opened, bypassed, down, ops, blame>>

\* The last try fails: _record_timeout, and acquire answers False.
SlowFail(t) ==
  LET k == step[t].key IN
  /\ step[t].at = "slow" /\ owner[step[t].obj] # Nobody
  /\ step[t].tries = MaxRetries
  /\ timeouts' = [timeouts EXCEPT ![k] = IF @ < Threshold THEN @ + 1 ELSE @]
  /\ opened' = IF timeouts'[k] >= Threshold THEN opened \cup {k} ELSE opened
  /\ GiveUp(t)
  /\ UNCHANGED <<locks, pool, owner, age, ownerTask, rec, acq, stacks, bypassed, down,
                 ops, blame>>

\* Mutant of CancelAcquire: cancelled as the object is handed over, the caller
\* keeps it.
CancelAndKeep(t) ==
  /\ step[t].at \in {"fast", "slow"}
  /\ owner' = [owner EXCEPT ![step[t].obj] = IF @ = Nobody THEN t ELSE @]
  /\ GiveUp(t)
  /\ UNCHANGED <<locks, pool, age, ownerTask, rec, acq, stacks, timeouts,
                 opened, bypassed, down, ops, blame>>

\* The caller is cancelled while it waits: nothing is held, nothing is kept.
CancelAcquire(t) ==
  /\ step[t].at \in {"fast", "slow"}
  /\ GiveUp(t)
  /\ UNCHANGED <<locks, pool, owner, age, ownerTask, rec, acq, stacks, timeouts,
                 opened, bypassed, down, ops, blame>>

-----------------------------------------------------------------------------
(* release, called when the guard t entered last is left *)

StepOut(t) == body' = [body EXCEPT ![t] = Front(@)]

\* Mutant of ReleaseBypassed: the mark stays.
ReleaseMarked(t) ==
  /\ Last(body[t]).key \in bypassed
  /\ StepOut(t)
  /\ UNCHANGED <<locks, pool, owner, age, ownerTask, rec, acq, stacks, step, plan,
                 timeouts, opened, bypassed, down, ops, blame>>

\* A bypassed key: whoever releases it first only takes the mark away.
ReleaseBypassed(t) ==
  LET g == Last(body[t]) IN
  /\ g.key \in bypassed
  /\ bypassed' = bypassed \ {g.key}
  /\ blame' = IF g.how = "bypass" THEN blame
              ELSE [blame EXCEPT ![g.key] = @ \cup {"bypass"}]
  /\ StepOut(t)
  /\ UNCHANGED <<locks, pool, owner, age, ownerTask, rec, acq, stacks, step, plan,
                 timeouts, opened, down, ops>>

ReleaseUnknown(t) ==
  LET k == Last(body[t]).key IN
  /\ k \notin bypassed /\ locks[k] = Nobody
  /\ StepOut(t)
  /\ UNCHANGED <<locks, pool, owner, age, ownerTask, rec, acq, stacks, step, plan,
                 timeouts, opened, bypassed, down, ops, blame>>

\* Mutant of Exit: the object lets whoever asks leave it.
ExitAnybody(own, t, o) == [own EXCEPT ![o] = Nobody]

\* Leaving one entry of an object: ReentrantAsyncLock.release refuses a task
\* that is not its owner.
Exit(own, t, o) == IF own[o] = t THEN [own EXCEPT ![o] = Nobody] ELSE own

Counted(t, k) == k \in Held(t) /\ rec[RecordOf(t, k)].count > 1

\* The count goes down and one exit stack is closed: the record counts guards,
\* the stacks count entries of the lock, and a re-entry made no entry.
ReleaseCounted(t) ==
  LET k == Last(body[t]).key IN
  /\ k \notin bypassed /\ locks[k] # Nobody /\ Counted(t, k)
  /\ rec' = [rec EXCEPT ![RecordOf(t, k)].count = @ - 1]
  /\ IF stacks[t][k] = <<>> THEN UNCHANGED <<owner, stacks>>
     ELSE /\ owner' = Exit(owner, t, Last(stacks[t][k]))
          /\ stacks' = [stacks EXCEPT ![t][k] = Front(@)]
  /\ blame' = [blame EXCEPT ![k] = @ \cup {"again"}]
  /\ StepOut(t)
  /\ UNCHANGED <<locks, pool, age, ownerTask, acq, step, plan, timeouts, opened,
                 bypassed, down, ops>>

\* _resolve_lock_owner_task
RecordedOwner(k) == IF ownerTask[k] # Nobody THEN ownerTask[k] ELSE owner[locks[k]]

Plain(k) == k \notin bypassed /\ locks[k] # Nobody

\* The lock is recorded as another running task's: release raises.
ReleaseWrongOwner(t) ==
  LET k == Last(body[t]).key IN
  /\ Plain(k) /\ ~Counted(t, k)
  /\ RecordedOwner(k) \in Callers \ {t}
  /\ ownerTask' = [ownerTask EXCEPT ![k] = RecordedOwner(k)]
  /\ StepOut(t)
  /\ UNCHANGED <<locks, pool, owner, age, rec, acq, stacks, step, plan, timeouts,
                 opened, bypassed, down, ops, blame>>

\* The record goes, and with the last entry the owner.
Forget(t, k, stk) ==
  /\ acq' = IF k \in Held(t) THEN [acq EXCEPT ![t] = RemoveAt(@, PlaceOf(t, k))] ELSE acq
  /\ rec' = IF k \in Held(t)
                 /\ \A u \in Callers \ {t} : RecordOf(t, k) \notin ToSet(acq[u])
            THEN [rec EXCEPT ![RecordOf(t, k)] = [key |-> Nobody, count |-> 0]]
            ELSE rec
  /\ ownerTask' = [ownerTask EXCEPT ![k] =
       IF stk = <<>> /\ k \notin {rec[i].key : i \in ToSet(acq'[t])} THEN Nobody ELSE @]

\* The ordinary release: the last entry of the lock is left.
ReleaseOwn(t) ==
  LET k == Last(body[t]).key  stk == stacks[t][k] IN
  /\ Plain(k) /\ ~Counted(t, k)
  /\ RecordedOwner(k) \in {t, Nobody}
  /\ stk # <<>>
  /\ owner' = Exit(owner, t, Last(stk))
  /\ stacks' = [stacks EXCEPT ![t][k] = Front(@)]
  /\ IF owner[Last(stk)] = t THEN Forget(t, k, Front(stk))
     ELSE UNCHANGED <<ownerTask, rec, acq>>
  /\ StepOut(t)
  /\ blame' = IF Last(body[t]).how = "bypass" THEN [blame EXCEPT ![k] = @ \cup {"bypass"}]
              ELSE blame
  /\ UNCHANGED <<locks, pool, age, step, plan, timeouts, opened, bypassed, down, ops>>

\* Nothing to leave: "Lock release attempted without ownership context".
ReleaseNothing(t) ==
  LET k == Last(body[t]).key IN
  /\ Plain(k) /\ ~Counted(t, k)
  /\ RecordedOwner(k) \in {t, Nobody}
  /\ stacks[t][k] = <<>>
  /\ StepOut(t)
  /\ UNCHANGED <<locks, pool, owner, age, ownerTask, rec, acq, stacks, step, plan,
                 timeouts, opened, bypassed, down, ops, blame>>

\* The recorded owner has ended: t takes the lock over and leaves every entry.
ReleaseOrphan(t) ==
  LET k == Last(body[t]).key
      stk == stacks[t][k] \o stacks[Gone][k] IN
  /\ Plain(k) /\ ~Counted(t, k)
  /\ RecordedOwner(k) = Gone
  /\ owner' = [o \in Objs |-> IF o \in ToSet(stk) /\ (o = locks[k] \/ owner[o] = t)
                              THEN Nobody
                              ELSE IF o = locks[k] /\ owner[o] # Nobody THEN t
                              ELSE owner[o]]
  /\ stacks' = [stacks EXCEPT ![t][k] = <<>>, ![Gone][k] = <<>>]
  /\ IF stk = <<>>
     THEN /\ ownerTask' = [ownerTask EXCEPT ![k] = t]
          /\ UNCHANGED <<rec, acq>>
     ELSE Forget(t, k, <<>>)
  /\ StepOut(t)
  /\ UNCHANGED <<locks, pool, age, step, plan, timeouts, opened, bypassed, down,
                 ops, blame>>

Release(t) ==
  /\ step[t].at = "free" /\ body[t] # <<>>
  /\ \/ ReleaseBypassed(t) \/ ReleaseUnknown(t) \/ ReleaseCounted(t)
     \/ ReleaseWrongOwner(t) \/ ReleaseOwn(t) \/ ReleaseNothing(t)
     \/ ReleaseOrphan(t)

-----------------------------------------------------------------------------
(* Around the locks *)

\* A task created inside a guard starts with a copy of the creator's context:
\* the same record objects.
Spawn(t, u) ==
  /\ t # u /\ acq[t] # <<>> /\ body[t] # <<>> /\ step[t].at = "free"
  /\ step[u].at = "free" /\ body[u] = <<>> /\ plan[u] = <<>> /\ acq[u] = <<>>
  /\ ops < MaxOps
  /\ ops' = ops + 1
  /\ acq' = [acq EXCEPT ![u] = acq[t]]
  /\ UNCHANGED <<locks, pool, owner, age, ownerTask, rec, stacks, step, plan, body,
                 timeouts, opened, bypassed, down, blame>>

\* A task ends; the next request is a task of its own, with an empty context.
EndTask(t) ==
  LET kept == UNION {ToSet(acq[u]) : u \in Callers \ {t}} IN
  /\ step[t].at = "free" /\ body[t] = <<>> /\ plan[t] = <<>>
  /\ acq' = [acq EXCEPT ![t] = <<>>]
  /\ rec' = [i \in Records |-> IF i \in ToSet(acq[t]) \ kept
                               THEN [key |-> Nobody, count |-> 0] ELSE rec[i]]
  /\ owner' = [o \in Objs |-> IF owner[o] = t THEN Gone ELSE owner[o]]
  /\ ownerTask' = [k \in Keys |-> IF ownerTask[k] = t THEN Gone ELSE ownerTask[k]]
  /\ stacks' = [stacks EXCEPT ![t] = [k \in Keys |-> <<>>],
                  ![Gone] = [k \in Keys |-> stacks[Gone][k] \o stacks[t][k]]]
  /\ UNCHANGED <<locks, pool, age, step, plan, body, timeouts, opened, bypassed,
                 down, ops, blame>>

\* emergency_reset, which holds no lock yet, closes the exit stacks of the
\* key's holders: the object refuses it, the stacks are gone all the same.
ForceRelease(t, k) ==
  /\ step[t].at = "free" /\ body[t] = <<>> /\ plan[t] = <<>>
  /\ ops < MaxOps
  /\ ops' = ops + 1
  /\ locks[k] # Nobody /\ owner[locks[k]] # Nobody
  /\ stacks' = [u \in Callers \cup {Gone} |-> [stacks[u] EXCEPT ![k] = <<>>]]
  /\ owner' = Exit(owner, t, locks[k])
  /\ IF owner[locks[k]] = t THEN ResetCircuit(k)
     ELSE UNCHANGED <<timeouts, opened, bypassed>>
  /\ blame' = [blame EXCEPT ![k] = @ \cup {"force"}]
  /\ UNCHANGED <<locks, pool, age, ownerTask, rec, acq, step, plan, body, down>>

\* Three minutes pass since the object was last acquired.
GrowOld(o) ==
  /\ age[o] = "fresh"
  /\ age' = [age EXCEPT ![o] = "old"]
  /\ UNCHANGED <<locks, pool, owner, ownerTask, rec, acq, stacks, step, plan, body,
                 timeouts, opened, bypassed, down, ops, blame>>

IdleKeys == {k \in Keys : /\ locks[k] # Nobody
                          /\ owner[locks[k]] = Nobody
                          /\ age[locks[k]] = "old"}

InHand(o) == \E t \in Callers : step[t].at # "free" /\ step[t].obj = o

\* Mutant of CleanupIdle: keys without a lock are put into the pool too.
CleanupAll ==
  /\ IdleKeys # {}
  /\ locks' = [k \in Keys |-> IF k \in IdleKeys THEN Nobody ELSE locks[k]]
  /\ pool' = pool \cup {locks[k] : k \in {x \in Keys : x \in IdleKeys \/ locks[x] = Nobody}}
  /\ age' = [o \in Objs |-> IF \E k \in IdleKeys : locks[k] = o THEN "none" ELSE age[o]]
  /\ UNCHANGED <<owner, ownerTask, rec, acq, stacks, step, plan, body, timeouts,
                 opened, bypassed, down, ops, blame>>

\* cleanup_idle_locks: idle objects leave their keys for the pool.
CleanupIdle ==
  LET gone == {locks[k] : k \in IdleKeys} IN
  /\ IdleKeys # {}
  /\ locks' = [k \in Keys |-> IF k \in IdleKeys THEN Nobody ELSE locks[k]]
  /\ pool' = pool \cup gone
  /\ age' = [o \in Objs |-> IF o \in gone THEN "none" ELSE age[o]]
  /\ blame' = [k \in Keys |-> IF k \in IdleKeys /\ InHand(locks[k])
                              THEN blame[k] \cup {"recycle"} ELSE blame[k]]
  /\ UNCHANGED <<owner, ownerTask, rec, acq, stacks, step, plan, body, timeouts,
                 opened, bypassed, down, ops>>

Shutdown ==
  /\ ~down
  /\ down' = TRUE
  /\ UNCHANGED <<locks, pool, owner, age, ownerTask, rec, acq, stacks, step, plan,
                 body, timeouts, opened, bypassed, ops, blame>>

LockStep(t) ==
  \/ \E k \in Keys : \/ Bypass(t, k) \/ Rejected(t, k) \/ ForceRelease(t, k)
                     \/ \E o \in Objs : BeginFast(t, k, o)
  \/ FastAcquire(t) \/ FastRefused(t)
  \/ \E o \in Objs : Reenter(t, o) \/ SlowRefused(t, o) \/ BeginSlow(t, o)
  \/ SlowAcquire(t) \/ SlowTimeout(t) \/ SlowFail(t) \/ CancelAcquire(t)
  \/ Release(t) \/ EndTask(t)
  \/ \E u \in Callers : Spawn(t, u)
  \/ \E s \in Batches : StartBatch(t, s)

LockNext ==
  \/ \E t \in Callers : LockStep(t)
  \/ \E o \in Objs : GrowOld(o)
  \/ CleanupIdle \/ Shutdown

LockSpec == LockInit /\ [][LockNext]_lockVars

-----------------------------------------------------------------------------
(* Properties *)

Within(t, k, hows) == \E i \in DOMAIN body[t] : body[t][i].key = k /\ body[t][i].how \in hows

LockTypeOK ==
  /\ locks \in [Keys -> Objs \cup {Nobody}]
  /\ pool \subseteq Objs
  /\ owner \in [Objs -> Callers \cup {Nobody, Gone}]
  /\ age \in [Objs -> {"none", "fresh", "old"}]
  /\ ownerTask \in [Keys -> Callers \cup {Nobody, Gone}]
  /\ \A i \in Records : rec[i].key \in Keys \cup {Nobody} /\ rec[i].count \in 0..MaxOps
  /\ \A t \in Callers : ToSet(acq[t]) \subseteq Records /\ ToSet(plan[t]) \subseteq Keys
  /\ \A t \in Callers \cup {Gone}, k \in Keys : ToSet(stacks[t][k]) \subseteq Objs
  /\ \A t \in Callers : step[t].at \in {"free", "fast", "slow"} /\ Len(body[t]) <= MaxDepth
  /\ timeouts \in [Keys -> 0..Threshold]
  /\ opened \cup bypassed \subseteq Keys
  /\ blame \in [Keys -> SUBSET Causes]

Blamed(k, causes) == blame[k] \cap causes # {}
Recycled == \E k \in Keys : Blamed(k, {"recycle"})

\* Two tasks are inside a key's guards at once, neither let through by an open
\* circuit, only after a re-entry (of the holder, whose inner release frees the
\* lock, or of a task created inside the guard, which inherits the record), after
\* a bypassed guard's release that found its mark gone and released for real, or
\* after the pool recycled an object a task was about to enter: two keys then
\* share it, so that it can be this key's or another's.
ExclusionLostOnlyBy ==
  \A k \in Keys, t, u \in Callers :
    t # u /\ Within(t, k, {"lock", "again"}) /\ Within(u, k, {"lock", "again"})
      => Blamed(k, {"again", "inherit", "bypass"}) \/ Recycled

InUse(o) == \E t \in Callers, k \in Keys : /\ o \in ToSet(stacks[t][k])
                                         /\ owner[o] = t
                                         /\ Within(t, k, Ways)

\* A lock nobody is inside of stays taken only after a validation that failed
\* with the lock entered, a release that an open circuit's mark swallowed, or a
\* forced release.
LeakCauses == {"rollback", "bypass", "force"}
LockLeakedOnlyBy ==
  \A o \in Objs :
    owner[o] # Nobody /\ ~InUse(o)
      => \/ \E k \in Keys : locks[k] = o /\ Blamed(k, LeakCauses)
         \/ Recycled

\* Two callers wait for each other for keys of different levels only where the
\* order check lets each of them ask: the one who asks for the lower key by a
\* pair it may descend by, the other because it holds a third key as high as
\* the one it asks for. While no lock was lost, no other such circle closes;
\* among keys of one level nothing is refused, and acquire_batch sorts by level
\* alone.
Blocks(t, u) == step[u].at = "slow" /\ owner[step[u].obj] = t
CirclesAreLetIn ==
  \A t, u \in Callers :
    LET high == step[t].key  low == step[u].key IN
    t # u /\ Blocks(t, u) /\ Blocks(u, t) /\ LockLevel[high] > LockLevel[low]
      => \/ /\ <<high, low>> \in MayDescend
            /\ \E k \in Held(t) : k # low /\ LockLevel[k] >= LockLevel[high]
         \/ Blamed(high, LeakCauses) \/ Blamed(low, LeakCauses)
         \/ Recycled

\* The mark of a bypassed acquisition never outlives the guard it let through:
\* a later holder's release is not swallowed by it.
MarkHasItsGuard ==
  \A k \in bypassed : \E t \in Callers : Within(t, k, {"bypass"})

\* A keyed lock lets two in, stays taken by nobody or keeps a stale mark only after
\* one of the events named: no interleaving of acquisitions, releases, cleanup and
\* cancellations does it alone.
LossesAreBlamed ==
  /\ ExclusionLostOnlyBy
  /\ LockLeakedOnlyBy
  /\ MarkHasItsGuard

\* tests/test_lock_manager_fixes.py:108: "Lock is released when validation fails
\* after fast-path acquisition."
ValidationRollsBack ==
  [][\A t \in Callers : FastRefused(t) => owner' = owner]_lockVars
=============================================================================
