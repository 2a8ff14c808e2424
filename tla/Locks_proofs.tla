---------------------------- MODULE Locks_proofs ----------------------------
(***************************************************************************)
(* Proofs about the locks of LockManager.                                  *)
(*                                                                         *)
(* The table lock, for any number of tasks and instances, with or without  *)
(* Redis, with cancellations, phantom readers and expiring keys:           *)
(*   TypeCorrect     type correctness                                      *)
(*   ExclusionHolds  a writer is alone in its instance                     *)
(*   ReadersCounted  no reader is counted that is not there, if none loses *)
(*                   its fight for the Redis key or is refused by the      *)
(*                   order check                                           *)
(*   WakeupsKept     no sleeping reader is forgotten                       *)
(*   OneWriterHolds  one writer in all instances, while no key expires     *)
(*                   under its holder                                      *)
(* Who holds a key of the action locks, for any number of clients, keys    *)
(* and tries, any retries, lost answers, crashes and expiries:             *)
(*   ActionTypeCorrect, KeysAreHeld                                        *)
(* The keyed locks, for any tasks, keys, objects, levels and descents:     *)
(*   LocksLostOnlyByBlame  a lock is lost only after one of six events     *)
(*   CirclesOnlyWhereLetIn two tasks of different levels block each other  *)
(*                         only where the order check let both ask         *)
(***************************************************************************)
EXTENDS TableRWLock, ActionLock, LockManager, SumTheorems

(* The table lock.                                                         *)

USE LockAssumption

\* max(0, n - 1) is a natural number.
LEMMA LessType == \A n \in Nat : Less(n) \in Nat
BY DEF Less

\* Taking and dropping a key keeps its type.
LEMMA KeyType ==
    ASSUME TypeOK, NEW t \in Tasks, NEW k \in Kinds, TakeKey(t, k) \/ DropKey(k)
    PROVE  key' \in [Kinds -> Tasks \cup {NoTask}]
BY DEF TypeOK, TakeKey, DropKey

\* Nor does a retry that fails break it.
LEMMA RetryType ==
    ASSUME TypeOK, NEW t \in Tasks, NEW k \in Kinds, RetryEnds(t, k)
    PROVE  key' \in [Kinds -> Tasks \cup {NoTask}]
<1>1. CASE UNCHANGED key
  BY <1>1 DEF TypeOK
<1>2. CASE TakeKey(t, k)
  BY <1>2, KeyType
<1> QED
  BY <1>1, <1>2 DEF RetryEnds

\* Every step keeps the types.
LEMMA NextTypeOK == TypeOK /\ [Next]_vars => TypeOK'
<1> SUFFICES ASSUME TypeOK, [Next]_vars PROVE TypeOK'
  OBVIOUS
<1> USE LessType DEF TypeOK, Goto, ReaderPlaces, WriterPlaces
<1>1. ASSUME NEW t \in Tasks, ReadWait(t) \/ ReadEnter(t) \/ ReadRefused(t) \/ ReadFails(t)
                              \/ ReadEnd(t) \/ ReadCancelled(t)
      PROVE  TypeOK'
  <2>1. CASE ReadEnter(t) \/ ReadRefused(t)
    <3>1. /\ reader_count' = [reader_count EXCEPT ![Home[t]] = @ + 1]
          /\ no_writer_event' \in [Instances -> BOOLEAN]
          /\ UNCHANGED <<writer_waiting, has_active_writer, write_lock, key>>
      BY <2>1 DEF ReadEnter, ReadRefused, CountReader
    <3>2. pc' \in [Tasks -> {"idle"} \cup ReaderPlaces \cup WriterPlaces]
      BY <2>1 DEF ReadEnter, ReadRefused
    <3> QED
      BY <3>1, <3>2
  <2>2. CASE ReadEnd(t)
    BY <1>1, <2>2 DEF ReadEnd
  <2>3. CASE ReadFails(t)
    BY <1>1, <2>3, RetryType DEF ReadFails, Kinds
  <2> QED
    BY <1>1, <2>1, <2>2, <2>3 DEF ReadWait, ReadCancelled
<1>2. ASSUME NEW t \in Tasks, ReadBegin(t) \/ WriteRelease(t) \/ ReadRelease(t)
      PROVE  TypeOK'
  BY <1>2, KeyType DEF ReadBegin, WriteRelease, ReadRelease, Kinds
<1>3. ASSUME NEW t \in Tasks, WriteAsk(t) \/ WriteMark(t) \/ WriteFails(t)
                              \/ WriteLock(t) \/ WriteBegin(t)
      PROVE  TypeOK'
  <2>1. CASE WriteMark(t)
    BY <1>3, <2>1, KeyType DEF WriteMark, Kinds
  <2>2. CASE WriteFails(t)
    BY <1>3, <2>2, RetryType DEF WriteFails, Kinds
  <2> QED
    BY <1>3, <2>1, <2>2 DEF WriteAsk, WriteLock, WriteBegin
<1>4. ASSUME NEW t \in Tasks, WriteEnd(t) \/ WriteCancelled(t)
      PROVE  TypeOK'
  <2>1. CASE WriteEnd(t)
    BY <1>4, <2>1 DEF WriteEnd, Leave
  <2>2. CASE WriteCancelled(t)
    BY <1>4, <2>2 DEF WriteCancelled, Leave
  <2> QED
    BY <1>4, <2>1, <2>2
<1>5. ASSUME NEW k \in Kinds, KeyExpires(k) PROVE TypeOK'
  BY <1>5 DEF KeyExpires
<1>6. CASE UNCHANGED vars
  BY <1>6 DEF vars
<1> QED
  BY <1>1, <1>2, <1>3, <1>4, <1>5, <1>6 DEF Next, Read, Write

\* Type correctness of the table lock.
THEOREM TypeCorrect == Spec => []TypeOK
<1>1. Init => TypeOK
  BY DEF Init, TypeOK
<1> QED
  BY <1>1, NextTypeOK, PTL DEF Spec

-----------------------------------------------------------------------------
(* Counting the readers inside an instance.                                *)

\* There are finitely many of them.
LEMMA InsideFinite ==
    ASSUME NEW i \in Instances
    PROVE  IsFiniteSet(Inside(i)) /\ Cardinality(Inside(i)) \in Nat
<1>1. Inside(i) \subseteq Tasks
  BY DEF Inside
<1> QED
  BY <1>1, FS_Subset, FS_CardinalityType

\* A task that moves between two places outside changes no count.
LEMMA SameInside ==
    ASSUME NEW t \in Tasks, NEW p, TypeOK, Goto(t, p), NEW i \in Instances,
           pc[t] \in {"r_retry", "reading"} <=> p \in {"r_retry", "reading"}
    PROVE  Inside(i)' = Inside(i)
BY DEF TypeOK, Goto, Inside

\* A task that comes in counts one more.
LEMMA OneMoreInside ==
    ASSUME NEW t \in Tasks, TypeOK, Goto(t, "r_retry"), pc[t] \in {"idle", "r_wait"},
           NEW i \in Instances
    PROVE  Cardinality(Inside(i)') = Cardinality(Inside(i)) + (IF i = Home[t] THEN 1 ELSE 0)
<1>1. CASE i = Home[t]
  <2>1. Inside(i)' = Inside(i) \cup {t} /\ t \notin Inside(i)
    BY <1>1 DEF TypeOK, Goto, Inside
  <2> QED
    BY <1>1, <2>1, InsideFinite, FS_AddElement
<1>2. CASE i # Home[t]
  <2>1. Inside(i)' = Inside(i)
    BY <1>2 DEF TypeOK, Goto, Inside
  <2> QED
    BY <1>2, <2>1, InsideFinite
<1> QED
  BY <1>1, <1>2

\* A task that goes out counts one less.
LEMMA OneLessInside ==
    ASSUME NEW t \in Tasks, NEW p, TypeOK, Goto(t, p),
           pc[t] \in {"r_retry", "reading"}, p \notin {"r_retry", "reading"},
           NEW i \in Instances
    PROVE  Cardinality(Inside(i)') = Cardinality(Inside(i)) - (IF i = Home[t] THEN 1 ELSE 0)
<1>1. CASE i = Home[t]
  <2>1. Inside(i)' = Inside(i) \ {t} /\ t \in Inside(i)
    BY <1>1 DEF TypeOK, Goto, Inside
  <2> QED
    BY <1>1, <2>1, InsideFinite, FS_RemoveElement
<1>2. CASE i # Home[t]
  <2>1. Inside(i)' = Inside(i)
    BY <1>2 DEF TypeOK, Goto, Inside
  <2> QED
    BY <1>2, <2>1, InsideFinite
<1> QED
  BY <1>1, <1>2

\* Inside is at home somewhere: a task inside makes the count positive.
LEMMA SomebodyInside ==
    ASSUME NEW t \in Tasks, pc[t] \in {"r_retry", "reading"}
    PROVE  Cardinality(Inside(Home[t])) > 0
<1>1. t \in Inside(Home[t])
  BY DEF Inside
<1> QED
  BY <1>1, InsideFinite, FS_EmptySet

-----------------------------------------------------------------------------
\* The three conjuncts of LockInv.
HolderInv == \A t \in Tasks : pc[t] \in {"w_drain", "writing"} <=> write_lock[Home[t]] = t
DrainInv == \A t \in Tasks : pc[t] = "writing" => reader_count[Home[t]] = 0
CountInv == \A i \in Instances : Cardinality(Inside(i)) <= reader_count[i]

\* LockInv is the conjunction of the three.
LEMMA LockInvSplit == LockInv <=> HolderInv /\ DrainInv /\ CountInv
BY DEF LockInv, HolderInv, DrainInv, CountInv

\* The writer lock is held exactly between its acquisition and its release.
LEMMA NextHolder ==
    ASSUME TypeOK, HolderInv, [Next]_vars
    PROVE  HolderInv'
<1> USE DEF TypeOK, HolderInv, Goto
<1>1. ASSUME NEW t \in Tasks, Read(t) PROVE HolderInv'
  BY <1>1 DEF Read, ReadWait, ReadEnter, ReadRefused, CountReader, ReadBegin, ReadFails,
       ReadEnd, ReadRelease,
     ReadCancelled, AtDoor
<1>2. ASSUME NEW t \in Tasks, WriteAsk(t) \/ WriteMark(t) \/ WriteFails(t)
                              \/ WriteBegin(t) \/ WriteRelease(t)
      PROVE  HolderInv'
  BY <1>2 DEF WriteAsk, WriteMark, WriteFails, WriteBegin, WriteRelease
<1>3. ASSUME NEW t \in Tasks, WriteLock(t) PROVE HolderInv'
  BY <1>3 DEF WriteLock, Locked
<1>4. ASSUME NEW t \in Tasks, WriteEnd(t) PROVE HolderInv'
  BY <1>4 DEF WriteEnd
<1>5. ASSUME NEW t \in Tasks, WriteCancelled(t) PROVE HolderInv'
  BY <1>5 DEF WriteCancelled
<1>6. ASSUME NEW k \in Kinds, KeyExpires(k) PROVE HolderInv'
  BY <1>6 DEF KeyExpires
<1>7. CASE UNCHANGED vars
  BY <1>7 DEF vars
<1> QED
  BY <1>1, <1>2, <1>3, <1>4, <1>5, <1>6, <1>7 DEF Next, Write

\* Every reader inside is counted.
LEMMA NextCount ==
    ASSUME TypeOK, CountInv, [Next]_vars
    PROVE  CountInv'
<1> SUFFICES ASSUME NEW i \in Instances
             PROVE  Cardinality(Inside(i)') <= reader_count'[i]
  BY DEF CountInv
<1>1. Cardinality(Inside(i)) <= reader_count[i] /\ Cardinality(Inside(i)) \in Nat
      /\ reader_count[i] \in Nat
  BY InsideFinite DEF CountInv, TypeOK
<1>2. ASSUME NEW t \in Tasks, ReadEnter(t)
      PROVE  Cardinality(Inside(i)') <= reader_count'[i]
  <2>1. Cardinality(Inside(i)') = Cardinality(Inside(i)) + (IF i = Home[t] THEN 1 ELSE 0)
    BY <1>2, OneMoreInside DEF ReadEnter, CountReader, AtDoor
  <2>2. reader_count'[i] = reader_count[i] + (IF i = Home[t] THEN 1 ELSE 0)
    BY <1>2 DEF ReadEnter, CountReader, TypeOK
  <2> QED
    BY <1>1, <2>1, <2>2
<1>3. ASSUME NEW t \in Tasks, ReadEnd(t)
      PROVE  Cardinality(Inside(i)') <= reader_count'[i]
  <2>1. pc[t] = "reading" /\ Goto(t, "r_release")
    BY <1>3 DEF ReadEnd
  <2>2. Cardinality(Inside(i)') = Cardinality(Inside(i)) - (IF i = Home[t] THEN 1 ELSE 0)
    BY <2>1, OneLessInside
  <2>3. i = Home[t] => Cardinality(Inside(i)) > 0
    BY <2>1, SomebodyInside
  <2>4. reader_count'[i] = IF i = Home[t] THEN Less(reader_count[i]) ELSE reader_count[i]
    BY <1>3 DEF ReadEnd, TypeOK
  <2> QED
    BY <1>1, <2>2, <2>3, <2>4 DEF Less
<1>4. ASSUME NEW t \in Tasks, ReadFails(t)
      PROVE  Cardinality(Inside(i)') <= reader_count'[i]
  <2>1. pc[t] = "r_retry" /\ Goto(t, "idle") /\ reader_count' = reader_count
    BY <1>4 DEF ReadFails
  <2>2. Cardinality(Inside(i)') = Cardinality(Inside(i)) - (IF i = Home[t] THEN 1 ELSE 0)
    BY <2>1, OneLessInside
  <2> QED
    BY <1>1, <2>1, <2>2
<1>5. ASSUME NEW t \in Tasks, ReadWait(t) \/ ReadBegin(t) \/ ReadRelease(t) \/ ReadCancelled(t)
      PROVE  Inside(i)' = Inside(i) /\ reader_count' = reader_count
  BY <1>5, SameInside DEF ReadWait, ReadBegin, ReadRelease, ReadCancelled
<1>6. ASSUME NEW t \in Tasks, Write(t)
      PROVE  Inside(i)' = Inside(i) /\ reader_count' = reader_count
  <2>1. CASE WriteAsk(t) \/ WriteMark(t) \/ WriteFails(t) \/ WriteLock(t)
    BY <2>1, SameInside DEF WriteAsk, WriteMark, WriteFails, WriteLock
  <2>2. CASE WriteBegin(t) \/ WriteEnd(t) \/ WriteRelease(t) \/ WriteCancelled(t)
    BY <2>2, SameInside DEF WriteBegin, WriteEnd, WriteRelease, WriteCancelled
  <2> QED
    BY <1>6, <2>1, <2>2 DEF Write
<1>7. ASSUME NEW k \in Kinds, KeyExpires(k)
      PROVE  Inside(i)' = Inside(i) /\ reader_count' = reader_count
  BY <1>7 DEF KeyExpires, Inside
<1>8. CASE UNCHANGED vars
  BY <1>1, <1>8 DEF vars, Inside
<1>9. ASSUME NEW t \in Tasks, ReadRefused(t)
      PROVE  Cardinality(Inside(i)') <= reader_count'[i]
  <2>1. Inside(i)' = Inside(i)
    BY <1>9, SameInside DEF ReadRefused, CountReader, AtDoor
  <2>2. reader_count'[i] = reader_count[i] + (IF i = Home[t] THEN 1 ELSE 0)
    BY <1>9 DEF ReadRefused, CountReader, TypeOK
  <2> QED
    BY <1>1, <2>1, <2>2
<1> QED
  BY <1>1, <1>2, <1>3, <1>4, <1>5, <1>6, <1>7, <1>8, <1>9 DEF Next, Read

\* While a task writes, no reader gets in: the writer lock is held.
LEMMA NextDrain ==
    ASSUME TypeOK, HolderInv, DrainInv, CountInv, [Next]_vars
    PROVE  DrainInv'
<1> SUFFICES ASSUME NEW u \in Tasks, pc'[u] = "writing"
             PROVE  reader_count'[Home[u]] = 0
  BY DEF DrainInv
<1> USE DEF TypeOK, Goto
<1>1. ASSUME NEW t \in Tasks, ReadEnter(t) \/ ReadRefused(t)
      PROVE  reader_count'[Home[u]] = 0
  <2> USE DEF ReadEnter, ReadRefused, CountReader
  <2>1. pc[u] = "writing" /\ u # t
    BY <1>1 DEF AtDoor
  <2>2. write_lock[Home[u]] # NoTask /\ write_lock[Home[t]] = NoTask
    BY <1>1, <2>1 DEF MustWait, Locked, HolderInv
  <2> QED
    BY <1>1, <2>1, <2>2 DEF DrainInv
<1>2. ASSUME NEW t \in Tasks, ReadEnd(t) PROVE reader_count'[Home[u]] = 0
  BY <1>2 DEF ReadEnd, DrainInv, Less
<1>3. ASSUME NEW t \in Tasks, ReadWait(t) \/ ReadBegin(t) \/ ReadFails(t) \/ ReadRelease(t)
                              \/ ReadCancelled(t)
      PROVE  reader_count'[Home[u]] = 0
  BY <1>3 DEF ReadWait, ReadBegin, ReadFails, ReadRelease, ReadCancelled, DrainInv
<1>4. ASSUME NEW t \in Tasks, WriteAsk(t) \/ WriteMark(t) \/ WriteFails(t) \/ WriteLock(t)
                              \/ WriteEnd(t) \/ WriteRelease(t) \/ WriteCancelled(t)
      PROVE  reader_count'[Home[u]] = 0
  BY <1>4 DEF WriteAsk, WriteMark, WriteFails, WriteLock, WriteEnd, WriteRelease,
     WriteCancelled, DrainInv
<1>5. ASSUME NEW t \in Tasks, WriteBegin(t) PROVE reader_count'[Home[u]] = 0
  BY <1>5 DEF WriteBegin, Drained, DrainInv
<1>6. ASSUME NEW k \in Kinds, KeyExpires(k) PROVE reader_count'[Home[u]] = 0
  BY <1>6 DEF KeyExpires, DrainInv
<1>7. CASE UNCHANGED vars
  BY <1>7 DEF vars, DrainInv
<1> QED
  BY <1>1, <1>2, <1>3, <1>4, <1>5, <1>6, <1>7 DEF Next, Read, Write

\* No readers or writers proceed beside a writer of their instance.
THEOREM ExclusionHolds == Spec => []Exclusion
<1>1. Init => LockInv
  <2>1. ASSUME Init, NEW i \in Instances PROVE Cardinality(Inside(i)) = 0
    <3>1. Inside(i) = {}
      BY <2>1 DEF Init, Inside
    <3> QED
      BY <3>1, FS_EmptySet
  <2> QED
    BY <2>1 DEF Init, LockInv
<1>2. TypeOK /\ LockInv /\ [Next]_vars => LockInv'
  <2>1. LockInv' <=> HolderInv' /\ DrainInv' /\ CountInv'
    BY DEF LockInv, HolderInv, DrainInv, CountInv
  <2> QED
    BY <2>1, LockInvSplit, NextHolder, NextDrain, NextCount
<1>3. TypeOK /\ LockInv => Exclusion
  <2> SUFFICES ASSUME TypeOK, LockInv, NEW t \in Tasks, NEW u \in Tasks, t # u,
                      pc[t] = "writing", Home[t] = Home[u]
               PROVE  pc[u] \notin {"reading", "writing"}
    BY DEF Exclusion
  <2>1. pc[u] # "writing"
    BY DEF LockInv
  <2>2. Cardinality(Inside(Home[u])) <= 0
    BY DEF LockInv
  <2>3. pc[u] # "reading"
    BY <2>2, SomebodyInside, InsideFinite
  <2> QED
    BY <2>1, <2>3
<1> QED
  BY <1>1, <1>2, <1>3, TypeCorrect, PTL DEF Spec

-----------------------------------------------------------------------------
(* The counts are exact and no sleeper is forgotten.                         *)

\* Without a failure of the smart retry or the order check reader_count is exact: what a step does to
\* the readers inside it does to the count.
LEMMA NextReaders ==
    ASSUME TypeOK, NoPhantomReader, [Next]_vars,
           "cancel_retry" \notin Faults, "hierarchy" \notin Faults,
           "give_up" \notin Faults \/ ~WithRedis
    PROVE  NoPhantomReader'
<1> SUFFICES ASSUME NEW i \in Instances
             PROVE  reader_count'[i] = Cardinality(Inside(i)')
  BY DEF NoPhantomReader
<1>1. reader_count[i] = Cardinality(Inside(i)) /\ Cardinality(Inside(i)) \in Nat
  BY InsideFinite DEF NoPhantomReader
<1>2. ASSUME NEW t \in Tasks, ReadEnter(t)
      PROVE  reader_count'[i] = Cardinality(Inside(i)')
  <2>1. Cardinality(Inside(i)') = Cardinality(Inside(i)) + (IF i = Home[t] THEN 1 ELSE 0)
    BY <1>2, OneMoreInside DEF ReadEnter, CountReader, AtDoor
  <2>2. reader_count'[i] = reader_count[i] + (IF i = Home[t] THEN 1 ELSE 0)
    BY <1>2 DEF ReadEnter, CountReader, TypeOK
  <2> QED
    BY <1>1, <2>1, <2>2
<1>3. ASSUME NEW t \in Tasks, ReadEnd(t)
      PROVE  reader_count'[i] = Cardinality(Inside(i)')
  <2>1. pc[t] = "reading" /\ Goto(t, "r_release")
    BY <1>3 DEF ReadEnd
  <2>2. Cardinality(Inside(i)') = Cardinality(Inside(i)) - (IF i = Home[t] THEN 1 ELSE 0)
    BY <2>1, OneLessInside
  <2>3. i = Home[t] => Cardinality(Inside(i)) > 0
    BY <2>1, SomebodyInside
  <2>4. reader_count'[i] = IF i = Home[t] THEN Less(reader_count[i]) ELSE reader_count[i]
    BY <1>3 DEF ReadEnd, TypeOK
  <2> QED
    BY <1>1, <2>2, <2>3, <2>4 DEF Less
<1>4. ASSUME NEW t \in Tasks PROVE ~ReadFails(t) /\ ~ReadRefused(t)
  BY DEF ReadFails, ReadRefused, RetryEnds
<1>5. ASSUME NEW t \in Tasks, ReadWait(t) \/ ReadBegin(t) \/ ReadRelease(t) \/ ReadCancelled(t)
      PROVE  Inside(i)' = Inside(i) /\ reader_count' = reader_count
  BY <1>5, SameInside DEF ReadWait, ReadBegin, ReadRelease, ReadCancelled
<1>6. ASSUME NEW t \in Tasks, Write(t)
      PROVE  Inside(i)' = Inside(i) /\ reader_count' = reader_count
  <2>1. CASE WriteAsk(t) \/ WriteMark(t) \/ WriteFails(t) \/ WriteLock(t)
    BY <2>1, SameInside DEF WriteAsk, WriteMark, WriteFails, WriteLock
  <2>2. CASE WriteBegin(t) \/ WriteEnd(t) \/ WriteRelease(t) \/ WriteCancelled(t)
    BY <2>2, SameInside DEF WriteBegin, WriteEnd, WriteRelease, WriteCancelled
  <2> QED
    BY <1>6, <2>1, <2>2 DEF Write
<1>7. ASSUME NEW k \in Kinds, KeyExpires(k)
      PROVE  Inside(i)' = Inside(i) /\ reader_count' = reader_count
  BY <1>7 DEF KeyExpires, Inside
<1>8. CASE UNCHANGED vars
  BY <1>1, <1>8 DEF vars, Inside
<1> QED
  BY <1>1, <1>2, <1>3, <1>4, <1>5, <1>6, <1>7, <1>8 DEF Next, Read

\* reader_count is the number of readers there are, as long as no reader loses its
\* fight for the Redis key and the order check refuses none: a cancellation anywhere
\* else leaves no phantom.
THEOREM ReadersCounted ==
    ASSUME "cancel_retry" \notin Faults, "hierarchy" \notin Faults,
           "give_up" \notin Faults \/ ~WithRedis
    PROVE  Spec => []NoPhantomReader
<1>1. Init => NoPhantomReader
  <2> SUFFICES ASSUME Init, NEW i \in Instances PROVE reader_count[i] = Cardinality(Inside(i))
    BY DEF NoPhantomReader
  <2>1. Inside(i) = {}
    BY DEF Init, Inside
  <2> QED
    BY <2>1, FS_EmptySet DEF Init
<1>2. TypeOK /\ NoPhantomReader /\ [Next]_vars => NoPhantomReader'
  BY NextReaders
<1> QED
  BY <1>1, <1>2, TypeCorrect, PTL DEF Spec

\* Of the writers that are marked there are finitely many.
LEMMA WritersFinite ==
    ASSUME NEW i \in Instances
    PROVE  /\ IsFiniteSet(Writers(i)) /\ Cardinality(Writers(i)) \in Nat
           /\ Cardinality(Writers(i)) = 0 <=> Writers(i) = {}
<1>1. Writers(i) \subseteq Tasks
  BY DEF Writers
<1> QED
  BY <1>1, FS_Subset, FS_CardinalityType, FS_EmptySet

\* The writer who is active is one that writes, the lock is held at home, and readers are woken when no
\* writer is marked.
ActiveInv == \A i \in Instances : has_active_writer[i] => \E t \in Tasks : Home[t] = i /\ pc[t] = "writing"

HomeInv == \A i \in Instances : write_lock[i] # NoTask => Home[write_lock[i]] = i

WakeupInv == HolderInv /\ HomeInv /\ ActiveInv /\ NoLostWakeup

\* A task that moves between two places of which neither is a marked writer's, or
\* both are, is no reason to wake anybody.
LEMMA SameWriters ==
    ASSUME NEW t \in Tasks, NEW p, TypeOK, Goto(t, p), NEW i \in Instances,
           pc[t] \in {"w_queue", "w_drain", "writing"} <=> p \in {"w_queue", "w_drain", "writing"}
    PROVE  Writers(i)' = Writers(i)
BY DEF TypeOK, Goto, Writers

\* With no marked writer the lock is free and nobody is active.
LEMMA NobodyMarked ==
    ASSUME TypeOK, WakeupInv, NEW i \in Instances, writer_waiting[i] = 0
    PROVE  Writers(i) = {} /\ no_writer_event[i]
<1>1. Cardinality(Writers(i)) = 0
  BY DEF WakeupInv, NoLostWakeup
<1> QED
  BY <1>1, WritersFinite DEF WakeupInv, NoLostWakeup

\* The writers' counter and the event follow the steps of readers.
LEMMA ReadWakeup ==
    ASSUME TypeOK, WakeupInv, NEW t \in Tasks, Read(t)
    PROVE  NoLostWakeup'
<1>1. PICK p : /\ Goto(t, p) /\ p \notin {"w_queue", "w_drain", "writing"}
               /\ pc[t] \notin {"w_queue", "w_drain", "writing"}
  <2>1. PICK p \in {"r_wait", "r_retry", "reading", "idle", "r_release"} : Goto(t, p)
    BY DEF Read, ReadWait, ReadEnter, ReadRefused, CountReader, ReadBegin, ReadFails,
       ReadEnd, ReadRelease, ReadCancelled
  <2>2. pc[t] \in {"idle", "r_wait", "r_retry", "reading", "r_release"}
    BY DEF Read, ReadWait, ReadEnter, ReadRefused, CountReader, ReadBegin, ReadFails,
       ReadEnd, ReadRelease, ReadCancelled, AtDoor
  <2> QED
    BY <2>1, <2>2
<1>2. \A i \in Instances : Writers(i)' = Writers(i)
  BY <1>1, SameWriters
<1>3. writer_waiting' = writer_waiting
  BY DEF Read, ReadWait, ReadEnter, ReadRefused, CountReader, ReadBegin, ReadFails,
     ReadEnd, ReadRelease, ReadCancelled
<1>4. \A i \in Instances : (no_writer_event'[i] <=> no_writer_event[i])
                           \/ (writer_waiting[i] = 0 /\ no_writer_event'[i])
  <2>1. CASE ReadEnter(t) \/ ReadRefused(t)
    BY <2>1 DEF ReadEnter, ReadRefused, CountReader, TypeOK
  <2>2. CASE ReadEnd(t)
    BY <2>2 DEF ReadEnd, TypeOK
  <2>3. CASE ~ReadEnter(t) /\ ~ReadRefused(t) /\ ~ReadEnd(t)
    BY <2>3 DEF Read, ReadWait, ReadBegin, ReadFails, ReadRelease, ReadCancelled
  <2> QED
    BY <2>1, <2>2, <2>3
<1>5. \A i \in Instances : no_writer_event'[i] <=> no_writer_event[i]
  BY <1>4, NobodyMarked
<1> QED
  BY <1>2, <1>3, <1>5 DEF NoLostWakeup, WakeupInv

\* A writer that marks itself counts one more, and readers sleep from now on.
LEMMA MarkWakeup ==
    ASSUME TypeOK, WakeupInv, NEW t \in Tasks, WriteMark(t)
    PROVE  NoLostWakeup'
<1> SUFFICES ASSUME NEW i \in Instances
             PROVE  /\ writer_waiting'[i] = Cardinality(Writers(i)')
                    /\ no_writer_event'[i] <=> Writers(i)' = {}
  BY DEF NoLostWakeup
<1>1. pc[t] = "w_retry" /\ Goto(t, "w_queue")
  BY DEF WriteMark
<1>2. /\ writer_waiting[i] = Cardinality(Writers(i))
      /\ no_writer_event[i] <=> Writers(i) = {}
  BY DEF WakeupInv, NoLostWakeup
<1>3. CASE i = Home[t]
  <2>1. Writers(i)' = Writers(i) \cup {t} /\ t \notin Writers(i)
    BY <1>1, <1>3 DEF TypeOK, Goto, Writers
  <2>2. Cardinality(Writers(i)') = Cardinality(Writers(i)) + 1
    BY <2>1, WritersFinite, FS_AddElement
  <2>3. writer_waiting'[i] = writer_waiting[i] + 1 /\ ~no_writer_event'[i]
    BY <1>3 DEF WriteMark, TypeOK
  <2> QED
    BY <1>2, <2>1, <2>2, <2>3
<1>4. CASE i # Home[t]
  <2>1. Writers(i)' = Writers(i)
    BY <1>1, <1>4 DEF TypeOK, Goto, Writers
  <2>2. writer_waiting'[i] = writer_waiting[i] /\ no_writer_event'[i] = no_writer_event[i]
    BY <1>4 DEF WriteMark, TypeOK
  <2> QED
    BY <1>2, <2>1, <2>2
<1> QED
  BY <1>3, <1>4

\* A writer that leaves counts one less, and the last one wakes the readers: when
\* nobody is marked any more the lock is free and no writer is active.
LEMMA LeaveWakeup ==
    ASSUME TypeOK, WakeupInv, NEW t \in Tasks, NEW lock, Goto(t, "w_release"),
           pc[t] \in {"w_queue", "w_drain", "writing"}, Leave(Home[t], lock),
           lock = (IF write_lock[Home[t]] = t THEN NoTask ELSE write_lock[Home[t]]),
           has_active_writer' = IF pc[t] = "writing"
                                THEN [has_active_writer EXCEPT ![Home[t]] = FALSE]
                                ELSE has_active_writer
    PROVE  NoLostWakeup'
<1> SUFFICES ASSUME NEW i \in Instances
             PROVE  /\ writer_waiting'[i] = Cardinality(Writers(i)')
                    /\ no_writer_event'[i] <=> Writers(i)' = {}
  BY DEF NoLostWakeup
<1>2. /\ writer_waiting[i] = Cardinality(Writers(i))
      /\ no_writer_event[i] <=> Writers(i) = {}
  BY DEF WakeupInv, NoLostWakeup
<1>3. CASE i = Home[t]
  <2>1. Writers(i)' = Writers(i) \ {t} /\ t \in Writers(i)
    BY <1>3 DEF TypeOK, Goto, Writers
  <2>2. /\ Cardinality(Writers(i)') = Cardinality(Writers(i)) - 1
        /\ Cardinality(Writers(i)) \in Nat /\ Cardinality(Writers(i)) > 0
        /\ Cardinality(Writers(i)') = 0 <=> Writers(i)' = {}
    <3>1. /\ Cardinality(Writers(i)') = Cardinality(Writers(i)) - 1 /\ IsFiniteSet(Writers(i)')
          /\ Cardinality(Writers(i)) \in Nat /\ Cardinality(Writers(i)) # 0
      BY <2>1, WritersFinite, FS_RemoveElement
    <3> QED
      BY <3>1, FS_EmptySet
  <2>3. Less(writer_waiting[i]) = Cardinality(Writers(i)')
    BY <1>2, <2>2 DEF Less
  <2>4. /\ writer_waiting'[i] = Less(writer_waiting[i])
        /\ no_writer_event'[i] = (no_writer_event[i] \/ (Less(writer_waiting[i]) = 0 /\ lock = NoTask
                                                        /\ ~has_active_writer'[i]))
    BY <1>3 DEF Leave, TypeOK
  <2>5. ASSUME Writers(i)' = {} PROVE lock = NoTask /\ ~has_active_writer'[i]
    <3>1. \A u \in Tasks : Home[u] = i /\ pc[u] \in {"w_queue", "w_drain", "writing"} => u = t
      BY <2>1, <2>5 DEF Writers
    <3>2. lock = NoTask
      BY <1>3, <3>1 DEF WakeupInv, HolderInv, HomeInv, TypeOK
    <3>3. has_active_writer[i] => pc[t] = "writing"
      BY <3>1 DEF WakeupInv, ActiveInv
    <3>4. ~has_active_writer'[i]
      <4>1. CASE pc[t] = "writing"
        BY <1>3, <4>1 DEF TypeOK
      <4>2. CASE pc[t] # "writing"
        BY <3>3, <4>2
      <4> QED
        BY <4>1, <4>2
    <3> QED
      BY <3>2, <3>4
  <2>6. ~no_writer_event[i]
    BY <1>2, <2>1
  <2> QED
    BY <2>2, <2>3, <2>4, <2>5, <2>6
<1>4. CASE i # Home[t]
  <2>1. Writers(i)' = Writers(i)
    BY <1>4 DEF TypeOK, Goto, Writers
  <2>2. writer_waiting'[i] = writer_waiting[i] /\ no_writer_event'[i] = no_writer_event[i]
    BY <1>4 DEF Leave, TypeOK
  <2> QED
    BY <1>2, <2>1, <2>2
<1> QED
  BY <1>3, <1>4

\* The writer that is active is still there, or the mark went with it.
LEMMA NextActive ==
    ASSUME TypeOK, ActiveInv, HolderInv, [Next]_vars
    PROVE  ActiveInv'
<1> USE DEF TypeOK, ActiveInv, Goto
<1>1. ASSUME NEW t \in Tasks, Read(t) PROVE ActiveInv'
  <2>1. pc[t] # "writing" /\ has_active_writer' = has_active_writer
        /\ \A u \in Tasks : u # t => pc'[u] = pc[u]
    BY <1>1 DEF Read, ReadWait, ReadEnter, ReadRefused, CountReader, ReadBegin, ReadFails,
       ReadEnd, ReadRelease,
       ReadCancelled, AtDoor
  <2> QED
    BY <2>1
<1>2. ASSUME NEW t \in Tasks, WriteAsk(t) \/ WriteMark(t) \/ WriteFails(t) \/ WriteLock(t)
                              \/ WriteRelease(t) \/ WriteCancelled(t)
      PROVE  ActiveInv'
  <2>1. pc[t] # "writing" /\ has_active_writer' = has_active_writer
        /\ \A u \in Tasks : u # t => pc'[u] = pc[u]
    BY <1>2 DEF WriteAsk, WriteMark, WriteFails, WriteLock, WriteRelease, WriteCancelled
  <2> QED
    BY <2>1
<1>3. ASSUME NEW t \in Tasks, WriteBegin(t) PROVE ActiveInv'
  BY <1>3 DEF WriteBegin
<1>4. ASSUME NEW t \in Tasks, WriteEnd(t) PROVE ActiveInv'
  BY <1>4 DEF WriteEnd
<1>5. ASSUME NEW k \in Kinds, KeyExpires(k) PROVE ActiveInv'
  BY <1>5 DEF KeyExpires
<1>6. CASE UNCHANGED vars
  BY <1>6 DEF vars
<1> QED
  BY <1>1, <1>2, <1>3, <1>4, <1>5, <1>6 DEF Next, Write

\* The lock of an instance is only ever held by tasks of that instance.
LEMMA NextHome ==
    ASSUME TypeOK, HomeInv, [Next]_vars
    PROVE  HomeInv'
<1> USE DEF TypeOK, HomeInv
<1>1. ASSUME NEW t \in Tasks, Read(t) PROVE HomeInv'
  BY <1>1 DEF Read, ReadWait, ReadEnter, ReadRefused, CountReader, ReadBegin, ReadFails,
     ReadEnd, ReadRelease, ReadCancelled
<1>2. ASSUME NEW t \in Tasks, WriteAsk(t) \/ WriteMark(t) \/ WriteFails(t) \/ WriteBegin(t)
                              \/ WriteRelease(t)
      PROVE  HomeInv'
  BY <1>2 DEF WriteAsk, WriteMark, WriteFails, WriteBegin, WriteRelease
<1>3. ASSUME NEW t \in Tasks, WriteLock(t) \/ WriteEnd(t) PROVE HomeInv'
  BY <1>3 DEF WriteLock, WriteEnd
<1>4. ASSUME NEW t \in Tasks, WriteCancelled(t) PROVE HomeInv'
  BY <1>4 DEF WriteCancelled
<1>5. ASSUME NEW k \in Kinds, KeyExpires(k) PROVE HomeInv'
  BY <1>5 DEF KeyExpires
<1>6. CASE UNCHANGED vars
  BY <1>6 DEF vars
<1> QED
  BY <1>1, <1>2, <1>3, <1>4, <1>5, <1>6 DEF Next, Write

\* The event and the writers' counter are right after every step.
LEMMA NextWakeup ==
    ASSUME TypeOK, WakeupInv, [Next]_vars
    PROVE  WakeupInv'
<1>1. HolderInv' /\ HomeInv' /\ ActiveInv'
  BY NextHolder, NextHome, NextActive DEF WakeupInv
<1>2. ASSUME NEW t \in Tasks, WriteAsk(t) \/ WriteFails(t) \/ WriteLock(t) \/ WriteBegin(t)
                              \/ WriteRelease(t)
      PROVE  NoLostWakeup'
  <2>1. \A i \in Instances : Writers(i)' = Writers(i)
    BY <1>2, SameWriters DEF WriteAsk, WriteFails, WriteLock, WriteBegin, WriteRelease
  <2>2. UNCHANGED <<writer_waiting, no_writer_event>>
    BY <1>2 DEF WriteAsk, WriteFails, WriteLock, WriteBegin, WriteRelease
  <2> QED
    BY <2>1, <2>2 DEF WakeupInv, NoLostWakeup
<1>3. ASSUME NEW t \in Tasks, WriteEnd(t) PROVE NoLostWakeup'
  <2>1. /\ pc[t] = "writing" /\ Goto(t, "w_release") /\ Leave(Home[t], NoTask)
        /\ has_active_writer' = [has_active_writer EXCEPT ![Home[t]] = FALSE]
    BY <1>3 DEF WriteEnd
  <2>2. write_lock[Home[t]] = t
    BY <2>1 DEF WakeupInv, HolderInv
  <2> QED
    BY <2>1, <2>2, LeaveWakeup
<1>4. ASSUME NEW t \in Tasks, WriteCancelled(t) PROVE NoLostWakeup'
  BY <1>4, LeaveWakeup DEF WriteCancelled
<1>5. ASSUME NEW k \in Kinds, KeyExpires(k) PROVE NoLostWakeup'
  BY <1>5 DEF KeyExpires, WakeupInv, NoLostWakeup, Writers
<1>6. ASSUME UNCHANGED vars PROVE NoLostWakeup'
  BY <1>6 DEF vars, WakeupInv, NoLostWakeup, Writers
<1>7. NoLostWakeup'
  BY <1>2, <1>3, <1>4, <1>5, <1>6, ReadWakeup, MarkWakeup DEF Next, Write
<1> QED
  BY <1>1, <1>7 DEF WakeupInv

\* The event readers sleep on is clear exactly while a marked writer is there to set
\* it, through every cancellation and every failure of Redis: no sleeper is
\* forgotten.
THEOREM WakeupsKept == Spec => []NoLostWakeup
<1>1. Init => WakeupInv
  <2> SUFFICES ASSUME Init PROVE WakeupInv
    OBVIOUS
  <2>1. \A i \in Instances : Writers(i) = {}
    BY DEF Init, Writers
  <2>2. NoLostWakeup
    BY <2>1, FS_EmptySet DEF Init, NoLostWakeup
  <2> QED
    BY <2>2 DEF Init, WakeupInv, HolderInv, HomeInv, ActiveInv
<1>2. TypeOK /\ WakeupInv /\ [Next]_vars => WakeupInv'
  BY NextWakeup
<1>3. WakeupInv => NoLostWakeup
  BY DEF WakeupInv
<1> QED
  BY <1>1, <1>2, <1>3, TypeCorrect, PTL DEF Spec

-----------------------------------------------------------------------------
(* One writer across the instances.                                          *)

\* A marked writer's key in Redis is its own.
KeyInv == \A t \in Tasks : pc[t] \in {"w_queue", "w_drain", "writing", "w_release"} => key["write"] = t

\* While Redis has the keys and none outlives its holder, a writer keeps its key up
\* to the release.
LEMMA NextKey ==
    ASSUME TypeOK, KeyInv, [Next]_vars, WithRedis, ~SlowHolders
    PROVE  KeyInv'
<1> USE DEF TypeOK, KeyInv, Goto, Kinds
<1>1. ASSUME NEW t \in Tasks, Read(t) PROVE KeyInv'
  <2>1. key'["write"] = key["write"]
    BY <1>1 DEF Read, ReadWait, ReadEnter, ReadRefused, CountReader, ReadBegin, ReadFails,
       ReadEnd, ReadRelease,
       ReadCancelled, TakeKey, DropKey, RetryEnds
  <2>2. \A u \in Tasks : pc'[u] \in {"w_queue", "w_drain", "writing", "w_release"} => pc'[u] = pc[u]
    BY <1>1 DEF Read, ReadWait, ReadEnter, ReadRefused, CountReader, ReadBegin, ReadFails,
       ReadEnd, ReadRelease, ReadCancelled
  <2> QED
    BY <2>1, <2>2
<1>2. ASSUME NEW t \in Tasks, WriteAsk(t) \/ WriteLock(t) \/ WriteBegin(t) \/ WriteEnd(t)
                              \/ WriteCancelled(t)
      PROVE  KeyInv'
  BY <1>2 DEF WriteAsk, WriteLock, WriteBegin, WriteEnd, WriteCancelled
<1>3. ASSUME NEW t \in Tasks, WriteMark(t) PROVE KeyInv'
  BY <1>3 DEF WriteMark, TakeKey
<1>4. ASSUME NEW t \in Tasks, WriteFails(t) PROVE KeyInv'
  <2>1. pc' = [pc EXCEPT ![t] = "idle"]
    BY <1>4 DEF WriteFails
  <2>2. CASE UNCHANGED key
    BY <2>1, <2>2
  <2>3. CASE TakeKey(t, "write")
    <3>1. key["write"] = NoTask
      BY <2>3 DEF TakeKey
    <3> QED
      BY <2>1, <3>1
  <2> QED
    BY <1>4, <2>2, <2>3 DEF WriteFails, RetryEnds
<1>5. ASSUME NEW t \in Tasks, WriteRelease(t) PROVE KeyInv'
  <2>1. key["write"] = t /\ pc' = [pc EXCEPT ![t] = "idle"]
    BY <1>5 DEF WriteRelease
  <2> QED
    BY <2>1
<1>6. ASSUME NEW k \in Kinds, KeyExpires(k) PROVE KeyInv'
  BY <1>6 DEF KeyExpires, KeyInUse
<1>7. CASE UNCHANGED vars
  BY <1>7 DEF vars
<1> QED
  BY <1>1, <1>2, <1>3, <1>4, <1>5, <1>6, <1>7 DEF Next, Write

\* With the Redis key one writer writes in all instances together, whatever fails,
\* as long as no key expires under its holder.
THEOREM OneWriterHolds ==
    ASSUME WithRedis, ~SlowHolders
    PROVE  Spec => []OneWriter
<1>1. Init => KeyInv
  BY DEF Init, KeyInv
<1>2. TypeOK /\ KeyInv /\ [Next]_vars => KeyInv'
  BY NextKey
<1>3. TypeOK /\ KeyInv => OneWriter
  BY DEF KeyInv, OneWriter
<1> QED
  BY <1>1, <1>2, <1>3, TypeCorrect, PTL DEF Spec

-----------------------------------------------------------------------------
(* The action locks.                                                       *)

USE ActionLockAssumption

Request == [at : {"join", "sent", "backoff", "held"}, key : LockKeys, id : Ids, first : Ids,
            tries : Nat, retry : BOOLEAN]

Busy(c) == req[c].at # "idle"

TypeInv ==
  /\ lastId \in 0..MaxIds
  /\ store \in [LockKeys -> Ids \cup {None}]
  /\ req \in [Clients -> {Idle} \cup Request]
  /\ line \in [SmartKeys -> SUBSET Ids]
  /\ spent \in [LockKeys -> SUBSET Ids]
  /\ stranded \subseteq Ids

\* Ids are handed out in order, and every request under way has one of its own.
IdsInv ==
  /\ \A c \in Clients : Busy(c) => req[c].id <= lastId /\ req[c].first <= lastId
  /\ \A k \in SmartKeys : \A i \in line[k] : i <= lastId
  /\ \A c, d \in Clients : c # d /\ Busy(c) /\ Busy(d) => req[c].id # req[d].id

\* Until a time to live runs out on a smart key, who holds it has set it.
SmartHeld ==
  \A k \in SmartKeys : spent[k] = {} => \A c \in Holders(k) : store[k] = req[c].id

KeysInv == TypeInv /\ IdsInv /\ TokenHeld /\ SmartHeld /\ LineIsOfWaiters

-----------------------------------------------------------------------------
(* Types and ids.                                                          *)

\* A request under way is a record with a key and ids.
LEMMA BusyIsRequest ==
  ASSUME TypeInv, NEW c \in Clients, Busy(c)
  PROVE  req[c] \in Request
BY DEF TypeInv, Busy, Idle

\* Taking a waiter off the list leaves the other waiters.
LEMMA DequeueType ==
  ASSUME TypeInv, NEW c \in Clients, req[c] \in Request, NEW removed \in BOOLEAN,
         Dequeue(c, removed)
  PROVE  /\ line' \in [SmartKeys -> SUBSET Ids]
         /\ stranded' \subseteq Ids
         /\ \A k \in SmartKeys : line'[k] \subseteq line[k]
BY DEF TypeInv, Dequeue, Strand, Request

\* Joining a list adds the client's own entry, if any.
LEMMA JoinType ==
  ASSUME TypeInv, NEW c \in Clients, req[c] \in Request, NEW pushed \in BOOLEAN,
         JoinLine(c, pushed) \/ CancelJoin(c, pushed)
  PROVE  /\ line' \in [SmartKeys -> SUBSET Ids]
         /\ stranded' \subseteq Ids
         /\ \A k \in SmartKeys : line'[k] \subseteq line[k] \cup {req[c].first}
BY DEF TypeInv, JoinLine, CancelJoin, Strand, Request

\* Every step keeps the types.
LEMMA TypeStep ==
  ASSUME TypeInv, ActionNext
  PROVE  TypeInv'
<1> USE DEF TypeInv, Request, Idle, LockKeys, Ids
<1>1. ASSUME NEW c \in Clients, NEW k \in TokenKeys, NEW r \in BOOLEAN, AskToken(c, k, r)
      PROVE  TypeInv'
  BY <1>1 DEF AskToken
<1>2. ASSUME NEW c \in Clients, NEW k \in SmartKeys, AskSmart(c, k)
      PROVE  TypeInv'
  BY <1>2 DEF AskSmart
<1>3. ASSUME NEW c \in Clients, NEW removed \in BOOLEAN, Granted(c, removed)
      PROVE  TypeInv'
  <2>1. req[c] \in Request
    BY <1>3, BusyIsRequest DEF Granted, Busy
  <2>2. /\ line' \in [SmartKeys -> SUBSET Ids]
        /\ stranded' \subseteq Ids
        /\ \A k \in SmartKeys : line'[k] \subseteq line[k]
    BY <1>3, <2>1, DequeueType DEF Granted
  <2> QED
    BY <1>3, <2>1, <2>2 DEF Granted, Key
<1>4. ASSUME NEW c \in Clients, Contended(c)
      PROVE  TypeInv'
  <2>1. req[c] \in Request
    BY <1>4, BusyIsRequest DEF Contended, Busy
  <2> QED
    BY <1>4, <2>1 DEF Contended, Fail
<1>5. ASSUME NEW c \in Clients, TryAgain(c)
      PROVE  TypeInv'
  <2>1. req[c] \in Request
    BY <1>5, BusyIsRequest DEF TryAgain, Busy
  <2> QED
    BY <1>5, <2>1 DEF TryAgain
<1>6. ASSUME NEW c \in Clients, NEW removed \in BOOLEAN,
             GiveUpRequest(c, removed) \/ ClientCrashes(c)
      PROVE  TypeInv'
  <2>1. req[c] \in Request
    BY <1>6, BusyIsRequest DEF GiveUpRequest, ClientCrashes, Busy
  <2>2. CASE GiveUpRequest(c, removed)
    <3>1. /\ line' \in [SmartKeys -> SUBSET Ids]
          /\ stranded' \subseteq Ids
          /\ \A k \in SmartKeys : line'[k] \subseteq line[k]
      BY <2>1, <2>2, DequeueType DEF GiveUpRequest
    <3> QED
      BY <2>2, <3>1 DEF GiveUpRequest, Key
  <2>3. CASE ClientCrashes(c)
    BY <2>1, <2>3 DEF ClientCrashes, Key, Strand
  <2> QED
    BY <1>6, <2>2, <2>3
<1>7. ASSUME NEW c \in Clients, NEW applied \in BOOLEAN, AnswerLost(c, applied)
      PROVE  TypeInv'
  <2>1. req[c] \in Request
    BY <1>7, BusyIsRequest DEF AnswerLost, Busy
  <2> QED
    BY <1>7, <2>1 DEF AnswerLost, Fail, Key
<1>8. ASSUME NEW c \in Clients, NEW applied \in BOOLEAN, ReleaseLock(c, applied)
      PROVE  TypeInv'
  BY <1>8 DEF ReleaseLock, DropOwn, DropAny
<1>9. ASSUME NEW k \in LockKeys, Expire(k)
      PROVE  TypeInv'
  BY <1>9 DEF Expire
<1>10. ASSUME NEW k \in SmartKeys, ExpireQueue(k)
       PROVE  TypeInv'
  BY <1>10 DEF ExpireQueue
<1>11. ASSUME NEW c \in Clients, NEW pushed \in BOOLEAN,
              JoinLine(c, pushed) \/ CancelJoin(c, pushed)
       PROVE  TypeInv'
  <2>1. req[c] \in Request
    BY <1>11, BusyIsRequest DEF JoinLine, CancelJoin, Busy
  <2>2. /\ line' \in [SmartKeys -> SUBSET Ids]
        /\ stranded' \subseteq Ids
        /\ \A k \in SmartKeys : line'[k] \subseteq line[k] \cup {req[c].first}
    BY <1>11, <2>1, JoinType
  <2>3. UNCHANGED <<store, spent, lastId>>
    BY <1>11 DEF JoinLine, CancelJoin
  <2>4. CASE JoinLine(c, pushed)
    BY <2>1, <2>2, <2>3, <2>4 DEF JoinLine, Key
  <2>5. CASE CancelJoin(c, pushed)
    BY <2>1, <2>2, <2>3, <2>5 DEF CancelJoin, Key
  <2> QED
    BY <1>11, <2>4, <2>5
<1> QED
  BY <1>1, <1>2, <1>3, <1>4, <1>5, <1>6, <1>7, <1>8, <1>9, <1>10, <1>11
     DEF ActionNext

\* A new try has the next id, which no other request has.
LEMMA IdsStep ==
  ASSUME TypeInv, IdsInv, ActionNext
  PROVE  IdsInv'
<1> USE DEF TypeInv, IdsInv, Request, Idle, Busy, LockKeys, Ids
<1>1. ASSUME NEW c \in Clients, NEW k \in TokenKeys, NEW r \in BOOLEAN, AskToken(c, k, r)
      PROVE  IdsInv'
  BY <1>1 DEF AskToken
<1>2. ASSUME NEW c \in Clients, NEW k \in SmartKeys, AskSmart(c, k)
      PROVE  IdsInv'
  BY <1>2 DEF AskSmart
<1>3. ASSUME NEW c \in Clients, NEW removed \in BOOLEAN, Granted(c, removed)
      PROVE  IdsInv'
  <2>1. req[c] \in Request
    BY <1>3, BusyIsRequest DEF Granted, Busy
  <2>2. /\ line' \in [SmartKeys -> SUBSET Ids]
        /\ stranded' \subseteq Ids
        /\ \A k \in SmartKeys : line'[k] \subseteq line[k]
    BY <1>3, <2>1, DequeueType DEF Granted
  <2> QED
    BY <1>3, <2>1, <2>2 DEF Granted, Key
<1>4. ASSUME NEW c \in Clients, Contended(c)
      PROVE  IdsInv'
  <2>1. req[c] \in Request
    BY <1>4, BusyIsRequest DEF Contended
  <2> QED
    BY <1>4, <2>1 DEF Contended, Fail, Key
<1>5. ASSUME NEW c \in Clients, TryAgain(c)
      PROVE  IdsInv'
  <2>1. req[c] \in Request
    BY <1>5, BusyIsRequest DEF TryAgain
  <2> QED
    BY <1>5, <2>1 DEF TryAgain, Key
<1>6. ASSUME NEW c \in Clients, NEW removed \in BOOLEAN,
             GiveUpRequest(c, removed) \/ ClientCrashes(c)
      PROVE  IdsInv'
  <2>1. req[c] \in Request
    BY <1>6, BusyIsRequest DEF GiveUpRequest, ClientCrashes, Busy
  <2>2. CASE GiveUpRequest(c, removed)
    <3>1. /\ line' \in [SmartKeys -> SUBSET Ids]
          /\ stranded' \subseteq Ids
          /\ \A k \in SmartKeys : line'[k] \subseteq line[k]
      BY <2>1, <2>2, DequeueType DEF GiveUpRequest
    <3> QED
      BY <2>2, <3>1 DEF GiveUpRequest, Key
  <2>3. CASE ClientCrashes(c)
    BY <2>1, <2>3 DEF ClientCrashes, Key, Strand
  <2> QED
    BY <1>6, <2>2, <2>3
<1>7. ASSUME NEW c \in Clients, NEW applied \in BOOLEAN, AnswerLost(c, applied)
      PROVE  IdsInv'
  <2>1. req[c] \in Request
    BY <1>7, BusyIsRequest DEF AnswerLost
  <2> QED
    BY <1>7, <2>1 DEF AnswerLost, Fail, Key
<1>8. ASSUME NEW c \in Clients, NEW applied \in BOOLEAN, ReleaseLock(c, applied)
      PROVE  IdsInv'
  <2>1. req[c] \in Request
    BY <1>8, BusyIsRequest DEF ReleaseLock
  <2> QED
    BY <1>8, <2>1 DEF ReleaseLock, DropOwn, DropAny, Key
<1>9. ASSUME NEW k \in LockKeys, Expire(k)
      PROVE  IdsInv'
  BY <1>9 DEF Expire, Key
<1>10. ASSUME NEW k \in SmartKeys, ExpireQueue(k)
       PROVE  IdsInv'
  BY <1>10 DEF ExpireQueue, Key
<1>11. ASSUME NEW c \in Clients, NEW pushed \in BOOLEAN,
              JoinLine(c, pushed) \/ CancelJoin(c, pushed)
       PROVE  IdsInv'
  <2>1. req[c] \in Request
    BY <1>11, BusyIsRequest DEF JoinLine, CancelJoin, Busy
  <2>2. /\ line' \in [SmartKeys -> SUBSET Ids]
        /\ stranded' \subseteq Ids
        /\ \A k \in SmartKeys : line'[k] \subseteq line[k] \cup {req[c].first}
    BY <1>11, <2>1, JoinType
  <2>3. UNCHANGED <<store, spent, lastId>>
    BY <1>11 DEF JoinLine, CancelJoin
  <2>4. CASE JoinLine(c, pushed)
    BY <2>1, <2>2, <2>3, <2>4 DEF JoinLine, Key
  <2>5. CASE CancelJoin(c, pushed)
    BY <2>1, <2>2, <2>3, <2>5 DEF CancelJoin, Key
  <2> QED
    BY <1>11, <2>4, <2>5
<1> QED
  BY <1>1, <1>2, <1>3, <1>4, <1>5, <1>6, <1>7, <1>8, <1>9, <1>10, <1>11
     DEF ActionNext

\* A token key that is held is dropped by its holder or its expiry alone: a grant
\* finds it free, and a release compares the id, which no other request has.
LEMMA TokenStep ==
  ASSUME TypeInv, IdsInv, TokenHeld, ActionNext
  PROVE  TokenHeld'
<1> USE DEF TypeInv, IdsInv, Request, Idle, Busy, LockKeys, Ids, TokenHeld, Holders
<1>1. ASSUME NEW c \in Clients, NEW k \in TokenKeys, NEW r \in BOOLEAN, AskToken(c, k, r)
      PROVE  TokenHeld'
  <2>1. req'[c].at = "sent"
    BY <1>1 DEF AskToken
  <2>2. \A d \in Clients \ {c} : req'[d] = req[d]
    BY <1>1 DEF AskToken
  <2>3. UNCHANGED <<store, spent>>
    BY <1>1 DEF AskToken
  <2> QED
    BY <2>1, <2>2, <2>3 DEF Key
<1>2. ASSUME NEW c \in Clients, NEW k \in SmartKeys, AskSmart(c, k)
      PROVE  TokenHeld'
  <2>1. req'[c].at = "join"
    BY <1>2 DEF AskSmart
  <2>2. \A d \in Clients \ {c} : req'[d] = req[d]
    BY <1>2 DEF AskSmart
  <2>3. UNCHANGED <<store, spent>>
    BY <1>2 DEF AskSmart
  <2> QED
    BY <2>1, <2>2, <2>3 DEF Key
<1>3. ASSUME NEW c \in Clients, NEW removed \in BOOLEAN, Granted(c, removed)
      PROVE  TokenHeld'
  <2>1. req[c] \in Request
    BY <1>3, BusyIsRequest DEF Granted, Busy
  <2>2. /\ line' \in [SmartKeys -> SUBSET Ids]
        /\ stranded' \subseteq Ids
        /\ \A k \in SmartKeys : line'[k] \subseteq line[k]
    BY <1>3, <2>1, DequeueType DEF Granted
  <2> QED
    BY <1>3, <2>1, <2>2 DEF Granted, Key
<1>4. ASSUME NEW c \in Clients, Contended(c)
      PROVE  TokenHeld'
  <2>1. req[c] \in Request
    BY <1>4, BusyIsRequest DEF Contended
  <2> QED
    BY <1>4, <2>1 DEF Contended, Fail, Key
<1>5. ASSUME NEW c \in Clients, TryAgain(c)
      PROVE  TokenHeld'
  <2>1. req[c] \in Request
    BY <1>5, BusyIsRequest DEF TryAgain
  <2> QED
    BY <1>5, <2>1 DEF TryAgain, Key
<1>6. ASSUME NEW c \in Clients, NEW removed \in BOOLEAN,
             GiveUpRequest(c, removed) \/ ClientCrashes(c)
      PROVE  TokenHeld'
  <2>1. req[c] \in Request
    BY <1>6, BusyIsRequest DEF GiveUpRequest, ClientCrashes, Busy
  <2>2. CASE GiveUpRequest(c, removed)
    <3>1. /\ line' \in [SmartKeys -> SUBSET Ids]
          /\ stranded' \subseteq Ids
          /\ \A k \in SmartKeys : line'[k] \subseteq line[k]
      BY <2>1, <2>2, DequeueType DEF GiveUpRequest
    <3> QED
      BY <2>2, <3>1 DEF GiveUpRequest, Key
  <2>3. CASE ClientCrashes(c)
    BY <2>1, <2>3 DEF ClientCrashes, Key, Strand
  <2> QED
    BY <1>6, <2>2, <2>3
<1>7. ASSUME NEW c \in Clients, NEW applied \in BOOLEAN, AnswerLost(c, applied)
      PROVE  TokenHeld'
  <2>1. req[c] \in Request
    BY <1>7, BusyIsRequest DEF AnswerLost
  <2> QED
    BY <1>7, <2>1 DEF AnswerLost, Fail, Key
<1>8. ASSUME NEW c \in Clients, NEW applied \in BOOLEAN, ReleaseLock(c, applied)
      PROVE  TokenHeld'
  <2>1. req[c] \in Request
    BY <1>8, BusyIsRequest DEF ReleaseLock
  <2> QED
    BY <1>8, <2>1 DEF ReleaseLock, DropOwn, DropAny, Key
<1>9. ASSUME NEW k \in LockKeys, Expire(k)
      PROVE  TokenHeld'
  BY <1>9 DEF Expire, Key
<1>10. ASSUME NEW k \in SmartKeys, ExpireQueue(k)
       PROVE  TokenHeld'
  BY <1>10 DEF ExpireQueue, Key
<1>11. ASSUME NEW c \in Clients, NEW pushed \in BOOLEAN,
              JoinLine(c, pushed) \/ CancelJoin(c, pushed)
       PROVE  TokenHeld'
  <2>1. req[c] \in Request
    BY <1>11, BusyIsRequest DEF JoinLine, CancelJoin, Busy
  <2>2. /\ line' \in [SmartKeys -> SUBSET Ids]
        /\ stranded' \subseteq Ids
        /\ \A k \in SmartKeys : line'[k] \subseteq line[k] \cup {req[c].first}
    BY <1>11, <2>1, JoinType
  <2>3. UNCHANGED <<store, spent, lastId>>
    BY <1>11 DEF JoinLine, CancelJoin
  <2>4. CASE JoinLine(c, pushed)
    BY <2>1, <2>2, <2>3, <2>4 DEF JoinLine, Key
  <2>5. CASE CancelJoin(c, pushed)
    BY <2>1, <2>2, <2>3, <2>5 DEF CancelJoin, Key
  <2> QED
    BY <1>11, <2>4, <2>5
<1> QED
  BY <1>1, <1>2, <1>3, <1>4, <1>5, <1>6, <1>7, <1>8, <1>9, <1>10, <1>11
     DEF ActionNext

\* While no time to live has run out on a smart key, its holder alone is there to
\* release it.
LEMMA SmartStep ==
  ASSUME TypeInv, IdsInv, SmartHeld, ActionNext
  PROVE  SmartHeld'
<1> USE DEF TypeInv, IdsInv, Request, Idle, Busy, LockKeys, Ids, SmartHeld, Holders
<1>1. ASSUME NEW c \in Clients, NEW k \in TokenKeys, NEW r \in BOOLEAN, AskToken(c, k, r)
      PROVE  SmartHeld'
  <2>1. req'[c].at = "sent"
    BY <1>1 DEF AskToken
  <2>2. \A d \in Clients \ {c} : req'[d] = req[d]
    BY <1>1 DEF AskToken
  <2>3. UNCHANGED <<store, spent>>
    BY <1>1 DEF AskToken
  <2> QED
    BY <2>1, <2>2, <2>3 DEF Key
<1>2. ASSUME NEW c \in Clients, NEW k \in SmartKeys, AskSmart(c, k)
      PROVE  SmartHeld'
  <2>1. req'[c].at = "join"
    BY <1>2 DEF AskSmart
  <2>2. \A d \in Clients \ {c} : req'[d] = req[d]
    BY <1>2 DEF AskSmart
  <2>3. UNCHANGED <<store, spent>>
    BY <1>2 DEF AskSmart
  <2> QED
    BY <2>1, <2>2, <2>3 DEF Key
<1>3. ASSUME NEW c \in Clients, NEW removed \in BOOLEAN, Granted(c, removed)
      PROVE  SmartHeld'
  <2>1. req[c] \in Request
    BY <1>3, BusyIsRequest DEF Granted, Busy
  <2>2. /\ line' \in [SmartKeys -> SUBSET Ids]
        /\ stranded' \subseteq Ids
        /\ \A k \in SmartKeys : line'[k] \subseteq line[k]
    BY <1>3, <2>1, DequeueType DEF Granted
  <2> QED
    BY <1>3, <2>1, <2>2 DEF Granted, Key
<1>4. ASSUME NEW c \in Clients, Contended(c)
      PROVE  SmartHeld'
  <2>1. req[c] \in Request
    BY <1>4, BusyIsRequest DEF Contended
  <2> QED
    BY <1>4, <2>1 DEF Contended, Fail, Key
<1>5. ASSUME NEW c \in Clients, TryAgain(c)
      PROVE  SmartHeld'
  <2>1. req[c] \in Request
    BY <1>5, BusyIsRequest DEF TryAgain
  <2> QED
    BY <1>5, <2>1 DEF TryAgain, Key
<1>6. ASSUME NEW c \in Clients, NEW removed \in BOOLEAN,
             GiveUpRequest(c, removed) \/ ClientCrashes(c)
      PROVE  SmartHeld'
  <2>1. req[c] \in Request
    BY <1>6, BusyIsRequest DEF GiveUpRequest, ClientCrashes, Busy
  <2>2. CASE GiveUpRequest(c, removed)
    <3>1. /\ line' \in [SmartKeys -> SUBSET Ids]
          /\ stranded' \subseteq Ids
          /\ \A k \in SmartKeys : line'[k] \subseteq line[k]
      BY <2>1, <2>2, DequeueType DEF GiveUpRequest
    <3> QED
      BY <2>2, <3>1 DEF GiveUpRequest, Key
  <2>3. CASE ClientCrashes(c)
    BY <2>1, <2>3 DEF ClientCrashes, Key, Strand
  <2> QED
    BY <1>6, <2>2, <2>3
<1>7. ASSUME NEW c \in Clients, NEW applied \in BOOLEAN, AnswerLost(c, applied)
      PROVE  SmartHeld'
  <2>1. req[c] \in Request
    BY <1>7, BusyIsRequest DEF AnswerLost
  <2> QED
    BY <1>7, <2>1 DEF AnswerLost, Fail, Key
<1>8. ASSUME NEW c \in Clients, NEW applied \in BOOLEAN, ReleaseLock(c, applied)
      PROVE  SmartHeld'
  <2>1. req[c] \in Request
    BY <1>8, BusyIsRequest DEF ReleaseLock
  <2> QED
    BY <1>8, <2>1 DEF ReleaseLock, DropOwn, DropAny, Key
<1>9. ASSUME NEW k \in LockKeys, Expire(k)
      PROVE  SmartHeld'
  BY <1>9 DEF Expire, Key
<1>10. ASSUME NEW k \in SmartKeys, ExpireQueue(k)
       PROVE  SmartHeld'
  BY <1>10 DEF ExpireQueue, Key
<1>11. ASSUME NEW c \in Clients, NEW pushed \in BOOLEAN,
              JoinLine(c, pushed) \/ CancelJoin(c, pushed)
       PROVE  SmartHeld'
  <2>1. req[c] \in Request
    BY <1>11, BusyIsRequest DEF JoinLine, CancelJoin, Busy
  <2>2. /\ line' \in [SmartKeys -> SUBSET Ids]
        /\ stranded' \subseteq Ids
        /\ \A k \in SmartKeys : line'[k] \subseteq line[k] \cup {req[c].first}
    BY <1>11, <2>1, JoinType
  <2>3. UNCHANGED <<store, spent, lastId>>
    BY <1>11 DEF JoinLine, CancelJoin
  <2>4. CASE JoinLine(c, pushed)
    BY <2>1, <2>2, <2>3, <2>4 DEF JoinLine, Key
  <2>5. CASE CancelJoin(c, pushed)
    BY <2>1, <2>2, <2>3, <2>5 DEF CancelJoin, Key
  <2> QED
    BY <1>11, <2>4, <2>5
<1> QED
  BY <1>1, <1>2, <1>3, <1>4, <1>5, <1>6, <1>7, <1>8, <1>9, <1>10, <1>11
     DEF ActionNext

\* Who leaves a list takes its entry off or strands it; who joins one waits.
LEMMA LineStep ==
  ASSUME TypeInv, LineIsOfWaiters, ActionNext
  PROVE  LineIsOfWaiters'
<1> SUFFICES ASSUME NEW k \in SmartKeys, NEW i \in line'[k], i \notin stranded'
             PROVE  \E c \in Clients : Waiting(c)' /\ Key(c)' = k /\ req'[c].first = i
  BY DEF LineIsOfWaiters
<1> DEFINE Mine(d) == Waiting(d) /\ Key(d) = k /\ req[d].first = i
<1>1. CASE i \in line[k] /\ i \notin stranded
  <2>1. PICK d \in Clients : Mine(d)
    BY <1>1 DEF LineIsOfWaiters
  <2>2. req[d] \in Request
    BY <2>1, BusyIsRequest DEF Busy, Waiting
  <2> SUFFICES Waiting(d)' /\ Key(d)' = k /\ req'[d].first = i
    OBVIOUS
  <2> USE DEF Waiting, Key
  <2>3. CASE UNCHANGED req
    BY <2>1, <2>3
  <2>4. CASE Contended(d) \/ TryAgain(d) \/ \E applied \in BOOLEAN : AnswerLost(d, applied)
    BY <2>1, <2>2, <2>4 DEF Contended, TryAgain, AnswerLost, Fail, TypeInv, Request
  <2>5. ASSUME NEW removed \in BOOLEAN, Granted(d, removed) \/ GiveUpRequest(d, removed)
        PROVE  FALSE
    <3>1. Dequeue(d, removed)
      BY <2>5 DEF Granted, GiveUpRequest
    <3>2. i \notin line'[k] \/ i \in stranded'
      BY <2>1, <3>1 DEF Dequeue, Strand, TypeInv
    <3> QED
      BY <3>2
  <2>6. ~ClientCrashes(d)
    BY <2>1 DEF ClientCrashes, Strand
  <2>7. ASSUME NEW c \in Clients,
               \/ \E j \in TokenKeys, r \in BOOLEAN : AskToken(c, j, r)
               \/ \E j \in SmartKeys : AskSmart(c, j)
               \/ Contended(c) \/ TryAgain(c) \/ ClientCrashes(c)
               \/ \E pushed \in BOOLEAN : JoinLine(c, pushed) \/ CancelJoin(c, pushed)
               \/ \E removed \in BOOLEAN : Granted(c, removed) \/ GiveUpRequest(c, removed)
               \/ \E applied \in BOOLEAN : AnswerLost(c, applied) \/ ReleaseLock(c, applied)
        PROVE  Waiting(d)' /\ Key(d)' = k /\ req'[d].first = i
    <3>1. CASE c # d
      <4>1. \A e \in Clients \ {c} : req'[e] = req[e]
        BY <2>7 DEF AskToken, AskSmart, Contended, TryAgain, ClientCrashes, JoinLine,
                    CancelJoin, Granted, GiveUpRequest, AnswerLost, ReleaseLock, Fail, TypeInv
      <4> QED
        BY <2>1, <3>1, <4>1
    <3>2. CASE c = d
      BY <2>1, <2>4, <2>5, <2>6, <2>7, <3>2
         DEF AskToken, AskSmart, JoinLine, CancelJoin, ReleaseLock
    <3> QED
      BY <3>1, <3>2
  <2>8. CASE \/ \E j \in LockKeys : Expire(j)
             \/ \E j \in SmartKeys : ExpireQueue(j)
    BY <2>3, <2>8 DEF Expire, ExpireQueue
  <2> QED
    BY <2>7, <2>8 DEF ActionNext
<1>2. CASE i \notin line[k] \/ i \in stranded
  <2>1. stranded \subseteq stranded'
    BY DEF ActionNext, AskToken, AskSmart, Contended, TryAgain, ClientCrashes, JoinLine,
           CancelJoin, Granted, GiveUpRequest, AnswerLost, ReleaseLock, Expire, ExpireQueue,
           Dequeue, Strand
  <2>2. i \notin line[k]
    BY <1>2, <2>1
  <2>3. PICK c \in Clients, pushed \in BOOLEAN : JoinLine(c, pushed) \/ CancelJoin(c, pushed)
    <3>1. ASSUME NEW c \in Clients, NEW removed \in BOOLEAN,
                 Granted(c, removed) \/ GiveUpRequest(c, removed)
          PROVE  FALSE
      <4>1. Dequeue(c, removed)
        BY <3>1 DEF Granted, GiveUpRequest
      <4>2. line'[k] \subseteq line[k]
        BY <4>1 DEF Dequeue, TypeInv
      <4> QED
        BY <2>2, <4>2
    <3>2. ASSUME NEW j \in SmartKeys, ExpireQueue(j)
          PROVE  FALSE
      BY <2>2, <3>2 DEF ExpireQueue, TypeInv
    <3>3. line' # line
      BY <2>2
    <3> QED
      BY <3>1, <3>2, <3>3 DEF ActionNext, AskToken, AskSmart, Contended, TryAgain,
                              ClientCrashes, AnswerLost, ReleaseLock, Expire
  <2>4. k = Key(c) /\ i = req[c].first
    BY <2>2, <2>3 DEF JoinLine, CancelJoin, TypeInv
  <2>5. JoinLine(c, pushed)
    BY <2>3, <2>4 DEF CancelJoin, Strand
  <2>6. req[c] \in Request
    BY <2>5, BusyIsRequest DEF JoinLine, Busy
  <2>7. Waiting(c)' /\ Key(c)' = k /\ req'[c].first = i
    BY <2>4, <2>5, <2>6 DEF JoinLine, Waiting, Key, TypeInv, Request
  <2> QED
    BY <2>7
<1> QED
  BY <1>1, <1>2

-----------------------------------------------------------------------------
(* The invariant and what it says of holders.                              *)

\* KeysInv is inductive.
LEMMA KeysInvariant == ActionSpec => []KeysInv
<1>1. ActionInit => KeysInv
  BY DEF ActionInit, KeysInv, TypeInv, IdsInv, TokenHeld, SmartHeld, LineIsOfWaiters,
         Holders, Busy, Idle
<1>2. KeysInv /\ [ActionNext]_actionVars => KeysInv'
  <2> SUFFICES ASSUME KeysInv, [ActionNext]_actionVars
               PROVE  KeysInv'
    OBVIOUS
  <2>1. CASE ActionNext
    BY <2>1, TypeStep, IdsStep, TokenStep, SmartStep, LineStep DEF KeysInv
  <2>2. CASE UNCHANGED actionVars
    BY <2>2 DEF actionVars, KeysInv, TypeInv, IdsInv, TokenHeld, SmartHeld, LineIsOfWaiters,
                Holders, Busy, Waiting, Key
  <2> QED
    BY <2>1, <2>2
<1> QED
  BY <1>1, <1>2, PTL DEF ActionSpec

\* A set without two different members has one at most.
LEMMA AtMostOne ==
  ASSUME NEW S, \A x, y \in S : x = y
  PROVE  ~(Cardinality(S) > 1)
<1>1. CASE S = {}
  BY <1>1, FS_EmptySet
<1>2. CASE S # {}
  <2>1. PICK x \in S : TRUE
    BY <1>2
  <2>2. S = {x}
    BY <2>1
  <2>3. Cardinality({x}) = 1
    BY FS_Singleton
  <2> QED
    BY <2>2, <2>3
<1> QED
  BY <1>1, <1>2

\* A token names one request, so what it opens is held by one client while it lasts.
LEMMA OneHolder ==
  ASSUME KeysInv
  PROVE  HoldersInv
<1>1. ASSUME NEW k \in LockKeys, NEW c \in Holders(k), NEW d \in Holders(k),
             req[c].id = req[d].id
      PROVE  c = d
  BY <1>1 DEF KeysInv, IdsInv, Holders, Busy
<1>2. TokenExclusion
  <2> SUFFICES ASSUME NEW k \in TokenKeys, NEW c \in Clients, NEW d \in Clients,
                      c # d, c \in Holders(k), d \in Holders(k)
               PROVE  req[c].id \in spent[k] \/ req[d].id \in spent[k]
    BY DEF TokenExclusion
  <2> QED
    BY <1>1 DEF KeysInv, TokenHeld, LockKeys
<1>3. SmartExclusion
  <2> SUFFICES ASSUME NEW k \in SmartKeys, spent[k] = {}
               PROVE  ~(Cardinality(Holders(k)) > 1)
    BY DEF SmartExclusion
  <2>1. \A c, d \in Holders(k) : c = d
    BY <1>1 DEF KeysInv, SmartHeld, LockKeys
  <2> QED
    BY <2>1, AtMostOne
<1> QED
  BY <1>2, <1>3 DEF KeysInv, HoldersInv

\* The keys, requests, lists and ids keep their types.
THEOREM ActionTypeCorrect == ActionSpec => []ActionTypeOK
<1>1. KeysInv => ActionTypeOK
  BY DEF KeysInv, TypeInv, ActionTypeOK, Request, Idle
<1> QED
  BY <1>1, KeysInvariant, PTL

\* Only the end of a time to live takes a key from its holder, whatever answers are
\* lost, whoever crashes and however often is retried; two clients hold one key only
\* after that; and who stands in a waiters list waits for its key, but for entries
\* whose removal failed, or whose waiter crashed or was cancelled while it joined
\* (acquire_action_lock, acquire_with_smart_retry and their releases).
THEOREM KeysAreHeld == ActionSpec => []HoldersInv
BY KeysInvariant, OneHolder, PTL

-----------------------------------------------------------------------------
(* The keyed locks: the records of acquisitions.                             *)

USE KeyedAssumption

RecordValues == [key : Keys \cup {Nobody}, count : Nat]

\* What the context s of a task says of key k, its records being r.
Holds(s, r, k) == \E n \in DOMAIN s : r[s[n]].key = k
CountsOn(s, r, k) ==
  \E n \in DOMAIN s : /\ r[s[n]].key = k
                      /\ r[s[n]].count > 1
                      /\ \A m \in 1..(n - 1) : r[s[m]].key # k

RecordShape ==
  /\ rec \in [Records -> RecordValues]
  /\ acq \in [Callers -> Seq(Records)]

\* No context names a record twice, and what it names counts a key.
RecordsCounted ==
  \A t \in Callers :
    /\ \A m, n \in DOMAIN acq[t] : m # n => acq[t][m] # acq[t][n]
    /\ \A n \in DOMAIN acq[t] : rec[acq[t][n]].key \in Keys /\ rec[acq[t][n]].count > 0

\* The least of the places of a key is its oldest place.
LEMMA OldestPlace ==
    ASSUME NEW s \in Seq(Records), NEW r, NEW k, Holds(s, r, k),
           NEW P, \A n : n \in P <=> n \in DOMAIN s /\ r[s[n]].key = k
    PROVE  /\ Min(P) \in DOMAIN s /\ r[s[Min(P)]].key = k
           /\ \A n \in 1..(Min(P) - 1) : r[s[n]].key # k
<1>1. P \in SUBSET Nat /\ P # {}
  BY DEF Holds
<1>2. Min(P) \in P /\ \A n \in P : Min(P) <= n
  BY <1>1, MinIsLeast
<1>3. ASSUME NEW n \in 1..(Min(P) - 1), r[s[n]].key = k PROVE FALSE
  <2>1. Min(P) \in 1..Len(s)
    BY <1>2
  <2>2. n \in 1..Len(s) /\ n < Min(P)
    BY <2>1
  <2> QED
    BY <2>2, <1>2, <1>3, <2>1
<1> QED
  BY <1>2, <1>3

\* A key is counted more than once exactly if its oldest place is.
LEMMA OldestCounts ==
    ASSUME NEW s \in Seq(Records), NEW r, NEW k, Holds(s, r, k),
           NEW P, \A n : n \in P <=> n \in DOMAIN s /\ r[s[n]].key = k
    PROVE  r[s[Min(P)]].count > 1 <=> CountsOn(s, r, k)
<1> DEFINE m == Min(P)
<1>1. /\ m \in DOMAIN s /\ r[s[m]].key = k
      /\ \A n \in 1..(m - 1) : r[s[n]].key # k
  BY OldestPlace
<1> HIDE DEF m
<1>2. ASSUME CountsOn(s, r, k) PROVE r[s[m]].count > 1
  <2>1. PICK n \in DOMAIN s : /\ r[s[n]].key = k
                              /\ r[s[n]].count > 1
                              /\ \A x \in 1..(n - 1) : r[s[x]].key # k
    BY <1>2 DEF CountsOn
  <2>2. n \in 1..Len(s) /\ m \in 1..Len(s)
    BY <1>1, <2>1
  <2>3. n = m
    BY <1>1, <2>1, <2>2
  <2> QED
    BY <2>1, <2>3
<1>3. ASSUME r[s[m]].count > 1 PROVE CountsOn(s, r, k)
  BY <1>1, <1>3 DEF CountsOn
<1> QED
  BY <1>2, <1>3 DEF m

\* Who has a record of the key, and whose oldest counts more than one guard.
LEMMA HeldIs ==
    ASSUME RecordShape, NEW t \in Callers, NEW k
    PROVE  /\ k \in Held(t) <=> Holds(acq[t], rec, k)
           /\ Counted(t, k) <=> CountsOn(acq[t], rec, k)
           /\ k \in Held(t) => /\ PlaceOf(t, k) \in DOMAIN acq[t]
                               /\ RecordOf(t, k) = acq[t][PlaceOf(t, k)]
                               /\ rec[RecordOf(t, k)].key = k
                               /\ \A n \in 1..(PlaceOf(t, k) - 1) : rec[acq[t][n]].key # k
<1>0. acq[t] \in Seq(Records)
  BY DEF RecordShape
<1> DEFINE P == {n \in DOMAIN acq[t] : rec[acq[t][n]].key = k}
<1>1. k \in Held(t) <=> Holds(acq[t], rec, k)
  BY DEF Held, Holds, ToSet
<1>2. PlaceOf(t, k) = Min(P) /\ RecordOf(t, k) = acq[t][Min(P)]
  BY DEF PlaceOf, RecordOf
<1>3. \A n : n \in P <=> n \in DOMAIN acq[t] /\ rec[acq[t][n]].key = k
  OBVIOUS
<1> HIDE DEF P
<1>4. Holds(acq[t], rec, k) => (rec[RecordOf(t, k)].count > 1 <=> CountsOn(acq[t], rec, k))
  BY <1>0, <1>2, <1>3, OldestCounts
<1>5. CountsOn(acq[t], rec, k) => Holds(acq[t], rec, k)
  BY DEF CountsOn, Holds
<1>6. Holds(acq[t], rec, k) => /\ Min(P) \in DOMAIN acq[t] /\ rec[acq[t][Min(P)]].key = k
                               /\ \A n \in 1..(Min(P) - 1) : rec[acq[t][n]].key # k
  BY <1>0, <1>3, OldestPlace
<1> QED
  BY <1>1, <1>2, <1>4, <1>5, <1>6 DEF Counted

\* The same of the state after a step.
LEMMA HeldNext ==
    ASSUME RecordShape', NEW t \in Callers, NEW k
    PROVE  /\ (k \in Held(t))' <=> Holds(acq'[t], rec', k)
           /\ Counted(t, k)' <=> CountsOn(acq'[t], rec', k)
<1>0. acq'[t] \in Seq(Records)
  BY DEF RecordShape
<1> DEFINE P == {n \in DOMAIN acq'[t] : rec'[acq'[t][n]].key = k}
<1>1. (k \in Held(t))' <=> Holds(acq'[t], rec', k)
  BY DEF Held, Holds, ToSet
<1>2. RecordOf(t, k)' = acq'[t][Min(P)]
  BY DEF PlaceOf, RecordOf
<1>3. \A n : n \in P <=> n \in DOMAIN acq'[t] /\ rec'[acq'[t][n]].key = k
  OBVIOUS
<1> HIDE DEF P
<1>4. Holds(acq'[t], rec', k) => (rec'[acq'[t][Min(P)]].count > 1 <=> CountsOn(acq'[t], rec', k))
  BY <1>0, <1>3, OldestCounts
<1>5. CountsOn(acq'[t], rec', k) => Holds(acq'[t], rec', k)
  BY DEF CountsOn, Holds
<1>6. Counted(t, k)' <=> (k \in Held(t))' /\ rec'[RecordOf(t, k)'].count > 1
  BY DEF Counted
<1> QED
  BY <1>1, <1>2, <1>4, <1>5, <1>6

\* Taking an element out of a sequence.
LEMMA TakenOut ==
    ASSUME NEW S, NEW s \in Seq(S), NEW i \in DOMAIN s
    PROVE  /\ RemoveAt(s, i) \in Seq(S)
           /\ DOMAIN RemoveAt(s, i) = 1..(Len(s) - 1)
           /\ \A n \in 1..(Len(s) - 1) : RemoveAt(s, i)[n] = IF n < i THEN s[n] ELSE s[n + 1]
<1>1. SubSeq(s, 1, i - 1) \in Seq(S) /\ SubSeq(s, i + 1, Len(s)) \in Seq(S)
  OBVIOUS
<1>2. Len(SubSeq(s, 1, i - 1)) = i - 1 /\ Len(SubSeq(s, i + 1, Len(s))) = Len(s) - i
  OBVIOUS
<1>3. /\ \A n \in 1..(i - 1) : SubSeq(s, 1, i - 1)[n] = s[n]
      /\ \A n \in 1..(Len(s) - i) : SubSeq(s, i + 1, Len(s))[n] = s[n + i]
  OBVIOUS
<1> DEFINE A == SubSeq(s, 1, i - 1)
           B == SubSeq(s, i + 1, Len(s))
<1> HIDE DEF A, B
<1>4. /\ A \in Seq(S) /\ B \in Seq(S) /\ Len(A) = i - 1 /\ Len(B) = Len(s) - i
      /\ \A n \in 1..(i - 1) : A[n] = s[n]
      /\ \A n \in 1..(Len(s) - i) : B[n] = s[n + i]
      /\ RemoveAt(s, i) = A \o B
  BY <1>1, <1>2, <1>3 DEF A, B, RemoveAt
<1>5. A \o B \in Seq(S) /\ Len(A \o B) = Len(s) - 1
  BY <1>4
<1>6. ASSUME NEW n \in 1..(Len(s) - 1)
      PROVE  (A \o B)[n] = IF n < i THEN s[n] ELSE s[n + 1]
  <2>1. (A \o B)[n] = IF n <= Len(A) THEN A[n] ELSE B[n - Len(A)]
    BY <1>4, <1>5
  <2>2. CASE n < i
    BY <2>1, <2>2, <1>4
  <2>3. CASE ~ (n < i)
    <3>1. n - (i - 1) \in 1..(Len(s) - i) /\ n - (i - 1) + i = n + 1
      BY <2>3
    <3>2. B[n - (i - 1)] = s[n + 1]
      BY <3>1, <1>4
    <3> QED
      BY <2>1, <2>3, <3>2, <1>4
  <2> QED
    BY <2>2, <2>3
<1> QED
  BY <1>4, <1>5, <1>6

\* The same records, none of the key x with a lower count, say the same of it.
LEMMA SameContext ==
    ASSUME NEW s \in Seq(Records), NEW x,
           NEW r \in [Records -> RecordValues], NEW q \in [Records -> RecordValues],
           \A n \in DOMAIN s : /\ q[s[n]].key = r[s[n]].key
                               /\ r[s[n]].key = x => q[s[n]].count >= r[s[n]].count
    PROVE  /\ Holds(s, q, x) <=> Holds(s, r, x)
           /\ CountsOn(s, r, x) => CountsOn(s, q, x)
<1>1. Holds(s, q, x) <=> Holds(s, r, x)
  BY DEF Holds
<1>2. ASSUME CountsOn(s, r, x) PROVE CountsOn(s, q, x)
  <2>1. PICK n \in DOMAIN s : /\ r[s[n]].key = x /\ r[s[n]].count > 1
                              /\ \A m \in 1..(n - 1) : r[s[m]].key # x
    BY <1>2 DEF CountsOn
  <2>2. n \in 1..Len(s) /\ \A m \in 1..(n - 1) : m \in DOMAIN s
    BY <2>1
  <2>3. s[n] \in Records
    BY <2>2
  <2>4. q[s[n]].count \in Nat /\ r[s[n]].count \in Nat
    BY <2>3 DEF RecordValues
  <2>5. q[s[n]].key = x /\ q[s[n]].count > 1
    BY <2>1, <2>4
  <2>6. \A m \in 1..(n - 1) : q[s[m]].key # x
    BY <2>1, <2>2
  <2> QED
    BY <2>1, <2>5, <2>6 DEF CountsOn
<1> QED
  BY <1>1, <1>2

\* A record of another key at the end says nothing of x.
LEMMA LongerContext ==
    ASSUME NEW s \in Seq(Records), NEW i \in Records, NEW x,
           NEW r \in [Records -> RecordValues], NEW q \in [Records -> RecordValues],
           \A n \in DOMAIN s : q[s[n]] = r[s[n]],
           q[i].key # x
    PROVE  /\ Holds(Append(s, i), q, x) <=> Holds(s, r, x)
           /\ CountsOn(s, r, x) => CountsOn(Append(s, i), q, x)
<1>1. /\ DOMAIN Append(s, i) = 1..(Len(s) + 1) /\ DOMAIN s = 1..Len(s)
      /\ Append(s, i)[Len(s) + 1] = i
      /\ \A n \in 1..Len(s) : Append(s, i)[n] = s[n]
  OBVIOUS
<1>2. Holds(Append(s, i), q, x) <=> Holds(s, r, x)
  BY <1>1 DEF Holds
<1>3. ASSUME CountsOn(s, r, x) PROVE CountsOn(Append(s, i), q, x)
  <2>1. PICK n \in DOMAIN s : /\ r[s[n]].key = x /\ r[s[n]].count > 1
                              /\ \A m \in 1..(n - 1) : r[s[m]].key # x
    BY <1>3 DEF CountsOn
  <2>2. n \in 1..Len(s) /\ n \in DOMAIN Append(s, i)
        /\ \A m \in 1..(n - 1) : m \in 1..Len(s)
    BY <1>1, <2>1
  <2>3. /\ q[Append(s, i)[n]].key = x /\ q[Append(s, i)[n]].count > 1
        /\ \A m \in 1..(n - 1) : q[Append(s, i)[m]].key # x
    BY <1>1, <2>1, <2>2
  <2> QED
    BY <2>2, <2>3 DEF CountsOn
<1> QED
  BY <1>2, <1>3

\* Nor does a record of another key that is taken out.
LEMMA ShorterContext ==
    ASSUME NEW s \in Seq(Records), NEW p \in DOMAIN s, NEW x,
           NEW r \in [Records -> RecordValues], NEW q \in [Records -> RecordValues],
           \A n \in DOMAIN s : n # p => q[s[n]] = r[s[n]],
           r[s[p]].key # x
    PROVE  /\ Holds(RemoveAt(s, p), q, x) <=> Holds(s, r, x)
           /\ CountsOn(s, r, x) => CountsOn(RemoveAt(s, p), q, x)
<1> DEFINE z == RemoveAt(s, p)
<1>1. /\ DOMAIN z = 1..(Len(s) - 1) /\ DOMAIN s = 1..Len(s) /\ Len(s) \in Nat
      /\ \A n \in 1..(Len(s) - 1) : z[n] = IF n < p THEN s[n] ELSE s[n + 1]
  BY TakenOut
<1> HIDE DEF z
<1>2. p \in 1..Len(s)
  BY <1>1
<1>3. ASSUME NEW n \in DOMAIN s, n # p
      PROVE  \E m \in DOMAIN z : z[m] = s[n] /\ m <= n /\ m = IF n < p THEN n ELSE n - 1
  <2>1. CASE n < p
    <3>1. n \in 1..(Len(s) - 1)
      BY <1>1, <1>2, <2>1
    <3> QED
      BY <3>1, <2>1, <1>1
  <2>2. CASE n > p
    <3>1. n - 1 \in 1..(Len(s) - 1) /\ ~ (n - 1 < p) /\ (n - 1) + 1 = n
      BY <1>1, <1>2, <2>2
    <3> QED
      BY <3>1, <2>2, <1>1
  <2> QED
    BY <2>1, <2>2, <1>3, <1>1, <1>2
<1>4. ASSUME NEW m \in DOMAIN z
      PROVE  \E n \in DOMAIN s : z[m] = s[n] /\ n # p /\ n = IF m < p THEN m ELSE m + 1
  <2>1. m \in 1..(Len(s) - 1)
    BY <1>1
  <2>2. CASE m < p
    BY <2>1, <2>2, <1>1
  <2>3. CASE ~ (m < p)
    <3>1. m + 1 \in 1..Len(s) /\ m + 1 # p
      BY <2>1, <2>3, <1>1, <1>2
    <3> QED
      BY <3>1, <2>1, <2>3, <1>1
  <2> QED
    BY <2>2, <2>3
<1>5. Holds(s, r, x) => Holds(z, q, x)
  <2>1. SUFFICES ASSUME NEW n \in DOMAIN s, r[s[n]].key = x PROVE Holds(z, q, x)
    BY DEF Holds
  <2>2. n # p
    BY <2>1
  <2>3. PICK m \in DOMAIN z : z[m] = s[n]
    BY <2>2, <1>3
  <2> QED
    BY <2>1, <2>2, <2>3 DEF Holds
<1>6. Holds(z, q, x) => Holds(s, r, x)
  <2>1. SUFFICES ASSUME NEW m \in DOMAIN z, q[z[m]].key = x PROVE Holds(s, r, x)
    BY DEF Holds
  <2>2. PICK n \in DOMAIN s : z[m] = s[n] /\ n # p
    BY <1>4
  <2> QED
    BY <2>1, <2>2 DEF Holds
<1>7. ASSUME CountsOn(s, r, x) PROVE CountsOn(z, q, x)
  <2>1. PICK n \in DOMAIN s : /\ r[s[n]].key = x /\ r[s[n]].count > 1
                              /\ \A m \in 1..(n - 1) : r[s[m]].key # x
    BY <1>7 DEF CountsOn
  <2>2. n # p
    BY <2>1
  <2>3. PICK m \in DOMAIN z : z[m] = s[n] /\ m <= n /\ m = IF n < p THEN n ELSE n - 1
    BY <2>2, <1>3
  <2>4. q[z[m]].key = x /\ q[z[m]].count > 1
    BY <2>1, <2>2, <2>3
  <2>5. ASSUME NEW l \in 1..(m - 1) PROVE q[z[l]].key # x
    <3>1. l \in DOMAIN z /\ n \in 1..Len(s) /\ m \in 1..(Len(s) - 1) /\ l < m
      BY <1>1, <2>1, <2>3
    <3>2. PICK j \in DOMAIN s : z[l] = s[j] /\ j # p /\ j = IF l < p THEN l ELSE l + 1
      BY <1>4, <3>1
    <3>3. j \in 1..(n - 1)
      BY <3>1, <3>2, <2>3, <1>1, <1>2, <2>2
    <3> QED
      BY <3>2, <3>3, <2>1
  <2> QED
    BY <2>3, <2>4, <2>5 DEF CountsOn
<1> QED
  BY <1>5, <1>6, <1>7 DEF z

\* Setting the count of one record.
Counting(r, i, c) == [r EXCEPT ![i] = [r[i] EXCEPT !.count = c]]

\* It keeps the key of that record and all of the others.
LEMMA CountSet ==
    ASSUME NEW r \in [Records -> RecordValues], NEW i \in Records, NEW c \in Nat
    PROVE  LET q == Counting(r, i, c)
           IN /\ q \in [Records -> RecordValues]
              /\ q[i].key = r[i].key /\ q[i].count = c
              /\ \A j \in Records : j # i => q[j] = r[j]
<1> DEFINE v == [r[i] EXCEPT !.count = c]
<1>1. r[i] \in RecordValues
  OBVIOUS
<1>2. v \in RecordValues /\ v.key = r[i].key /\ v.count = c
  BY <1>1 DEF RecordValues
<1>3. Counting(r, i, c) = [r EXCEPT ![i] = v]
  BY DEF Counting
<1> HIDE DEF v
<1> QED
  BY <1>2, <1>3

\* A step of t about key k leaves what anybody else's records say as it was, and what
\* t's records say of other keys.
OthersKeep(t, k) ==
  \A u \in Callers, x \in Keys :
    u # t \/ x # k => /\ (x \in Held(u))' <=> x \in Held(u)
                      /\ Counted(u, x) => Counted(u, x)'

\* That is so if it is so of the contexts.
LEMMA OthersKeepIf ==
    ASSUME RecordShape, RecordShape', NEW t, NEW k,
           \A u \in Callers, x \in Keys :
             u # t \/ x # k => /\ Holds(acq'[u], rec', x) <=> Holds(acq[u], rec, x)
                               /\ CountsOn(acq[u], rec, x) => CountsOn(acq'[u], rec', x)
    PROVE  OthersKeep(t, k)
BY HeldIs, HeldNext DEF OthersKeep

\* _record_acquired: the last record counts on, or a new one is added.
LEMMA RecordTaken ==
    ASSUME RecordShape, RecordsCounted, NEW t \in Callers, NEW k \in Keys, NEW o,
           RecordAcquired(t, k, o)
    PROVE  /\ RecordShape' /\ RecordsCounted' /\ OthersKeep(t, k)
           /\ (k \in Held(t))'
<1>0. acq \in [Callers -> Seq(Records)] /\ rec \in [Records -> RecordValues]
  BY DEF RecordShape
<1>1. CASE acq[t] # <<>> /\ rec[Last(acq[t])].key = k
  <2> DEFINE i == Last(acq[t])
             c == rec[i].count
  <2>1. i \in Records /\ Len(acq[t]) \in DOMAIN acq[t] /\ acq[t][Len(acq[t])] = i
    BY <1>0, <1>1 DEF Last
  <2>2. acq' = acq /\ rec' = [rec EXCEPT ![i].count = @ + 1]
    BY <1>1 DEF RecordAcquired
  <2>3. rec[i] \in RecordValues /\ c \in Nat
    BY <2>1, <1>0 DEF RecordValues
  <2> HIDE DEF i
  <2>4. rec'[i].key = k /\ rec'[i].count = c + 1 /\ rec'[i] \in RecordValues
        /\ \A j \in Records : j # i => rec'[j] = rec[j]
    <3>1. rec' = Counting(rec, i, c + 1) /\ c + 1 \in Nat
      BY <2>2, <2>3 DEF Counting
    <3> HIDE DEF c
    <3>2. /\ rec' \in [Records -> RecordValues]
          /\ rec'[i].key = rec[i].key /\ rec'[i].count = c + 1
          /\ \A j \in Records : j # i => rec'[j] = rec[j]
      BY <1>0, <2>1, <3>1, CountSet
    <3>3. rec'[i] \in RecordValues
      BY <3>2, <2>1
    <3>4. rec[i].key = k
      BY <1>1 DEF i
    <3> QED
      BY <3>2, <3>3, <3>4
  <2>5. rec' \in [Records -> RecordValues]
    <3>1. rec' = Counting(rec, i, c + 1) /\ c + 1 \in Nat
      BY <2>2, <2>3 DEF Counting
    <3> HIDE DEF c
    <3> QED
      BY <1>0, <2>1, <3>1, CountSet
  <2>6. RecordShape'
    BY <2>2, <2>5, <1>0 DEF RecordShape
  <2>7. ASSUME NEW u \in Callers, NEW n \in DOMAIN acq[u]
        PROVE  /\ rec'[acq[u][n]].key = rec[acq[u][n]].key
               /\ rec'[acq[u][n]].count >= rec[acq[u][n]].count
    <3>1. acq[u][n] \in Records
      BY <1>0
    <3>2. rec[acq[u][n]].count \in Nat
      BY <3>1, <1>0 DEF RecordValues
    <3> QED
      BY <3>1, <3>2, <2>4, <1>1, <2>3 DEF i
  <2>8. RecordsCounted'
    <3>1. ASSUME NEW u \in Callers, NEW n \in DOMAIN acq[u]
          PROVE  rec'[acq[u][n]].key \in Keys /\ rec'[acq[u][n]].count > 0
      <4>1. rec[acq[u][n]].key \in Keys /\ rec[acq[u][n]].count > 0
        BY DEF RecordsCounted
      <4>2. acq[u][n] \in Records
        BY <1>0
      <4>3. rec'[acq[u][n]].count \in Nat /\ rec[acq[u][n]].count \in Nat
        BY <4>2, <2>5, <1>0 DEF RecordValues
      <4> QED
        BY <4>1, <4>3, <2>7
    <3> QED
      BY <3>1, <2>2 DEF RecordsCounted
  <2>9. ASSUME NEW u \in Callers, NEW x \in Keys
        PROVE  /\ Holds(acq'[u], rec', x) <=> Holds(acq[u], rec, x)
               /\ CountsOn(acq[u], rec, x) => CountsOn(acq'[u], rec', x)
    <3>1. acq'[u] = acq[u] /\ acq[u] \in Seq(Records)
      BY <1>0, <2>2
    <3> QED
      BY <3>1, <1>0, <2>5, <2>7, SameContext
  <2>10. Holds(acq'[t], rec', k)
    BY <2>1, <2>2, <2>4 DEF Holds
  <2> QED
    BY <2>6, <2>8, <2>9, <2>10, OthersKeepIf, HeldNext
<1>2. CASE ~ (acq[t] # <<>> /\ rec[Last(acq[t])].key = k)
  <2> DEFINE i == Unused
             v == [key |-> k, count |-> 1]
  <2>1. i \in Records /\ Spare(i)
    BY <1>2 DEF RecordAcquired, Unused
  <2>2. acq' = [acq EXCEPT ![t] = Append(@, i)] /\ rec' = [rec EXCEPT ![i] = v]
    BY <1>2 DEF RecordAcquired
  <2>3. v \in RecordValues /\ v.key = k /\ v.count = 1
    BY DEF RecordValues
  <2> HIDE DEF i, v
  <2>4. rec'[i] = v /\ \A j \in Records : j # i => rec'[j] = rec[j]
    BY <1>0, <2>1, <2>2
  <2>5. rec' \in [Records -> RecordValues] /\ acq' \in [Callers -> Seq(Records)]
    BY <1>0, <2>1, <2>2, <2>3
  <2>6. RecordShape'
    BY <2>5 DEF RecordShape
  <2>7. ASSUME NEW u \in Callers, NEW n \in DOMAIN acq[u]
        PROVE  acq[u][n] # i /\ rec'[acq[u][n]] = rec[acq[u][n]]
    <3>1. acq[u][n] \in Records
      BY <1>0
    <3>2. acq[u][n] \in ToSet(acq[u])
      BY DEF ToSet
    <3> QED
      BY <3>1, <3>2, <2>1, <2>4 DEF Spare
  <2>8. /\ DOMAIN acq'[t] = 1..(Len(acq[t]) + 1) /\ DOMAIN acq[t] = 1..Len(acq[t])
        /\ acq'[t] = Append(acq[t], i) /\ acq'[t][Len(acq[t]) + 1] = i
        /\ \A n \in 1..Len(acq[t]) : acq'[t][n] = acq[t][n]
        /\ \A u \in Callers : u # t => acq'[u] = acq[u]
    BY <1>0, <2>1, <2>2
  <2>9. RecordsCounted'
    <3>1. ASSUME NEW n \in DOMAIN acq'[t]
          PROVE  rec'[acq'[t][n]].key \in Keys /\ rec'[acq'[t][n]].count > 0
      <4>1. CASE n = Len(acq[t]) + 1
        BY <4>1, <2>3, <2>4, <2>8
      <4>2. CASE n # Len(acq[t]) + 1
        <5>1. n \in 1..Len(acq[t])
          BY <4>2, <2>8, <1>0
        <5> QED
          BY <5>1, <2>7, <2>8 DEF RecordsCounted
      <4> QED
        BY <4>1, <4>2
    <3>2. ASSUME NEW m \in DOMAIN acq'[t], NEW n \in DOMAIN acq'[t], m # n
          PROVE  acq'[t][m] # acq'[t][n]
      <4>1. m \in 1..Len(acq[t]) \/ m = Len(acq[t]) + 1
        BY <2>8, <1>0
      <4>2. n \in 1..Len(acq[t]) \/ n = Len(acq[t]) + 1
        BY <2>8, <1>0
      <4> QED
        BY <4>1, <4>2, <3>2, <2>7, <2>8 DEF RecordsCounted
    <3>3. ASSUME NEW u \in Callers, u # t
          PROVE  /\ \A m, n \in DOMAIN acq'[u] : m # n => acq'[u][m] # acq'[u][n]
                 /\ \A n \in DOMAIN acq'[u] : rec'[acq'[u][n]].key \in Keys /\ rec'[acq'[u][n]].count > 0
      BY <3>3, <2>7, <2>8 DEF RecordsCounted
    <3> QED
      BY <3>1, <3>2, <3>3 DEF RecordsCounted
  <2>10. ASSUME NEW u \in Callers, NEW x \in Keys, u # t \/ x # k
        PROVE  /\ Holds(acq'[u], rec', x) <=> Holds(acq[u], rec, x)
               /\ CountsOn(acq[u], rec, x) => CountsOn(acq'[u], rec', x)
    <3>1. CASE u = t
      <4>1. rec'[i].key # x
        BY <3>1, <2>10, <2>3, <2>4
      <4>2. /\ Holds(Append(acq[t], i), rec', x) <=> Holds(acq[t], rec, x)
            /\ CountsOn(acq[t], rec, x) => CountsOn(Append(acq[t], i), rec', x)
        <5>1. acq[t] \in Seq(Records) /\ \A n \in DOMAIN acq[t] : rec'[acq[t][n]] = rec[acq[t][n]]
          BY <1>0, <2>7
        <5> QED
          BY <4>1, <5>1, <1>0, <2>1, <2>5, LongerContext
      <4> QED
        BY <3>1, <4>2, <2>8
    <3>2. CASE u # t
      <4>1. acq'[u] = acq[u] /\ acq[u] \in Seq(Records)
        BY <3>2, <2>8, <1>0
      <4>2. \A n \in DOMAIN acq[u] : /\ rec'[acq[u][n]].key = rec[acq[u][n]].key
                                     /\ rec[acq[u][n]].key = x => rec'[acq[u][n]].count >= rec[acq[u][n]].count
        <5>1. \A n \in DOMAIN acq[u] : rec[acq[u][n]].count \in Nat
          BY <4>1, <1>0 DEF RecordValues
        <5> QED
          BY <5>1, <2>7
      <4> QED
        BY <4>1, <4>2, <1>0, <2>5, SameContext
    <3> QED
      BY <3>1, <3>2
  <2>11. Holds(acq'[t], rec', k)
    <3>1. Len(acq[t]) + 1 \in DOMAIN acq'[t]
      BY <2>8, <1>0
    <3> QED
      BY <3>1, <2>3, <2>4, <2>8 DEF Holds
  <2> QED
    BY <2>6, <2>9, <2>10, <2>11, OthersKeepIf, HeldNext
<1> QED
  BY <1>1, <1>2

Raised(t, k) == rec' = [rec EXCEPT ![RecordOf(t, k)].count = @ + 1] /\ acq' = acq
Lowered(t, k) == rec' = [rec EXCEPT ![RecordOf(t, k)].count = @ - 1] /\ acq' = acq

\* Re-entering counts on, the oldest record of the key.
LEMMA RecordRaised ==
    ASSUME RecordShape, RecordsCounted, NEW t \in Callers, NEW k \in Keys, k \in Held(t),
           Raised(t, k)
    PROVE  /\ RecordShape' /\ RecordsCounted' /\ OthersKeep(t, k)
           /\ (k \in Held(t))' /\ Counted(t, k)'
<1>0. acq \in [Callers -> Seq(Records)] /\ rec \in [Records -> RecordValues]
  BY DEF RecordShape
<1> DEFINE i == RecordOf(t, k)
           c == rec[i].count
           n0 == PlaceOf(t, k)
<1>1. /\ n0 \in DOMAIN acq[t] /\ acq[t][n0] = i /\ rec[i].key = k
      /\ \A n \in 1..(n0 - 1) : rec[acq[t][n]].key # k
  BY HeldIs
<1> HIDE DEF n0
<1>2. i \in Records
  BY <1>0, <1>1
<1>3. c \in Nat /\ c > 0
  <2>1. c \in Nat
    BY <1>0, <1>2 DEF RecordValues
  <2> QED
    BY <2>1, <1>1 DEF RecordsCounted
<1>4. rec' = Counting(rec, i, c + 1) /\ c + 1 \in Nat /\ acq' = acq
  BY <1>3 DEF Counting, Raised
<1> HIDE DEF i, c
<1>5. /\ rec' \in [Records -> RecordValues]
      /\ rec'[i].key = rec[i].key /\ rec'[i].count = c + 1
      /\ \A j \in Records : j # i => rec'[j] = rec[j]
  BY <1>0, <1>2, <1>4, CountSet
<1>6. RecordShape'
  BY <1>0, <1>4, <1>5 DEF RecordShape
<1>7. ASSUME NEW u \in Callers, NEW n \in DOMAIN acq[u]
      PROVE  /\ rec'[acq[u][n]].key = rec[acq[u][n]].key
             /\ rec'[acq[u][n]].count >= rec[acq[u][n]].count
  <2>1. acq[u][n] \in Records
    BY <1>0
  <2>2. rec[acq[u][n]].count \in Nat
    BY <2>1, <1>0 DEF RecordValues
  <2> QED
    BY <2>1, <2>2, <1>5, <1>3 DEF c
<1>8. RecordsCounted'
  <2>1. ASSUME NEW u \in Callers, NEW n \in DOMAIN acq[u]
        PROVE  rec'[acq[u][n]].key \in Keys /\ rec'[acq[u][n]].count > 0
    <3>1. rec[acq[u][n]].key \in Keys /\ rec[acq[u][n]].count > 0
      BY DEF RecordsCounted
    <3>2. acq[u][n] \in Records
      BY <1>0
    <3>3. rec'[acq[u][n]].count \in Nat /\ rec[acq[u][n]].count \in Nat
      BY <3>2, <1>5, <1>0 DEF RecordValues
    <3> QED
      BY <3>1, <3>3, <1>7
  <2> QED
    BY <2>1, <1>4 DEF RecordsCounted
<1>9. ASSUME NEW u \in Callers, NEW x \in Keys
      PROVE  /\ Holds(acq'[u], rec', x) <=> Holds(acq[u], rec, x)
             /\ CountsOn(acq[u], rec, x) => CountsOn(acq'[u], rec', x)
  <2>1. acq'[u] = acq[u] /\ acq[u] \in Seq(Records)
    BY <1>0, <1>4
  <2> QED
    BY <2>1, <1>0, <1>5, <1>7, SameContext
<1>10. Holds(acq'[t], rec', k) /\ CountsOn(acq'[t], rec', k)
  <2>1. n0 \in DOMAIN acq'[t] /\ acq'[t] = acq[t]
    BY <1>1, <1>4
  <2>2. rec'[acq'[t][n0]].key = k /\ rec'[acq'[t][n0]].count > 1
    BY <2>1, <1>1, <1>3, <1>5
  <2>3. n0 \in 1..Len(acq[t])
    BY <1>1, <1>0
  <2>4. \A n \in 1..(n0 - 1) : rec'[acq'[t][n]].key # k
    <3>1. \A n \in 1..(n0 - 1) : n \in DOMAIN acq[t]
      BY <2>3, <1>0
    <3> QED
      BY <3>1, <2>1, <1>1, <1>7
  <2> QED
    BY <2>1, <2>2, <2>4 DEF Holds, CountsOn
<1> QED
  BY <1>6, <1>8, <1>9, <1>10, OthersKeepIf, HeldNext

\* Leaving one of several counted guards: who holds what stays, and of other keys
\* also who counts on.
LEMMA RecordLowered ==
    ASSUME RecordShape, RecordsCounted, NEW t \in Callers, NEW k \in Keys, Counted(t, k),
           Lowered(t, k)
    PROVE  /\ RecordShape' /\ RecordsCounted'
           /\ \A u \in Callers, x \in Keys :
                /\ (x \in Held(u))' <=> x \in Held(u)
                /\ x # k /\ Counted(u, x) => Counted(u, x)'
<1>0. acq \in [Callers -> Seq(Records)] /\ rec \in [Records -> RecordValues]
  BY DEF RecordShape
<1> DEFINE i == RecordOf(t, k)
           c == rec[i].count
<1>1. rec[i].key = k /\ i \in Records /\ c > 1
  BY <1>0, HeldIs DEF Counted
<1>2. c \in Nat
  BY <1>0, <1>1 DEF RecordValues
<1>3. rec' = Counting(rec, i, c - 1) /\ c - 1 \in Nat /\ acq' = acq
  BY <1>1, <1>2 DEF Counting, Lowered
<1> HIDE DEF i, c
<1>4. /\ rec' \in [Records -> RecordValues]
      /\ rec'[i].key = rec[i].key /\ rec'[i].count = c - 1
      /\ \A j \in Records : j # i => rec'[j] = rec[j]
  BY <1>0, <1>1, <1>3, CountSet
<1>5. RecordShape'
  BY <1>0, <1>3, <1>4 DEF RecordShape
<1>6. ASSUME NEW u \in Callers, NEW n \in DOMAIN acq[u]
      PROVE  /\ rec'[acq[u][n]].key = rec[acq[u][n]].key
             /\ rec[acq[u][n]].key # k => rec'[acq[u][n]].count = rec[acq[u][n]].count
             /\ rec'[acq[u][n]].count > 0
  <2>1. acq[u][n] \in Records /\ rec[acq[u][n]].count > 0
    BY <1>0 DEF RecordsCounted
  <2>2. CASE acq[u][n] = i
    BY <2>2, <1>1, <1>2, <1>4
  <2>3. CASE acq[u][n] # i
    BY <2>1, <2>3, <1>4
  <2> QED
    BY <2>2, <2>3
<1>7. RecordsCounted'
  BY <1>3, <1>6 DEF RecordsCounted
<1>8. ASSUME NEW u \in Callers, NEW x \in Keys
      PROVE  /\ Holds(acq'[u], rec', x) <=> Holds(acq[u], rec, x)
             /\ x # k /\ CountsOn(acq[u], rec, x) => CountsOn(acq'[u], rec', x)
  <2>1. acq'[u] = acq[u] /\ acq[u] \in Seq(Records)
    BY <1>0, <1>3
  <2>2. Holds(acq'[u], rec', x) <=> Holds(acq[u], rec, x)
    BY <2>1, <1>6 DEF Holds
  <2>3. CASE x # k
    <3>1. \A n \in DOMAIN acq[u] : rec[acq[u][n]].count \in Nat
      BY <2>1, <1>0 DEF RecordValues
    <3>2. \A n \in DOMAIN acq[u] : /\ rec'[acq[u][n]].key = rec[acq[u][n]].key
                                   /\ rec[acq[u][n]].key = x => rec'[acq[u][n]].count >= rec[acq[u][n]].count
      BY <3>1, <2>3, <1>6
    <3> QED
      BY <2>1, <3>2, <1>0, <1>4, SameContext
  <2> QED
    BY <2>2, <2>3
<1> QED
  BY <1>5, <1>7, <1>8, HeldIs, HeldNext

\* _remove_acquisition_record: t's oldest record of k is gone.
LEMMA RecordForgotten ==
    ASSUME RecordShape, RecordsCounted, NEW t \in Callers, NEW k \in Keys, NEW stk,
           Forget(t, k, stk)
    PROVE  RecordShape' /\ RecordsCounted' /\ OthersKeep(t, k)
<1>0. acq \in [Callers -> Seq(Records)] /\ rec \in [Records -> RecordValues]
  BY DEF RecordShape
<1>1. CASE k \notin Held(t)
  <2>1. acq' = acq /\ rec' = rec
    BY <1>1 DEF Forget
  <2>2. RecordShape' /\ RecordsCounted'
    BY <2>1 DEF RecordShape, RecordsCounted
  <2> QED
    BY <2>1, <2>2, OthersKeepIf
<1>2. CASE k \in Held(t)
  <2> DEFINE p == PlaceOf(t, k)
             i == RecordOf(t, k)
             none == [key |-> Nobody, count |-> 0]
  <2>1. p \in DOMAIN acq[t] /\ acq[t][p] = i /\ rec[i].key = k
    BY <1>2, HeldIs
  <2>2. acq' = [acq EXCEPT ![t] = RemoveAt(@, p)]
    BY <1>2 DEF Forget
  <2>3. \/ rec' = rec
        \/ rec' = [rec EXCEPT ![i] = none] /\ \A u \in Callers \ {t} : i \notin ToSet(acq[u])
    BY DEF Forget
  <2> HIDE DEF p, i
  <2>4. i \in Records /\ none \in RecordValues
    BY <1>0, <2>1 DEF RecordValues
  <2> HIDE DEF none
  <2>5. /\ RemoveAt(acq[t], p) \in Seq(Records)
        /\ DOMAIN RemoveAt(acq[t], p) = 1..(Len(acq[t]) - 1)
        /\ \A n \in 1..(Len(acq[t]) - 1) :
             RemoveAt(acq[t], p)[n] = IF n < p THEN acq[t][n] ELSE acq[t][n + 1]
    BY <1>0, <2>1, TakenOut
  <2>6. /\ acq' \in [Callers -> Seq(Records)] /\ acq'[t] = RemoveAt(acq[t], p)
        /\ \A u \in Callers : u # t => acq'[u] = acq[u]
    BY <1>0, <2>2, <2>5
  <2>7. rec' \in [Records -> RecordValues] /\ \A j \in Records : j # i => rec'[j] = rec[j]
    BY <1>0, <2>3, <2>4
  <2>8. RecordShape'
    BY <2>6, <2>7 DEF RecordShape
  <2>9. ASSUME NEW n \in DOMAIN acq[t], n # p
        PROVE  acq[t][n] # i /\ rec'[acq[t][n]] = rec[acq[t][n]]
    <3>1. acq[t][n] \in Records /\ acq[t][n] # i
      BY <1>0, <2>1, <2>9 DEF RecordsCounted
    <3> QED
      BY <3>1, <2>7
  <2>10. ASSUME NEW u \in Callers, u # t, NEW n \in DOMAIN acq[u]
         PROVE  rec'[acq[u][n]] = rec[acq[u][n]]
    <3>1. acq[u][n] \in Records /\ acq[u][n] \in ToSet(acq[u])
      BY <1>0 DEF ToSet
    <3> QED
      BY <3>1, <2>10, <2>3, <2>7
  <2>11. \A n \in 1..(Len(acq[t]) - 1) :
           \E m \in DOMAIN acq[t] : acq'[t][n] = acq[t][m] /\ m # p /\ m = IF n < p THEN n ELSE n + 1
    <3>1. p \in 1..Len(acq[t]) /\ DOMAIN acq[t] = 1..Len(acq[t]) /\ Len(acq[t]) \in Nat
      BY <1>0, <2>1
    <3> QED
      BY <3>1, <2>5, <2>6
  <2>12. RecordsCounted'
    <3>1. DOMAIN acq'[t] = 1..(Len(acq[t]) - 1)
      BY <2>5, <2>6
    <3>2. ASSUME NEW n \in DOMAIN acq'[t]
          PROVE  rec'[acq'[t][n]].key \in Keys /\ rec'[acq'[t][n]].count > 0
      BY <3>1, <2>9, <2>11 DEF RecordsCounted
    <3>3. ASSUME NEW m \in DOMAIN acq'[t], NEW n \in DOMAIN acq'[t], m # n
          PROVE  acq'[t][m] # acq'[t][n]
      <4>1. PICK a \in DOMAIN acq[t] : acq'[t][m] = acq[t][a] /\ a = IF m < p THEN m ELSE m + 1
        BY <3>1, <2>11
      <4>2. PICK b \in DOMAIN acq[t] : acq'[t][n] = acq[t][b] /\ b = IF n < p THEN n ELSE n + 1
        BY <3>1, <2>11
      <4>3. m \in Nat /\ n \in Nat /\ p \in Nat
        BY <3>1, <2>1, <1>0
      <4>4. a # b
        BY <4>1, <4>2, <4>3, <3>3
      <4> QED
        BY <4>1, <4>2, <4>4 DEF RecordsCounted
    <3>4. ASSUME NEW u \in Callers, u # t
          PROVE  /\ \A m, n \in DOMAIN acq'[u] : m # n => acq'[u][m] # acq'[u][n]
                 /\ \A n \in DOMAIN acq'[u] : rec'[acq'[u][n]].key \in Keys /\ rec'[acq'[u][n]].count > 0
      <4>1. acq'[u] = acq[u]
        BY <3>4, <2>6
      <4>2. \A n \in DOMAIN acq[u] : rec'[acq[u][n]] = rec[acq[u][n]]
        BY <3>4, <2>10
      <4> QED
        BY <4>1, <4>2 DEF RecordsCounted
    <3> QED
      BY <3>2, <3>3, <3>4 DEF RecordsCounted
  <2>13. ASSUME NEW u \in Callers, NEW x \in Keys, u # t \/ x # k
         PROVE  /\ Holds(acq'[u], rec', x) <=> Holds(acq[u], rec, x)
                /\ CountsOn(acq[u], rec, x) => CountsOn(acq'[u], rec', x)
    <3>1. CASE u = t
      <4>1. rec[acq[t][p]].key # x /\ acq[t] \in Seq(Records)
        BY <3>1, <2>13, <2>1, <1>0
      <4>2. \A n \in DOMAIN acq[t] : n # p => rec'[acq[t][n]] = rec[acq[t][n]]
        BY <2>9
      <4>3. /\ Holds(RemoveAt(acq[t], p), rec', x) <=> Holds(acq[t], rec, x)
            /\ CountsOn(acq[t], rec, x) => CountsOn(RemoveAt(acq[t], p), rec', x)
        BY <4>1, <4>2, <1>0, <2>1, <2>7, ShorterContext
      <4> QED
        BY <3>1, <4>3, <2>6
    <3>2. CASE u # t
      <4>1. acq'[u] = acq[u] /\ acq[u] \in Seq(Records)
        BY <3>2, <2>6, <1>0
      <4>2. \A n \in DOMAIN acq[u] : /\ rec'[acq[u][n]].key = rec[acq[u][n]].key
                                     /\ rec[acq[u][n]].key = x => rec'[acq[u][n]].count >= rec[acq[u][n]].count
        <5>1. \A n \in DOMAIN acq[u] : rec[acq[u][n]].count \in Nat
          BY <4>1, <1>0 DEF RecordValues
        <5> QED
          BY <5>1, <2>10, <3>2
      <4> QED
        BY <4>1, <4>2, <1>0, <2>7, SameContext
    <3> QED
      BY <3>1, <3>2
  <2> QED
    BY <2>8, <2>12, <2>13, OthersKeepIf
<1> QED
  BY <1>1, <1>2

\* Any step that gives one task, at most, another context, without touching the
\* records the others have, leaves what they say.
LEMMA OthersContexts ==
    ASSUME RecordShape, RecordShape', NEW t,
           \A u \in Callers \ {t} : /\ acq'[u] = acq[u]
                                    /\ \A n \in DOMAIN acq[u] : rec'[acq[u][n]] = rec[acq[u][n]]
    PROVE  \A u \in Callers \ {t}, x \in Keys : /\ (x \in Held(u))' <=> x \in Held(u)
                                                /\ Counted(u, x) => Counted(u, x)'
<1> TAKE u \in Callers \ {t}, x \in Keys
<1>0. /\ acq[u] \in Seq(Records) /\ acq'[u] = acq[u]
      /\ rec \in [Records -> RecordValues] /\ rec' \in [Records -> RecordValues]
  BY DEF RecordShape
<1>1. \A n \in DOMAIN acq[u] : rec[acq[u][n]].count \in Nat
  BY <1>0 DEF RecordValues
<1>2. \A n \in DOMAIN acq[u] : /\ rec'[acq[u][n]].key = rec[acq[u][n]].key
                               /\ rec[acq[u][n]].key = x => rec'[acq[u][n]].count >= rec[acq[u][n]].count
  BY <1>1
<1>3. /\ Holds(acq'[u], rec', x) <=> Holds(acq[u], rec, x)
      /\ CountsOn(acq[u], rec, x) => CountsOn(acq'[u], rec', x)
  BY <1>0, <1>2, SameContext
<1> QED
  BY <1>3, HeldIs, HeldNext

\* A task created inside a guard starts with its creator's context.
LEMMA ContextCopied ==
    ASSUME RecordShape, RecordsCounted, NEW t \in Callers, NEW u \in Callers, Spawn(t, u)
    PROVE  /\ RecordShape' /\ RecordsCounted'
           /\ \A w \in Callers \ {u}, x \in Keys : /\ (x \in Held(w))' <=> x \in Held(w)
                                                   /\ Counted(w, x) => Counted(w, x)'
<1>0. acq \in [Callers -> Seq(Records)] /\ rec \in [Records -> RecordValues]
  BY DEF RecordShape
<1>1. acq' = [acq EXCEPT ![u] = acq[t]] /\ rec' = rec
  BY DEF Spawn
<1>2. /\ acq' \in [Callers -> Seq(Records)] /\ acq'[u] = acq[t]
      /\ \A w \in Callers : w # u => acq'[w] = acq[w]
  BY <1>0, <1>1
<1>3. RecordShape'
  BY <1>0, <1>1, <1>2 DEF RecordShape
<1>4. RecordsCounted'
  BY <1>1, <1>2 DEF RecordsCounted
<1>5. \A w \in Callers \ {u} : /\ acq'[w] = acq[w]
                               /\ \A n \in DOMAIN acq[w] : rec'[acq[w][n]] = rec[acq[w][n]]
  BY <1>1, <1>2
<1> QED
  BY <1>3, <1>4, <1>5, OthersContexts

\* A task's context goes when it ends, and the records nobody else has.
LEMMA ContextEnds ==
    ASSUME RecordShape, RecordsCounted, NEW t \in Callers, EndTask(t)
    PROVE  /\ RecordShape' /\ RecordsCounted'
           /\ \A w \in Callers \ {t}, x \in Keys : /\ (x \in Held(w))' <=> x \in Held(w)
                                                   /\ Counted(w, x) => Counted(w, x)'
<1>0. acq \in [Callers -> Seq(Records)] /\ rec \in [Records -> RecordValues]
  BY DEF RecordShape
<1> DEFINE kept == UNION {ToSet(acq[u]) : u \in Callers \ {t}}
           none == [key |-> Nobody, count |-> 0]
<1>1. /\ acq' = [acq EXCEPT ![t] = <<>>]
      /\ rec' = [i \in Records |-> IF i \in ToSet(acq[t]) \ kept THEN none ELSE rec[i]]
  BY DEF EndTask
<1>2. none \in RecordValues
  BY DEF RecordValues
<1>3. \A u \in Callers \ {t} : \A n \in DOMAIN acq[u] : acq[u][n] \in kept
  BY DEF ToSet
<1> HIDE DEF none, kept
<1>4. /\ acq' \in [Callers -> Seq(Records)] /\ acq'[t] = <<>>
      /\ \A u \in Callers : u # t => acq'[u] = acq[u]
  BY <1>0, <1>1
<1>5. rec' \in [Records -> RecordValues]
  BY <1>0, <1>1, <1>2
<1>6. RecordShape'
  BY <1>4, <1>5 DEF RecordShape
<1>7. \A u \in Callers \ {t} : \A n \in DOMAIN acq[u] : rec'[acq[u][n]] = rec[acq[u][n]]
  BY <1>0, <1>1, <1>3
<1>8. RecordsCounted'
  <2>1. ASSUME NEW u \in Callers, u # t
        PROVE  /\ \A m, n \in DOMAIN acq'[u] : m # n => acq'[u][m] # acq'[u][n]
               /\ \A n \in DOMAIN acq'[u] : rec'[acq'[u][n]].key \in Keys /\ rec'[acq'[u][n]].count > 0
    <3>1. acq'[u] = acq[u]
      BY <2>1, <1>4
    <3>2. \A n \in DOMAIN acq[u] : rec'[acq[u][n]] = rec[acq[u][n]]
      BY <2>1, <1>7
    <3> QED
      BY <3>1, <3>2 DEF RecordsCounted
  <2>2. DOMAIN acq'[t] = {}
    BY <1>4
  <2> QED
    BY <2>1, <2>2 DEF RecordsCounted
<1> QED
  BY <1>4, <1>6, <1>7, <1>8, OthersContexts

-----------------------------------------------------------------------------
(* The keyed locks: shape and pool.                                          *)

Waits == [at : {"fast"}, key : Keys, obj : Objs]
           \cup [at : {"slow"}, key : Keys, obj : Objs, tries : Int]
Guards == [key : Keys, how : Ways]
Owners == Callers \cup {Gone}

LockShape ==
  /\ locks \in [Keys -> Objs \cup {Nobody}]
  /\ pool \subseteq Objs
  /\ owner \in [Objs -> Owners \cup {Nobody}]
  /\ ownerTask \in [Keys -> Owners \cup {Nobody}]
  /\ stacks \in [Owners -> [Keys -> Seq(Objs)]]
  /\ step \in [Callers -> Waits \cup {Free}]
  /\ body \in [Callers -> Seq(Guards)]
  /\ bypassed \subseteq Keys
  /\ blame \in [Keys -> SUBSET Causes]

\* Where a task is tells what its record says.
LEMMA WaitShape ==
    ASSUME LockShape, NEW t \in Callers
    PROVE  /\ step[t].at \in {"free", "fast", "slow"}
           /\ step[t].at = "free" <=> step[t] = Free
           /\ step[t].at # "free" => step[t].key \in Keys /\ step[t].obj \in Objs
           /\ step[t].at = "slow" => step[t] \in [at : {"slow"}, key : Keys, obj : Objs, tries : Int]
BY DEF LockShape, Waits, Free

\* A sequence without its last element.
LEMMA AllButLast ==
    ASSUME NEW S, NEW s \in Seq(S), s # <<>>
    PROVE  /\ Front(s) \in Seq(S) /\ Len(Front(s)) = Len(s) - 1
           /\ DOMAIN Front(s) = 1..(Len(s) - 1) /\ DOMAIN s = 1..Len(s)
           /\ \A i \in 1..(Len(s) - 1) : Front(s)[i] = s[i]
           /\ Len(s) \in DOMAIN s /\ Last(s) = s[Len(s)] /\ Last(s) \in S
<1>0. Len(s) \in Nat /\ Len(s) > 0 /\ DOMAIN s = 1..Len(s)
  OBVIOUS
<1>5. ASSUME NEW n \in DOMAIN s
      PROVE  /\ SubSeq(s, 1, n - 1) \in Seq(S) /\ Len(SubSeq(s, 1, n - 1)) = n - 1
             /\ \A i \in 1..(n - 1) : SubSeq(s, 1, n - 1)[i] = s[i]
  <2>1. SubSeq(s, 1, n - 1) \in Seq(S)
    OBVIOUS
  <2>2. Len(SubSeq(s, 1, n - 1)) = n - 1
    OBVIOUS
  <2>3. \A i \in 1..(n - 1) : SubSeq(s, 1, n - 1)[i] = s[i]
    OBVIOUS
  <2> QED
    BY <2>1, <2>2, <2>3
<1>1. /\ SubSeq(s, 1, Len(s) - 1) \in Seq(S)
      /\ Len(SubSeq(s, 1, Len(s) - 1)) = Len(s) - 1
      /\ \A i \in 1..(Len(s) - 1) : SubSeq(s, 1, Len(s) - 1)[i] = s[i]
  BY <1>0, <1>5
<1>2. DOMAIN s = 1..Len(s) /\ Len(s) \in DOMAIN s /\ s[Len(s)] \in S
  OBVIOUS
<1>3. Front(s) = SubSeq(s, 1, Len(s) - 1) /\ Last(s) = s[Len(s)]
  BY DEF Front, Last
<1>4. Front(s) \in Seq(S) /\ Len(Front(s)) = Len(s) - 1
      /\ \A i \in 1..(Len(s) - 1) : Front(s)[i] = s[i]
  BY <1>1, <1>3
<1> QED
  BY <1>2, <1>3, <1>4

\* One more guard, or one less.
LEMMA GuardsStayGuards ==
    ASSUME LockShape, NEW t \in Callers
    PROVE  /\ \A k \in Keys, how \in Ways : Append(body[t], [key |-> k, how |-> how]) \in Seq(Guards)
           /\ body[t] # <<>> => /\ Front(body[t]) \in Seq(Guards)
                                /\ Last(body[t]) \in Guards /\ Last(body[t]).key \in Keys
<1>1. body[t] \in Seq(Guards)
  BY DEF LockShape
<1>2. \A k \in Keys, how \in Ways : [key |-> k, how |-> how] \in Guards
  BY DEF Guards
<1>3. ASSUME body[t] # <<>> PROVE Front(body[t]) \in Seq(Guards) /\ Last(body[t]) \in Guards
  BY <1>1, <1>3, AllButLast
<1> QED
  BY <1>1, <1>2, <1>3 DEF Guards

\* Every step keeps the shape.
LEMMA ShapeNext == LockShape /\ RecordShape /\ RecordsCounted /\ [LockNext]_lockVars => LockShape'
<1> SUFFICES ASSUME LockShape, RecordShape, RecordsCounted, [LockNext]_lockVars PROVE LockShape'
  OBVIOUS
<1>a. /\ locks \in [Keys -> Objs \cup {Nobody}] /\ pool \subseteq Objs
      /\ owner \in [Objs -> Owners \cup {Nobody}]
      /\ ownerTask \in [Keys -> Owners \cup {Nobody}]
      /\ stacks \in [Owners -> [Keys -> Seq(Objs)]]
      /\ step \in [Callers -> Waits \cup {Free}] /\ body \in [Callers -> Seq(Guards)]
      /\ bypassed \subseteq Keys /\ blame \in [Keys -> SUBSET Causes]
  BY DEF LockShape
<1>b. ASSUME NEW t \in Callers, NEW k \in Keys, NEW how \in Ways, EnterBody(t, k, how)
      PROVE  body' \in [Callers -> Seq(Guards)] /\ step' \in [Callers -> Waits \cup {Free}]
  BY <1>a, <1>b, GuardsStayGuards DEF EnterBody
<1>c. ASSUME NEW t \in Callers, GiveUp(t)
      PROVE  body' = body /\ step' \in [Callers -> Waits \cup {Free}]
  BY <1>a, <1>c DEF GiveUp
<1>d. ASSUME NEW k \in Keys, NEW o \in Objs, GetLock(k, o)
      PROVE  locks' \in [Keys -> Objs \cup {Nobody}] /\ pool' \subseteq Objs
  BY <1>a, <1>d DEF GetLock
<1>e. ASSUME NEW t \in Callers, NEW k \in Keys, NEW o \in Objs, RecordAcquired(t, k, o)
      PROVE  /\ owner' \in [Objs -> Owners \cup {Nobody}]
             /\ ownerTask' \in [Keys -> Owners \cup {Nobody}]
             /\ stacks' \in [Owners -> [Keys -> Seq(Objs)]]
  <2>1. owner' \in [Objs -> Owners \cup {Nobody}] /\ ownerTask' \in [Keys -> Owners \cup {Nobody}]
    BY <1>a, <1>e DEF RecordAcquired, Owners
  <2>2. stacks' = [stacks EXCEPT ![t] = [stacks[t] EXCEPT ![k] = Append(@, o)]]
    BY <1>e DEF RecordAcquired
  <2>3. [stacks[t] EXCEPT ![k] = Append(@, o)] \in [Keys -> Seq(Objs)]
    BY <1>a DEF Owners
  <2> QED
    BY <1>a, <2>1, <2>2, <2>3
<1>f. ASSUME NEW k, bypassed' \in {bypassed, bypassed \cup {k}, bypassed \ {k}}, k \in Keys
      PROVE  bypassed' \subseteq Keys
  BY <1>a, <1>f
<1>g. ASSUME NEW t \in Callers, NEW k \in Keys, Forget(t, k, <<>>) \/ \E s : Forget(t, k, s)
      PROVE  ownerTask' \in [Keys -> Owners \cup {Nobody}]
  BY <1>a, <1>g DEF Forget
<1>h. ASSUME NEW k \in Keys, NEW c \in Causes, blame' \in {blame, [blame EXCEPT ![k] = @ \cup {c}]}
      PROVE  blame' \in [Keys -> SUBSET Causes]
  <2>1. blame[k] \cup {c} \in SUBSET Causes
    BY <1>a
  <2>2. blame' = blame \/ blame' = [blame EXCEPT ![k] = blame[k] \cup {c}]
    BY <1>h
  <2> HIDE DEF Causes
  <2> QED
    BY <1>a, <2>1, <2>2
<1>i. ASSUME NEW t \in Callers, body[t] # <<>>, StepOut(t)
      PROVE  body' \in [Callers -> Seq(Guards)]
  BY <1>a, <1>i, GuardsStayGuards DEF StepOut
<1>j. ASSUME NEW t \in Callers, NEW k \in Keys, stacks' = [stacks EXCEPT ![t][k] = Front(@)],
             stacks[t][k] # <<>>
      PROVE  stacks' \in [Owners -> [Keys -> Seq(Objs)]]
  <2> DEFINE f == Front(stacks[t][k])
  <2>1. stacks' = [stacks EXCEPT ![t] = [stacks[t] EXCEPT ![k] = f]]
    BY <1>j
  <2>4. stacks[t][k] \in Seq(Objs)
    BY <1>a DEF Owners
  <2>2. f \in Seq(Objs)
    BY <2>4, <1>j, AllButLast
  <2> HIDE DEF f
  <2>3. [stacks[t] EXCEPT ![k] = f] \in [Keys -> Seq(Objs)]
    BY <1>a, <2>2 DEF Owners
  <2> QED
    BY <1>a, <2>1, <2>3
<1>k. {"rollback", "again", "inherit", "bypass", "force", "recycle"} = Causes
  BY DEF Causes
<1>1. ASSUME NEW t \in Callers, NEW k \in Keys, Bypass(t, k) PROVE LockShape'
  <2>1. body' \in [Callers -> Seq(Guards)] /\ step' \in [Callers -> Waits \cup {Free}]
    BY <1>1, <1>b DEF Bypass, Ways
  <2> QED
    BY <1>a, <1>1, <2>1 DEF Bypass, LockShape
<1>2. ASSUME NEW t \in Callers, NEW k \in Keys, Rejected(t, k) PROVE LockShape'
  BY <1>a, <1>2, <1>c DEF Rejected, LockShape
<1>3. ASSUME NEW t \in Callers, NEW k \in Keys, NEW o \in Objs, BeginFast(t, k, o) PROVE LockShape'
  <2>1. [at |-> "fast", key |-> k, obj |-> o] \in Waits
    BY DEF Waits
  <2>2. step' \in [Callers -> Waits \cup {Free}]
    BY <1>a, <1>3, <2>1 DEF BeginFast
  <2>3. bypassed' \subseteq Keys
    BY <1>a, <1>3 DEF BeginFast, ResetCircuit
  <2> QED
    BY <1>a, <1>3, <1>d, <2>2, <2>3 DEF BeginFast, LockShape
<1>4. ASSUME NEW t \in Callers, FastAcquire(t) \/ SlowAcquire(t) PROVE LockShape'
  <2>1. step[t].key \in Keys /\ step[t].obj \in Objs
    BY <1>4, WaitShape DEF FastAcquire, SlowAcquire
  <2>2. /\ RecordAcquired(t, step[t].key, step[t].obj) /\ ResetCircuit(step[t].key)
        /\ EnterBody(t, step[t].key, "lock") /\ UNCHANGED <<locks, pool, blame>>
    BY <1>4 DEF FastAcquire, SlowAcquire
  <2>3. body' \in [Callers -> Seq(Guards)] /\ step' \in [Callers -> Waits \cup {Free}]
    BY <2>1, <2>2, <1>b DEF Ways
  <2>4. bypassed' \subseteq Keys
    BY <1>a, <2>2 DEF ResetCircuit
  <2> QED
    BY <1>a, <1>e, <2>1, <2>2, <2>3, <2>4 DEF LockShape
<1>5. ASSUME NEW t \in Callers, FastRefused(t) PROVE LockShape'
  <2>1. step[t].key \in Keys /\ step[t].obj \in Objs
    BY <1>5, WaitShape DEF FastRefused
  <2>2. owner' \in [Objs -> Owners \cup {Nobody}]
    BY <1>a, <1>5, <2>1 DEF FastRefused, Owners
  <2>3. blame' \in [Keys -> SUBSET Causes]
    BY <1>5, <2>1, <1>h, <1>k DEF FastRefused
  <2> QED
    BY <1>a, <1>5, <1>c, <2>2, <2>3 DEF FastRefused, LockShape
<1>6. ASSUME NEW t \in Callers, NEW o \in Objs, Reenter(t, o) PROVE LockShape'
  <2>1. step[t].key \in Keys
    BY <1>6, WaitShape DEF Reenter
  <2>2. body' \in [Callers -> Seq(Guards)] /\ step' \in [Callers -> Waits \cup {Free}]
    BY <1>6, <2>1, <1>b DEF Reenter, Ways
  <2>3. blame' \in [Keys -> SUBSET Causes]
    <3>1. blame' \in {blame, [blame EXCEPT ![step[t].key] = @ \cup {"inherit"}]}
      BY <1>6 DEF Reenter
    <3> QED
      BY <3>1, <2>1, <1>h, <1>k
  <2>4. ownerTask' \in [Keys -> Owners \cup {Nobody}] /\ bypassed' \subseteq Keys
    BY <1>a, <1>6 DEF Reenter, Owners, ResetCircuit
  <2>5. locks' \in [Keys -> Objs \cup {Nobody}] /\ pool' \subseteq Objs
    BY <1>6, <2>1, <1>d DEF Reenter
  <2> QED
    BY <1>a, <1>6, <2>2, <2>3, <2>4, <2>5 DEF Reenter, LockShape
<1>7. ASSUME NEW t \in Callers, NEW o \in Objs, SlowRefused(t, o) PROVE LockShape'
  <2>1. step[t].key \in Keys
    BY <1>7, WaitShape DEF SlowRefused
  <2>2. locks' \in [Keys -> Objs \cup {Nobody}] /\ pool' \subseteq Objs
    BY <1>7, <2>1, <1>d DEF SlowRefused
  <2> QED
    BY <1>a, <1>7, <1>c, <2>2 DEF SlowRefused, LockShape
<1>8. ASSUME NEW t \in Callers, NEW o \in Objs, BeginSlow(t, o) PROVE LockShape'
  <2>1. step[t].key \in Keys
    BY <1>8, WaitShape DEF BeginSlow
  <2>2. locks' \in [Keys -> Objs \cup {Nobody}] /\ pool' \subseteq Objs
    BY <1>8, <2>1, <1>d DEF BeginSlow
  <2>3. [at |-> "slow", key |-> step[t].key, obj |-> o, tries |-> 0] \in Waits
    BY <2>1 DEF Waits
  <2>4. step' \in [Callers -> Waits \cup {Free}]
    BY <1>a, <1>8, <2>3 DEF BeginSlow
  <2> QED
    BY <1>a, <1>8, <2>2, <2>4 DEF BeginSlow, LockShape
<1>9. ASSUME NEW t \in Callers, SlowTimeout(t) PROVE LockShape'
  <2>1. step[t] \in [at : {"slow"}, key : Keys, obj : Objs, tries : Int]
    BY <1>9, WaitShape DEF SlowTimeout
  <2>2. step' = [step EXCEPT ![t] = [step[t] EXCEPT !.tries = @ + 1]]
    BY <1>9 DEF SlowTimeout
  <2>3. [step[t] EXCEPT !.tries = @ + 1] \in Waits
    BY <2>1 DEF Waits
  <2>4. step' \in [Callers -> Waits \cup {Free}]
    BY <1>a, <2>2, <2>3
  <2> QED
    BY <1>a, <1>9, <2>4 DEF SlowTimeout, LockShape
<1>10. ASSUME NEW t \in Callers, SlowFail(t) \/ CancelAcquire(t) PROVE LockShape'
  BY <1>a, <1>10, <1>c DEF SlowFail, CancelAcquire, LockShape
<1>11. ASSUME NEW t \in Callers, Release(t) PROVE LockShape'
  <2> DEFINE k == Last(body[t]).key
  <2>1. k \in Keys /\ body[t] # <<>>
    BY <1>11, GuardsStayGuards DEF Release
  <2> HIDE DEF k
  <2>2. ASSUME StepOut(t) PROVE body' \in [Callers -> Seq(Guards)]
    BY <2>1, <2>2, <1>i
  <2>3. CASE ReleaseBypassed(t)
    <3>1. bypassed' \subseteq Keys
      BY <1>a, <2>3 DEF ReleaseBypassed
    <3>2. blame' \in {blame, [blame EXCEPT ![k] = @ \cup {"bypass"}]}
      BY <2>3 DEF ReleaseBypassed, k
    <3>3. blame' \in [Keys -> SUBSET Causes]
      BY <3>2, <2>1, <1>h, <1>k
    <3> QED
      BY <1>a, <2>2, <2>3, <3>1, <3>3 DEF ReleaseBypassed, LockShape
  <2>4. CASE ReleaseUnknown(t) \/ ReleaseNothing(t)
    BY <1>a, <2>2, <2>4 DEF ReleaseUnknown, ReleaseNothing, LockShape
  <2>5. CASE ReleaseCounted(t)
    <3>1. blame' \in [Keys -> SUBSET Causes]
      BY <2>5, <2>1, <1>h, <1>k DEF ReleaseCounted, k
    <3>2. stacks' \in [Owners -> [Keys -> Seq(Objs)]]
      BY <1>a, <2>1, <2>5, <1>j DEF ReleaseCounted, k
    <3>3. owner' \in [Objs -> Owners \cup {Nobody}]
      BY <1>a, <2>5 DEF ReleaseCounted, Exit
    <3> QED
      BY <1>a, <2>2, <2>5, <3>1, <3>2, <3>3 DEF ReleaseCounted, LockShape
  <2>6. CASE ReleaseWrongOwner(t)
    <3>1. ownerTask' \in [Keys -> Owners \cup {Nobody}]
      BY <1>a, <2>6 DEF ReleaseWrongOwner, Owners
    <3> QED
      BY <1>a, <2>2, <2>6, <3>1 DEF ReleaseWrongOwner, LockShape
  <2>7. CASE ReleaseOwn(t)
    <3>1. blame' \in {blame, [blame EXCEPT ![k] = @ \cup {"bypass"}]}
      BY <2>7 DEF ReleaseOwn, k
    <3>2. blame' \in [Keys -> SUBSET Causes]
      BY <3>1, <2>1, <1>h, <1>k
    <3>3. stacks' \in [Owners -> [Keys -> Seq(Objs)]]
      BY <1>a, <2>1, <2>7, <1>j DEF ReleaseOwn, k
    <3>4. owner' \in [Objs -> Owners \cup {Nobody}]
      BY <1>a, <2>7 DEF ReleaseOwn, Exit
    <3>5. ownerTask' = ownerTask \/ \E s : Forget(t, k, s)
      BY <2>7 DEF ReleaseOwn, k
    <3>6. ownerTask' \in [Keys -> Owners \cup {Nobody}]
      BY <1>a, <3>5, <2>1, <1>g
    <3> QED
      BY <1>a, <2>2, <2>7, <3>2, <3>3, <3>4, <3>6 DEF ReleaseOwn, LockShape
  <2>8. CASE ReleaseOrphan(t)
    <3>1. \/ ownerTask' = [ownerTask EXCEPT ![k] = t]
          \/ Forget(t, k, <<>>)
      BY <2>8 DEF ReleaseOrphan, k
    <3>2. ownerTask' \in [Keys -> Owners \cup {Nobody}]
      BY <1>a, <3>1, <2>1, <1>g DEF Owners
    <3>3. owner' \in [Objs -> Owners \cup {Nobody}]
      BY <1>a, <2>8 DEF ReleaseOrphan, Owners
    <3>4. stacks' = [stacks EXCEPT ![t] = [stacks[t] EXCEPT ![k] = <<>>],
                                   ![Gone] = [stacks[Gone] EXCEPT ![k] = <<>>]]
      BY <2>8 DEF ReleaseOrphan, k
    <3>5. /\ [stacks[t] EXCEPT ![k] = <<>>] \in [Keys -> Seq(Objs)]
          /\ [stacks[Gone] EXCEPT ![k] = <<>>] \in [Keys -> Seq(Objs)]
      BY <1>a, <2>1 DEF Owners
    <3> DEFINE f == [stacks[t] EXCEPT ![k] = <<>>]
               g == [stacks[Gone] EXCEPT ![k] = <<>>]
    <3>7. stacks' = [[stacks EXCEPT ![t] = f] EXCEPT ![Gone] = g] /\ t # Gone
      BY <3>4 DEF KeyedAssumption
    <3> HIDE DEF f, g
    <3>6. stacks' \in [Owners -> [Keys -> Seq(Objs)]]
      BY <1>a, <3>7, <3>5 DEF f, g
    <3> QED
      BY <1>a, <2>2, <2>8, <3>2, <3>3, <3>6 DEF ReleaseOrphan, LockShape
  <2> QED
    BY <1>11, <2>3, <2>4, <2>5, <2>6, <2>7, <2>8 DEF Release
<1>12. ASSUME NEW t \in Callers, EndTask(t) PROVE LockShape'
  <2>1. owner' \in [Objs -> Owners \cup {Nobody}] /\ ownerTask' \in [Keys -> Owners \cup {Nobody}]
    BY <1>a, <1>12 DEF EndTask, Owners
  <2>2. \A k \in Keys : stacks[Gone][k] \o stacks[t][k] \in Seq(Objs)
    BY <1>a DEF Owners
  <2> DEFINE f == [k \in Keys |-> <<>>]
             g == [k \in Keys |-> stacks[Gone][k] \o stacks[t][k]]
  <2>4. f \in [Keys -> Seq(Objs)] /\ g \in [Keys -> Seq(Objs)]
    BY <2>2
  <2>5. stacks' = [[stacks EXCEPT ![t] = f] EXCEPT ![Gone] = g]
    BY <1>12 DEF EndTask
  <2> HIDE DEF f, g
  <2>3. stacks' \in [Owners -> [Keys -> Seq(Objs)]]
    BY <1>a, <2>4, <2>5
  <2> QED
    BY <1>a, <1>12, <2>1, <2>3 DEF EndTask, LockShape
<1>13. ASSUME NEW t \in Callers, NEW k \in Keys, ForceRelease(t, k) PROVE LockShape'
  <2>1. blame' \in [Keys -> SUBSET Causes]
    BY <1>13, <1>h, <1>k DEF ForceRelease
  <2>2. stacks' \in [Owners -> [Keys -> Seq(Objs)]]
    BY <1>a, <1>13 DEF ForceRelease, Owners
  <2>3. owner' \in [Objs -> Owners \cup {Nobody}] /\ bypassed' \subseteq Keys
    BY <1>a, <1>13 DEF ForceRelease, Exit, ResetCircuit
  <2> QED
    BY <1>a, <1>13, <2>1, <2>2, <2>3 DEF ForceRelease, LockShape
<1>14. CASE CleanupIdle
  <2>1. locks' \in [Keys -> Objs \cup {Nobody}]
    BY <1>a, <1>14 DEF CleanupIdle
  <2>2. pool' \subseteq Objs
    BY <1>a, <1>14 DEF CleanupIdle, IdleKeys
  <2>3. blame' \in [Keys -> SUBSET Causes]
    BY <1>a, <1>14, <1>k DEF CleanupIdle
  <2> QED
    BY <1>a, <1>14, <2>1, <2>2, <2>3 DEF CleanupIdle, LockShape
<1>15. CASE \/ \E t, u \in Callers : Spawn(t, u) 
            \/ \E t \in Callers, s \in Batches : StartBatch(t, s)
            \/ (\E o \in Objs : GrowOld(o)) \/ Shutdown \/ UNCHANGED lockVars
  BY <1>a, <1>15 DEF Spawn, StartBatch, GrowOld, Shutdown, lockVars, LockShape
<1> QED
  BY <1>1, <1>2, <1>3, <1>4, <1>5, <1>6, <1>7, <1>8, <1>9, <1>10, <1>11, <1>12, <1>13,
     <1>14, <1>15 DEF LockNext, LockStep

-----------------------------------------------------------------------------
(* The keyed locks: what a task holds while it waits.                        *)

\* What a step does to the records: they keep their shape, and the keys of a task
\* that waits before and after it stay.
RecordsKept ==
  /\ RecordShape' /\ RecordsCounted'
  /\ \A u \in Callers : step[u].at # "free" /\ step'[u].at # "free"
                          => \A x \in Keys : (x \in Held(u))' <=> x \in Held(u)

\* A step that leaves records and contexts alone keeps them.
LEMMA SameRecords == RecordShape /\ RecordsCounted /\ UNCHANGED <<rec, acq>> => RecordsKept
BY DEF RecordShape, RecordsCounted, RecordsKept, Held

\* Every step keeps the records' shape and what a waiting task holds.
LEMMA RecordsNext == LockShape /\ RecordShape /\ RecordsCounted /\ [LockNext]_lockVars => RecordsKept
<1> SUFFICES ASSUME LockShape, RecordShape, RecordsCounted, [LockNext]_lockVars PROVE RecordsKept
  OBVIOUS
<1>0. step \in [Callers -> Waits \cup {Free}]
  BY DEF LockShape
<1>1. ASSUME NEW t \in Callers, FastAcquire(t) \/ SlowAcquire(t) PROVE RecordsKept
  <2>0. PICK k \in Keys, o \in Objs : k = step[t].key /\ o = step[t].obj
    BY <1>1, WaitShape DEF FastAcquire, SlowAcquire
  <2>1. RecordAcquired(t, k, o) /\ EnterBody(t, k, "lock")
    BY <1>1, <2>0 DEF FastAcquire, SlowAcquire
  <2>4. step' = [step EXCEPT ![t] = Free]
    BY <2>1 DEF EnterBody
  <2>2. step'[t].at = "free"
    BY <1>0, <2>4 DEF Free
  <2>3. RecordShape' /\ RecordsCounted' /\ OthersKeep(t, k)
    BY <2>1, RecordTaken
  <2> QED
    BY <2>2, <2>3 DEF RecordsKept, OthersKeep
<1>2. ASSUME NEW t \in Callers, NEW o \in Objs, Reenter(t, o) PROVE RecordsKept
  <2>0. PICK k \in Keys : k = step[t].key
    BY <1>2, WaitShape DEF Reenter
  <2>1. k \in Held(t) /\ Raised(t, k)
    BY <1>2, <2>0 DEF Reenter, Raised
  <2>4. step' = [step EXCEPT ![t] = Free]
    BY <1>2 DEF Reenter, EnterBody
  <2>2. step'[t].at = "free"
    BY <1>0, <2>4 DEF Free
  <2>3. RecordShape' /\ RecordsCounted' /\ OthersKeep(t, k)
    BY <2>1, RecordRaised
  <2> QED
    BY <2>2, <2>3 DEF RecordsKept, OthersKeep
<1>3. ASSUME NEW t \in Callers, Release(t) PROVE RecordsKept
  <2> DEFINE k == Last(body[t]).key
  <2>1. k \in Keys /\ step[t].at = "free"
    BY <1>3, GuardsStayGuards DEF Release
  <2>2. CASE ReleaseCounted(t)
    <3>1. Lowered(t, k) /\ Counted(t, k)
      BY <2>2 DEF ReleaseCounted, Lowered
    <3> HIDE DEF k
    <3> QED
      BY <2>1, <3>1, RecordLowered DEF RecordsKept
  <2>3. CASE ReleaseOwn(t)
    <3>1. UNCHANGED <<rec, acq>> \/ \E s : Forget(t, k, s)
      BY <2>3 DEF ReleaseOwn
    <3> HIDE DEF k
    <3>2. ASSUME NEW s, Forget(t, k, s) PROVE RecordsKept
      BY <2>1, <3>2, RecordForgotten DEF RecordsKept, OthersKeep
    <3> QED
      BY <3>1, <3>2, SameRecords
  <2>4. CASE ReleaseOrphan(t)
    <3>1. UNCHANGED <<rec, acq>> \/ Forget(t, k, <<>>)
      BY <2>4 DEF ReleaseOrphan
    <3> HIDE DEF k
    <3>2. ASSUME Forget(t, k, <<>>) PROVE RecordsKept
      BY <2>1, <3>2, RecordForgotten DEF RecordsKept, OthersKeep
    <3> QED
      BY <3>1, <3>2, SameRecords
  <2>5. CASE ReleaseBypassed(t) \/ ReleaseUnknown(t) \/ ReleaseWrongOwner(t) \/ ReleaseNothing(t)
    BY <2>5, SameRecords DEF ReleaseBypassed, ReleaseUnknown, ReleaseWrongOwner, ReleaseNothing
  <2> QED
    BY <1>3, <2>2, <2>3, <2>4, <2>5 DEF Release
<1>4. ASSUME NEW t \in Callers, NEW u \in Callers, Spawn(t, u) PROVE RecordsKept
  <2>1. step[u].at = "free"
    BY <1>4 DEF Spawn
  <2> QED
    BY <1>4, <2>1, ContextCopied DEF RecordsKept
<1>5. ASSUME NEW t \in Callers, EndTask(t) PROVE RecordsKept
  <2>1. step[t].at = "free"
    BY <1>5 DEF EndTask
  <2> QED
    BY <1>5, <2>1, ContextEnds DEF RecordsKept
<1>6. ASSUME NEW t \in Callers, NEW k \in Keys,
             Bypass(t, k) \/ Rejected(t, k) \/ ForceRelease(t, k) \/ \E o \in Objs : BeginFast(t, k, o)
      PROVE  RecordsKept
  BY <1>6, SameRecords DEF Bypass, Rejected, ForceRelease, BeginFast
<1>7. ASSUME NEW t \in Callers,
             \/ FastRefused(t) \/ \E o \in Objs : SlowRefused(t, o) \/ BeginSlow(t, o)
             \/ SlowTimeout(t) \/ SlowFail(t) \/ CancelAcquire(t) \/ \E s \in Batches : StartBatch(t, s)
      PROVE  RecordsKept
  BY <1>7, SameRecords DEF FastRefused, SlowRefused, BeginSlow, SlowTimeout, SlowFail, CancelAcquire,
                           StartBatch
<1>8. CASE (\E o \in Objs : GrowOld(o)) \/ CleanupIdle \/ Shutdown \/ UNCHANGED lockVars
  BY <1>8, SameRecords DEF GrowOld, CleanupIdle, Shutdown, lockVars
<1> QED
  BY <1>1, <1>2, <1>3, <1>4, <1>5, <1>6, <1>7, <1>8 DEF LockNext, LockStep

\* What a task holds are keys.
LEMMA HeldInKeys ==
    ASSUME RecordShape, RecordsCounted, NEW t \in Callers
    PROVE  Held(t) \subseteq Keys
<1>1. acq[t] \in Seq(Records)
  BY DEF RecordShape
<1>2. \A i \in ToSet(acq[t]) : rec[i].key \in Keys
  BY <1>1 DEF ToSet, RecordsCounted
<1> QED
  BY <1>2 DEF Held

\* What a task holds after a step are keys.
LEMMA HeldInKeysNext ==
    ASSUME RecordShape', RecordsCounted', NEW t \in Callers
    PROVE  Held(t)' \subseteq Keys
<1>1. acq'[t] \in Seq(Records)
  BY DEF RecordShape
<1>2. \A i \in ToSet(acq'[t]) : rec'[i].key \in Keys
  BY <1>1 DEF ToSet, RecordsCounted
<1> QED
  BY <1>2 DEF Held

\* A task waits only for a key it does not hold and that the order check let it ask for.
SlowIsAdmitted ==
  \A t \in Callers :
    step[t].at = "slow" => step[t].key \notin Held(t) /\ ~Refused(t, step[t].key)

\* Only a task the order check admitted comes to wait (acquire, _validate_lock_order).
LEMMA SlowIsAdmittedNext ==
  LockShape /\ RecordShape /\ RecordsCounted /\ SlowIsAdmitted /\ [LockNext]_lockVars => SlowIsAdmitted'
<1> SUFFICES ASSUME LockShape, RecordShape, RecordsCounted, SlowIsAdmitted, [LockNext]_lockVars,
                    NEW u \in Callers, step'[u].at = "slow"
             PROVE  step'[u].key \notin Held(u)' /\ ~Refused(u, step[u].key)'
  BY DEF SlowIsAdmitted
<1>0. step \in [Callers -> Waits \cup {Free}]
  BY DEF LockShape
<1>1. RecordsKept
  BY RecordsNext
<1>2. ASSUME step[u].at # "free" PROVE Held(u)' = Held(u)
  <2>1. Held(u) \subseteq Keys /\ Held(u)' \subseteq Keys
    BY <1>1, HeldInKeys, HeldInKeysNext DEF RecordsKept
  <2>2. \A x \in Keys : (x \in Held(u))' <=> x \in Held(u)
    BY <1>1, <1>2 DEF RecordsKept
  <2> QED
    BY <2>1, <2>2
<1>3. \/ step[u].at = "slow" /\ step'[u].key = step[u].key
      \/ /\ step[u].at = "fast" /\ step'[u].key = step[u].key
         /\ step[u].key \notin Held(u) /\ ~Refused(u, step[u].key)
  <2>1. ASSUME step'[u] = step[u] PROVE step[u].at = "slow" /\ step'[u].key = step[u].key
    BY <2>1
  <2>2. ASSUME NEW t \in Callers, NEW k \in Keys,
               Bypass(t, k) \/ Rejected(t, k) \/ ForceRelease(t, k) \/ \E o \in Objs : BeginFast(t, k, o)
        PROVE  step'[u] = step[u]
    BY <1>0, <2>2 DEF Bypass, Rejected, ForceRelease, BeginFast, EnterBody, GiveUp, Free
  <2>3. ASSUME NEW t \in Callers, FastAcquire(t) \/ SlowAcquire(t) PROVE step'[u] = step[u]
    BY <1>0, <2>3 DEF FastAcquire, SlowAcquire, EnterBody, Free
  <2>4. ASSUME NEW t \in Callers,
               \/ FastRefused(t) \/ SlowFail(t) \/ CancelAcquire(t)
               \/ \E o \in Objs : SlowRefused(t, o) \/ Reenter(t, o)
        PROVE  step'[u] = step[u]
    BY <1>0, <2>4 DEF FastRefused, SlowFail, CancelAcquire, SlowRefused, Reenter, GiveUp, EnterBody, Free
  <2>5. ASSUME NEW t \in Callers, SlowTimeout(t)
        PROVE  step[u].at = "slow" /\ step'[u].key = step[u].key
    <3>1. CASE u # t
      BY <1>0, <2>1, <2>5, <3>1 DEF SlowTimeout
    <3>2. CASE u = t
      <4>1. step[t] \in [at : {"slow"}, key : Keys, obj : Objs, tries : Int]
        BY <2>5, WaitShape DEF SlowTimeout
      <4>2. step' = [step EXCEPT ![t] = [step[t] EXCEPT !.tries = @ + 1]]
        BY <2>5 DEF SlowTimeout
      <4>3. step'[t] = [step[t] EXCEPT !.tries = @ + 1]
        BY <1>0, <4>2
      <4>4. [step[t] EXCEPT !.tries = @ + 1].key = step[t].key
        BY <4>1
      <4> QED
        BY <3>2, <4>1, <4>3, <4>4
    <3> QED
      BY <3>1, <3>2
  <2>6. ASSUME NEW t \in Callers, NEW o \in Objs, BeginSlow(t, o)
        PROVE  \/ step'[u] = step[u]
               \/ /\ step[u].at = "fast" /\ step'[u].key = step[u].key
                  /\ step[u].key \notin Held(u) /\ ~Refused(u, step[u].key)
    BY <1>0, <2>6 DEF BeginSlow
  <2>7. ASSUME NEW t \in Callers, Release(t) \/ EndTask(t) \/ \E v \in Callers : Spawn(t, v)
        PROVE  step'[u] = step[u]
    BY <2>7 DEF Release, ReleaseBypassed, ReleaseUnknown, ReleaseCounted, ReleaseWrongOwner, ReleaseOwn,
                ReleaseNothing, ReleaseOrphan, EndTask, Spawn
  <2>8. ASSUME \/ \E t \in Callers, s \in Batches : StartBatch(t, s)
               \/ (\E o \in Objs : GrowOld(o)) \/ CleanupIdle \/ Shutdown \/ UNCHANGED lockVars
        PROVE  step'[u] = step[u]
    BY <2>8 DEF StartBatch, GrowOld, CleanupIdle, Shutdown, lockVars
  <2> QED
    BY <2>1, <2>2, <2>3, <2>4, <2>5, <2>6, <2>7, <2>8 DEF LockNext, LockStep
<1>4. /\ step[u].at # "free" /\ step'[u].key = step[u].key
      /\ step[u].key \notin Held(u) /\ ~Refused(u, step[u].key)
  BY <1>3 DEF SlowIsAdmitted
<1>5. Held(u)' = Held(u)
  BY <1>2, <1>4
<1>6. Refused(u, step[u].key)' <=> Refused(u, step[u].key)
  BY <1>4, <1>5 DEF Refused, HierarchyFails, OrderFails
<1> QED
  BY <1>4, <1>5, <1>6

-----------------------------------------------------------------------------
(* The keyed locks: the guards a task is inside of.                          *)

In(s, k, hows) == \E i \in DOMAIN s : s[i].key = k /\ s[i].how \in hows

\* Below a guard that took the lock there are, of its key, only bypassed ones.
Layered(s, k) ==
  \A i, j \in DOMAIN s :
    i < j /\ s[i].key = k /\ s[j].key = k /\ s[j].how = "lock" => s[i].how = "bypass"

Entered == {"lock", "again"}

\* One more element.
LEMMA Longer ==
    ASSUME NEW S, NEW s \in Seq(S), NEW g \in S
    PROVE  /\ Len(s) \in Nat /\ DOMAIN s = 1..Len(s) /\ DOMAIN Append(s, g) = 1..(Len(s) + 1)
           /\ Append(s, g)[Len(s) + 1] = g /\ \A i \in 1..Len(s) : Append(s, g)[i] = s[i]
OBVIOUS

\* One more guard.
LEMMA Pushed ==
    ASSUME NEW s \in Seq(Guards), NEW g \in Guards, NEW k
    PROVE  /\ \A hows : In(Append(s, g), k, hows) <=> In(s, k, hows) \/ (g.key = k /\ g.how \in hows)
           /\ Layered(Append(s, g), k)
                <=> Layered(s, k) /\ (g.key = k /\ g.how = "lock" => ~In(s, k, Entered))
<1> DEFINE z == Append(s, g)
<1>1. /\ Len(s) \in Nat /\ DOMAIN s = 1..Len(s) /\ DOMAIN z = 1..(Len(s) + 1)
      /\ z[Len(s) + 1] = g /\ \A i \in 1..Len(s) : z[i] = s[i]
  BY Longer
<1>2. \A i \in DOMAIN s : s[i].how \in {"lock", "again", "bypass"}
  <2>1. \A i \in DOMAIN s : s[i] \in Guards
    OBVIOUS
  <2> QED
    BY <2>1 DEF Guards, Ways
<1> HIDE DEF z
<1>3. \A hows : In(z, k, hows) <=> In(s, k, hows) \/ (g.key = k /\ g.how \in hows)
  BY <1>1 DEF In
<1>4. Layered(z, k) => Layered(s, k)
  BY <1>1 DEF Layered
<1>5. ASSUME Layered(z, k), g.key = k, g.how = "lock", NEW i \in DOMAIN s, s[i].key = k
      PROVE  s[i].how \notin Entered
  <2>1. i \in DOMAIN z /\ Len(s) + 1 \in DOMAIN z /\ i < Len(s) + 1 /\ z[i] = s[i]
    BY <1>1
  <2>2. z[i].how = "bypass"
    BY <1>1, <1>5, <2>1 DEF Layered
  <2> QED
    BY <2>1, <2>2 DEF Entered
<1>6. ASSUME Layered(s, k), g.key = k /\ g.how = "lock" => ~In(s, k, Entered),
             NEW i \in DOMAIN z, NEW j \in DOMAIN z,
             i < j, z[i].key = k, z[j].key = k, z[j].how = "lock"
      PROVE  z[i].how = "bypass"
  <2>1. i \in 1..Len(s) /\ z[i] = s[i]
    BY <1>1, <1>6
  <2>2. CASE j = Len(s) + 1
    <3>1. ~In(s, k, Entered)
      BY <1>1, <1>6, <2>2
    <3> QED
      BY <3>1, <2>1, <1>1, <1>2, <1>6 DEF In, Entered
  <2>3. CASE j # Len(s) + 1
    <3>1. j \in 1..Len(s) /\ z[j] = s[j]
      BY <1>1, <2>3
    <3> QED
      BY <3>1, <2>1, <1>1, <1>6 DEF Layered
  <2> QED
    BY <2>2, <2>3
<1> QED
  BY <1>3, <1>4, <1>5, <1>6 DEF Layered, In, z

\* One guard less: the last one.
LEMMA Popped ==
    ASSUME NEW s \in Seq(Guards), s # <<>>, NEW k
    PROVE  LET g == Last(s)
           IN /\ g \in Guards /\ Front(s) \in Seq(Guards)
              /\ \A hows : In(s, k, hows) <=> In(Front(s), k, hows) \/ (g.key = k /\ g.how \in hows)
              /\ Layered(s, k)
                   <=> Layered(Front(s), k)
                       /\ (g.key = k /\ g.how = "lock" => ~In(Front(s), k, Entered))
<1>1. /\ Front(s) \in Seq(Guards) /\ Len(Front(s)) = Len(s) - 1
      /\ DOMAIN Front(s) = 1..(Len(s) - 1) /\ DOMAIN s = 1..Len(s)
      /\ \A i \in 1..(Len(s) - 1) : Front(s)[i] = s[i]
      /\ Last(s) = s[Len(s)] /\ Last(s) \in Guards
  BY AllButLast
<1> DEFINE f == Front(s)
           g == Last(s)
<1>2. f \in Seq(Guards) /\ g \in Guards /\ Len(f) + 1 = Len(s)
      /\ (\A i \in 1..Len(f) : f[i] = s[i]) /\ g = s[Len(s)]
  BY <1>1
<1> HIDE DEF f, g
<1>3. s = Append(f, g)
  <2>1. /\ Append(f, g) \in Seq(Guards) /\ Len(Append(f, g)) = Len(s)
        /\ Append(f, g)[Len(s)] = g /\ \A i \in 1..Len(f) : Append(f, g)[i] = f[i]
    BY <1>2
  <2>2. \A i \in 1..Len(s) : Append(f, g)[i] = s[i]
    BY <1>2, <2>1
  <2> QED
    BY <2>1, <2>2
<1>4. /\ \A hows : In(Append(f, g), k, hows) <=> In(f, k, hows) \/ (g.key = k /\ g.how \in hows)
      /\ Layered(Append(f, g), k)
           <=> Layered(f, k) /\ (g.key = k /\ g.how = "lock" => ~In(f, k, Entered))
  BY <1>2, Pushed
<1> QED
  BY <1>2, <1>3, <1>4 DEF f, g

\* Nobody within: nothing to layer.
LEMMA NoneWithin ==
    ASSUME NEW s, NEW k, ~In(s, k, Entered)
    PROVE  Layered(s, k)
BY DEF In, Layered, Entered

\* The guards of a task after it enters one or leaves one.
LEMMA BodyEntered ==
    ASSUME LockShape, NEW t \in Callers, NEW x \in Keys, NEW how \in Ways, EnterBody(t, x, how), NEW k
    PROVE  /\ \A u \in Callers \ {t} : body'[u] = body[u]
           /\ \A hows : In(body'[t], k, hows) <=> In(body[t], k, hows) \/ (x = k /\ how \in hows)
           /\ Layered(body'[t], k)
                <=> Layered(body[t], k) /\ (x = k /\ how = "lock" => ~In(body[t], k, Entered))
<1> DEFINE g == [key |-> x, how |-> how]
<1>1. g \in Guards /\ g.key = x /\ g.how = how
  BY DEF Guards
<1>2. body \in [Callers -> Seq(Guards)]
  BY DEF LockShape
<1>3. body' = [body EXCEPT ![t] = Append(@, g)]
  BY DEF EnterBody
<1> HIDE DEF g
<1>4. body'[t] = Append(body[t], g) /\ \A u \in Callers \ {t} : body'[u] = body[u]
  BY <1>2, <1>3
<1>5. /\ \A hows : In(Append(body[t], g), k, hows) <=> In(body[t], k, hows) \/ (g.key = k /\ g.how \in hows)
      /\ Layered(Append(body[t], g), k)
           <=> Layered(body[t], k) /\ (g.key = k /\ g.how = "lock" => ~In(body[t], k, Entered))
  BY <1>1, <1>2, Pushed
<1> QED
  BY <1>1, <1>4, <1>5

\* Leaving a guard takes the innermost one off, and nothing else.
LEMMA BodyLeft ==
    ASSUME LockShape, NEW t \in Callers, body[t] # <<>>, StepOut(t), NEW k
    PROVE  LET g == Last(body[t])
           IN /\ \A u \in Callers \ {t} : body'[u] = body[u]
              /\ g.key \in Keys /\ g.how \in Ways
              /\ \A hows : In(body[t], k, hows) <=> In(body'[t], k, hows) \/ (g.key = k /\ g.how \in hows)
              /\ Layered(body[t], k)
                   <=> Layered(body'[t], k)
                       /\ (g.key = k /\ g.how = "lock" => ~In(body'[t], k, Entered))
<1>1. body \in [Callers -> Seq(Guards)]
  BY DEF LockShape
<1>2. body'[t] = Front(body[t]) /\ \A u \in Callers \ {t} : body'[u] = body[u]
  BY <1>1 DEF StepOut
<1>3. body[t] \in Seq(Guards)
  BY <1>1
<1>4. Last(body[t]) \in Guards
  BY <1>3, Popped
<1>5. Last(body[t]).key \in Keys /\ Last(body[t]).how \in Ways
  BY <1>4 DEF Guards
<1> QED
  BY <1>2, <1>3, <1>5, Popped

-----------------------------------------------------------------------------
(* The keyed locks: keys, their objects and the pool.                        *)

\* No two keys have one object, and the objects of the pool are no key's.
PoolApart ==
  /\ \A j, k \in Keys : j # k /\ locks[j] # Nobody => locks[j] # locks[k]
  /\ \A k \in Keys : locks[k] \notin pool

\* _get_lock answers the key's object, or gives it one that is no other key's.
LEMMA GotLock ==
    ASSUME LockShape, PoolApart, NEW k \in Keys, NEW o \in Objs, GetLock(k, o)
    PROVE  /\ PoolApart'
           /\ locks'[k] = o /\ \A j \in Keys \ {k} : locks'[j] = locks[j]
           /\ locks[k] # Nobody => o = locks[k]
           /\ locks[k] = Nobody => \A j \in Keys : locks[j] # o
<1>1. locks \in [Keys -> Objs \cup {Nobody}] /\ pool \subseteq Objs
  BY DEF LockShape
<1>2. o \in Candidates(k) /\ locks' = [locks EXCEPT ![k] = o] /\ pool' = pool \ {o}
  BY DEF GetLock
<1>3. locks'[k] = o /\ \A j \in Keys \ {k} : locks'[j] = locks[j]
  BY <1>1, <1>2
<1>4. CASE locks[k] # Nobody
  <2>1. o = locks[k]
    BY <1>2, <1>4 DEF Candidates
  <2>2. PoolApart'
    BY <1>2, <1>3, <2>1 DEF PoolApart
  <2> QED
    BY <1>3, <1>4, <2>1, <2>2
<1>5. CASE locks[k] = Nobody /\ pool # {}
  <2>1. o \in pool
    BY <1>2, <1>5 DEF Candidates
  <2>2. \A j \in Keys : locks[j] # o
    BY <2>1 DEF PoolApart
  <2>3. PoolApart'
    BY <1>2, <1>3, <2>2 DEF PoolApart
  <2> QED
    BY <1>3, <1>5, <2>2, <2>3
<1>6. CASE locks[k] = Nobody /\ pool = {}
  <2>1. o \notin Referenced
    BY <1>2, <1>6 DEF Candidates
  <2>2. \A j \in Keys : locks[j] # o
    BY <2>1 DEF Referenced
  <2>3. PoolApart'
    BY <1>2, <1>3, <1>6, <2>2 DEF PoolApart
  <2> QED
    BY <1>3, <1>6, <2>2, <2>3
<1> QED
  BY <1>4, <1>5, <1>6

\* The steps that call _get_lock, and the others, which leave keys and pool alone
\* but for the cleanup.
LEMMA LocksNext ==
    ASSUME [LockNext]_lockVars
    PROVE  \/ UNCHANGED <<locks, pool>>
           \/ CleanupIdle
           \/ \E t \in Callers, k \in Keys, o \in Objs : BeginFast(t, k, o)
           \/ \E t \in Callers, o \in Objs : Reenter(t, o) \/ SlowRefused(t, o) \/ BeginSlow(t, o)
<1>1. ASSUME NEW t \in Callers, NEW k \in Keys, Bypass(t, k) \/ Rejected(t, k) \/ ForceRelease(t, k)
      PROVE  UNCHANGED <<locks, pool>>
  BY <1>1 DEF Bypass, Rejected, ForceRelease
<1>2. ASSUME NEW t \in Callers,
             FastAcquire(t) \/ SlowAcquire(t) \/ FastRefused(t) \/ SlowTimeout(t) \/ SlowFail(t)
               \/ CancelAcquire(t)
      PROVE  UNCHANGED <<locks, pool>>
  BY <1>2 DEF FastAcquire, SlowAcquire, FastRefused, SlowTimeout, SlowFail, CancelAcquire
<1>3. ASSUME NEW t \in Callers, Release(t) PROVE UNCHANGED <<locks, pool>>
  BY <1>3 DEF Release, ReleaseBypassed, ReleaseUnknown, ReleaseCounted, ReleaseWrongOwner, ReleaseOwn,
              ReleaseNothing, ReleaseOrphan
<1>4. ASSUME NEW t \in Callers, \/ EndTask(t) \/ \E u \in Callers : Spawn(t, u)
                                \/ \E s \in Batches : StartBatch(t, s)
      PROVE  UNCHANGED <<locks, pool>>
  BY <1>4 DEF EndTask, Spawn, StartBatch
<1>5. CASE (\E o \in Objs : GrowOld(o)) \/ Shutdown \/ UNCHANGED lockVars
  BY <1>5 DEF GrowOld, Shutdown, lockVars
<1> QED
  BY <1>1, <1>2, <1>3, <1>4, <1>5 DEF LockNext, LockStep

\* No step puts an object that a key has into the pool (_cleanup_idle_locks).
LEMMA PoolApartNext ==
    ASSUME LockShape, PoolApart, [LockNext]_lockVars PROVE PoolApart'
<1>0. locks \in [Keys -> Objs \cup {Nobody}] /\ pool \subseteq Objs
  BY DEF LockShape
<1>1. CASE UNCHANGED <<locks, pool>>
  BY <1>1 DEF PoolApart
<1>2. CASE CleanupIdle
  <2> DEFINE gone == {locks[k] : k \in IdleKeys}
  <2>1. /\ locks' = [k \in Keys |-> IF k \in IdleKeys THEN Nobody ELSE locks[k]]
        /\ pool' = pool \cup gone
    BY <1>2 DEF CleanupIdle
  <2>2. \A k \in IdleKeys : k \in Keys /\ locks[k] # Nobody
    BY DEF IdleKeys
  <2>3. Nobody \notin pool \cup gone
    BY <1>0, <2>2
  <2>4. \A k \in Keys : k \notin IdleKeys /\ locks[k] # Nobody => locks[k] \notin gone
    BY <2>2 DEF PoolApart
  <2> HIDE DEF gone
  <2> QED
    BY <2>1, <2>3, <2>4 DEF PoolApart
<1>3. ASSUME NEW t \in Callers, NEW k \in Keys, NEW o \in Objs, BeginFast(t, k, o) PROVE PoolApart'
  BY <1>3, GotLock DEF BeginFast
<1>4. ASSUME NEW t \in Callers, NEW o \in Objs, Reenter(t, o) \/ SlowRefused(t, o) \/ BeginSlow(t, o)
      PROVE  PoolApart'
  <2>1. PICK k \in Keys : k = step[t].key
    BY <1>4, WaitShape DEF Reenter, SlowRefused, BeginSlow
  <2>2. GetLock(k, o)
    BY <1>4, <2>1 DEF Reenter, SlowRefused, BeginSlow
  <2> QED
    BY <2>2, GotLock
<1> QED
  BY <1>1, <1>2, <1>3, <1>4, LocksNext

\* What a step adds to the blame stays.
LEMMA BlameGrows ==
    ASSUME LockShape, [LockNext]_lockVars, NEW k \in Keys
    PROVE  blame[k] \subseteq blame'[k]
<1>0. blame \in [Keys -> SUBSET Causes]
  BY DEF LockShape
<1>1. ASSUME NEW t \in Callers, NEW x \in Keys,
             Bypass(t, x) \/ Rejected(t, x) \/ ForceRelease(t, x) \/ \E o \in Objs : BeginFast(t, x, o)
      PROVE  blame[k] \subseteq blame'[k]
  BY <1>0, <1>1 DEF Bypass, Rejected, ForceRelease, BeginFast
<1>2. ASSUME NEW t \in Callers,
             FastAcquire(t) \/ SlowAcquire(t) \/ FastRefused(t) \/ SlowTimeout(t) \/ SlowFail(t)
               \/ CancelAcquire(t)
      PROVE  blame[k] \subseteq blame'[k]
  BY <1>0, <1>2 DEF FastAcquire, SlowAcquire, FastRefused, SlowTimeout, SlowFail, CancelAcquire
<1>3. ASSUME NEW t \in Callers, NEW o \in Objs, Reenter(t, o) \/ SlowRefused(t, o) \/ BeginSlow(t, o)
      PROVE  blame[k] \subseteq blame'[k]
  BY <1>0, <1>3 DEF Reenter, SlowRefused, BeginSlow
<1>4. ASSUME NEW t \in Callers, Release(t) PROVE blame[k] \subseteq blame'[k]
  BY <1>0, <1>4 DEF Release, ReleaseBypassed, ReleaseUnknown, ReleaseCounted, ReleaseWrongOwner, ReleaseOwn,
              ReleaseNothing, ReleaseOrphan
<1>5. ASSUME NEW t \in Callers, \/ EndTask(t) \/ \E u \in Callers : Spawn(t, u)
                                \/ \E s \in Batches : StartBatch(t, s)
      PROVE  blame[k] \subseteq blame'[k]
  BY <1>5 DEF EndTask, Spawn, StartBatch
<1>6. CASE CleanupIdle
  BY <1>6 DEF CleanupIdle
<1>7. CASE (\E o \in Objs : GrowOld(o)) \/ Shutdown \/ UNCHANGED lockVars
  BY <1>7 DEF GrowOld, Shutdown, lockVars
<1> QED
  BY <1>1, <1>2, <1>3, <1>4, <1>5, <1>6, <1>7 DEF LockNext, LockStep

-----------------------------------------------------------------------------
(* The keyed locks: what a key's lock says of who is inside.                 *)

LossCauses == {"again", "inherit", "bypass"}

\* A task about to enter a key has the key's object in hand.
AimsRight == \A t \in Callers : step[t].at # "free" => locks[step[t].key] = step[t].obj

\* Only objects of keys are taken.
OwnedByKeys == \A o \in Objs : owner[o] # Nobody => \E k \in Keys : locks[k] = o

\* One entry at most is recorded for a key, the owner's, and the owner is known.
Stacked(k) ==
  /\ \A h \in Owners :
       stacks[h][k] # <<>> => /\ locks[k] # Nobody /\ owner[locks[k]] = h
                              /\ stacks[h][k] = <<locks[k]>>
  /\ locks[k] # Nobody /\ owner[locks[k]] \in Callers => ownerTask[k] = owner[locks[k]]

\* Who is inside of a key owns its object.
Excluded(k) ==
  \A t \in Callers :
    /\ In(body[t], k, Entered) => locks[k] # Nobody /\ owner[locks[k]] = t
    /\ Layered(body[t], k)
    /\ In(body[t], k, {"again"}) => Counted(t, k)

\* Who owns a key's object is inside of the key, and recorded.
Accounted(k) ==
  \A h \in Owners :
    locks[k] # Nobody /\ owner[locks[k]] = h
      => /\ h \in Callers
         /\ stacks[h][k] # <<>> /\ In(body[h], k, Entered) /\ k \in Held(h)

KeySound(k) ==
  /\ Stacked(k)
  /\ ~Blamed(k, LossCauses) => Excluded(k)
  /\ ~Blamed(k, LeakCauses) => Accounted(k)

LockBase ==
  /\ LockShape /\ RecordShape /\ RecordsCounted /\ PoolApart
  /\ AimsRight /\ OwnedByKeys /\ \A k \in Keys : KeySound(k)

\* A step that is about other keys: of k everything stays but, for a task inside of
\* no guard, its records.
KeyKept(k) ==
  /\ locks'[k] = locks[k]
  /\ locks[k] # Nobody => owner'[locks[k]] = owner[locks[k]]
  /\ locks[k] # Nobody /\ owner[locks[k]] \in Callers /\ ownerTask[k] = owner[locks[k]]
       => ownerTask'[k] = ownerTask[k]
  /\ \A h \in Owners : stacks'[h][k] = stacks[h][k]
  /\ \A t \in Callers :
       /\ In(body'[t], k, Entered) <=> In(body[t], k, Entered)
       /\ In(body'[t], k, {"again"}) => In(body[t], k, {"again"})
       /\ Layered(body[t], k) => Layered(body'[t], k)
       /\ body[t] # <<>> => /\ k \in Held(t) => (k \in Held(t))'
                            /\ Counted(t, k) => Counted(t, k)'

\* Blame does not go away.
LEMMA BlameStays ==
    ASSUME LockShape, [LockNext]_lockVars, NEW k \in Keys
    PROVE  /\ \A causes : ~Blamed(k, causes)' => ~Blamed(k, causes)
           /\ ~Recycled' => ~Recycled
<1>1. ASSUME NEW x \in Keys, NEW causes PROVE ~Blamed(x, causes)' => ~Blamed(x, causes)
  BY BlameGrows DEF Blamed
<1> QED
  BY <1>1 DEF Recycled

\* A task inside of no guard is inside of none of them.
LEMMA NobodyIsIn == \A k, hows : ~In(<<>>, k, hows)
BY DEF In

\* Such a step keeps what is true of k.
LEMMA KeptSound ==
    ASSUME LockShape, [LockNext]_lockVars, NEW k \in Keys, KeyKept(k), KeySound(k)
    PROVE  KeySound(k)'
<1>1. Stacked(k)'
  BY DEF Stacked, KeySound, KeyKept
<1>2. ASSUME Excluded(k), NEW t \in Callers
      PROVE  /\ In(body'[t], k, Entered) => locks'[k] # Nobody /\ owner'[locks'[k]] = t
             /\ Layered(body'[t], k)
             /\ In(body'[t], k, {"again"}) => Counted(t, k)'
  BY <1>2, NobodyIsIn DEF Excluded, KeyKept
<1>3. Excluded(k) => Excluded(k)'
  BY <1>2 DEF Excluded
<1>4. ASSUME Accounted(k), NEW h \in Owners, locks'[k] # Nobody, owner'[locks'[k]] = h
      PROVE  h \in Callers /\ stacks'[h][k] # <<>> /\ In(body'[h], k, Entered) /\ (k \in Held(h))'
  <2>1. h \in Callers /\ stacks[h][k] # <<>> /\ In(body[h], k, Entered) /\ k \in Held(h)
    BY <1>4 DEF Accounted, KeyKept
  <2>2. body[h] # <<>>
    BY <2>1, NobodyIsIn
  <2> QED
    BY <2>1, <2>2 DEF KeyKept, Owners
<1>5. Accounted(k) => Accounted(k)'
  BY <1>4 DEF Accounted
<1>6. /\ ~Blamed(k, LossCauses)' => ~Blamed(k, LossCauses)
      /\ ~Blamed(k, LeakCauses)' => ~Blamed(k, LeakCauses)
  BY BlameStays DEF LossCauses, LeakCauses
<1> QED
  BY <1>1, <1>3, <1>5, <1>6 DEF KeySound

\* So does one that gives a key its first object, which nobody owns.
LEMMA FreshSound ==
    ASSUME LockShape, [LockNext]_lockVars, NEW k \in Keys, KeySound(k), OwnedByKeys,
           locks[k] = Nobody, locks'[k] \in Objs, \A j \in Keys : locks[j] # locks'[k],
           UNCHANGED <<owner, ownerTask, stacks>>,
           \A t \in Callers : In(body'[t], k, Entered) /\ ~Blamed(k, LossCauses)' => In(body[t], k, Entered)
    PROVE  KeySound(k)'
<1>1. owner'[locks'[k]] = Nobody
  BY DEF OwnedByKeys
<1>2. \A h \in Owners : stacks'[h][k] = <<>> /\ h # Nobody
  BY DEF Stacked, KeySound, Owners
<1>3. Stacked(k)' /\ Accounted(k)'
  BY <1>1, <1>2 DEF Stacked, Accounted, Owners
<1>4. ASSUME ~Blamed(k, LossCauses)' PROVE Excluded(k)'
  <2>1. Excluded(k)
    BY <1>4, BlameStays DEF KeySound, LossCauses
  <2>2. \A t \in Callers : ~In(body'[t], k, Entered)
    BY <1>4, <2>1 DEF Excluded
  <2>3. \A t \in Callers : ~In(body'[t], k, {"again"})
    BY <2>2 DEF In, Entered
  <2>4. \A t \in Callers : Layered(body'[t], k)
    BY <2>2, NoneWithin
  <2> QED
    BY <2>2, <2>3, <2>4 DEF Excluded
<1> QED
  BY <1>3, <1>4 DEF KeySound

\* The records stay if nothing touches them.
LEMMA RecordsStay ==
    ASSUME UNCHANGED <<rec, acq>>, NEW t, NEW k
    PROVE  /\ (k \in Held(t))' <=> k \in Held(t)
           /\ Counted(t, k)' <=> Counted(t, k)
BY DEF Held, Counted, RecordOf, PlaceOf

\* Steps that touch nothing of this.
LEMMA QuietSound ==
    ASSUME LockBase, [LockNext]_lockVars, NEW k \in Keys,
           UNCHANGED <<locks, owner, ownerTask, rec, acq, stacks, body>>
    PROVE  KeySound(k)'
<1>1. KeyKept(k)
  BY RecordsStay DEF KeyKept
<1> QED
  BY <1>1, KeptSound DEF LockBase

\* An open circuit lets t through.
LEMMA BypassSound ==
    ASSUME LockBase, [LockNext]_lockVars, NEW k \in Keys,
           NEW t \in Callers, NEW x \in Keys, Bypass(t, x)
    PROVE  KeySound(k)'
<1>1. /\ EnterBody(t, x, "bypass") /\ "bypass" \in Ways
      /\ UNCHANGED <<locks, owner, ownerTask, rec, acq, stacks>>
  BY DEF Bypass, Ways
<1>2. /\ \A u \in Callers \ {t} : body'[u] = body[u]
      /\ In(body'[t], k, Entered) <=> In(body[t], k, Entered)
      /\ In(body'[t], k, {"again"}) <=> In(body[t], k, {"again"})
      /\ Layered(body'[t], k) <=> Layered(body[t], k)
  BY <1>1, BodyEntered DEF LockBase, Entered
<1>3. KeyKept(k)
  BY <1>1, <1>2, RecordsStay DEF KeyKept
<1> QED
  BY <1>3, KeptSound DEF LockBase

\* The key gets its object.
LEMMA GetLockSound ==
    ASSUME LockBase, [LockNext]_lockVars, NEW k \in Keys,
           NEW x \in Keys, NEW o \in Objs, GetLock(x, o),
           UNCHANGED <<owner, ownerTask, rec, acq, stacks, body>>
    PROVE  KeySound(k)'
<1>1. /\ locks'[x] = o /\ \A j \in Keys \ {x} : locks'[j] = locks[j]
      /\ locks[x] # Nobody => o = locks[x]
      /\ locks[x] = Nobody => \A j \in Keys : locks[j] # o
  BY GotLock DEF LockBase
<1>2. CASE k # x \/ locks[k] # Nobody
  <2>1. KeyKept(k)
    BY <1>1, <1>2, RecordsStay DEF KeyKept
  <2> QED
    BY <2>1, KeptSound DEF LockBase
<1>3. CASE k = x /\ locks[k] = Nobody
  BY <1>1, <1>3, FreshSound DEF LockBase
<1> QED
  BY <1>2, <1>3

\* The waiter who finds the object free takes it.
LEMMA AcquireSound ==
    ASSUME LockBase, [LockNext]_lockVars, NEW k \in Keys,
           NEW t \in Callers, FastAcquire(t) \/ SlowAcquire(t)
    PROVE  KeySound(k)'
<1>1. PICK x \in Keys, o \in Objs : x = step[t].key /\ o = step[t].obj
  BY WaitShape DEF LockBase, FastAcquire, SlowAcquire
<1>2. /\ RecordAcquired(t, x, o) /\ EnterBody(t, x, "lock") /\ "lock" \in Ways
      /\ owner[o] = Nobody /\ UNCHANGED <<locks, blame>> /\ step[t].at # "free"
  BY <1>1 DEF FastAcquire, SlowAcquire, Ways
<1>3. locks[x] = o /\ o # Nobody
  BY <1>1, <1>2 DEF LockBase, AimsRight
<1>4. /\ owner \in [Objs -> Owners \cup {Nobody}] /\ ownerTask \in [Keys -> Owners \cup {Nobody}]
      /\ stacks \in [Owners -> [Keys -> Seq(Objs)]] /\ locks \in [Keys -> Objs \cup {Nobody}]
      /\ Nobody \notin Owners /\ t \in Owners
  BY DEF LockBase, LockShape, Owners
<1>5. /\ owner'[o] = t /\ \A p \in Objs : p # o => owner'[p] = owner[p]
      /\ ownerTask'[x] = t /\ \A j \in Keys : j # x => ownerTask'[j] = ownerTask[j]
  BY <1>2, <1>4 DEF RecordAcquired
<1>6. /\ stacks'[t][x] = Append(stacks[t][x], o)
      /\ \A h \in Owners, j \in Keys : h # t \/ j # x => stacks'[h][j] = stacks[h][j]
  <2> DEFINE a == Append(stacks[t][x], o)
  <2>1. stacks' = [stacks EXCEPT ![t][x] = a]
    BY <1>2 DEF RecordAcquired
  <2> HIDE DEF a
  <2>2. stacks'[t][x] = a /\ \A h \in Owners, j \in Keys : h # t \/ j # x => stacks'[h][j] = stacks[h][j]
    BY <1>4, <2>1
  <2> QED
    BY <2>2 DEF a
<1>7. RecordShape' /\ RecordsCounted' /\ OthersKeep(t, x) /\ (x \in Held(t))'
  BY <1>2, RecordTaken DEF LockBase
<1>8. /\ \A u \in Callers \ {t} : body'[u] = body[u]
      /\ In(body'[t], k, Entered) <=> In(body[t], k, Entered) \/ x = k
      /\ In(body'[t], k, {"again"}) <=> In(body[t], k, {"again"})
      /\ Layered(body'[t], k) <=> Layered(body[t], k) /\ (x = k => ~In(body[t], k, Entered))
  BY <1>2, BodyEntered DEF LockBase, Entered
<1>9. CASE k # x
  <2>1. locks[k] # o
    BY <1>3, <1>9 DEF LockBase, PoolApart
  <2>2. locks'[k] = locks[k] /\ (locks[k] # Nobody => owner'[locks[k]] = owner[locks[k]])
    BY <1>2, <1>4, <1>5, <2>1
  <2>3. ownerTask'[k] = ownerTask[k] /\ \A h \in Owners : stacks'[h][k] = stacks[h][k]
    BY <1>5, <1>6, <1>9
  <2>4. \A u \in Callers : /\ k \in Held(u) => (k \in Held(u))'
                           /\ Counted(u, k) => Counted(u, k)'
    BY <1>7, <1>9 DEF OthersKeep
  <2>5. \A u \in Callers : /\ In(body'[u], k, Entered) <=> In(body[u], k, Entered)
                           /\ In(body'[u], k, {"again"}) => In(body[u], k, {"again"})
                           /\ Layered(body[u], k) => Layered(body'[u], k)
    BY <1>8, <1>9
  <2>6. KeyKept(k)
    BY <2>2, <2>3, <2>4, <2>5 DEF KeyKept
  <2> QED
    BY <2>6, KeptSound DEF LockBase
<1>10. CASE k = x
  <2>1. \A h \in Owners : stacks[h][k] = <<>>
    BY <1>2, <1>3, <1>4, <1>10 DEF LockBase, KeySound, Stacked
  <2>2. stacks'[t][k] = <<o>> /\ \A h \in Owners : h # t => stacks'[h][k] = <<>>
    BY <1>4, <1>6, <1>10, <2>1
  <2>3. locks'[k] = o /\ owner'[locks'[k]] = t /\ ownerTask'[k] = t
    BY <1>2, <1>3, <1>5, <1>10
  <2>4. Stacked(k)'
    <3>1. \A h \in Owners :
            stacks'[h][k] # <<>> => /\ locks'[k] # Nobody /\ owner'[locks'[k]] = h
                                    /\ stacks'[h][k] = <<locks'[k]>>
      BY <1>3, <2>2, <2>3
    <3> QED
      BY <3>1, <2>3 DEF Stacked
  <2>5. Accounted(k)'
    <3>1. stacks'[t][k] # <<>>
      BY <2>2
    <3> QED
      BY <3>1, <2>3, <1>7, <1>8, <1>10 DEF Accounted
  <2>6. ASSUME ~Blamed(k, LossCauses)' PROVE Excluded(k)'
    <3>1. Excluded(k)
      BY <2>6, BlameStays DEF KeySound, LockBase, LossCauses
    <3>2. \A u \in Callers : ~In(body[u], k, Entered)
      BY <3>1, <1>2, <1>3, <1>4, <1>10 DEF Excluded, Owners
    <3>3. \A u \in Callers : ~In(body[u], k, {"again"})
      BY <3>2 DEF In, Entered
    <3>4. \A u \in Callers : Layered(body'[u], k)
      BY <3>1, <3>2, <1>8 DEF Excluded
    <3> QED
      BY <3>2, <3>3, <3>4, <2>3, <1>8, <1>3 DEF Excluded
  <2> QED
    BY <2>4, <2>5, <2>6 DEF KeySound
<1> QED
  BY <1>9, <1>10

\* A refused caller leaves the object to its helper, which has ended: a rollback.
LEMMA FastRefusedSound ==
    ASSUME LockBase, [LockNext]_lockVars, NEW k \in Keys, NEW t \in Callers, FastRefused(t)
    PROVE  KeySound(k)'
<1>1. PICK x \in Keys, o \in Objs : x = step[t].key /\ o = step[t].obj
  BY WaitShape DEF LockBase, FastRefused
<1>2. /\ owner' = [owner EXCEPT ![o] = Gone] /\ owner[o] = Nobody
      /\ blame' = [blame EXCEPT ![x] = @ \cup {"rollback"}]
      /\ UNCHANGED <<locks, ownerTask, rec, acq, stacks, body>> /\ step[t].at # "free"
  BY <1>1 DEF FastRefused, GiveUp
<1>3. locks[x] = o
  BY <1>1, <1>2 DEF LockBase, AimsRight
<1>4. /\ owner \in [Objs -> Owners \cup {Nobody}] /\ blame \in [Keys -> SUBSET Causes]
      /\ Nobody \notin Owners /\ Gone \notin Callers /\ Gone \in Owners
  BY DEF LockBase, LockShape, Owners
<1>5. owner'[o] = Gone /\ \A p \in Objs : p # o => owner'[p] = owner[p]
  BY <1>2, <1>4
<1>6. CASE k # x
  <2>1. locks[k] # o
    BY <1>1, <1>3, <1>6 DEF LockBase, PoolApart
  <2>2. locks[k] # Nobody => owner'[locks[k]] = owner[locks[k]]
    BY <1>5, <2>1 DEF LockBase, LockShape
  <2>3. KeyKept(k)
    BY <1>2, <2>2, RecordsStay DEF KeyKept
  <2> QED
    BY <2>3, KeptSound DEF LockBase
<1>7. CASE k = x
  <2>1. \A h \in Owners : stacks[h][k] = <<>>
    BY <1>2, <1>3, <1>4, <1>7 DEF LockBase, KeySound, Stacked
  <2>2. Stacked(k)'
    BY <1>2, <1>3, <1>4, <1>5, <1>7, <2>1 DEF Stacked
  <2>3. Blamed(k, LeakCauses)'
    BY <1>2, <1>4, <1>7 DEF Blamed, LeakCauses
  <2>4. ASSUME ~Blamed(k, LossCauses)' PROVE Excluded(k)'
    <3>1. Excluded(k)
      BY <2>4, BlameStays DEF KeySound, LockBase, LossCauses
    <3>2. \A u \in Callers : ~In(body[u], k, Entered)
      BY <3>1, <1>2, <1>3, <1>4, <1>7 DEF Excluded, Owners
    <3>3. \A u \in Callers : ~In(body[u], k, {"again"})
      BY <3>2 DEF In, Entered
    <3> QED
      BY <3>1, <3>2, <3>3, <1>2 DEF Excluded
  <2> QED
    BY <2>2, <2>3, <2>4 DEF KeySound
<1> QED
  BY <1>6, <1>7

\* A re-entry: the owner's, or, blamed, that of a task that inherited the record.
LEMMA ReenterSound ==
    ASSUME LockBase, [LockNext]_lockVars, NEW k \in Keys,
           NEW t \in Callers, NEW o \in Objs, Reenter(t, o)
    PROVE  KeySound(k)'
<1>1. PICK x \in Keys : x = step[t].key
  BY WaitShape DEF LockBase, Reenter
<1>2. /\ x \in Held(t) /\ GetLock(x, o) /\ Raised(t, x)
      /\ ownerTask' = [ownerTask EXCEPT ![x] = IF @ = Nobody THEN t ELSE @]
      /\ EnterBody(t, x, "again") /\ "again" \in Ways
      /\ blame' = IF owner[o] = t THEN blame ELSE [blame EXCEPT ![x] = @ \cup {"inherit"}]
      /\ UNCHANGED <<owner, stacks>>
  BY <1>1 DEF Reenter, Raised, Ways
<1>3. /\ locks'[x] = o /\ \A j \in Keys \ {x} : locks'[j] = locks[j]
      /\ locks[x] # Nobody => o = locks[x]
      /\ locks[x] = Nobody => \A j \in Keys : locks[j] # o
  BY <1>2, GotLock DEF LockBase
<1>4. OthersKeep(t, x) /\ (x \in Held(t))' /\ Counted(t, x)'
  BY <1>2, RecordRaised DEF LockBase
<1>5. /\ \A u \in Callers \ {t} : body'[u] = body[u]
      /\ In(body'[t], k, Entered) <=> In(body[t], k, Entered) \/ x = k
      /\ In(body'[t], k, {"again"}) <=> In(body[t], k, {"again"}) \/ x = k
      /\ Layered(body'[t], k) <=> Layered(body[t], k)
  BY <1>2, BodyEntered DEF LockBase, Entered
<1>6. /\ ownerTask \in [Keys -> Owners \cup {Nobody}] /\ blame \in [Keys -> SUBSET Causes]
      /\ Nobody \notin Owners /\ Callers \subseteq Owners
  BY DEF LockBase, LockShape, Owners
<1>7. /\ \A j \in Keys : j # x => ownerTask'[j] = ownerTask[j]
      /\ ownerTask[x] # Nobody => ownerTask'[x] = ownerTask[x]
  BY <1>2, <1>6
<1>8. CASE k # x
  <2>1. /\ \A u \in Callers : k \in Held(u) => (k \in Held(u))'
        /\ \A u \in Callers : Counted(u, k) => Counted(u, k)'
    BY <1>4, <1>8 DEF OthersKeep
  <2>2. KeyKept(k)
    BY <1>2, <1>3, <1>5, <1>7, <1>8, <2>1 DEF KeyKept
  <2> QED
    BY <2>2, KeptSound DEF LockBase
<1>9. CASE k = x /\ locks[k] = Nobody
  <2>1. owner[o] = Nobody
    BY <1>3, <1>9 DEF LockBase, OwnedByKeys
  <2>2. Blamed(k, LossCauses)'
    BY <1>2, <1>6, <1>9, <2>1 DEF Blamed, LossCauses
  <2>3. \A h \in Owners : stacks[h][k] = <<>>
    BY <1>9 DEF LockBase, KeySound, Stacked
  <2>4. Stacked(k)' /\ Accounted(k)'
    BY <1>2, <1>3, <1>6, <1>9, <2>1, <2>3 DEF Stacked, Accounted
  <2> QED
    BY <2>2, <2>4 DEF KeySound
<1>10. CASE k = x /\ locks[k] # Nobody
  <2>1. locks'[k] = locks[k] /\ locks[k] = o
    BY <1>3, <1>10
  <2>2. Stacked(k)'
    BY <1>2, <1>6, <1>7, <1>10, <2>1 DEF LockBase, KeySound, Stacked
  <2>3. ASSUME Accounted(k) PROVE Accounted(k)'
    <3>1. ASSUME NEW h \in Owners, owner'[locks'[k]] = h
          PROVE  h \in Callers /\ stacks'[h][k] # <<>> /\ In(body'[h], k, Entered) /\ (k \in Held(h))'
      <4>1. h \in Callers /\ stacks[h][k] # <<>> /\ In(body[h], k, Entered) /\ k \in Held(h)
        BY <1>2, <1>10, <2>1, <2>3, <3>1 DEF Accounted
      <4>2. (k \in Held(h))'
        BY <1>4, <1>10, <4>1 DEF OthersKeep
      <4> QED
        BY <4>1, <4>2, <1>2, <1>5
    <3> QED
      BY <3>1 DEF Accounted
  <2>4. ASSUME ~Blamed(k, LossCauses)' PROVE Excluded(k)'
    <3>1. Excluded(k)
      BY <2>4, BlameStays DEF KeySound, LockBase, LossCauses
    <3>2. owner[o] = t
      BY <2>4, <1>2, <1>6, <1>10 DEF Blamed, LossCauses
    <3>3. ASSUME NEW u \in Callers, In(body'[u], k, {"again"}) PROVE Counted(u, k)'
      <4>1. CASE u = t
        BY <4>1, <1>4, <1>10
      <4>2. CASE u # t
        BY <4>2, <3>1, <3>3, <1>4, <1>5 DEF Excluded, OthersKeep
      <4> QED
        BY <4>1, <4>2
    <3>4. \A u \in Callers : /\ In(body'[u], k, Entered) => locks'[k] # Nobody /\ owner'[locks'[k]] = u
                             /\ Layered(body'[u], k)
      BY <3>1, <3>2, <1>2, <1>5, <1>10, <2>1 DEF Excluded
    <3> QED
      BY <3>3, <3>4 DEF Excluded
  <2>5. Accounted(k) => Accounted(k)'
    BY <2>3
  <2>6. ~Blamed(k, LeakCauses)' => Accounted(k)'
    BY <2>5, BlameStays DEF KeySound, LockBase, LeakCauses
  <2> QED
    BY <2>2, <2>4, <2>6 DEF KeySound
<1> QED
  BY <1>8, <1>9, <1>10

\* The empty sequence before another.
LEMMA NothingBefore == ASSUME NEW S, NEW s \in Seq(S) PROVE <<>> \o s = s
OBVIOUS

\* A task starts inside of no guard, and ends there.
LEMMA SpawnSound ==
    ASSUME LockBase, [LockNext]_lockVars, NEW k \in Keys,
           NEW t \in Callers, NEW u \in Callers, Spawn(t, u)
    PROVE  KeySound(k)'
<1>1. /\ body[u] = <<>> /\ UNCHANGED <<locks, owner, ownerTask, stacks, body>>
  BY DEF Spawn
<1>2. \A w \in Callers \ {u} : /\ k \in Held(w) => (k \in Held(w))'
                               /\ Counted(w, k) => Counted(w, k)'
  BY ContextCopied DEF LockBase
<1>3. KeyKept(k)
  BY <1>1, <1>2 DEF KeyKept
<1> QED
  BY <1>3, KeptSound DEF LockBase

\* A task that ends inside of no guard leaves no lock that counts (Gone owns what it left).
LEMMA EndTaskSound ==
    ASSUME LockBase, [LockNext]_lockVars, NEW k \in Keys, NEW t \in Callers, EndTask(t)
    PROVE  KeySound(k)'
<1>1. /\ body[t] = <<>>
      /\ owner' = [o \in Objs |-> IF owner[o] = t THEN Gone ELSE owner[o]]
      /\ ownerTask' = [j \in Keys |-> IF ownerTask[j] = t THEN Gone ELSE ownerTask[j]]
      /\ UNCHANGED <<locks, body, blame>>
  BY DEF EndTask
<1>2. /\ owner \in [Objs -> Owners \cup {Nobody}] /\ locks \in [Keys -> Objs \cup {Nobody}]
      /\ stacks \in [Owners -> [Keys -> Seq(Objs)]]
      /\ Nobody \notin Owners /\ Gone \notin Callers /\ Gone \in Owners /\ t \in Owners
  BY DEF LockBase, LockShape, Owners
<1>3. /\ stacks'[t][k] = <<>> /\ stacks'[Gone][k] = stacks[Gone][k] \o stacks[t][k]
      /\ \A h \in Owners : h # t /\ h # Gone => stacks'[h][k] = stacks[h][k]
  <2> DEFINE f == [j \in Keys |-> <<>>]
             g == [j \in Keys |-> stacks[Gone][j] \o stacks[t][j]]
  <2>1. stacks' = [[stacks EXCEPT ![t] = f] EXCEPT ![Gone] = g] /\ t # Gone
    BY DEF EndTask
  <2>2. f[k] = <<>> /\ g[k] = stacks[Gone][k] \o stacks[t][k]
    OBVIOUS
  <2> HIDE DEF f, g
  <2>3. stacks'[t] = f /\ stacks'[Gone] = g /\ \A h \in Owners : h # t /\ h # Gone => stacks'[h] = stacks[h]
    BY <1>2, <2>1
  <2> QED
    BY <2>2, <2>3
<1>4. \A w \in Callers \ {t} : /\ k \in Held(w) => (k \in Held(w))'
                               /\ Counted(w, k) => Counted(w, k)'
  BY ContextEnds DEF LockBase
<1>5. stacks[Gone][k] \in Seq(Objs) /\ stacks[t][k] \in Seq(Objs)
  BY <1>2
<1>6. CASE locks[k] # Nobody => owner[locks[k]] # t
  <2>1. stacks[t][k] = <<>>
    BY <1>2, <1>6 DEF LockBase, KeySound, Stacked
  <2>2. \A h \in Owners : stacks'[h][k] = stacks[h][k]
    BY <1>3, <1>5, <2>1
  <2>3. locks[k] # Nobody => owner'[locks[k]] = owner[locks[k]]
    BY <1>1, <1>2, <1>6
  <2>4. locks[k] # Nobody /\ ownerTask[k] = owner[locks[k]] => ownerTask'[k] = ownerTask[k]
    BY <1>1, <1>6
  <2>5. KeyKept(k)
    BY <1>1, <1>4, <2>2, <2>3, <2>4 DEF KeyKept
  <2> QED
    BY <2>5, KeptSound DEF LockBase
<1>7. CASE locks[k] # Nobody /\ owner[locks[k]] = t
  <2>1. \A h \in Owners : h # t => stacks[h][k] = <<>>
    BY <1>7 DEF LockBase, KeySound, Stacked
  <2>9. stacks[Gone][k] = <<>>
    BY <1>2, <2>1
  <2>10. stacks[Gone][k] \o stacks[t][k] = stacks[t][k]
    BY <1>5, <2>9, NothingBefore
  <2>2. stacks'[Gone][k] = stacks[t][k] /\ \A h \in Owners : h # Gone => stacks'[h][k] = <<>>
    BY <1>2, <1>3, <2>1, <2>10
  <2>3. owner'[locks'[k]] = Gone /\ locks'[k] = locks[k]
    BY <1>1, <1>2, <1>7
  <2>4. stacks[t][k] # <<>> => stacks[t][k] = <<locks[k]>>
    BY <1>2 DEF LockBase, KeySound, Stacked
  <2>5. Stacked(k)'
    BY <1>2, <1>7, <2>2, <2>3, <2>4 DEF Stacked
  <2>6. ~Accounted(k)
    BY <1>1, <1>2, <1>7, NobodyIsIn DEF Accounted
  <2>7. Blamed(k, LeakCauses)'
    BY <1>1, <2>6, BlameStays DEF LockBase, KeySound, LeakCauses
  <2>8. ASSUME ~Blamed(k, LossCauses)' PROVE Excluded(k)'
    <3>1. Excluded(k)
      BY <2>8, BlameStays DEF KeySound, LockBase, LossCauses
    <3>2. \A u \in Callers : ~In(body[u], k, Entered)
      BY <3>1, <1>1, <1>7, NobodyIsIn DEF Excluded
    <3>3. \A u \in Callers : ~In(body[u], k, {"again"})
      BY <3>2 DEF In, Entered
    <3> QED
      BY <3>1, <3>2, <3>3, <1>1 DEF Excluded
  <2> QED
    BY <2>5, <2>7, <2>8 DEF KeySound
<1> QED
  BY <1>6, <1>7

\* A forced release takes the entries away and, blamed, leaves the owner.
LEMMA ForceSound ==
    ASSUME LockBase, [LockNext]_lockVars, NEW k \in Keys,
           NEW t \in Callers, NEW x \in Keys, ForceRelease(t, x)
    PROVE  KeySound(k)'
<1>1. /\ body[t] = <<>> /\ locks[x] # Nobody
      /\ stacks' = [u \in Callers \cup {Gone} |-> [stacks[u] EXCEPT ![x] = <<>>]]
      /\ owner' = Exit(owner, t, locks[x])
      /\ blame' = [blame EXCEPT ![x] = @ \cup {"force"}]
      /\ UNCHANGED <<locks, ownerTask, rec, acq, body>>
  BY DEF ForceRelease
<1>2. /\ owner \in [Objs -> Owners \cup {Nobody}] /\ locks \in [Keys -> Objs \cup {Nobody}]
      /\ stacks \in [Owners -> [Keys -> Seq(Objs)]] /\ blame \in [Keys -> SUBSET Causes]
      /\ Nobody \notin Owners
  BY DEF LockBase, LockShape, Owners
<1>3. \A h \in Owners : /\ stacks'[h][x] = <<>>
                         /\ \A j \in Keys : j # x => stacks'[h][j] = stacks[h][j]
  BY <1>1, <1>2 DEF Owners
<1>4. /\ \A o \in Objs : o # locks[x] => owner'[o] = owner[o]
      /\ owner'[locks[x]] = IF owner[locks[x]] = t THEN Nobody ELSE owner[locks[x]]
  BY <1>1, <1>2 DEF Exit
<1>5. CASE k # x
  <2>1. locks[k] # Nobody => owner'[locks[k]] = owner[locks[k]]
    BY <1>1, <1>2, <1>4, <1>5 DEF LockBase, PoolApart
  <2>2. KeyKept(k)
    BY <1>1, <1>3, <1>5, <2>1, RecordsStay DEF KeyKept
  <2> QED
    BY <2>2, KeptSound DEF LockBase
<1>6. CASE k = x
  <2>1. Stacked(k)
    BY DEF LockBase, KeySound
  <2>2. Stacked(k)'
    <3>1. \A h \in Owners : stacks'[h][k] = <<>>
      BY <1>3, <1>6
    <3>2. locks'[k] = locks[k] /\ ownerTask'[k] = ownerTask[k]
      BY <1>1
    <3>3. owner'[locks[k]] \in Callers => owner'[locks[k]] = owner[locks[k]]
      BY <1>2, <1>4, <1>6 DEF Owners
    <3> QED
      BY <2>1, <3>1, <3>2, <3>3 DEF Stacked
  <2>3. Blamed(k, LeakCauses)'
    BY <1>1, <1>2, <1>6 DEF Blamed, LeakCauses
  <2>4. ASSUME ~Blamed(k, LossCauses)' PROVE Excluded(k)'
    <3>1. Excluded(k)
      BY <2>4, BlameStays DEF KeySound, LockBase, LossCauses
    <3>2. ASSUME NEW u \in Callers, In(body[u], k, Entered) PROVE owner'[locks[k]] = u
      BY <3>1, <3>2, <1>1, <1>4, <1>6, NobodyIsIn DEF Excluded
    <3> QED
      BY <3>1, <3>2, <1>1, RecordsStay DEF Excluded
  <2> QED
    BY <2>2, <2>3, <2>4 DEF KeySound
<1> QED
  BY <1>5, <1>6

\* The cleanup takes objects nobody owns away from their keys.
LEMMA CleanupSound ==
    ASSUME LockBase, [LockNext]_lockVars, NEW k \in Keys, CleanupIdle
    PROVE  KeySound(k)'
<1>1. /\ locks' = [j \in Keys |-> IF j \in IdleKeys THEN Nobody ELSE locks[j]]
      /\ UNCHANGED <<owner, ownerTask, rec, acq, stacks, body>>
  BY DEF CleanupIdle
<1>2. CASE k \notin IdleKeys
  <2>1. KeyKept(k)
    BY <1>1, <1>2, RecordsStay DEF KeyKept
  <2> QED
    BY <2>1, KeptSound DEF LockBase
<1>3. CASE k \in IdleKeys
  <2>1. locks[k] # Nobody /\ owner[locks[k]] = Nobody /\ locks'[k] = Nobody
    BY <1>1, <1>3 DEF IdleKeys
  <2>2. Nobody \notin Owners
    BY DEF Owners
  <2>3. \A h \in Owners : stacks[h][k] = <<>>
    BY <2>1, <2>2 DEF LockBase, KeySound, Stacked
  <2>4. Stacked(k)' /\ Accounted(k)'
    BY <1>1, <2>1, <2>3 DEF Stacked, Accounted
  <2>5. ASSUME ~Blamed(k, LossCauses)' PROVE Excluded(k)'
    <3>1. Excluded(k)
      BY <2>5, BlameStays DEF KeySound, LockBase, LossCauses
    <3>2. \A u \in Callers : ~In(body[u], k, Entered)
      BY <3>1, <2>1, <2>2 DEF Excluded, Owners
    <3>3. \A u \in Callers : ~In(body[u], k, {"again"})
      BY <3>2 DEF In, Entered
    <3> QED
      BY <3>1, <3>2, <3>3, <1>1 DEF Excluded
  <2> QED
    BY <2>4, <2>5 DEF KeySound
<1> QED
  BY <1>2, <1>3

-----------------------------------------------------------------------------
(* The keyed locks: releases.                                                *)

LEMMA OneEntry ==
    ASSUME NEW S, NEW o \in S
    PROVE  /\ <<o>> # <<>> /\ Last(<<o>>) = o /\ Front(<<o>>) = <<>>
           /\ ToSet(<<o>>) = {o} /\ ToSet(<<>>) = {}
<1>1. Last(<<o>>) = o
  BY DEF Last
<1>2. Front(<<o>>) = <<>>
  BY DEF Front
<1>3. ToSet(<<o>>) = {o} /\ ToSet(<<>>) = {}
  BY DEF ToSet
<1> QED
  BY <1>1, <1>2, <1>3

\* The guard a releasing task leaves is of a key.
LEMMA Leaving ==
    ASSUME LockBase, NEW t \in Callers, Release(t)
    PROVE  /\ body[t] # <<>> /\ Last(body[t]).key \in Keys /\ Last(body[t]).how \in Ways
<1>1. body[t] # <<>> /\ body[t] \in Seq(Guards)
  BY DEF Release, LockBase, LockShape
<1>2. Last(body[t]) \in Guards
  BY <1>1, Popped
<1> QED
  BY <1>1, <1>2 DEF Guards

\* A release that leaves the lock, the entries and the records alone: the guard left is
\* a bypassed one, or the lock is not t's.
LEMMA LeaveSound ==
    ASSUME LockBase, [LockNext]_lockVars, NEW k \in Keys,
           NEW t \in Callers, Release(t), NEW x \in Keys, x = Last(body[t]).key, StepOut(t),
           UNCHANGED <<locks, owner, rec, acq, stacks>>,
           \A j \in Keys : locks[j] # Nobody /\ owner[locks[j]] \in Callers /\ ownerTask[j] = owner[locks[j]]
                             => ownerTask'[j] = ownerTask[j],
           ~Blamed(x, LeakCauses)' /\ locks[x] # Nobody /\ owner[locks[x]] = t /\ Accounted(x)
             => Last(body[t]).how = "bypass"
    PROVE  KeySound(k)'
<1>1. body[t] # <<>>
  BY Leaving
<1>2. \A u \in Callers \ {t} : body'[u] = body[u]
  BY <1>1, BodyLeft DEF LockBase
<1>3. \A hows : In(body[t], k, hows) <=> In(body'[t], k, hows) \/ (x = k /\ Last(body[t]).how \in hows)
  BY <1>1, BodyLeft DEF LockBase
<1>4. Layered(body[t], k) => Layered(body'[t], k)
  BY <1>1, BodyLeft DEF LockBase
<1>5. CASE k # x
  <2>1. KeyKept(k)
    BY <1>2, <1>3, <1>4, <1>5, RecordsStay DEF KeyKept
  <2> QED
    BY <2>1, KeptSound DEF LockBase
<1>6. CASE k = x
  <2>1. Stacked(k)'
    BY DEF Stacked, KeySound, LockBase
  <2>2. ASSUME Excluded(k) PROVE Excluded(k)'
    BY <2>2, <1>2, <1>3, <1>4, RecordsStay DEF Excluded
  <2>3. ASSUME Accounted(k), ~Blamed(x, LeakCauses)' PROVE Accounted(k)'
    <3>1. ASSUME NEW h \in Owners, locks[k] # Nobody, owner[locks[k]] = h
          PROVE  h \in Callers /\ stacks[h][k] # <<>> /\ In(body'[h], k, Entered) /\ (k \in Held(h))'
      <4>1. h \in Callers /\ stacks[h][k] # <<>> /\ In(body[h], k, Entered) /\ k \in Held(h)
        BY <2>3, <3>1 DEF Accounted
      <4>2. In(body'[h], k, Entered)
        <5>1. CASE h = t
          <6>1. Last(body[t]).how = "bypass"
            BY <2>3, <3>1, <5>1, <1>6
          <6> QED
            BY <4>1, <5>1, <6>1, <1>3 DEF Entered
        <5>2. CASE h # t
          BY <4>1, <5>2, <1>2
        <5> QED
          BY <5>1, <5>2
      <4> QED
        BY <4>1, <4>2, RecordsStay
    <3> QED
      BY <3>1 DEF Accounted
  <2>4. /\ ~Blamed(k, LossCauses)' => Excluded(k)
        /\ ~Blamed(k, LeakCauses)' => Accounted(k)
    BY BlameStays DEF LockBase, KeySound, LossCauses, LeakCauses
  <2> QED
    BY <2>1, <2>2, <2>3, <2>4, <1>6 DEF KeySound
<1> QED
  BY <1>5, <1>6

\* The four ways of release that leave the lock as it is.
LEMMA PlainLeaveSound ==
    ASSUME LockBase, [LockNext]_lockVars, NEW k \in Keys, NEW t \in Callers, Release(t),
           ReleaseBypassed(t) \/ ReleaseUnknown(t) \/ ReleaseWrongOwner(t) \/ ReleaseNothing(t)
    PROVE  KeySound(k)'
<1>0. PICK x \in Keys : x = Last(body[t]).key
  BY Leaving
<1>a. blame \in [Keys -> SUBSET Causes] /\ Nobody \notin Callers /\ Callers \subseteq Owners
      /\ ownerTask \in [Keys -> Owners \cup {Nobody}]
  BY DEF LockBase, LockShape, Owners
<1>b. Stacked(x)
  BY DEF LockBase, KeySound
<1>1. CASE ReleaseBypassed(t)
  <2>1. /\ StepOut(t) /\ UNCHANGED <<locks, owner, rec, acq, stacks, ownerTask>>
        /\ Last(body[t]).how # "bypass" => blame' = [blame EXCEPT ![x] = @ \cup {"bypass"}]
    BY <1>0, <1>1 DEF ReleaseBypassed
  <2>2. Last(body[t]).how # "bypass" => Blamed(x, LeakCauses)'
    BY <2>1, <1>a DEF Blamed, LeakCauses
  <2> QED
    BY <1>0, <2>1, <2>2, LeaveSound
<1>2. CASE ReleaseUnknown(t)
  <2>1. /\ StepOut(t) /\ UNCHANGED <<locks, owner, rec, acq, stacks, ownerTask>> /\ locks[x] = Nobody
    BY <1>0, <1>2 DEF ReleaseUnknown
  <2> QED
    BY <1>0, <2>1, LeaveSound
<1>3. CASE ReleaseNothing(t)
  <2>1. /\ StepOut(t) /\ UNCHANGED <<locks, owner, rec, acq, stacks, ownerTask>> /\ stacks[t][x] = <<>>
    BY <1>0, <1>3 DEF ReleaseNothing
  <2>2. ~ (locks[x] # Nobody /\ owner[locks[x]] = t /\ Accounted(x))
    BY <2>1, <1>a DEF Accounted
  <2> QED
    BY <1>0, <2>1, <2>2, LeaveSound
<1>4. CASE ReleaseWrongOwner(t)
  <2>1. /\ StepOut(t) /\ UNCHANGED <<locks, owner, rec, acq, stacks>>
        /\ RecordedOwner(x) \in Callers \ {t}
        /\ ownerTask' = [ownerTask EXCEPT ![x] = RecordedOwner(x)]
    BY <1>0, <1>4 DEF ReleaseWrongOwner
  <2>2. locks[x] # Nobody /\ owner[locks[x]] \in Callers => RecordedOwner(x) = owner[locks[x]]
    BY <1>a, <1>b DEF Stacked, RecordedOwner
  <2>3. \A j \in Keys : locks[j] # Nobody /\ owner[locks[j]] \in Callers /\ ownerTask[j] = owner[locks[j]]
                          => ownerTask'[j] = ownerTask[j]
    BY <2>1, <2>2, <1>a
  <2>4. ~ (locks[x] # Nobody /\ owner[locks[x]] = t)
    BY <2>1, <2>2
  <2> QED
    BY <1>0, <2>1, <2>3, <2>4, LeaveSound
<1> QED
  BY <1>1, <1>2, <1>3, <1>4

\* A counted guard: the last entry goes with it, if there is one.
LEMMA CountedSound ==
    ASSUME LockBase, [LockNext]_lockVars, NEW k \in Keys, NEW t \in Callers, Release(t), ReleaseCounted(t)
    PROVE  KeySound(k)'
<1>0. PICK x \in Keys : x = Last(body[t]).key
  BY Leaving
<1>a. /\ owner \in [Objs -> Owners \cup {Nobody}] /\ blame \in [Keys -> SUBSET Causes]
      /\ stacks \in [Owners -> [Keys -> Seq(Objs)]] /\ locks \in [Keys -> Objs \cup {Nobody}]
      /\ Nobody \notin Owners /\ t \in Owners
  BY DEF LockBase, LockShape, Owners
<1>1. /\ Counted(t, x) /\ locks[x] # Nobody /\ Lowered(t, x) /\ StepOut(t)
      /\ blame' = [blame EXCEPT ![x] = @ \cup {"again"}]
      /\ UNCHANGED <<locks, ownerTask>>
  BY <1>0 DEF ReleaseCounted, Lowered
<1>2. /\ stacks[t][x] = <<>> => UNCHANGED <<owner, stacks>>
      /\ stacks[t][x] # <<>> => /\ owner' = Exit(owner, t, Last(stacks[t][x]))
                                /\ stacks' = [stacks EXCEPT ![t][x] = Front(stacks[t][x])]
  BY <1>0 DEF ReleaseCounted
<1>3. \A u \in Callers, j \in Keys : /\ (j \in Held(u))' <=> j \in Held(u)
                                     /\ j # x /\ Counted(u, j) => Counted(u, j)'
  BY <1>1, RecordLowered DEF LockBase
<1>4. /\ \A u \in Callers \ {t} : body'[u] = body[u]
      /\ \A hows : In(body[t], k, hows) <=> In(body'[t], k, hows) \/ (x = k /\ Last(body[t]).how \in hows)
      /\ Layered(body[t], k) => Layered(body'[t], k)
  BY <1>0, <1>1, Leaving, BodyLeft DEF LockBase
<1>5. Stacked(x) /\ Stacked(k)
  BY DEF LockBase, KeySound
<1>6. ASSUME stacks[t][x] # <<>>
      PROVE  /\ owner[locks[x]] = t /\ stacks[t][x] = <<locks[x]>>
             /\ owner' = [owner EXCEPT ![locks[x]] = Nobody]
             /\ stacks'[t][x] = <<>>
             /\ \A h \in Owners, j \in Keys : h # t \/ j # x => stacks'[h][j] = stacks[h][j]
  <2>1. owner[locks[x]] = t /\ stacks[t][x] = <<locks[x]>> /\ locks[x] \in Objs
    BY <1>5, <1>6, <1>a DEF Stacked
  <2>2. /\ owner' = [owner EXCEPT ![locks[x]] = Nobody]
        /\ stacks' = [stacks EXCEPT ![t][x] = <<>>]
    BY <2>1, <1>2, <1>6, OneEntry DEF Exit
  <2>3. /\ stacks'[t][x] = <<>>
        /\ \A h \in Owners, j \in Keys : h # t \/ j # x => stacks'[h][j] = stacks[h][j]
    BY <2>2, <1>a
  <2> QED
    BY <2>1, <2>2, <2>3
<1>7. CASE k # x
  <2>1. locks[k] # Nobody => owner'[locks[k]] = owner[locks[k]]
    <3>1. CASE stacks[t][x] = <<>>
      BY <3>1, <1>2
    <3>2. CASE stacks[t][x] # <<>>
      BY <3>2, <1>6, <1>7, <1>a DEF LockBase, PoolApart
    <3> QED
      BY <3>1, <3>2
  <2>2. \A h \in Owners : stacks'[h][k] = stacks[h][k]
    <3>1. CASE stacks[t][x] = <<>>
      BY <3>1, <1>2
    <3>2. CASE stacks[t][x] # <<>>
      BY <3>2, <1>6, <1>7, <1>a
    <3> QED
      BY <3>1, <3>2
  <2>3. KeyKept(k)
    BY <2>1, <2>2, <1>1, <1>3, <1>4, <1>7 DEF KeyKept
  <2> QED
    BY <2>3, KeptSound DEF LockBase
<1>8. CASE k = x
  <2>1. Blamed(k, LossCauses)'
    BY <1>1, <1>8, <1>a DEF Blamed, LossCauses
  <2>2. CASE stacks[t][x] = <<>>
    <3>1. Stacked(k)'
      BY <1>1, <1>2, <1>5, <2>2 DEF Stacked
    <3>2. ASSUME Accounted(k) PROVE Accounted(k)'
      <4>1. ASSUME NEW h \in Owners, locks[k] # Nobody, owner[locks[k]] = h
            PROVE  h \in Callers /\ stacks[h][k] # <<>> /\ In(body'[h], k, Entered) /\ (k \in Held(h))'
        <5>1. h \in Callers /\ stacks[h][k] # <<>> /\ In(body[h], k, Entered) /\ k \in Held(h)
          BY <3>2, <4>1 DEF Accounted
        <5>2. h # t
          BY <5>1, <1>8, <2>2
        <5> QED
          BY <5>1, <5>2, <1>3, <1>4
      <4> QED
        BY <4>1, <1>1, <1>2, <2>2 DEF Accounted
    <3>3. ~Blamed(k, LeakCauses)' => Accounted(k)
      BY BlameStays DEF LockBase, KeySound, LeakCauses
    <3> QED
      BY <3>1, <3>2, <3>3, <2>1 DEF KeySound
  <2>3. CASE stacks[t][x] # <<>>
    <3>1. \A h \in Owners : stacks'[h][k] = <<>>
      BY <1>5, <1>6, <1>8, <1>a, <2>3 DEF Stacked
    <3>2. owner'[locks'[k]] = Nobody
      BY <1>1, <1>6, <1>8, <1>a, <2>3
    <3>3. Stacked(k)' /\ Accounted(k)'
      BY <3>1, <3>2, <1>a DEF Stacked, Accounted, Owners
    <3> QED
      BY <3>3, <2>1 DEF KeySound
  <2> QED
    BY <2>2, <2>3
<1> QED
  BY <1>7, <1>8

\* The ordinary release.
LEMMA OwnSound ==
    ASSUME LockBase, [LockNext]_lockVars, NEW k \in Keys, NEW t \in Callers, Release(t), ReleaseOwn(t)
    PROVE  KeySound(k)'
<1>0. PICK x \in Keys : x = Last(body[t]).key
  BY Leaving
<1>a. /\ owner \in [Objs -> Owners \cup {Nobody}] /\ blame \in [Keys -> SUBSET Causes]
      /\ stacks \in [Owners -> [Keys -> Seq(Objs)]] /\ locks \in [Keys -> Objs \cup {Nobody}]
      /\ ownerTask \in [Keys -> Owners \cup {Nobody}]
      /\ Nobody \notin Owners /\ t \in Owners /\ Callers \subseteq Owners
  BY DEF LockBase, LockShape, Owners
<1>1. /\ ~Counted(t, x) /\ locks[x] # Nobody /\ StepOut(t) /\ stacks[t][x] # <<>>
      /\ owner' = Exit(owner, t, Last(stacks[t][x]))
      /\ stacks' = [stacks EXCEPT ![t][x] = Front(stacks[t][x])]
      /\ IF owner[Last(stacks[t][x])] = t THEN Forget(t, x, Front(stacks[t][x]))
         ELSE UNCHANGED <<ownerTask, rec, acq>>
      /\ Last(body[t]).how = "bypass" => blame' = [blame EXCEPT ![x] = @ \cup {"bypass"}]
      /\ UNCHANGED locks
  BY <1>0 DEF ReleaseOwn, Plain
<1>2. Stacked(x) /\ Stacked(k)
  BY DEF LockBase, KeySound
<1>3. owner[locks[x]] = t /\ stacks[t][x] = <<locks[x]>> /\ locks[x] \in Objs
  BY <1>1, <1>2, <1>a DEF Stacked
<1>4. /\ owner' = [owner EXCEPT ![locks[x]] = Nobody]
      /\ stacks' = [stacks EXCEPT ![t][x] = <<>>]
      /\ Forget(t, x, <<>>)
  <2>1. Last(stacks[t][x]) = locks[x] /\ Front(stacks[t][x]) = <<>>
    BY <1>3, OneEntry
  <2> QED
    BY <1>1, <1>3, <2>1 DEF Exit
<1>5. OthersKeep(t, x) /\ \A j \in Keys : j # x => ownerTask'[j] = ownerTask[j]
  <2>1. OthersKeep(t, x)
    BY <1>4, RecordForgotten DEF LockBase
  <2>2. \A j \in Keys : j # x => ownerTask'[j] = ownerTask[j]
    BY <1>4, <1>a DEF Forget
  <2> QED
    BY <2>1, <2>2
<1>6. /\ \A u \in Callers \ {t} : body'[u] = body[u]
      /\ \A hows : In(body[t], k, hows) <=> In(body'[t], k, hows) \/ (x = k /\ Last(body[t]).how \in hows)
      /\ Layered(body[t], k)
           <=> Layered(body'[t], k) /\ (x = k /\ Last(body[t]).how = "lock" => ~In(body'[t], k, Entered))
  BY <1>0, <1>1, Leaving, BodyLeft DEF LockBase
<1>7. CASE k # x
  <2>1. locks[k] # Nobody => owner'[locks[k]] = owner[locks[k]]
    BY <1>4, <1>7, <1>a DEF LockBase, PoolApart
  <2>2. \A h \in Owners : stacks'[h][k] = stacks[h][k]
    BY <1>4, <1>7, <1>a
  <2>3. KeyKept(k)
    BY <2>1, <2>2, <1>1, <1>5, <1>6, <1>7 DEF KeyKept, OthersKeep
  <2> QED
    BY <2>3, KeptSound DEF LockBase
<1>8. CASE k = x
  <2>1. \A h \in Owners : stacks'[h][k] = <<>>
    BY <1>2, <1>3, <1>4, <1>8, <1>a DEF Stacked
  <2>2. owner'[locks'[k]] = Nobody
    BY <1>1, <1>4, <1>8, <1>3, <1>a
  <2>3. Stacked(k)' /\ Accounted(k)'
    BY <2>1, <2>2, <1>a DEF Stacked, Accounted
  <2>4. ASSUME ~Blamed(k, LossCauses)' PROVE Excluded(k)'
    <3>1. Excluded(k)
      BY <2>4, BlameStays DEF KeySound, LockBase, LossCauses
    <3>2. Last(body[t]).how # "bypass"
      <4>1. ASSUME blame' = [blame EXCEPT ![x] = @ \cup {"bypass"}] PROVE FALSE
        BY <4>1, <2>4, <1>8, <1>a DEF Blamed, LossCauses
      <4> QED
        BY <4>1, <1>1
    <3>3. Last(body[t]).how # "again"
      BY <3>1, <1>1, <1>6, <1>8 DEF Excluded
    <3>4. Last(body[t]).how = "lock"
      BY <3>2, <3>3, Leaving DEF Ways
    <3>5. ~In(body'[t], k, Entered) /\ Layered(body'[t], k)
      BY <3>1, <3>4, <1>6, <1>8 DEF Excluded
    <3>6. ASSUME NEW u \in Callers, u # t PROVE ~In(body'[u], k, Entered) /\ Layered(body'[u], k)
      BY <3>1, <3>6, <1>3, <1>6, <1>8 DEF Excluded
    <3>7. \A u \in Callers : ~In(body'[u], k, Entered) /\ Layered(body'[u], k)
      BY <3>5, <3>6
    <3>8. \A u \in Callers : ~In(body'[u], k, {"again"})
      BY <3>7 DEF In, Entered
    <3> QED
      BY <3>7, <3>8 DEF Excluded
  <2> QED
    BY <2>3, <2>4 DEF KeySound
<1> QED
  BY <1>7, <1>8

\* A release that finds the recorded owner ended: it was nobody inside of the key.
LEMMA OrphanSound ==
    ASSUME LockBase, [LockNext]_lockVars, NEW k \in Keys, NEW t \in Callers, Release(t), ReleaseOrphan(t)
    PROVE  KeySound(k)'
<1>0. PICK x \in Keys : x = Last(body[t]).key
  BY Leaving
<1>a. /\ owner \in [Objs -> Owners \cup {Nobody}] /\ blame \in [Keys -> SUBSET Causes]
      /\ stacks \in [Owners -> [Keys -> Seq(Objs)]] /\ locks \in [Keys -> Objs \cup {Nobody}]
      /\ ownerTask \in [Keys -> Owners \cup {Nobody}]
      /\ Nobody \notin Owners /\ t \in Owners /\ Callers \subseteq Owners
      /\ Gone \in Owners /\ Gone \notin Callers /\ t # Gone /\ Owners = Callers \cup {Gone}
  BY DEF LockBase, LockShape, Owners
<1> DEFINE stk == stacks[t][x] \o stacks[Gone][x]
<1>1. /\ locks[x] # Nobody /\ RecordedOwner(x) = Gone /\ StepOut(t)
      /\ owner' = [o \in Objs |-> IF o \in ToSet(stk) /\ (o = locks[x] \/ owner[o] = t)
                                  THEN Nobody
                                  ELSE IF o = locks[x] /\ owner[o] # Nobody THEN t
                                  ELSE owner[o]]
      /\ stacks' = [stacks EXCEPT ![t][x] = <<>>, ![Gone][x] = <<>>]
      /\ \/ stk = <<>> /\ ownerTask' = [ownerTask EXCEPT ![x] = t] /\ UNCHANGED <<rec, acq>>
         \/ stk # <<>> /\ Forget(t, x, <<>>)
      /\ UNCHANGED <<locks, blame>>
  BY <1>0 DEF ReleaseOrphan, Plain
<1>2. Stacked(x) /\ Stacked(k)
  BY DEF LockBase, KeySound
<1>3. locks[x] \in Objs /\ owner[locks[x]] \notin Callers
  <2>1. owner[locks[x]] \in Callers => RecordedOwner(x) = owner[locks[x]]
    BY <1>1, <1>2, <1>a DEF Stacked, RecordedOwner
  <2> QED
    BY <2>1, <1>1, <1>a
<1>4. stacks[t][x] = <<>> /\ (stacks[Gone][x] = <<>> \/ stacks[Gone][x] = <<locks[x]>>)
  BY <1>2, <1>3, <1>a DEF Stacked
<1>5. stk = <<>> \/ stk = <<locks[x]>>
  <2>1. stacks[Gone][x] \in Seq(Objs)
    BY <1>a
  <2>2. <<>> \o stacks[Gone][x] = stacks[Gone][x]
    BY <2>1, NothingBefore
  <2> QED
    BY <2>2, <1>4
<1> HIDE DEF stk
<1>6. \A h \in Owners : /\ stacks'[h][x] = <<>>
                         /\ \A j \in Keys : j # x => stacks'[h][j] = stacks[h][j]
  <2> DEFINE f == [stacks[t] EXCEPT ![x] = <<>>]
             g == [stacks[Gone] EXCEPT ![x] = <<>>]
  <2>1. stacks' = [[stacks EXCEPT ![t] = f] EXCEPT ![Gone] = g]
    BY <1>1, <1>a
  <2>2. /\ f[x] = <<>> /\ g[x] = <<>>
        /\ \A j \in Keys : j # x => f[j] = stacks[t][j] /\ g[j] = stacks[Gone][j]
    BY <1>a
  <2> HIDE DEF f, g
  <2>3. stacks'[t] = f /\ stacks'[Gone] = g /\ \A h \in Owners : h # t /\ h # Gone => stacks'[h] = stacks[h]
    BY <1>a, <2>1
  <2>4. ASSUME NEW h \in Owners, h # t, h # Gone
        PROVE  /\ stacks'[h][x] = <<>>
               /\ \A j \in Keys : j # x => stacks'[h][j] = stacks[h][j]
    <3>1. stacks[h][x] = <<>>
      BY <2>4, <1>2, <1>3, <1>a DEF Stacked
    <3> QED
      BY <3>1, <2>3, <2>4
  <2> QED
    BY <2>2, <2>3, <2>4
<1>7. /\ \A o \in Objs : o # locks[x] => owner'[o] = owner[o]
      /\ owner'[locks[x]] = IF stk = <<>> /\ owner[locks[x]] # Nobody THEN t ELSE Nobody
  <2>1. ToSet(stk) = IF stk = <<>> THEN {} ELSE {locks[x]}
    BY <1>3, <1>5, OneEntry
  <2> QED
    BY <2>1, <1>1, <1>3
<1>8. OthersKeep(t, x) /\ \A j \in Keys : j # x => ownerTask'[j] = ownerTask[j]
  <2>1. OthersKeep(t, x)
    BY <1>1, RecordForgotten, RecordsStay DEF LockBase, OthersKeep
  <2>2. \A j \in Keys : j # x => ownerTask'[j] = ownerTask[j]
    BY <1>1, <1>a DEF Forget
  <2> QED
    BY <2>1, <2>2
<1>9. /\ \A u \in Callers \ {t} : body'[u] = body[u]
      /\ \A hows : In(body[t], k, hows) <=> In(body'[t], k, hows) \/ (x = k /\ Last(body[t]).how \in hows)
      /\ Layered(body[t], k) => Layered(body'[t], k)
  BY <1>0, <1>1, Leaving, BodyLeft DEF LockBase
<1>10. CASE k # x
  <2>1. locks[k] # Nobody => owner'[locks[k]] = owner[locks[k]]
    BY <1>7, <1>10, <1>a DEF LockBase, PoolApart
  <2>2. KeyKept(k)
    BY <2>1, <1>1, <1>6, <1>8, <1>9, <1>10 DEF KeyKept, OthersKeep
  <2> QED
    BY <2>2, KeptSound DEF LockBase
<1>11. CASE k = x
  <2>1. Stacked(k)'
    <3>1. owner'[locks[x]] \in Callers => owner'[locks[x]] = t /\ ownerTask'[x] = t
      BY <1>1, <1>7, <1>a
    <3> QED
      BY <3>1, <1>1, <1>6, <1>11 DEF Stacked
  <2>2. ASSUME ~Blamed(k, LeakCauses)' PROVE Accounted(k)'
    <3>1. Accounted(k)
      BY <2>2, BlameStays DEF KeySound, LockBase, LeakCauses
    <3>2. owner[locks[x]] = Nobody
      BY <3>1, <1>1, <1>3, <1>11, <1>a DEF Accounted
    <3>3. owner'[locks[x]] = Nobody
      BY <3>2, <1>7
    <3> QED
      BY <3>3, <1>1, <1>11, <1>a DEF Accounted
  <2>3. ASSUME ~Blamed(k, LossCauses)' PROVE Excluded(k)'
    <3>1. Excluded(k)
      BY <2>3, BlameStays DEF KeySound, LockBase, LossCauses
    <3>2. \A u \in Callers : ~In(body[u], k, Entered)
      BY <3>1, <1>3, <1>11 DEF Excluded
    <3>3. \A u \in Callers : ~In(body'[u], k, Entered) /\ Layered(body'[u], k)
      BY <3>1, <3>2, <1>9 DEF Excluded
    <3>4. \A u \in Callers : ~In(body'[u], k, {"again"})
      BY <3>3 DEF In, Entered
    <3> QED
      BY <3>3, <3>4 DEF Excluded
  <2> QED
    BY <2>1, <2>2, <2>3 DEF KeySound
<1> QED
  BY <1>10, <1>11

-----------------------------------------------------------------------------
(* The keyed locks: the invariant.                                           *)

\* Every step keeps what is true of a key.
LEMMA KeySoundNext ==
    ASSUME LockBase, [LockNext]_lockVars, NEW k \in Keys PROVE KeySound(k)'
<1>1. ASSUME NEW t \in Callers, NEW x \in Keys, Rejected(t, x) PROVE KeySound(k)'
  BY <1>1, QuietSound DEF Rejected, GiveUp
<1>2. ASSUME NEW t \in Callers,
             \/ SlowTimeout(t) \/ SlowFail(t) \/ CancelAcquire(t) \/ \E s \in Batches : StartBatch(t, s)
      PROVE  KeySound(k)'
  BY <1>2, QuietSound DEF SlowTimeout, SlowFail, CancelAcquire, StartBatch, GiveUp
<1>3. CASE (\E o \in Objs : GrowOld(o)) \/ Shutdown \/ UNCHANGED lockVars
  BY <1>3, QuietSound DEF GrowOld, Shutdown, lockVars
<1>4. ASSUME NEW t \in Callers, NEW x \in Keys, NEW o \in Objs, BeginFast(t, x, o) PROVE KeySound(k)'
  BY <1>4, GetLockSound DEF BeginFast
<1>5. ASSUME NEW t \in Callers, NEW o \in Objs, SlowRefused(t, o) \/ BeginSlow(t, o) PROVE KeySound(k)'
  <2>1. PICK x \in Keys : x = step[t].key
    BY <1>5, WaitShape DEF SlowRefused, BeginSlow, LockBase
  <2>2. GetLock(x, o) /\ UNCHANGED <<owner, ownerTask, rec, acq, stacks, body>>
    BY <1>5, <2>1 DEF SlowRefused, BeginSlow, GiveUp
  <2> QED
    BY <2>2, GetLockSound
<1>6. ASSUME NEW t \in Callers, Release(t) PROVE KeySound(k)'
  BY <1>6, PlainLeaveSound, CountedSound, OwnSound, OrphanSound DEF Release
<1>7. ASSUME NEW t \in Callers, NEW x \in Keys, Bypass(t, x) \/ ForceRelease(t, x) PROVE KeySound(k)'
  BY <1>7, BypassSound, ForceSound
<1>8. ASSUME NEW t \in Callers,
             \/ FastAcquire(t) \/ SlowAcquire(t) \/ FastRefused(t) \/ EndTask(t)
             \/ \E o \in Objs : Reenter(t, o)
             \/ \E u \in Callers : Spawn(t, u)
      PROVE  KeySound(k)'
  BY <1>8, AcquireSound, FastRefusedSound, EndTaskSound, ReenterSound, SpawnSound
<1>9. CASE CleanupIdle
  BY <1>9, CleanupSound
<1> QED
  BY <1>1, <1>2, <1>3, <1>4, <1>5, <1>6, <1>7, <1>8, <1>9 DEF LockNext, LockStep

\* Where a task is, before and after a step.
LEMMA StepNext ==
    ASSUME LockShape, [LockNext]_lockVars, NEW u \in Callers, step'[u].at # "free"
    PROVE  \/ step[u].at # "free" /\ step'[u].key = step[u].key /\ step'[u].obj = step[u].obj
           \/ \E t \in Callers, k \in Keys, o \in Objs :
                /\ BeginFast(t, k, o) \/ (BeginSlow(t, o) /\ k = step[t].key)
                /\ step'[u].key = k /\ step'[u].obj = o
<1>0. step \in [Callers -> Waits \cup {Free}]
  BY DEF LockShape
<1>1. CASE step'[u] = step[u]
  BY <1>1
<1>2. ASSUME NEW t \in Callers, NEW k \in Keys, Bypass(t, k) \/ Rejected(t, k) \/ ForceRelease(t, k)
      PROVE  step'[u] = step[u]
  BY <1>0, <1>2 DEF Bypass, Rejected, ForceRelease, EnterBody, GiveUp, Free
<1>3. ASSUME NEW t \in Callers, FastAcquire(t) \/ SlowAcquire(t) PROVE step'[u] = step[u]
  BY <1>0, <1>3 DEF FastAcquire, SlowAcquire, EnterBody, Free
<1>4. ASSUME NEW t \in Callers,
             \/ FastRefused(t) \/ SlowFail(t) \/ CancelAcquire(t)
             \/ \E o \in Objs : SlowRefused(t, o) \/ Reenter(t, o)
      PROVE  step'[u] = step[u]
  BY <1>0, <1>4 DEF FastRefused, SlowFail, CancelAcquire, SlowRefused, Reenter, GiveUp, EnterBody, Free
<1>5. ASSUME NEW t \in Callers, SlowTimeout(t)
      PROVE  step[u].at # "free" /\ step'[u].key = step[u].key /\ step'[u].obj = step[u].obj
  <2>1. CASE u # t
    <3>1. step'[u] = step[u]
      BY <1>0, <1>5, <2>1 DEF SlowTimeout
    <3> QED
      BY <3>1
  <2>2. CASE u = t
    <3>1. step[t] \in [at : {"slow"}, key : Keys, obj : Objs, tries : Int]
      BY <1>5, WaitShape DEF SlowTimeout
    <3>2. step' = [step EXCEPT ![t] = [step[t] EXCEPT !.tries = @ + 1]]
      BY <1>5 DEF SlowTimeout
    <3>3. step'[t] = [step[t] EXCEPT !.tries = @ + 1]
      BY <1>0, <3>2
    <3>4. /\ [step[t] EXCEPT !.tries = @ + 1].key = step[t].key
          /\ [step[t] EXCEPT !.tries = @ + 1].obj = step[t].obj
      BY <3>1
    <3> QED
      BY <2>2, <3>1, <3>3, <3>4
  <2> QED
    BY <2>1, <2>2
<1>6. ASSUME NEW t \in Callers, NEW k \in Keys, NEW o \in Objs, BeginFast(t, k, o)
      PROVE  step'[u] = step[u] \/ (step'[u].key = k /\ step'[u].obj = o)
  BY <1>0, <1>6 DEF BeginFast
<1>7. ASSUME NEW t \in Callers, NEW o \in Objs, BeginSlow(t, o)
      PROVE  step'[u] = step[u] \/ (step'[u].key = step[t].key /\ step'[u].obj = o)
  BY <1>0, <1>7 DEF BeginSlow
<1>8. ASSUME NEW t \in Callers, NEW o \in Objs, BeginSlow(t, o) PROVE step[t].key \in Keys
  BY <1>8, WaitShape DEF BeginSlow
<1>9. ASSUME NEW t \in Callers, Release(t) \/ EndTask(t) \/ \E v \in Callers : Spawn(t, v)
      PROVE  step'[u] = step[u]
  BY <1>9 DEF Release, ReleaseBypassed, ReleaseUnknown, ReleaseCounted, ReleaseWrongOwner, ReleaseOwn,
              ReleaseNothing, ReleaseOrphan, EndTask, Spawn
<1>10. ASSUME \/ \E t \in Callers, s \in Batches : StartBatch(t, s)
              \/ (\E o \in Objs : GrowOld(o)) \/ CleanupIdle \/ Shutdown \/ UNCHANGED lockVars
       PROVE  step'[u] = step[u]
  BY <1>10 DEF StartBatch, GrowOld, CleanupIdle, Shutdown, lockVars
<1> QED
  BY <1>1, <1>2, <1>3, <1>4, <1>5, <1>6, <1>7, <1>8, <1>9, <1>10 DEF LockNext, LockStep

\* A task's object stays its key's unless the pool takes it back.
LEMMA AimsRightNext ==
    ASSUME LockShape, PoolApart, AimsRight, [LockNext]_lockVars, ~Recycled' PROVE AimsRight'
<1> SUFFICES ASSUME NEW u \in Callers, step'[u].at # "free" PROVE locks'[step'[u].key] = step'[u].obj
  BY DEF AimsRight
<1>1. CASE step[u].at # "free" /\ step'[u].key = step[u].key /\ step'[u].obj = step[u].obj
  <2>1. PICK k \in Keys, o \in Objs : k = step[u].key /\ o = step[u].obj
    BY <1>1, WaitShape
  <2>2. locks[k] = o /\ o # Nobody
    BY <1>1, <2>1 DEF AimsRight
  <2>3. ASSUME NEW x \in Keys, NEW p \in Objs, GetLock(x, p) PROVE locks'[k] = locks[k]
    <3>1. locks'[x] = p /\ (\A j \in Keys \ {x} : locks'[j] = locks[j]) /\ (locks[x] # Nobody => p = locks[x])
      BY <2>3, GotLock
    <3> QED
      BY <3>1, <2>2
  <2>4. ASSUME CleanupIdle PROVE locks'[k] = locks[k]
    <3>1. ASSUME k \in IdleKeys PROVE FALSE
      <4>1. InHand(locks[k])
        BY <1>1, <2>1, <2>2 DEF InHand
      <4>2. blame'[k] = blame[k] \cup {"recycle"}
        BY <2>4, <3>1, <4>1 DEF CleanupIdle
      <4> QED
        BY <4>2 DEF Recycled, Blamed
    <3> QED
      BY <2>4, <3>1 DEF CleanupIdle
  <2>5. ASSUME NEW t \in Callers, NEW p \in Objs, Reenter(t, p) \/ SlowRefused(t, p) \/ BeginSlow(t, p)
        PROVE  locks'[k] = locks[k]
    <3>1. PICK x \in Keys : x = step[t].key
      BY <2>5, WaitShape DEF Reenter, SlowRefused, BeginSlow
    <3>2. GetLock(x, p)
      BY <2>5, <3>1 DEF Reenter, SlowRefused, BeginSlow
    <3> QED
      BY <3>2, <2>3
  <2>6. locks'[k] = locks[k]
    BY <2>3, <2>4, <2>5, LocksNext DEF BeginFast
  <2> QED
    BY <1>1, <2>1, <2>2, <2>6
<1>2. ASSUME NEW t \in Callers, NEW k \in Keys, NEW o \in Objs,
             BeginFast(t, k, o) \/ (BeginSlow(t, o) /\ k = step[t].key),
             step'[u].key = k, step'[u].obj = o
      PROVE  locks'[step'[u].key] = step'[u].obj
  <2>1. GetLock(k, o)
    BY <1>2 DEF BeginFast, BeginSlow
  <2> QED
    BY <2>1, <1>2, GotLock
<1> QED
  BY <1>1, <1>2, StepNext

\* Who becomes an owner had the object in hand.
LEMMA OwnersNext ==
    ASSUME LockShape, [LockNext]_lockVars, NEW o \in Objs, owner'[o] # Nobody
    PROVE  \/ owner[o] # Nobody
           \/ /\ UNCHANGED locks
              /\ \E t \in Callers : step[t].at # "free" /\ step[t].obj = o
<1>0. owner \in [Objs -> Owners \cup {Nobody}]
  BY DEF LockShape
<1>1. ASSUME NEW t \in Callers, FastAcquire(t) \/ SlowAcquire(t) \/ FastRefused(t)
      PROVE  \/ owner[o] # Nobody
             \/ UNCHANGED locks /\ step[t].at # "free" /\ step[t].obj = o
  <2>1. step[t].at # "free" /\ UNCHANGED locks
    BY <1>1 DEF FastAcquire, SlowAcquire, FastRefused
  <2>2. \E h : owner' = [owner EXCEPT ![step[t].obj] = h]
    BY <1>1 DEF FastAcquire, SlowAcquire, FastRefused, RecordAcquired
  <2>3. owner'[o] = owner[o] \/ step[t].obj = o
    BY <1>0, <2>2
  <2> QED
    BY <2>1, <2>3
<1>2. ASSUME NEW t \in Callers, NEW x \in Keys, ForceRelease(t, x) PROVE owner[o] # Nobody
  BY <1>0, <1>2 DEF ForceRelease, Exit
<1>3. ASSUME NEW t \in Callers, Release(t) PROVE owner[o] # Nobody
  <2>1. CASE ReleaseCounted(t)
    BY <1>0, <2>1 DEF ReleaseCounted, Exit
  <2>2. CASE ReleaseOwn(t)
    BY <1>0, <2>2 DEF ReleaseOwn, Exit
  <2>3. CASE ReleaseOrphan(t)
    BY <1>0, <2>3 DEF ReleaseOrphan
  <2>4. CASE ReleaseBypassed(t) \/ ReleaseUnknown(t) \/ ReleaseWrongOwner(t) \/ ReleaseNothing(t)
    BY <2>4 DEF ReleaseBypassed, ReleaseUnknown, ReleaseWrongOwner, ReleaseNothing
  <2> QED
    BY <1>3, <2>1, <2>2, <2>3, <2>4 DEF Release
<1>4. ASSUME NEW t \in Callers, EndTask(t) PROVE owner[o] # Nobody
  BY <1>0, <1>4 DEF EndTask
<1>5. ASSUME NEW t \in Callers, NEW k \in Keys,
             Bypass(t, k) \/ Rejected(t, k) \/ \E p \in Objs : BeginFast(t, k, p)
      PROVE  owner[o] # Nobody
  BY <1>5 DEF Bypass, Rejected, BeginFast
<1>6. ASSUME NEW t \in Callers,
             \/ \E p \in Objs : Reenter(t, p) \/ SlowRefused(t, p) \/ BeginSlow(t, p)
             \/ SlowTimeout(t) \/ SlowFail(t) \/ CancelAcquire(t)
             \/ (\E s \in Batches : StartBatch(t, s)) \/ \E u \in Callers : Spawn(t, u)
      PROVE  owner[o] # Nobody
  BY <1>6 DEF Reenter, SlowRefused, BeginSlow, SlowTimeout, SlowFail, CancelAcquire, StartBatch, Spawn
<1>7. ASSUME (\E p \in Objs : GrowOld(p)) \/ CleanupIdle \/ Shutdown \/ UNCHANGED lockVars
      PROVE  owner[o] # Nobody
  BY <1>7 DEF GrowOld, CleanupIdle, Shutdown, lockVars
<1> QED
  BY <1>1, <1>2, <1>3, <1>4, <1>5, <1>6, <1>7 DEF LockNext, LockStep

\* An object somebody owns is some key's, through every step.
LEMMA OwnedByKeysNext ==
    ASSUME LockShape, PoolApart, AimsRight, OwnedByKeys, [LockNext]_lockVars PROVE OwnedByKeys'
<1> SUFFICES ASSUME NEW o \in Objs, owner'[o] # Nobody PROVE \E k \in Keys : locks'[k] = o
  BY DEF OwnedByKeys
<1>1. CASE owner[o] # Nobody
  <2>1. PICK k \in Keys : locks[k] = o
    BY <1>1 DEF OwnedByKeys
  <2>2. o # Nobody
    OBVIOUS
  <2>3. ASSUME NEW x \in Keys, NEW p \in Objs, GetLock(x, p) PROVE locks'[k] = locks[k]
    <3>1. locks'[x] = p /\ (\A j \in Keys \ {x} : locks'[j] = locks[j]) /\ (locks[x] # Nobody => p = locks[x])
      BY <2>3, GotLock
    <3> QED
      BY <3>1, <2>1, <2>2
  <2>4. ASSUME CleanupIdle PROVE locks'[k] = locks[k]
    BY <2>4, <1>1, <2>1 DEF CleanupIdle, IdleKeys
  <2>5. ASSUME NEW t \in Callers, NEW p \in Objs, Reenter(t, p) \/ SlowRefused(t, p) \/ BeginSlow(t, p)
        PROVE  locks'[k] = locks[k]
    <3>1. PICK x \in Keys : x = step[t].key
      BY <2>5, WaitShape DEF Reenter, SlowRefused, BeginSlow
    <3>2. GetLock(x, p)
      BY <2>5, <3>1 DEF Reenter, SlowRefused, BeginSlow
    <3> QED
      BY <3>2, <2>3
  <2>6. locks'[k] = locks[k]
    BY <2>3, <2>4, <2>5, LocksNext DEF BeginFast
  <2> QED
    BY <2>1, <2>6
<1>2. ASSUME UNCHANGED locks, NEW t \in Callers, step[t].at # "free", step[t].obj = o
      PROVE  \E k \in Keys : locks'[k] = o
  BY <1>2, WaitShape DEF AimsRight
<1> QED
  BY <1>1, <1>2, OwnersNext

\* The property's word for being inside of a guard.
LEMMA WithinIsIn == \A t, k, hows : Within(t, k, hows) <=> In(body[t], k, hows)
BY DEF Within, In

\* A bypassed key's mark goes with the guard it let through.
MarkIsIn == \A k \in bypassed : \E t \in Callers : In(body[t], k, {"bypass"})

\* The mark of a bypassed key goes no later than the guard it let through.
LEMMA MarkNext ==
    ASSUME LockShape, MarkIsIn, [LockNext]_lockVars PROVE MarkIsIn'
<1>0. bypassed \subseteq Keys /\ "bypass" \in Ways /\ "again" \in Ways /\ "lock" \in Ways
  BY DEF LockShape, Ways
<1> SUFFICES ASSUME NEW k \in bypassed' PROVE \E u \in Callers : In(body'[u], k, {"bypass"})
  BY DEF MarkIsIn
<1>1. ASSUME NEW t \in Callers, NEW x \in Keys, NEW how \in Ways, EnterBody(t, x, how), k \in bypassed
      PROVE  \E u \in Callers : In(body'[u], k, {"bypass"})
  <2>1. PICK u \in Callers : In(body[u], k, {"bypass"})
    BY <1>1 DEF MarkIsIn
  <2>2. /\ \A w \in Callers \ {t} : body'[w] = body[w]
        /\ In(body[t], k, {"bypass"}) => In(body'[t], k, {"bypass"})
    BY <1>1, BodyEntered
  <2> QED
    BY <2>1, <2>2
<1>2. ASSUME UNCHANGED body, k \in bypassed PROVE \E u \in Callers : In(body'[u], k, {"bypass"})
  BY <1>2 DEF MarkIsIn
<1>3. ASSUME NEW t \in Callers, NEW x \in Keys, Bypass(t, x) PROVE \E u \in Callers : In(body'[u], k, {"bypass"})
  <2>1. EnterBody(t, x, "bypass") /\ bypassed' = bypassed \cup {x}
    BY <1>3 DEF Bypass
  <2>2. CASE k = x
    BY <2>1, <2>2, <1>0, BodyEntered
  <2>3. CASE k # x
    BY <2>1, <2>3, <1>0, <1>1
  <2> QED
    BY <2>2, <2>3
<1>4. ASSUME NEW t \in Callers,
             FastAcquire(t) \/ SlowAcquire(t) \/ \E o \in Objs : Reenter(t, o)
      PROVE  \E u \in Callers : In(body'[u], k, {"bypass"})
  <2>1. PICK x \in Keys : x = step[t].key
    BY <1>4, WaitShape DEF FastAcquire, SlowAcquire, Reenter
  <2>2. (EnterBody(t, x, "lock") \/ EnterBody(t, x, "again")) /\ bypassed' = bypassed \ {x}
    BY <1>4, <2>1 DEF FastAcquire, SlowAcquire, Reenter, ResetCircuit
  <2> QED
    BY <2>2, <1>0, <1>1
<1>5. ASSUME NEW t \in Callers, Release(t) PROVE \E u \in Callers : In(body'[u], k, {"bypass"})
  <2>1. PICK x \in Keys : x = Last(body[t]).key
    BY <1>5, GuardsStayGuards DEF Release
  <2>2. body[t] # <<>> /\ StepOut(t) /\ bypassed' = bypassed \ {x}
    BY <1>5, <2>1 DEF Release, ReleaseBypassed, ReleaseUnknown, ReleaseCounted, ReleaseWrongOwner,
                     ReleaseOwn, ReleaseNothing, ReleaseOrphan, Plain
  <2>3. PICK u \in Callers : In(body[u], k, {"bypass"})
    BY <2>2 DEF MarkIsIn
  <2>4. /\ \A w \in Callers \ {t} : body'[w] = body[w]
        /\ In(body[t], k, {"bypass"}) => In(body'[t], k, {"bypass"}) \/ x = k
    BY <2>1, <2>2, BodyLeft
  <2> QED
    BY <2>2, <2>3, <2>4
<1>6. ASSUME NEW t \in Callers, NEW x \in Keys,
             Rejected(t, x) \/ ForceRelease(t, x) \/ \E o \in Objs : BeginFast(t, x, o)
      PROVE  UNCHANGED body /\ k \in bypassed
  BY <1>6 DEF Rejected, ForceRelease, BeginFast, ResetCircuit, GiveUp
<1>7. ASSUME NEW t \in Callers,
             \/ FastRefused(t) \/ SlowTimeout(t) \/ SlowFail(t) \/ CancelAcquire(t) \/ EndTask(t)
             \/ \E o \in Objs : SlowRefused(t, o) \/ BeginSlow(t, o)
             \/ \E u \in Callers : Spawn(t, u)
             \/ \E s \in Batches : StartBatch(t, s)
      PROVE  UNCHANGED body /\ k \in bypassed
  BY <1>7 DEF FastRefused, SlowTimeout, SlowFail, CancelAcquire, EndTask, SlowRefused, BeginSlow, Spawn,
              StartBatch, GiveUp
<1>8. ASSUME (\E o \in Objs : GrowOld(o)) \/ CleanupIdle \/ Shutdown \/ UNCHANGED lockVars
      PROVE  UNCHANGED body /\ k \in bypassed
  BY <1>8 DEF GrowOld, CleanupIdle, Shutdown, lockVars
<1> QED
  BY <1>2, <1>3, <1>4, <1>5, <1>6, <1>7, <1>8 DEF LockNext, LockStep

\* The inductive invariant of the keyed locks. Once an object served two keys (Recycled)
\* nothing is claimed of owners: the pool gave the lock of one to the other.
KeyedInv ==
  /\ LockShape /\ RecordShape /\ RecordsCounted /\ PoolApart /\ SlowIsAdmitted /\ MarkIsIn
  /\ ~Recycled => AimsRight /\ OwnedByKeys /\ \A k \in Keys : KeySound(k)

\* It holds at the start,
LEMMA KeyedInvInit == LockInit => KeyedInv
<1> SUFFICES ASSUME LockInit PROVE KeyedInv
  OBVIOUS
<1>1. LockShape
  <2>1. \A t \in Owners : stacks[t] \in [Keys -> Seq(Objs)]
    BY DEF LockInit, Owners
  <2>2. stacks \in [Owners -> [Keys -> Seq(Objs)]]
    BY <2>1 DEF LockInit, Owners
  <2> QED
    BY <2>2 DEF LockInit, LockShape
<1>2. RecordShape /\ RecordsCounted
  BY DEF LockInit, RecordShape, RecordsCounted, RecordValues
<1>3. PoolApart /\ SlowIsAdmitted /\ MarkIsIn
  BY DEF LockInit, PoolApart, SlowIsAdmitted, MarkIsIn, Free
<1>4. AimsRight /\ OwnedByKeys
  BY DEF LockInit, AimsRight, OwnedByKeys, Free
<1>5. ASSUME NEW k \in Keys PROVE KeySound(k)
  <2>1. /\ locks[k] = Nobody /\ \A h \in Owners : stacks[h][k] = <<>>
        /\ \A t \in Callers : body[t] = <<>>
    BY DEF LockInit, Owners
  <2>2. Stacked(k) /\ Accounted(k)
    BY <2>1 DEF Stacked, Accounted
  <2>3. \A t \in Callers : ~In(body[t], k, Entered) /\ ~In(body[t], k, {"again"})
    BY <2>1, NobodyIsIn
  <2>4. Excluded(k)
    BY <2>3, NoneWithin DEF Excluded
  <2> QED
    BY <2>2, <2>4 DEF KeySound
<1> QED
  BY <1>1, <1>2, <1>3, <1>4, <1>5 DEF KeyedInv

\* every step keeps it,
LEMMA KeyedInvNext == KeyedInv /\ [LockNext]_lockVars => KeyedInv'
<1> SUFFICES ASSUME KeyedInv, [LockNext]_lockVars PROVE KeyedInv'
  OBVIOUS
<1>1. /\ LockShape /\ RecordShape /\ RecordsCounted /\ PoolApart /\ SlowIsAdmitted /\ MarkIsIn
      /\ ~Recycled => LockBase
  BY DEF KeyedInv, LockBase
<1>2. LockShape' /\ RecordShape' /\ RecordsCounted' /\ PoolApart' /\ SlowIsAdmitted' /\ MarkIsIn'
  BY <1>1, ShapeNext, RecordsNext, PoolApartNext, SlowIsAdmittedNext, MarkNext DEF RecordsKept
<1>3. ASSUME ~Recycled' PROVE AimsRight' /\ OwnedByKeys' /\ \A k \in Keys : KeySound(k)'
  <2>1. LockBase
    BY <1>1, <1>3, BlameStays DEF Recycled
  <2>2. AimsRight' /\ OwnedByKeys'
    BY <2>1, <1>3, AimsRightNext, OwnedByKeysNext DEF LockBase
  <2>3. \A k \in Keys : KeySound(k)'
    BY <2>1, KeySoundNext
  <2> QED
    BY <2>2, <2>3
<1> QED
  BY <1>2, <1>3 DEF KeyedInv

\* so it always holds.
LEMMA KeyedInvAlways == LockSpec => []KeyedInv
BY KeyedInvInit, KeyedInvNext, PTL DEF LockSpec

\* What the invariant says of losses.
LEMMA LossesExplained == KeyedInv => LossesAreBlamed
<1> SUFFICES ASSUME KeyedInv PROVE LossesAreBlamed
  OBVIOUS
<1>1. ExclusionLostOnlyBy
  <2> SUFFICES ASSUME NEW k \in Keys, NEW t \in Callers, NEW u \in Callers, t # u,
                      Within(t, k, {"lock", "again"}), Within(u, k, {"lock", "again"}),
                      ~Blamed(k, {"again", "inherit", "bypass"}), ~Recycled
               PROVE  FALSE
    BY DEF ExclusionLostOnlyBy
  <2>1. Excluded(k)
    BY DEF KeyedInv, KeySound, LossCauses
  <2>2. In(body[t], k, Entered) /\ In(body[u], k, Entered)
    BY WithinIsIn DEF Entered
  <2> QED
    BY <2>1, <2>2 DEF Excluded
<1>2. LockLeakedOnlyBy
  <2> SUFFICES ASSUME NEW o \in Objs, owner[o] # Nobody, ~Recycled,
                      \A k \in Keys : locks[k] = o => ~Blamed(k, LeakCauses)
               PROVE  InUse(o)
    BY DEF LockLeakedOnlyBy
  <2>1. PICK k \in Keys : locks[k] = o
    BY DEF KeyedInv, OwnedByKeys
  <2>2. Accounted(k) /\ Stacked(k)
    BY <2>1 DEF KeyedInv, KeySound
  <2>3. owner[o] \in Owners /\ o # Nobody
    BY DEF KeyedInv, LockShape
  <2>4. PICK t \in Callers : t = owner[o]
    BY <2>1, <2>2, <2>3 DEF Accounted
  <2>5. stacks[t][k] # <<>> /\ In(body[t], k, Entered) /\ t \in Owners
    BY <2>1, <2>2, <2>3, <2>4 DEF Accounted
  <2>6. stacks[t][k] = <<o>>
    BY <2>1, <2>2, <2>5 DEF Stacked
  <2>7. o \in ToSet(stacks[t][k])
    BY <2>6, OneEntry
  <2>8. Within(t, k, Ways)
    BY <2>5, WithinIsIn DEF In, Entered, Ways
  <2> QED
    BY <2>4, <2>7, <2>8 DEF InUse
<1>3. MarkHasItsGuard
  BY WithinIsIn DEF KeyedInv, MarkIsIn, MarkHasItsGuard
<1> QED
  BY <1>1, <1>2, <1>3 DEF LossesAreBlamed

\* A keyed lock lets two tasks in, stays taken by nobody or keeps a stale mark only after
\* one of the events LossesAreBlamed names: whatever the tasks, keys and objects, and however
\* acquisitions, re-entries, releases, cancellations, timeouts, cleanups and ends interleave.
THEOREM LocksLostOnlyByBlame == LockSpec => []LossesAreBlamed
BY KeyedInvAlways, LossesExplained, PTL

\* What it says of two tasks that wait for each other.
LEMMA CirclesExplained == KeyedInv => CirclesAreLetIn
<1> SUFFICES ASSUME KeyedInv, NEW t \in Callers, NEW u \in Callers,
                    Blocks(t, u), Blocks(u, t), LockLevel[step[t].key] > LockLevel[step[u].key],
                    ~Blamed(step[t].key, LeakCauses), ~Blamed(step[u].key, LeakCauses), ~Recycled
             PROVE  /\ <<step[t].key, step[u].key>> \in MayDescend
                    /\ \E k \in Held(t) : k # step[u].key /\ LockLevel[k] >= LockLevel[step[t].key]
  BY DEF CirclesAreLetIn
<1>1. /\ step[t].at = "slow" /\ owner[step[t].obj] = u
      /\ step[u].at = "slow" /\ owner[step[u].obj] = t
  BY DEF Blocks
<1>2. PICK high \in Keys, low \in Keys : high = step[t].key /\ low = step[u].key
  BY <1>1, WaitShape DEF KeyedInv
<1>3. /\ locks[high] = step[t].obj /\ locks[low] = step[u].obj
      /\ locks[high] # Nobody /\ locks[low] # Nobody
  BY <1>1, <1>2, WaitShape DEF KeyedInv, AimsRight
<1>4. Accounted(high) /\ Accounted(low)
  BY <1>2 DEF KeyedInv, KeySound
<1>5. high \in Held(u) /\ low \in Held(t)
  BY <1>1, <1>3, <1>4 DEF Accounted, Owners
<1>6. ~OrderFails(t, high) /\ ~OrderFails(u, low)
  BY <1>1, <1>2 DEF KeyedInv, SlowIsAdmitted, Refused
<1>7. /\ Held(t) \subseteq Keys /\ \A k \in Keys : LockLevel[k] \in Int
      /\ LockLevel[high] > LockLevel[low]
  BY <1>2, HeldInKeys DEF KeyedInv
<1>8. <<high, low>> \in MayDescend
  BY <1>5, <1>6, <1>7 DEF OrderFails
<1>9. PICK k \in Held(t) : ~ (LockLevel[k] < LockLevel[high])
  BY <1>5, <1>6 DEF OrderFails
<1>10. LockLevel[k] >= LockLevel[high] /\ k # low
  BY <1>7, <1>9
<1> QED
  BY <1>2, <1>8, <1>9, <1>10

\* Of two tasks that wait for each other for keys of different levels, the one that asks for
\* the lower key was let ask by an allowed descent, and the other by a third key it holds, as
\* high as the one it asks for: the order check closes every other circle, for any number of
\* tasks, keys and levels, as long as no lock was lost.
THEOREM CirclesOnlyWhereLetIn == LockSpec => []CirclesAreLetIn
BY KeyedInvAlways, CirclesExplained, PTL
=============================================================================
