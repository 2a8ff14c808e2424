-------------------------- MODULE Countdown_proofs --------------------------
(***************************************************************************)
(* Proofs about the two countdowns.                                        *)
(*                                                                         *)
(* The queue of countdown messages, for any number of chats, messages and  *)
(* edits and any capacity: the worker takes every waiting message once, in *)
(* order, and completes none that was cancelled or superseded.             *)
(*                                                                         *)
(* The waiting countdown of a chat, for any number of guests, calls and    *)
(* tasks: as long as one call at a time cancels or starts, the task that   *)
(* runs is the one tracked, and nobody clears the state of another.        *)
(***************************************************************************)
EXTENDS CountdownQueue, SmartCountdown, FiniteSetTheorems, TLAPS

-----------------------------------------------------------------------------
(* The inductive invariant.                                                  *)

States == {"none", "queued", "counting", "completed", "dropped", "drained", "refused", "stopped"}

Messages == [at : States, key : MsgKeys \cup {NoMessage}, cancelled : BOOLEAN, left : Nat]

QueueTypes ==
  /\ queue \in Seq(MsgIds) /\ Len(queue) <= Capacity
  /\ tracked \in [MsgKeys -> MsgIds \cup {NoMessage}]
  /\ message \in [MsgIds -> Messages]
  /\ current \in MsgIds \cup {NoMessage} /\ running \in BOOLEAN
  /\ superseded \subseteq MsgIds

\* Messages come one after the other, each with its key.
InOrder ==
  \A i \in MsgIds :
    /\ message[i].at = "none" => \A j \in MsgIds : i <= j => message[j].at = "none"
    /\ message[i].at # "none" => message[i].key \in MsgKeys

\* The worker counts the message it has, and no other.
OneCounted == \A i \in MsgIds : message[i].at = "counting" <=> current = i

\* What was superseded was also cancelled, and nothing cancelled is counted.
NeverCounted ==
  \A i \in MsgIds :
    /\ i \in superseded => message[i].cancelled
    /\ message[i].cancelled => message[i].at \notin {"none", "counting", "completed"}

TrackedWait ==
  \A k \in MsgKeys :
    tracked[k] # NoMessage => message[tracked[k]].at = "queued" /\ message[tracked[k]].key = k

QueueHolds ==
  /\ \A n \in 1..Len(queue) : message[queue[n]].at = "queued"
  /\ \A i \in Waits : \E n \in 1..Len(queue) : queue[n] = i
  /\ \A a, b \in 1..Len(queue) : a < b => queue[a] < queue[b]

QueueIInv ==
  /\ QueueTypes /\ InOrder /\ OneCounted /\ NeverCounted /\ TrackedWait
  /\ QueueHolds /\ OneLivePerMessage

-----------------------------------------------------------------------------
(* Lemmas about the operators.                                               *)

\* Marking messages as cancelled changes nothing else of them.
LEMMA MarkEffect ==
  ASSUME NEW S, message \in [MsgIds -> Messages]
  PROVE  /\ Mark(S) \in [MsgIds -> Messages]
         /\ \A i \in MsgIds :
              /\ Mark(S)[i].at = message[i].at /\ Mark(S)[i].key = message[i].key
              /\ Mark(S)[i].cancelled = (message[i].cancelled \/ i \in S)
BY DEF Mark, Messages

\* Settling one message changes only what became of it.
LEMMA SettleEffect ==
  ASSUME NEW i \in MsgIds, NEW how \in States, message \in [MsgIds -> Messages],
         Settle(i, how)
  PROVE  /\ message' \in [MsgIds -> Messages]
         /\ \A j \in MsgIds :
              /\ message'[j].at = (IF j = i THEN how ELSE message[j].at)
              /\ message'[j].key = message[j].key
              /\ message'[j].cancelled = message[j].cancelled
BY DEF Settle, Messages

\* The queue starts empty, and so does everything else.
LEMMA InitQueueIInv == QueueInit => QueueIInv
<1> SUFFICES ASSUME QueueInit PROVE QueueIInv
  OBVIOUS
<1> USE QueueAssumption DEF QueueInit, MsgIds
<1>1. QueueTypes
  <2>1. message \in [MsgIds -> Messages]
    BY DEF Messages, States
  <2>2. queue \in Seq(MsgIds) /\ Len(queue) <= Capacity
    OBVIOUS
  <2>3. tracked \in [MsgKeys -> MsgIds \cup {NoMessage}]
    OBVIOUS
  <2> QED
    BY <2>1, <2>2, <2>3 DEF QueueTypes
<1>2. InOrder /\ OneCounted /\ NeverCounted /\ TrackedWait
  BY DEF InOrder, OneCounted, NeverCounted, TrackedWait
<1>3. QueueHolds /\ OneLivePerMessage
  BY DEF QueueHolds, OneLivePerMessage, Live, Waits
<1> QED
  BY <1>1, <1>2, <1>3 DEF QueueIInv

-----------------------------------------------------------------------------
(* The steps.                                                                *)

\* A step that only cancels keeps the invariant: cancelled are messages that are
\* tracked, so that they wait, and tracking may be dropped for what is cancelled.
LEMMA CancelStep ==
  ASSUME QueueIInv, NEW K \in SUBSET MsgKeys, NEW S,
         S \cap MsgIds = {tracked[k] : k \in K} \ {NoMessage},
         message' = Mark(S),
         \A k \in MsgKeys : tracked'[k] = tracked[k] \/ (k \in K /\ tracked'[k] = NoMessage),
         tracked' \in [MsgKeys -> MsgIds \cup {NoMessage}],
         UNCHANGED <<queue, current, running, superseded>>
  PROVE  QueueIInv'
<1> USE QueueAssumption DEF QueueIInv
<1>1. /\ message' \in [MsgIds -> Messages]
      /\ \A i \in MsgIds :
           /\ message'[i].at = message[i].at /\ message'[i].key = message[i].key
           /\ message'[i].cancelled = (message[i].cancelled \/ i \in S)
  BY MarkEffect DEF QueueTypes
<1>2. \A i \in MsgIds : i \in S => message[i].at = "queued"
  BY DEF TrackedWait
<1>3. QueueTypes'
  BY <1>1 DEF QueueTypes
<1>4. InOrder' /\ OneCounted'
  BY <1>1 DEF InOrder, OneCounted
<1>5. NeverCounted'
  BY <1>1, <1>2 DEF NeverCounted, QueueTypes
<1>6. TrackedWait'
  BY <1>1 DEF TrackedWait, QueueTypes
<1>7. QueueHolds'
  BY <1>1 DEF QueueHolds, QueueTypes, Waits
<1>8. OneLivePerMessage'
  <2> SUFFICES ASSUME NEW i \in MsgIds, i \in Live'
               PROVE  /\ tracked'[message'[i].key] = i
                      /\ \A j \in Waits' : message'[j].key = message'[i].key => j <= i
    BY DEF OneLivePerMessage, Live, Waits
  <2>1. i \in Live /\ i \notin S /\ Waits' = Waits
    <3>1. Waits' = Waits
      BY <1>1 DEF Waits
    <3>2. message[i].at = message'[i].at /\ (message'[i].cancelled = (message[i].cancelled \/ i \in S))
      BY <1>1
    <3>3. i \in Waits' /\ ~message'[i].cancelled
      BY DEF Live
    <3>4. ~message[i].cancelled /\ i \notin S
      BY <3>2, <3>3, Zenon
    <3> QED
      BY <3>1, <3>3, <3>4 DEF Live
  <2>2. tracked[message[i].key] = i /\ message[i].key \in MsgKeys
    BY <2>1 DEF OneLivePerMessage, InOrder, Live, Waits
  <2>3. tracked'[message[i].key] = i
    BY <2>1, <2>2
  <2> QED
    BY <1>1, <2>1, <2>3 DEF OneLivePerMessage, Waits
<1> QED
  BY <1>3, <1>4, <1>5, <1>6, <1>7, <1>8

\* cancel_countdown, the cancellation of a chat and _remove_anchor_updates.
LEMMA CancelSteps ==
  ASSUME QueueIInv,
         \/ \E k \in MsgKeys : CancelMessage(k) \/ RemoveAnchor(k)
         \/ \E chat \in Chats : CancelChat(chat)
  PROVE  QueueIInv'
<1> USE QueueAssumption
<1>0. tracked \in [MsgKeys -> MsgIds \cup {NoMessage}]
  BY DEF QueueIInv, QueueTypes
<1>1. ASSUME NEW k \in MsgKeys, CancelMessage(k) \/ RemoveAnchor(k)
      PROVE  QueueIInv'
  <2>1. /\ {tracked[k]} \cap MsgIds = {tracked[q] : q \in {k}} \ {NoMessage}
        /\ message' = Mark({tracked[k]})
        /\ \A q \in MsgKeys : tracked'[q] = tracked[q] \/ (q \in {k} /\ tracked'[q] = NoMessage)
        /\ tracked' \in [MsgKeys -> MsgIds \cup {NoMessage}]
        /\ UNCHANGED <<queue, current, running, superseded>>
    <3>1. tracked[k] \in MsgIds \cup {NoMessage} /\ NoMessage \notin MsgIds
      BY <1>0 DEF MsgIds
    <3> QED
      BY <1>0, <1>1, <3>1 DEF CancelMessage, RemoveAnchor
  <2> QED
    BY <2>1, CancelStep
<1>2. ASSUME NEW chat \in Chats, CancelChat(chat)
      PROVE  QueueIInv'
  <2> DEFINE K == {chat} \X Anchors
  <2>1. /\ {tracked[k] : k \in K} \cap MsgIds = {tracked[q] : q \in K} \ {NoMessage}
        /\ K \in SUBSET MsgKeys
        /\ message' = Mark({tracked[k] : k \in K})
        /\ \A q \in MsgKeys : tracked'[q] = tracked[q]
        /\ tracked' \in [MsgKeys -> MsgIds \cup {NoMessage}]
        /\ UNCHANGED <<queue, current, running, superseded>>
    BY <1>0, <1>2 DEF CancelChat, MsgIds, MsgKeys
  <2> HIDE DEF K
  <2>2. \A q \in MsgKeys : tracked'[q] = tracked[q] \/ (q \in K /\ tracked'[q] = NoMessage)
    BY <2>1
  <2> QED
    BY <2>1, <2>2, CancelStep, Zenon
<1> QED
  BY <1>1, <1>2

\* A message that is put into the queue supersedes the one that is tracked under its
\* key, and is the last of the queue.
LEMMA EnqueueStep ==
  ASSUME QueueIInv, NEW i \in MsgIds, NEW k \in MsgKeys, NEW ticks \in 0..Ticks,
         Enqueue(i, k, ticks)
  PROVE  QueueIInv'
<1> USE QueueAssumption DEF QueueIInv
<1> DEFINE S == {tracked[k]}
<1>1. /\ Mark(S) \in [MsgIds -> Messages]
      /\ \A j \in MsgIds :
           /\ Mark(S)[j].at = message[j].at /\ Mark(S)[j].key = message[j].key
           /\ Mark(S)[j].cancelled = (message[j].cancelled \/ j \in S)
  BY MarkEffect DEF QueueTypes
<1>2. /\ message[i].at = "none" /\ \A j \in 1..(i-1) : message[j].at # "none"
      /\ Len(queue) < Capacity /\ queue' = Append(queue, i)
      /\ tracked' = [tracked EXCEPT ![k] = i]
      /\ superseded' = superseded \cup (S \ {NoMessage})
      /\ UNCHANGED <<current, running>>
  BY DEF Enqueue
<1>3. message' = [Mark(S) EXCEPT
                    ![i] = [at |-> "queued", key |-> k, cancelled |-> FALSE, left |-> ticks]]
  BY DEF Enqueue
<1> HIDE DEF S
<1>4. /\ message' \in [MsgIds -> Messages]
      /\ message'[i].at = "queued" /\ message'[i].key = k /\ ~message'[i].cancelled
      /\ \A j \in MsgIds \ {i} :
           /\ message'[j].at = message[j].at /\ message'[j].key = message[j].key
           /\ message'[j].cancelled = (message[j].cancelled \/ j \in S)
  BY <1>1, <1>3 DEF Messages, States
<1>5. /\ \A j \in MsgIds : j \in S => message[j].at = "queued" /\ message[j].key = k
      /\ tracked[k] # i /\ i \notin S /\ current # i
  <2>1. \A j \in MsgIds : j \in S => message[j].at = "queued" /\ message[j].key = k
    BY DEF S, TrackedWait, MsgIds
  <2>2. i \notin S /\ current # i
    BY <1>2, <2>1 DEF OneCounted
  <2> QED
    BY <2>1, <2>2 DEF S
<1>6. \A j \in MsgIds : i <= j => message[j].at = "none"
  BY <1>2 DEF InOrder
<1>7. QueueTypes'
  BY <1>2, <1>4 DEF QueueTypes, S
<1>8. InOrder'
  <2>1. \A j \in MsgIds : message'[j].at # "none" => message'[j].key \in MsgKeys
    BY <1>4 DEF InOrder
  <2>2. \A j \in MsgIds : message'[j].at = "none" => j # i /\ message[j].at = "none"
    BY <1>4
  <2>3. \A j, l \in MsgIds : message'[j].at = "none" /\ j <= l => message[l].at = "none" /\ l # i
    <3> SUFFICES ASSUME NEW j \in MsgIds, NEW l \in MsgIds, message'[j].at = "none", j <= l
                 PROVE  message[l].at = "none" /\ l # i
      OBVIOUS
    <3>1. j # i /\ message[j].at = "none" /\ message[l].at = "none"
      BY <2>2 DEF InOrder
    <3>2. ~(j \in 1..(i-1))
      BY <1>2, <3>1
    <3> QED
      BY <3>1, <3>2 DEF MsgIds
  <2>4. \A j, l \in MsgIds : message'[j].at = "none" /\ j <= l => message'[l].at = "none"
    BY <1>4, <2>3
  <2> QED
    BY <2>1, <2>4 DEF InOrder
<1>9. OneCounted'
  BY <1>2, <1>4, <1>5 DEF OneCounted
<1>10. NeverCounted'
  BY <1>2, <1>4, <1>5 DEF NeverCounted, QueueTypes
<1>11. TrackedWait'
  <2> SUFFICES ASSUME NEW q \in MsgKeys, tracked'[q] # NoMessage
               PROVE  message'[tracked'[q]].at = "queued" /\ message'[tracked'[q]].key = q
    BY DEF TrackedWait
  <2>1. CASE q = k
    BY <1>2, <1>4, <2>1 DEF QueueTypes
  <2>2. CASE q # k
    <3>1. tracked'[q] = tracked[q] /\ tracked[q] \in MsgIds
      BY <1>2, <2>2 DEF QueueTypes
    <3>2. message[tracked[q]].at = "queued" /\ message[tracked[q]].key = q
      BY <3>1 DEF TrackedWait
    <3>3. tracked[q] # i
      BY <1>2, <3>2
    <3> QED
      BY <1>4, <3>1, <3>2, <3>3
  <2> QED
    BY <2>1, <2>2
<1>12. Waits' = Waits \cup {i} /\ i \notin Waits
  BY <1>2, <1>4 DEF Waits
<1>13. /\ Len(queue') = Len(queue) + 1 /\ queue'[Len(queue) + 1] = i
       /\ \A n \in 1..Len(queue) : queue'[n] = queue[n] /\ queue[n] \in MsgIds
  BY <1>2 DEF QueueTypes
<1>14. QueueHolds'
  <2>1. \A n \in 1..Len(queue') : message'[queue'[n]].at = "queued"
    BY <1>4, <1>5, <1>13 DEF QueueHolds, QueueTypes
  <2>2. \A j \in Waits' : \E n \in 1..Len(queue') : queue'[n] = j
    BY <1>12, <1>13 DEF QueueHolds, QueueTypes
  <2>3. \A n \in 1..Len(queue) : queue[n] < i
    BY <1>6, <1>13 DEF QueueHolds, MsgIds
  <2>4. \A a, b \in 1..Len(queue') : a < b => queue'[a] < queue'[b]
    <3> SUFFICES ASSUME NEW a \in 1..Len(queue'), NEW b \in 1..Len(queue'), a < b
                 PROVE  queue'[a] < queue'[b]
      OBVIOUS
    <3>1. Len(queue) \in Nat /\ a \in 1..Len(queue)
      BY <1>13 DEF QueueTypes
    <3>2. CASE b \in 1..Len(queue)
      BY <1>13, <3>1, <3>2 DEF QueueHolds
    <3>3. CASE b = Len(queue) + 1
      BY <1>13, <2>3, <3>1, <3>3
    <3> QED
      BY <1>13, <3>1, <3>2, <3>3
  <2> QED
    BY <2>1, <2>2, <2>4 DEF QueueHolds
<1>15. OneLivePerMessage'
  <2> SUFFICES ASSUME NEW l \in MsgIds, l \in Live'
               PROVE  /\ tracked'[message'[l].key] = l
                      /\ \A j \in Waits' : message'[j].key = message'[l].key => j <= l
    BY DEF OneLivePerMessage, Live, Waits
  <2>1. CASE l = i
    <3>1. tracked'[message'[l].key] = l
      BY <1>2, <1>4, <2>1 DEF QueueTypes
    <3>2. \A j \in Waits \cup {i} : j <= i
      BY <1>6 DEF Waits, MsgIds
    <3>3. \A j \in Waits' : j <= l
      BY <1>12, <2>1, <3>2
    <3> QED
      BY <3>1, <3>3
  <2>2. CASE l # i
    <3>1. l \in Live /\ l \notin S /\ message'[l].key = message[l].key
      BY <1>4, <2>2 DEF Live, Waits
    <3>2. message[l].key # k /\ message[l].key \in MsgKeys
      BY <3>1 DEF S, OneLivePerMessage, InOrder, Live, Waits
    <3> QED
      BY <1>2, <1>4, <1>12, <3>1, <3>2 DEF OneLivePerMessage, Waits, QueueTypes
  <2> QED
    BY <2>1, <2>2
<1> QED
  BY <1>7, <1>8, <1>9, <1>10, <1>11, <1>14, <1>15

\* clear_all leaves nothing that waits.
LEMMA ClearStep ==
  ASSUME QueueIInv, ClearAll
  PROVE  QueueIInv'
<1> USE QueueAssumption DEF QueueIInv
<1>1. /\ message' \in [MsgIds -> Messages]
      /\ \A i \in MsgIds :
           /\ message'[i].at = (IF i \in Waits THEN "drained" ELSE message[i].at)
           /\ message'[i].key = message[i].key
           /\ message'[i].cancelled = (message[i].cancelled \/ i \in Waits)
  BY DEF ClearAll, QueueTypes, Messages, States
<1>2. /\ tracked' = [k \in MsgKeys |-> NoMessage] /\ queue' = <<>>
      /\ UNCHANGED <<current, running, superseded>>
  BY DEF ClearAll
<1>3. Waits' = {}
  BY <1>1 DEF Waits
<1>4. QueueTypes'
  BY <1>1, <1>2 DEF QueueTypes
<1>5. InOrder' /\ OneCounted' /\ NeverCounted'
  BY <1>1, <1>2 DEF InOrder, OneCounted, NeverCounted, QueueTypes, Waits
<1>6. TrackedWait' /\ QueueHolds' /\ OneLivePerMessage'
  BY <1>2, <1>3 DEF TrackedWait, QueueHolds, OneLivePerMessage, Live
<1> QED
  BY <1>4, <1>5, <1>6

\* A step of the worker that settles the message it has: whatever else is cancelled
\* with it is tracked, and waits.
LEMMA SettleStep ==
  ASSUME QueueIInv, current # NoMessage,
         NEW how \in {"completed", "refused", "stopped"}, Settle(current, how),
         current' = NoMessage, running' \in BOOLEAN,
         UNCHANGED <<queue, tracked, superseded>>
  PROVE  QueueIInv'
<1> USE QueueAssumption DEF QueueIInv
<1>1. current \in MsgIds /\ message[current].at = "counting" /\ NoMessage \notin MsgIds
  BY DEF QueueTypes, OneCounted, MsgIds
<1>2. /\ message' \in [MsgIds -> Messages]
      /\ \A j \in MsgIds :
           /\ message'[j].at = (IF j = current THEN how ELSE message[j].at)
           /\ message'[j].key = message[j].key
           /\ message'[j].cancelled = message[j].cancelled
  BY <1>1, SettleEffect DEF QueueTypes, States
<1>3. QueueTypes'
  BY <1>2 DEF QueueTypes
<1>4. InOrder' /\ OneCounted' /\ NeverCounted'
  BY <1>1, <1>2 DEF InOrder, OneCounted, NeverCounted
<1>5. TrackedWait'
  BY <1>1, <1>2 DEF TrackedWait, QueueTypes
<1>6. Waits' = Waits /\ Live' = Live
  BY <1>1, <1>2 DEF Waits, Live
<1>7. QueueHolds'
  BY <1>1, <1>2, <1>6 DEF QueueHolds, QueueTypes
<1>8. OneLivePerMessage'
  BY <1>2, <1>6 DEF OneLivePerMessage, Live, Waits
<1> QED
  BY <1>3, <1>4, <1>5, <1>7, <1>8

\* The worker takes the first message, counts it unless it was cancelled, and the
\* message is no longer tracked.
LEMMA DequeueStep ==
  ASSUME QueueIInv, Dequeued
  PROVE  QueueIInv'
<1> USE QueueAssumption DEF QueueIInv
<1> DEFINE i == Head(queue)
<1>1. /\ current = NoMessage /\ queue # <<>> /\ queue' = Tail(queue)
      /\ tracked' = [tracked EXCEPT ![message[i].key] = IF @ = i THEN NoMessage ELSE @]
      /\ UNCHANGED <<running, superseded>>
  BY DEF Dequeued
<1>2. /\ i \in MsgIds /\ i = queue[1] /\ Len(queue) > 0
      /\ Tail(queue) \in Seq(MsgIds) /\ Len(Tail(queue)) = Len(queue) - 1
      /\ \A n \in 1..(Len(queue) - 1) : Tail(queue)[n] = queue[n+1]
      /\ \A n \in 1..Len(queue) : queue[n] \in MsgIds
  BY <1>1 DEF QueueTypes
<1>3. PICK how \in {"dropped", "counting"} :
        /\ Settle(i, how)
        /\ how = "counting" => ~message[i].cancelled /\ current' = i
        /\ how = "dropped" => message[i].cancelled /\ current' = NoMessage
  BY <1>1 DEF Dequeued
<1> HIDE DEF i
<1>4. message[i].at = "queued" /\ message[i].key \in MsgKeys /\ NoMessage \notin MsgIds
  BY <1>2 DEF QueueHolds, InOrder, MsgIds
<1>5. /\ message' \in [MsgIds -> Messages]
      /\ \A j \in MsgIds :
           /\ message'[j].at = (IF j = i THEN how ELSE message[j].at)
           /\ message'[j].key = message[j].key
           /\ message'[j].cancelled = message[j].cancelled
  BY <1>2, <1>3, SettleEffect DEF QueueTypes, States
<1>6. /\ tracked' \in [MsgKeys -> MsgIds \cup {NoMessage}]
      /\ \A k \in MsgKeys : tracked[k] # i => tracked'[k] = tracked[k]
      /\ \A k \in MsgKeys : tracked'[k] # i
  <2>1. \A k \in MsgKeys : tracked[k] = i => message[i].key = k
    BY <1>2, <1>4 DEF TrackedWait
  <2> QED
    BY <1>1, <1>2, <1>4, <2>1 DEF QueueTypes
<1>7. QueueTypes'
  BY <1>1, <1>2, <1>3, <1>5, <1>6 DEF QueueTypes
<1>8. InOrder' /\ NeverCounted'
  BY <1>1, <1>3, <1>4, <1>5 DEF InOrder, NeverCounted
<1>9. OneCounted'
  BY <1>1, <1>2, <1>3, <1>4, <1>5 DEF OneCounted
<1>10. TrackedWait'
  <2> SUFFICES ASSUME NEW k \in MsgKeys, tracked'[k] # NoMessage
               PROVE  message'[tracked'[k]].at = "queued" /\ message'[tracked'[k]].key = k
    BY DEF TrackedWait
  <2>1. tracked'[k] = tracked[k] /\ tracked[k] # i /\ tracked[k] \in MsgIds
    BY <1>1, <1>4, <1>6 DEF QueueTypes
  <2> QED
    BY <1>5, <2>1 DEF TrackedWait
<1>11. Waits' = Waits \ {i} /\ Live' = Live \ {i}
  BY <1>4, <1>5 DEF Waits, Live
<1>12. QueueHolds'
  <2>1. \A n \in 1..Len(queue') : queue'[n] = queue[n+1] /\ n+1 \in 1..Len(queue)
    BY <1>1, <1>2
  <2>2. \A n \in 2..Len(queue) : queue[n] # i /\ queue'[n-1] = queue[n]
    BY <1>1, <1>2 DEF QueueHolds, MsgIds
  <2>3. \A n \in 1..Len(queue') : message'[queue'[n]].at = "queued"
    BY <1>1, <1>2, <1>5, <2>1, <2>2 DEF QueueHolds
  <2>4. \A j \in Waits' : \E n \in 1..Len(queue') : queue'[n] = j
    <3> SUFFICES ASSUME NEW j \in Waits, j # i
                 PROVE  \E n \in 1..Len(queue') : queue'[n] = j
      BY <1>11
    <3>1. PICK n \in 1..Len(queue) : queue[n] = j
      BY DEF QueueHolds
    <3>2. n # 1
      BY <1>2, <3>1
    <3>3. n-1 \in 1..Len(queue') /\ queue'[n-1] = j
      BY <1>1, <1>2, <2>2, <3>1, <3>2
    <3> QED
      BY <3>3
  <2>5. \A a, b \in 1..Len(queue') : a < b => queue'[a] < queue'[b]
    BY <2>1 DEF QueueHolds
  <2> QED
    BY <2>3, <2>4, <2>5 DEF QueueHolds
<1>13. OneLivePerMessage'
  <2> SUFFICES ASSUME NEW l \in Live, l # i
               PROVE  /\ tracked'[message'[l].key] = l
                      /\ \A j \in Waits' : message'[j].key = message'[l].key => j <= l
    BY <1>11 DEF OneLivePerMessage
  <2>1. l \in MsgIds /\ tracked[message[l].key] = l /\ message[l].key \in MsgKeys
    BY DEF OneLivePerMessage, InOrder, Live, Waits
  <2> QED
    BY <1>5, <1>6, <1>11, <2>1 DEF OneLivePerMessage, Waits
<1> QED
  BY <1>7, <1>8, <1>9, <1>10, <1>12, <1>13

\* The message the worker counts is gone from the chat, and with it the one that waits
\* under its key.
LEMMA GoneStep ==
  ASSUME QueueIInv, EditRefused(TRUE)
  PROVE  QueueIInv'
<1> USE QueueAssumption DEF QueueIInv
<1> DEFINE k == message[current].key
           S == {tracked[k]}
<1>1. current \in MsgIds /\ message[current].at = "counting" /\ NoMessage \notin MsgIds
      /\ k \in MsgKeys
  BY DEF EditRefused, QueueTypes, OneCounted, InOrder, MsgIds
<1>2. /\ message' = [Mark(S) EXCEPT ![current].at = "refused"]
      /\ tracked' = [tracked EXCEPT ![k] = NoMessage] /\ current' = NoMessage
      /\ UNCHANGED <<queue, running, superseded>>
  BY DEF EditRefused
<1>3. /\ Mark(S) \in [MsgIds -> Messages]
      /\ \A j \in MsgIds :
           /\ Mark(S)[j].at = message[j].at /\ Mark(S)[j].key = message[j].key
           /\ Mark(S)[j].cancelled = (message[j].cancelled \/ j \in S)
  BY MarkEffect DEF QueueTypes
<1>4. /\ \A j \in MsgIds : j \in S => message[j].at = "queued"
      /\ \A q \in MsgKeys : q # k => tracked'[q] = tracked[q]
      /\ tracked'[k] = NoMessage /\ tracked' \in [MsgKeys -> MsgIds \cup {NoMessage}]
  BY <1>1, <1>2 DEF TrackedWait, QueueTypes
<1>5. \A l \in Live : l \notin S => message[l].key # k /\ message[l].key \in MsgKeys
  BY DEF OneLivePerMessage, InOrder, Live, Waits
<1> HIDE DEF S, k
<1>6. /\ message' \in [MsgIds -> Messages]
      /\ \A j \in MsgIds :
           /\ message'[j].at = (IF j = current THEN "refused" ELSE message[j].at)
           /\ message'[j].key = message[j].key
           /\ message'[j].cancelled = (message[j].cancelled \/ j \in S)
  BY <1>1, <1>2, <1>3 DEF Messages, States
<1>7. QueueTypes'
  BY <1>2, <1>4, <1>6 DEF QueueTypes
<1>8. InOrder' /\ OneCounted'
  BY <1>1, <1>2, <1>6 DEF InOrder, OneCounted
<1>9. NeverCounted'
  BY <1>1, <1>2, <1>4, <1>6 DEF NeverCounted
<1>10. TrackedWait'
  <2> SUFFICES ASSUME NEW q \in MsgKeys, tracked'[q] # NoMessage
               PROVE  message'[tracked'[q]].at = "queued" /\ message'[tracked'[q]].key = q
    BY DEF TrackedWait
  <2>1. tracked'[q] = tracked[q] /\ tracked[q] \in MsgIds
    BY <1>4 DEF QueueTypes
  <2> QED
    BY <1>1, <1>4, <1>6, <2>1 DEF TrackedWait
<1>11. Waits' = Waits /\ Live' = Live \ S
  BY <1>1, <1>6 DEF Waits, Live
<1>12. QueueHolds'
  BY <1>1, <1>2, <1>6, <1>11 DEF QueueHolds, QueueTypes
<1>13. OneLivePerMessage'
  <2> SUFFICES ASSUME NEW l \in Live, l \notin S
               PROVE  /\ tracked'[message'[l].key] = l
                      /\ \A j \in Waits' : message'[j].key = message'[l].key => j <= l
    BY <1>11 DEF OneLivePerMessage
  <2>1. l \in MsgIds /\ message'[l].key = message[l].key
    BY <1>6 DEF Live, Waits
  <2> QED
    BY <1>4, <1>5, <1>6, <1>11, <2>1 DEF OneLivePerMessage, Waits
<1> QED
  BY <1>7, <1>8, <1>9, <1>10, <1>12, <1>13

\* One edit less.
LEMMA TickStep ==
  ASSUME QueueIInv, Tick
  PROVE  QueueIInv'
<1> USE QueueAssumption DEF QueueIInv
<1>1. current \in MsgIds /\ message[current] \in Messages /\ message \in [MsgIds -> Messages]
  BY DEF Tick, QueueTypes
<1>0. message[current].left - 1 \in Nat
  BY <1>1 DEF Tick, Messages
<1>2. /\ message' \in [MsgIds -> Messages]
      /\ \A j \in MsgIds :
           /\ message'[j].at = message[j].at /\ message'[j].key = message[j].key
           /\ message'[j].cancelled = message[j].cancelled
  <2> DEFINE less == [message[current] EXCEPT !.left = @ - 1]
  <2>1. message' = [message EXCEPT ![current] = less]
    BY DEF Tick
  <2>2. /\ less \in Messages
        /\ less.at = message[current].at /\ less.key = message[current].key
        /\ less.cancelled = message[current].cancelled
    BY <1>0, <1>1 DEF Messages
  <2> HIDE DEF less
  <2> QED
    BY <1>1, <2>1, <2>2
<1>3. UNCHANGED <<queue, tracked, current, running, superseded>>
  BY DEF Tick
<1>4. Waits' = Waits /\ Live' = Live
  BY <1>2 DEF Waits, Live
<1>5. QueueTypes' /\ InOrder' /\ OneCounted' /\ NeverCounted'
  BY <1>2, <1>3 DEF QueueTypes, InOrder, OneCounted, NeverCounted
<1>6. TrackedWait'
  BY <1>2, <1>3 DEF TrackedWait, QueueTypes
<1>8. QueueHolds'
  <2>1. \A n \in 1..Len(queue) : queue[n] \in MsgIds
    BY DEF QueueTypes
  <2> QED
    BY <1>2, <1>3, <1>4, <2>1 DEF QueueHolds
<1>7. OneLivePerMessage'
  BY <1>2, <1>3, <1>4 DEF OneLivePerMessage, Live, Waits
<1> QED
  BY <1>5, <1>6, <1>7, <1>8

\* Every step keeps the invariant.
LEMMA NextQueueIInv == QueueIInv /\ [QueueNext]_queueVars => QueueIInv'
<1> SUFFICES ASSUME QueueIInv, [QueueNext]_queueVars PROVE QueueIInv'
  OBVIOUS
<1>0. ASSUME running' \in BOOLEAN, UNCHANGED <<queue, tracked, message, current, superseded>>
      PROVE  QueueIInv'
  <2>1. QueueTypes' /\ InOrder' /\ OneCounted' /\ NeverCounted'
    BY <1>0 DEF QueueIInv, QueueTypes, InOrder, OneCounted, NeverCounted
  <2>2. TrackedWait' /\ QueueHolds' /\ OneLivePerMessage'
    BY <1>0 DEF QueueIInv, TrackedWait, QueueHolds, OneLivePerMessage, Live, Waits
  <2> QED
    BY <2>1, <2>2 DEF QueueIInv
<1>1. CASE StartWorker \/ UNCHANGED queueVars
  BY <1>0, <1>1 DEF StartWorker, queueVars, QueueIInv, QueueTypes
<1>2. CASE StopWorker
  <2>1. CASE current = NoMessage
    BY <1>0, <1>2, <2>1 DEF StopWorker
  <2>2. CASE current # NoMessage
    BY <1>2, <2>2, SettleStep DEF StopWorker
  <2> QED
    BY <2>1, <2>2
<1>3. CASE CountdownDone
  BY <1>3, SettleStep DEF CountdownDone, QueueIInv, QueueTypes
<1>4. CASE EditRefused(FALSE)
  BY <1>4, SettleStep DEF EditRefused, QueueIInv, QueueTypes
<1> QED
  BY <1>1, <1>2, <1>3, <1>4, EnqueueStep, CancelSteps, ClearStep, DequeueStep, TickStep,
     GoneStep DEF QueueNext

\* The queue, the tracking and the cancellations agree whatever is enqueued, cancelled,
\* cleared, stopped or refused meanwhile: the worker runs each waiting message at most
\* once, in order, of those with one key only the last, and none that was cancelled.
THEOREM QueueKeepsOrder == QueueSpec => []QueueInv
<1>1. QueueIInv => QueueInv
  <2> SUFFICES ASSUME QueueIInv PROVE QueueInv
    OBVIOUS
  <2> USE DEF QueueIInv
  <2>1. Range(queue) = Waits
    <3>1. queue \in Seq(MsgIds) /\ Range(queue) = {queue[n] : n \in 1..Len(queue)}
      BY DEF Range, QueueTypes
    <3> QED
      BY <3>1 DEF QueueHolds, Waits
  <2>2. QueueMatchesTracking
    BY <2>1, QueueAssumption DEF QueueMatchesTracking, QueueHolds, TrackedWait, QueueTypes, Waits
  <2>3. CancelledNeverCompletes
    BY DEF CancelledNeverCompletes, NeverCounted
  <2> QED
    BY <2>2, <2>3 DEF QueueInv
<1> QED
  BY <1>1, InitQueueIInv, NextQueueIInv, PTL DEF QueueSpec

-----------------------------------------------------------------------------
(* The countdown of a chat: the inductive invariant.                         *)

Running == [at : {"new", "editing", "asleep", "completing"}, left : Int, cancel : BOOLEAN]
Ended == [at : {"done"}, how : {"completed", "cancelled", "vanished"}]
CountdownTasks == [at : {"none"}] \cup Ended \cup Running

Ways == {"start", "return", "check", "begin"}

Awaiting == [at : {"awaiting"}, then : Ways, n : Nat, on : TaskIds]
Cancelling == [at : {"cancel"}, then : Ways, n : Nat]
Elsewhere == [at : {"idle", "refresh", "schedule", "check", "begin", "sending", "done"}]
Calls == Elsewhere \cup Cancelling \cup Awaiting

Counts == Nat \cup {NoCount}

CdShape ==
  /\ seated \subseteq Guests /\ ready \subseteq Guests
  /\ task \in [TaskIds -> CountdownTasks] /\ co \in [Coros -> Calls]
  /\ active \in TaskIds \cup {NoTimer}
  /\ shown \in Counts /\ pending \in Counts /\ worker \in Counts
  /\ overlap \in BOOLEAN /\ late \in BOOLEAN

\* A task that was told to end has somebody who waits for its end.
EndsAwaited ==
  \A t \in Undone \ Alive : \E c \in Coros : co[c].at = "awaiting" /\ co[c].on = t

\* One call at most cancels or starts, nothing is tracked meanwhile, and who sends
\* the first message has set the state up after the last task had ended.
OneBusy ==
  /\ \A c, d \in Busy : c = d
  /\ Busy # {} => active = NoTimer
  /\ \A c \in Coros : co[c].at = "sending" => Undone = {} /\ shown # NoCount

\* The task that runs is the one tracked, and it has its state.
OneRuns ==
  /\ Alive \subseteq {active}
  /\ Alive # {} => shown # NoCount

NothingLost ==
  revoked = {} /\ \A t \in TaskIds : task[t].at = "done" => task[t].how # "vanished"

\* All this holds until two calls are under way at once.
Alone == overlap = FALSE => OneBusy /\ OneRuns /\ NothingLost

QueuedOrLate == shown # NoCount /\ pending = NoCount => late = TRUE

CdIInv == CdShape /\ EndsAwaited /\ QueuedOrLate /\ Alone

-----------------------------------------------------------------------------
(* Lemmas about the operators.                                               *)

\* What becomes of the tasks when one of them changes.
LEMMA TaskTo ==
    ASSUME CdShape, NEW t \in TaskIds, NEW T \in CountdownTasks,
             task' = [task EXCEPT ![t] = T]
    PROVE  /\ task' \in [TaskIds -> CountdownTasks] /\ task'[t] = T
           /\ \A s \in TaskIds : s # t => task'[s] = task[s]
           /\ T \notin Running => Undone' = Undone \ {t} /\ Alive' = Alive \ {t}
           /\ T \in Running => Undone' = Undone \cup {t}
           /\ T \in Running /\ T.cancel = FALSE => Alive' = Alive \cup {t}
           /\ T \in Running /\ T.cancel = TRUE => Alive' = Alive \ {t}
<1>1. task' \in [TaskIds -> CountdownTasks] /\ task'[t] = T
  BY DEF CdShape
<1>2. \A s \in TaskIds : s # t => task'[s] = task[s]
  BY DEF CdShape
<1>3. T \notin Running => T.at \in {"none", "done"}
  BY DEF CountdownTasks, Ended
<1>4. T \in Running => T.at \notin {"none", "done"} /\ T.cancel \in BOOLEAN
  BY DEF Running
<1>5. \A s \in TaskIds : s # t => (s \in Undone' <=> s \in Undone)
        /\ (s \in Alive' <=> s \in Alive)
  BY <1>2 DEF Undone, Alive
<1>6. Undone' \subseteq TaskIds /\ Undone \subseteq TaskIds /\ Alive' \subseteq TaskIds
        /\ Alive \subseteq TaskIds
  BY DEF Undone, Alive
<1>7. T \notin Running => t \notin Undone' /\ t \notin Alive'
  BY <1>1, <1>3 DEF Undone, Alive
<1>8. T \in Running => t \in Undone' /\ (t \in Alive' <=> T.cancel = FALSE)
  BY <1>1, <1>4 DEF Undone, Alive
<1> QED
  BY <1>1, <1>2, <1>5, <1>6, <1>7, <1>8

\* A task that is under way is a running one, alive unless it was cancelled.
LEMMA UndoneRuns ==
    ASSUME CdShape, NEW t \in Undone
    PROVE  /\ t \in TaskIds /\ task[t] \in Running
           /\ task[t].at \in {"new", "editing", "asleep", "completing"}
           /\ task[t].left \in Int
           /\ task[t].cancel \in BOOLEAN /\ (t \in Alive <=> task[t].cancel = FALSE)
<1>1. t \in TaskIds /\ task[t] \in CountdownTasks /\ task[t].at \notin {"none", "done"}
  BY DEF Undone, CdShape
<1>2. task[t] \in Running
  BY <1>1 DEF CountdownTasks, Ended
<1> QED
  BY <1>1, <1>2 DEF Running, Alive

\* What becomes of the calls when one of them goes on.
LEMMA CoTo ==
    ASSUME CdShape, NEW c \in Coros, NEW p \in Calls, GoTo(c, p)
    PROVE  /\ co' \in [Coros -> Calls] /\ co'[c] = p
           /\ \A d \in Coros : d # c => co'[d] = co[d]
           /\ p.at \in {"awaiting", "sending"} => Busy' = Busy \cup {c}
           /\ p.at \notin {"awaiting", "sending"} => Busy' = Busy \ {c}
<1>1. co' \in [Coros -> Calls] /\ co'[c] = p
  BY DEF CdShape, GoTo
<1>2. \A d \in Coros : d # c => co'[d] = co[d]
  BY DEF CdShape, GoTo
<1> QED
  BY <1>1, <1>2 DEF Busy

\* The places a call may go to.
LEMMA Places ==
    /\ \A w \in {"idle", "refresh", "schedule", "check", "begin", "sending", "done"} :
         [at |-> w] \in Calls /\ [at |-> w].at = w
    /\ \A w \in Ways : \A k \in Nat :
         [at |-> "cancel", then |-> w, n |-> k] \in Calls
    /\ \A w \in Ways : \A k \in Nat : \A t \in TaskIds :
         LET p == [at |-> "awaiting", then |-> w, n |-> k, on |-> t]
         IN  p \in Calls /\ p.at = "awaiting" /\ p.on = t
    /\ \A x \in Calls : x.at = "cancel" => x.then \in Ways /\ x.n \in Nat
    /\ \A x \in Calls : x.at = "awaiting" => x.then \in Ways /\ x.n \in Nat
         /\ x.on \in TaskIds
<1>1. \A w \in {"idle", "refresh", "schedule", "check", "begin", "sending", "done"} :
        [at |-> w] \in Calls /\ [at |-> w].at = w
  BY DEF Calls, Elsewhere
<1>2. \A w \in Ways : \A k \in Nat : [at |-> "cancel", then |-> w, n |-> k] \in Calls
  BY DEF Calls, Cancelling
<1>3. \A w \in Ways : \A k \in Nat : \A t \in TaskIds :
        LET p == [at |-> "awaiting", then |-> w, n |-> k, on |-> t]
        IN  p \in Calls /\ p.at = "awaiting" /\ p.on = t
  BY DEF Calls, Awaiting
<1>4. \A x \in Calls : x.at = "cancel" => x.then \in Ways /\ x.n \in Nat
  BY DEF Calls, Elsewhere, Cancelling, Awaiting
<1>5. \A x \in Calls : x.at = "awaiting" => x.then \in Ways /\ x.n \in Nat
        /\ x.on \in TaskIds
  BY DEF Calls, Elsewhere, Cancelling, Awaiting
<1> QED
  BY <1>1, <1>2, <1>3, <1>4, <1>5

\* The number of ready players is a number.
LEMMA ReadyCountType == CdShape => ReadyCount \in Nat
<1> SUFFICES ASSUME CdShape PROVE ReadyCount \in Nat
  OBVIOUS
<1> DEFINE S == IF ready = {} THEN seated ELSE ready \cap seated
<1>1. S \subseteq Guests
  BY DEF CdShape
<1>2. IsFiniteSet(S)
  BY <1>1, CountdownAssumption, FS_Subset
<1>3. Cardinality(S) \in Nat
  BY <1>2, FS_CardinalityType
<1> QED
  BY <1>3 DEF ReadyCount

-----------------------------------------------------------------------------
(* The steps.                                                                *)

\* A step that neither cancels, starts nor ends a countdown: the table, and what the
\* display is to show, may change.
LEMMA StepElsewhere ==
    ASSUME CdIInv, seated' \subseteq Guests, ready' \subseteq Guests,
           co' \in [Coros -> Calls], Busy' = Busy, \A c \in Busy : co'[c] = co[c],
           shown' \in Counts, pending' \in Counts, worker' \in Counts,
           shown' = NoCount <=> shown = NoCount, pending' = NoCount <=> pending = NoCount,
           UNCHANGED <<active, task, tracks>>
    PROVE  CdIInv'
<1>1. CdShape'
  BY DEF CdIInv, CdShape, tracks
<1>2. Undone' = Undone /\ Alive' = Alive
  BY DEF Undone, Alive
<1>3. EndsAwaited'
  BY <1>2 DEF CdIInv, EndsAwaited, Busy
<1>4. QueuedOrLate'
  BY DEF CdIInv, QueuedOrLate, tracks
<1>5. Alone'
  <2> SUFFICES ASSUME overlap = FALSE PROVE (OneBusy /\ OneRuns /\ NothingLost)'
    BY DEF Alone, tracks
  <2>1. OneBusy /\ OneRuns /\ NothingLost
    BY DEF CdIInv, Alone
  <2>2. OneBusy'
    BY <1>2, <2>1 DEF OneBusy, Busy
  <2> QED
    BY <1>2, <2>1, <2>2 DEF OneRuns, NothingLost, tracks
<1> QED
  BY <1>1, <1>3, <1>4, <1>5 DEF CdIInv

\* A call that goes from a place where it is not busy to another.
LEMMA CallElsewhere ==
    ASSUME CdIInv, NEW c \in Coros, NEW p \in Calls, GoTo(c, p),
           co[c].at \notin {"awaiting", "sending"}, p.at \notin {"awaiting", "sending"}
    PROVE  co' \in [Coros -> Calls] /\ Busy' = Busy /\ \A d \in Busy : co'[d] = co[d]
BY CoTo DEF CdIInv, Busy

\* Joining, leaving, starting by hand and the hand itself.
LEMMA TableSteps ==
    ASSUME CdIInv, NEW c \in Coros,
           \/ \E u \in Guests : Join(c, u) \/ LeaveGame(c, u)
           \/ EmptyTable(c) \/ RefreshAfterLeave(c) \/ ManualStart(c) \/ CheckReady(c)
           \/ BeginHand(c) \/ Schedule(c)
    PROVE  CdIInv'
<1> DEFINE Steady == /\ co' \in [Coros -> Calls] /\ Busy' = Busy
      /\ \A d \in Busy : co'[d] = co[d]
<1>0. CdShape /\ ReadyCount \in Nat /\ ReadyCount \in Counts /\ ReadyCount # NoCount
  BY ReadyCountType, CountdownAssumption DEF CdIInv, Counts
<1>1. ASSUME NEW w \in {"idle", "refresh", "schedule", "check", "begin", "done"},
             co[c].at \notin {"awaiting", "sending"}, GoTo(c, [at |-> w])
      PROVE  Steady
  <2>1. [at |-> w] \in Calls /\ [at |-> w].at = w
    BY Places
  <2> QED
    BY <1>1, <2>1, CallElsewhere
<1>2. ASSUME NEW w \in Ways, NEW k \in Nat, co[c].at \notin {"awaiting", "sending"},
             GoTo(c, [at |-> "cancel", then |-> w, n |-> k])
      PROVE  Steady
  <2>1. [at |-> "cancel", then |-> w, n |-> k] \in Calls
    BY Places
  <2> QED
    BY <1>2, <2>1, CallElsewhere
<1>3. ASSUME NEW w \in Ways, co[c].at \notin {"awaiting", "sending"}, CancelAutoStart(c, w)
      PROVE  Steady
  BY <1>2, <1>3 DEF CancelAutoStart
<1>4. ASSUME co[c].at \notin {"awaiting", "sending"}, Return(c)
      PROVE  Steady
  BY <1>1, <1>4 DEF Return
<1> HIDE DEF Steady
<1>5. CASE \E u \in Guests : Join(c, u)
  <2>1. PICK u \in Guests : Join(c, u)
    BY <1>5
  <2>2. co[c].at = "idle" /\ (ScheduleAutoStart(c) \/ CancelAutoStart(c, "return"))
    BY <2>1 DEF Join, Arrives
  <2>3. Steady
    BY <2>2, <1>1, <1>3 DEF ScheduleAutoStart, Ways
  <2>4. seated' \subseteq Guests /\ ready' \subseteq Guests
    BY <2>1, <1>0 DEF Join, CdShape
  <2>5. UNCHANGED <<active, shown, pending, task, worker, tracks>>
    BY <2>1 DEF Join
  <2> QED
    BY <1>0, <2>3, <2>4, <2>5, StepElsewhere DEF CdShape, Steady
<1>6. CASE \E u \in Guests : LeaveGame(c, u)
  <2>1. PICK u \in Guests : LeaveGame(c, u)
    BY <1>6
  <2>2. Steady
    BY <2>1, <1>1 DEF LeaveGame, Arrives
  <2>3. seated' \subseteq Guests /\ ready' \subseteq Guests
    BY <2>1, <1>0 DEF LeaveGame, CdShape
  <2>4. UNCHANGED <<active, shown, pending, task, worker, tracks>>
    BY <2>1 DEF LeaveGame
  <2> QED
    BY <1>0, <2>2, <2>3, <2>4, StepElsewhere DEF CdShape, Steady
<1>7. CASE EmptyTable(c)
  <2>1. Steady
    BY <1>7, <1>4 DEF EmptyTable, Arrives
  <2>2. /\ seated' = {} /\ ready' = {}
        /\ UNCHANGED <<active, shown, pending, task, worker, tracks>>
    BY <1>7 DEF EmptyTable
  <2> QED
    BY <1>0, <2>1, <2>2, StepElsewhere DEF CdShape, Steady
<1>8. CASE RefreshAfterLeave(c)
  <2>1. Steady
    BY <1>8, <1>4 DEF RefreshAfterLeave
  <2>2. /\ shown' = shown \/ (shown # NoCount /\ shown' = ReadyCount)
        /\ UNCHANGED <<tableVars, active, pending, task, worker, tracks>>
    BY <1>8 DEF RefreshAfterLeave, RefreshDisplay
  <2> QED
    BY <1>0, <2>1, <2>2, StepElsewhere DEF CdShape, Steady, tableVars
<1>9. CASE ManualStart(c)
  <2>1. Steady
    BY <1>9, <1>3 DEF ManualStart, Arrives, Ways
  <2>2. UNCHANGED <<tableVars, active, shown, pending, task, worker, tracks>>
    BY <1>9 DEF ManualStart
  <2> QED
    BY <1>0, <2>1, <2>2, StepElsewhere DEF CdShape, Steady, tableVars
<1>10. CASE CheckReady(c)
  <2>1. co[c].at = "check" /\ (CancelAutoStart(c, "begin") \/ Return(c))
    BY <1>10 DEF CheckReady
  <2>2. Steady
    BY <2>1, <1>3, <1>4 DEF Ways
  <2>3. /\ ready' \subseteq ready
        /\ UNCHANGED <<seated, active, shown, pending, task, worker, tracks>>
    BY <1>10 DEF CheckReady
  <2> QED
    BY <1>0, <2>2, <2>3, StepElsewhere DEF CdShape, Steady
<1>11. CASE BeginHand(c)
  <2>1. Steady
    BY <1>11, <1>4 DEF BeginHand
  <2>2. UNCHANGED <<seated, ready, active, shown, pending, task, worker, tracks>>
    BY <1>11 DEF BeginHand
  <2> QED
    BY <1>0, <2>1, <2>2, StepElsewhere DEF CdShape, Steady
<1>12. CASE Schedule(c)
  <2>1. /\ co[c].at = "schedule"
        /\ \/ Return(c)
           \/ GoTo(c, [at |-> "cancel", then |-> "start", n |-> ReadyCount])
    BY <1>12 DEF Schedule
  <2>2. Steady
    BY <2>1, <1>0, <1>2, <1>4 DEF Ways
  <2>3. /\ shown' = shown \/ (shown # NoCount /\ shown' = ReadyCount)
        /\ UNCHANGED <<tableVars, active, pending, task, worker, tracks>>
    BY <1>12 DEF Schedule, RefreshDisplay
  <2> QED
    BY <1>0, <2>2, <2>3, StepElsewhere DEF CdShape, Steady, tableVars
<1> QED
  BY <1>5, <1>6, <1>7, <1>8, <1>9, <1>10, <1>11, <1>12

\* The hand ends, a player is counted in, and the batch worker.
LEMMA DisplaySteps ==
    ASSUME CdIInv, EndHand \/ PlayerJoined \/ WorkerTakes \/ WorkerStores
    PROVE  CdIInv'
<1>0. CdShape /\ UNCHANGED co => Busy' = Busy
  BY DEF Busy
<1>1. CASE EndHand
  BY <1>0, <1>1, StepElsewhere DEF EndHand, CdIInv, CdShape
<1>2. CASE PlayerJoined
  <2>1. shown \in Nat /\ shown + 1 \in Nat
    BY <1>2 DEF PlayerJoined, CdIInv, CdShape, Counts
  <2>2. shown' \in Nat /\ pending' \in Nat
    BY <1>2, <2>1 DEF PlayerJoined
  <2>3. /\ shown # NoCount /\ pending # NoCount /\ shown' # NoCount /\ pending' # NoCount
        /\ shown' \in Counts /\ pending' \in Counts
    BY <1>2, <2>2, CountdownAssumption DEF PlayerJoined, Counts
  <2> QED
    BY <1>0, <1>2, <2>3, StepElsewhere DEF PlayerJoined, CdIInv, CdShape, tableVars
<1>3. CASE WorkerTakes
  <2>1. pending # NoCount /\ pending' = 0 /\ worker' = pending
    BY <1>3 DEF WorkerTakes
  <2>2. 0 \in Counts /\ 0 # NoCount
    BY CountdownAssumption DEF Counts
  <2> QED
    BY <1>0, <1>3, <2>1, <2>2, StepElsewhere DEF WorkerTakes, CdIInv, CdShape, tableVars
<1>4. CASE WorkerStores
  <2>1. /\ shown' = worker /\ shown' # NoCount /\ late' = (late \/ shown = NoCount)
        /\ worker' = NoCount
        /\ UNCHANGED <<tableVars, active, pending, task, co, overlap, revoked>>
    BY <1>4 DEF WorkerStores
  <2>2. late' \in BOOLEAN /\ (late = TRUE => late' = TRUE) /\ (shown = NoCount
          => late' = TRUE)
    BY <2>1, Zenon DEF CdIInv, CdShape
  <2>3. CdShape'
    BY <2>1, <2>2 DEF CdIInv, CdShape, tableVars, Counts
  <2>4. Undone' = Undone /\ Alive' = Alive /\ Busy' = Busy
    BY <2>1 DEF Undone, Alive, Busy
  <2>5. EndsAwaited'
    BY <2>1, <2>4 DEF CdIInv, EndsAwaited
  <2>6. QueuedOrLate'
    BY <2>1, <2>2 DEF CdIInv, QueuedOrLate
  <2>7. Alone'
    BY <2>1, <2>4 DEF CdIInv, Alone, OneBusy, OneRuns, NothingLost
  <2> QED
    BY <2>3, <2>5, <2>6, <2>7 DEF CdIInv
<1> QED
  BY <1>1, <1>2, <1>3, <1>4

\* The dictionaries are cleared by a call that cancelled, when no task is left.
LEMMA ClearedStep ==
    ASSUME CdIInv, NEW c \in Coros, co[c].at \in {"cancel", "awaiting"}, Clear(c),
           active' \in TaskIds \cup {NoTimer}, overlap' \in BOOLEAN,
           \A t \in Undone \ Alive : \E d \in Coros \ {c} : co[d].at = "awaiting"
             /\ co[d].on = t,
           overlap' = FALSE =>
             /\ overlap = FALSE /\ Busy \ {c} = {} /\ Undone = {} /\ active' = NoTimer,
           UNCHANGED <<tableVars, task, worker, late>>
    PROVE  CdIInv'
<1> DEFINE then == co[c].then
           p == [at |-> IF then = "start" THEN "sending"
                        ELSE IF then = "return" THEN "done" ELSE then]
<1>1. then \in Ways /\ co[c].n \in Nat
  BY Places DEF CdIInv, CdShape
<1>2. p \in Calls /\ p.at \notin {"awaiting"} /\ (p.at = "sending" <=> then = "start")
  BY <1>1, Places DEF Ways
<1>3. GoTo(c, p)
  BY <1>1 DEF Clear, Ways
<1>4. /\ shown' = IF then = "start" THEN co[c].n ELSE NoCount
      /\ pending' = IF then = "start" THEN 0 ELSE NoCount
      /\ revoked' = revoked \cup Undone
  BY DEF Clear
<1> HIDE DEF then, p
<1>5. /\ co' \in [Coros -> Calls] /\ co'[c] = p
      /\ \A d \in Coros : d # c => co'[d] = co[d]
      /\ Busy' \subseteq Busy \cup {c}
  BY <1>2, <1>3, CoTo DEF CdIInv
<1>6. shown' \in Counts /\ pending' \in Counts /\ (shown' # NoCount => pending' # NoCount)
  BY <1>1, <1>4, CountdownAssumption DEF Counts, then
<1>7. CdShape'
  BY <1>5, <1>6 DEF CdIInv, CdShape, tableVars
<1>8. Undone' = Undone /\ Alive' = Alive
  BY DEF Undone, Alive
<1>9. EndsAwaited'
  BY <1>5, <1>8 DEF EndsAwaited
<1>10. QueuedOrLate'
  BY <1>6 DEF QueuedOrLate
<1>11. Alone'
  <2> SUFFICES ASSUME overlap' = FALSE PROVE (OneBusy /\ OneRuns /\ NothingLost)'
    BY DEF Alone
  <2>1. /\ Busy \ {c} = {} /\ Undone = {} /\ active' = NoTimer /\ NothingLost
    BY DEF CdIInv, Alone
  <2>2. Alive' = {} /\ Undone' = {} /\ Busy' \subseteq {c}
    BY <1>5, <1>8, <2>1 DEF Alive
  <2>3. p.at = "sending" => shown' # NoCount
    BY <1>1, <1>2, <1>4, CountdownAssumption
  <2>4. \A d \in Coros : co'[d].at = "sending" => d = c
    BY <2>2 DEF Busy
  <2>5. OneBusy'
    BY <1>5, <2>1, <2>2, <2>3, <2>4 DEF OneBusy
  <2>6. NothingLost'
    BY <1>4, <2>1 DEF NothingLost
  <2> QED
    BY <2>2, <2>5, <2>6 DEF OneRuns
<1> QED
  BY <1>7, <1>9, <1>10, <1>11 DEF CdIInv

\* Cancelling, and the message that starts a countdown.
LEMMA CancellingSteps ==
    ASSUME CdIInv, NEW c \in Coros,
           BeginCancel(c) \/ EndCancel(c) \/ SendFails(c)
             \/ \E t \in TaskIds : SpawnCountdown(c, t)
    PROVE  CdIInv'
<1> USE CountdownAssumption
<1>1. CASE BeginCancel(c)
  <2>1. /\ co[c].at = "cancel" /\ active' = NoTimer /\ overlap' = (overlap \/ Busy # {})
        /\ UNCHANGED <<tableVars, worker, late>>
    BY <1>1 DEF BeginCancel
  <2>2. /\ overlap' \in BOOLEAN
        /\ overlap' = FALSE => overlap = FALSE /\ Busy = {}
    BY <2>1, Zenon DEF CdIInv, CdShape
  <2>3. c \notin Busy
    BY <2>1 DEF Busy
  <2>4. CASE IsActive
    <3>1. /\ task' = [task EXCEPT ![active].cancel = TRUE]
          /\ GoTo(c, [at |-> "awaiting", then |-> co[c].then, n |-> co[c].n, on |-> active])
          /\ UNCHANGED <<shown, pending, revoked>>
      BY <1>1, <2>4 DEF BeginCancel
    <3>2. active \in Undone /\ active \in TaskIds /\ task[active] \in Running
      BY <2>4, UndoneRuns DEF IsActive, CdIInv
    <3> DEFINE T == [task[active] EXCEPT !.cancel = TRUE]
               p == [at |-> "awaiting", then |-> co[c].then, n |-> co[c].n, on |-> active]
    <3>3. T \in Running /\ T.cancel = TRUE /\ T.at = task[active].at
      BY <3>2 DEF Running
    <3>4. p \in Calls /\ p.at = "awaiting" /\ p.on = active
      BY <2>1, <3>2, Places DEF CdIInv, CdShape
    <3>5. task' = [task EXCEPT ![active] = T] /\ GoTo(c, p)
      BY <3>1
    <3> HIDE DEF T, p
    <3>6. /\ task' \in [TaskIds -> CountdownTasks] /\ task'[active] = T
          /\ \A s \in TaskIds : s # active => task'[s] = task[s]
          /\ Undone' = Undone \cup {active} /\ Alive' = Alive \ {active}
      BY <3>2, <3>3, <3>5, TaskTo DEF CdIInv, CountdownTasks
    <3>12. Undone' = Undone
      BY <3>2, <3>6
    <3>7. /\ co' \in [Coros -> Calls] /\ co'[c] = p
          /\ \A d \in Coros : d # c => co'[d] = co[d]
          /\ Busy' = Busy \cup {c}
      BY <3>4, <3>5, CoTo DEF CdIInv
    <3>8. CdShape'
      BY <2>1, <2>2, <3>1, <3>6, <3>7 DEF CdIInv, CdShape, tableVars
    <3>9. EndsAwaited'
      <4> SUFFICES ASSUME NEW t \in Undone' \ Alive'
                   PROVE  \E d \in Coros : co'[d].at = "awaiting" /\ co'[d].on = t
        BY DEF EndsAwaited
      <4> USE <3>12
      <4>1. CASE t = active
        BY <3>4, <3>7, <4>1
      <4>2. CASE t # active
        <5>1. t \in Undone \ Alive
          BY <3>6, <4>2
        <5>2. PICK d \in Coros : co[d].at = "awaiting" /\ co[d].on = t
          BY <5>1 DEF CdIInv, EndsAwaited
        <5> QED
          BY <2>1, <3>7, <5>2
      <4> QED
        BY <4>1, <4>2
    <3>10. QueuedOrLate'
      BY <2>1, <3>1 DEF CdIInv, QueuedOrLate
    <3>11. Alone'
      <4> SUFFICES ASSUME overlap' = FALSE PROVE (OneBusy /\ OneRuns /\ NothingLost)'
        BY DEF Alone
      <4>1. Busy = {} /\ OneBusy /\ OneRuns /\ NothingLost
        BY <2>2 DEF CdIInv, Alone
      <4>2. Alive' = {} /\ Busy' = {c}
        BY <3>6, <3>7, <4>1 DEF OneRuns
      <4>3. OneBusy'
        BY <2>1, <3>4, <3>7, <4>2 DEF OneBusy, Busy
      <4>4. NothingLost'
        <5>1. task'[active].at # "done"
          BY <3>3, <3>6 DEF Running
        <5> QED
          BY <3>1, <3>6, <4>1, <5>1 DEF NothingLost
      <4> QED
        BY <4>2, <4>3, <4>4 DEF OneRuns
    <3> QED
      BY <3>8, <3>9, <3>10, <3>11 DEF CdIInv
  <2>5. CASE ~IsActive
    <3>1. Clear(c) /\ UNCHANGED task
      BY <1>1, <2>5 DEF BeginCancel
    <3>2. \A t \in Undone \ Alive : \E d \in Coros \ {c} : co[d].at = "awaiting"
            /\ co[d].on = t
      BY <2>1 DEF CdIInv, EndsAwaited
    <3>3. ASSUME overlap' = FALSE PROVE Undone = {}
      <4>1. Busy = {} /\ Alive \subseteq {active}
        BY <2>2, <3>3 DEF CdIInv, Alone, OneRuns
      <4>2. Undone \ Alive = {}
        BY <4>1 DEF CdIInv, EndsAwaited, Busy
      <4>3. Alive = {}
        BY <2>5, <4>1 DEF IsActive, Alive, Undone, TaskIds
      <4> QED
        BY <4>2, <4>3
    <3> QED
      BY <2>1, <2>2, <3>1, <3>2, <3>3, ClearedStep
  <2> QED
    BY <2>4, <2>5
<1>2. CASE EndCancel(c)
  <2>1. /\ co[c].at = "awaiting" /\ co[c].on \notin Undone /\ Clear(c)
        /\ UNCHANGED <<tableVars, active, task, worker, overlap, late>>
    BY <1>2 DEF EndCancel
  <2>2. \A t \in Undone \ Alive : \E d \in Coros \ {c} : co[d].at = "awaiting"
          /\ co[d].on = t
    BY <2>1 DEF CdIInv, EndsAwaited
  <2>3. ASSUME overlap' = FALSE
        PROVE  overlap = FALSE /\ Busy \ {c} = {} /\ Undone = {} /\ active' = NoTimer
    <3>1. overlap = FALSE /\ OneBusy /\ OneRuns /\ c \in Busy
      BY <2>1, <2>3 DEF CdIInv, Alone, Busy
    <3>2. Busy \ {c} = {} /\ active = NoTimer
      BY <3>1 DEF OneBusy
    <3>3. Undone \ Alive = {}
      BY <2>2, <3>2 DEF Busy
    <3>4. Alive = {}
      BY <3>1, <3>2 DEF OneRuns, Alive, Undone, TaskIds
    <3> QED
      BY <2>1, <3>1, <3>2, <3>3, <3>4
  <2>4. active' \in TaskIds \cup {NoTimer} /\ overlap' \in BOOLEAN
    BY <2>1 DEF CdIInv, CdShape
  <2> QED
    BY <2>1, <2>2, <2>3, <2>4, ClearedStep
<1>3. CASE SendFails(c)
  <2>1. /\ co[c].at = "sending" /\ GoTo(c, [at |-> "done"])
        /\ UNCHANGED <<tableVars, active, shown, pending, task, worker, tracks>>
    BY <1>3 DEF SendFails, Return
  <2>2. [at |-> "done"] \in Calls /\ [at |-> "done"].at = "done"
    BY Places
  <2>3. /\ co' \in [Coros -> Calls] /\ co'[c].at = "done"
        /\ \A d \in Coros : d # c => co'[d] = co[d]
        /\ Busy' = Busy \ {c}
    BY <2>1, <2>2, CoTo DEF CdIInv
  <2>4. Undone' = Undone /\ Alive' = Alive
    BY <2>1 DEF Undone, Alive
  <2>5. CdShape'
    BY <2>1, <2>3 DEF CdIInv, CdShape, tableVars, tracks
  <2>6. EndsAwaited'
    BY <2>1, <2>3, <2>4 DEF CdIInv, EndsAwaited
  <2>7. QueuedOrLate'
    BY <2>1 DEF CdIInv, QueuedOrLate, tracks
  <2>8. Alone'
    BY <2>1, <2>3, <2>4 DEF CdIInv, Alone, OneBusy, OneRuns, NothingLost, tracks
  <2> QED
    BY <2>5, <2>6, <2>7, <2>8 DEF CdIInv
<1>4. CASE \E t \in TaskIds : SpawnCountdown(c, t)
  <2>0. PICK t \in TaskIds : SpawnCountdown(c, t)
    BY <1>4
  <2> DEFINE T == [at |-> "new", left |-> Laps, cancel |-> FALSE]
  <2>1. /\ co[c].at = "sending" /\ task[t].at = "none" /\ GoTo(c, [at |-> "done"])
        /\ task' = [task EXCEPT ![t] = T] /\ active' = t
        /\ UNCHANGED <<tableVars, shown, pending, worker, tracks>>
    BY <2>0 DEF SpawnCountdown, Return
  <2>2. [at |-> "done"] \in Calls /\ [at |-> "done"].at = "done"
    BY Places
  <2>3. /\ co' \in [Coros -> Calls] /\ co'[c].at = "done"
        /\ \A d \in Coros : d # c => co'[d] = co[d]
        /\ Busy' = Busy \ {c}
    BY <2>1, <2>2, CoTo DEF CdIInv
  <2>4. T \in Running /\ T.cancel = FALSE /\ T.at = "new"
    BY DEF Running
  <2> HIDE DEF T
  <2>5. /\ task' \in [TaskIds -> CountdownTasks] /\ task'[t] = T
        /\ \A s \in TaskIds : s # t => task'[s] = task[s]
        /\ Undone' = Undone \cup {t} /\ Alive' = Alive \cup {t}
    BY <2>1, <2>4, TaskTo DEF CdIInv, CountdownTasks
  <2>6. CdShape'
    BY <2>1, <2>3, <2>5 DEF CdIInv, CdShape, tableVars, tracks
  <2>7. EndsAwaited'
    BY <2>1, <2>3, <2>5 DEF CdIInv, EndsAwaited
  <2>8. QueuedOrLate'
    BY <2>1 DEF CdIInv, QueuedOrLate, tracks
  <2>9. Alone'
    <3> SUFFICES ASSUME overlap = FALSE PROVE (OneBusy /\ OneRuns /\ NothingLost)'
      BY <2>1 DEF Alone, tracks
    <3>1. OneBusy /\ OneRuns /\ NothingLost /\ c \in Busy
      BY <2>1 DEF CdIInv, Alone, Busy
    <3>2. Undone = {} /\ Alive = {} /\ shown # NoCount /\ Busy' = {}
      BY <2>1, <2>3, <3>1 DEF OneBusy, Alive
    <3>3. OneBusy'
      BY <3>2 DEF OneBusy, Busy
    <3>4. OneRuns'
      BY <2>1, <2>5, <3>2 DEF OneRuns
    <3>5. NothingLost'
      BY <2>1, <2>4, <2>5, <3>1 DEF NothingLost, tracks
    <3> QED
      BY <3>3, <3>4, <3>5
  <2> QED
    BY <2>6, <2>7, <2>8, <2>9 DEF CdIInv
<1> QED
  BY <1>1, <1>2, <1>3, <1>4

\* A task ends: it leaves no state and no queue behind.
LEMMA FinishStep ==
    ASSUME CdIInv, NEW t \in Undone, NEW how \in {"completed", "cancelled", "vanished"},
           Finish(t, how), UNCHANGED <<tableVars, co, worker, tracks>>,
           how = "vanished" => overlap = TRUE
    PROVE  CdIInv'
<1> DEFINE T == [at |-> "done", how |-> how]
<1>1. /\ task' = [task EXCEPT ![t] = T]
      /\ active' = IF active = t THEN NoTimer ELSE active
      /\ shown' = NoCount /\ pending' = NoCount
  BY DEF Finish
<1>2. T \in CountdownTasks /\ T \notin Running /\ T.at = "done" /\ T.how = how
  BY DEF CountdownTasks, Ended, Running
<1> HIDE DEF T
<1>3. /\ t \in TaskIds
      /\ task' \in [TaskIds -> CountdownTasks] /\ task'[t] = T
      /\ \A s \in TaskIds : s # t => task'[s] = task[s]
      /\ Undone' = Undone \ {t} /\ Alive' = Alive \ {t}
  BY <1>1, <1>2, TaskTo, UndoneRuns DEF CdIInv
<1>4. CdShape'
  BY <1>1, <1>3 DEF CdIInv, CdShape, tableVars, tracks, Counts
<1>5. EndsAwaited'
  BY <1>3 DEF CdIInv, EndsAwaited
<1>6. QueuedOrLate'
  BY <1>1 DEF QueuedOrLate
<1>7. Alone'
  <2> SUFFICES ASSUME overlap = FALSE PROVE (OneBusy /\ OneRuns /\ NothingLost)'
    BY DEF Alone, tracks
  <2>1. OneBusy /\ OneRuns /\ NothingLost /\ Busy' = Busy
    BY DEF CdIInv, Alone, Busy
  <2>2. Alive' = {}
    <3>1. CASE t \in Alive
      BY <1>3, <2>1, <3>1 DEF OneRuns
    <3>2. CASE t \notin Alive
      <4>1. Busy # {}
        BY <3>2 DEF CdIInv, EndsAwaited, Busy
      <4> QED
        BY <1>3, <2>1, <4>1, CountdownAssumption DEF OneBusy, OneRuns, Alive, Undone,
          TaskIds
    <3> QED
      BY <3>1, <3>2
  <2>3. OneBusy'
    BY <1>1, <1>3, <2>1 DEF OneBusy
  <2>4. NothingLost'
    BY <1>2, <1>3, <2>1 DEF NothingLost, tracks
  <2> QED
    BY <2>2, <2>3, <2>4 DEF OneRuns
<1> QED
  BY <1>4, <1>5, <1>6, <1>7 DEF CdIInv

\* A task that goes on keeps its place among those that are alive.
LEMMA GoesOn ==
    ASSUME CdIInv, NEW t \in Alive, NEW T \in Running, T.cancel = FALSE,
           task' = [task EXCEPT ![t] = T],
           shown' \in Counts, pending' \in Counts,
           shown' = NoCount <=> shown = NoCount, pending' = NoCount <=> pending = NoCount,
           UNCHANGED <<tableVars, active, co, worker, tracks>>
    PROVE  CdIInv'
<1>1. /\ t \in TaskIds /\ T.at # "done"
      /\ task' \in [TaskIds -> CountdownTasks] /\ task'[t] = T
      /\ \A s \in TaskIds : s # t => task'[s] = task[s]
      /\ Undone' = Undone /\ Alive' = Alive
  <2>1. t \in TaskIds /\ t \in Undone /\ T \in CountdownTasks /\ T.at # "done"
    BY DEF Alive, Undone, CountdownTasks, Running
  <2>2. /\ task' \in [TaskIds -> CountdownTasks] /\ task'[t] = T
        /\ \A s \in TaskIds : s # t => task'[s] = task[s]
        /\ Undone' = Undone \cup {t} /\ Alive' = Alive \cup {t}
    BY <2>1, TaskTo DEF CdIInv
  <2>3. Undone \cup {t} = Undone /\ Alive \cup {t} = Alive
    BY <2>1
  <2> QED
    BY <2>1, <2>2, <2>3
<1>2. CdShape'
  BY <1>1 DEF CdIInv, CdShape, tableVars, tracks
<1>3. EndsAwaited'
  BY <1>1 DEF CdIInv, EndsAwaited
<1>4. QueuedOrLate'
  BY DEF CdIInv, QueuedOrLate, tracks
<1>5. Alone'
  <2> SUFFICES ASSUME overlap = FALSE PROVE (OneBusy /\ OneRuns /\ NothingLost)'
    BY DEF Alone, tracks
  <2>1. OneBusy /\ OneRuns /\ NothingLost /\ Busy' = Busy
    BY DEF CdIInv, Alone, Busy
  <2> QED
    BY <1>1, <2>1 DEF OneBusy, OneRuns, NothingLost, tracks
<1> QED
  BY <1>2, <1>3, <1>4, <1>5 DEF CdIInv

\* The ticks of a task, its completion and its cancellation.
LEMMA TaskSteps ==
    ASSUME CdIInv, NEW t \in TaskIds,
           Milestone(t) \/ Edited(t) \/ Complete(t) \/ Cancelled(t)
    PROVE  CdIInv'
<1>0. Alive \subseteq Undone /\ overlap \in BOOLEAN
  BY DEF Alive, CdIInv, CdShape
<1>1. CASE Milestone(t)
  <2>1. t \in Alive /\ UNCHANGED <<tableVars, co, worker, tracks>>
    BY <1>1 DEF Milestone
  <2>2. CASE shown = NoCount
    <3>1. Finish(t, "vanished")
      BY <1>1, <2>2 DEF Milestone
    <3>2. overlap = TRUE
      BY <1>0, <2>1, <2>2 DEF CdIInv, Alone, OneRuns
    <3> QED
      BY <1>0, <2>1, <3>1, <3>2, FinishStep
  <2>3. CASE shown # NoCount
    <3> DEFINE T == [task[t] EXCEPT !.at = "editing"]
    <3>1. /\ shown' = Merged
          /\ pending' = IF pending = NoCount THEN NoCount ELSE 0
          /\ task' = [task EXCEPT ![t] = T] /\ active' = active
      BY <1>1, <2>3 DEF Milestone
    <3>2. /\ shown' \in Counts /\ shown' # NoCount /\ pending' \in Counts
          /\ pending' = NoCount <=> pending = NoCount
      BY <2>3, <3>1, CountdownAssumption DEF Merged, CdIInv, CdShape, Counts
    <3>3. T \in Running /\ T.cancel = FALSE
      <4>1. task[t] \in Running /\ task[t].cancel = FALSE
        BY <1>0, <2>1, UndoneRuns DEF CdIInv
      <4> QED
        BY <4>1 DEF Running
    <3> HIDE DEF T
    <3> QED
      BY <2>1, <2>3, <3>1, <3>2, <3>3, GoesOn
  <2> QED
    BY <2>2, <2>3
<1>2. CASE Edited(t)
  <2> DEFINE T == IF task[t].left = 0 THEN [task[t] EXCEPT !.at = "completing"]
                  ELSE [task[t] EXCEPT !.at = "asleep", !.left = @ - 1]
  <2>0. t \in Alive /\ task[t] \in Running /\ task[t].cancel = FALSE
          /\ task[t].left - 1 \in Int
    <3>1. t \in Alive
      BY <1>2 DEF Edited
    <3>2. task[t] \in Running /\ task[t].cancel = FALSE /\ task[t].left \in Int
      BY <1>0, <3>1, UndoneRuns DEF CdIInv
    <3> QED
      BY <3>1, <3>2
  <2>1. /\ task' = [task EXCEPT ![t] = T]
        /\ UNCHANGED <<tableVars, active, shown, pending, co, worker, tracks>>
    <3>1. CASE task[t].left = 0
      BY <1>2, <3>1 DEF Edited
    <3>2. CASE task[t].left # 0
      BY <1>2, <3>2 DEF Edited
    <3> QED
      BY <3>1, <3>2
  <2>2. T \in Running /\ T.cancel = FALSE
    <3>1. \A r \in Running : \A l \in Int :
            LET x == [r EXCEPT !.at = "completing"]
                y == [r EXCEPT !.at = "asleep", !.left = l]
            IN  x \in Running /\ x.cancel = r.cancel /\ y \in Running /\ y.cancel = r.cancel
      BY DEF Running
    <3> QED
      BY <2>0, <3>1
  <2> HIDE DEF T
  <2> QED
    BY <2>0, <2>1, <2>2, GoesOn DEF CdIInv, CdShape
<1>3. CASE Complete(t)
  BY <1>0, <1>3, FinishStep DEF Complete
<1>4. CASE Cancelled(t)
  <2>1. t \in Undone \ Alive /\ UNCHANGED <<tableVars, co, worker, tracks>>
    BY <1>4 DEF Cancelled
  <2>2. CASE task[t].at # "new"
    BY <1>4, <2>1, <2>2, FinishStep DEF Cancelled
  <2>3. CASE task[t].at = "new"
    <3> DEFINE T == [at |-> "done", how |-> "cancelled"]
    <3>1. task' = [task EXCEPT ![t] = T] /\ UNCHANGED <<active, shown, pending>>
      BY <1>4, <2>3 DEF Cancelled
    <3>2. T \in CountdownTasks /\ T \notin Running /\ T.how # "vanished"
      BY DEF CountdownTasks, Ended, Running
    <3> HIDE DEF T
    <3>3. /\ task' \in [TaskIds -> CountdownTasks] /\ task'[t] = T
          /\ \A s \in TaskIds : s # t => task'[s] = task[s]
          /\ Undone' = Undone \ {t} /\ Alive' = Alive \ {t}
      BY <2>1, <3>1, <3>2, TaskTo DEF CdIInv
    <3>8. Alive' = Alive
      BY <2>1, <3>3
    <3>4. CdShape'
      BY <2>1, <3>1, <3>3 DEF CdIInv, CdShape, tableVars, tracks
    <3>5. EndsAwaited'
      BY <2>1, <3>3, <3>8 DEF CdIInv, EndsAwaited
    <3>6. QueuedOrLate'
      BY <2>1, <3>1 DEF CdIInv, QueuedOrLate, tracks
    <3>7. Alone'
      <4> SUFFICES ASSUME overlap = FALSE PROVE (OneBusy /\ OneRuns /\ NothingLost)'
        BY <2>1 DEF Alone, tracks
      <4>1. OneBusy /\ OneRuns /\ NothingLost /\ Busy' = Busy
        BY <2>1 DEF CdIInv, Alone, Busy
      <4> QED
        BY <2>1, <3>1, <3>2, <3>3, <3>8, <4>1 DEF OneBusy, OneRuns, NothingLost, tracks
    <3> QED
      BY <3>4, <3>5, <3>6, <3>7 DEF CdIInv
  <2> QED
    BY <2>2, <2>3
<1> QED
  BY <1>1, <1>2, <1>3, <1>4

-----------------------------------------------------------------------------

\* No countdown, no call.
LEMMA CdInitHolds == CdInit => CdIInv
<1> SUFFICES ASSUME CdInit PROVE CdIInv
  OBVIOUS
<1>1. Undone = {} /\ Alive = {} /\ Busy = {}
  BY DEF CdInit, Undone, Alive, Busy
<1>2. /\ task \in [TaskIds -> CountdownTasks] /\ co \in [Coros -> Calls]
      /\ \A t \in TaskIds : task[t].at = "none"
      /\ \A c \in Coros : co[c].at = "idle"
  BY DEF CdInit, CountdownTasks, Calls, Elsewhere
<1>3. CdShape
  BY <1>2 DEF CdInit, CdShape, Counts
<1>4. OneBusy /\ OneRuns /\ NothingLost
  BY <1>1, <1>2 DEF CdInit, OneBusy, OneRuns, NothingLost
<1>5. EndsAwaited /\ QueuedOrLate
  BY <1>1 DEF CdInit, EndsAwaited, QueuedOrLate
<1> QED
  BY <1>3, <1>4, <1>5 DEF CdIInv, Alone

\* CountdownInv, what the manager and the ready list rely on (start_countdown,
\* cancel_countdown, _run_countdown): a countdown that runs is the one tracked, none
\* that was cancelled completes and none vanishes, until two calls are under way at
\* once; and its state has its queue, unless the batch worker stored one late.
THEOREM CountdownsAreTracked == CdSpec => []CountdownInv
<1>1. CdInit => CdIInv
  BY CdInitHolds
<1>2. CdIInv /\ [CdNext]_cdVars => CdIInv'
  <2> SUFFICES ASSUME CdIInv, [CdNext]_cdVars PROVE CdIInv'
    OBVIOUS
  <2>1. CASE CdNext
    BY <2>1, TableSteps, CancellingSteps, TaskSteps, DisplaySteps DEF CdNext
  <2>2. CASE UNCHANGED cdVars
    <3>1. CdShape' /\ EndsAwaited' /\ QueuedOrLate'
      BY <2>2 DEF cdVars, CdIInv, CdShape, EndsAwaited, QueuedOrLate, Undone, Alive
    <3>2. Alone'
      BY <2>2 DEF cdVars, CdIInv, Alone, OneBusy, OneRuns, NothingLost, Undone, Alive, Busy
    <3> QED
      BY <3>1, <3>2 DEF CdIInv
  <2> QED
    BY <2>1, <2>2
<1>3. CdIInv => CountdownInv
  <2> SUFFICES ASSUME CdIInv PROVE CountdownInv
    OBVIOUS
  <2>1. StateHasItsQueue
    BY DEF CdIInv, QueuedOrLate, StateHasItsQueue
  <2>2. CASE overlap = TRUE
    BY <2>1, <2>2 DEF CountdownInv, StrayOnlyByOverlap, RevokedDoesNotComplete,
      VanishedOnlyBy
  <2>3. CASE overlap = FALSE
    <3>1. OneRuns /\ NothingLost
      BY <2>3 DEF CdIInv, Alone
    <3> QED
      BY <2>1, <3>1 DEF CountdownInv, StrayOnlyByOverlap, RevokedDoesNotComplete,
         VanishedOnlyBy, OneRuns, NothingLost
  <2> QED
    BY <2>2, <2>3 DEF CdIInv, CdShape
<1> QED
  BY <1>1, <1>2, <1>3, PTL DEF CdSpec

=============================================================================
