--------------------------- MODULE CountdownQueue ---------------------------
(***************************************************************************)
(* CountdownMessageQueue and the worker that counts its messages down one  *)
(* after the other.  No coroutine awaits while it holds _tracking_lock, so *)
(* every operation of the queue is one step; the worker awaits between     *)
(* edits.                                                                  *)
(***************************************************************************)
EXTENDS Naturals, Sequences, FiniteSets, SequencesExt

CONSTANTS Chats, Anchors, \* chats and the messages counted down in each
          MaxMessages,    \* bound: messages enqueued
          Capacity,       \* max_size
          Ticks,          \* edits of a countdown
          NoMessage

ASSUME QueueAssumption ==
  /\ MaxMessages \in Nat /\ Capacity \in Nat /\ Ticks \in Nat
  /\ NoMessage \notin 1..MaxMessages

MsgIds == 1..MaxMessages
MsgKeys == Chats \X Anchors

VARIABLES queue,        \* _queue
          tracked,      \* _active_countdowns
          message,      \* what became of each message
          current,      \* the message the worker has, or NoMessage
          running,      \* _worker_task is running
          superseded    \* messages a newer one had replaced before they were taken

queueVars == <<queue, tracked, message, current, running, superseded>>

Waits == {i \in MsgIds : message[i].at = "queued"}
Live == {i \in Waits : ~message[i].cancelled}
Mark(S) == [i \in MsgIds |-> IF i \in S THEN [message[i] EXCEPT !.cancelled = TRUE] ELSE message[i]]
Settle(i, how) == message' = [message EXCEPT ![i].at = how]

QueueInit ==
  /\ queue = <<>> /\ tracked = [k \in MsgKeys |-> NoMessage]
  /\ message = [i \in MsgIds |-> [at |-> "none", key |-> NoMessage, cancelled |-> FALSE, left |-> 0]]
  /\ current = NoMessage /\ running = FALSE /\ superseded = {}

\* Mutants of Enqueue: the queue's size is no limit; the countdown of the same
\* message that waits is not superseded.
EnqueueBeyond(i, k, ticks) ==
  /\ message[i].at = "none" /\ \A j \in 1..(i-1) : message[j].at # "none"
  /\ message' = [Mark({tracked[k]}) EXCEPT
                   ![i] = [at |-> "queued", key |-> k, cancelled |-> FALSE, left |-> ticks]]
  /\ superseded' = superseded \cup ({tracked[k]} \ {NoMessage})
  /\ tracked' = [tracked EXCEPT ![k] = i]
  /\ queue' = Append(queue, i)
  /\ UNCHANGED <<current, running>>

EnqueueBeside(i, k, ticks) ==
  /\ message[i].at = "none" /\ \A j \in 1..(i-1) : message[j].at # "none"
  /\ Len(queue) < Capacity
  /\ message' = [message EXCEPT
                   ![i] = [at |-> "queued", key |-> k, cancelled |-> FALSE, left |-> ticks]]
  /\ superseded' = superseded \cup ({tracked[k]} \ {NoMessage})
  /\ tracked' = [tracked EXCEPT ![k] = i]
  /\ queue' = Append(queue, i)
  /\ UNCHANGED <<current, running>>

\* QueueFull is raised before anything changes; a countdown of the same message
\* that is still tracked is superseded.
Enqueue(i, k, ticks) ==
  /\ message[i].at = "none" /\ \A j \in 1..(i-1) : message[j].at # "none"
  /\ Len(queue) < Capacity
  /\ message' = [Mark({tracked[k]}) EXCEPT
                   ![i] = [at |-> "queued", key |-> k, cancelled |-> FALSE, left |-> ticks]]
  /\ superseded' = superseded \cup ({tracked[k]} \ {NoMessage})
  /\ tracked' = [tracked EXCEPT ![k] = i]
  /\ queue' = Append(queue, i)
  /\ UNCHANGED <<current, running>>

\* cancel_countdown: it stays tracked.
CancelMessage(k) ==
  /\ tracked[k] # NoMessage
  /\ message' = Mark({tracked[k]})
  /\ UNCHANGED <<queue, tracked, current, running, superseded>>

CancelChat(chat) ==
  /\ message' = Mark({tracked[k] : k \in {chat} \X Anchors})
  /\ UNCHANGED <<queue, tracked, current, running, superseded>>

RemoveAnchor(k) ==
  /\ message' = Mark({tracked[k]})
  /\ tracked' = [tracked EXCEPT ![k] = NoMessage]
  /\ UNCHANGED <<queue, current, running, superseded>>

\* clear_all: the messages waiting are drained, the one being counted is not.
ClearAll ==
  /\ message' = [i \in MsgIds |-> IF i \in Waits
                   THEN [message[i] EXCEPT !.cancelled = TRUE, !.at = "drained"] ELSE message[i]]
  /\ tracked' = [k \in MsgKeys |-> NoMessage]
  /\ queue' = <<>>
  /\ UNCHANGED <<current, running, superseded>>

-----------------------------------------------------------------------------
(* The worker *)

StartWorker ==
  /\ ~running /\ running' = TRUE
  /\ UNCHANGED <<queue, tracked, message, current, superseded>>

\* stop: the countdown it was at is over, without its completion.
StopWorker ==
  /\ running /\ running' = FALSE
  /\ current' = NoMessage
  /\ IF current = NoMessage THEN UNCHANGED message ELSE Settle(current, "stopped")
  /\ UNCHANGED <<queue, tracked, superseded>>

\* Mutants of Dequeued: the message stays tracked; a cancelled one is counted.
DequeuedTracked ==
  /\ running /\ current = NoMessage /\ queue # <<>>
  /\ LET i == Head(queue)
     IN IF message[i].cancelled THEN Settle(i, "dropped") /\ UNCHANGED current
        ELSE Settle(i, "counting") /\ current' = i
  /\ queue' = Tail(queue)
  /\ UNCHANGED <<tracked, running, superseded>>

DequeuedAnyway ==
  /\ running /\ current = NoMessage /\ queue # <<>>
  /\ LET i == Head(queue)
     IN /\ tracked' = [tracked EXCEPT ![message[i].key] = IF @ = i THEN NoMessage ELSE @]
        /\ Settle(i, "counting") /\ current' = i
  /\ queue' = Tail(queue)
  /\ UNCHANGED <<running, superseded>>

\* dequeue: the message is no longer tracked, so that nothing can cancel it now.
Dequeued ==
  /\ running /\ current = NoMessage /\ queue # <<>>
  /\ LET i == Head(queue)
     IN /\ tracked' = [tracked EXCEPT ![message[i].key] = IF @ = i THEN NoMessage ELSE @]
        /\ IF message[i].cancelled THEN Settle(i, "dropped") /\ UNCHANGED current
           ELSE Settle(i, "counting") /\ current' = i
  /\ queue' = Tail(queue)
  /\ UNCHANGED <<running, superseded>>

Tick ==
  /\ running /\ current # NoMessage
  /\ message[current].left > 0
  /\ message' = [message EXCEPT ![current].left = @ - 1]
  /\ UNCHANGED <<queue, tracked, current, running, superseded>>

\* The message is gone from the chat: whatever waits for it is removed too.
EditRefused(gone) ==
  /\ running /\ current # NoMessage
  /\ message[current].left > 0
  /\ LET k == message[current].key
     IN IF gone
        THEN /\ message' = [Mark({tracked[k]}) EXCEPT ![current].at = "refused"]
             /\ tracked' = [tracked EXCEPT ![k] = NoMessage]
        ELSE Settle(current, "refused") /\ UNCHANGED tracked
  /\ current' = NoMessage
  /\ UNCHANGED <<queue, running, superseded>>

\* Mutant of CountdownDone: the worker does not turn to the next message.
CountdownKept ==
  /\ running /\ current # NoMessage
  /\ message[current].left = 0
  /\ Settle(current, "completed")
  /\ UNCHANGED <<queue, tracked, current, running, superseded>>

\* on_complete
CountdownDone ==
  /\ running /\ current # NoMessage
  /\ message[current].left = 0
  /\ Settle(current, "completed")
  /\ current' = NoMessage
  /\ UNCHANGED <<queue, tracked, running, superseded>>

QueueNext ==
  \/ \E i \in MsgIds, k \in MsgKeys, n \in 0..Ticks : Enqueue(i, k, n)
  \/ \E k \in MsgKeys : CancelMessage(k) \/ RemoveAnchor(k)
  \/ \E chat \in Chats : CancelChat(chat)
  \/ ClearAll \/ StartWorker \/ StopWorker
  \/ Dequeued \/ Tick \/ CountdownDone
  \/ \E gone \in BOOLEAN : EditRefused(gone)

QueueSpec == QueueInit /\ [][QueueNext]_queueVars

WorkerStep == Dequeued \/ Tick \/ CountdownDone

-----------------------------------------------------------------------------
(* Properties *)

QueueTypeOK ==
  /\ Len(queue) <= Capacity /\ \A n \in 1..Len(queue) : queue[n] \in MsgIds
  /\ \A k \in MsgKeys : tracked[k] \in MsgIds \cup {NoMessage}
  /\ current \in MsgIds \cup {NoMessage} /\ running \in BOOLEAN

\* Of the countdowns of one message that wait, one at most will run: the last
\* one, and it is the one a cancellation reaches.
OneLivePerMessage ==
  \A i \in Live : /\ tracked[message[i].key] = i
                  /\ \A j \in Waits : message[j].key = message[i].key => j <= i

\* The queue holds the waiting messages, each once, in their order; a tracked
\* one is among them.
QueueMatchesTracking ==
  /\ Range(queue) = Waits
  /\ \A a, b \in 1..Len(queue) : a < b => queue[a] < queue[b]
  /\ \A k \in MsgKeys : tracked[k] # NoMessage => tracked[k] \in Waits

\* A countdown that was cancelled, superseded or drained before the worker took
\* it never completes.
CancelledNeverCompletes ==
  \A i \in MsgIds : message[i].cancelled \/ i \in superseded => message[i].at # "completed"

\* The queue, the tracking and the cancellations of countdown messages agree: the
\* worker runs each waiting message at most once, the last of its chat, and none
\* that was cancelled.
QueueInv ==
  /\ OneLivePerMessage
  /\ QueueMatchesTracking
  /\ CancelledNeverCompletes

\* A worker that is not stopped gets to every message, however many are ahead.
EveryCountdownSettles ==
  \A i \in MsgIds :
    message[i].at \in {"queued", "counting"} ~> (message[i].at \notin {"queued", "counting"} \/ ~running)
=============================================================================
