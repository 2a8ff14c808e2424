---------------------------- MODULE MessageEdits ----------------------------
(***************************************************************************)
(* The edits of one Telegram message that go through MessagingService:     *)
(* safe_edit_message queues a content, one flush task per message sends    *)
(* the last one queued, and three caches decide what need not be sent.     *)
(* Deleting the message waits for the queue and throws it away.            *)
(*                                                                         *)
(* A content is a text with a markup.  No coroutine awaits while it holds  *)
(* the queue's guard.  The view gives up on a call after a time.           *)
(*                                                                         *)
(* everShown, cut and unmarked remember what has happened; no guard reads  *)
(* them.                                                                   *)
(***************************************************************************)
EXTENDS Naturals, FiniteSets

CONSTANTS Contents, TextOf(_),
          MaxEdits, MaxDeletes, \* bound: calls of safe_edit_message, delete_message
          MaxFaults,            \* bound: requests Telegram refuses, or the budget
          NoContent

ASSUME EditsAssumption ==
  /\ NoContent \notin Contents /\ \A c \in Contents : TextOf(c) # NoContent
  /\ MaxEdits \in Nat /\ MaxDeletes \in Nat /\ MaxFaults \in Nat

Edits == 1..MaxEdits
Deletes == 1..MaxDeletes

VARIABLES message,    \* what Telegram shows, or NoContent
          exists,     \* the message has not been deleted
          edit,       \* calls of safe_edit_message
          delete,     \* calls of delete_message
          queued,     \* state.pending_payload
          waiters,    \* calls in state.waiters, the superseded ones left out
          flush,      \* the flush task: its place, content and callers
          remembered, \* _content_cache
          lastText,   \* _last_message_hash
          lastPayload,\* message_state_cache
          marked,     \* the message is in _deleted_messages
          faults,
          everShown,  \* contents the message has shown
          cut,        \* calls that lost whoever was to answer them
          unmarked    \* a deletion took the mark off a message that is gone, that
                      \* another is deleting, or that its own request may delete yet

editVars == <<message, exists, edit, delete, queued, waiters, flush, remembered, lastText,
              lastPayload, marked, faults, everShown, cut, unmarked>>
caches == <<remembered, lastText, lastPayload>>
outside == <<message, exists, everShown>>

Quiet == [at |-> "none", content |-> NoContent, for |-> {}]

EditsInit(c) ==
  /\ message = c /\ exists = TRUE /\ everShown = {c}
  /\ edit = [e \in Edits |-> [at |-> "none", content |-> NoContent, by |-> "nobody"]]
  /\ delete = [d \in Deletes |-> "none"]
  /\ queued = NoContent /\ waiters = {} /\ flush = Quiet
  /\ remembered = {c} /\ lastText = TextOf(c) /\ lastPayload = NoContent
  /\ marked = FALSE /\ faults = 0 /\ cut = {} /\ unmarked = FALSE

\* The message's lock is held while an edit or a deletion is with Telegram.
LockFree == flush.at # "sending" /\ \A d \in Deletes : delete[d] # "deleting"

Superseded == {e \in Edits : edit[e].at = "superseded"}

Reply(S, how, by) ==
  edit' = [e \in Edits |-> IF e \in S /\ edit[e].at = "waiting"
                           THEN [edit[e] EXCEPT !.at = how, !.by = by] ELSE edit[e]]

-----------------------------------------------------------------------------
(* safe_edit_message, edit_message_text *)

\* A payload equal to the cached one is not sent.
AskEdit(e, c) ==
  /\ edit[e].at = "none" /\ \A x \in 1..(e-1) : edit[x].at # "none"
  /\ edit' = [edit EXCEPT ![e] = [at |-> IF lastPayload = c THEN "skipped" ELSE "asked",
                                  content |-> c, by |-> "nobody"]]
  /\ UNCHANGED <<outside, delete, queued, waiters, flush, caches, marked, faults, cut, unmarked>>

\* The message is not one of the game's: the edit counts as done.
StaleEdit(e) ==
  /\ edit[e].at = "asked" /\ faults < MaxFaults /\ faults' = faults + 1
  /\ edit' = [edit EXCEPT ![e].at = "answered", ![e].by = "stale"]
  /\ UNCHANGED <<outside, delete, queued, waiters, flush, caches, marked, cut, unmarked>>

\* _enqueue_edit: equal to what is queued, or shown lately, it is done at once;
\* else it replaces what is queued.  A flush task is started when none runs.
EnqueueEdit(e) ==
  /\ edit[e].at = "asked"
  /\ LET c == edit[e].content
     IN IF c = queued \/ (queued = NoContent /\ c \in remembered)
        THEN /\ edit' = [edit EXCEPT ![e].at = "answered", ![e].by = IF c = queued THEN "queue" ELSE "cache"]
             /\ UNCHANGED <<queued, waiters, flush>>
        ELSE /\ queued' = c /\ waiters' = {e}
             /\ edit' = [x \in Edits |-> IF x = e THEN [edit[e] EXCEPT !.at = "waiting"]
                           ELSE IF x \in waiters /\ edit[x].at = "waiting"
                           THEN [edit[x] EXCEPT !.at = "superseded"] ELSE edit[x]]
             /\ flush' = IF flush.at = "none" THEN [Quiet EXCEPT !.at = "idle"] ELSE flush
  /\ UNCHANGED <<outside, delete, caches, marked, faults, cut, unmarked>>

\* The superseded callers are answered at the flush task's next turn.
AnswerSuperseded(e) ==
  /\ edit[e].at = "superseded" /\ flush.at = "idle"
  /\ edit' = [edit EXCEPT ![e].at = "answered"]
  /\ UNCHANGED <<outside, delete, queued, waiters, flush, caches, marked, faults, cut, unmarked>>

\* The caller goes on: whatever the answer stands for, the payload is cached.
Resume(e) ==
  /\ edit[e].at = "answered"
  /\ lastPayload' = edit[e].content
  /\ edit' = [edit EXCEPT ![e].at = "done"]
  /\ UNCHANGED <<outside, delete, queued, waiters, flush, remembered, lastText, marked, faults, cut, unmarked>>

\* _timed_api_call
GiveUpEdit(e) ==
  /\ edit[e].at \in {"waiting", "superseded"}
  /\ edit' = [edit EXCEPT ![e].at = "timed_out"]
  /\ UNCHANGED <<outside, delete, queued, waiters, flush, caches, marked, faults, cut, unmarked>>

-----------------------------------------------------------------------------
(* _flush_pending_edits, _apply_edit *)

\* Mutant of TakeQueued: nothing queued is sent too.
TakeAnyway ==
  /\ flush.at = "idle"
  /\ flush' = [at |-> "ready", content |-> queued, for |-> waiters]
  /\ queued' = NoContent /\ waiters' = {}
  /\ edit' = [e \in Edits |-> IF edit[e].at = "superseded" THEN [edit[e] EXCEPT !.at = "answered"]
                              ELSE edit[e]]
  /\ UNCHANGED <<outside, delete, caches, marked, faults, cut, unmarked>>

\* The window is over: the queue is taken.
TakeQueued ==
  /\ flush.at = "idle" /\ queued # NoContent
  /\ flush' = [at |-> "ready", content |-> queued, for |-> waiters]
  /\ queued' = NoContent /\ waiters' = {}
  /\ edit' = [e \in Edits |-> IF edit[e].at = "superseded" THEN [edit[e] EXCEPT !.at = "answered"]
                              ELSE edit[e]]
  /\ UNCHANGED <<outside, delete, caches, marked, faults, cut, unmarked>>

\* Mutant of Drain: who waits to delete is not told.
NoDrain == UNCHANGED delete

\* The edit is over: whoever waits to delete the message goes on, unless more
\* has been queued.
Drain ==
  delete' = IF queued = NoContent
            THEN [d \in Deletes |-> IF delete[d] = "waits" THEN "drained" ELSE delete[d]] ELSE delete

AlreadyShown == flush.content \in remembered \/ TextOf(flush.content) = lastText

\* Mutants of BeginApply: an edit that is not sent is not answered; the mark of a
\* deletion is not looked at.
ApplySilently ==
  /\ flush.at = "ready" /\ LockFree
  /\ IF AlreadyShown \/ marked
     THEN Drain /\ flush' = [Quiet EXCEPT !.at = "idle"]
     ELSE flush' = [flush EXCEPT !.at = "sending"] /\ UNCHANGED delete
  /\ UNCHANGED <<outside, edit, queued, waiters, caches, marked, faults, cut, unmarked>>

ApplyMarked ==
  /\ flush.at = "ready" /\ LockFree
  /\ IF AlreadyShown
     THEN /\ Reply(flush.for, "answered", "cache") /\ Drain
          /\ flush' = [Quiet EXCEPT !.at = "idle"]
     ELSE flush' = [flush EXCEPT !.at = "sending"] /\ UNCHANGED <<edit, delete>>
  /\ UNCHANGED <<outside, queued, waiters, caches, marked, faults, cut, unmarked>>

\* Under the message's lock: nothing to send, or the request goes out.
BeginApply ==
  /\ flush.at = "ready" /\ LockFree
  /\ IF AlreadyShown \/ marked
     THEN /\ Reply(flush.for, "answered", IF AlreadyShown THEN "cache" ELSE "mark") /\ Drain
          /\ flush' = [Quiet EXCEPT !.at = "idle"]
     ELSE flush' = [flush EXCEPT !.at = "sending"] /\ UNCHANGED <<edit, delete>>
  /\ UNCHANGED <<outside, queued, waiters, caches, marked, faults, cut, unmarked>>

\* _consume_budget refuses: the edit counts as done.
OverBudget ==
  /\ flush.at = "ready" /\ flush.content \notin remembered
  /\ faults < MaxFaults /\ faults' = faults + 1
  /\ Reply(flush.for, "answered", "budget") /\ Drain
  /\ flush' = [Quiet EXCEPT !.at = "idle"]
  /\ UNCHANGED <<outside, queued, waiters, caches, marked, cut, unmarked>>

\* Telegram takes the edit.  When it says that nothing was modified, the first try
\* of a resent request having arrived or the content being there, the text is not
\* noted.
EditApplied(modified) ==
  /\ flush.at = "sending" /\ exists
  /\ message' = flush.content /\ everShown' = everShown \cup {flush.content}
  /\ remembered' = remembered \cup {flush.content}
  /\ lastText' = IF modified THEN TextOf(flush.content) ELSE lastText
  /\ Reply(flush.for, "answered", "sent") /\ Drain
  /\ flush' = [Quiet EXCEPT !.at = "idle"]
  /\ UNCHANGED <<exists, queued, waiters, lastPayload, marked, faults, cut, unmarked>>

\* Mutant of ApplyFails: what was refused is remembered as shown.
FailsRemembered(barred, arrived) ==
  /\ flush.at = "sending" /\ ~barred /\ ~arrived
  /\ faults < MaxFaults /\ faults' = faults + 1
  /\ Reply(flush.for, "raised", "error")
  /\ flush' = Quiet
  /\ cut' = cut \cup waiters \cup Superseded
  /\ remembered' = remembered \cup {flush.content}
  /\ UNCHANGED <<outside, delete, queued, waiters, lastText, lastPayload, marked, unmarked>>

\* The callers get the exception and the task ends with it, whatever has been
\* queued in the meantime; those who wait to delete, taken from the list, are not
\* told.  A message that is not found or cannot be edited is marked as deleted,
\* though it may exist; a request whose answer was lost may have arrived.
ApplyFails(barred, arrived) ==
  /\ flush.at = "sending" /\ (arrived => exists /\ ~barred)
  /\ IF exists \/ ~barred THEN faults < MaxFaults /\ faults' = faults + 1 ELSE UNCHANGED faults
  /\ Reply(flush.for, "raised", "error")
  /\ flush' = Quiet
  /\ delete' = IF queued = NoContent
               THEN [d \in Deletes |-> IF delete[d] = "waits" THEN "forgotten" ELSE delete[d]] ELSE delete
  /\ cut' = cut \cup waiters \cup Superseded
  /\ message' = IF arrived THEN flush.content ELSE message
  /\ everShown' = IF arrived THEN everShown \cup {flush.content} ELSE everShown
  /\ remembered' = IF barred THEN {} ELSE remembered
  /\ marked' = (marked \/ barred)
  /\ UNCHANGED <<exists, queued, waiters, lastText, lastPayload, unmarked>>

EndFlush ==
  /\ flush.at = "idle" /\ queued = NoContent
  /\ flush' = Quiet /\ Drain
  /\ UNCHANGED <<outside, edit, queued, waiters, caches, marked, faults, cut, unmarked>>

\* The content cache keeps an entry for cache_ttl, a few seconds, and a limited number.
ForgetContent(c) ==
  /\ c \in remembered
  /\ remembered' = remembered \ {c}
  /\ UNCHANGED <<outside, edit, delete, queued, waiters, flush, lastText, lastPayload, marked, faults, cut, unmarked>>

-----------------------------------------------------------------------------
(* delete_message *)

AskDelete(d) ==
  /\ delete[d] = "none" /\ \A x \in 1..(d-1) : delete[x] # "none"
  /\ marked' = TRUE
  /\ delete' = [delete EXCEPT ![d] = IF queued = NoContent THEN "drained" ELSE "waits"]
  /\ UNCHANGED <<outside, edit, queued, waiters, flush, caches, faults, cut, unmarked>>

BeginDelete(d) ==
  /\ delete[d] = "drained" /\ LockFree
  /\ delete' = [delete EXCEPT ![d] = "deleting"]
  /\ UNCHANGED <<outside, edit, queued, waiters, flush, caches, marked, faults, cut, unmarked>>

\* _consume_budget refuses: the message stays, and so does the mark.
DeleteOverBudget(d) ==
  /\ delete[d] = "drained" /\ faults < MaxFaults /\ faults' = faults + 1
  /\ delete' = [delete EXCEPT ![d] = "done"]
  /\ UNCHANGED <<outside, edit, queued, waiters, flush, caches, marked, cut, unmarked>>

\* The queue is thrown away and its task cancelled; nobody answers those who
\* were waiting for it.
Purge(d, place) ==
  /\ delete' = [x \in Deletes |-> IF x = d THEN place
                                  ELSE IF delete[x] = "waits" THEN "drained" ELSE delete[x]]
  /\ cut' = cut \cup waiters \cup flush.for \cup Superseded
  /\ queued' = NoContent /\ waiters' = {} /\ flush' = Quiet

Deleted(d) ==
  /\ delete[d] = "deleting" /\ exists
  /\ exists' = FALSE /\ message' = NoContent
  /\ remembered' = {} /\ lastText' = NoContent
  /\ Purge(d, "done")
  /\ UNCHANGED <<edit, lastPayload, marked, faults, everShown, unmarked>>

\* A deletion that did not succeed takes the mark back; its request may be late.
TakeMarkBack(d, late) ==
  /\ remembered' = {} /\ marked' = FALSE
  /\ unmarked' = (unmarked \/ late \/ ~exists
                  \/ \E x \in Deletes \ {d} : delete[x] \notin {"none", "done"})

\* Telegram refuses, or its answer is lost.  The queue goes only if the error is
\* suppressed, the message being seconds or minutes old.
DeleteFails(d, suppressed, late) ==
  /\ delete[d] = "deleting"
  /\ IF exists THEN faults < MaxFaults /\ faults' = faults + 1 ELSE UNCHANGED faults
  /\ IF suppressed THEN Purge(d, IF late THEN "late" ELSE "done")
     ELSE /\ delete' = [delete EXCEPT ![d] = IF late THEN "late" ELSE "done"]
          /\ UNCHANGED <<queued, waiters, flush, cut>>
  /\ TakeMarkBack(d, late)
  /\ UNCHANGED <<outside, edit, lastText, lastPayload>>

\* The view's time limit cancels a deletion that is with Telegram: neither the
\* except clause nor the purge is reached.
CancelDelete(d) ==
  /\ delete[d] = "deleting"
  /\ delete' = [delete EXCEPT ![d] = "late"]
  /\ TakeMarkBack(d, TRUE)
  /\ UNCHANGED <<outside, edit, queued, waiters, flush, lastText, lastPayload, faults, cut>>

\* Telegram carries out a deletion nobody waits for any more.
LateDelete(d) ==
  /\ delete[d] = "late" /\ exists
  /\ exists' = FALSE /\ message' = NoContent
  /\ delete' = [delete EXCEPT ![d] = "done"]
  /\ UNCHANGED <<everShown, edit, queued, waiters, flush, caches, marked, faults, cut, unmarked>>

\* The time limit cancels a deletion that waits for the queue or for the lock.
GiveUpDelete(d) ==
  /\ delete[d] \in {"waits", "forgotten", "drained"}
  /\ delete' = [delete EXCEPT ![d] = "done"]
  /\ UNCHANGED <<outside, edit, queued, waiters, flush, caches, marked, faults, cut, unmarked>>

FlushStep ==
  \/ TakeQueued \/ BeginApply \/ OverBudget \/ EndFlush
  \/ \E modified \in BOOLEAN : EditApplied(modified)
  \/ \E barred, arrived \in BOOLEAN : ApplyFails(barred, arrived)

EditsNext ==
  \/ \E e \in Edits : \/ \E c \in Contents : AskEdit(e, c)
                      \/ StaleEdit(e) \/ EnqueueEdit(e) \/ AnswerSuperseded(e) \/ Resume(e) \/ GiveUpEdit(e)
  \/ FlushStep
  \/ \E c \in Contents : ForgetContent(c)
  \/ \E d \in Deletes : \/ AskDelete(d) \/ BeginDelete(d) \/ DeleteOverBudget(d) \/ Deleted(d)
                        \/ \E suppressed, late \in BOOLEAN : DeleteFails(d, suppressed, late)
                        \/ CancelDelete(d) \/ LateDelete(d) \/ GiveUpDelete(d)

EditsSpec == (\E c \in Contents : EditsInit(c)) /\ [][EditsNext]_editVars

-----------------------------------------------------------------------------
(* Properties *)

EditsTypeOK ==
  /\ message \in Contents \cup {NoContent} /\ queued \in Contents \cup {NoContent}
  /\ waiters \subseteq Edits /\ flush.for \subseteq Edits
  /\ remembered \subseteq Contents /\ everShown \subseteq Contents

\* Somebody will answer a caller who waits: he is on the list of what is queued,
\* and a task is there to flush it, or the flush has taken him.  He is left
\* alone only when a deletion threw the queue away or a refused edit ended the
\* task with more queued.
CallersAreAnswered ==
  \A e \in Edits \ cut : edit[e].at \in {"waiting", "superseded"} =>
    \/ e \in flush.for
    \/ flush.at # "none" /\ (e \in waiters \/ edit[e].at = "superseded")

\* Only one edit or deletion of the message, of those somebody waits for, is with
\* Telegram at a time.  What was deleted is not edited, unless a deletion took its
\* mark off: one refused beside another, or one given up or unanswered whose request
\* Telegram carried out all the same.
NoEditAfterDelete ==
  /\ flush.at = "sending" => exists \/ unmarked
  /\ Cardinality({d \in Deletes : delete[d] = "deleting"}) + (IF flush.at = "sending" THEN 1 ELSE 0) <= 1

\* An edit that a cache answers was on the message at some time, or its text
\* was: a content that is new to the message is never taken for a known one.
SkippedWasShown ==
  \A e \in Edits : edit[e].by = "cache" =>
    \/ edit[e].content \in everShown
    \/ \E c \in everShown : TextOf(edit[e].content) = TextOf(c)

\* Who waits to delete goes on when the flush is over, unless it ended with more
\* queued; he is forgotten only if the edit he waited for was refused.
DeletersAreTold ==
  \A d \in Deletes :
    /\ delete[d] = "waits" => flush.at # "none" \/ cut # {}
    /\ delete[d] = "forgotten" => faults > 0 \/ ~exists

\* Edits and deletions of one message that race for its lock: callers and deleters
\* are answered, a deleted message is not edited, no new content is skipped.
EditsInv ==
  /\ CallersAreAnswered
  /\ NoEditAfterDelete
  /\ SkippedWasShown
  /\ DeletersAreTold

=============================================================================
