---------------------------- MODULE PrivateMatch ----------------------------
(***************************************************************************)
(* The queue of private matches: PrivateMatchService and the handlers of   *)
(* PokerBotModel that use it.  A request is a coroutine that awaits between *)
(* its commands to Redis; each command is a step.                          *)
(*                                                                         *)
(* The queue is a sorted set scored in seconds: which two entries come     *)
(* first is left open.  An entry is old when queue_ttl has passed.  The    *)
(* states last an hour (state_ttl): they expire between requests, and not  *)
(* before the entry is old.                                                *)
(*                                                                         *)
(* touched and overlap remember what has happened; no guard reads them.    *)
(***************************************************************************)
EXTENDS Naturals, FiniteSets, Sequences, SequencesExt

CONSTANTS Users,
          MaxAsks,     \* bound: requests in a behaviour
          MaxFailures,   \* bound: commands of Redis that fail
          MaxExpiries, \* bound: states that expire
          NoUser

Asks == 1..MaxAsks
Matches == Asks  \* a match has the number of the request that starts it

VARIABLES waiting,   \* members of queue_key
          old,       \* those past queue_ttl
          status,    \* the field of each user's state; "none": no key
          ask,       \* requests
          game,      \* matches begun: their players, those whose
                     \* state is still to be deleted, and whether they are over
          failures, expiries,
          touched,   \* users whose key a request changed while another had popped them or
                     \* made them a match, or put their entry back, and those who had two
                     \* requests under way
          overlap    \* two requests were matching at once

matchVars == <<waiting, old, status, ask, game, failures, expiries, touched, overlap>>

\* A request of u that has popped who, and has read seen of their states.
Holding(place, u, who, seen) == [at |-> place, user |-> u, popped |-> who, seen |-> seen, n |-> 0]
Bare(place, u) == Holding(place, u, <<>>, <<>>)

MatchInit ==
  /\ waiting = {} /\ old = {} /\ status = [u \in Users |-> "none"]
  /\ ask = [r \in Asks |-> Bare("none", NoUser)]
  /\ game = [m \in Matches |-> [players |-> {}, left |-> {}, over |-> FALSE]]
  /\ failures = 0 /\ expiries = 0 /\ touched = {} /\ overlap = FALSE

UnderWay == {r \in Asks : ask[r].at \notin {"none", "done"}}
HandsOf(r) == Range(ask[r].popped)
InHands == UNION {HandsOf(r) : r \in UnderWay}
Matching(r) == ask[r].at \in {"pop", "read", "match", "requeue"}

Proceed(r, place) == ask' = [ask EXCEPT ![r].at = place]
Done(r) == ask' = [ask EXCEPT ![r] = Bare("done", @.user)]
GamesOf(u) == {m \in Matches : u \in game[m].players /\ ~game[m].over}
\* A request writes the key of u, who is no more what it read of him, or is in
\* another's hands.
Touch(u, seen) ==
  touched' = IF u \in InHands \/ status[u] # seen THEN touched \cup {u} ELSE touched

-----------------------------------------------------------------------------
(* handle_private_matchmaking_request *)

Arrive(r, u) ==
  /\ ask[r].at = "none" /\ \A q \in 1..(r-1) : ask[q].at # "none"
  /\ ask' = [ask EXCEPT ![r] = Bare("clean", u)]
  /\ touched' = IF \E q \in UnderWay : ask[q].user = u THEN touched \cup {u} ELSE touched
  /\ UNCHANGED <<waiting, old, status, game, failures, expiries, overlap>>

\* cleanup_private_queue: an old entry goes, then whatever state the user has.
RemoveOld(r, x) ==
  /\ ask[r].at = "clean" /\ x \in old
  /\ waiting' = waiting \ {x} /\ old' = old \ {x}
  /\ ask' = [ask EXCEPT ![r] = Holding("forget", @.user, <<x>>, <<>>)]
  /\ UNCHANGED <<status, game, failures, expiries, touched, overlap>>

ForgetOld(r) ==
  /\ ask[r].at = "forget"
  /\ LET x == Head(ask[r].popped)
     IN /\ status' = [status EXCEPT ![x] = "none"]
        /\ touched' = IF status[x] # "queued" \/ \E q \in UnderWay \ {r} : ask[q].user = x \/ x \in HandsOf(q)
                      THEN touched \cup {x} ELSE touched
  /\ ask' = [ask EXCEPT ![r] = Bare("clean", @.user)]
  /\ UNCHANGED <<waiting, old, game, failures, expiries, overlap>>

\* The state is read: a second press leaves the queue, a busy user is told so.
Look(r) ==
  /\ ask[r].at = "clean" /\ old = {}
  /\ CASE status[ask[r].user] = "queued" -> Proceed(r, "leave")
       [] status[ask[r].user] = "none" -> Proceed(r, "enter")
       [] OTHER -> Done(r)
  /\ UNCHANGED <<waiting, old, status, game, failures, expiries, touched, overlap>>

\* _cancel_private_matchmaking reads the state again.
LeaveQueue(r) ==
  /\ ask[r].at = "leave"
  /\ IF status[ask[r].user] = "queued" THEN Proceed(r, "remove") ELSE Done(r)
  /\ UNCHANGED <<waiting, old, status, game, failures, expiries, touched, overlap>>

RemoveEntry(r) ==
  /\ ask[r].at = "remove"
  /\ waiting' = waiting \ {ask[r].user} /\ old' = old \ {ask[r].user}
  /\ Proceed(r, "delete")
  /\ UNCHANGED <<status, game, failures, expiries, touched, overlap>>

DeleteState(r) ==
  /\ ask[r].at = "delete"
  /\ status' = [status EXCEPT ![ask[r].user] = "none"]
  /\ IF ask[r].user \in waiting THEN touched' = touched \cup {ask[r].user} ELSE Touch(ask[r].user, "queued")
  /\ Done(r)
  /\ UNCHANGED <<waiting, old, game, failures, expiries, overlap>>

\* enqueue_private_player reads it again, writes it, and adds the entry.
Enter(r) ==
  /\ ask[r].at = "enter"
  /\ IF status[ask[r].user] = "none" THEN Proceed(r, "write") ELSE Done(r)
  /\ UNCHANGED <<waiting, old, status, game, failures, expiries, touched, overlap>>

WriteState(r) ==
  /\ ask[r].at = "write"
  /\ status' = [status EXCEPT ![ask[r].user] = "queued"]
  /\ Touch(ask[r].user, "none")
  /\ Proceed(r, "add")
  /\ UNCHANGED <<waiting, old, game, failures, expiries, overlap>>

\* Mutant of AddEntry: the request ends without looking for a match.
AddAndEnd(r) ==
  /\ ask[r].at = "add"
  /\ waiting' = waiting \cup {ask[r].user} /\ old' = old \ {ask[r].user}
  /\ Touch(ask[r].user, "queued")
  /\ Done(r)
  /\ UNCHANGED <<status, game, failures, expiries, overlap>>

AddEntry(r) ==
  /\ ask[r].at = "add"
  /\ waiting' = waiting \cup {ask[r].user} /\ old' = old \ {ask[r].user}
  /\ Touch(ask[r].user, "queued")
  /\ Proceed(r, "pop")
  /\ UNCHANGED <<status, game, failures, expiries, overlap>>

-----------------------------------------------------------------------------
(* try_pop_match *)

\* Mutant of PopMatch: the two are read and stay in the queue.
PeekMatch(r, two) ==
  /\ ask[r].at = "pop"
  /\ IsInjective(two) /\ Range(two) \subseteq waiting
  /\ Len(two) = IF Cardinality(waiting) < 2 THEN Cardinality(waiting) ELSE 2
  /\ IF two = <<>> THEN Done(r)
     ELSE ask' = [ask EXCEPT ![r] = Holding(IF Len(two) = 1 THEN "requeue" ELSE "read", @.user, two, <<>>)]
  /\ overlap' = (overlap \/ \E q \in Asks \ {r} : Matching(q))
  /\ UNCHANGED <<waiting, old, status, game, failures, expiries, touched>>

PopMatch(r, two) ==
  /\ ask[r].at = "pop"
  /\ IsInjective(two) /\ Range(two) \subseteq waiting
  /\ Len(two) = IF Cardinality(waiting) < 2 THEN Cardinality(waiting) ELSE 2
  /\ waiting' = waiting \ Range(two) /\ old' = old \ Range(two)
  /\ IF two = <<>> THEN Done(r)
     ELSE ask' = [ask EXCEPT ![r] = Holding(IF Len(two) = 1 THEN "requeue" ELSE "read", @.user, two, <<>>)]
  /\ overlap' = (overlap \/ \E q \in Asks \ {r} : Matching(q))
  /\ UNCHANGED <<status, game, failures, expiries, touched>>

\* The states of the two are read one after the other.
ReadState(r) ==
  /\ ask[r].at = "read"
  /\ LET a == ask[r]
         seen == Append(a.seen, status[a.popped[Len(a.seen) + 1]])
         place == IF Len(seen) < 2 THEN "read" ELSE IF seen = <<"queued", "queued">> THEN "match" ELSE "requeue"
     IN ask' = [ask EXCEPT ![r] = Holding(place, a.user, a.popped, seen)]
  /\ UNCHANGED <<waiting, old, status, game, failures, expiries, touched, overlap>>

\* Mutant of Requeue: only the first goes back.
RequeueFirst(r) ==
  /\ ask[r].at = "requeue"
  /\ waiting' = waiting \cup {Head(ask[r].popped)}
  /\ Done(r)
  /\ UNCHANGED <<old, status, game, failures, expiries, touched, overlap>>

\* Without two valid entries, all that were popped go back.
Requeue(r) ==
  /\ ask[r].at = "requeue"
  /\ waiting' = waiting \cup {Head(ask[r].popped)}
  /\ IF Len(ask[r].popped) = 1 THEN Done(r)
     ELSE ask' = [ask EXCEPT ![r].popped = Tail(@)]
  /\ UNCHANGED <<old, status, game, failures, expiries, touched, overlap>>

MarkMatched(r) ==
  /\ ask[r].at = "match"
  /\ status' = [status EXCEPT ![ask[r].popped[ask[r].n + 1]] = "matched"]
  /\ IF ask[r].n = 1 THEN ask' = [ask EXCEPT ![r] = Holding("begin", @.user, @.popped, <<>>)]
     ELSE ask' = [ask EXCEPT ![r].n = 1]
  /\ UNCHANGED <<waiting, old, game, failures, expiries, touched, overlap>>

\* Mutant of BeginMatch: the record names one player twice.
BeginWithOne(r) ==
  /\ ask[r].at = "begin"
  /\ game' = [game EXCEPT ![r].players = {Head(ask[r].popped)}]
  /\ Proceed(r, "play")
  /\ UNCHANGED <<waiting, old, status, failures, expiries, touched, overlap>>

\* start_private_headsup_game: the game and its record, then the two states.
BeginMatch(r) ==
  /\ ask[r].at = "begin"
  /\ game' = [game EXCEPT ![r].players = HandsOf(r)]
  /\ Proceed(r, "play")
  /\ UNCHANGED <<waiting, old, status, failures, expiries, touched, overlap>>

\* Mutant of MarkPlaying: the second player's state is not written.
MarkOnePlaying(r) ==
  /\ ask[r].at = "play"
  /\ status' = [status EXCEPT ![Head(ask[r].popped)] = "playing"]
  /\ Done(r)
  /\ UNCHANGED <<waiting, old, game, failures, expiries, touched, overlap>>

MarkPlaying(r) ==
  /\ ask[r].at = "play"
  /\ status' = [status EXCEPT ![ask[r].popped[ask[r].n + 1]] = "playing"]
  /\ IF ask[r].n = 1 THEN Done(r) ELSE ask' = [ask EXCEPT ![r].n = 1]
  /\ UNCHANGED <<waiting, old, game, failures, expiries, touched, overlap>>

-----------------------------------------------------------------------------
(* Around the requests *)

\* A command fails, or the process does: the request is over.
FailAsk(r) ==
  /\ r \in UnderWay /\ failures < MaxFailures /\ failures' = failures + 1
  /\ Done(r)
  /\ UNCHANGED <<waiting, old, status, game, expiries, touched, overlap>>

\* The answer to ZPOPMIN is lost, and the command sent again.
PopLost(r, two) ==
  /\ ask[r].at = "pop" /\ failures < MaxFailures /\ failures' = failures + 1
  /\ Range(two) \subseteq waiting /\ two # <<>>
  /\ waiting' = waiting \ Range(two) /\ old' = old \ Range(two)
  /\ UNCHANGED <<status, ask, game, expiries, touched, overlap>>

\* report_private_match_result: the record is deleted, then the two states.
ReportResult(m) ==
  /\ game[m].players # {} /\ ~game[m].over /\ ask[m].at = "done"
  /\ game' = [game EXCEPT ![m] = [players |-> @.players, left |-> @.players, over |-> TRUE]]
  /\ UNCHANGED <<waiting, old, status, ask, failures, expiries, touched, overlap>>

\* Mutant of DropState: the state is kept and marked.
KeepState(m, u) ==
  /\ u \in game[m].left
  /\ game' = [game EXCEPT ![m].left = @ \ {u}]
  /\ status' = [status EXCEPT ![u] = "over"]
  /\ UNCHANGED <<waiting, old, ask, failures, expiries, touched, overlap>>

DropState(m, u) ==
  /\ u \in game[m].left
  /\ game' = [game EXCEPT ![m].left = @ \ {u}]
  /\ status' = [status EXCEPT ![u] = "none"]
  /\ touched' = IF status[u] # "playing" \/ GamesOf(u) # {} \/ \E q \in UnderWay : ask[q].user = u \/ u \in HandsOf(q)
                THEN touched \cup {u} ELSE touched
  /\ UNCHANGED <<waiting, old, ask, failures, expiries, overlap>>

AgeEntry(u) ==
  /\ u \in waiting \ old
  /\ old' = old \cup {u}
  /\ UNCHANGED <<waiting, status, ask, game, failures, expiries, touched, overlap>>

\* The record of a match expires with the states of its players.
ExpireState(u) ==
  /\ UnderWay = {} /\ status[u] # "none" /\ expiries < MaxExpiries
  /\ u \in waiting => u \in old
  /\ expiries' = expiries + 1
  /\ status' = [status EXCEPT ![u] = "none"]
  /\ game' = [m \in Matches |-> IF u \in game[m].players THEN [game[m] EXCEPT !.over = TRUE] ELSE game[m]]
  /\ UNCHANGED <<waiting, old, ask, failures, touched, overlap>>

Pops == {<<>>} \cup {<<u>> : u \in Users} \cup (Users \X Users)

MatchNext ==
  \/ \E r \in Asks :
       \/ \E u \in Users : Arrive(r, u) \/ RemoveOld(r, u)
       \/ ForgetOld(r) \/ Look(r) \/ LeaveQueue(r) \/ RemoveEntry(r) \/ DeleteState(r)
       \/ Enter(r) \/ WriteState(r) \/ AddEntry(r) \/ ReadState(r) \/ Requeue(r)
       \/ MarkMatched(r) \/ BeginMatch(r) \/ MarkPlaying(r)
       \/ FailAsk(r) \/ ReportResult(r) \/ \E u \in Users : DropState(r, u)
       \/ \E two \in Pops : PopMatch(r, two) \/ PopLost(r, two)
  \/ \E u \in Users : AgeEntry(u) \/ ExpireState(u)

-----------------------------------------------------------------------------
(* Properties *)

MatchSpec == MatchInit /\ [][MatchNext]_matchVars

MatchTypeOK ==
  /\ old \subseteq waiting /\ waiting \subseteq Users
  /\ status \in [Users -> {"none", "queued", "matched", "playing"}]
  /\ touched \subseteq Users

\* Nobody plays two matches at once, or is popped for a second, unless a request
\* of his own, or a cleanup, changed his key when another had made or was making him
\* a match.
OneMatchPerUser ==
  \A u \in Users \ touched :
    /\ Cardinality(GamesOf(u)) <= 1
    /\ Cardinality({r \in UnderWay : u \in HandsOf(r)}) <= 1

\* Who is told to wait is in the queue, or in the hands of a request that is
\* matching; a failed request may have lost him.
WaitingIsQueued ==
  \A u \in Users \ touched :
    status[u] = "queued" /\ failures = 0 /\ (\A r \in UnderWay : ask[r].user # u)
    => u \in waiting \cup InHands

\* A matched user's game is being started; a failed request may have left him.
MatchedGetsGame ==
  \A u \in Users \ touched :
    status[u] = "matched" /\ failures = 0
    => \E r \in UnderWay : u \in HandsOf(r) /\ ask[r].at \in {"match", "begin", "play"}

\* Nobody is matched with himself, and a match has two players.
PairsAreTwo == \A m \in Matches : game[m].players = {} \/ Cardinality(game[m].players) = 2

\* Two who wait meet: between requests one valid entry at most is in the queue,
\* unless two requests popped at once and each put its half back, a failed
\* request left its entry, or an entry without a state kept them apart.
TwoWaitersMeet ==
  UnderWay = {} /\ failures = 0 /\ ~overlap /\ touched = {} /\ expiries = 0
  => Cardinality({u \in waiting : status[u] = "queued"}) <= 1

\* Users of the private queue are in one match at most, of two, none is forgotten
\* and two who wait meet, with repeated pops, expiry and failed requests.
MatchInv ==
  /\ OneMatchPerUser
  /\ WaitingIsQueued
  /\ MatchedGetsGame
  /\ PairsAreTwo
  /\ TwoWaitersMeet

=============================================================================
