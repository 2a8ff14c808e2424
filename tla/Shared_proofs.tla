---------------------------- MODULE Shared_proofs ----------------------------
(***************************************************************************)
(* Proofs about four objects that several tasks write: the snapshot of a   *)
(* table (SavedTable), a message that is edited and deleted                *)
(* (MessageEdits), the statistics of a player (Statistics) and the role    *)
(* anchors of a chat (RoleAnchors).  Their invariants hold for any number  *)
(* of joiners, calls, contents, hands, players and faults.                 *)
(*                                                                         *)
(* The snapshot: the wallets have reserved the bets that the store and the *)
(* shared object show, but for the blinds of a start under way, whose own  *)
(* object carries what has been done of it; and a start that fails before  *)
(* the cards are dealt leaves nothing behind.                              *)
(*                                                                         *)
(* The message: what is queued is what the last waiter asked for, whoever  *)
(* is superseded has been answered or cut off, and what the caches hold    *)
(* was shown.                                                              *)
(*                                                                         *)
(* The statistics: a record is in the buffer or in one flush, and while    *)
(* there is one flush at a time, the records stand in the order in which   *)
(* the hands finished.                                                     *)
(*                                                                         *)
(* The anchors: whoever works on a player's anchor holds the lock, but     *)
(* for the clearing, which only takes away; the messages that records,     *)
(* players and pending deletions name for different players are apart.     *)
(***************************************************************************)
EXTENDS Statistics, RoleAnchors, SavedTable, MessageEdits, SumTheorems, FiniteSetTheorems,
        SequenceTheorems, TLAPS

-----------------------------------------------------------------------------
(* The saved table *)

\* The states of a table in a store or an object.
Boards == [stage : {"initial", "preflop", "flop", "turn", "river"}, seats : Nat,
           dealer : BOOLEAN, deck : Int, board : Nat, bets : Nat]

\* The places of a start, and the requests that hold an object.
Starts == [at : {"idle", "dealer", "stage", "cards", "small", "blinds"}, obj : Known \cup {0}]
Joins == [at : {"idle", "checked", "seated"}, obj : Known \cup {0}]
JobTypes == [at : {"idle", "repair", "prune"}, read : Boards, copy : Boards]

\* What has happened.
HistoryType ==
  /\ lateJoin \in BOOLEAN /\ staleWrite \in BOOLEAN /\ halfStart \in BOOLEAN
  /\ emptied \in BOOLEAN

\* The objects are numbered, and whoever holds one holds one there is.
SavedShape ==
  /\ store \in Boards
  /\ Cardinality(Known) \in Nat /\ objects \in [1..Cardinality(Known) -> Boards]
  /\ cached \in Known \cup {0}
  /\ start \in Starts /\ (start.at # "idle" => start.obj # 0 /\ cached # 0)
  /\ join \in [Joiners -> Joins]
  /\ \A j \in Joiners : join[j].at # "idle" => join[j].obj # 0
  /\ job \in JobTypes
  /\ job.at = "repair" => job.copy = Reset(job.read) /\ ~Valid(job.read)
  /\ job.at = "prune" => job.copy = job.read
  /\ reserved \in Int /\ HistoryType

\* Nothing has been dealt or bet at a table without a hand.
Opening(t) == t.stage = "initial" => t.deck = Deck /\ t.board = 0 /\ t.bets = 0

\* No start failed behind the stage; one failed, or was cut, at the blinds.
NoneFailed == failed \subseteq {"dealer"}
Unpaid == failed \cap {"small", "blinds"} # {} \/ halfStart

\* Without a start under way the snapshot and the shared object are valid, unless a
\* start failed; a start that sets out finds them so.
AtRest ==
  start.at \in {"idle", "dealer"} =>
    /\ Valid(store) \/ ~NoneFailed
    /\ cached # 0 => Valid(Shared) \/ ~NoneFailed

\* The object of a start carries what has been done of it.
Started(t) ==
  /\ start.at = "dealer" => t.stage = "initial" /\ Opening(t)
  /\ start.at \in {"stage", "cards", "small", "blinds"} => t.stage = "preflop" /\ t.board = 0
  /\ start.at = "stage" => t.deck = Deck
  /\ start.at \in {"cards", "small", "blinds"} => t.deck = Deck - 2 * t.seats
  /\ t.dealer /\ t.seats >= 2
  /\ t.bets = IF start.at = "blinds" THEN 2 ELSE IF start.at = "small" THEN 1 ELSE 0

InStart == start.at # "idle" => Started(objects[start.obj])

\* The wallets have reserved the bets of the snapshot, which the shared object has
\* too; during a start they have reserved its blinds, until an action has played
\* the half started table on.
PaidUp ==
  /\ ~Valid(store) => store.bets = 0
  /\ cached # 0 /\ ~Valid(Shared) => Shared.bets = 0
  /\ start.at = "idle" => reserved = store.bets /\ (cached # 0 => Shared.bets = store.bets)
  /\ start.at \in {"dealer", "stage", "cards"} =>
       reserved = 0 /\ store.bets = 0 /\ Shared.bets = 0
  /\ start.at = "small" => reserved = 1 /\ store.bets < 2 /\ Shared.bets < 2
  /\ start.at = "blinds" => reserved = 2 \/ start.obj # cached

\* Table, snapshot and wallets agree,
Agreed ==
  /\ Opening(store) /\ (cached # 0 => Opening(Shared))
  /\ AtRest /\ InStart /\ (Unpaid \/ PaidUp)

\* until a hand loses its players or gets one, or somebody writes back what he read
\* before others wrote.
SavedKept == lateJoin \/ staleWrite \/ emptied \/ Agreed

\* The inductive invariant.
SavedIInv == SavedShape /\ SavedKept

\* A fresh object has the next number.
LEMMA NewObjectIs ==
    ASSUME SavedShape, NEW t \in Boards, NewObject(t)
    PROVE  /\ Known' = 1..Cardinality(Known')
           /\ Cardinality(Known') = Cardinality(Known) + 1
           /\ objects' \in [1..Cardinality(Known') -> Boards]
           /\ cached' = Cardinality(Known') /\ cached' \notin Known
           /\ Known \subseteq Known'
           /\ objects'[cached'] = t
           /\ \A o \in Known : objects'[o] = objects[o]
<1> DEFINE n == Cardinality(Known) + 1
<1>1. Known = 1..(n-1) /\ n \in Nat /\ n # 0 /\ n \notin Known
  BY DEF SavedShape, Known
<1>2. Known' = Known \cup {n} /\ Known' = 1..n /\ cached' = n
  BY <1>1 DEF NewObject, Known
<1>3. \A i \in Nat : i # 0 => Cardinality(1..i) = i
  BY FS_Interval
<1>4. Cardinality(Known') = n
  BY <1>1, <1>2, <1>3
<1> QED
  BY <1>1, <1>2, <1>4 DEF NewObject, SavedShape, Known

\* Steps that make no object leave the known ones.
LEMMA SameObjects ==
    ASSUME SavedShape, DOMAIN objects' = Known
    PROVE  Known' = Known /\ Cardinality(Known') = Cardinality(Known)
BY DEF Known

\* The known objects are numbered from 1; 0 names none.
LEMMA KnownIs == SavedShape => Known = 1..Cardinality(Known) /\ 0 \notin Known
BY DEF SavedShape, Known

\* A reset table is a table at rest.
LEMMA ResetType ==
    \A t \in Boards :
      /\ Reset(t) \in Boards /\ Valid(Reset(t)) /\ Opening(Reset(t))
      /\ Reset(t).bets = 0 /\ Reset(t).stage = "initial"
<1> SUFFICES ASSUME NEW t \in Boards
             PROVE  /\ Reset(t) \in Boards /\ Valid(Reset(t)) /\ Opening(Reset(t))
                    /\ Reset(t).bets = 0 /\ Reset(t).stage = "initial"
  OBVIOUS
<1>1. t.seats \in Nat
  BY DEF Boards
<1>2. \A e \in Boards : \A n \in Nat :
        LET r == [e EXCEPT !.seats = n] IN
          /\ r \in Boards /\ r.stage = e.stage /\ r.deck = e.deck
          /\ r.board = e.board /\ r.bets = e.bets
  BY DEF Boards
<1>3. Empty \in Boards /\ Empty.stage = "initial" /\ Empty.deck = Deck /\ Empty.board = 0
        /\ Empty.bets = 0
  BY SavedTableAssumption DEF Boards, Empty
<1> QED
  BY <1>1, <1>2, <1>3 DEF Reset, Valid, Opening

\* The table without a game is valid and at rest.
LEMMA EmptyType == Empty \in Boards /\ Valid(Empty) /\ Opening(Empty) /\ Empty.bets = 0
BY SavedTableAssumption DEF Boards, Empty, Valid, Opening

\* What an action makes of a valid table with a hand is valid.
LEMMA PlayedType ==
    ASSUME NEW s \in Boards, Valid(s), s.stage # "initial", NEW t \in Played(s)
    PROVE  t \in Boards /\ Valid(t) /\ Opening(t)
<1>1. CASE t = Empty
  BY <1>1, EmptyType
<1>2. CASE t = [s EXCEPT !.bets = @ + 1]
  BY <1>2 DEF Boards, Valid, Opening
<1>3. CASE /\ s.stage # "river"
           /\ t = [s EXCEPT !.stage = Streets[s.stage], !.deck = @ - CardsOf[s.stage],
                !.board = @ + CardsOf[s.stage]]
  <2> DEFINE st == Streets[s.stage]
             dk == s.deck - CardsOf[s.stage]
             bd == s.board + CardsOf[s.stage]
  <2>1. /\ s.stage \in {"preflop", "flop", "turn"} /\ s.seats \in Nat
        /\ s.dealer \in BOOLEAN /\ s.bets \in Nat
        /\ s.deck \in Int /\ s.board \in Nat
    BY <1>3 DEF Boards
  <2>2. /\ st \in {"flop", "turn", "river"} /\ dk \in Int /\ bd \in Nat
        /\ dk + bd = s.deck + s.board
    BY <2>1 DEF Streets, CardsOf
  <2>3. t = [s EXCEPT !.stage = st, !.deck = dk, !.board = bd]
    BY <1>3
  <2> HIDE DEF st, dk, bd
  <2>4. t \in Boards /\ t.stage = st /\ t.deck = dk /\ t.board = bd /\ t.seats = s.seats
          /\ t.dealer = s.dealer
    BY <2>1, <2>2, <2>3 DEF Boards
  <2>5. s.seats > 0 /\ s.dealer /\ s.deck = Deck - 2 * s.seats - s.board
    BY DEF Valid
  <2>6. dk = Deck - 2 * s.seats - bd
    BY <2>1, <2>2, <2>5, SavedTableAssumption
  <2> QED
    BY <2>2, <2>4, <2>5, <2>6 DEF Valid, Opening
<1> QED
  BY <1>1, <1>2, <1>3 DEF Played

\* A table that is opened is at rest.
LEMMA SavedInitHolds == SavedInit => SavedIInv
<1> SUFFICES ASSUME SavedInit PROVE SavedIInv
  OBVIOUS
<1>1. Known = 1..1 /\ Cardinality(1..1) = 1 /\ objects[1] = Empty /\ Shared = Empty
  <2>0. \A i \in Nat : i # 0 => Cardinality(1..i) = i
    BY FS_Interval
  <2>1. Cardinality(1..1) = 1
    BY <2>0
  <2>2. {1} = 1..1
    OBVIOUS
  <2> QED
    BY <2>1, <2>2 DEF SavedInit, Known, Shared
<1>2. SavedShape
  <2>1. objects \in [1..Cardinality(Known) -> Boards] /\ cached \in Known
    BY <1>1, EmptyType DEF SavedInit, Known
  <2>2. Cardinality(Known) \in Nat /\ store \in Boards /\ reserved \in Int
    BY <1>1, EmptyType DEF SavedInit
  <2>3. start \in Starts /\ start.at = "idle"
    BY DEF SavedInit, Idle, Starts
  <2>4. join \in [Joiners -> Joins] /\ \A j \in Joiners : join[j].at = "idle"
    BY DEF SavedInit, Idle, Joins
  <2>5. job \in JobTypes /\ job.at = "idle"
    BY EmptyType DEF SavedInit, NoJob, JobTypes
  <2>6. HistoryType
    BY Zenon DEF SavedInit, HistoryType
  <2> QED
    BY ONLY <2>1, <2>2, <2>3, <2>4, <2>5, <2>6 DEF SavedShape
<1>3. SavedKept
  BY <1>1, EmptyType DEF SavedInit, SavedKept, Agreed, AtRest, InStart, PaidUp, Idle
<1> QED
  BY <1>2, <1>3 DEF SavedIInv

\* The history keeps its types, and what has happened stays so.
LEMMA HistoryGrows ==
    ASSUME HistoryType, SavedNext
    PROVE  /\ HistoryType' /\ failed \subseteq failed'
           /\ (lateJoin => lateJoin') /\ (staleWrite => staleWrite')
           /\ (emptied => emptied') /\ (halfStart => halfStart')
<1> USE DEF HistoryType
<1>1. ASSUME NEW j \in Joiners, JoinSeats(j)
      PROVE  lateJoin' \in BOOLEAN /\ (lateJoin => lateJoin')
               /\ UNCHANGED <<staleWrite, halfStart, emptied, failed>>
  BY <1>1 DEF JoinSeats
<1>2. ASSUME (\E j \in Joiners : JoinSaves(j)) \/ SaveStart \/ SaveSnapshot
      PROVE  staleWrite' \in BOOLEAN /\ (staleWrite => staleWrite')
               /\ UNCHANGED <<lateJoin, halfStart, emptied, failed>>
  BY <1>2 DEF JoinSaves, SaveStart, SaveSnapshot
<1>3. ASSUME EmptyTable
      PROVE  emptied' \in BOOLEAN /\ (emptied => emptied')
               /\ UNCHANGED <<lateJoin, staleWrite, halfStart, failed>>
  BY <1>3 DEF EmptyTable
<1>4. ASSUME Restart
      PROVE  halfStart' \in BOOLEAN /\ (halfStart => halfStart')
               /\ UNCHANGED <<lateJoin, staleWrite, emptied, failed>>
  BY <1>4 DEF Restart
<1>5. ASSUME NEW charged \in BOOLEAN, StartFails(charged)
      PROVE  failed \subseteq failed' /\ UNCHANGED <<lateJoin, staleWrite, halfStart, emptied>>
  BY <1>5 DEF StartFails
<1>6. (\E j \in Joiners : JoinChecks(j)) \/ Fetch \/ BeginStart \/ InitializeHand
         \/ DealHoleCards \/ PostBlinds \/ OtherSave \/ PlayerAction \/ LoadSnapshot
        => UNCHANGED <<lateJoin, staleWrite, halfStart, emptied, failed>>
  BY DEF JoinChecks, Fetch, BeginStart, InitializeHand, DealHoleCards, PostBlinds, PostBlind,
     OtherSave, PlayerAction, LoadSnapshot, history
<1> QED
  BY <1>1, <1>2, <1>3, <1>4, <1>5, <1>6 DEF SavedNext

\* Every step keeps the shape.
LEMMA SavedStepShape ==
    ASSUME SavedShape, SavedNext
    PROVE  SavedShape'
<1>0. HistoryType'
  BY HistoryGrows DEF SavedShape
<1> USE KnownIs, <1>0 DEF Idle, NoJob, Shared, Starts, Joins, JobTypes
<1>1. CASE Fetch
  <2>1. PICK t \in Boards : NewObject(t)
    BY <1>1, ResetType DEF Fetch, SavedShape
  <2> QED
    BY <1>1, <2>1, NewObjectIs DEF Fetch, SavedShape
<1>2. ASSUME NEW j \in Joiners, JoinChecks(j) PROVE SavedShape'
  <2>1. Known' = Known
    BY <1>2 DEF JoinChecks, Known
  <2> QED
    BY <1>2, <2>1 DEF JoinChecks, SavedShape
<1>3. ASSUME NEW j \in Joiners, JoinSeats(j) PROVE SavedShape'
  <2> DEFINE o == join[j].obj
  <2>1. o \in Known /\ objects[o] \in Boards
    BY <1>3 DEF JoinSeats, SavedShape
  <2>2. [objects[o] EXCEPT !.seats = @ + 1] \in Boards
    BY <2>1 DEF Boards
  <2>3. objects' = objects
          \/ objects' = [objects EXCEPT ![o] = [objects[o] EXCEPT !.seats = @ + 1]]
    BY <1>3 DEF JoinSeats
  <2>4. objects' \in [1..Cardinality(Known) -> Boards] /\ Known' = Known
    BY <2>1, <2>2, <2>3 DEF SavedShape, Known
  <2>5. join' = [join EXCEPT ![j].at = "seated"] \/ join' = [join EXCEPT ![j] = Idle]
    BY <1>3 DEF JoinSeats
  <2>6. join' \in [Joiners -> Joins'] /\ \A x \in Joiners : join'[x].at # "idle" => join'[x].obj # 0
    <3>1. Joins' = Joins /\ join \in [Joiners -> Joins] /\ join[j] \in Joins /\ join[j].obj # 0
      BY <2>1, <2>4 DEF SavedShape
    <3>2. PICK r \in Joins : /\ join' = [join EXCEPT ![j] = r]
                             /\ (r.at # "idle" => r.obj # 0)
      <4>1. CASE join' = [join EXCEPT ![j] = [join[j] EXCEPT !.at = "seated"]]
        <5>1. /\ [join[j] EXCEPT !.at = "seated"] \in Joins
              /\ [join[j] EXCEPT !.at = "seated"].obj # 0
          BY <3>1
        <5> QED
          BY <4>1, <5>1
      <4>2. CASE join' = [join EXCEPT ![j] = Idle]
        <5>1. Idle \in Joins /\ Idle.at = "idle"
          OBVIOUS
        <5> QED
          BY <4>2, <5>1
      <4> QED
        BY <2>5, <3>1, <4>1, <4>2
    <3>3. join'[j] = r /\ \A x \in Joiners : x # j => join'[x] = join[x]
      BY <3>1, <3>2
    <3>4. join' \in [Joiners -> Joins]
      BY <3>1, <3>2
    <3> QED
      BY <3>1, <3>2, <3>3, <3>4 DEF SavedShape
  <2> QED
    BY <1>3, <2>4, <2>6 DEF JoinSeats, SavedShape
<1>4. ASSUME NEW j \in Joiners, JoinSaves(j) PROVE SavedShape'
  <2>1. join[j].obj \in Known /\ objects[join[j].obj] \in Boards /\ Known' = Known
    BY <1>4 DEF JoinSaves, SavedShape, Known
  <2> QED
    BY <1>4, <2>1 DEF JoinSaves, SavedShape
<1>5. CASE EmptyTable
  <2>1. cached \in Known /\ objects[cached] \in Boards
    BY <1>5 DEF EmptyTable, SavedShape
  <2>2. PICK dealer \in {FALSE, objects[cached].dealer} :
               objects' = [objects EXCEPT ![cached].seats = 0, ![cached].dealer = dealer]
    BY <1>5 DEF EmptyTable
  <2>3. objects' = [objects EXCEPT ![cached] = [objects[cached] EXCEPT !.seats = 0, !.dealer = dealer]]
    BY <2>1, <2>2 DEF SavedShape
  <2>4. [objects[cached] EXCEPT !.seats = 0, !.dealer = dealer] \in Boards
    BY <2>1 DEF Boards
  <2>5. objects' \in [1..Cardinality(Known) -> Boards] /\ Known' = Known /\ objects'[cached] \in Boards
    BY <2>1, <2>3, <2>4 DEF SavedShape, Known
  <2> QED
    BY <1>5, <2>5 DEF EmptyTable, SavedShape
<1>6. CASE BeginStart
  <2>1. cached \in Known /\ objects[cached] \in Boards
    BY <1>6 DEF BeginStart, SavedShape
  <2>2. objects' \in [1..Cardinality(Known) -> Boards] /\ Known' = Known
    BY <1>6, <2>1 DEF BeginStart, SavedShape, Known, Boards
  <2> QED
    BY <1>6, <2>1, <2>2 DEF BeginStart, SavedShape
<1>7. ASSUME NEW t \in Boards, NEW a \in {"dealer", "stage", "cards", "small"},
             NEW b \in {"stage", "cards", "small", "blinds"},
             Starting(a, b, t), reserved' \in Int, UNCHANGED <<store, cached, join, job>>
      PROVE  SavedShape'
  <2>1. objects' \in [1..Cardinality(Known) -> Boards] /\ Known' = Known
    BY <1>7 DEF Starting, SavedShape, Known
  <2> QED
    BY <1>7, <2>1 DEF Starting, SavedShape
<1>8. start.at # "idle" => objects[start.obj] \in Boards
  BY DEF SavedShape
<1>9. CASE InitializeHand
  <2>1. [objects[start.obj] EXCEPT !.stage = "preflop"] \in Boards
    BY <1>8, <1>9 DEF InitializeHand, Boards
  <2> QED
    BY <1>7, <1>9, <2>1 DEF InitializeHand, SavedShape
<1>10. CASE DealHoleCards
  <2>1. [objects[start.obj] EXCEPT !.deck = @ - 2 * objects[start.obj].seats] \in Boards
    BY <1>8, <1>10 DEF DealHoleCards, Boards
  <2> QED
    BY <1>7, <1>10, <2>1 DEF DealHoleCards, SavedShape
<1>11. CASE PostBlinds
  <2>1. ASSUME NEW a \in {"cards", "small"}, NEW b \in {"small", "blinds"}, PostBlind(a, b)
        PROVE  SavedShape'
    <3>1. [objects[start.obj] EXCEPT !.bets = @ + 1] \in Boards
      BY <1>8, <2>1 DEF PostBlind, Starting, Boards
    <3>2. reserved' \in Int
      BY <2>1 DEF PostBlind, SavedShape
    <3> QED
      BY <1>7, <2>1, <3>1, <3>2 DEF PostBlind
  <2>2. CASE start' = [start EXCEPT !.at = "blinds"]
               /\ UNCHANGED <<store, objects, cached, join, job, reserved>> /\ start.at = "cards"
    BY <2>2 DEF SavedShape, Known
  <2> QED
    BY <1>11, <2>1, <2>2 DEF PostBlinds
<1>12. ASSUME NEW charged \in BOOLEAN, StartFails(charged) PROVE SavedShape'
  <2>1. reserved' \in Int /\ Known' = Known
    BY <1>12 DEF StartFails, SavedShape, Known
  <2> QED
    BY <1>12, <2>1 DEF StartFails, SavedShape
<1>13. CASE SaveStart
  BY <1>13, <1>8 DEF SaveStart, SavedShape, Known
<1>14. CASE OtherSave
  BY <1>14 DEF OtherSave, SavedShape, Known
<1>15. CASE PlayerAction
  <2>1. PICK t \in Played(store) : NewObject(t) /\ store' = t
               /\ reserved' = reserved + t.bets - store.bets
    BY <1>15 DEF PlayerAction
  <2>2. t \in Boards
    BY <1>15, <2>1, PlayedType DEF PlayerAction, SavedShape
  <2>3. reserved' \in Int
    <3>1. reserved \in Int /\ store \in Boards
      BY DEF SavedShape
    <3>2. t.bets \in Nat /\ store.bets \in Nat
      BY <2>2, <3>1 DEF Boards
    <3> QED
      BY <2>1, <3>1, <3>2
  <2>4. store' \in Boards /\ UNCHANGED <<start, join, job>>
    BY <1>15, <2>1, <2>2 DEF PlayerAction
  <2>5. cached' # 0
    <3>1. cached' = Cardinality(Known) + 1 /\ Cardinality(Known) \in Nat
      BY <2>1, <2>2, NewObjectIs DEF SavedShape
    <3> QED
      BY <3>1
  <2> QED
    BY <2>1, <2>2, <2>3, <2>4, <2>5, NewObjectIs DEF SavedShape
<1>16. CASE LoadSnapshot
  BY <1>16, ResetType DEF LoadSnapshot, SavedShape, Known
<1>17. CASE SaveSnapshot
  <2>1. CASE job.at = "prune"
    <3>1. job.copy \in Boards /\ NewObject(job.copy) /\ NoJob \in JobTypes
      BY <1>17, <2>1, EmptyType DEF SaveSnapshot, SavedShape
    <3>2. NoJob.at = "idle"
      OBVIOUS
    <3> HIDE DEF NoJob
    <3> QED
      BY <1>17, <3>1, <3>2, NewObjectIs DEF SaveSnapshot, SavedShape
  <2>2. CASE job.at # "prune"
    BY <1>17, <2>2, EmptyType DEF SaveSnapshot, SavedShape, Known
  <2> QED
    BY <2>1, <2>2
<1>18. CASE Restart
  <2>1. Known' = 1..0 /\ Cardinality(1..0) = 0
    BY <1>18, FS_EmptySet DEF Restart, Known
  <2> QED
    BY <1>18, <2>1, ResetType, EmptyType DEF Restart, SavedShape
<1> QED
  BY <1>1, <1>2, <1>3, <1>4, <1>5, <1>6, <1>9, <1>10, <1>11, <1>12, <1>13, <1>14, <1>15,
     <1>16, <1>17, <1>18 DEF SavedNext

\* And every step keeps table, snapshot and wallets in agreement.
LEMMA SavedStepKept ==
    ASSUME SavedShape, SavedShape', SavedKept, SavedNext
    PROVE  SavedKept'
<1> SUFFICES ASSUME lateJoin' = FALSE, staleWrite' = FALSE, emptied' = FALSE PROVE Agreed'
  <2>1. lateJoin' \in BOOLEAN /\ staleWrite' \in BOOLEAN /\ emptied' \in BOOLEAN
    BY DEF SavedShape, HistoryType
  <2> QED
    BY <2>1 DEF SavedKept
<1>0. /\ lateJoin = FALSE /\ staleWrite = FALSE /\ emptied = FALSE /\ Agreed
      /\ (Unpaid => Unpaid') /\ (~NoneFailed => ~NoneFailed')
  <2>1. lateJoin \in BOOLEAN /\ staleWrite \in BOOLEAN /\ emptied \in BOOLEAN
    BY DEF SavedShape, HistoryType
  <2>2. /\ failed \subseteq failed' /\ (lateJoin => lateJoin') /\ (staleWrite => staleWrite')
        /\ (emptied => emptied') /\ (halfStart => halfStart')
    BY HistoryGrows DEF SavedShape
  <2>3. ~lateJoin /\ ~staleWrite /\ ~emptied
    BY <2>2
  <2> QED
    BY <2>1, <2>2, <2>3 DEF SavedKept, Unpaid, NoneFailed
<1> USE <1>0, KnownIs
<1>1. start.at # "idle" => /\ start.obj \in Known /\ objects[start.obj] \in Boards
                           /\ Started(objects[start.obj]) /\ cached # 0
  BY DEF SavedShape, Starts, Agreed, InStart
<1>2. ASSUME UNCHANGED <<store, objects, cached, start, reserved>> PROVE Agreed'
  BY <1>2 DEF Agreed, AtRest, InStart, Started, PaidUp, Opening, Valid, Shared
<1>3. ASSUME store' = Shared, cached # 0, UNCHANGED <<objects, cached, start, reserved>>
      PROVE  Agreed'
  <2>1. Opening(store)' /\ Opening(Shared)' /\ AtRest' /\ InStart'
    BY <1>3 DEF Agreed, AtRest, InStart, Started, Opening, Valid, Shared
  <2>2. Unpaid' \/ PaidUp'
    BY <1>3 DEF Agreed, PaidUp, Valid, Shared
  <2> QED
    BY <1>3, <2>1, <2>2 DEF Agreed
<1>4. CASE Fetch
  <2>1. PICK t \in Boards : NewObject(t) /\ t = IF Valid(store) THEN store ELSE Reset(store)
    BY <1>4, ResetType DEF Fetch, SavedShape
  <2>2. Shared' = t /\ cached' # 0
    <3>1. cached' = Cardinality(Known) + 1 /\ Cardinality(Known) \in Nat /\ objects'[cached'] = t
      BY <2>1, NewObjectIs DEF SavedShape
    <3> QED
      BY <3>1 DEF Shared
  <2>3. start.at = "idle" /\ UNCHANGED <<start, store, reserved>> /\ store \in Boards
    BY <1>4 DEF Fetch, SavedShape
  <2>4. Valid(t) /\ Opening(t) /\ (~Valid(store) => t.bets = 0) /\ (Valid(store) => t = store)
    BY <2>1, <2>3, ResetType DEF Agreed
  <2>5. Opening(store)' /\ Opening(Shared)' /\ AtRest' /\ InStart'
    BY <2>2, <2>3, <2>4 DEF Agreed, AtRest, InStart, Opening, Valid
  <2>6. Unpaid' \/ PaidUp'
    BY <2>2, <2>3, <2>4 DEF Agreed, PaidUp, Valid
  <2> QED
    BY <2>5, <2>6 DEF Agreed
<1>5. ASSUME NEW j \in Joiners, JoinChecks(j) PROVE Agreed'
  BY <1>2, <1>5 DEF JoinChecks
<1>6. ASSUME NEW j \in Joiners, JoinSeats(j) PROVE Agreed'
  <2> DEFINE o == join[j].obj
  <2>1. CASE UNCHANGED objects
    BY <1>2, <1>6, <2>1 DEF JoinSeats
  <2>2. CASE objects' = [objects EXCEPT ![o].seats = @ + 1] /\ objects[o].stage = "initial"
    <3>1. o \in Known /\ objects[o] \in Boards /\ UNCHANGED <<store, cached, start, reserved>>
      BY <1>6 DEF JoinSeats, SavedShape, Joins
    <3>2. /\ \A x \in Known : x # o => objects'[x] = objects[x]
          /\ objects'[o] = [objects[o] EXCEPT !.seats = @ + 1]
      BY <2>2, <3>1 DEF SavedShape
    <3> HIDE DEF o
    <3>3. /\ objects'[o].stage = "initial" /\ objects'[o].deck = objects[o].deck
          /\ objects'[o].board = objects[o].board /\ objects'[o].bets = objects[o].bets
          /\ objects'[o].dealer = objects[o].dealer
          /\ (objects[o].seats >= 2 => objects'[o].seats >= 2)
      BY <2>2, <3>1, <3>2 DEF Boards
    <3>4. \A x \in Known :
            /\ Opening(objects[x]) => Opening(objects'[x])
            /\ Valid(objects[x]) <=> Valid(objects'[x])
            /\ objects'[x].bets = objects[x].bets
      BY <2>2, <3>2, <3>3 DEF Opening, Valid
    <3>5. cached # 0 => /\ Opening(Shared) => Opening(Shared')
                        /\ Valid(Shared) <=> Valid(Shared')
                        /\ Shared'.bets = Shared.bets
      BY <3>1, <3>4 DEF Shared, SavedShape
    <3>6. InStart'
      <4>1. CASE start.obj = o
        BY <1>1, <2>2, <3>1, <3>3, <4>1 DEF InStart, Started, Opening
      <4>2. CASE start.obj # o
        BY <1>1, <3>1, <3>2, <4>2 DEF InStart, Started, Opening
      <4> QED
        BY <4>1, <4>2
    <3>7. Opening(store)' /\ (cached' # 0 => Opening(Shared)') /\ AtRest'
      BY <3>1, <3>5 DEF Agreed, AtRest, Opening, Valid
    <3>8. Unpaid' \/ PaidUp'
      BY <1>1, <3>1, <3>5 DEF Agreed, PaidUp, Valid
    <3> QED
      BY <3>6, <3>7, <3>8 DEF Agreed
  <2> QED
    BY <1>6, <2>1, <2>2 DEF JoinSeats
<1>7. ASSUME NEW j \in Joiners, JoinSaves(j) PROVE Agreed'
  BY <1>3, <1>7 DEF JoinSaves, SavedShape, Shared
<1>8. CASE EmptyTable
  <2>1. /\ start.at = "idle" /\ Shared.stage = "initial" /\ cached # 0 /\ cached \in Known
        /\ objects[cached] \in Boards
        /\ UNCHANGED <<cached, start, reserved>> /\ store' = Shared'
    BY <1>8 DEF EmptyTable, SavedShape, Shared
  <2>2. PICK dealer \in {FALSE, Shared.dealer} :
               objects' = [objects EXCEPT ![cached].seats = 0, ![cached].dealer = dealer]
    BY <1>8 DEF EmptyTable
  <2>3. Shared' = [objects[cached] EXCEPT !.seats = 0, !.dealer = dealer]
    BY <2>1, <2>2 DEF Shared, SavedShape
  <2>4. /\ Shared'.stage = "initial" /\ Shared'.deck = Shared.deck
        /\ Shared'.board = Shared.board /\ Shared'.bets = Shared.bets
    BY <2>1, <2>3 DEF Shared, Boards
  <2>5. Opening(Shared') /\ Valid(Shared')
    BY <2>1, <2>4 DEF Agreed, Opening, Valid
  <2>6. Unpaid' \/ PaidUp'
    BY <2>1, <2>4, <2>5 DEF Agreed, PaidUp, Valid
  <2> QED
    BY <2>1, <2>5, <2>6 DEF Agreed, AtRest, InStart, Opening, Valid
<1>9. CASE BeginStart
  <2>1. /\ cached \in Known /\ cached # 0 /\ objects[cached] \in Boards
        /\ start.at = "idle" /\ Shared.stage = "initial" /\ Shared.seats >= MinPlayers
        /\ Opening(Shared)
    BY <1>9 DEF BeginStart, SavedShape, Agreed, Shared
  <2>2. /\ Shared' = [objects[cached] EXCEPT !.dealer = TRUE] /\ start'.at = "dealer"
        /\ objects'[start'.obj] = Shared' /\ UNCHANGED <<store, cached, reserved>>
    BY <1>9, <2>1 DEF BeginStart, SavedShape, Shared
  <2>3. /\ Shared'.stage = "initial" /\ Shared'.dealer /\ Shared'.deck = Deck
        /\ Shared'.board = 0 /\ Shared'.bets = 0 /\ Shared'.seats >= 2 /\ Shared.bets = 0
    BY <2>1, <2>2, SavedTableAssumption DEF Opening, Boards, Shared
  <2>4. Opening(store)' /\ Opening(Shared)' /\ AtRest' /\ InStart'
    BY <2>1, <2>2, <2>3 DEF Agreed, AtRest, InStart, Started, Opening, Valid
  <2>5. Unpaid' \/ PaidUp'
    BY <2>1, <2>2, <2>3 DEF Agreed, PaidUp, Valid
  <2> QED
    BY <2>4, <2>5 DEF Agreed
<1>10. ASSUME NEW t \in Boards, start.at # "idle", Starting(start.at, start'.at, t),
              start'.at \in {"stage", "cards", "small", "blinds"},
              Started(objects[start.obj])', UNCHANGED <<store, cached>>
       PROVE  /\ Opening(store)' /\ Opening(Shared)' /\ AtRest' /\ InStart'
              /\ (Valid(Shared) \/ Shared.bets = 0 => Valid(Shared)' \/ Shared'.bets = 0)
              /\ Shared' = t \/ Shared' = Shared
              /\ objects'[start.obj] = t /\ start'.obj = start.obj
  <2>1. /\ start.obj \in Known /\ start'.obj = start.obj /\ cached # 0 /\ cached \in Known
        /\ objects'[start.obj] = t
        /\ \A o \in Known : o # start.obj => objects'[o] = objects[o]
    <3>1. /\ objects' = [objects EXCEPT ![start.obj] = t]
          /\ start' = [start EXCEPT !.at = start'.at] /\ start \in Starts
          /\ objects \in [Known -> Boards] /\ cached \in Known \cup {0}
      BY <1>10 DEF Starting, SavedShape
    <3>2. start'.obj = start.obj
      BY <3>1 DEF Starts
    <3>3. objects'[start.obj] = t /\ \A o \in Known : o # start.obj => objects'[o] = objects[o]
      BY <1>1, <1>10, <3>1
    <3> QED
      BY <1>1, <1>10, <3>1, <3>2, <3>3
  <2>2. /\ t.stage = "preflop"
        /\ Valid(t) \/ t.bets = 0
    BY <1>10, <2>1 DEF Started, Valid, Boards
  <2>3. Shared' = t \/ Shared' = Shared
    BY <1>10, <2>1 DEF Shared
  <2>4. Opening(t)
    BY <2>2 DEF Opening
  <2>5. Opening(store)' /\ Opening(Shared)'
    BY <1>10, <2>1, <2>3, <2>4 DEF Agreed, Opening
  <2>6. AtRest' /\ InStart'
    BY <1>10 DEF AtRest, InStart
  <2>7. Valid(Shared) \/ Shared.bets = 0 => Valid(Shared)' \/ Shared'.bets = 0
    BY <2>2, <2>3 DEF Valid
  <2> QED
    BY <2>1, <2>3, <2>5, <2>6, <2>7
<1>11. CASE InitializeHand
  <2> DEFINE t == [objects[start.obj] EXCEPT !.stage = "preflop"]
  <2>1. /\ objects[start.obj] \in Boards /\ Started(objects[start.obj]) /\ start.at = "dealer"
        /\ UNCHANGED <<store, cached, reserved>>
    BY <1>1, <1>11 DEF InitializeHand
  <2>2. objects'[start.obj] = t /\ start'.at = "stage" /\ start'.obj = start.obj
          /\ Starting(start.at, start'.at, t)
    BY <1>1, <1>11, <2>1 DEF InitializeHand, Starting, SavedShape, Starts
  <2>3. Started(objects[start.obj])' /\ t \in Boards /\ t.bets = 0
    BY <2>1, <2>2 DEF Started, Opening, Boards
  <2> HIDE DEF t
  <2>4. /\ Opening(store)' /\ Opening(Shared)' /\ AtRest' /\ InStart'
        /\ (Valid(Shared) \/ Shared.bets = 0 => Valid(Shared)' \/ Shared'.bets = 0)
        /\ Shared' = t \/ Shared' = Shared
    BY <1>10, <2>1, <2>2, <2>3
  <2>5. Unpaid' \/ PaidUp'
    BY <1>1, <2>1, <2>2, <2>3, <2>4 DEF Agreed, PaidUp, Valid
  <2> QED
    BY <2>4, <2>5 DEF Agreed
<1>12. CASE DealHoleCards
  <2> DEFINE t == [objects[start.obj] EXCEPT !.deck = @ - 2 * objects[start.obj].seats]
  <2>1. /\ objects[start.obj] \in Boards /\ Started(objects[start.obj]) /\ start.at = "stage"
        /\ UNCHANGED <<store, cached, reserved>>
    BY <1>1, <1>12 DEF DealHoleCards
  <2>2. objects'[start.obj] = t /\ start'.at = "cards" /\ start'.obj = start.obj
          /\ Starting(start.at, start'.at, t)
    BY <1>1, <1>12, <2>1 DEF DealHoleCards, Starting, SavedShape, Starts
  <2>3. Started(objects[start.obj])' /\ t \in Boards /\ t.bets = 0
    BY <2>1, <2>2 DEF Started, Opening, Boards
  <2> HIDE DEF t
  <2>4. /\ Opening(store)' /\ Opening(Shared)' /\ AtRest' /\ InStart'
        /\ (Valid(Shared) \/ Shared.bets = 0 => Valid(Shared)' \/ Shared'.bets = 0)
        /\ Shared' = t \/ Shared' = Shared
    BY <1>10, <2>1, <2>2, <2>3
  <2>5. Unpaid' \/ PaidUp'
    BY <1>1, <2>1, <2>2, <2>3, <2>4 DEF Agreed, PaidUp, Valid
  <2> QED
    BY <2>4, <2>5 DEF Agreed
<1>13. CASE PostBlinds
  <2> DEFINE t == [objects[start.obj] EXCEPT !.bets = @ + 1]
  <2>1. ASSUME NEW a \in {"cards", "small"}, NEW b \in {"small", "blinds"}, PostBlind(a, b),
               (a = "cards") = (b = "small")
        PROVE  Agreed'
    <3>1. /\ objects[start.obj] \in Boards /\ Started(objects[start.obj]) /\ start.at = a
          /\ UNCHANGED <<store, cached>> /\ reserved' = reserved + 1
      BY <1>1, <2>1 DEF PostBlind, Starting
    <3>2. objects'[start.obj] = t /\ start'.at = b /\ start'.obj = start.obj
            /\ Starting(start.at, start'.at, t)
      BY <1>1, <2>1, <3>1 DEF PostBlind, Starting, SavedShape, Starts
    <3>3. Started(objects[start.obj])' /\ t \in Boards /\ t.bets <= 2
            /\ (b = "small" => t.bets = 1)
      BY <2>1, <3>1, <3>2 DEF Started, Opening, Boards
    <3> HIDE DEF t
    <3>4. /\ Opening(store)' /\ Opening(Shared)' /\ AtRest' /\ InStart'
          /\ (Valid(Shared) \/ Shared.bets = 0 => Valid(Shared)' \/ Shared'.bets = 0)
          /\ Shared' = t \/ Shared' = Shared
      BY <1>10, <2>1, <3>1, <3>2, <3>3
    <3>5. Unpaid' \/ PaidUp'
      BY <1>1, <2>1, <3>1, <3>2, <3>3, <3>4 DEF Agreed, PaidUp, Valid
    <3> QED
      BY <3>4, <3>5 DEF Agreed
  <2>2. start.at = "cards" => HasBlinds(objects[start.obj])
    BY <1>1 DEF Started, HasBlinds, Boards
  <2> QED
    BY <1>13, <2>1, <2>2 DEF PostBlinds
<1>14. ASSUME NEW charged \in BOOLEAN, StartFails(charged) PROVE Agreed'
  <2>1. /\ start.at # "idle" /\ start'.at = "idle" /\ UNCHANGED <<store, objects, cached>>
        /\ failed' = failed \cup {IF charged THEN "small" ELSE start.at}
        /\ (charged => start.at \in {"cards", "small"})
        /\ reserved' = IF charged THEN reserved + 1 ELSE reserved
    BY <1>14 DEF StartFails, Idle
  <2>2. Shared' = Shared
    BY <2>1 DEF Shared
  <2>3. NoneFailed' => start.at = "dealer"
    BY <2>1 DEF NoneFailed
  <2>4. Unpaid' \/ (start.at \in {"dealer", "stage", "cards"} /\ ~charged)
    BY <1>1, <2>1 DEF Unpaid, SavedShape, Starts
  <2>5. Opening(store)' /\ (cached' # 0 => Opening(Shared)') /\ AtRest' /\ InStart'
    BY <2>1, <2>2, <2>3 DEF Agreed, AtRest, InStart, Opening, Valid
  <2>6. Unpaid' \/ PaidUp'
    BY <2>1, <2>2, <2>4 DEF Agreed, PaidUp, Valid
  <2> QED
    BY <2>5, <2>6 DEF Agreed
<1>15. CASE SaveStart
  <2>1. /\ start.at = "blinds" /\ start.obj = cached /\ store' = Shared
        /\ start'.at = "idle" /\ UNCHANGED <<objects, cached, reserved>>
    <3>1. ~(staleWrite \/ start.obj # cached)
      BY <1>15 DEF SaveStart
    <3> QED
      BY <1>15, <3>1 DEF SaveStart, Idle, Shared
  <2>2. Started(Shared) /\ Shared \in Boards /\ Shared' = Shared
    BY <1>1, <2>1 DEF Shared
  <2>3. Valid(Shared) /\ Shared.bets = 2 /\ Opening(Shared)
    BY <2>1, <2>2 DEF Started, Valid, Opening, Boards
  <2>4. Unpaid' \/ PaidUp'
    BY <2>1, <2>2, <2>3 DEF Agreed, PaidUp, Valid
  <2> QED
    BY <2>1, <2>2, <2>3, <2>4 DEF Agreed, AtRest, InStart, Opening, Valid
<1>16. CASE OtherSave
  BY <1>3, <1>16 DEF OtherSave
<1>17. CASE PlayerAction
  <2>1. PICK t \in Played(store) : NewObject(t) /\ store' = t
               /\ reserved' = reserved + t.bets - store.bets
    BY <1>17 DEF PlayerAction
  <2>2. t \in Boards /\ Valid(t) /\ Opening(t)
    BY <1>17, <2>1, PlayedType DEF PlayerAction, SavedShape
  <2>3. /\ Shared' = t /\ cached' \notin Known
        /\ \A o \in Known : objects'[o] = objects[o]
    BY <2>1, <2>2, NewObjectIs DEF Shared
  <2>4. start' = start /\ store.bets >= 2 /\ store.bets \in Nat /\ t.bets \in Nat
          /\ reserved \in Int
    BY <1>17, <2>2 DEF PlayerAction, SavedShape, Boards
  <2>5. Opening(store)' /\ Opening(Shared)' /\ AtRest' /\ InStart'
    BY <1>1, <2>1, <2>2, <2>3, <2>4 DEF Agreed, AtRest, InStart, Started, Opening, Valid
  <2>6. Unpaid' \/ PaidUp'
    <3>1. CASE start.at = "idle"
      BY <2>1, <2>2, <2>3, <2>4, <3>1 DEF Agreed, PaidUp, Valid
    <3>2. CASE start.at = "blinds"
      BY <1>1, <2>1, <2>2, <2>3, <2>4, <3>2 DEF Agreed, PaidUp, Valid
    <3>3. CASE start.at \in {"dealer", "stage", "cards", "small"}
      BY <2>4, <3>3 DEF Agreed, PaidUp
    <3> QED
      BY <3>1, <3>2, <3>3 DEF SavedShape, Starts
  <2> QED
    BY <2>5, <2>6 DEF Agreed
<1>18. CASE LoadSnapshot
  BY <1>2, <1>18 DEF LoadSnapshot
<1>19. CASE SaveSnapshot
  <2>1. /\ job.at # "idle" /\ store = job.read /\ store' = job.copy /\ store \in Boards
        /\ UNCHANGED <<start, reserved>>
    BY <1>19 DEF SaveSnapshot, SavedShape
  <2>2. CASE job.at = "prune"
    <3>1. store' = store /\ NewObject(store)
      BY <1>19, <2>1, <2>2 DEF SaveSnapshot, SavedShape
    <3>2. /\ Shared' = store /\ cached' \notin Known /\ Shared = store
          /\ \A o \in Known : objects'[o] = objects[o]
      BY <1>19, <2>1, <2>2, <3>1, NewObjectIs DEF Shared, SaveSnapshot, SavedShape
    <3>3. Opening(store)' /\ Opening(Shared)' /\ AtRest' /\ InStart'
      BY <1>1, <2>1, <3>1, <3>2 DEF Agreed, AtRest, InStart, Started, Opening, Valid
    <3>4. Unpaid' \/ PaidUp'
      BY <1>1, <2>1, <3>1, <3>2 DEF Agreed, PaidUp, Valid
    <3> QED
      BY <3>3, <3>4 DEF Agreed
  <2>3. CASE job.at = "repair"
    <3>1. job.copy = Reset(store) /\ UNCHANGED <<objects, cached>> /\ ~Valid(store)
      BY <1>19, <2>1, <2>3 DEF SaveSnapshot, SavedShape
    <3>2. store'.bets = 0 /\ Opening(store') /\ Valid(store') /\ Shared' = Shared
      BY <2>1, <3>1, ResetType DEF Shared
    <3>3. Opening(store)' /\ (cached' # 0 => Opening(Shared)') /\ AtRest' /\ InStart'
      BY <2>1, <3>1, <3>2 DEF Agreed, AtRest, InStart, Started, Opening, Valid
    <3>4. Unpaid' \/ PaidUp'
      BY <1>1, <2>1, <3>1, <3>2 DEF Agreed, PaidUp, Valid
    <3> QED
      BY <3>3, <3>4 DEF Agreed
  <2> QED
    BY <2>1, <2>2, <2>3 DEF SavedShape, JobTypes
<1>20. CASE Restart
  <2>1. /\ start'.at = "idle" /\ cached' = 0 /\ reserved' = reserved /\ store \in Boards
        /\ store' = IF Valid(store) THEN store ELSE Reset(store)
    BY <1>20 DEF Restart, Idle, SavedShape
  <2>2. Valid(store') /\ Opening(store') /\ (~Valid(store) => store'.bets = 0)
          /\ (Valid(store) => store' = store)
    BY <2>1, ResetType DEF Agreed
  <2>3. Unpaid' \/ start.at \in {"idle", "dealer", "stage", "cards"}
    BY <1>20 DEF Restart, Unpaid, SavedShape, Starts
  <2>4. Unpaid' \/ PaidUp'
    BY <2>1, <2>2, <2>3 DEF Agreed, PaidUp, Valid
  <2> QED
    BY <2>1, <2>2, <2>4 DEF Agreed, AtRest, InStart, Opening, Valid
<1> QED
  BY <1>4, <1>5, <1>6, <1>7, <1>8, <1>9, <1>11, <1>12, <1>13, <1>14, <1>15, <1>16, <1>17,
     <1>18, <1>19, <1>20 DEF SavedNext

\* SavedInv, what the maintenance jobs and a restart rely on (TableManager.save_game,
\* start_game, the repair and prune jobs): between hands and between actions the
\* stored snapshot is valid and has the bets the wallets have reserved, until a
\* player joins late, a ready prompt unseats a hand or a stale copy is written.  A
\* start that fails behind the stage may leave an invalid snapshot, and parts it from
\* the wallets only if it fails, or is cut by a restart, at the blinds.
THEOREM SnapshotAtRest == SavedSpec => []SavedInv
<1>1. SavedInit => SavedIInv
  BY SavedInitHolds
<1>2. SavedIInv /\ [SavedNext]_savedVars => SavedIInv'
  <2> SUFFICES ASSUME SavedIInv, [SavedNext]_savedVars PROVE SavedIInv'
    OBVIOUS
  <2>1. CASE SavedNext
    BY <2>1, SavedStepShape, SavedStepKept DEF SavedIInv
  <2>2. CASE UNCHANGED savedVars
    <3>1. SavedShape'
      BY <2>2 DEF savedVars, tableVars, history, SavedIInv, SavedShape, HistoryType, Known,
         Starts, Joins
    <3>2. SavedKept'
      BY <2>2 DEF savedVars, tableVars, history, SavedIInv, SavedKept, Agreed, AtRest, InStart,
         PaidUp, Started, NoneFailed, Unpaid, Opening, Valid, Shared
    <3> QED
      BY <3>1, <3>2 DEF SavedIInv
  <2> QED
    BY <2>1, <2>2
<1>3. SavedIInv => SavedInv
  BY DEF SavedIInv, SavedKept, Agreed, AtRest, PaidUp, NoneFailed, Unpaid, SavedInv,
     RestingSnapshotIsValid, ReservedChipsAreOnTable
<1> QED
  BY <1>1, <1>2, <1>3, PTL DEF SavedSpec

-----------------------------------------------------------------------------
(* Edits of a message *)

\* Where a call of edit_message_text is, the flush task, and who answered.
EditPlaces == {"none", "skipped", "asked", "answered", "waiting", "superseded", "done",
  "timed_out", "raised"}
FlushPlaces == {"none", "idle", "ready", "sending"}
Answers == {"nobody", "stale", "queue", "cache", "mark", "budget", "sent", "error"}

\* The calls, and what the queue, the caches and the flush task hold.
EditCalls == [at : EditPlaces, content : Contents \cup {NoContent}, by : Answers]

CallTypes == edit \in [Edits -> EditCalls]

EditsTypes ==
  /\ delete \in [Deletes -> {"none", "waits", "drained", "deleting", "late", "forgotten", "done"}]
  /\ flush \in [at : FlushPlaces, content : Contents \cup {NoContent}, for : SUBSET Edits]
  /\ queued \in Contents \cup {NoContent} /\ waiters \subseteq Edits
  /\ remembered \subseteq everShown /\ faults \in Nat
  /\ exists \in BOOLEAN /\ marked \in BOOLEAN /\ unmarked \in BOOLEAN

\* A content is queued exactly when somebody waits for it.
QueueKept ==
  /\ queued = NoContent <=> waiters = {}
  /\ queued = NoContent => Superseded \subseteq cut
  /\ queued # NoContent => flush.at # "none" \/ cut # {}

\* The flush task carries a content and callers only while it has taken them.
FlushKept ==
  /\ flush.at \in {"none", "idle"} => flush.for = {}
  /\ flush.at \in {"ready", "sending"} => flush.content \in Contents

\* Who waits, waits for what he asked.
AskedFor ==
  \A e \in Edits :
    /\ edit[e].at \in {"none", "asked"} => e \notin flush.for \cup waiters
    /\ edit[e].at = "asked" => edit[e].content \in Contents
    /\ edit[e].at = "waiting" /\ e \in waiters => edit[e].content = queued
    /\ edit[e].at = "waiting" /\ e \in flush.for => edit[e].content = flush.content

\* The text cached is one that Telegram has shown.
CachedWasShown == lastText = NoContent \/ \E c \in everShown : TextOf(c) = lastText

\* A deletion that is under way has marked the message; one that nobody waits for
\* any more has taken the mark off.
MarkKept ==
  /\ ~exists \/ (\E d \in Deletes : delete[d] \notin {"none", "done"}) => marked \/ unmarked
  /\ (\E d \in Deletes : delete[d] = "late") => unmarked

\* One call of the message is at Telegram at a time.
OneAtTelegram ==
  \A d \in Deletes : delete[d] = "deleting" =>
    flush.at # "sending" /\ \A x \in Deletes : delete[x] = "deleting" => x = d

\* An edit is sent to a message that exists, or whose mark was lost.
SentExists == flush.at = "sending" => exists \/ unmarked

\* The inductive invariant.
EditsIInv ==
  /\ CallTypes /\ EditsTypes /\ QueueKept /\ FlushKept /\ AskedFor /\ CachedWasShown
  /\ MarkKept /\ OneAtTelegram
  /\ SentExists /\ CallersAreAnswered /\ SkippedWasShown /\ DeletersAreTold

\* A call whose place or answer changes is a call.
LEMMA AnsweredCall ==
    \A x \in EditCalls : \A p \in EditPlaces : \A a \in Answers :
      /\ [x EXCEPT !.at = p] \in EditCalls
      /\ [x EXCEPT !.by = a] \in EditCalls
      /\ [x EXCEPT !.at = p, !.by = a] \in EditCalls
BY DEF EditCalls

\* Answering a set of callers leaves calls.
LEMMA ReplyType ==
    ASSUME CallTypes, NEW S, NEW p \in EditPlaces, NEW a \in Answers, Reply(S, p, a)
    PROVE  CallTypes'
BY AnsweredCall DEF CallTypes, Reply

\* Every step of an editor, of the flush task and of a deleter keeps the invariant.
LEMMA EditsStep ==
    ASSUME EditsIInv, EditsNext
    PROVE  EditsIInv'
<1> USE EditsAssumption DEF EditsIInv
<1>0. faults' \in Nat /\ (faults > 0 => faults' > 0)
  <2>1. faults \in Nat /\ (faults' = faults \/ faults' = faults + 1)
    <3>1. CASE \E e \in Edits : \/ \E c \in Contents : AskEdit(e, c)
                                \/ StaleEdit(e) \/ EnqueueEdit(e) \/ AnswerSuperseded(e)
                                     \/ Resume(e) \/ GiveUpEdit(e)
      BY <3>1 DEF EditsTypes, AskEdit, StaleEdit, EnqueueEdit, AnswerSuperseded, Resume,
         GiveUpEdit
    <3>2. CASE FlushStep
      BY <3>2 DEF EditsTypes, FlushStep, TakeQueued, BeginApply, OverBudget, EditApplied,
         EndFlush, ApplyFails, Drain, Reply
    <3>3. CASE \E c \in Contents : ForgetContent(c)
      BY <3>3 DEF EditsTypes, ForgetContent
    <3>4. CASE \E d \in Deletes : \/ AskDelete(d) \/ BeginDelete(d) \/ DeleteOverBudget(d)
                 \/ Deleted(d)
                 \/ \E suppressed, late \in BOOLEAN : DeleteFails(d, suppressed, late)
                 \/ CancelDelete(d) \/ LateDelete(d) \/ GiveUpDelete(d)
      BY <3>4 DEF EditsTypes, AskDelete, BeginDelete, DeleteOverBudget, Deleted,
         DeleteFails, CancelDelete, LateDelete, GiveUpDelete
    <3> QED
      BY <3>1, <3>2, <3>3, <3>4 DEF EditsNext
  <2> QED
    BY <2>1
<1>1. ASSUME NEW e \in Edits, NEW c \in Contents, AskEdit(e, c) PROVE EditsIInv'
  <2>1. CallTypes'
    <3> DEFINE p == IF lastPayload = c THEN "skipped" ELSE "asked"
    <3>1. p \in EditPlaces
      BY DEF EditPlaces
    <3>2. edit' = [edit EXCEPT ![e] = [at |-> p, content |-> c, by |-> "nobody"]]
      BY <1>1 DEF AskEdit
    <3> HIDE DEF p
    <3>3. [at |-> p, content |-> c, by |-> "nobody"] \in EditCalls
      BY <3>1 DEF EditCalls, Answers
    <3> QED
      BY <3>2, <3>3 DEF CallTypes
  <2>2. QueueKept'
    BY <1>1 DEF AskEdit, QueueKept, CallTypes, EditCalls, EditPlaces, Answers, Superseded,
       outside,
       caches
  <2>3. AskedFor'
    BY <1>1 DEF AskEdit, AskedFor, CallTypes, FlushKept, QueueKept, Superseded, EditCalls,
       EditPlaces, Answers, outside, caches
  <2>4. CallersAreAnswered'
    BY <1>1 DEF AskEdit, CallersAreAnswered, CallTypes, QueueKept, FlushKept, AskedFor,
       Superseded,
       EditCalls, EditPlaces, Answers, outside, caches
  <2>5. SkippedWasShown'
    BY <1>1 DEF AskEdit, SkippedWasShown, CallTypes, EditsTypes, CachedWasShown, AskedFor,
       FlushKept, FlushPlaces, EditCalls, EditPlaces, Answers, outside, caches
  <2>6. (EditsTypes /\ FlushKept /\ CachedWasShown /\ MarkKept /\ OneAtTelegram
           /\ SentExists /\ DeletersAreTold)'
    BY <1>1 DEF AskEdit, EditsTypes, FlushKept, CachedWasShown, MarkKept, OneAtTelegram,
       SentExists,
       DeletersAreTold, outside, caches
  <2> QED
    BY <2>1, <2>2, <2>3, <2>4, <2>5, <2>6 DEF EditsIInv
<1>2. ASSUME NEW e \in Edits, StaleEdit(e) PROVE EditsIInv'
  <2>1. CallTypes'
    BY <1>2, AnsweredCall DEF StaleEdit, CallTypes, EditPlaces, Answers, outside, caches
  <2>2. EditsTypes'
    BY <1>2 DEF StaleEdit, EditsTypes, FlushPlaces, outside, caches
  <2>3. QueueKept'
    BY <1>2 DEF StaleEdit, QueueKept, CallTypes, EditCalls, EditPlaces, Answers, Superseded,
       outside, caches
  <2>4. AskedFor'
    BY <1>2 DEF StaleEdit, AskedFor, CallTypes, FlushKept, QueueKept, Superseded, EditCalls,
       EditPlaces, Answers, outside, caches
  <2>5. CallersAreAnswered'
    BY <1>2 DEF StaleEdit, CallersAreAnswered, CallTypes, QueueKept, FlushKept, AskedFor,
       Superseded, EditCalls, EditPlaces, Answers, outside, caches
  <2>6. SkippedWasShown'
    BY <1>2 DEF StaleEdit, SkippedWasShown, CallTypes, EditsTypes, CachedWasShown, AskedFor,
       FlushKept, FlushPlaces, EditCalls, EditPlaces, Answers, outside, caches
  <2>7. DeletersAreTold'
    BY <1>2 DEF StaleEdit, DeletersAreTold, EditsTypes, QueueKept, Superseded, FlushPlaces,
       outside,
       caches
  <2>8. (FlushKept /\ CachedWasShown /\ MarkKept /\ OneAtTelegram /\ SentExists)'
    BY <1>2 DEF StaleEdit, FlushKept, CachedWasShown, MarkKept, OneAtTelegram, SentExists,
       outside,
       caches
  <2> QED
    BY <2>1, <2>2, <2>3, <2>4, <2>5, <2>6, <2>7, <2>8 DEF EditsIInv
<1>3. ASSUME NEW e \in Edits, EnqueueEdit(e) PROVE EditsIInv'
  <2>1. CallTypes'
    <3>1. \A x \in EditCalls : \A a \in {"queue", "cache"} :
            /\ [x EXCEPT !.at = "answered", !.by = a] \in EditCalls
            /\ [[x EXCEPT !.at = "answered"] EXCEPT !.by = a] \in EditCalls
            /\ [x EXCEPT !.at = "waiting"] \in EditCalls
            /\ [x EXCEPT !.at = "superseded"] \in EditCalls
      BY AnsweredCall DEF EditPlaces, Answers
    <3> DEFINE a == IF edit[e].content = queued THEN "queue" ELSE "cache"
    <3>2. a \in {"queue", "cache"}
      OBVIOUS
    <3>3. CASE edit' = [edit EXCEPT ![e].at = "answered", ![e].by = a]
      <4> HIDE DEF a
      <4> QED
        BY <3>1, <3>2, <3>3 DEF CallTypes
    <3>4. CASE edit' = [x \in Edits |-> IF x = e THEN [edit[e] EXCEPT !.at = "waiting"]
                           ELSE IF x \in waiters /\ edit[x].at = "waiting"
                           THEN [edit[x] EXCEPT !.at = "superseded"] ELSE edit[x]]
      BY <3>1, <3>4 DEF CallTypes
    <3> QED
      BY <1>3, <3>3, <3>4 DEF EnqueueEdit
  <2>2. EditsTypes'
    <3>1. [Quiet EXCEPT !.at = "idle"] \in [at : FlushPlaces,
            content : Contents \cup {NoContent}, for : SUBSET Edits]
      BY DEF Quiet, FlushPlaces
    <3>2. CASE UNCHANGED <<queued, waiters, flush>>
      BY <1>3, <3>2 DEF EnqueueEdit, EditsTypes, outside, caches
    <3>3. CASE /\ queued' = edit[e].content /\ waiters' = {e}
               /\ flush' = IF flush.at = "none" THEN [Quiet EXCEPT !.at = "idle"] ELSE flush
      <4>1. edit[e].content \in Contents \cup {NoContent}
        BY DEF CallTypes, EditCalls
      <4> QED
        BY <1>3, <3>1, <3>3, <4>1 DEF EnqueueEdit, EditsTypes, outside, caches
    <3> QED
      BY <1>3, <3>2, <3>3 DEF EnqueueEdit
  <2>3. QueueKept'
    <3>1. edit[e].at = "asked" /\ edit[e].content \in Contents /\ UNCHANGED cut
      BY <1>3 DEF EnqueueEdit, AskedFor
    <3>2. CASE UNCHANGED <<queued, waiters, flush>>
      <4>1. PICK a \in {"queue", "cache"} :
                   edit' = [edit EXCEPT ![e].at = "answered", ![e].by = a]
        BY <1>3, <3>2 DEF EnqueueEdit
      <4>2. \A x \in Edits : x # e => edit'[x] = edit[x]
        BY <4>1 DEF CallTypes
      <4>3. edit'[e].at = "answered"
        BY <4>1 DEF CallTypes, EditCalls
      <4> QED
        BY <3>1, <3>2, <4>2, <4>3 DEF QueueKept, Superseded
    <3>3. CASE /\ queued' = edit[e].content /\ waiters' = {e}
               /\ flush' = IF flush.at = "none" THEN [Quiet EXCEPT !.at = "idle"] ELSE flush
      <4>1. queued' # NoContent /\ waiters' # {}
        BY <3>1, <3>3
      <4>2. flush'.at # "none"
        BY <3>3 DEF Quiet, EditsTypes
      <4> QED
        BY <3>1, <4>1, <4>2 DEF QueueKept
    <3> QED
      BY <1>3, <3>2, <3>3 DEF EnqueueEdit
  <2>4. FlushKept'
    BY <1>3 DEF EnqueueEdit, FlushKept, EditsTypes, FlushPlaces, Quiet, outside, caches
  <2>5. AskedFor'
    BY <1>3 DEF EnqueueEdit, AskedFor, CallTypes, FlushKept, QueueKept, Superseded,
       EditCalls,
       EditPlaces, Answers, Quiet, outside, caches
  <2>6. OneAtTelegram'
    BY <1>3 DEF EnqueueEdit, OneAtTelegram, EditsTypes, FlushPlaces, Quiet, outside, caches
  <2>7. SentExists'
    BY <1>3 DEF EnqueueEdit, SentExists, MarkKept, Quiet, outside, caches
  <2>8. CallersAreAnswered'
    BY <1>3 DEF EnqueueEdit, CallersAreAnswered, CallTypes, QueueKept, FlushKept, AskedFor,
       Superseded, EditCalls, EditPlaces, Answers, Quiet, outside, caches
  <2>9. SkippedWasShown'
    BY <1>3 DEF EnqueueEdit, SkippedWasShown, CallTypes, EditsTypes, CachedWasShown,
       AskedFor,
       FlushKept, FlushPlaces, EditCalls, EditPlaces, Answers, Quiet, outside, caches
  <2>10. DeletersAreTold'
    BY <1>3 DEF EnqueueEdit, DeletersAreTold, EditsTypes, QueueKept, Superseded,
       FlushPlaces, Quiet,
       outside, caches
  <2>11. (CachedWasShown /\ MarkKept)'
    BY <1>3 DEF EnqueueEdit, CachedWasShown, MarkKept, outside, caches
  <2> QED
    BY <2>1, <2>2, <2>3, <2>4, <2>5, <2>6, <2>7, <2>8, <2>9, <2>10, <2>11 DEF EditsIInv
<1>4. ASSUME NEW e \in Edits, AnswerSuperseded(e) PROVE EditsIInv'
  <2>1. CallTypes'
    BY <1>4, AnsweredCall DEF AnswerSuperseded, CallTypes, EditPlaces, Answers, outside,
       caches
  <2>2. QueueKept'
    BY <1>4 DEF AnswerSuperseded, QueueKept, CallTypes, EditCalls, EditPlaces, Answers,
       Superseded,
       outside, caches
  <2>3. AskedFor'
    BY <1>4 DEF AnswerSuperseded, AskedFor, CallTypes, FlushKept, QueueKept, Superseded,
       EditCalls,
       EditPlaces, Answers, outside, caches
  <2>4. CallersAreAnswered'
    BY <1>4 DEF AnswerSuperseded, CallersAreAnswered, CallTypes, QueueKept, FlushKept,
       AskedFor,
       Superseded, EditCalls, EditPlaces, Answers, outside, caches
  <2>5. SkippedWasShown'
    BY <1>4 DEF AnswerSuperseded, SkippedWasShown, CallTypes, EditsTypes, CachedWasShown,
       AskedFor,
       FlushKept, FlushPlaces, EditCalls, EditPlaces, Answers, outside, caches
  <2>6. (EditsTypes /\ FlushKept /\ CachedWasShown /\ MarkKept /\ OneAtTelegram
           /\ SentExists /\ DeletersAreTold)'
    BY <1>4 DEF AnswerSuperseded, EditsTypes, FlushKept, CachedWasShown, MarkKept,
       OneAtTelegram,
       SentExists, DeletersAreTold, outside, caches
  <2> QED
    BY <2>1, <2>2, <2>3, <2>4, <2>5, <2>6 DEF EditsIInv
<1>5. ASSUME NEW e \in Edits, Resume(e) PROVE EditsIInv'
  <2>1. CallTypes'
    BY <1>5, AnsweredCall DEF Resume, CallTypes, EditPlaces, Answers, outside
  <2>2. QueueKept'
    BY <1>5 DEF Resume, QueueKept, CallTypes, EditCalls, EditPlaces, Answers, Superseded,
       outside
  <2>3. AskedFor'
    BY <1>5 DEF Resume, AskedFor, CallTypes, FlushKept, QueueKept, Superseded, EditCalls,
       EditPlaces, Answers, outside
  <2>4. CallersAreAnswered'
    BY <1>5 DEF Resume, CallersAreAnswered, CallTypes, QueueKept, FlushKept, AskedFor,
       Superseded,
       EditCalls, EditPlaces, Answers, outside
  <2>5. SkippedWasShown'
    BY <1>5 DEF Resume, SkippedWasShown, CallTypes, EditsTypes, CachedWasShown, AskedFor,
       FlushKept,
       FlushPlaces, EditCalls, EditPlaces, Answers, outside
  <2>6. (EditsTypes /\ FlushKept /\ CachedWasShown /\ MarkKept /\ OneAtTelegram
           /\ SentExists /\ DeletersAreTold)'
    BY <1>5 DEF Resume, EditsTypes, FlushKept, CachedWasShown, MarkKept, OneAtTelegram,
       SentExists,
       DeletersAreTold, outside
  <2> QED
    BY <2>1, <2>2, <2>3, <2>4, <2>5, <2>6 DEF EditsIInv
<1>6. ASSUME NEW e \in Edits, GiveUpEdit(e) PROVE EditsIInv'
  <2>1. CallTypes'
    BY <1>6, AnsweredCall DEF GiveUpEdit, CallTypes, EditPlaces, Answers, outside, caches
  <2>2. QueueKept'
    BY <1>6 DEF GiveUpEdit, QueueKept, CallTypes, EditCalls, EditPlaces, Answers,
       Superseded,
       outside, caches
  <2>3. AskedFor'
    BY <1>6 DEF GiveUpEdit, AskedFor, CallTypes, FlushKept, QueueKept, Superseded,
       EditCalls,
       EditPlaces, Answers, outside, caches
  <2>4. CallersAreAnswered'
    BY <1>6 DEF GiveUpEdit, CallersAreAnswered, CallTypes, QueueKept, FlushKept, AskedFor,
       Superseded, EditCalls, EditPlaces, Answers, outside, caches
  <2>5. SkippedWasShown'
    BY <1>6 DEF GiveUpEdit, SkippedWasShown, CallTypes, EditsTypes, CachedWasShown,
       AskedFor,
       FlushKept, FlushPlaces, EditCalls, EditPlaces, Answers, outside, caches
  <2>6. (EditsTypes /\ FlushKept /\ CachedWasShown /\ MarkKept /\ OneAtTelegram
           /\ SentExists /\ DeletersAreTold)'
    BY <1>6 DEF GiveUpEdit, EditsTypes, FlushKept, CachedWasShown, MarkKept, OneAtTelegram,
       SentExists, DeletersAreTold, outside, caches
  <2> QED
    BY <2>1, <2>2, <2>3, <2>4, <2>5, <2>6 DEF EditsIInv
<1>7. CASE TakeQueued
  <2>1. CallTypes'
    BY <1>7, AnsweredCall DEF TakeQueued, CallTypes, EditPlaces, Answers, outside, caches
  <2>2. EditsTypes'
    BY <1>7 DEF TakeQueued, EditsTypes, FlushPlaces, outside, caches
  <2>3. QueueKept'
    BY <1>7 DEF TakeQueued, QueueKept, CallTypes, EditCalls, EditPlaces, Answers,
       Superseded,
       outside, caches
  <2>4. FlushKept'
    BY <1>7 DEF TakeQueued, FlushKept, EditsTypes, FlushPlaces, outside, caches
  <2>5. AskedFor'
    BY <1>7 DEF TakeQueued, AskedFor, CallTypes, FlushKept, QueueKept, Superseded,
       EditCalls,
       EditPlaces, Answers, outside, caches
  <2>6. OneAtTelegram'
    BY <1>7 DEF TakeQueued, OneAtTelegram, EditsTypes, FlushPlaces, outside, caches
  <2>7. SentExists'
    BY <1>7 DEF TakeQueued, SentExists, MarkKept, outside, caches
  <2>8. CallersAreAnswered'
    BY <1>7 DEF TakeQueued, CallersAreAnswered, CallTypes, QueueKept, FlushKept, AskedFor,
       Superseded, EditCalls, EditPlaces, Answers, outside, caches
  <2>9. SkippedWasShown'
    BY <1>7 DEF TakeQueued, SkippedWasShown, CallTypes, EditsTypes, CachedWasShown,
       AskedFor,
       FlushKept, FlushPlaces, EditCalls, EditPlaces, Answers, outside, caches
  <2>10. DeletersAreTold'
    BY <1>7 DEF TakeQueued, DeletersAreTold, EditsTypes, QueueKept, Superseded, FlushPlaces,
       outside, caches
  <2>11. (CachedWasShown /\ MarkKept)'
    BY <1>7 DEF TakeQueued, CachedWasShown, MarkKept, outside, caches
  <2> QED
    BY <2>1, <2>2, <2>3, <2>4, <2>5, <2>6, <2>7, <2>8, <2>9, <2>10, <2>11 DEF EditsIInv
<1>8. CASE BeginApply
  <2>1. CASE AlreadyShown \/ marked
    <3>0. /\ flush.at = "ready" /\ flush' = [Quiet EXCEPT !.at = "idle"] /\ Drain
          /\ Reply(flush.for, "answered", IF AlreadyShown THEN "cache" ELSE "mark")
      BY <1>8, <2>1 DEF BeginApply
    <3>1. CallTypes'
      BY <1>8, <2>1, <3>0, ReplyType DEF BeginApply, CallTypes, EditPlaces, Answers,
         LockFree,
         AlreadyShown, Drain, Quiet, outside, caches
    <3>2. EditsTypes'
      BY <1>8, <2>1, <3>0 DEF BeginApply, EditsTypes, FlushPlaces, LockFree, AlreadyShown,
         Reply,
         Drain, Quiet, outside, caches
    <3>3. QueueKept'
      BY <1>8, <2>1, <3>0 DEF BeginApply, QueueKept, CallTypes, EditCalls, EditPlaces,
         Answers,
         Superseded, LockFree, AlreadyShown, Reply, Drain, Quiet, outside, caches
    <3>4. FlushKept'
      BY <1>8, <2>1, <3>0 DEF BeginApply, FlushKept, EditsTypes, FlushPlaces, LockFree,
         AlreadyShown, Reply, Drain, Quiet, outside, caches
    <3>5. AskedFor'
      BY <1>8, <2>1, <3>0 DEF BeginApply, AskedFor, CallTypes, FlushKept, QueueKept,
         Superseded,
         EditCalls, EditPlaces, Answers, LockFree, AlreadyShown, Reply, Drain, Quiet,
         outside,
         caches
    <3>6. MarkKept'
      BY <1>8, <2>1, <3>0 DEF BeginApply, MarkKept, EditsTypes, FlushPlaces, LockFree,
         AlreadyShown,
         Reply, Drain, Quiet, outside, caches
    <3>7. OneAtTelegram'
      BY <1>8, <2>1, <3>0 DEF BeginApply, OneAtTelegram, EditsTypes, FlushPlaces, LockFree,
         AlreadyShown, Reply, Drain, Quiet, outside, caches
    <3>8. SentExists'
      BY <1>8, <2>1, <3>0 DEF BeginApply, SentExists, MarkKept, LockFree, AlreadyShown,
         Reply,
         Drain, Quiet, outside, caches
    <3>9. CallersAreAnswered'
      BY <1>8, <2>1, <3>0 DEF BeginApply, CallersAreAnswered, CallTypes, QueueKept,
         FlushKept,
         AskedFor, Superseded, EditCalls, EditPlaces, Answers, LockFree, AlreadyShown,
         Reply, Drain,
         Quiet, outside, caches
    <3>10. SkippedWasShown'
      BY <1>8, <2>1, <3>0 DEF BeginApply, SkippedWasShown, CallTypes, EditsTypes,
         CachedWasShown,
         AskedFor, FlushKept, FlushPlaces, EditCalls, EditPlaces, Answers, LockFree,
         AlreadyShown,
         Reply, Drain, Quiet, outside, caches
    <3>11. DeletersAreTold'
      BY <1>8, <2>1, <3>0 DEF BeginApply, DeletersAreTold, EditsTypes, QueueKept,
         Superseded,
         FlushPlaces, LockFree, AlreadyShown, Reply, Drain, Quiet, outside, caches
    <3>12. CachedWasShown'
      BY <1>8, <2>1, <3>0 DEF BeginApply, CachedWasShown, Reply, Drain, outside, caches
    <3> QED
      BY <3>1, <3>2, <3>3, <3>4, <3>5, <3>6, <3>7, <3>8, <3>9, <3>10, <3>11, <3>12 DEF
         EditsIInv
  <2>2. CASE ~(AlreadyShown \/ marked)
    <3>0. flush.at = "ready" /\ LockFree /\ flush' = [flush EXCEPT !.at = "sending"]
            /\ UNCHANGED <<edit, delete>>
      BY <1>8, <2>2 DEF BeginApply
    <3>1. EditsTypes'
      BY <1>8, <2>2, <3>0 DEF BeginApply, EditsTypes, FlushPlaces, LockFree, AlreadyShown,
         Reply,
         Drain, Quiet, outside, caches
    <3>2. QueueKept'
      BY <1>8, <2>2, <3>0 DEF BeginApply, QueueKept, CallTypes, EditCalls, EditPlaces,
         Answers,
         Superseded, LockFree, AlreadyShown, Reply, Drain, Quiet, outside, caches
    <3>3. FlushKept'
      BY <1>8, <2>2, <3>0 DEF BeginApply, FlushKept, EditsTypes, FlushPlaces, LockFree,
         AlreadyShown, Reply, Drain, Quiet, outside, caches
    <3>4. AskedFor'
      BY <1>8, <2>2, <3>0 DEF BeginApply, AskedFor, CallTypes, FlushKept, QueueKept,
         Superseded,
         EditCalls, EditPlaces, Answers, LockFree, AlreadyShown, Reply, Drain, Quiet,
         outside,
         caches
    <3>5. OneAtTelegram'
      BY <1>8, <2>2, <3>0 DEF BeginApply, OneAtTelegram, EditsTypes, FlushPlaces, LockFree,
         AlreadyShown, Reply, Drain, Quiet, outside, caches
    <3>6. SentExists'
      BY <1>8, <2>2, <3>0 DEF BeginApply, SentExists, MarkKept, LockFree, AlreadyShown,
         Reply,
         Drain, Quiet, outside, caches
    <3>7. CallersAreAnswered'
      BY <1>8, <2>2, <3>0 DEF BeginApply, CallersAreAnswered, CallTypes, QueueKept,
         FlushKept,
         AskedFor, Superseded, EditCalls, EditPlaces, Answers, LockFree, AlreadyShown,
         Reply, Drain,
         Quiet, outside, caches
    <3>8. DeletersAreTold'
      BY <1>8, <2>2, <3>0 DEF BeginApply, DeletersAreTold, EditsTypes, QueueKept,
         Superseded,
         FlushPlaces, LockFree, AlreadyShown, Reply, Drain, Quiet, outside, caches
    <3>9. (CallTypes /\ CachedWasShown /\ MarkKept /\ SkippedWasShown)'
      BY <1>8, <2>2, <3>0 DEF BeginApply, CallTypes, CachedWasShown, MarkKept,
         SkippedWasShown,
         Reply, Drain, outside, caches
    <3> QED
      BY <3>1, <3>2, <3>3, <3>4, <3>5, <3>6, <3>7, <3>8, <3>9 DEF EditsIInv
  <2> QED
    BY <2>1, <2>2
<1>9. CASE OverBudget
  <2>1. CallTypes'
    BY <1>9, ReplyType DEF OverBudget, CallTypes, EditPlaces, Answers, Drain, Quiet,
       outside, caches
  <2>2. EditsTypes'
    BY <1>0, <1>9 DEF OverBudget, EditsTypes, FlushPlaces, Drain, Quiet, outside, caches
  <2>3. QueueKept'
    BY <1>9 DEF OverBudget, QueueKept, CallTypes, EditCalls, EditPlaces, Answers,
       Superseded, Reply,
       Drain, Quiet, outside, caches
  <2>4. FlushKept'
    BY <1>9 DEF OverBudget, FlushKept, EditsTypes, FlushPlaces, Reply, Drain, Quiet,
       outside, caches
  <2>5. AskedFor'
    BY <1>9 DEF OverBudget, AskedFor, CallTypes, FlushKept, QueueKept, Superseded,
       EditCalls,
       EditPlaces, Answers, Reply, Drain, Quiet, outside, caches
  <2>6. MarkKept'
    BY <1>9 DEF OverBudget, MarkKept, EditsTypes, FlushPlaces, Reply, Drain, Quiet, outside,
       caches
  <2>7. OneAtTelegram'
    BY <1>9 DEF OverBudget, OneAtTelegram, EditsTypes, FlushPlaces, Reply, Drain, Quiet,
       outside,
       caches
  <2>8. SentExists'
    BY <1>9 DEF OverBudget, SentExists, MarkKept, Reply, Drain, Quiet, outside, caches
  <2>9. CallersAreAnswered'
    BY <1>9 DEF OverBudget, CallersAreAnswered, CallTypes, QueueKept, FlushKept, AskedFor,
       Superseded, EditCalls, EditPlaces, Answers, Reply, Drain, Quiet, outside, caches
  <2>10. SkippedWasShown'
    BY <1>9 DEF OverBudget, SkippedWasShown, CallTypes, EditsTypes, CachedWasShown,
       AskedFor,
       FlushKept, FlushPlaces, EditCalls, EditPlaces, Answers, Reply, Drain, Quiet, outside,
       caches
  <2>11. DeletersAreTold'
    <3>1. \A x \in Deletes :
            /\ delete'[x] = "waits" => delete[x] = "waits" /\ queued # NoContent
            /\ delete'[x] = "forgotten" => delete[x] = "forgotten"
      BY <1>9 DEF OverBudget, Drain, EditsTypes
    <3>2. flush'.at = "idle" /\ exists' = exists
      BY <1>9 DEF OverBudget, Quiet, outside
    <3> QED
      BY <1>0, <3>1, <3>2 DEF DeletersAreTold
  <2>12. CachedWasShown'
    BY <1>9 DEF OverBudget, CachedWasShown, Reply, Drain, outside, caches
  <2> QED
    BY <2>1, <2>2, <2>3, <2>4, <2>5, <2>6, <2>7, <2>8, <2>9, <2>10, <2>11, <2>12 DEF
       EditsIInv
<1>10. ASSUME NEW modified \in BOOLEAN, EditApplied(modified) PROVE EditsIInv'
  <2>1. CallTypes'
    BY <1>10, ReplyType DEF EditApplied, CallTypes, EditPlaces, Answers, Drain, Quiet
  <2>2. EditsTypes'
    BY <1>10 DEF EditApplied, EditsTypes, FlushPlaces, Reply, Drain, Quiet
  <2>3. QueueKept'
    BY <1>10 DEF EditApplied, QueueKept, CallTypes, EditCalls, EditPlaces, Answers,
       Superseded,
       Reply, Drain, Quiet
  <2>4. FlushKept'
    BY <1>10 DEF EditApplied, FlushKept, EditsTypes, FlushPlaces, Reply, Drain, Quiet
  <2>5. AskedFor'
    BY <1>10 DEF EditApplied, AskedFor, CallTypes, FlushKept, QueueKept, Superseded,
       EditCalls,
       EditPlaces, Answers, Reply, Drain, Quiet
  <2>6. CachedWasShown'
    BY <1>10 DEF EditApplied, CachedWasShown, Reply, Drain, Quiet
  <2>7. MarkKept'
    BY <1>10 DEF EditApplied, MarkKept, EditsTypes, FlushPlaces, Reply, Drain, Quiet
  <2>8. OneAtTelegram'
    BY <1>10 DEF EditApplied, OneAtTelegram, EditsTypes, FlushPlaces, Reply, Drain, Quiet
  <2>9. SentExists'
    BY <1>10 DEF EditApplied, SentExists, MarkKept, Reply, Drain, Quiet
  <2>10. CallersAreAnswered'
    BY <1>10 DEF EditApplied, CallersAreAnswered, CallTypes, QueueKept, FlushKept, AskedFor,
       Superseded, EditCalls, EditPlaces, Answers, Reply, Drain, Quiet
  <2>11. SkippedWasShown'
    BY <1>10 DEF EditApplied, SkippedWasShown, CallTypes, EditsTypes, CachedWasShown,
       AskedFor,
       FlushKept, FlushPlaces, EditCalls, EditPlaces, Answers, Reply, Drain, Quiet
  <2>12. DeletersAreTold'
    BY <1>10 DEF EditApplied, DeletersAreTold, EditsTypes, QueueKept, Superseded,
       FlushPlaces,
       Reply, Drain, Quiet
  <2> QED
    BY <2>1, <2>2, <2>3, <2>4, <2>5, <2>6, <2>7, <2>8, <2>9, <2>10, <2>11, <2>12 DEF
       EditsIInv
<1>11. CASE EndFlush
  <2>1. EditsTypes'
    BY <1>11 DEF EndFlush, EditsTypes, FlushPlaces, Quiet, Drain, outside, caches
  <2>2. QueueKept'
    BY <1>11 DEF EndFlush, QueueKept, CallTypes, EditCalls, EditPlaces, Answers, Superseded,
       Quiet,
       Drain, outside, caches
  <2>3. FlushKept'
    BY <1>11 DEF EndFlush, FlushKept, EditsTypes, FlushPlaces, Quiet, Drain, outside, caches
  <2>4. AskedFor'
    BY <1>11 DEF EndFlush, AskedFor, CallTypes, FlushKept, QueueKept, Superseded, EditCalls,
       EditPlaces, Answers, Quiet, Drain, outside, caches
  <2>5. MarkKept'
    BY <1>11 DEF EndFlush, MarkKept, EditsTypes, FlushPlaces, Quiet, Drain, outside, caches
  <2>6. OneAtTelegram'
    BY <1>11 DEF EndFlush, OneAtTelegram, EditsTypes, FlushPlaces, Quiet, Drain, outside,
       caches
  <2>7. SentExists'
    BY <1>11 DEF EndFlush, SentExists, MarkKept, Quiet, Drain, outside, caches
  <2>8. CallersAreAnswered'
    BY <1>11 DEF EndFlush, CallersAreAnswered, CallTypes, QueueKept, FlushKept, AskedFor,
       Superseded, EditCalls, EditPlaces, Answers, Quiet, Drain, outside, caches
  <2>9. DeletersAreTold'
    BY <1>11 DEF EndFlush, DeletersAreTold, EditsTypes, QueueKept, Superseded, FlushPlaces,
       Quiet,
       Drain, outside, caches
  <2>10. (CallTypes /\ CachedWasShown /\ SkippedWasShown)'
    BY <1>11 DEF EndFlush, CallTypes, CachedWasShown, SkippedWasShown, Drain, outside,
       caches
  <2> QED
    BY <2>1, <2>2, <2>3, <2>4, <2>5, <2>6, <2>7, <2>8, <2>9, <2>10 DEF EditsIInv
<1>12. ASSUME NEW barred \in BOOLEAN, NEW arrived \in BOOLEAN, ApplyFails(barred, arrived)
       PROVE  EditsIInv'
  <2>1. CallTypes'
    BY <1>12, ReplyType DEF ApplyFails, CallTypes, EditPlaces, Answers, Quiet, Superseded,
       outside
  <2>2. EditsTypes'
    BY <1>0, <1>12 DEF ApplyFails, EditsTypes, FlushPlaces, Quiet, outside
  <2>3. QueueKept'
    BY <1>12 DEF ApplyFails, QueueKept, CallTypes, EditCalls, EditPlaces, Answers,
       Superseded,
       Reply, Quiet, outside
  <2>4. FlushKept'
    BY <1>12 DEF ApplyFails, FlushKept, EditsTypes, FlushPlaces, Reply, Quiet, Superseded,
       outside
  <2>5. AskedFor'
    BY <1>12 DEF ApplyFails, AskedFor, CallTypes, FlushKept, QueueKept, Superseded,
       EditCalls,
       EditPlaces, Answers, Reply, Quiet, outside
  <2>6. MarkKept'
    BY <1>12 DEF ApplyFails, MarkKept, EditsTypes, FlushPlaces, Reply, Quiet, Superseded,
       outside
  <2>7. OneAtTelegram'
    BY <1>12 DEF ApplyFails, OneAtTelegram, EditsTypes, FlushPlaces, Reply, Quiet,
       Superseded,
       outside
  <2>8. SentExists'
    BY <1>12 DEF ApplyFails, SentExists, MarkKept, Reply, Quiet, Superseded, outside
  <2>9. CallersAreAnswered'
    BY <1>12 DEF ApplyFails, CallersAreAnswered, CallTypes, QueueKept, FlushKept, AskedFor,
       Superseded, EditCalls, EditPlaces, Answers, Reply, Quiet, outside
  <2>10. SkippedWasShown'
    BY <1>12 DEF ApplyFails, SkippedWasShown, CallTypes, EditsTypes, CachedWasShown,
       AskedFor,
       FlushKept, FlushPlaces, EditCalls, EditPlaces, Answers, Reply, Quiet, Superseded,
       outside
  <2>11. DeletersAreTold'
    <3>1. \A x \in Deletes :
            /\ delete'[x] = "waits" => delete[x] = "waits" /\ queued # NoContent
            /\ delete'[x] = "forgotten" => delete[x] \in {"waits", "forgotten"}
      BY <1>12 DEF ApplyFails, EditsTypes
    <3>2. queued # NoContent => cut' # {}
      BY <1>12 DEF ApplyFails, QueueKept
    <3>3. faults' > 0 \/ ~exists'
      BY <1>12 DEF ApplyFails, EditsTypes, outside
    <3> QED
      BY <3>1, <3>2, <3>3 DEF DeletersAreTold
  <2>12. CachedWasShown'
    BY <1>12 DEF ApplyFails, CachedWasShown, Reply, outside
  <2> QED
    BY <2>1, <2>2, <2>3, <2>4, <2>5, <2>6, <2>7, <2>8, <2>9, <2>10, <2>11, <2>12 DEF
       EditsIInv
<1>13. ASSUME NEW c \in Contents, ForgetContent(c) PROVE EditsIInv'
  <2>1. EditsTypes'
    BY <1>13 DEF ForgetContent, EditsTypes, FlushPlaces, outside
  <2>2. (CallTypes /\ QueueKept /\ FlushKept /\ AskedFor /\ CachedWasShown /\ MarkKept
           /\ OneAtTelegram /\ SentExists /\ CallersAreAnswered /\ SkippedWasShown
           /\ DeletersAreTold)'
    BY <1>13 DEF ForgetContent, CallTypes, QueueKept, FlushKept, AskedFor, CachedWasShown,
       MarkKept,
       OneAtTelegram, SentExists, CallersAreAnswered, SkippedWasShown, DeletersAreTold,
       Superseded,
       outside
  <2> QED
    BY <2>1, <2>2 DEF EditsIInv
<1>14. ASSUME NEW d \in Deletes, AskDelete(d) PROVE EditsIInv'
  <2>1. EditsTypes'
    BY <1>14 DEF AskDelete, EditsTypes, FlushPlaces, outside, caches
  <2>2. MarkKept'
    BY <1>14 DEF AskDelete, MarkKept, EditsTypes, FlushPlaces, outside, caches
  <2>3. OneAtTelegram'
    BY <1>14 DEF AskDelete, OneAtTelegram, EditsTypes, FlushPlaces, outside, caches
  <2>4. DeletersAreTold'
    BY <1>14 DEF AskDelete, DeletersAreTold, EditsTypes, QueueKept, Superseded, FlushPlaces,
       outside, caches
  <2>5. (CallTypes /\ QueueKept /\ FlushKept /\ AskedFor /\ CachedWasShown /\ SentExists
           /\ CallersAreAnswered /\ SkippedWasShown)'
    BY <1>14 DEF AskDelete, CallTypes, QueueKept, FlushKept, AskedFor, CachedWasShown,
       SentExists,
       CallersAreAnswered, SkippedWasShown, Superseded, outside, caches
  <2> QED
    BY <2>1, <2>2, <2>3, <2>4, <2>5 DEF EditsIInv
<1>15. ASSUME NEW d \in Deletes, BeginDelete(d) PROVE EditsIInv'
  <2>1. EditsTypes'
    BY <1>15 DEF BeginDelete, EditsTypes, FlushPlaces, LockFree, outside, caches
  <2>2. MarkKept'
    BY <1>15 DEF BeginDelete, MarkKept, EditsTypes, FlushPlaces, LockFree, outside, caches
  <2>3. OneAtTelegram'
    BY <1>15 DEF BeginDelete, OneAtTelegram, EditsTypes, FlushPlaces, LockFree, outside,
       caches
  <2>4. DeletersAreTold'
    BY <1>15 DEF BeginDelete, DeletersAreTold, EditsTypes, QueueKept, Superseded,
       FlushPlaces,
       LockFree, outside, caches
  <2>5. (CallTypes /\ QueueKept /\ FlushKept /\ AskedFor /\ CachedWasShown /\ SentExists
           /\ CallersAreAnswered /\ SkippedWasShown)'
    BY <1>15 DEF BeginDelete, CallTypes, QueueKept, FlushKept, AskedFor, CachedWasShown,
       SentExists,
       CallersAreAnswered, SkippedWasShown, Superseded, outside, caches
  <2> QED
    BY <2>1, <2>2, <2>3, <2>4, <2>5 DEF EditsIInv
<1>16. ASSUME NEW d \in Deletes, DeleteOverBudget(d) PROVE EditsIInv'
  <2>1. EditsTypes'
    BY <1>16 DEF DeleteOverBudget, EditsTypes, FlushPlaces, outside, caches
  <2>2. MarkKept'
    BY <1>16 DEF DeleteOverBudget, MarkKept, EditsTypes, FlushPlaces, outside, caches
  <2>3. OneAtTelegram'
    BY <1>16 DEF DeleteOverBudget, OneAtTelegram, EditsTypes, FlushPlaces, outside, caches
  <2>4. DeletersAreTold'
    BY <1>16 DEF DeleteOverBudget, DeletersAreTold, EditsTypes, QueueKept, Superseded,
       FlushPlaces,
       outside, caches
  <2>5. (CallTypes /\ QueueKept /\ FlushKept /\ AskedFor /\ CachedWasShown /\ SentExists
           /\ CallersAreAnswered /\ SkippedWasShown)'
    BY <1>16 DEF DeleteOverBudget, CallTypes, QueueKept, FlushKept, AskedFor,
       CachedWasShown,
       SentExists, CallersAreAnswered, SkippedWasShown, Superseded, outside, caches
  <2> QED
    BY <2>1, <2>2, <2>3, <2>4, <2>5 DEF EditsIInv
<1>17. ASSUME NEW d \in Deletes, Deleted(d) PROVE EditsIInv'
  <2>1. EditsTypes'
    BY <1>17 DEF Deleted, EditsTypes, FlushPlaces, Purge, Superseded, Quiet
  <2>2. QueueKept'
    BY <1>17 DEF Deleted, QueueKept, CallTypes, EditCalls, EditPlaces, Answers, Superseded,
       Purge,
       Quiet
  <2>3. FlushKept'
    BY <1>17 DEF Deleted, FlushKept, EditsTypes, FlushPlaces, Purge, Superseded, Quiet
  <2>4. AskedFor'
    BY <1>17 DEF Deleted, AskedFor, CallTypes, FlushKept, QueueKept, Superseded, EditCalls,
       EditPlaces, Answers, Purge, Quiet
  <2>5. CachedWasShown'
    BY <1>17 DEF Deleted, CachedWasShown, Purge, Superseded, Quiet
  <2>6. MarkKept'
    BY <1>17 DEF Deleted, MarkKept, EditsTypes, FlushPlaces, Purge, Superseded, Quiet
  <2>7. OneAtTelegram'
    BY <1>17 DEF Deleted, OneAtTelegram, EditsTypes, FlushPlaces, Purge, Superseded, Quiet
  <2>8. SentExists'
    BY <1>17 DEF Deleted, SentExists, MarkKept, Purge, Superseded, Quiet
  <2>9. CallersAreAnswered'
    BY <1>17 DEF Deleted, CallersAreAnswered, CallTypes, QueueKept, FlushKept, AskedFor,
       Superseded,
       EditCalls, EditPlaces, Answers, Purge, Quiet
  <2>10. DeletersAreTold'
    BY <1>17 DEF Deleted, DeletersAreTold, EditsTypes, QueueKept, Superseded, FlushPlaces,
       Purge,
       Quiet
  <2>11. (CallTypes /\ SkippedWasShown)'
    BY <1>17 DEF Deleted, CallTypes, SkippedWasShown, Purge
  <2> QED
    BY <2>1, <2>2, <2>3, <2>4, <2>5, <2>6, <2>7, <2>8, <2>9, <2>10, <2>11 DEF EditsIInv
<1>18. ASSUME NEW d \in Deletes, NEW suppressed \in BOOLEAN, NEW late \in BOOLEAN,
              DeleteFails(d, suppressed, late)
       PROVE  EditsIInv'
  <2>1. EditsTypes'
    <3>1. faults' \in Nat
      BY <1>0
    <3>2. UNCHANGED <<queued, waiters, flush, exists, everShown>>
          \/ (Purge(d, IF late THEN "late" ELSE "done") /\ UNCHANGED <<exists, everShown>>)
      BY <1>18 DEF DeleteFails, outside
    <3>3. /\ flush' \in [at : FlushPlaces, content : Contents \cup {NoContent},
               for : SUBSET Edits]
          /\ queued' \in Contents \cup {NoContent} /\ waiters' \subseteq Edits
      BY <3>2 DEF Purge, EditsTypes, Quiet, FlushPlaces
    <3>4. delete' \in [Deletes -> {"none", "waits", "drained", "deleting", "late",
            "forgotten", "done"}]
      BY <1>18 DEF DeleteFails, Purge, TakeMarkBack, EditsTypes
    <3>5. remembered' \subseteq everShown' /\ exists' \in BOOLEAN /\ marked' \in BOOLEAN
      BY <1>18, <3>2 DEF DeleteFails, TakeMarkBack, EditsTypes
    <3>6. unmarked' \in BOOLEAN
      BY <1>18 DEF DeleteFails, TakeMarkBack, EditsTypes
    <3> QED
      BY <3>1, <3>3, <3>4, <3>5, <3>6 DEF EditsTypes
  <2>2. QueueKept'
    BY <1>18 DEF DeleteFails, QueueKept, CallTypes, EditCalls, EditPlaces, Answers,
       Superseded,
       Purge, TakeMarkBack, outside, Quiet
  <2>3. FlushKept'
    BY <1>18 DEF DeleteFails, FlushKept, EditsTypes, FlushPlaces, Purge, TakeMarkBack, outside,
       Superseded, Quiet
  <2>4. AskedFor'
    BY <1>18 DEF DeleteFails, AskedFor, CallTypes, FlushKept, QueueKept, Superseded,
       EditCalls,
       EditPlaces, Answers, Purge, TakeMarkBack, outside, Quiet
  <2>5. MarkKept'
    BY <1>18 DEF DeleteFails, MarkKept, EditsTypes, FlushPlaces, Purge, TakeMarkBack, outside, Superseded,
       Quiet
  <2>6. OneAtTelegram'
    BY <1>18 DEF DeleteFails, OneAtTelegram, EditsTypes, FlushPlaces, Purge, TakeMarkBack, outside,
       Superseded,
       Quiet
  <2>7. SentExists'
    BY <1>18 DEF DeleteFails, SentExists, MarkKept, Purge, TakeMarkBack, outside, Superseded, Quiet
  <2>8. CallersAreAnswered'
    BY <1>18 DEF DeleteFails, CallersAreAnswered, CallTypes, QueueKept, FlushKept, AskedFor,
       Superseded, EditCalls, EditPlaces, Answers, Purge, TakeMarkBack, outside, Quiet
  <2>9. DeletersAreTold'
    BY <1>18 DEF DeleteFails, DeletersAreTold, EditsTypes, QueueKept, Superseded,
       FlushPlaces,
       Purge, TakeMarkBack, outside, Quiet
  <2>10. (CallTypes /\ CachedWasShown /\ SkippedWasShown)'
    BY <1>18 DEF DeleteFails, CallTypes, CachedWasShown, SkippedWasShown, Purge, TakeMarkBack, outside
  <2> QED
    BY <2>1, <2>2, <2>3, <2>4, <2>5, <2>6, <2>7, <2>8, <2>9, <2>10 DEF EditsIInv
<1>19. ASSUME NEW d \in Deletes, GiveUpDelete(d) PROVE EditsIInv'
  <2>1. EditsTypes'
    BY <1>19 DEF GiveUpDelete, EditsTypes, FlushPlaces, outside, caches
  <2>2. MarkKept'
    BY <1>19 DEF GiveUpDelete, MarkKept, EditsTypes, FlushPlaces, outside, caches
  <2>3. OneAtTelegram'
    BY <1>19 DEF GiveUpDelete, OneAtTelegram, EditsTypes, FlushPlaces, outside, caches
  <2>4. DeletersAreTold'
    BY <1>19 DEF GiveUpDelete, DeletersAreTold, EditsTypes, QueueKept, Superseded,
       FlushPlaces,
       outside, caches
  <2>5. (CallTypes /\ QueueKept /\ FlushKept /\ AskedFor /\ CachedWasShown /\ SentExists
           /\ CallersAreAnswered /\ SkippedWasShown)'
    BY <1>19 DEF GiveUpDelete, CallTypes, QueueKept, FlushKept, AskedFor, CachedWasShown,
       SentExists, CallersAreAnswered, SkippedWasShown, Superseded, outside, caches
  <2> QED
    BY <2>1, <2>2, <2>3, <2>4, <2>5 DEF EditsIInv
<1>20. ASSUME NEW d \in Deletes, CancelDelete(d) PROVE EditsIInv'
  <2>1. EditsTypes'
    BY <1>20 DEF CancelDelete, TakeMarkBack, EditsTypes, FlushPlaces, outside
  <2>2. MarkKept'
    BY <1>20 DEF CancelDelete, TakeMarkBack, MarkKept, EditsTypes, outside
  <2>3. OneAtTelegram'
    BY <1>20 DEF CancelDelete, OneAtTelegram, EditsTypes, outside
  <2>4. DeletersAreTold'
    BY <1>20 DEF CancelDelete, DeletersAreTold, EditsTypes, outside
  <2>5. SentExists'
    BY <1>20 DEF CancelDelete, TakeMarkBack, SentExists, outside
  <2>6. (CallTypes /\ QueueKept /\ FlushKept /\ AskedFor /\ CachedWasShown
           /\ CallersAreAnswered /\ SkippedWasShown)'
    BY <1>20 DEF CancelDelete, CallTypes, QueueKept, FlushKept, AskedFor, CachedWasShown,
       CallersAreAnswered, SkippedWasShown, Superseded, outside
  <2> QED
    BY <2>1, <2>2, <2>3, <2>4, <2>5, <2>6 DEF EditsIInv
<1>21. ASSUME NEW d \in Deletes, LateDelete(d) PROVE EditsIInv'
  <2>1. EditsTypes'
    BY <1>21 DEF LateDelete, EditsTypes, FlushPlaces, caches
  <2>2. MarkKept'
    BY <1>21 DEF LateDelete, MarkKept, EditsTypes
  <2>3. OneAtTelegram'
    BY <1>21 DEF LateDelete, OneAtTelegram, EditsTypes
  <2>4. DeletersAreTold'
    BY <1>21 DEF LateDelete, DeletersAreTold, EditsTypes
  <2>5. SentExists'
    BY <1>21 DEF LateDelete, SentExists, MarkKept
  <2>6. (CallTypes /\ QueueKept /\ FlushKept /\ AskedFor /\ CachedWasShown
           /\ CallersAreAnswered /\ SkippedWasShown)'
    BY <1>21 DEF LateDelete, CallTypes, QueueKept, FlushKept, AskedFor, CachedWasShown,
       CallersAreAnswered, SkippedWasShown, Superseded, caches
  <2> QED
    BY <2>1, <2>2, <2>3, <2>4, <2>5, <2>6 DEF EditsIInv
<1> QED
  BY <1>1, <1>2, <1>3, <1>4, <1>5, <1>6, <1>7, <1>8, <1>9, <1>10, <1>11, <1>12, <1>13,
     <1>14, <1>15, <1>16, <1>17, <1>18, <1>19, <1>20, <1>21 DEF EditsNext, FlushStep

\* A message that shows its first content.
LEMMA EditsInitHolds ==
    ASSUME NEW c \in Contents, EditsInit(c)
    PROVE  EditsIInv
<1> USE EditsAssumption
<1>1. CallTypes
  <2>1. [at |-> "none", content |-> NoContent, by |-> "nobody"] \in EditCalls
    BY DEF EditCalls, EditPlaces, Answers
  <2> QED
    BY <2>1 DEF EditsInit, CallTypes
<1>2. \A e \in Edits : edit[e].at = "none" /\ edit[e].by = "nobody"
  BY DEF EditsInit
<1>3. delete \in [Deletes -> {"none"}]
  BY DEF EditsInit
<1>4. /\ flush \in [at : FlushPlaces, content : Contents \cup {NoContent},
           for : SUBSET Edits]
      /\ flush.at = "none" /\ flush.for = {}
  BY DEF EditsInit, Quiet, FlushPlaces
<1>5. EditsTypes
  <2>1. exists \in BOOLEAN /\ marked \in BOOLEAN /\ unmarked \in BOOLEAN
    BY Zenon DEF EditsInit
  <2> QED
    BY <1>3, <1>4, <2>1 DEF EditsInit, EditsTypes
<1>6. QueueKept /\ FlushKept /\ AskedFor /\ CallersAreAnswered
  BY <1>2, <1>4 DEF EditsInit, QueueKept, FlushKept, AskedFor, CallersAreAnswered,
     Superseded
<1>7. CachedWasShown /\ SkippedWasShown
  BY <1>2 DEF EditsInit, CachedWasShown, SkippedWasShown
<1>8. MarkKept /\ OneAtTelegram /\ SentExists /\ DeletersAreTold
  BY <1>3, <1>4 DEF EditsInit, MarkKept, OneAtTelegram, SentExists, DeletersAreTold
<1> QED
  BY <1>1, <1>5, <1>6, <1>7, <1>8 DEF EditsIInv

\* No edit is at Telegram next to a deletion, nor two deletions.
LEMMA OneCall ==
    ASSUME EditsIInv PROVE NoEditAfterDelete
<1> DEFINE D == {d \in Deletes : delete[d] = "deleting"}
<1>1. CASE D = {}
  <2>1. Cardinality(D) = 0
    BY <1>1, FS_EmptySet
  <2> QED
    BY <2>1 DEF EditsIInv, SentExists, NoEditAfterDelete
<1>2. CASE D # {}
  <2>1. PICK d \in D : TRUE
    BY <1>2
  <2>2. D = {d} /\ flush.at # "sending"
    BY <2>1 DEF EditsIInv, OneAtTelegram
  <2>3. Cardinality({d}) = 1
    BY FS_Singleton
  <2>4. Cardinality(D) = 1
    BY <2>2, <2>3
  <2> QED
    BY <2>2, <2>4 DEF NoEditAfterDelete
<1> QED
  BY <1>1, <1>2

\* EditsInv, what the callers of MessagingService rely on: every call that was
\* queued is waited for by a flush or is answered, a caller whom a cache answers has
\* had his text shown, and a message that was deleted is not edited.  The exceptions
\* are those the parts name: a deletion that threw the queue away, a refused edit, a
\* deletion that took its mark off, refused or given up before Telegram had answered.
THEOREM EditsAreAnswered == EditsSpec => []EditsInv
<1>1. (\E c \in Contents : EditsInit(c)) => EditsIInv
  BY EditsInitHolds
<1>2. EditsIInv /\ [EditsNext]_editVars => EditsIInv'
  <2> SUFFICES ASSUME EditsIInv, [EditsNext]_editVars PROVE EditsIInv'
    OBVIOUS
  <2>1. CASE EditsNext
    BY <2>1, EditsStep
  <2>2. CASE UNCHANGED editVars
    <3>1. (CallTypes /\ EditsTypes /\ QueueKept /\ FlushKept /\ AskedFor /\ CachedWasShown)'
      BY <2>2 DEF editVars, EditsIInv, CallTypes, EditsTypes, QueueKept, FlushKept,
         AskedFor, CachedWasShown, Superseded
    <3>2. (MarkKept /\ OneAtTelegram /\ SentExists /\ CallersAreAnswered /\ SkippedWasShown
             /\ DeletersAreTold)'
      BY <2>2 DEF editVars, EditsIInv, MarkKept, OneAtTelegram, SentExists,
         CallersAreAnswered, SkippedWasShown,
         DeletersAreTold
    <3> QED
      BY <3>1, <3>2 DEF EditsIInv
  <2> QED
    BY <2>1, <2>2
<1>3. EditsIInv => EditsInv
  BY OneCall DEF EditsIInv, EditsInv
<1> QED
  BY <1>1, <1>2, <1>3, PTL DEF EditsSpec


-----------------------------------------------------------------------------
(* The statistics of a player *)

Flushes == [at : {"idle", "writing", "direct", "backoff"}, batch : Seq(Hands), done : Nat,
            tries : Nat]

Batch(f) == flusher[f].batch

Done(f) == flusher[f].done

Distinct(s) == \A i, j \in 1..Len(s) : s[i] = s[j] => i = j

\* x finished before y.
Before(x, y) == \E i, j \in 1..Len(added) : i < j /\ added[i] = x /\ added[j] = y

InLine(s) == \A i, j \in 1..Len(s) : i < j => Before(s[i], s[j])

\* What is in the buffer, in the batch of a flush, and still to be written there.
Buffered == {buffer[i] : i \in 1..Len(buffer)}

Taken(f) == {Batch(f)[i] : i \in 1..Len(Batch(f))}

Left(f) == {Batch(f)[i] : i \in Done(f) + 1..Len(Batch(f))}

StatsShape ==
  /\ finished \in [Hands -> {"none", "added", "full", "flushing", "reported"}]
  /\ added \in Seq(Hands) /\ buffer \in Seq(Hands) /\ applied \in Seq(rows)
  /\ flusher \in [Flushers -> Flushes]
  /\ \A f \in Flushers : /\ Done(f) <= Len(Batch(f))
                         /\ flusher[f].at = "idle" => flusher[f] = Rest
  /\ counted \in [Hands -> Nat] /\ rows \subseteq Hands /\ redone \subseteq Hands
  /\ lost \subseteq Hands /\ reordered \in BOOLEAN

\* A hand is buffered once; until then it has no flush.
AddedOnce ==
  /\ Distinct(added)
  /\ \A h \in Hands :
       IF finished[h] = "none"
       THEN /\ \A i \in 1..Len(added) : added[i] # h
            /\ flusher[h].at = "idle" /\ h \notin rows
       ELSE \E i \in 1..Len(added) : added[i] = h

\* A record is in one place, once, as soon as it is added.
OnePlace ==
  /\ Distinct(buffer) /\ \A f \in Flushers : Distinct(Batch(f))
  /\ \A h \in Buffered : finished[h] # "none"
  /\ \A f \in Flushers : /\ Taken(f) \cap Buffered = {}
                         /\ \A h \in Taken(f) : finished[h] # "none"
                         /\ \A g \in Flushers : f # g => Taken(f) \cap Taken(g) = {}

\* What is in no place any more was written or given up, as what a flush has done.
Accounted ==
  /\ \A h \in Hands : finished[h] # "none" =>
       h \in rows \cup lost \cup Buffered \cup UNION {Left(f) : f \in Flushers}
  /\ \A f \in Flushers : \A h \in Taken(f) : h \in rows \cup lost \cup Left(f)

\* Only what a shutdown put back is written again.
WrittenAgain ==
  /\ \A h \in Buffered : h \in rows => h \in redone
  /\ \A f \in Flushers : \A h \in Left(f) : h \in rows => h \in redone

\* With one flush at a time the records stand in the order the hands finished, what
\* it took before what was buffered since; and what was counted was so before what
\* is still to come, but for what is written again.
OneLine ==
  ~reordered =>
    /\ \A f, g \in Flushers : flusher[f].at # "idle" /\ flusher[g].at # "idle" => f = g
    /\ InLine(buffer)
    /\ \A f \in Flushers : /\ InLine(Batch(f))
                           /\ \A x \in Taken(f), y \in Buffered : Before(x, y)
    /\ \A x \in rows, y \in Buffered : y \in rows \cup lost \/ Before(x, y)
    /\ \A f \in Flushers : \A x \in rows, y \in Left(f) : y \in rows \cup lost
         \/ Before(x, y)
    /\ \A i, j \in 1..Len(applied) : i < j /\ applied[j] \notin lost
         => Before(applied[i], applied[j])

StatsIInv ==
  /\ StatsShape /\ AddedOnce /\ OnePlace /\ Accounted /\ TotalsMatchHistory /\ WrittenAgain
  /\ OneLine

\* A flush and its records.
LEMMA FlushOf ==
    ASSUME StatsShape, NEW f \in Flushers
    PROVE  /\ Batch(f) \in Seq(Hands) /\ Done(f) \in Nat /\ Done(f) <= Len(Batch(f))
           /\ Len(Batch(f)) \in Nat /\ Left(f) \subseteq Taken(f)
           /\ Taken(f) \subseteq Hands
           /\ flusher[f].at = "idle" => Batch(f) = <<>> /\ Taken(f) = {} /\ Left(f) = {}
<1>1. /\ Batch(f) \in Seq(Hands) /\ Done(f) \in Nat /\ Done(f) <= Len(Batch(f))
  BY DEF StatsShape, Flushes, Batch, Done
<1>2. Len(Batch(f)) \in Nat /\ \A i \in 1..Len(Batch(f)) : Batch(f)[i] \in Hands
  BY <1>1
<1>3. Left(f) \subseteq Taken(f) /\ Taken(f) \subseteq Hands
  BY <1>1, <1>2 DEF Left, Taken
<1>4. flusher[f].at = "idle" => Batch(f) = <<>>
  BY DEF StatsShape, Rest, Batch
<1>5. Batch(f) = <<>> => Taken(f) = {}
  BY DEF Taken
<1> QED
  BY <1>1, <1>2, <1>3, <1>4, <1>5

\* Another flush in its place.
LEMMA NewFlush ==
    ASSUME StatsShape, NEW f \in Flushers, NEW r \in Flushes,
           flusher' = [flusher EXCEPT ![f] = r]
    PROVE  /\ flusher' \in [Flushers -> Flushes]
           /\ flusher'[f] = r /\ Batch(f)' = r.batch /\ Done(f)' = r.done
           /\ Taken(f)' = {r.batch[i] : i \in 1..Len(r.batch)}
           /\ Left(f)' = {r.batch[i] : i \in r.done + 1..Len(r.batch)}
           /\ \A g \in Flushers : g # f =>
                /\ flusher'[g] = flusher[g] /\ Batch(g)' = Batch(g) /\ Done(g)' = Done(g)
                /\ Taken(g)' = Taken(g) /\ Left(g)' = Left(g)
<1>1. flusher' \in [Flushers -> Flushes] /\ flusher'[f] = r
      /\ \A g \in Flushers : g # f => flusher'[g] = flusher[g]
  BY DEF StatsShape
<1>2. Batch(f)' = r.batch /\ Done(f)' = r.done
  BY <1>1 DEF Batch, Done
<1>3. \A g \in Flushers : g # f => Batch(g)' = Batch(g) /\ Done(g)' = Done(g)
  BY <1>1 DEF Batch, Done
<1> QED
  BY <1>1, <1>2, <1>3 DEF Taken, Left

\* No flush.
LEMMA RestIsFlush == Rest \in Flushes /\ Rest.batch = <<>> /\ Rest.done = 0
  /\ Rest.at = "idle"
<1>1. <<>> \in Seq(Hands)
  OBVIOUS
<1> QED
  BY <1>1 DEF Rest, Flushes

\* A flush begins.
LEMMA StartedFlush ==
    ASSUME NEW a \in {"writing", "direct"}, NEW b \in Seq(Hands)
    PROVE  LET r == [Rest EXCEPT !.at = a, !.batch = b]
           IN  r \in Flushes /\ r.at = a /\ r.batch = b /\ r.done = 0
BY DEF Rest, Flushes

\* The end of a flush.
LEMMA NoFlush ==
    ASSUME StatsShape, NEW f \in Flushers, flusher' = [flusher EXCEPT ![f] = Rest]
    PROVE  /\ flusher' \in [Flushers -> Flushes]
           /\ flusher'[f] = Rest /\ flusher'[f].at = "idle"
           /\ Batch(f)' = <<>> /\ Done(f)' = 0 /\ Taken(f)' = {} /\ Left(f)' = {}
           /\ \A g \in Flushers : g # f =>
                /\ flusher'[g] = flusher[g] /\ Batch(g)' = Batch(g) /\ Done(g)' = Done(g)
                /\ Taken(g)' = Taken(g) /\ Left(g)' = Left(g)
<1>1. Rest \in Flushes /\ Rest.batch = <<>> /\ Rest.done = 0 /\ Rest.at = "idle"
  BY RestIsFlush
<1>2. \A i \in 1..Len(<<>>) : FALSE
  OBVIOUS
<1>3. {Rest.batch[i] : i \in 1..Len(Rest.batch)} = {}
        /\ {Rest.batch[i] : i \in Rest.done + 1..Len(Rest.batch)} = {}
  BY <1>1, <1>2
<1> QED
  BY <1>1, <1>3, NewFlush

\* Who finished before whom stays so.
LEMMA BeforeStays ==
    ASSUME StatsShape, NEW x, NEW y, Before(x, y),
           \/ added' = added
           \/ \E h \in Hands : added' = Append(added, h)
    PROVE  Before(x, y)'
<1>1. PICK i \in 1..Len(added), j \in 1..Len(added) : i < j /\ added[i] = x /\ added[j] = y
  BY DEF Before
<1>2. CASE added' = added
  BY <1>1, <1>2 DEF Before
<1>3. ASSUME NEW h \in Hands, added' = Append(added, h) PROVE Before(x, y)'
  <2>1. added \in Seq(Hands)
    BY DEF StatsShape
  <2>2. /\ i \in 1..Len(added') /\ j \in 1..Len(added')
        /\ added'[i] = x /\ added'[j] = y
    BY <1>1, <1>3, <2>1
  <2> QED
    BY <1>1, <2>2 DEF Before
<1> QED
  BY <1>2, <1>3

\* What is added now comes after everything that was.
LEMMA BeforeNew ==
    ASSUME StatsShape, AddedOnce, NEW h \in Hands, added' = Append(added, h),
           NEW x \in Hands, finished[x] # "none"
    PROVE  Before(x, h)'
<1>1. added \in Seq(Hands)
  BY DEF StatsShape
<1>2. PICK i \in 1..Len(added) : added[i] = x
  BY DEF AddedOnce
<1>3. LET n == Len(added) IN
        /\ n \in Nat /\ Len(added') = n + 1 /\ added'[n + 1] = h
        /\ i \in 1..(n + 1) /\ n + 1 \in 1..(n + 1) /\ i < n + 1 /\ added'[i] = x
  BY <1>1, <1>2
<1> QED
  BY <1>3 DEF Before

\* Something new at the end of a sequence without repetitions.
LEMMA DistinctGrows ==
    ASSUME NEW s \in Seq(Hands), NEW h \in Hands, Distinct(s), \A i \in 1..Len(s) : s[i] # h
    PROVE  Distinct(Append(s, h))
<1>1. /\ Len(s) \in Nat /\ Len(Append(s, h)) = Len(s) + 1 /\ Append(s, h)[Len(s) + 1] = h
      /\ \A i \in 1..Len(s) : Append(s, h)[i] = s[i]
  OBVIOUS
<1> DEFINE t == Append(s, h)
           n == Len(s)
<1> HIDE DEF t, n
<1>2. /\ n \in Nat /\ Len(t) = n + 1 /\ t[n + 1] = h /\ \A i \in 1..n : t[i] = s[i]
           /\ s[i] # h
      /\ \A i, j \in 1..n : s[i] = s[j] => i = j
  BY <1>1 DEF t, n, Distinct
<1>3. \A i \in 1..(n + 1) : i \in 1..n \/ i = n + 1
  BY <1>2
<1>5. Distinct(t)
  BY <1>2, <1>3 DEF Distinct
<1> QED
  BY <1>5 DEF t

\* One line behind another.
LEMMA LinesJoin ==
    ASSUME NEW s \in Seq(Hands), NEW t \in Seq(Hands)
    PROVE  /\ s \o t \in Seq(Hands)
           /\ {(s \o t)[i] : i \in 1..Len(s \o t)}
                = {s[i] : i \in 1..Len(s)} \cup {t[i] : i \in 1..Len(t)}
           /\ (/\ Distinct(s) /\ Distinct(t)
               /\ {s[i] : i \in 1..Len(s)} \cap {t[i] : i \in 1..Len(t)} = {})
                => Distinct(s \o t)
           /\ (/\ InLine(s) /\ InLine(t)
               /\ \A i \in 1..Len(s), j \in 1..Len(t) : Before(s[i], t[j]))
                => InLine(s \o t)
<1> DEFINE u == s \o t
           m == Len(s)
           n == Len(t)
<1>1. /\ u \in Seq(Hands) /\ m \in Nat /\ n \in Nat /\ Len(u) = m + n
      /\ \A i \in 1..(m + n) : u[i] = IF i <= m THEN s[i] ELSE t[i - m]
  BY ConcatProperties
<1> HIDE DEF u, m, n
<1>2. \A i \in 1..m : i \in 1..Len(u) /\ u[i] = s[i]
  BY <1>1
<1>3. \A j \in 1..n : m + j \in 1..Len(u) /\ u[m + j] = t[j]
  BY <1>1
<1>4. \A i \in 1..Len(u) : \/ i \in 1..m
                           \/ i - m \in 1..n /\ i = m + (i - m) /\ u[i] = t[i - m]
  BY <1>1
<1>5. {u[i] : i \in 1..Len(u)} = {s[i] : i \in 1..m} \cup {t[i] : i \in 1..n}
  BY <1>2, <1>3, <1>4
<1>6. ASSUME Distinct(s), Distinct(t), {s[i] : i \in 1..m} \cap {t[i] : i \in 1..n} = {}
      PROVE  Distinct(u)
  <2>1. /\ \A i, j \in 1..m : s[i] = s[j] => i = j
        /\ \A i, j \in 1..n : t[i] = t[j] => i = j
    BY <1>6 DEF Distinct, m, n
  <2>2. \A i \in 1..m, j \in 1..n : s[i] # t[j]
    BY <1>6
  <2>3. SUFFICES ASSUME NEW i \in 1..Len(u), NEW j \in 1..Len(u), u[i] = u[j] PROVE i = j
    BY DEF Distinct
  <2>4. CASE i \in 1..m /\ j \in 1..m
    BY <1>2, <2>1, <2>3, <2>4
  <2>5. CASE i \in 1..m /\ ~(j \in 1..m)
    BY <1>2, <1>4, <2>2, <2>3, <2>5
  <2>6. CASE ~(i \in 1..m) /\ j \in 1..m
    BY <1>2, <1>4, <2>2, <2>3, <2>6
  <2>7. CASE ~(i \in 1..m) /\ ~(j \in 1..m)
    <3>1. i - m = j - m
      BY <1>4, <2>1, <2>3, <2>7
    <3> QED
      BY <1>1, <3>1
  <2> QED
    BY <2>4, <2>5, <2>6, <2>7
<1>7. ASSUME InLine(s), InLine(t), \A i \in 1..m, j \in 1..n : Before(s[i], t[j])
      PROVE  InLine(u)
  <2>1. /\ \A i, j \in 1..m : i < j => Before(s[i], s[j])
        /\ \A i, j \in 1..n : i < j => Before(t[i], t[j])
    BY <1>7 DEF InLine, m, n
  <2>2. SUFFICES ASSUME NEW i \in 1..Len(u), NEW j \in 1..Len(u), i < j
                 PROVE  Before(u[i], u[j])
    BY DEF InLine
  <2>3. CASE i \in 1..m /\ j \in 1..m
    BY <1>2, <2>1, <2>2, <2>3
  <2>4. CASE i \in 1..m /\ ~(j \in 1..m)
    BY <1>2, <1>4, <1>7, <2>4
  <2>5. CASE ~(i \in 1..m)
    <3>1. ~(j \in 1..m) /\ i - m < j - m
      BY <1>1, <2>2, <2>5
    <3> QED
      BY <1>4, <2>1, <2>5, <3>1
  <2> QED
    BY <2>3, <2>4, <2>5
<1>8. {(s \o t)[i] : i \in 1..Len(s \o t)}
        = {s[i] : i \in 1..Len(s)} \cup {t[i] : i \in 1..Len(t)}
  BY <1>5 DEF u, m, n
<1>9. (/\ Distinct(s) /\ Distinct(t)
       /\ {s[i] : i \in 1..Len(s)} \cap {t[i] : i \in 1..Len(t)} = {})
      => Distinct(s \o t)
  BY <1>6 DEF u, m, n
<1>10. (/\ InLine(s) /\ InLine(t)
        /\ \A i \in 1..Len(s), j \in 1..Len(t) : Before(s[i], t[j]))
       => InLine(s \o t)
  BY <1>7 DEF u, m, n
<1>11. s \o t \in Seq(Hands)
  BY <1>1 DEF u
<1> QED
  BY <1>8, <1>9, <1>10, <1>11

\* The records in the buffer and in the flushes are hands.
LEMMA PlacesOfHands ==
    ASSUME StatsShape
    PROVE  /\ Buffered \subseteq Hands /\ Len(buffer) \in Nat
                /\ \A i \in 1..Len(buffer) : buffer[i] \in Buffered
           /\ \A f \in Flushers : /\ Taken(f) \subseteq Hands /\ Left(f) \subseteq Taken(f)
                                  /\ \A i \in 1..Len(Batch(f)) : Batch(f)[i] \in Taken(f)
<1>1. buffer \in Seq(Hands)
  BY DEF StatsShape
<1>2. Len(buffer) \in Nat /\ \A i \in 1..Len(buffer) : buffer[i] \in Hands
  BY <1>1
<1>3. \A f \in Flushers : \A i \in 1..Len(Batch(f)) : Batch(f)[i] \in Taken(f)
  BY DEF Taken
<1> QED
  BY <1>2, <1>3, FlushOf DEF Buffered

\* Steps that only move a caller on, or readers, or caches.
LEMMA NoRecordMoves ==
    ASSUME StatsIInv,
           UNCHANGED <<added, buffer, flusher, counted, rows, applied, redone, lost,
             reordered>>,
           finished' \in [Hands -> {"none", "added", "full", "flushing", "reported"}],
           \A h \in Hands : finished'[h] = "none" <=> finished[h] = "none"
    PROVE  StatsIInv'
<1>1. Buffered' = Buffered /\ \A f \in Flushers : Batch(f)' = Batch(f) /\ Done(f)' = Done(f)
  BY DEF Buffered, Batch, Done
<1>2. \A f \in Flushers : Taken(f)' = Taken(f) /\ Left(f)' = Left(f)
  BY <1>1 DEF Taken, Left
<1>3. \A x, y : Before(x, y)' <=> Before(x, y)
  BY DEF Before
<1>4. \A s : InLine(s)' <=> InLine(s)
  BY <1>3 DEF InLine
<1>5. StatsShape'
  BY <1>1 DEF StatsIInv, StatsShape
<1>6. AddedOnce'
  BY DEF StatsIInv, AddedOnce
<1>7. OnePlace'
  <2>1. \A h \in Hands : finished[h] # "none" => finished'[h] # "none"
    OBVIOUS
  <2>2. Buffered \subseteq Hands /\ \A f \in Flushers : Taken(f) \subseteq Hands
    BY PlacesOfHands DEF StatsIInv
  <2> QED
    BY <1>1, <1>2, <2>1, <2>2 DEF StatsIInv, OnePlace
<1>8. Accounted' /\ TotalsMatchHistory' /\ WrittenAgain'
  BY <1>1, <1>2 DEF StatsIInv, Accounted, TotalsMatchHistory, WrittenAgain
<1>9. OneLine'
  BY <1>1, <1>2, <1>3, <1>4 DEF StatsIInv, OneLine
<1> QED
  BY <1>5, <1>6, <1>7, <1>8, <1>9 DEF StatsIInv

\* A record joins the buffer.
LEMMA BufferKeeps ==
    ASSUME StatsIInv, NEW h \in Hands, finished[h] = "none",
           buffer' = Append(buffer, h), added' = Append(added, h),
           NEW v \in {"added", "full"}, finished' = [finished EXCEPT ![h] = v],
           UNCHANGED <<flusher, counted, rows, applied, redone, lost, reordered>>
    PROVE  StatsIInv'
<1>1. /\ added \in Seq(Hands) /\ buffer \in Seq(Hands) /\ added' \in Seq(Hands)
      /\ buffer' \in Seq(Hands)
      /\ finished' \in [Hands -> {"none", "added", "full", "flushing", "reported"}]
      /\ finished'[h] # "none" /\ \A x \in Hands : x # h => finished'[x] = finished[x]
  BY DEF StatsIInv, StatsShape
<1>2. /\ Len(buffer) \in Nat /\ Len(buffer') = Len(buffer) + 1
      /\ buffer'[Len(buffer) + 1] = h
      /\ \A i \in 1..Len(buffer) : buffer'[i] = buffer[i]
  BY <1>1
<1>3. Buffered' = Buffered \cup {h}
  <2>1. \A i \in 1..(Len(buffer) + 1) : i \in 1..Len(buffer) \/ i = Len(buffer) + 1
    BY <1>2
  <2>2. \A i \in 1..Len(buffer) : i \in 1..(Len(buffer) + 1)
    BY <1>2
  <2>3. Len(buffer) + 1 \in 1..(Len(buffer) + 1)
    BY <1>2
  <2> QED
    BY <1>2, <2>1, <2>2, <2>3 DEF Buffered
<1>4. \A f \in Flushers : Batch(f)' = Batch(f) /\ Done(f)' = Done(f)
  BY DEF Batch, Done
<1>5. \A f \in Flushers : Taken(f)' = Taken(f) /\ Left(f)' = Left(f)
  BY <1>4 DEF Taken, Left
<1>6. /\ h \notin rows /\ h \notin Buffered /\ \A f \in Flushers : h \notin Taken(f)
           /\ h \notin Left(f)
  <2>1. \A f \in Flushers : Left(f) \subseteq Taken(f)
    BY PlacesOfHands DEF StatsIInv
  <2> QED
    BY <2>1 DEF StatsIInv, AddedOnce, OnePlace
<1>7. \A x, y : Before(x, y) => Before(x, y)'
  BY BeforeStays DEF StatsIInv
<1>8. \A x \in Hands : finished[x] # "none" => Before(x, h)'
  BY BeforeNew DEF StatsIInv
<1>9. \A x \in rows \cup Buffered : x \in Hands /\ finished[x] # "none"
  <2>1. \A x \in rows : x \in Hands /\ finished[x] # "none"
    BY DEF StatsIInv, StatsShape, AddedOnce
  <2> QED
    BY <2>1, PlacesOfHands DEF StatsIInv, OnePlace
<1>10. \A f \in Flushers : \A x \in Taken(f) : x \in Hands /\ finished[x] # "none"
  BY PlacesOfHands DEF StatsIInv, OnePlace
<1>11. StatsShape'
  BY <1>1, <1>4 DEF StatsIInv, StatsShape
<1>12. AddedOnce'
  <2>1. Distinct(added')
    BY <1>1, DistinctGrows DEF StatsIInv, AddedOnce
  <2>2. /\ Len(added) \in Nat /\ Len(added') = Len(added) + 1 /\ added'[Len(added) + 1] = h
        /\ \A i \in 1..Len(added) : added'[i] = added[i]
    BY <1>1
  <2>3. \A x \in Hands : finished'[x] = "none" =>
          (\A i \in 1..Len(added') : added'[i] # x) /\ flusher'[x].at = "idle"
             /\ x \notin rows'
    <3>1. \A i \in 1..Len(added') : i \in 1..Len(added) \/ i = Len(added) + 1
      BY <2>2
    <3> QED
      BY <1>1, <2>2, <3>1 DEF StatsIInv, AddedOnce
  <2>4. \A x \in Hands : finished'[x] # "none" => \E i \in 1..Len(added') : added'[i] = x
    <3>1. Len(added) + 1 \in 1..Len(added') /\ \A i \in 1..Len(added) : i \in 1..Len(added')
      BY <2>2
    <3> QED
      BY <1>1, <2>2, <3>1 DEF StatsIInv, AddedOnce
  <2> QED
    BY <2>1, <2>3, <2>4 DEF AddedOnce
<1>13. OnePlace'
  <2>1. Distinct(buffer')
    <3>1. \A i \in 1..Len(buffer) : buffer[i] # h
      BY <1>6 DEF Buffered
    <3> QED
      BY <1>1, <3>1, DistinctGrows DEF StatsIInv, OnePlace
  <2>2. \A x \in Hands : finished[x] # "none" => finished'[x] # "none"
    BY <1>1
  <2>3. \A x \in Buffered' : finished'[x] # "none"
    BY <1>1, <1>3, <1>9, <2>2
  <2>4. \A f \in Flushers : \A x \in Taken(f) : finished'[x] # "none"
    BY <1>10, <2>2
  <2> QED
    BY <1>3, <1>4, <1>5, <1>6, <2>1, <2>3, <2>4 DEF StatsIInv, OnePlace
<1>14. Accounted'
  BY <1>1, <1>3, <1>5 DEF StatsIInv, Accounted
<1>15. TotalsMatchHistory' /\ WrittenAgain'
  BY <1>3, <1>5, <1>6 DEF StatsIInv, WrittenAgain, TotalsMatchHistory
<1>16. ASSUME ~reordered PROVE OneLine'
  <2> USE <1>16
  <2>1. \A s : InLine(s) => InLine(s)'
    BY <1>7 DEF InLine
  <2>2. InLine(buffer)'
    <3>1. \A i, j \in 1..Len(buffer) : i < j => Before(buffer[i], buffer[j])'
      BY <1>7 DEF StatsIInv, OneLine, InLine
    <3>2. \A i \in 1..Len(buffer) : Before(buffer[i], h)'
      BY <1>8, <1>9 DEF Buffered
    <3>3. ASSUME NEW i \in 1..Len(buffer'), NEW j \in 1..Len(buffer'), i < j
          PROVE  Before(buffer[i], buffer[j])'
      <4>1. i \in 1..Len(buffer) /\ (j \in 1..Len(buffer) \/ j = Len(buffer) + 1)
        BY <1>2, <3>3
      <4> QED
        BY <1>2, <3>1, <3>2, <3>3, <4>1
    <3> QED
      BY <3>3 DEF InLine
  <2>3. \A f \in Flushers : InLine(Batch(f))' /\ \A x \in Taken(f)',
          y \in Buffered' : Before(x, y)'
    BY <1>3, <1>4, <1>5, <1>7, <1>8, <1>10, <2>1 DEF StatsIInv, OneLine
  <2>4. \A x \in rows', y \in Buffered' : y \in (rows \cup lost)' \/ Before(x, y)'
    BY <1>3, <1>7, <1>8, <1>9 DEF StatsIInv, OneLine
  <2>5. \A f \in Flushers : \A x \in rows', y \in Left(f)' : y \in (rows \cup lost)'
          \/ Before(x, y)'
    BY <1>5, <1>7 DEF StatsIInv, OneLine
  <2>6. \A i, j \in 1..Len(applied') :
          i < j /\ applied'[j] \notin lost' => Before(applied[i], applied[j])'
    BY <1>7 DEF StatsIInv, OneLine
  <2>7. \A f, g \in Flushers : flusher'[f].at # "idle" /\ flusher'[g].at # "idle" => f = g
    BY DEF StatsIInv, OneLine
  <2> QED
    BY <2>2, <2>3, <2>4, <2>5, <2>6, <2>7 DEF OneLine
<1>17. OneLine'
  BY <1>16 DEF OneLine
<1> QED
  BY <1>11, <1>12, <1>13, <1>14, <1>15, <1>17 DEF StatsIInv

\* A closed service writes the record itself.
LEMMA DirectKeeps ==
    ASSUME StatsIInv, NEW h \in Hands, finished[h] = "none",
           flusher' = [flusher EXCEPT ![h] = [Rest EXCEPT !.at = "direct",
             !.batch = <<h>>]],
           added' = Append(added, h), finished' = [finished EXCEPT ![h] = "flushing"],
           reordered' = (reordered \/ buffer # <<>> \/ FlushUnderWay # {}),
           UNCHANGED <<buffer, counted, rows, applied, redone, lost>>
    PROVE  StatsIInv'
<1> DEFINE r == [Rest EXCEPT !.at = "direct", !.batch = <<h>>]
<1>1. /\ added \in Seq(Hands) /\ added' \in Seq(Hands)
      /\ finished' \in [Hands -> {"none", "added", "full", "flushing", "reported"}]
      /\ finished'[h] # "none" /\ \A x \in Hands : x # h => finished'[x] = finished[x]
  BY DEF StatsIInv, StatsShape
<1>2. h \in Flushers /\ flusher[h].at = "idle"
  BY DEF Flushers, StatsIInv, AddedOnce
<1>3. r \in Flushes /\ r.at = "direct" /\ r.batch = <<h>> /\ r.done = 0
  <2>1. <<h>> \in Seq(Hands)
    OBVIOUS
  <2> QED
    BY <2>1, StartedFlush
<1>4. /\ flusher' \in [Flushers -> Flushes] /\ flusher'[h] = r /\ Batch(h)' = <<h>>
      /\ Done(h)' = 0
      /\ \A g \in Flushers : g # h =>
           /\ flusher'[g] = flusher[g] /\ Batch(g)' = Batch(g) /\ Done(g)' = Done(g)
           /\ Taken(g)' = Taken(g) /\ Left(g)' = Left(g)
  <2> HIDE DEF r
  <2>1. flusher' = [flusher EXCEPT ![h] = r]
    BY DEF r
  <2>2. StatsShape
    BY DEF StatsIInv
  <2> QED
    BY ONLY <1>2, <1>3, <2>1, <2>2, NewFlush
<1> HIDE DEF r
<1>5. Len(<<h>>) = 1 /\ <<h>>[1] = h /\ \A i \in 1..Len(<<h>>) : i = 1
  OBVIOUS
<1>6. Taken(h)' = {h} /\ Left(h)' = {h}
  BY <1>4, <1>5 DEF Taken, Left
<1>7. Taken(h) = {} /\ Left(h) = {} /\ Batch(h) = <<>>
  BY <1>2, FlushOf DEF StatsIInv
<1>8. Buffered' = Buffered
  BY DEF Buffered
<1>9. /\ h \notin rows /\ h \notin Buffered /\ \A f \in Flushers : h \notin Taken(f)
           /\ h \notin Left(f)
  <2>1. \A f \in Flushers : Left(f) \subseteq Taken(f)
    BY PlacesOfHands DEF StatsIInv
  <2> QED
    BY <2>1 DEF StatsIInv, AddedOnce, OnePlace
<1>10. \A x \in rows : x \in Hands /\ finished[x] # "none"
  BY DEF StatsIInv, StatsShape, AddedOnce
<1>11. StatsShape'
  <2>1. Done(h)' <= Len(Batch(h)')
    BY <1>4, <1>5
  <2>2. \A g \in Flushers : Done(g)' <= Len(Batch(g)')
    BY <1>4, <2>1 DEF StatsIInv, StatsShape
  <2>3. flusher'[h].at # "idle"
    BY <1>3, <1>4
  <2>4. \A g \in Flushers : flusher'[g].at = "idle" => flusher'[g] = Rest
    BY <1>4, <2>3 DEF StatsIInv, StatsShape
  <2>5. reordered' \in BOOLEAN
    OBVIOUS
  <2> QED
    BY <1>1, <1>4, <2>2, <2>4, <2>5 DEF StatsIInv, StatsShape
<1>12. AddedOnce'
  <2>1. Distinct(added')
    BY <1>1, DistinctGrows DEF StatsIInv, AddedOnce
  <2>2. /\ Len(added) \in Nat /\ Len(added') = Len(added) + 1 /\ added'[Len(added) + 1] = h
        /\ \A i \in 1..Len(added) : added'[i] = added[i]
    BY <1>1
  <2>3. ASSUME NEW x \in Hands, finished'[x] = "none"
        PROVE  (\A i \in 1..Len(added') : added'[i] # x) /\ flusher'[x].at = "idle"
                  /\ x \notin rows'
    <3>1. \A i \in 1..Len(added') : i \in 1..Len(added) \/ i = Len(added) + 1
      BY <2>2
    <3>2. x # h /\ finished[x] = "none" /\ x \in Flushers
      BY <1>1, <2>3 DEF Flushers
    <3> QED
      BY <1>4, <2>2, <3>1, <3>2 DEF StatsIInv, AddedOnce
  <2>4. \A x \in Hands : finished'[x] # "none" => \E i \in 1..Len(added') : added'[i] = x
    <3>1. Len(added) + 1 \in 1..Len(added') /\ \A i \in 1..Len(added) : i \in 1..Len(added')
      BY <2>2
    <3> QED
      BY <1>1, <2>2, <3>1 DEF StatsIInv, AddedOnce
  <2> QED
    BY <2>1, <2>3, <2>4 DEF AddedOnce
<1>13. OnePlace'
  <2>1. Distinct(Batch(h)')
    BY <1>4, <1>5 DEF Distinct
  <2>2. \A f \in Flushers : Distinct(Batch(f)')
    BY <1>4, <2>1 DEF StatsIInv, OnePlace
  <2>3. \A x \in Hands : finished[x] # "none" => finished'[x] # "none"
    BY <1>1
  <2>4. \A x \in Buffered : finished'[x] # "none"
    BY <2>3, PlacesOfHands DEF StatsIInv, OnePlace
  <2>5. \A f \in Flushers : \A x \in Taken(f)' : finished'[x] # "none"
    BY <1>1, <1>4, <1>6, <2>3, PlacesOfHands DEF StatsIInv, OnePlace
  <2>6. \A f \in Flushers : Taken(f)' \cap Buffered' = {}
    BY <1>4, <1>6, <1>8, <1>9 DEF StatsIInv, OnePlace
  <2>7. \A f, g \in Flushers : f # g => Taken(f)' \cap Taken(g)' = {}
    BY <1>4, <1>6, <1>9 DEF StatsIInv, OnePlace
  <2> QED
    BY <1>8, <2>2, <2>4, <2>5, <2>6, <2>7 DEF StatsIInv, OnePlace
<1>14. Accounted'
  <2>1. \A f \in Flushers : Left(f) \subseteq Left(f)'
    BY <1>4, <1>7
  <2>2. \A x \in Hands : finished'[x] # "none" =>
          x \in rows \cup lost \cup Buffered \cup UNION {Left(f)' : f \in Flushers}
    BY <1>1, <1>2, <1>6, <2>1 DEF StatsIInv, Accounted
  <2>3. \A f \in Flushers : \A x \in Taken(f)' : x \in rows \cup lost \cup Left(f)'
    BY <1>4, <1>6 DEF StatsIInv, Accounted
  <2> QED
    BY <1>8, <2>2, <2>3 DEF Accounted
<1>15. TotalsMatchHistory' /\ WrittenAgain'
  BY <1>4, <1>6, <1>8, <1>9 DEF StatsIInv, WrittenAgain, TotalsMatchHistory
<1>16. ASSUME ~reordered' PROVE OneLine'
  <2>1. ~reordered /\ buffer = <<>> /\ \A g \in Flushers : flusher[g].at = "idle"
    BY <1>16 DEF FlushUnderWay
  <2>2. Buffered = {}
    BY <2>1 DEF Buffered
  <2>3. \A g \in Flushers : Taken(g) = {} /\ Left(g) = {} /\ Batch(g) = <<>>
    BY <2>1, FlushOf DEF StatsIInv
  <2>4. \A x, y : Before(x, y) => Before(x, y)'
    BY BeforeStays DEF StatsIInv
  <2>5. InLine(buffer)'
    BY <2>1 DEF InLine
  <2>6. \A g \in Flushers : InLine(Batch(g))'
    <3>1. InLine(Batch(h))'
      BY <1>4, <1>5 DEF InLine
    <3>2. ASSUME NEW g \in Flushers, g # h PROVE InLine(Batch(g))'
      <4>1. Batch(g)' = <<>>
        BY <1>4, <2>3, <3>2
      <4> QED
        BY <4>1 DEF InLine
    <3> QED
      BY <3>1, <3>2
  <2>7. \A x \in rows : Before(x, h)'
    BY <1>10, BeforeNew DEF StatsIInv
  <2>8. \A f \in Flushers : \A x \in rows', y \in Left(f)' : Before(x, y)'
    BY <1>4, <1>6, <2>3, <2>7
  <2>9. \A i, j \in 1..Len(applied') :
          i < j /\ applied'[j] \notin lost' => Before(applied[i], applied[j])'
    BY <2>1, <2>4 DEF StatsIInv, OneLine
  <2>10. \A f, g \in Flushers : flusher'[f].at # "idle" /\ flusher'[g].at # "idle" => f = g
    BY <1>4, <2>1
  <2> QED
    BY <1>8, <2>2, <2>5, <2>6, <2>8, <2>9, <2>10 DEF OneLine
<1>17. OneLine'
  BY <1>16 DEF OneLine
<1> QED
  BY <1>11, <1>12, <1>13, <1>14, <1>15, <1>17 DEF StatsIInv

\* A flush takes all that is buffered.
LEMMA TakeKeeps ==
    ASSUME StatsIInv, NEW f \in Flushers, flusher[f].at = "idle",
           flusher' = [flusher EXCEPT ![f] = [Rest EXCEPT !.at = "writing",
             !.batch = buffer]],
           buffer' = <<>>, reordered' = (reordered \/ FlushUnderWay # {}),
           finished' \in [Hands -> {"none", "added", "full", "flushing", "reported"}],
           \A h \in Hands : finished'[h] = "none" <=> finished[h] = "none",
           \A h \in Hands : finished[h] = "none" => h # f,
           UNCHANGED <<added, counted, rows, applied, redone, lost>>
    PROVE  StatsIInv'
<1> DEFINE r == [Rest EXCEPT !.at = "writing", !.batch = buffer]
<1>1. buffer \in Seq(Hands)
  BY DEF StatsIInv, StatsShape
<1>2. r \in Flushes /\ r.at = "writing" /\ r.batch = buffer /\ r.done = 0
  BY <1>1, StartedFlush
<1>3. /\ flusher' \in [Flushers -> Flushes] /\ flusher'[f] = r /\ Batch(f)' = buffer
      /\ Done(f)' = 0
      /\ \A g \in Flushers : g # f =>
           /\ flusher'[g] = flusher[g] /\ Batch(g)' = Batch(g) /\ Done(g)' = Done(g)
           /\ Taken(g)' = Taken(g) /\ Left(g)' = Left(g)
  <2> HIDE DEF r
  <2>1. flusher' = [flusher EXCEPT ![f] = r]
    BY DEF r
  <2>2. StatsShape
    BY DEF StatsIInv
  <2> QED
    BY ONLY <1>2, <2>1, <2>2, NewFlush
<1> HIDE DEF r
<1>4. Taken(f)' = Buffered /\ Left(f)' = Buffered /\ Buffered' = {}
  <2>1. Left(f)' = {buffer[i] : i \in 0 + 1..Len(buffer)}
    BY <1>3 DEF Left
  <2>2. 0 + 1 = 1
    OBVIOUS
  <2> QED
    BY <1>3, <2>1, <2>2 DEF Taken, Buffered
<1>5. Taken(f) = {} /\ Left(f) = {}
  BY FlushOf DEF StatsIInv
<1>7. StatsShape'
  <2>1. Done(f)' <= Len(Batch(f)')
    BY <1>1, <1>3
  <2>2. \A g \in Flushers : Done(g)' <= Len(Batch(g)')
    BY <1>3, <2>1 DEF StatsIInv, StatsShape
  <2>3. flusher'[f].at # "idle"
    BY <1>2, <1>3
  <2>4. \A g \in Flushers : flusher'[g].at = "idle" => flusher'[g] = Rest
    BY <1>3, <2>3 DEF StatsIInv, StatsShape
  <2>5. reordered' \in BOOLEAN /\ buffer' \in Seq(Hands)
    OBVIOUS
  <2> QED
    BY <1>3, <2>2, <2>4, <2>5 DEF StatsIInv, StatsShape
<1>8. AddedOnce'
  <2>1. \A x \in Hands : finished[x] = "none" => flusher'[x].at = "idle"
    BY <1>3 DEF StatsIInv, AddedOnce, Flushers
  <2> QED
    BY <2>1 DEF StatsIInv, AddedOnce
<1>9. OnePlace'
  <2>1. Distinct(buffer') /\ \A g \in Flushers : Distinct(Batch(g)')
    BY <1>3 DEF Distinct, StatsIInv, OnePlace
  <2>2. \A g \in Flushers : \A x \in Taken(g)' : finished'[x] # "none"
    BY <1>3, <1>4, PlacesOfHands DEF StatsIInv, OnePlace
  <2>3. \A g, k \in Flushers : g # k => Taken(g)' \cap Taken(k)' = {}
    BY <1>3, <1>4 DEF StatsIInv, OnePlace
  <2> QED
    BY <1>4, <2>1, <2>2, <2>3 DEF OnePlace
<1>10. Accounted'
  <2>1. \A x \in Hands : finished'[x] # "none" =>
          x \in rows \cup lost \cup UNION {Left(g)' : g \in Flushers}
    <3>1. \A g \in Flushers : Left(g) \subseteq Left(g)'
      BY <1>3, <1>5
    <3> QED
      BY <1>4, <3>1 DEF StatsIInv, Accounted
  <2>2. \A g \in Flushers : \A x \in Taken(g)' : x \in rows \cup lost \cup Left(g)'
    BY <1>3, <1>4 DEF StatsIInv, Accounted
  <2> QED
    BY <2>1, <2>2 DEF Accounted
<1>11. TotalsMatchHistory' /\ WrittenAgain'
  BY <1>3, <1>4 DEF StatsIInv, WrittenAgain, TotalsMatchHistory
<1>12. ASSUME ~reordered' PROVE OneLine'
  <2>1. ~reordered /\ \A g \in Flushers : flusher[g].at = "idle"
    BY <1>12 DEF FlushUnderWay
  <2>2. \A g \in Flushers : Taken(g) = {} /\ Left(g) = {} /\ Batch(g) = <<>>
    BY <2>1, FlushOf DEF StatsIInv
  <2>3. \A x, y : Before(x, y)' <=> Before(x, y)
    BY DEF Before
  <2>4. \A s : InLine(s)' <=> InLine(s)
    BY <2>3 DEF InLine
  <2>5. InLine(<<>>)
    BY DEF InLine
  <2>6. InLine(buffer) /\ \A x \in rows, y \in Buffered : y \in rows \cup lost
          \/ Before(x, y)
    BY <2>1 DEF StatsIInv, OneLine
  <2>7. \A g \in Flushers : InLine(Batch(g)')
    BY <1>3, <2>2, <2>5, <2>6
  <2>8. \A g \in Flushers : \A x \in rows, y \in Left(g)' : y \in rows \cup lost
          \/ Before(x, y)
    BY <1>3, <1>4, <2>2, <2>6
  <2>9. \A i, j \in 1..Len(applied) : i < j /\ applied[j] \notin lost
          => Before(applied[i], applied[j])
    BY <2>1 DEF StatsIInv, OneLine
  <2>10. \A g, k \in Flushers : flusher'[g].at # "idle" /\ flusher'[k].at # "idle" => g = k
    BY <1>3, <2>1
  <2> QED
    BY <1>4, <2>3, <2>4, <2>5, <2>7, <2>8, <2>9, <2>10 DEF OneLine
<1>13. OneLine'
  BY <1>12 DEF OneLine
<1> QED
  BY <1>7, <1>8, <1>9, <1>10, <1>11, <1>13 DEF StatsIInv

\* What a flush writes next.
LEMMA CurrentLeft ==
    ASSUME StatsIInv, NEW f \in Flushers, Done(f) < Len(Batch(f)),
           NEW r \in Flushes, r.batch = Batch(f), r.done = Done(f) + 1,
           flusher' = [flusher EXCEPT ![f] = r]
    PROVE  /\ Current(f) \in Left(f) /\ Current(f) \in Hands
           /\ Left(f)' = Left(f) \ {Current(f)}
           /\ ~reordered => \A y \in Left(f)' : Before(Current(f), y)
           /\ \A g \in Flushers : Current(f) \in Left(g) => g = f
           /\ Current(f) \notin Buffered
<1> DEFINE b == Batch(f)
           d == Done(f)
<1>1. /\ b \in Seq(Hands) /\ d \in Nat /\ d < Len(b) /\ Len(b) \in Nat
      /\ Left(f) \subseteq Taken(f) /\ Taken(f) \subseteq Hands
  BY FlushOf DEF StatsIInv
<1>2. Left(f)' = {b[i] : i \in (d + 1) + 1..Len(b)}
  <2>1. Batch(f)' = b /\ Done(f)' = d + 1
    BY NewFlush DEF StatsIInv
  <2> QED
    BY <2>1 DEF Left
<1>3. Current(f) = b[d + 1] /\ d + 1 \in d + 1..Len(b) /\ d + 1 \in 1..Len(b)
  BY <1>1 DEF Current, Batch, Done
<1>4. Left(f) = {b[i] : i \in d + 1..Len(b)}
  BY DEF Left
<1>5. \A i, j \in 1..Len(b) : b[i] = b[j] => i = j
  BY DEF StatsIInv, OnePlace, Distinct
<1> HIDE DEF b, d
<1>6. \A i \in d + 1..Len(b) : i \in 1..Len(b) /\ (i = d + 1 \/ i \in (d + 1) + 1..Len(b))
  BY <1>1
<1>7. \A i \in (d + 1) + 1..Len(b) : i \in 1..Len(b) /\ i \in d + 1..Len(b) /\ i # d + 1
        /\ d + 1 < i
  BY <1>1
<1>8. Current(f) \in Left(f)
  BY <1>3, <1>4
<1>9. Left(f)' = Left(f) \ {Current(f)}
  <2>1. \A y \in Left(f)' : y \in Left(f) /\ y # Current(f)
    BY <1>2, <1>3, <1>4, <1>5, <1>7
  <2>2. \A y \in Left(f) : y # Current(f) => y \in Left(f)'
    BY <1>2, <1>3, <1>4, <1>6
  <2> QED
    BY <2>1, <2>2
<1>10. ASSUME ~reordered PROVE \A y \in Left(f)' : Before(Current(f), y)
  <2>1. \A i, j \in 1..Len(b) : i < j => Before(b[i], b[j])
    BY <1>10 DEF StatsIInv, OneLine, InLine, b
  <2> QED
    BY <1>2, <1>3, <1>7, <2>1
<1>11. \A g \in Flushers : Left(g) \subseteq Taken(g)
  BY PlacesOfHands DEF StatsIInv
<1>12. Current(f) \notin Buffered /\ \A g \in Flushers : Current(f) \in Left(g) => g = f
  BY <1>8, <1>11 DEF StatsIInv, OnePlace
<1> QED
  BY <1>1, <1>8, <1>9, <1>10, <1>12

\* A record is written, or its writing fails.
LEMMA WriteKeeps ==
    ASSUME StatsIInv, NEW f \in Flushers, Done(f) < Len(Batch(f)), flusher[f].at # "idle",
           flusher' = [flusher EXCEPT ![f].done = @ + 1],
           \/ /\ counted' = [counted EXCEPT ![Current(f)] = @ + 1]
              /\ rows' = rows \cup {Current(f)} /\ UNCHANGED lost
              /\ applied' = IF Current(f) \in rows THEN applied
                           ELSE Append(applied, Current(f))
           \/ lost' = lost \cup {Current(f)} /\ UNCHANGED <<counted, rows, applied>>,
           UNCHANGED <<finished, added, buffer, redone, reordered>>
    PROVE  StatsIInv'
<1> DEFINE r == [flusher[f] EXCEPT !.done = @ + 1]
           h == Current(f)
<1>1. /\ r \in Flushes /\ r.batch = Batch(f) /\ r.done = Done(f) + 1 /\ r.at = flusher[f].at
      /\ flusher' = [flusher EXCEPT ![f] = r]
  <2>1. \A q \in Flushes :
          LET p == [q EXCEPT !.done = @ + 1] IN
          p \in Flushes /\ p.batch = q.batch /\ p.done = q.done + 1 /\ p.at = q.at
    BY DEF Flushes
  <2>2. flusher[f] \in Flushes
    BY DEF StatsIInv, StatsShape
  <2> QED
    BY <2>1, <2>2 DEF Batch, Done
<1> HIDE DEF r
<1>2. /\ flusher' \in [Flushers -> Flushes] /\ flusher'[f] = r
      /\ flusher'[f].at = flusher[f].at
      /\ Batch(f)' = Batch(f) /\ Done(f)' = Done(f) + 1
      /\ \A g \in Flushers : g # f =>
           /\ flusher'[g] = flusher[g] /\ Batch(g)' = Batch(g) /\ Done(g)' = Done(g)
           /\ Taken(g)' = Taken(g) /\ Left(g)' = Left(g)
  BY <1>1, NewFlush DEF StatsIInv
<1>3. /\ h \in Left(f) /\ h \in Hands /\ h \notin Buffered /\ Left(f)' = Left(f) \ {h}
      /\ ~reordered => \A y \in Left(f)' : Before(h, y)
      /\ \A g \in Flushers : h \in Left(g) => g = f
  BY <1>1, CurrentLeft
<1>4. Taken(f)' = Taken(f)
  BY <1>2 DEF Taken
<1>5. Buffered' = Buffered
  BY DEF Buffered
<1>6. \A g \in Flushers : Batch(g)' = Batch(g) /\ Taken(g)' = Taken(g)
        /\ Left(g)' = Left(g) \ {h}
  BY <1>2, <1>3, <1>4
<1>7. \A x, y : Before(x, y)' <=> Before(x, y)
  BY DEF Before
<1>8. \A s : InLine(s)' <=> InLine(s)
  BY <1>7 DEF InLine
<1>9. /\ rows \subseteq rows' /\ lost \subseteq lost' /\ rows' \subseteq rows \cup {h}
      /\ h \in rows' \cup lost' /\ rows' \subseteq Hands /\ lost' \subseteq Hands
  BY <1>3 DEF StatsIInv, StatsShape
<1> HIDE DEF h
<1>10. StatsShape'
  <2>1. Done(f)' <= Len(Batch(f)')
    BY <1>2, FlushOf DEF StatsIInv
  <2>2. \A g \in Flushers : Done(g)' <= Len(Batch(g)')
    BY <1>2, <2>1 DEF StatsIInv, StatsShape
  <2>3. \A g \in Flushers : flusher'[g].at = "idle" => flusher'[g] = Rest
    BY <1>2 DEF StatsIInv, StatsShape
  <2>4. counted' \in [Hands -> Nat]
    <3>1. counted \in [Hands -> Nat] /\ counted[h] + 1 \in Nat
      BY <1>3 DEF StatsIInv, StatsShape
    <3>2. counted' = counted \/ counted' = [counted EXCEPT ![h] = counted[h] + 1]
      BY DEF h
    <3> QED
      BY <3>1, <3>2
  <2>5. applied' \in Seq(rows')
    <3>1. applied \in Seq(rows')
      BY <1>9 DEF StatsIInv, StatsShape
    <3> QED
      BY <1>9, <3>1 DEF h
  <2> QED
    BY <1>2, <1>9, <2>2, <2>3, <2>4, <2>5 DEF StatsIInv, StatsShape
<1>11. finished[h] # "none"
  <2>1. h \in Taken(f)
    BY <1>3, PlacesOfHands DEF StatsIInv
  <2> QED
    BY <2>1 DEF StatsIInv, OnePlace
<1>12. AddedOnce'
  <2>1. \A x \in Hands : finished[x] = "none" => flusher'[x].at = "idle" /\ x \notin rows'
    BY <1>2, <1>9, <1>11 DEF StatsIInv, AddedOnce, Flushers
  <2> QED
    BY <2>1 DEF StatsIInv, AddedOnce
<1>13. OnePlace'
  BY <1>5, <1>6 DEF StatsIInv, OnePlace
<1>14. Accounted'
  <2>1. ASSUME NEW x \in Hands, finished[x] # "none"
        PROVE  x \in rows' \cup lost' \cup Buffered \cup UNION {Left(g)' : g \in Flushers}
    BY <1>6, <1>9, <2>1 DEF StatsIInv, Accounted
  <2>2. \A g \in Flushers : \A x \in Taken(g) : x \in rows' \cup lost' \cup Left(g)'
    BY <1>6, <1>9 DEF StatsIInv, Accounted
  <2> QED
    BY <1>5, <1>6, <2>1, <2>2 DEF Accounted
<1>15. TotalsMatchHistory'
  <2>1. h \in rows => h \in redone
    BY <1>3 DEF StatsIInv, WrittenAgain
  <2>2. counted \in [Hands -> Nat]
    BY DEF StatsIInv, StatsShape
  <2>3. CASE rows' = rows /\ counted' = counted
    BY <2>3 DEF StatsIInv, TotalsMatchHistory
  <2>4. CASE rows' = rows \cup {h} /\ counted' = [counted EXCEPT ![h] = @ + 1]
    <3>1. counted'[h] = counted[h] + 1 /\ \A x \in Hands : x # h => counted'[x] = counted[x]
      BY <1>3, <2>2, <2>4
    <3>2. counted[h] \in Nat /\ (counted[h] > 0 => h \in redone)
      BY <1>3, <2>1, <2>2 DEF StatsIInv, TotalsMatchHistory
    <3>3. counted'[h] > 0 /\ (counted'[h] > 1 => counted[h] > 0)
      BY <3>1, <3>2
    <3> QED
      BY <1>3, <2>4, <3>1, <3>2, <3>3 DEF StatsIInv, TotalsMatchHistory
  <2> QED
    BY <2>3, <2>4 DEF h
<1>16. WrittenAgain'
  BY <1>3, <1>5, <1>6, <1>9 DEF StatsIInv, WrittenAgain
<1>17. ASSUME ~reordered' PROVE OneLine'
  <2>1. ~reordered
    BY <1>17
  <2>2. \A g, k \in Flushers : flusher'[g].at # "idle" /\ flusher'[k].at # "idle" => g = k
    BY <1>2, <2>1 DEF StatsIInv, OneLine
  <2>3. flusher[f].at # "idle" /\ \A g \in Flushers : g # f => Left(g) = {}
    BY <2>1, FlushOf DEF StatsIInv, OneLine
  <2>4. \A y \in Buffered : Before(h, y)
    BY <1>3, <2>1, PlacesOfHands DEF StatsIInv, OneLine
  <2>5. \A x \in rows', y \in Buffered : y \in rows' \cup lost' \/ Before(x, y)
    BY <1>9, <2>1, <2>4 DEF StatsIInv, OneLine
  <2>6. \A g \in Flushers : \A x \in rows', y \in Left(g)' : y \in rows' \cup lost'
          \/ Before(x, y)
    BY <1>3, <1>6, <1>9, <2>1, <2>3 DEF StatsIInv, OneLine
  <2>7. \A i, j \in 1..Len(applied') : i < j /\ applied'[j] \notin lost'
          => Before(applied'[i], applied'[j])
    <3>1. applied \in Seq(rows)
      BY DEF StatsIInv, StatsShape
    <3>2. \A i, j \in 1..Len(applied) : i < j /\ applied[j] \notin lost'
            => Before(applied[i], applied[j])
      BY <1>9, <2>1 DEF StatsIInv, OneLine
    <3>3. CASE applied' = applied
      BY <3>2, <3>3
    <3>4. CASE applied' = Append(applied, h) /\ h \notin rows /\ lost' = lost
      <4>1. /\ Len(applied) \in Nat /\ Len(applied') = Len(applied) + 1
            /\ applied'[Len(applied) + 1] = h
            /\ \A i \in 1..Len(applied) : applied'[i] = applied[i] /\ applied[i] \in rows
        BY <3>1, <3>4
      <4>2. h \notin lost => \A x \in rows : Before(x, h)
        BY <1>3, <2>1, <3>4 DEF StatsIInv, OneLine
      <4>3. ASSUME NEW i \in 1..Len(applied'), NEW j \in 1..Len(applied'), i < j
            PROVE  i \in 1..Len(applied) /\ (j \in 1..Len(applied) \/ j = Len(applied) + 1)
        BY <4>1, <4>3
      <4> QED
        BY <3>2, <3>4, <4>1, <4>2, <4>3
    <3> QED
      BY <3>3, <3>4 DEF h
  <2> QED
    BY <1>5, <1>6, <1>7, <1>8, <2>1, <2>2, <2>5, <2>6, <2>7 DEF StatsIInv, OneLine
<1>18. OneLine'
  BY <1>17 DEF OneLine
<1> QED
  BY <1>10, <1>12, <1>13, <1>14, <1>15, <1>16, <1>18 DEF StatsIInv

\* A batch goes back in front of what was buffered since.
LEMMA PutBackKeeps ==
    ASSUME StatsIInv, NEW f \in Flushers, flusher' = [flusher EXCEPT ![f] = Rest],
           buffer' = flusher[f].batch \o buffer,
           redone \subseteq redone', redone' \subseteq Hands,
           \A h \in Taken(f) : h \in Left(f) \/ h \in redone',
           UNCHANGED <<finished, added, counted, rows, applied, lost, reordered>>
    PROVE  StatsIInv'
<1>1. /\ flusher' \in [Flushers -> Flushes] /\ flusher'[f] = Rest /\ flusher'[f].at = "idle"
      /\ Batch(f)' = <<>> /\ Done(f)' = 0 /\ Taken(f)' = {} /\ Left(f)' = {}
      /\ \A g \in Flushers : g # f =>
           /\ flusher'[g] = flusher[g] /\ Batch(g)' = Batch(g) /\ Done(g)' = Done(g)
           /\ Taken(g)' = Taken(g) /\ Left(g)' = Left(g)
  BY NoFlush DEF StatsIInv
<1>2. Batch(f) \in Seq(Hands) /\ buffer \in Seq(Hands) /\ buffer' = Batch(f) \o buffer
  BY FlushOf DEF StatsIInv, StatsShape, Batch
<1>3. /\ buffer' \in Seq(Hands) /\ Buffered' = Taken(f) \cup Buffered
      /\ Distinct(Batch(f)) /\ Distinct(buffer) /\ Taken(f) \cap Buffered = {}
           => Distinct(buffer')
      /\ (/\ InLine(Batch(f)) /\ InLine(buffer)
          /\ \A i \in 1..Len(Batch(f)), j \in 1..Len(buffer) : Before(Batch(f)[i], buffer[j]))
           => InLine(buffer')
  <2> DEFINE b == Batch(f)
  <2> HIDE DEF b
  <2>1. b \in Seq(Hands) /\ buffer' = b \o buffer
    BY <1>2 DEF b
  <2> DEFINE u == b \o buffer
  <2>2. /\ u \in Seq(Hands)
        /\ {u[i] : i \in 1..Len(u)} = {b[i] : i \in 1..Len(b)} \cup {buffer[i] : i \in 1..Len(buffer)}
        /\ (/\ Distinct(b) /\ Distinct(buffer)
            /\ {b[i] : i \in 1..Len(b)} \cap {buffer[i] : i \in 1..Len(buffer)} = {})
             => Distinct(u)
        /\ (/\ InLine(b) /\ InLine(buffer)
            /\ \A i \in 1..Len(b), j \in 1..Len(buffer) : Before(b[i], buffer[j]))
             => InLine(u)
    BY <1>2, <2>1, LinesJoin
  <2>5. buffer' = u
    BY <2>1
  <2> HIDE DEF u
  <2>3. Taken(f) = {b[i] : i \in 1..Len(b)} /\ Buffered = {buffer[i] : i \in 1..Len(buffer)}
        /\ Buffered' = {buffer'[i] : i \in 1..Len(buffer')}
    BY DEF Taken, Buffered, b
  <2> QED
    BY <2>2, <2>3, <2>5 DEF b
<1>4. /\ Taken(f) \subseteq Hands /\ Buffered \subseteq Hands
      /\ \A g \in Flushers : Taken(g)' \subseteq Taken(g) /\ Left(g)' \subseteq Left(g)
  BY <1>1, PlacesOfHands DEF StatsIInv
<1>5. \A x, y : Before(x, y)' <=> Before(x, y)
  BY DEF Before
<1>6. \A s : InLine(s)' <=> InLine(s)
  BY <1>5 DEF InLine
<1>7. StatsShape'
  <2>1. Done(f)' <= Len(Batch(f)')
    BY <1>1
  <2>2. \A g \in Flushers : Done(g)' <= Len(Batch(g)')
    BY <1>1, <2>1 DEF StatsIInv, StatsShape
  <2>3. \A g \in Flushers : flusher'[g].at = "idle" => flusher'[g] = Rest
    BY <1>1 DEF StatsIInv, StatsShape
  <2> QED
    BY <1>1, <1>3, <2>2, <2>3 DEF StatsIInv, StatsShape
<1>8. AddedOnce'
  <2>1. \A x \in Hands : finished[x] = "none" => flusher'[x].at = "idle"
    BY <1>1 DEF StatsIInv, AddedOnce, Flushers
  <2> QED
    BY <2>1 DEF StatsIInv, AddedOnce
<1>9. OnePlace'
  <2>1. Distinct(<<>>)
    BY DEF Distinct
  <2>2. Distinct(buffer') /\ \A g \in Flushers : Distinct(Batch(g)')
    BY <1>1, <1>3, <2>1 DEF StatsIInv, OnePlace
  <2>3. \A x \in Buffered' : finished[x] # "none"
    BY <1>3 DEF StatsIInv, OnePlace
  <2>4. \A g \in Flushers : Taken(g)' \cap Buffered' = {}
    BY <1>1, <1>3 DEF StatsIInv, OnePlace
  <2>5. \A g \in Flushers : /\ \A x \in Taken(g)' : finished[x] # "none"
                            /\ \A k \in Flushers : g # k => Taken(g)' \cap Taken(k)' = {}
    BY <1>4 DEF StatsIInv, OnePlace
  <2> QED
    BY <2>2, <2>3, <2>4, <2>5 DEF OnePlace
<1>10. Accounted'
  <2>1. ASSUME NEW x \in Hands, finished[x] # "none"
        PROVE  x \in rows \cup lost \cup Buffered' \cup UNION {Left(g)' : g \in Flushers}
    <3>1. CASE x \in rows \cup lost \cup Buffered
      BY <1>3, <3>1
    <3>2. ASSUME NEW g \in Flushers, x \in Left(g)
          PROVE  x \in Buffered' \cup UNION {Left(k)' : k \in Flushers}
      BY <1>1, <1>3, <3>2, PlacesOfHands DEF StatsIInv
    <3> QED
      BY <2>1, <3>1, <3>2 DEF StatsIInv, Accounted
  <2>2. \A g \in Flushers : \A x \in Taken(g)' : x \in rows \cup lost \cup Left(g)'
    BY <1>1 DEF StatsIInv, Accounted
  <2> QED
    BY <2>1, <2>2 DEF Accounted
<1>11. TotalsMatchHistory'
  BY DEF StatsIInv, TotalsMatchHistory
<1>12. WrittenAgain'
  BY <1>3, <1>4 DEF StatsIInv, WrittenAgain
<1>13. ASSUME ~reordered PROVE OneLine'
  <2>1. \A g, k \in Flushers : flusher'[g].at # "idle" /\ flusher'[k].at # "idle" => g = k
    BY <1>1, <1>13 DEF StatsIInv, OneLine
  <2>2. \A g \in Flushers : g # f /\ Taken(f) # {} => Taken(g) = {}
    BY <1>13, FlushOf DEF StatsIInv, OneLine
  <2>3. \A i \in 1..Len(Batch(f)), j \in 1..Len(buffer) : Before(Batch(f)[i], buffer[j])
    BY <1>13, PlacesOfHands DEF StatsIInv, OneLine
  <2>4. InLine(buffer')
    BY <1>3, <1>13, <2>3 DEF StatsIInv, OneLine
  <2>5. InLine(<<>>)
    BY DEF InLine
  <2>6. \A g \in Flushers : InLine(Batch(g)')
    BY <1>1, <1>13, <2>5 DEF StatsIInv, OneLine
  <2>7. \A g \in Flushers : \A x \in Taken(g)', y \in Buffered' : Before(x, y)
    BY <1>1, <1>3, <1>13, <2>2 DEF StatsIInv, OneLine
  <2>8. \A x \in rows, y \in Buffered' : y \in rows \cup lost \/ Before(x, y)
    BY <1>3, <1>13 DEF StatsIInv, OneLine, Accounted
  <2>9. \A g \in Flushers : \A x \in rows, y \in Left(g)' : y \in rows \cup lost
          \/ Before(x, y)
    BY <1>4, <1>13 DEF StatsIInv, OneLine
  <2>10. \A i, j \in 1..Len(applied) : i < j /\ applied[j] \notin lost
           => Before(applied[i], applied[j])
    BY <1>13 DEF StatsIInv, OneLine
  <2> QED
    BY <1>5, <1>6, <2>1, <2>4, <2>6, <2>7, <2>8, <2>9, <2>10 DEF OneLine
<1>14. OneLine'
  BY <1>13 DEF StatsIInv, OneLine
<1> QED
  BY <1>7, <1>8, <1>9, <1>10, <1>11, <1>12, <1>14 DEF StatsIInv

\* A flush is over.
LEMMA ReleaseKeeps ==
    ASSUME StatsIInv, NEW f \in Flushers, Done(f) = Len(Batch(f)),
           flusher' = [flusher EXCEPT ![f] = Rest],
           UNCHANGED <<finished, added, buffer, counted, rows, applied, redone, lost,
             reordered>>
    PROVE  StatsIInv'
<1>1. /\ flusher' \in [Flushers -> Flushes] /\ flusher'[f] = Rest /\ flusher'[f].at = "idle"
      /\ Batch(f)' = <<>> /\ Done(f)' = 0 /\ Taken(f)' = {} /\ Left(f)' = {}
      /\ \A g \in Flushers : g # f =>
           /\ flusher'[g] = flusher[g] /\ Batch(g)' = Batch(g) /\ Done(g)' = Done(g)
           /\ Taken(g)' = Taken(g) /\ Left(g)' = Left(g)
  BY NoFlush DEF StatsIInv
<1>2. Buffered' = Buffered
  BY DEF Buffered
<1>3. Left(f) = {}
  <2>1. Done(f) \in Nat
    BY FlushOf DEF StatsIInv
  <2> QED
    BY <2>1 DEF Left
<1>4. \A g \in Flushers : Taken(g)' \subseteq Taken(g) /\ Left(g)' = Left(g)
  BY <1>1, <1>3
<1>5. \A x, y : Before(x, y)' <=> Before(x, y)
  BY DEF Before
<1>6. \A s : InLine(s)' <=> InLine(s)
  BY <1>5 DEF InLine
<1>7. StatsShape'
  <2>1. Done(f)' <= Len(Batch(f)')
    BY <1>1
  <2>2. \A g \in Flushers : Done(g)' <= Len(Batch(g)')
    BY <1>1, <2>1 DEF StatsIInv, StatsShape
  <2>3. \A g \in Flushers : flusher'[g].at = "idle" => flusher'[g] = Rest
    BY <1>1 DEF StatsIInv, StatsShape
  <2> QED
    BY <1>1, <2>2, <2>3 DEF StatsIInv, StatsShape
<1>8. AddedOnce'
  <2>1. \A x \in Hands : finished[x] = "none" => flusher'[x].at = "idle"
    BY <1>1 DEF StatsIInv, AddedOnce, Flushers
  <2> QED
    BY <2>1 DEF StatsIInv, AddedOnce
<1>9. OnePlace'
  <2>1. Distinct(<<>>)
    BY DEF Distinct
  <2>2. \A g \in Flushers : Distinct(Batch(g)')
    BY <1>1, <2>1 DEF StatsIInv, OnePlace
  <2> QED
    BY <1>2, <1>4, <2>2 DEF StatsIInv, OnePlace
<1>10. Accounted'
  BY <1>2, <1>4 DEF StatsIInv, Accounted
<1>11. TotalsMatchHistory' /\ WrittenAgain'
  BY <1>2, <1>4 DEF StatsIInv, TotalsMatchHistory, WrittenAgain
<1>12. OneLine'
  <2>1. ASSUME ~reordered
        PROVE  \A g, k \in Flushers : flusher'[g].at # "idle" /\ flusher'[k].at # "idle"
                 => g = k
    BY <1>1, <2>1 DEF StatsIInv, OneLine
  <2>2. InLine(<<>>)
    BY DEF InLine
  <2>3. ASSUME ~reordered PROVE \A g \in Flushers : InLine(Batch(g)')
    BY <1>1, <2>2, <2>3 DEF StatsIInv, OneLine
  <2> QED
    BY <1>2, <1>4, <1>5, <1>6, <2>1, <2>3 DEF StatsIInv, OneLine
<1> QED
  BY <1>7, <1>8, <1>9, <1>10, <1>11, <1>12 DEF StatsIInv

\* A batch waits for its next try.
LEMMA RetryKeeps ==
    ASSUME StatsIInv, NEW f \in Flushers, flusher[f].at # "idle",
           NEW r \in Flushes, r.at # "idle", r.batch = Batch(f), r.done = Done(f),
           flusher' = [flusher EXCEPT ![f] = r],
           UNCHANGED <<finished, added, buffer, counted, rows, applied, redone, lost,
             reordered>>
    PROVE  StatsIInv'
<1>1. /\ flusher' \in [Flushers -> Flushes]
      /\ \A g \in Flushers : /\ Batch(g)' = Batch(g) /\ Done(g)' = Done(g)
                             /\ flusher'[g].at = "idle" <=> flusher[g].at = "idle"
                             /\ flusher'[g].at = "idle" => flusher'[g] = flusher[g]
  BY NewFlush DEF StatsIInv
<1>2. \A g \in Flushers : Taken(g)' = Taken(g) /\ Left(g)' = Left(g)
  BY <1>1 DEF Taken, Left
<1>3. Buffered' = Buffered
  BY DEF Buffered
<1>4. \A x, y : Before(x, y)' <=> Before(x, y)
  BY DEF Before
<1>5. \A s : InLine(s)' <=> InLine(s)
  BY <1>4 DEF InLine
<1>6. StatsShape'
  BY <1>1 DEF StatsIInv, StatsShape
<1>7. AddedOnce'
  BY <1>1 DEF StatsIInv, AddedOnce, Flushers
<1>8. OnePlace' /\ Accounted' /\ TotalsMatchHistory' /\ WrittenAgain'
  BY <1>1, <1>2, <1>3 DEF StatsIInv, OnePlace, Accounted, TotalsMatchHistory, WrittenAgain
<1>9. OneLine'
  BY <1>1, <1>2, <1>3, <1>4, <1>5 DEF StatsIInv, OneLine
<1> QED
  BY <1>6, <1>7, <1>8, <1>9 DEF StatsIInv

\* What is left of a batch, as a sequence and as a set.
LEMMA LeftOver ==
    ASSUME StatsShape, NEW g \in Flushers
    PROVE  ToSet(SubSeq(flusher[g].batch, flusher[g].done + 1,
             Len(flusher[g].batch))) = Left(g)
<1> DEFINE b == Batch(g)
           d == Done(g)
           n == Len(b)
           s == SubSeq(b, d + 1, n)
<1>1. b \in Seq(Hands) /\ d \in Nat /\ n \in Nat /\ d <= n
  BY FlushOf
<1>2. /\ s \in Seq(Hands) /\ Len(s) = (IF d + 1 <= n THEN n - (d + 1) + 1 ELSE 0)
      /\ \A i \in 1..n - (d + 1) + 1 : s[i] = b[d + 1 + i - 1]
  <2> HIDE DEF s
  <2>1. \A i \in d + 1..n : b[i] \in Hands
    BY <1>1
  <2>2. d + 1 \in Int /\ n \in Int
    BY <1>1
  <2> HIDE DEF b, d, n
  <2> QED
    BY <2>1, <2>2, SubSeqProperties DEF s
<1>3. Left(g) = {b[i] : i \in d + 1..n}
  BY DEF Left
<1> HIDE DEF b, d, n, s
<1>4. Len(s) = n - d /\ \A i \in 1..(n - d) : s[i] = b[d + i] /\ d + i \in d + 1..n
  BY <1>1, <1>2
<1>5. \A i \in d + 1..n : i - d \in 1..(n - d) /\ d + (i - d) = i
  BY <1>1
<1>6. ToSet(s) = {s[i] : i \in 1..(n - d)}
  BY <1>2, <1>4 DEF ToSet
<1>7. \A x \in ToSet(s) : x \in Left(g)
  BY <1>3, <1>4, <1>6
<1>8. \A x \in Left(g) : x \in ToSet(s)
  BY <1>3, <1>4, <1>5, <1>6
<1> QED
  BY <1>7, <1>8 DEF b, d, n, s, Batch, Done

\* After a crash nothing is in any place.
LEMMA CrashKeeps ==
    ASSUME StatsIInv, Crash
    PROVE  StatsIInv'
<1>1. /\ buffer' = <<>> /\ flusher' = [g \in Flushers |-> Rest]
      /\ UNCHANGED <<added, counted, rows, applied, redone, reordered>>
      /\ finished' = [h \in Hands |-> IF finished[h] = "none" THEN "none" ELSE "reported"]
  BY DEF Crash
<1>2. \A g \in Flushers : Batch(g)' = <<>> /\ Done(g)' = 0 /\ flusher'[g] = Rest
        /\ flusher'[g].at = "idle"
  BY <1>1, RestIsFlush DEF Batch, Done
<1>3. Buffered' = {} /\ \A g \in Flushers : Taken(g)' = {} /\ Left(g)' = {}
  <2>1. \A g \in Flushers : Taken(g)' = {<<>>[i] : i \in 1..Len(<<>>)}
          /\ Left(g)' = {<<>>[i] : i \in 0 + 1..Len(<<>>)}
    BY <1>2 DEF Taken, Left
  <2>2. Buffered' = {<<>>[i] : i \in 1..Len(<<>>)}
    BY <1>1 DEF Buffered
  <2> QED
    BY <2>1, <2>2
<1>4. \A g \in Flushers : ToSet(SubSeq(flusher[g].batch, flusher[g].done + 1,
        Len(flusher[g].batch))) = Left(g)
  BY LeftOver DEF StatsIInv
<1>5. ToSet(buffer) = Buffered
  BY DEF ToSet, Buffered, StatsIInv, StatsShape
<1>6. lost' = lost \cup Buffered \cup UNION {Left(g) : g \in Flushers}
  BY <1>4, <1>5 DEF Crash
<1>7. \A x, y : Before(x, y)' <=> Before(x, y)
  BY <1>1 DEF Before
<1>8. \A s : InLine(s)' <=> InLine(s)
  BY <1>7 DEF InLine
<1>9. /\ finished' \in [Hands -> {"none", "added", "full", "flushing", "reported"}]
      /\ \A h \in Hands : finished'[h] = "none" <=> finished[h] = "none"
  BY <1>1 DEF StatsIInv, StatsShape
<1>10. StatsShape'
  <2>1. flusher' \in [Flushers -> Flushes] /\ buffer' \in Seq(Hands)
    BY <1>1, RestIsFlush
  <2>2. \A g \in Flushers : Done(g)' <= Len(Batch(g)')
    BY <1>2
  <2>3. lost' \subseteq Hands
    BY <1>6, PlacesOfHands DEF StatsIInv, StatsShape
  <2> QED
    BY <1>1, <1>2, <1>9, <2>1, <2>2, <2>3 DEF StatsIInv, StatsShape
<1>11. AddedOnce'
  BY <1>1, <1>2, <1>9 DEF StatsIInv, AddedOnce, Flushers
<1>12. OnePlace'
  BY <1>1, <1>2, <1>3 DEF OnePlace, Distinct
<1>13. Accounted'
  BY <1>1, <1>3, <1>6, <1>9 DEF StatsIInv, Accounted
<1>14. TotalsMatchHistory' /\ WrittenAgain'
  BY <1>1, <1>3 DEF StatsIInv, TotalsMatchHistory, WrittenAgain
<1>15. OneLine'
  <2>1. InLine(<<>>)
    BY DEF InLine
  <2>2. lost \subseteq lost'
    BY <1>6
  <2>3. ~reordered => \A i, j \in 1..Len(applied) : i < j /\ applied[j] \notin lost'
          => Before(applied[i], applied[j])
    BY <2>2 DEF StatsIInv, OneLine
  <2> QED
    BY <1>1, <1>2, <1>3, <1>7, <1>8, <2>1, <2>3 DEF OneLine
<1> QED
  BY <1>10, <1>11, <1>12, <1>13, <1>14, <1>15 DEF StatsIInv

\* Nothing is recorded at first.
LEMMA StatsInitHolds == StatsInit => StatsIInv
<1> SUFFICES ASSUME StatsInit PROVE StatsIInv
  OBVIOUS
<1> USE DEF StatsInit
<1>1. \A g \in Flushers : Batch(g) = <<>> /\ Done(g) = 0 /\ flusher[g] = Rest
        /\ flusher[g].at = "idle"
  BY RestIsFlush DEF Batch, Done
<1>2. Buffered = {} /\ \A g \in Flushers : Taken(g) = {} /\ Left(g) = {}
  BY <1>1 DEF Buffered, Taken, Left
<1>3. StatsShape
  <2>1. added \in Seq(Hands) /\ buffer \in Seq(Hands) /\ applied \in Seq(rows)
    OBVIOUS
  <2>2. flusher \in [Flushers -> Flushes] /\ counted \in [Hands -> Nat]
    BY RestIsFlush
  <2>3. \A g \in Flushers : Done(g) <= Len(Batch(g)) /\ (flusher[g].at = "idle"
          => flusher[g] = Rest)
    BY <1>1
  <2>4. finished \in [Hands -> {"none", "added", "full", "flushing", "reported"}]
    OBVIOUS
  <2>5. rows \subseteq Hands /\ redone \subseteq Hands /\ lost \subseteq Hands
    OBVIOUS
  <2>6. reordered \in BOOLEAN
    OBVIOUS
  <2> HIDE DEF StatsInit
  <2> QED
    BY ONLY <2>1, <2>2, <2>3, <2>4, <2>5, <2>6 DEF StatsShape
<1>4. AddedOnce
  BY <1>1 DEF AddedOnce, Distinct, Flushers
<1>5. OnePlace
  BY <1>1, <1>2 DEF OnePlace, Distinct
<1>6. Accounted /\ TotalsMatchHistory /\ WrittenAgain
  BY <1>2 DEF Accounted, TotalsMatchHistory, WrittenAgain
<1>7. OneLine
  BY <1>1, <1>2 DEF OneLine, InLine
<1> QED
  BY <1>3, <1>4, <1>5, <1>6, <1>7 DEF StatsIInv

\* A finished hand is recorded, and reported.
LEMMA HandSteps ==
    ASSUME StatsIInv, NEW h \in Hands, Record(h) \/ Reported(h) \/ NothingLeft(h)
    PROVE  StatsIInv'
<1>1. finished \in [Hands -> {"none", "added", "full", "flushing", "reported"}]
  BY DEF StatsIInv, StatsShape
<1>2. CASE Record(h) /\ service = "closed"
  <2>1. /\ finished[h] = "none"
        /\ flusher' = [flusher EXCEPT ![h] = [Rest EXCEPT !.at = "direct", !.batch = <<h>>]]
        /\ added' = Append(added, h) /\ finished' = [finished EXCEPT ![h] = "flushing"]
        /\ reordered' = (reordered \/ buffer # <<>> \/ FlushUnderWay # {})
        /\ UNCHANGED <<buffer, counted, rows, applied, redone, lost>>
    BY <1>2 DEF Record
  <2> QED
    BY <2>1, DirectKeeps
<1>3. CASE Record(h) /\ service # "closed"
  <2> DEFINE v == IF Len(buffer') >= MaxSize THEN "full" ELSE "added"
  <2>1. /\ finished[h] = "none" /\ buffer' = Append(buffer, h) /\ added' = Append(added, h)
        /\ finished' = [finished EXCEPT ![h] = v] /\ v \in {"added", "full"}
        /\ UNCHANGED <<flusher, counted, rows, applied, redone, lost, reordered>>
    BY <1>3 DEF Record
  <2> HIDE DEF v
  <2> QED
    BY <2>1, BufferKeeps
<1>4. CASE Reported(h)
  <2>1. finished[h] # "none" /\ finished' = [finished EXCEPT ![h] = "reported"]
    BY <1>4 DEF Reported
  <2>2. UNCHANGED <<added, buffer, flusher, counted, rows, applied, redone, lost,
          reordered>>
    BY <1>4 DEF Reported, sinkVars
  <2> QED
    BY <1>1, <2>1, <2>2, NoRecordMoves
<1>5. CASE NothingLeft(h)
  <2>1. finished[h] # "none" /\ finished' = [finished EXCEPT ![h] = "added"]
    BY <1>5 DEF NothingLeft
  <2>2. UNCHANGED <<added, buffer, flusher, counted, rows, applied, redone, lost,
          reordered>>
    BY <1>5 DEF NothingLeft, sinkVars
  <2> QED
    BY <1>1, <2>1, <2>2, NoRecordMoves
<1> QED
  BY <1>2, <1>3, <1>4, <1>5

\* A flush takes, writes, fails, tries again and ends.
LEMMA FlushSteps ==
    ASSUME StatsIInv, NEW f \in Flushers, StatsStep(f) \/ CommitFails(f) \/ BatchFails(f)
    PROVE  StatsIInv'
<1>1. /\ finished \in [Hands -> {"none", "added", "full", "flushing", "reported"}]
      /\ flusher[f] \in Flushes
  BY DEF StatsIInv, StatsShape
<1>2. CASE Take(f)
  <2>1. /\ flusher[f].at = "idle"
        /\ flusher' = [flusher EXCEPT ![f] = [Rest EXCEPT !.at = "writing",
             !.batch = buffer]]
        /\ buffer' = <<>> /\ reordered' = (reordered \/ FlushUnderWay # {})
        /\ UNCHANGED <<added, counted, rows, applied, redone, lost>>
    BY <1>2 DEF Take, MayFlush
  <2>2. f \in Hands => finished[f] = "full"
    BY <1>2, StatisticsAssumption DEF Take, MayFlush
  <2>3. finished' = IF f \in Hands THEN [finished EXCEPT ![f] = "flushing"] ELSE finished
    BY <1>2 DEF Take
  <2>4. /\ finished' \in [Hands -> {"none", "added", "full", "flushing", "reported"}]
        /\ \A h \in Hands : finished'[h] = "none" <=> finished[h] = "none"
        /\ \A h \in Hands : finished[h] = "none" => h # f
    BY <1>1, <2>2, <2>3
  <2> QED
    BY <2>1, <2>4, TakeKeeps
<1>3. CASE Commit(f) \/ CommitFails(f)
  <2>1. Done(f) < Len(Batch(f)) /\ flusher[f].at # "idle"
    BY <1>3 DEF Commit, CommitFails, Writing, Batch, Done
  <2>2. flusher' = [flusher EXCEPT ![f].done = @ + 1]
    BY <1>3 DEF Commit, CommitFails
  <2>3. UNCHANGED <<finished, added, buffer, redone, reordered>>
    BY <1>3 DEF Commit, CommitFails
  <2>4. \/ /\ counted' = [counted EXCEPT ![Current(f)] = @ + 1]
           /\ rows' = rows \cup {Current(f)} /\ UNCHANGED lost
           /\ applied' = IF Current(f) \in rows THEN applied
                           ELSE Append(applied, Current(f))
        \/ lost' = lost \cup {Current(f)} /\ UNCHANGED <<counted, rows, applied>>
    BY <1>3 DEF Commit, CommitFails
  <2> QED
    BY <2>1, <2>2, <2>3, <2>4, WriteKeeps
<1>4. CASE Retry(f)
  <2> DEFINE r == [flusher[f] EXCEPT !.at = "writing"]
  <2>1. r \in Flushes /\ r.at # "idle" /\ r.batch = Batch(f) /\ r.done = Done(f)
    BY <1>1 DEF Flushes, Batch, Done
  <2>2. flusher' = [flusher EXCEPT ![f] = r] /\ flusher[f].at # "idle"
    BY <1>4 DEF Retry
  <2>3. UNCHANGED <<finished, added, buffer, counted, rows, applied, redone, lost,
          reordered>>
    BY <1>4 DEF Retry
  <2> HIDE DEF r
  <2> QED
    BY <2>1, <2>2, <2>3, RetryKeeps
<1>5. CASE BatchFails(f) /\ flusher[f].tries < BatchRetries
  <2> DEFINE r == [flusher[f] EXCEPT !.at = "backoff", !.tries = flusher[f].tries + 1]
  <2>1. \A q \in Flushes, n \in Nat :
          LET p == [q EXCEPT !.at = "backoff", !.tries = n] IN
          p \in Flushes /\ p.at = "backoff" /\ p.batch = q.batch /\ p.done = q.done
    BY DEF Flushes
  <2>6. flusher[f].tries + 1 \in Nat
    BY <1>1 DEF Flushes
  <2>2. r \in Flushes /\ r.at # "idle" /\ r.batch = Batch(f) /\ r.done = Done(f)
    BY <1>1, <2>1, <2>6 DEF Batch, Done
  <2>3. flusher' = [flusher EXCEPT ![f].at = "backoff", ![f].tries = @ + 1]
    BY <1>5 DEF BatchFails
  <2>4. flusher' = [flusher EXCEPT ![f] = r]
    BY <2>3 DEF StatsIInv, StatsShape
  <2>5. flusher[f].at # "idle" /\ UNCHANGED <<finished, added, buffer, counted, rows,
          applied, redone, lost, reordered>>
    BY <1>5 DEF BatchFails
  <2> HIDE DEF r
  <2> QED
    BY <2>2, <2>4, <2>5, RetryKeeps
<1>6. CASE BatchFails(f) /\ ~(flusher[f].tries < BatchRetries)
  <2>1. /\ flusher' = [flusher EXCEPT ![f] = Rest] /\ buffer' = flusher[f].batch \o buffer
        /\ UNCHANGED <<finished, added, counted, rows, applied, redone, lost, reordered>>
        /\ Done(f) = 0
    BY <1>6 DEF BatchFails, Done
  <2>2. \A h \in Taken(f) : h \in Left(f)
    <3>1. 0 + 1 = 1
      OBVIOUS
    <3> QED
      BY <2>1, <3>1 DEF Taken, Left
  <2>3. redone \subseteq redone' /\ redone' \subseteq Hands
    BY <2>1 DEF StatsIInv, StatsShape
  <2> QED
    BY <2>1, <2>2, <2>3, PutBackKeeps
<1>7. CASE Flushed(f)
  <2>1. /\ Done(f) = Len(Batch(f)) /\ flusher' = [flusher EXCEPT ![f] = Rest]
        /\ UNCHANGED <<finished, added, buffer, counted, rows, applied, redone, lost,
             reordered>>
    BY <1>7 DEF Flushed, Batch, Done
  <2> QED
    BY <2>1, ReleaseKeeps
<1> QED
  BY <1>2, <1>3, <1>4, <1>5, <1>6, <1>7 DEF StatsStep

\* The service closes, and starts again.
LEMMA CloseSteps ==
    ASSUME StatsIInv, BeginClose \/ EndClose \/ Crash
    PROVE  StatsIInv'
<1>1. Timer \in Flushers /\ Closer \in Flushers
  BY DEF Flushers
<1>2. CASE BeginClose
  <2>1. /\ flusher' = [flusher EXCEPT ![Timer] = Rest]
        /\ buffer' = flusher[Timer].batch \o buffer
        /\ UNCHANGED <<finished, added, counted, rows, applied, lost, reordered>>
        /\ redone' = redone \cup ToSet(SubSeq(Batch(Timer), 1, Done(Timer)))
    BY <1>2 DEF BeginClose, Batch, Done
  <2> DEFINE b == Batch(Timer)
             d == Done(Timer)
             s == SubSeq(b, 1, d)
  <2>2. b \in Seq(Hands) /\ d \in Nat /\ Len(b) \in Nat /\ d <= Len(b)
    BY <1>1, FlushOf DEF StatsIInv
  <2>3. s \in Seq(Hands) /\ Len(s) = d /\ \A i \in 1..d : s[i] = b[i]
    <3> HIDE DEF s, b, d
    <3>1. \A i \in 1..d : b[i] \in Hands
      BY <2>2
    <3>2. s \in Seq(Hands) /\ Len(s) = (IF 1 <= d THEN d - 1 + 1 ELSE 0)
          /\ \A i \in 1..d - 1 + 1 : s[i] = b[1 + i - 1]
      BY <2>2, <3>1, SubSeqProperties DEF s
    <3>3. d - 1 + 1 = d /\ (IF 1 <= d THEN d - 1 + 1 ELSE 0) = d
            /\ \A i \in 1..d : 1 + i - 1 = i
      BY <2>2
    <3> QED
      BY <3>2, <3>3
  <2>4. Taken(Timer) = {b[i] : i \in 1..Len(b)}
          /\ Left(Timer) = {b[i] : i \in d + 1..Len(b)}
    BY DEF Taken, Left
  <2>5. redone' = redone \cup ToSet(s)
    BY <2>1
  <2> HIDE DEF b, d, s
  <2>6. ToSet(s) = {s[i] : i \in 1..d} /\ ToSet(s) \subseteq Hands
    BY <2>2, <2>3 DEF ToSet
  <2>7. \A i \in 1..Len(b) : i \in 1..d \/ i \in d + 1..Len(b)
    BY <2>2
  <2>8. \A h \in Taken(Timer) : h \in Left(Timer) \/ h \in redone'
    BY <2>3, <2>4, <2>5, <2>6, <2>7
  <2>9. redone \subseteq redone' /\ redone' \subseteq Hands
    BY <2>5, <2>6 DEF StatsIInv, StatsShape
  <2> QED
    BY <1>1, <2>1, <2>8, <2>9, PutBackKeeps
<1>3. CASE EndClose
  <2>1. /\ flusher' = [flusher EXCEPT ![Closer] = Rest]
        /\ UNCHANGED <<finished, added, buffer, counted, rows, applied, redone, lost,
             reordered>>
        /\ flusher[Closer].at # "idle" => Done(Closer) = Len(Batch(Closer))
    BY <1>3 DEF EndClose, Batch, Done
  <2>2. flusher[Closer].at = "idle" => Done(Closer) = Len(Batch(Closer))
    BY <1>1, RestIsFlush DEF StatsIInv, StatsShape, Batch, Done
  <2> QED
    BY <1>1, <2>1, <2>2, ReleaseKeeps
<1> QED
  BY <1>2, <1>3, CrashKeeps

\* Reports are read, kept and dropped beside.
LEMMA ReportSteps == ASSUME StatsIInv, ReadReports \/ UNCHANGED statsVars PROVE StatsIInv'
<1>1. UNCHANGED finished /\ UNCHANGED <<added, buffer, flusher, counted, rows, applied,
        redone, lost, reordered>>
  BY DEF ReadReports, AskReport, Lookup, Keep, Share, ExpireMemory, ExpireStored,
    ExpireShared,
     statsVars, sinkVars
<1>2. finished' \in [Hands -> {"none", "added", "full", "flushing", "reported"}]
  BY <1>1 DEF StatsIInv, StatsShape
<1> QED
  BY <1>1, <1>2, NoRecordMoves

\* The place of a hand among those added, as the order of what was counted has it.
Place(x) == IF {k \in 1..Len(added) : added[k] = x} # {}
            THEN Min({k \in 1..Len(added) : added[k] = x}) ELSE 0

\* Places agree with the order.
LEMMA PlaceInOrder ==
    ASSUME StatsIInv, NEW x, NEW y, Before(x, y)
    PROVE  Place(x) < Place(y)
<1>1. PICK i \in 1..Len(added), j \in 1..Len(added) : i < j /\ added[i] = x /\ added[j] = y
  BY DEF Before
<1>2. \A k \in 1..Len(added) : (added[k] = x <=> k = i) /\ (added[k] = y <=> k = j)
  BY <1>1 DEF StatsIInv, AddedOnce, Distinct
<1>3. {k \in 1..Len(added) : added[k] = x} = {i}
        /\ {k \in 1..Len(added) : added[k] = y} = {j}
  BY <1>2
<1>4. \A n \in Nat : Min({n}) = n
  BY DEF Min
<1>5. Len(added) \in Nat
  BY DEF StatsIInv, StatsShape
<1>6. i \in Nat /\ j \in Nat
  BY <1>5
<1>7. Place(x) = Min({i}) /\ Place(y) = Min({j})
  BY <1>3 DEF Place
<1> QED
  BY <1>1, <1>4, <1>6, <1>7

\* What the invariant says of records, totals and order.
LEMMA StatsIInvImplies == StatsIInv => StatsInv
<1> SUFFICES ASSUME StatsIInv PROVE StatsInv
  OBVIOUS
<1>1. NoRecordLostOrCopied
  <2> SUFFICES ASSUME NEW h \in ToSet(added)
               PROVE  Cardinality(Carried(h)) <= 1 /\ (Carried(h) = {}
                        => h \in rows \cup lost)
    BY DEF NoRecordLostOrCopied
  <2>1. h \in Hands /\ finished[h] # "none"
    BY DEF ToSet, StatsIInv, StatsShape, AddedOnce
  <2>2. ToSet(buffer) = Buffered
    BY DEF ToSet, Buffered, StatsIInv, StatsShape
  <2>3. Carried(h) = (IF h \in Buffered THEN {"buffer"} ELSE {}) \cup {f \in Flushers : h \in Left(f)}
    BY <2>2, LeftOver DEF Carried, StatsIInv
  <2>4. \A f \in Flushers : Left(f) \subseteq Taken(f)
    BY PlacesOfHands DEF StatsIInv
  <2>5. \A f, g \in Flushers : h \in Left(f) /\ h \in Left(g) => f = g
    BY <2>4 DEF StatsIInv, OnePlace
  <2>6. \A f \in Flushers : ~(h \in Left(f) /\ h \in Buffered)
    BY <2>4 DEF StatsIInv, OnePlace
  <2>7. Carried(h) = {} \/ \E e : Carried(h) = {e}
    <3>1. CASE h \in Buffered
      BY <2>3, <2>6, <3>1
    <3>2. ASSUME NEW f \in Flushers, h \in Left(f) PROVE Carried(h) = {f}
      BY <2>3, <2>5, <2>6, <3>2
    <3>3. CASE h \notin Buffered /\ \A f \in Flushers : h \notin Left(f)
      BY <2>3, <3>3
    <3> QED
      BY <3>1, <3>2, <3>3
  <2>8. Cardinality(Carried(h)) <= 1
    <3>1. Cardinality({}) = 0 /\ \A e : Cardinality({e}) = 1
      BY FS_EmptySet, FS_Singleton
    <3> QED
      BY <2>7, <3>1
  <2>9. Carried(h) = {} => h \in rows \cup lost
    BY <2>1, <2>3 DEF StatsIInv, Accounted
  <2> QED
    BY <2>8, <2>9
<1>2. CountedInOrder
  <2> SUFFICES ASSUME ~reordered, NEW i \in 1..Len(applied), NEW j \in 1..Len(applied),
        i < j,
                      applied[j] \notin lost
               PROVE  SelectInSeq(added, LAMBDA h : h = applied[i])
                        < SelectInSeq(added, LAMBDA h : h = applied[j])
    BY DEF CountedInOrder
  <2>1. Place(applied[i]) < Place(applied[j])
    BY PlaceInOrder DEF StatsIInv, OneLine
  <2> QED
    BY <2>1 DEF Place, SelectInSeq
<1> QED
  BY <1>1, <1>2 DEF StatsInv, StatsIInv

\* The buffer, the flushes and the tables hold each finished hand once: whatever batch
\* fails, is put back or cancelled, a record is in one place or written or given up;
\* totals count a hand once but for what the shutdown put back; and with one flush at a
\* time hands are counted in the order they finished (StatsBatchBuffer._flush,
\* _process_hand_finished_batch).
THEOREM HandsCountOnce == StatsSpec => []StatsInv
<1>1. StatsIInv /\ [StatsNext]_statsVars => StatsIInv'
  BY HandSteps, FlushSteps, CloseSteps, ReportSteps DEF StatsNext, CountHands
<1> QED
  BY <1>1, StatsInitHolds, StatsIInvImplies, PTL DEF StatsSpec

-----------------------------------------------------------------------------
(* The role anchors.                                                         *)

Places == {"idle", "working", "clearing", "leaving", "sending", "painting", "editing",
           "resending", "retry", "retrying", "retryResending"}

Call == [at : Places, kind : {"send", "update"}, todo : SUBSET Players, cards : Cards,
         turn : Players \cup {0}, press : AnchorPresses \cup {NoButton}, text : Texts, old : Nat]

Round == [street : Nat, hand : Nat, turn : Players \cup {0}, seated : SUBSET Players,
          active : SUBSET Players]

\* The types; deletions of records are noted for messages that were sent.
AnchorsShape ==
  /\ round \in Round /\ lastStage \in Nat
  /\ sent \in 0..MaxSent /\ DOMAIN chat \subseteq 1..sent /\ deletions \subseteq 1..sent
  /\ roles \in [Players -> Anchor \cup {NoAnchor}]
  /\ \A p \in Players : roles[p] # NoAnchor => roles[p].msg \in 1..sent
  /\ anchors \in [Players -> 0..sent]
  /\ doomed \in [1..MaxSent -> {"no", "waiting", "recorded", "alone"}]
  /\ tasks \in [Painters -> Call] /\ line \in Seq(Painters)

\* A message that a player's record or his object names.
Named(p, m) == anchors[p] = m \/ (roles[p] # NoAnchor /\ roles[p].msg = m)

\* A message no other player has anything to do with.
OwnOf(p, m) == \A q \in Players \ {p} : ~Named(q, m)

Attempts == {"painting", "editing", "resending"}
Retries == {"retry", "retrying", "retryResending"}
Busy == {"sending"} \cup Attempts \cup Retries

\* Who works on a player's anchor has the lock, and a player to work on.
OneWorks == \A t \in Painters : tasks[t].at \in Busy => HasLock(t) /\ tasks[t].todo # {}

\* A deletion is noted once the message has left the chat.
DeletedAreGone == deletions \cap DOMAIN chat = {}

\* The messages that two players, or their records, name are different.
NamesApart == \A p \in Players : \A m \in 1..sent : Named(p, m) => OwnOf(p, m)

\* The record and the player name one message, unless they have parted.
MatchesRecord ==
  \A p \in Players : (roles[p] # NoAnchor /\ anchors[p] # 0) =>
      (anchors[p] = roles[p].msg \/ p \in parted)

\* A send writes plain texts, and over no anchor that is still in the chat.
SendStands(t) ==
  /\ tasks[t].kind = "send" => tasks[t].text = "plain"
  /\ tasks[t].at = "sending" =>
       /\ tasks[t].kind = "send"
       /\ roles[PlayerOf(t)] # NoAnchor => roles[PlayerOf(t)].msg \notin DOMAIN chat

\* The message an update works on is its player's alone.
OldStands(t) ==
  tasks[t].at \in Attempts \cup Retries =>
    /\ tasks[t].kind = "update" /\ tasks[t].old \in 1..sent /\ OwnOf(PlayerOf(t), tasks[t].old)

\* It is the recorded one: at the first attempt unless the player's object has parted
\* from the record, and at the second always.
RecordStands(t) ==
  LET r == roles[PlayerOf(t)] IN
    tasks[t].at \in Attempts \cup Retries /\ r # NoAnchor =>
      /\ tasks[t].at \in Attempts => r.msg = tasks[t].old \/ PlayerOf(t) \in parted
      /\ tasks[t].at \in Retries => r.msg = tasks[t].old
      /\ tasks[t].at = "retrying" => r.cards = tasks[t].cards

WorkStands == \A t \in Painters : SendStands(t) /\ OldStands(t) /\ RecordStands(t)

AnchorsIInv ==
  /\ AnchorsShape /\ OneWorks /\ DeletedAreGone /\ NamesApart /\ MatchesRecord
  /\ WorkStands /\ NoStrayAnchor /\ ShownAsRecorded

-----------------------------------------------------------------------------
(* The pieces of a step.                                                     *)

\* The player a call works on is one.
LEMMA PlayerIsOne ==
    ASSUME AnchorsShape, NEW t \in Painters, tasks[t].todo # {}
    PROVE  PlayerOf(t) \in Players
<1>1. tasks[t].todo \in SUBSET Players /\ tasks[t].todo \in SUBSET Nat
  BY AnchorsAssumption DEF AnchorsShape, Call
<1> QED
  BY <1>1, MinIsLeast DEF PlayerOf

\* Who has the lock works alone.
LEMMA WorksAlone ==
    ASSUME OneWorks, NEW t \in Painters, HasLock(t), NEW u \in Painters \ {t}
    PROVE  tasks[u].at \notin Busy
BY DEF OneWorks, HasLock

\* When the holder of the lock has done with a player, nobody works on any.
LEMMA NobodyWorks ==
    ASSUME AnchorsIInv, NEW t \in Painters, HasLock(t),
           \A u \in Painters \ {t} : tasks'[u] = tasks[u],
           tasks'[t].at \notin Busy,
           tasks'[t].kind = "send" => tasks'[t].text = "plain"
    PROVE  /\ WorkStands'
           /\ \A u \in Painters : tasks'[u].at \notin Busy
<1> USE DEF AnchorsIInv
<1>1. \A u \in Painters : tasks'[u].at \notin Busy
  BY WorksAlone
<1>2. ASSUME NEW u \in Painters
      PROVE SendStands(u)' /\ OldStands(u)' /\ RecordStands(u)'
  <2>1. tasks'[u].kind = "send" => tasks'[u].text = "plain"
    BY DEF WorkStands, SendStands
  <2>2. tasks'[u].at \notin Attempts \cup Retries /\ tasks'[u].at # "sending"
    BY <1>1 DEF Busy
  <2> QED
    BY <2>1, <2>2 DEF SendStands, OldStands, RecordStands
<1> QED
  BY <1>1, <1>2 DEF WorkStands

\* A step that leaves one player's names, looks and losses in order leaves the
\* anchors in order.
LEMMA OnePlayerStep ==
    ASSUME AnchorsIInv, NEW p \in Players,
           AnchorsShape',
           \A q \in Players \ {p} : roles'[q] = roles[q] /\ anchors'[q] = anchors[q],
           parted \subseteq parted' \cup {p},
           \A m \in 1..sent' : Named(p, m)' => OwnOf(p, m),
           \A m \in DOMAIN chat' :
              OwnOf(p, m) \/ (m \in DOMAIN chat /\ chat'[m] = chat[m] /\ (m \in unshown => m \in unshown')),
           \A m \in DOMAIN chat' :
              m \in DOMAIN chat \/ m \in strays' \/ (roles'[p] # NoAnchor /\ roles'[p].msg = m),
           \A m \in DOMAIN chat : m \in strays \/ doomed[m] # "no" => m \in strays' \/ doomed'[m] # "no",
           roles[p] # NoAnchor /\ roles[p].msg \in DOMAIN chat =>
              \/ roles'[p] # NoAnchor /\ roles'[p].msg = roles[p].msg
              \/ doomed'[roles[p].msg] # "no" \/ roles[p].msg \in strays',
           roles'[p] # NoAnchor /\ roles'[p].msg \in DOMAIN chat' \ unshown' =>
              chat'[roles'[p].msg] = [cards |-> roles'[p].cards, text |-> roles'[p].text],
           roles'[p] # NoAnchor /\ anchors'[p] # 0 => anchors'[p] = roles'[p].msg \/ p \in parted'
    PROVE  NoStrayAnchor' /\ ShownAsRecorded' /\ MatchesRecord' /\ NamesApart'
<1> USE DEF AnchorsIInv
<1>1. NoStrayAnchor'
  <2> SUFFICES ASSUME NEW m \in DOMAIN chat'
               PROVE  \/ \E q \in Players : roles'[q] # NoAnchor /\ roles'[q].msg = m
                      \/ doomed'[m] # "no" \/ m \in strays'
    BY DEF NoStrayAnchor, RolesOf
  <2>1. CASE m \notin DOMAIN chat
    BY <2>1
  <2>2. CASE m \in DOMAIN chat
    <3>1. doomed[m] # "no" \/ m \in strays \/ \E q \in Players : roles[q] # NoAnchor /\ roles[q].msg = m
      BY <2>2 DEF NoStrayAnchor, RolesOf
    <3> QED
      BY <2>2, <3>1
  <2> QED
    BY <2>1, <2>2
<1>2. ShownAsRecorded'
  <2> SUFFICES ASSUME NEW q \in Players, roles'[q] # NoAnchor, roles'[q].msg \in DOMAIN chat' \ unshown'
               PROVE  chat'[roles'[q].msg] = [cards |-> roles'[q].cards, text |-> roles'[q].text]
    BY DEF ShownAsRecorded
  <2>1. CASE q # p
    <3>1. Named(q, roles[q].msg) /\ roles'[q] = roles[q]
      BY <2>1 DEF Named
    <3>2. ~OwnOf(p, roles[q].msg)
      BY <2>1, <3>1 DEF OwnOf
    <3> QED
      BY <2>1, <3>1, <3>2 DEF ShownAsRecorded
  <2> QED
    BY <2>1
<1>3. MatchesRecord'
  BY DEF MatchesRecord
<1>4. NamesApart'
  <2> SUFFICES ASSUME NEW q \in Players, NEW m \in 1..sent', Named(q, m)', NEW r \in Players \ {q}, Named(r, m)'
               PROVE  FALSE
    BY DEF NamesApart, OwnOf
  <2>1. \A s \in Players \ {p} : Named(s, m)' <=> Named(s, m)
    BY DEF Named
  <2>2. CASE q = p
    BY <2>1, <2>2 DEF OwnOf
  <2>3. CASE r = p
    BY <2>1, <2>3 DEF OwnOf
  <2>4. CASE q # p /\ r # p
    <3>1. m \in 1..sent
      BY <2>1, <2>4 DEF Named, AnchorsShape
    <3> QED
      BY <2>1, <2>4, <3>1 DEF NamesApart, OwnOf
  <2> QED
    BY <2>2, <2>3, <2>4
<1> QED
  BY <1>1, <1>2, <1>3, <1>4

\* Steps that take names away and change no looks keep what is under way in order.
LEMMA WorkGoesOn ==
    ASSUME AnchorsIInv, sent' = sent, DOMAIN chat' \subseteq DOMAIN chat,
           NEW t \in Painters, tasks'[t] = tasks[t],
           \A p \in Players : anchors'[p] \in {anchors[p], 0},
           \A p \in Players : roles'[p] # NoAnchor =>
              /\ roles[p] # NoAnchor /\ roles'[p].msg = roles[p].msg /\ roles'[p].cards = roles[p].cards
              /\ p \in parted => p \in parted'
    PROVE  SendStands(t)' /\ OldStands(t)' /\ RecordStands(t)'
<1> USE DEF AnchorsIInv
<1>1. PlayerOf(t)' = PlayerOf(t)
  BY DEF PlayerOf
<1>2. tasks[t].at \in Busy => PlayerOf(t) \in Players
  BY PlayerIsOne DEF OneWorks
<1>3. SendStands(t) /\ OldStands(t) /\ RecordStands(t)
  BY DEF WorkStands
<1>4. SendStands(t)'
  BY <1>1, <1>2, <1>3 DEF SendStands, Busy
<1>5. \A q \in Players : \A m \in 1..sent : Named(q, m)' => Named(q, m)
  BY DEF Named
<1>6. OldStands(t)'
  BY <1>1, <1>2, <1>3, <1>5 DEF OldStands, OwnOf
<1>7. RecordStands(t)'
  BY <1>1, <1>2, <1>3 DEF RecordStands, Busy
<1> QED
  BY <1>4, <1>6, <1>7
-----------------------------------------------------------------------------
(* The line at the lock.                                                     *)

\* What is put behind a sequence that is not empty leaves its head.
LEMMA HeadStays ==
    ASSUME NEW a \in Seq(Painters), NEW b \in Seq(Painters), Len(a) > 0
    PROVE  a \o b # <<>> /\ Head(a \o b) = a[1]
<1>1. Len(a \o b) = Len(a) + Len(b) /\ (a \o b)[1] = a[1]
  OBVIOUS
<1>2. a \o b \in Seq(Painters)
  OBVIOUS
<1> QED
  BY <1>1, <1>2

\* Who leaves the line is not in front of it twice: another who has the lock keeps it.
LEMMA LineMoves ==
    ASSUME line \in Seq(Painters), NEW t \in Painters, NEW u \in Painters \ {t}, HasLock(u)
    PROVE  /\ Append(line, t) # <<>> /\ Head(Append(line, t)) = u
           /\ RemoveFirst(line, t) # <<>> /\ Head(RemoveFirst(line, t)) = u
<1>1. Len(line) \in Nat /\ Len(line) > 0 /\ line[1] = u
  BY DEF HasLock
<1>2. Append(line, t) # <<>> /\ Head(Append(line, t)) = u
  BY <1>1
<1>3. CASE \E i \in 1..Len(line) : line[i] = t
  <2> DEFINE I == {i \in 1..Len(line) : line[i] = t}
             i == Min(I)
  <2>1. I \in SUBSET Nat /\ I # {}
    BY <1>3
  <2>2. i \in 1..Len(line) /\ line[i] = t
    BY <2>1, MinIsLeast
  <2>3. RemoveFirst(line, t) = SubSeq(line, 1, i - 1) \o SubSeq(line, i + 1, Len(line))
    BY <1>3, <2>1 DEF RemoveFirst, RemoveAt, SelectInSeq
  <2> HIDE DEF i
  <2>4. i > 1
    BY <1>1, <2>2
  <2>5. SubSeq(line, 1, i - 1) \in Seq(Painters) /\ Len(SubSeq(line, 1, i - 1)) = i - 1
        /\ SubSeq(line, 1, i - 1)[1] = u
    BY <1>1, <2>2, <2>4
  <2>6. SubSeq(line, i + 1, Len(line)) \in Seq(Painters)
    BY <1>1, <2>2, <2>4
  <2>7. Len(SubSeq(line, 1, i - 1)) > 0
    BY <2>2, <2>4, <2>5
  <2>8. LET a == SubSeq(line, 1, i - 1)  b == SubSeq(line, i + 1, Len(line))
        IN  a \o b # <<>> /\ Head(a \o b) = a[1]
    BY <2>5, <2>6, <2>7, HeadStays
  <2>9. RemoveFirst(line, t) # <<>> /\ Head(RemoveFirst(line, t)) = u
    BY <2>3, <2>5, <2>8
  <2> QED
    BY <1>2, <2>9
<1>4. CASE ~ \E i \in 1..Len(line) : line[i] = t
  BY <1>1, <1>2, <1>4 DEF RemoveFirst, HasLock
<1> QED
  BY <1>3, <1>4

\* The line stays one of painters.
LEMMA LineIsLine ==
    ASSUME line \in Seq(Painters), NEW t \in Painters
    PROVE  Append(line, t) \in Seq(Painters) /\ RemoveFirst(line, t) \in Seq(Painters)
<1>1. CASE \E i \in 1..Len(line) : line[i] = t
  <2> DEFINE I == {i \in 1..Len(line) : line[i] = t}
             i == Min(I)
  <2>1. I \in SUBSET Nat /\ I # {}
    BY <1>1
  <2>2. i \in 1..Len(line)
    BY <2>1, MinIsLeast
  <2>3. RemoveFirst(line, t) = SubSeq(line, 1, i - 1) \o SubSeq(line, i + 1, Len(line))
    BY <1>1, <2>1 DEF RemoveFirst, RemoveAt, SelectInSeq
  <2> HIDE DEF i
  <2>4. SubSeq(line, 1, i - 1) \in Seq(Painters) /\ SubSeq(line, i + 1, Len(line)) \in Seq(Painters)
    BY <2>2
  <2> QED
    BY <2>3, <2>4
<1> QED
  BY <1>1 DEF RemoveFirst

\* While one's own call is not at work on a player, the one at work keeps the lock.
LEMMA OneGoesOnWorking ==
    ASSUME AnchorsIInv, NEW t \in Painters,
           \A u \in Painters \ {t} : tasks'[u] = tasks[u],
           tasks'[t].at \notin Busy,
           line' \in {line, Append(line, t), RemoveFirst(line, t)}
    PROVE  OneWorks' /\ line' \in Seq(Painters)
<1> USE DEF AnchorsIInv
<1>1. line \in Seq(Painters)
  BY DEF AnchorsShape
<1>2. ASSUME NEW u \in Painters, tasks'[u].at \in Busy
      PROVE HasLock(u)' /\ tasks'[u].todo # {}
  <2>1. u # t /\ tasks'[u] = tasks[u]
    BY <1>2
  <2>2. HasLock(u) /\ tasks[u].todo # {}
    BY <1>2, <2>1 DEF OneWorks
  <2>3. line' # <<>> /\ Head(line') = u
    BY <1>1, <2>1, <2>2, LineMoves DEF HasLock
  <2> QED
    BY <2>1, <2>2, <2>3 DEF HasLock
<1> QED
  BY <1>1, <1>2, LineIsLine DEF OneWorks
-----------------------------------------------------------------------------
(* Calls that begin and end, and steps that only look.                       *)

\* Where no message and no record changes, nothing about them does.
LEMMA NothingShown ==
    ASSUME AnchorsIInv, UNCHANGED <<messageVars, recordVars>>
    PROVE  /\ DeletedAreGone' /\ NamesApart' /\ MatchesRecord' /\ NoStrayAnchor' /\ ShownAsRecorded'
           /\ \A p \in Players : \A m : Named(p, m)' <=> Named(p, m)
<1> USE DEF AnchorsIInv, messageVars, recordVars
<1>1. \A p \in Players : \A m : Named(p, m)' <=> Named(p, m)
  BY DEF Named
<1>2. NamesApart'
  BY <1>1 DEF NamesApart, OwnOf
<1>3. DeletedAreGone' /\ MatchesRecord'
  BY DEF DeletedAreGone, MatchesRecord
<1>4. NoStrayAnchor' /\ ShownAsRecorded'
  BY DEF NoStrayAnchor, ShownAsRecorded, RolesOf
<1> QED
  BY <1>1, <1>2, <1>3, <1>4

\* A call that has looked waits with nothing in hand.
LEMMA LooksFirst ==
    ASSUME AnchorsShape, NEW t \in Painters, NEW at \in Places, NEW kind \in {"send", "update"},
           NEW todo \in SUBSET Players, NEW press \in AnchorPresses \cup {NoButton},
           LookThenWait(t, at, kind, todo, press)
    PROVE  /\ tasks' \in [Painters -> Call] /\ lastStage' \in Nat
           /\ \A u \in Painters \ {t} : tasks'[u] = tasks[u]
           /\ tasks'[t].at = at /\ tasks'[t].text = "plain"
<1> DEFINE c == [NoCall EXCEPT !.at = at, !.kind = kind, !.todo = todo, !.press = press,
                                !.cards = <<round.hand, round.street>>, !.turn = round.turn]
<1>1. round.hand \in Nat /\ round.street \in Nat /\ round.turn \in Players \cup {0}
  BY DEF AnchorsShape, Round
<1>2. <<round.hand, round.street>> \in Cards
  BY <1>1 DEF Cards
<1>3. c \in Call /\ c.at = at /\ c.text = "plain"
  BY <1>1, <1>2 DEF NoCall, Call, Texts
<1>4. tasks' = [tasks EXCEPT ![t] = c] /\ lastStage' = round.street
  BY DEF LookThenWait
<1> HIDE DEF c
<1> QED
  BY <1>1, <1>3, <1>4 DEF AnchorsShape

\* Beginning a call.
LEMMA BeginKeeps ==
    ASSUME AnchorsIInv, NEW t \in Painters,
           NEW at \in {"working", "clearing"}, NEW kind \in {"send", "update"},
           NEW todo \in SUBSET Players, NEW press \in AnchorPresses \cup {NoButton},
           LookThenWait(t, at, kind, todo, press), line' \in {line, Append(line, t)},
           tasks[t].at \notin Busy, UNCHANGED <<round, messageVars, recordVars>>
    PROVE  AnchorsIInv'
<1> USE DEF AnchorsIInv
<1>1. at \in Places /\ at \notin Busy
  BY DEF Places, Busy, Attempts, Retries
<1>2. /\ tasks' \in [Painters -> Call] /\ lastStage' \in Nat
      /\ \A u \in Painters \ {t} : tasks'[u] = tasks[u]
      /\ tasks'[t].at = at /\ tasks'[t].text = "plain"
  BY <1>1, LooksFirst
<1>3. OneWorks' /\ line' \in Seq(Painters)
  BY <1>1, <1>2, OneGoesOnWorking
<1>4. AnchorsShape'
  BY <1>2, <1>3 DEF AnchorsShape, messageVars, recordVars
<1>5. ASSUME NEW u \in Painters PROVE SendStands(u)' /\ OldStands(u)' /\ RecordStands(u)'
  <2>1. CASE u = t
    BY <1>1, <1>2, <2>1 DEF SendStands, OldStands, RecordStands, Busy
  <2>2. CASE u # t
    BY <1>2, <2>2, WorkGoesOn DEF messageVars, recordVars, AnchorsShape
  <2> QED
    BY <2>1, <2>2
<1> QED
  BY <1>3, <1>4, <1>5, NothingShown DEF WorkStands

\* A call that begins takes its place in the line and touches no anchor.
LEMMA BeginsKeep ==
    ASSUME AnchorsIInv, NEW t \in Painters,
           \/ BeginSend(t)
           \/ \E press \in AnchorPresses \cup {NoButton} : BeginUpdate(t, press) \/ BeginClear(t, press)
    PROVE  AnchorsIInv'
<1>0. "idle" \notin Busy
  BY DEF Busy, Attempts, Retries
<1>1. CASE BeginSend(t)
  <2>1. round.seated \in SUBSET Players
    BY DEF AnchorsIInv, AnchorsShape, Round
  <2> QED
    BY <1>0, <1>1, <2>1, BeginKeeps DEF BeginSend, Begins
<1>2. ASSUME NEW press \in AnchorPresses \cup {NoButton}, BeginUpdate(t, press) PROVE AnchorsIInv'
  BY <1>0, <1>2, BeginKeeps DEF BeginUpdate, Begins
<1>3. ASSUME NEW press \in AnchorPresses \cup {NoButton}, BeginClear(t, press) PROVE AnchorsIInv'
  <2>1. {p \in Players \ round.seated : roles[p] # NoAnchor} \in SUBSET Players
    OBVIOUS
  <2> QED
    BY <1>0, <1>3, <2>1, BeginKeeps DEF BeginClear, Begins
<1> QED
  BY <1>1, <1>2, <1>3
-----------------------------------------------------------------------------
(* Calls that hold the lock and only look.                                   *)

\* A call that ends gives the lock on.
LEMMA EndCallKeeps ==
    ASSUME AnchorsIInv, NEW t \in Painters, EndCall(t)
    PROVE  AnchorsIInv'
<1> USE DEF AnchorsIInv
<1>1. /\ HasLock(t) /\ tasks' = [tasks EXCEPT ![t] = NoCall] /\ line' = Tail(line)
      /\ lastStage' = round.street /\ UNCHANGED <<round, messageVars, recordVars>>
  BY DEF EndCall
<1>2. NoCall \in Call /\ NoCall.at = "idle" /\ NoCall.text = "plain"
  BY DEF NoCall, Call, Places, Texts, Cards
<1>3. /\ tasks' \in [Painters -> Call] /\ tasks'[t] = NoCall
      /\ \A u \in Painters \ {t} : tasks'[u] = tasks[u]
  BY <1>1, <1>2 DEF AnchorsShape
<1>4. tasks'[t].at \notin Busy /\ tasks'[t].text = "plain"
  BY <1>2, <1>3 DEF Busy, Attempts, Retries
<1>5. WorkStands' /\ \A u \in Painters : tasks'[u].at \notin Busy
  BY <1>1, <1>3, <1>4, NobodyWorks
<1>6. line' \in Seq(Painters)
  BY <1>1 DEF AnchorsShape, HasLock
<1>7. round.street \in Nat
  BY DEF AnchorsShape, Round
<1>8. AnchorsShape'
  BY <1>1, <1>3, <1>6, <1>7 DEF AnchorsShape, messageVars, recordVars
<1> QED
  BY <1>1, <1>5, <1>8, NothingShown DEF OneWorks

\* What a call has when it has done with a player.
LEMMA TurnsOn ==
    ASSUME AnchorsIInv, NEW t \in Painters, NextPlayer(t), HasLock(t)
    PROVE  /\ tasks' \in [Painters -> Call] /\ \A u \in Painters \ {t} : tasks'[u] = tasks[u]
           /\ WorkStands' /\ OneWorks'
<1> USE DEF AnchorsIInv
<1>1. /\ Turned(t) \in Call /\ Turned(t).at = "working"
      /\ Turned(t).kind = tasks[t].kind /\ Turned(t).text = tasks[t].text
  BY DEF Turned, AnchorsShape, Call, Places
<1>2. /\ tasks' \in [Painters -> Call] /\ tasks'[t] = Turned(t)
      /\ \A u \in Painters \ {t} : tasks'[u] = tasks[u]
  BY <1>1 DEF NextPlayer, AnchorsShape
<1>3. "working" \notin Busy
  BY DEF Busy, Attempts, Retries
<1>4. tasks[t].kind = "send" => tasks[t].text = "plain"
  BY DEF WorkStands, SendStands
<1>5. WorkStands' /\ \A u \in Painters : tasks'[u].at \notin Busy
  BY <1>1, <1>2, <1>3, <1>4, NobodyWorks
<1> QED
  BY <1>2, <1>5 DEF OneWorks

\* An update leaves out who is inactive, has no anchor or would see the same, and goes on.
LEMMA SkipAnchorKeeps ==
    ASSUME AnchorsIInv, NEW t \in Painters, SkipAnchor(t)
    PROVE  AnchorsIInv'
<1> USE DEF AnchorsIInv
<1>1. NextPlayer(t) /\ HasLock(t) /\ UNCHANGED <<round, lastStage, messageVars, recordVars, line>>
  BY DEF SkipAnchor, Working
<1>2. tasks' \in [Painters -> Call] /\ WorkStands' /\ OneWorks'
  BY <1>1, TurnsOn
<1>3. AnchorsShape'
  BY <1>1, <1>2 DEF AnchorsShape, messageVars, recordVars
<1> QED
  BY <1>1, <1>2, <1>3, NothingShown

\* The cards of this moment are cards.
LEMMA DealtAreCards ==
    ASSUME AnchorsShape, NEW t \in Painters
    PROVE  Dealt(t) \in Cards /\ tasks[t].cards \in Cards /\ tasks[t].text \in Texts
           /\ Looks(t) \in [cards : Cards, text : Texts]
<1>1. tasks[t].cards \in Cards /\ tasks[t].text \in Texts /\ round.hand \in Nat
  BY DEF AnchorsShape, Call, Round
<1>2. tasks[t].cards[2] \in Nat
  BY <1>1 DEF Cards
<1> QED
  BY <1>1, <1>2 DEF Dealt, Cards, Looks

\* A light has one of its colours.
LEMMA LightIsText ==
    ASSUME NEW t, NEW p
    PROVE  AnchorText(t, p) \in Texts
BY DEF AnchorText, Texts

\* A step of the one at work that changes only its own call.
LEMMA OwnStep ==
    ASSUME AnchorsIInv, NEW t \in Painters, HasLock(t), tasks[t].todo # {},
           tasks' \in [Painters -> Call], tasks'[t].todo = tasks[t].todo,
           \A u \in Painters \ {t} : tasks'[u] = tasks[u],
           UNCHANGED <<round, lastStage, messageVars, recordVars, line>>,
           SendStands(t)' /\ OldStands(t)' /\ RecordStands(t)'
    PROVE  AnchorsIInv'
<1> USE DEF AnchorsIInv
<1>1. AnchorsShape'
  BY DEF AnchorsShape, messageVars, recordVars
<1>2. OneWorks'
  BY DEF OneWorks, HasLock
<1>3. ASSUME NEW u \in Painters PROVE SendStands(u)' /\ OldStands(u)' /\ RecordStands(u)'
  <2>1. CASE u # t
    BY <2>1, WorkGoesOn DEF messageVars, recordVars, AnchorsShape
  <2> QED
    BY <2>1
<1> QED
  BY <1>1, <1>2, <1>3, NothingShown DEF WorkStands

\* A call that gets other fields stays one.
LEMMA CallAt ==
    ASSUME NEW c \in Call, NEW at \in Places
    PROVE  LET d == [c EXCEPT !.at = at]
           IN  /\ d \in Call /\ d.at = at /\ d.kind = c.kind /\ d.todo = c.todo
               /\ d.cards = c.cards /\ d.text = c.text /\ d.old = c.old
BY DEF Call

\* An update starts from the message the player's object names.
LEMMA StartUpdateKeeps ==
    ASSUME AnchorsIInv, NEW t \in Painters, StartUpdate(t)
    PROVE  AnchorsIInv'
<1> USE DEF AnchorsIInv
<1> DEFINE p == PlayerOf(t)
<1>1. /\ tasks[t].kind = "update" /\ HasLock(t) /\ tasks[t].todo # {} /\ anchors[p] # 0 /\ roles[p] # NoAnchor
      /\ tasks' = [tasks EXCEPT ![t].at = "painting", ![t].cards = Dealt(t), ![t].text = AnchorText(t, p), ![t].old = anchors[p]]
      /\ UNCHANGED <<round, lastStage, messageVars, recordVars, line>>
  BY DEF StartUpdate, Working
<1>2. p \in Players
  BY <1>1, PlayerIsOne
<1>3. anchors[p] \in 1..sent /\ anchors[p] \in Nat
  BY <1>1, <1>2 DEF AnchorsShape
<1>4. /\ tasks' \in [Painters -> Call]
      /\ tasks'[t].at = "painting" /\ tasks'[t].kind = "update" /\ tasks'[t].old = anchors[p]
      /\ tasks'[t].todo = tasks[t].todo
      /\ \A u \in Painters \ {t} : tasks'[u] = tasks[u]
  <2> DEFINE c == [tasks[t] EXCEPT !.at = "painting", !.cards = Dealt(t), !.text = AnchorText(t, p), !.old = anchors[p]]
  <2>1. tasks[t] \in Call /\ "painting" \in Places
    BY DEF AnchorsShape, Places
  <2>2. Dealt(t) \in Cards /\ AnchorText(t, p) \in Texts
    BY DealtAreCards, LightIsText
  <2>3. /\ c \in Call /\ c.at = "painting" /\ c.kind = tasks[t].kind /\ c.todo = tasks[t].todo
        /\ c.old = anchors[p]
    <3> DEFINE d == Dealt(t)
               a == AnchorText(t, p)
               o == anchors[p]
    <3>1. d \in Cards /\ a \in Texts /\ o \in Nat
      BY <1>3, <2>2
    <3> HIDE DEF d, a, o
    <3>2. LET e == [tasks[t] EXCEPT !.at = "painting", !.cards = d, !.text = a, !.old = o]
          IN  /\ e \in Call /\ e.at = "painting" /\ e.kind = tasks[t].kind /\ e.todo = tasks[t].todo
              /\ e.old = o
      BY <2>1, <3>1 DEF Call
    <3> QED
      BY <3>2 DEF d, a, o
  <2>4. tasks' = [tasks EXCEPT ![t] = c]
    BY <1>1, Zenon
  <2> HIDE DEF c
  <2> QED
    BY <1>1, <2>3, <2>4 DEF AnchorsShape
<1>5. PlayerOf(t)' = p
  <2>1. tasks'[t].todo = tasks[t].todo
    BY <1>4
  <2> QED
    BY <2>1 DEF PlayerOf
<1>6. OwnOf(p, anchors[p])
  BY <1>2, <1>3 DEF NamesApart, Named
<1>7. SendStands(t)'
  BY <1>4 DEF SendStands
<1>8. OldStands(t)'
  BY <1>1, <1>2, <1>3, <1>4, <1>5, <1>6, NothingShown DEF OldStands, OwnOf, messageVars
<1>9. RecordStands(t)'
  BY <1>1, <1>2, <1>4, <1>5 DEF RecordStands, recordVars, MatchesRecord, Retries
<1> QED
  BY <1>1, <1>4, <1>7, <1>8, <1>9, OwnStep

\* The call to Telegram is for the same message.
LEMMA CallTelegramKeeps ==
    ASSUME AnchorsIInv, NEW t \in Painters, Edit(t) \/ EditAgain(t)
    PROVE  AnchorsIInv'
<1> USE DEF AnchorsIInv
<1> DEFINE p == PlayerOf(t)
           r == roles[p]
<1>1. PICK at \in {"editing", "resending", "retrying", "retryResending"} :
        /\ tasks' = [tasks EXCEPT ![t].at = at]
        /\ at \in {"editing", "resending"} => tasks[t].at = "painting"
        /\ at \in {"retrying", "retryResending"} => tasks[t].at = "retry"
        /\ at = "retrying" => InPlace(t)
  <2>1. CASE Edit(t)
    BY <2>1 DEF Edit, CallTelegram
  <2>2. CASE EditAgain(t)
    BY <2>2 DEF EditAgain, CallTelegram
  <2> QED
    BY <2>1, <2>2
<1>2. UNCHANGED <<round, lastStage, messageVars, recordVars, line>>
  BY DEF Edit, EditAgain, CallTelegram
<1>3. tasks[t].at \in Busy
  BY <1>1 DEF Busy, Attempts, Retries
<1>4. HasLock(t) /\ tasks[t].todo # {} /\ p \in Players
  BY <1>3, PlayerIsOne DEF OneWorks
<1>5. /\ tasks' \in [Painters -> Call]
      /\ tasks'[t].at = at /\ tasks'[t].kind = tasks[t].kind /\ tasks'[t].old = tasks[t].old
      /\ tasks'[t].todo = tasks[t].todo /\ tasks'[t].cards = tasks[t].cards /\ tasks'[t].text = tasks[t].text
      /\ \A u \in Painters \ {t} : tasks'[u] = tasks[u]
  <2> DEFINE c == [tasks[t] EXCEPT !.at = at]
  <2>1. tasks[t] \in Call /\ at \in Places
    BY DEF AnchorsShape, Places
  <2>2. /\ c \in Call /\ c.at = at /\ c.kind = tasks[t].kind /\ c.todo = tasks[t].todo
        /\ c.cards = tasks[t].cards /\ c.text = tasks[t].text /\ c.old = tasks[t].old
    BY <2>1, CallAt
  <2>3. tasks' = [tasks EXCEPT ![t] = c]
    BY <1>1, Zenon
  <2> HIDE DEF c
  <2> QED
    BY <2>2, <2>3 DEF AnchorsShape
<1>6. PlayerOf(t)' = p
  <2>1. tasks'[t].todo = tasks[t].todo
    BY <1>5
  <2> QED
    BY <2>1 DEF PlayerOf
<1>7. SendStands(t) /\ OldStands(t) /\ RecordStands(t)
  BY DEF WorkStands
<1>8. SendStands(t)'
  BY <1>1, <1>5, <1>7 DEF SendStands
<1>9. OldStands(t)'
  BY <1>1, <1>2, <1>4, <1>5, <1>6, <1>7, NothingShown DEF OldStands, OwnOf, messageVars, Attempts, Retries
<1>10. RecordStands(t)'
  BY <1>1, <1>2, <1>4, <1>5, <1>6, <1>7 DEF RecordStands, recordVars, Attempts, Retries, InPlace
<1> QED
  BY <1>2, <1>4, <1>5, <1>8, <1>9, <1>10, OwnStep
-----------------------------------------------------------------------------
(* What is recorded.                                                         *)

\* A recorded anchor is none but an anchor.
LEMMA AnchorIsThere ==
    ASSUME NEW a \in Anchor
    PROVE  a # NoAnchor
BY AnchorsAssumption

\* What a record says once an anchor was painted.
LEMMA PaintedSays ==
    ASSUME AnchorsShape, NEW t \in Painters, PlayerOf(t) \in Players, NEW m \in Nat, roles' = Painted(t, m)
    PROVE  LET p == PlayerOf(t) IN
           /\ roles' \in [Players -> Anchor \cup {NoAnchor}]
           /\ \A q \in Players \ {p} : roles'[q] = roles[q]
           /\ roles[p] = NoAnchor => roles'[p] = NoAnchor
           /\ roles[p] # NoAnchor =>
                /\ roles'[p] # NoAnchor /\ roles'[p].msg = m
                /\ roles'[p].cards = tasks[t].cards /\ roles'[p].text = tasks[t].text
<1> DEFINE p == PlayerOf(t)
           a == [msg |-> m, cards |-> tasks[t].cards, text |-> tasks[t].text, light |-> tasks[t].text,
                 sig |-> Looks(t)]
<1>1. a \in Anchor
  BY DealtAreCards DEF Anchor
<1>2. a.msg = m /\ a.cards = tasks[t].cards /\ a.text = tasks[t].text /\ a # NoAnchor
  BY <1>1, AnchorIsThere
<1>3. roles' = [roles EXCEPT ![p] = IF roles[p] = NoAnchor THEN roles[p] ELSE a]
  BY DEF Painted
<1> HIDE DEF a
<1> QED
  BY <1>1, <1>2, <1>3 DEF AnchorsShape

\* Recording an anchor as shown or as taken to be shown, by the old message or a new one.
LEMMA RecordAsKeeps ==
    ASSUME AnchorsIInv, NEW t \in Painters, tasks[t].at \in Attempts,
           NEW m, m = tasks[t].old \/ m = sent + 1, NEW shows \in BOOLEAN, RecordAs(t, m, shows),
           sent' \in 0..MaxSent, sent' \in {sent, sent + 1}, m <= sent',
           UNCHANGED <<round, lastStage, deletions, line>>,
           DOMAIN chat' \subseteq DOMAIN chat \cup {sent + 1},
           sent + 1 \in DOMAIN chat' => sent' = sent + 1 /\ (m = sent + 1 \/ sent + 1 \in strays'),
           \A n \in DOMAIN chat' \ {m, sent + 1} : chat'[n] = chat[n],
           shows /\ m \in DOMAIN chat' => chat'[m] = Looks(t),
           doomed' \in [1..MaxSent -> {"no", "waiting", "recorded", "alone"}],
           \A n \in 1..MaxSent : doomed[n] # "no" => doomed'[n] # "no",
           strays \cup Forgotten(t) \subseteq strays',
           m = sent + 1 => doomed'[tasks[t].old] # "no" /\ Unrecorded(t) \subseteq strays'
    PROVE  AnchorsIInv'
<1> USE DEF AnchorsIInv
<1> DEFINE old == tasks[t].old
<1>0. HasLock(t) /\ tasks[t].todo # {} /\ PlayerOf(t) \in Players
  BY PlayerIsOne DEF OneWorks, Busy
<1>1. PICK p \in Players : p = PlayerOf(t)
  BY <1>0
<1>2. old \in 1..sent /\ OwnOf(p, old) /\ sent \in Nat /\ m \in 1..sent' /\ sent <= MaxSent
  BY <1>0, <1>1 DEF WorkStands, OldStands, AnchorsShape
<1>3. OwnOf(p, sent + 1) /\ \A q \in Players : ~Named(q, sent + 1)
  BY <1>2 DEF OwnOf, Named, AnchorsShape
<1>4. OwnOf(p, m)
  BY <1>2, <1>3
<1>5. /\ roles' \in [Players -> Anchor \cup {NoAnchor}]
      /\ \A q \in Players \ {p} : roles'[q] = roles[q]
      /\ roles[p] = NoAnchor => roles'[p] = NoAnchor
      /\ roles[p] # NoAnchor =>
           /\ roles'[p] # NoAnchor /\ roles'[p].msg = m
           /\ roles'[p].cards = tasks[t].cards /\ roles'[p].text = tasks[t].text
  <2>1. roles' = Painted(t, m) /\ m \in Nat
    BY <1>2 DEF RecordAs
  <2> QED
    BY <1>0, <1>1, <2>1, PaintedSays
<1>6. /\ anchors' \in [Players -> 0..sent'] /\ anchors'[p] = m
      /\ \A q \in Players \ {p} : anchors'[q] = anchors[q]
  <2>1. anchors' = [anchors EXCEPT ![p] = m]
    BY <1>1 DEF RecordAs
  <2>2. anchors \in [Players -> 0..sent']
    BY <1>2 DEF AnchorsShape
  <2> QED
    BY <1>1, <1>2, <2>1, <2>2
<1>7. parted' = parted \ {p} /\ NextPlayer(t)
      /\ unshown' = IF shows THEN unshown \ {m} ELSE unshown \cup {m}
  BY <1>1 DEF RecordAs
<1>8. tasks' \in [Painters -> Call] /\ WorkStands' /\ OneWorks'
  BY <1>0, <1>7, TurnsOn
<1>20. roles[p] # NoAnchor => roles[p].msg = old \/ (p \in parted /\ roles[p].msg \in strays')
  BY <1>1 DEF WorkStands, RecordStands, Forgotten
<1>21. m = sent + 1 => (roles[p] = NoAnchor => m \in strays')
  BY <1>1 DEF Unrecorded
<1> HIDE DEF old
<1>9. AnchorsShape'
  <2>1. \A q \in Players : roles'[q] # NoAnchor => roles'[q].msg \in 1..sent'
    BY <1>1, <1>2, <1>5 DEF AnchorsShape
  <2>2. DOMAIN chat' \subseteq 1..sent' /\ deletions' \subseteq 1..sent'
    BY <1>2 DEF AnchorsShape
  <2> QED
    BY <1>2, <1>5, <1>6, <1>8, <2>1, <2>2 DEF AnchorsShape
<1>10. \A n \in 1..sent' : Named(p, n)' => OwnOf(p, n)
  <2> SUFFICES ASSUME NEW n \in 1..sent', Named(p, n)' PROVE n = m
    BY <1>4
  <2> QED
    BY <1>5, <1>6 DEF Named
<1>11. roles[p] # NoAnchor /\ roles[p].msg \in DOMAIN chat =>
              \/ roles'[p] # NoAnchor /\ roles'[p].msg = roles[p].msg
              \/ doomed'[roles[p].msg] # "no" \/ roles[p].msg \in strays'
  BY <1>5, <1>20 DEF old
<1>12. \A n \in DOMAIN chat' :
         n \in DOMAIN chat \/ n \in strays' \/ (roles'[p] # NoAnchor /\ roles'[p].msg = n)
  BY <1>5, <1>21
<1>13. roles'[p] # NoAnchor /\ roles'[p].msg \in DOMAIN chat' \ unshown' =>
              chat'[roles'[p].msg] = [cards |-> roles'[p].cards, text |-> roles'[p].text]
  <2> SUFFICES ASSUME roles'[p] # NoAnchor, roles'[p].msg \in DOMAIN chat' \ unshown'
               PROVE  chat'[m] = [cards |-> tasks[t].cards, text |-> tasks[t].text]
    BY <1>5
  <2> QED
    BY <1>5, <1>7 DEF Looks
<1>14. \A n \in DOMAIN chat : n \in strays \/ doomed[n] # "no" => n \in strays' \/ doomed'[n] # "no"
  <2>1. DOMAIN chat \subseteq 1..MaxSent
    <3>1. MaxSent \in Nat /\ DOMAIN chat \subseteq 1..sent
      BY AnchorsAssumption DEF AnchorsShape
    <3> QED
      BY <1>2, <3>1
  <2> QED
    BY <2>1
<1>15. \A n \in DOMAIN chat' :
         OwnOf(p, n) \/ (n \in DOMAIN chat /\ chat'[n] = chat[n] /\ (n \in unshown => n \in unshown'))
  BY <1>3, <1>4, <1>7
<1>16. parted \subseteq parted' \cup {p}
  BY <1>7
<1>17. roles'[p] # NoAnchor /\ anchors'[p] # 0 => anchors'[p] = roles'[p].msg \/ p \in parted'
  BY <1>5, <1>6
<1>18. NoStrayAnchor' /\ ShownAsRecorded' /\ MatchesRecord' /\ NamesApart'
  BY <1>1, <1>5, <1>6, <1>9, <1>10, <1>11, <1>12, <1>13, <1>14, <1>15, <1>16, <1>17, OnePlayerStep
<1>19. DeletedAreGone'
  BY <1>2 DEF DeletedAreGone, AnchorsShape
<1> QED
  BY <1>8, <1>9, <1>18, <1>19
-----------------------------------------------------------------------------
(* The first attempt of an update.                                           *)

\* The bounds of the messages are numbers, and a new message fits them.
LEMMA Bounds ==
    ASSUME AnchorsShape
    PROVE  /\ MaxSent \in Nat /\ sent \in Nat /\ sent <= MaxSent /\ (sent < MaxSent => sent + 1 \in 1..MaxSent)
           /\ \A n \in 1..sent : n \in 1..MaxSent
<1>1. MaxSent \in Nat /\ sent \in 0..MaxSent
  BY AnchorsAssumption DEF AnchorsShape
<1> QED
  BY <1>1

\* An update that is throttled, or whose message was deleted, records what it intended.
LEMMA UpdateLeavesAloneKeeps ==
    ASSUME AnchorsIInv, NEW t \in Painters, UpdateLeavesAlone(t)
    PROVE  AnchorsIInv'
<1>1. /\ tasks[t].at \in Attempts /\ RecordAs(t, tasks[t].old, FALSE)
      /\ UNCHANGED <<round, lastStage, chat, sent, deletions, doomed, line>>
      /\ strays' = strays \cup Forgotten(t)
  BY DEF UpdateLeavesAlone, Attempts
<1>2. tasks[t].old \in 1..sent /\ sent' \in 0..MaxSent /\ sent \in Nat
      /\ doomed' \in [1..MaxSent -> {"no", "waiting", "recorded", "alone"}]
  BY <1>1, Bounds DEF AnchorsIInv, WorkStands, OldStands, AnchorsShape
<1>3. PICK m : m = tasks[t].old
  OBVIOUS
<1>4. m <= sent' /\ m # sent + 1
  BY <1>1, <1>2, <1>3
<1>5. DOMAIN chat' = DOMAIN chat /\ sent + 1 \notin DOMAIN chat
  BY <1>1, Bounds DEF AnchorsIInv, AnchorsShape
<1>6. PICK shows \in BOOLEAN : shows = FALSE
  OBVIOUS
<1> QED
  BY <1>1, <1>2, <1>3, <1>4, <1>5, <1>6, RecordAsKeeps

\* What a new message changes in the chat.
LEMMA Delivered ==
    ASSUME AnchorsShape, NEW t \in Painters, Fits, Deliver(t)
    PROVE  /\ sent' = sent + 1 /\ sent' \in 0..MaxSent /\ sent + 1 \in 1..MaxSent
           /\ DOMAIN chat' = DOMAIN chat \cup {sent + 1}
           /\ chat'[sent + 1] = Looks(t)
           /\ \A n \in DOMAIN chat' \ {sent + 1} : chat'[n] = chat[n]
           /\ sent + 1 \notin DOMAIN chat
BY Bounds DEF Fits, Deliver, AnchorsShape

\* A call that is refused, or looks so, leaves at most one new message in the chat.
LEMMA UnansweredCall ==
    ASSUME AnchorsShape, NEW t \in Painters, NEW leftOver, Unanswered(t, leftOver)
    PROVE  /\ strays \cup leftOver \subseteq strays'
           /\ sent' \in 0..MaxSent /\ sent' \in {sent, sent + 1}
           /\ DOMAIN chat' \subseteq DOMAIN chat \cup {sent + 1}
           /\ sent + 1 \in DOMAIN chat' => sent' = sent + 1 /\ sent + 1 \in strays'
           /\ \A n \in DOMAIN chat' \ {tasks[t].old, sent + 1} : chat'[n] = chat[n]
<1>1. sent \in 0..MaxSent /\ sent + 1 \notin DOMAIN chat
  BY Bounds DEF AnchorsShape
<1>2. CASE Fits /\ Deliver(t) /\ strays' = strays \cup leftOver \cup {sent + 1}
  BY <1>2, Delivered
<1>3. CASE UNCHANGED <<chat, sent>> /\ strays' = strays \cup leftOver
  BY <1>1, <1>3
<1>4. CASE /\ chat' = [chat EXCEPT ![tasks[t].old] = Looks(t)]
           /\ UNCHANGED sent /\ strays' = strays \cup leftOver
  BY <1>1, <1>4
<1> QED
  BY <1>2, <1>3, <1>4 DEF Unanswered

\* An edit that Telegram refuses is recorded as if it had been shown.
LEMMA UpdateRefusedKeeps ==
    ASSUME AnchorsIInv, NEW t \in Painters, UpdateRefused(t)
    PROVE  AnchorsIInv'
<1>1. /\ tasks[t].at \in Attempts /\ RecordAs(t, tasks[t].old, FALSE)
      /\ UNCHANGED <<round, lastStage, deletions, doomed, line>> /\ Unanswered(t, Forgotten(t))
  BY DEF UpdateRefused, Attempts
<1>2. tasks[t].old \in 1..sent /\ sent \in Nat
      /\ doomed' \in [1..MaxSent -> {"no", "waiting", "recorded", "alone"}]
  BY <1>1, Bounds DEF AnchorsIInv, WorkStands, OldStands, AnchorsShape
<1>3. PICK m : m = tasks[t].old
  OBVIOUS
<1>5. /\ strays \cup Forgotten(t) \subseteq strays'
      /\ sent' \in 0..MaxSent /\ sent' \in {sent, sent + 1}
      /\ DOMAIN chat' \subseteq DOMAIN chat \cup {sent + 1}
      /\ sent + 1 \in DOMAIN chat' => sent' = sent + 1 /\ sent + 1 \in strays'
      /\ \A n \in DOMAIN chat' \ {m, sent + 1} : chat'[n] = chat[n]
  BY <1>1, <1>3, UnansweredCall DEF AnchorsIInv
<1>4. m <= sent' /\ m # sent + 1
  BY <1>2, <1>3, <1>5
<1>6. PICK shows \in BOOLEAN : shows = FALSE
  OBVIOUS
<1> QED
  BY <1>1, <1>2, <1>3, <1>4, <1>5, <1>6, RecordAsKeeps

\* An edit that succeeds: an old message changes its looks: nobody else's record names it.
LEMMA AnchorEditedKeeps ==
    ASSUME AnchorsIInv, NEW t \in Painters, AnchorEdited(t)
    PROVE  AnchorsIInv'
<1>1. /\ tasks[t].at \in Attempts /\ RecordAs(t, tasks[t].old, TRUE)
      /\ UNCHANGED <<round, lastStage, sent, deletions, doomed, line>>
      /\ strays' = strays \cup Forgotten(t)
      /\ tasks[t].old \in DOMAIN chat /\ chat' = [chat EXCEPT ![tasks[t].old] = Looks(t)]
  BY DEF AnchorEdited, Attempts
<1>2. tasks[t].old \in 1..sent /\ sent' \in 0..MaxSent /\ sent \in Nat
      /\ doomed' \in [1..MaxSent -> {"no", "waiting", "recorded", "alone"}]
  BY <1>1, Bounds DEF AnchorsIInv, WorkStands, OldStands, AnchorsShape
<1>3. /\ DOMAIN chat' = DOMAIN chat /\ chat'[tasks[t].old] = Looks(t)
      /\ \A n \in DOMAIN chat' \ {tasks[t].old} : chat'[n] = chat[n]
  BY <1>1
<1>4. PICK m : m = tasks[t].old
  OBVIOUS
<1>5. m <= sent' /\ m # sent + 1
  BY <1>1, <1>2, <1>4
<1>6. sent + 1 \notin DOMAIN chat
  BY Bounds DEF AnchorsIInv, AnchorsShape
<1> QED
  BY <1>1, <1>2, <1>3, <1>4, <1>5, <1>6, RecordAsKeeps

\* The new message takes the old one's place, which its task deletes.
LEMMA ResentKeeps ==
    ASSUME AnchorsIInv, NEW t \in Painters, Resent(t)
    PROVE  AnchorsIInv'
<1>1. /\ tasks[t].at \in Attempts /\ RecordAs(t, sent + 1, TRUE) /\ Fits /\ Deliver(t)
      /\ doomed' = [doomed EXCEPT ![tasks[t].old] = "waiting"]
      /\ UNCHANGED <<round, lastStage, deletions, line>>
      /\ strays' = strays \cup Forgotten(t) \cup Unrecorded(t)
  BY DEF Resent, Attempts
<1>2. tasks[t].old \in 1..sent /\ doomed \in [1..MaxSent -> {"no", "waiting", "recorded", "alone"}]
  BY <1>1 DEF AnchorsIInv, WorkStands, OldStands, AnchorsShape
<1>3. tasks[t].old \in 1..MaxSent
  BY <1>2, Bounds DEF AnchorsIInv
<1>4. /\ doomed' \in [1..MaxSent -> {"no", "waiting", "recorded", "alone"}]
      /\ \A n \in 1..MaxSent : doomed[n] # "no" => doomed'[n] # "no"
      /\ doomed'[tasks[t].old] # "no"
  BY <1>1, <1>2, <1>3
<1>5. /\ sent' = sent + 1 /\ sent' \in 0..MaxSent
      /\ DOMAIN chat' = DOMAIN chat \cup {sent + 1}
      /\ chat'[sent + 1] = Looks(t)
      /\ \A n \in DOMAIN chat' \ {sent + 1} : chat'[n] = chat[n]
  BY <1>1, Delivered DEF AnchorsIInv
<1>6. PICK m : m = sent + 1
  OBVIOUS
<1>7. m <= sent'
  BY <1>5, <1>6, Bounds DEF AnchorsIInv
<1> QED
  BY <1>1, <1>4, <1>5, <1>6, <1>7, RecordAsKeeps
-----------------------------------------------------------------------------
(* The second attempt of an update.                                          *)

\* Recording a second attempt: the message and the text alone, taken to be shown.
LEMMA RecoverKeeps ==
    ASSUME AnchorsIInv, NEW t \in Painters, tasks[t].at \in Retries,
           NEW m, m = tasks[t].old \/ m = sent + 1, Recover(t, m),
           sent' \in 0..MaxSent, sent' \in {sent, sent + 1}, m <= sent',
           UNCHANGED <<round, lastStage, deletions, line, anchors>>,
           unshown' = unshown \cup {m},
           DOMAIN chat' \subseteq DOMAIN chat \cup {sent + 1},
           sent + 1 \in DOMAIN chat' => sent' = sent + 1 /\ (m = sent + 1 \/ sent + 1 \in strays'),
           \A n \in DOMAIN chat' \ {m, sent + 1} : chat'[n] = chat[n],
           doomed' \in [1..MaxSent -> {"no", "waiting", "recorded", "alone"}],
           \A n \in 1..MaxSent : doomed[n] # "no" => doomed'[n] # "no",
           strays \subseteq strays', parted \subseteq parted',
           m = sent + 1 => /\ doomed'[tasks[t].old] # "no" /\ Unrecorded(t) \subseteq strays'
                           /\ roles[PlayerOf(t)] # NoAnchor => PlayerOf(t) \in parted'
    PROVE  AnchorsIInv'
<1> USE DEF AnchorsIInv
<1> DEFINE old == tasks[t].old
<1>0. HasLock(t) /\ tasks[t].todo # {} /\ PlayerOf(t) \in Players
  BY PlayerIsOne DEF OneWorks, Busy
<1>1. PICK p \in Players : p = PlayerOf(t)
  BY <1>0
<1>2. old \in 1..sent /\ OwnOf(p, old) /\ sent \in Nat /\ m \in 1..sent' /\ sent <= MaxSent
  BY <1>0, <1>1 DEF WorkStands, OldStands, AnchorsShape
<1>3. OwnOf(p, sent + 1) /\ \A q \in Players : ~Named(q, sent + 1)
  BY <1>2 DEF OwnOf, Named, AnchorsShape
<1>4. OwnOf(p, m)
  BY <1>2, <1>3
<1>5. /\ roles' \in [Players -> Anchor \cup {NoAnchor}]
      /\ \A q \in Players \ {p} : roles'[q] = roles[q]
      /\ roles[p] = NoAnchor => roles'[p] = NoAnchor
      /\ roles[p] # NoAnchor => roles'[p] # NoAnchor /\ roles'[p].msg = m
  <2> DEFINE a == [roles[p] EXCEPT !.msg = m, !.text = tasks[t].text]
  <2>1. roles' = [roles EXCEPT ![p] = IF roles[p] = NoAnchor THEN roles[p] ELSE a]
    BY <1>1 DEF Recover
  <2>2. roles[p] \in Anchor => a \in Anchor /\ a.msg = m
    <3>1. m \in Nat /\ tasks[t].text \in Texts
      BY <1>2, DealtAreCards
    <3> QED
      BY <3>1 DEF Anchor
  <2>3. roles[p] # NoAnchor => a \in Anchor /\ a.msg = m /\ a # NoAnchor
    BY <2>2, AnchorIsThere DEF AnchorsShape
  <2> HIDE DEF a
  <2> QED
    BY <2>1, <2>3 DEF AnchorsShape
<1>6. \A q \in Players : anchors'[q] = anchors[q]
  OBVIOUS
<1>7. NextPlayer(t)
  BY DEF Recover
<1>8. tasks' \in [Painters -> Call] /\ WorkStands' /\ OneWorks'
  BY <1>0, <1>7, TurnsOn
<1>9. roles[p] # NoAnchor => roles[p].msg = old
  BY <1>1 DEF WorkStands, RecordStands
<1>10. m = sent + 1 => (IF roles[p] = NoAnchor THEN m \in strays' ELSE p \in parted') /\ doomed'[old] # "no"
  BY <1>1 DEF Unrecorded
<1> HIDE DEF old
<1>11. AnchorsShape'
  <2>1. \A q \in Players : roles'[q] # NoAnchor => roles'[q].msg \in 1..sent'
    BY <1>1, <1>2, <1>5 DEF AnchorsShape
  <2>2. DOMAIN chat' \subseteq 1..sent' /\ deletions' \subseteq 1..sent'
    BY <1>2 DEF AnchorsShape
  <2>3. anchors' \in [Players -> 0..sent']
    BY <1>2 DEF AnchorsShape
  <2> QED
    BY <1>2, <1>5, <1>8, <2>1, <2>2, <2>3 DEF AnchorsShape
<1>12. \A n \in 1..sent' : Named(p, n)' => OwnOf(p, n)
  <2> SUFFICES ASSUME NEW n \in 1..sent', Named(p, n)' PROVE OwnOf(p, n)
    OBVIOUS
  <2>1. n = m \/ anchors[p] = n
    BY <1>5 DEF Named
  <2>2. CASE anchors[p] = n
    <3>1. n \in 1..sent
      BY <1>2, <2>2 DEF AnchorsShape
    <3> QED
      BY <2>2, <3>1 DEF NamesApart, Named
  <2> QED
    BY <1>4, <2>1, <2>2
<1>13. roles[p] # NoAnchor /\ roles[p].msg \in DOMAIN chat =>
              \/ roles'[p] # NoAnchor /\ roles'[p].msg = roles[p].msg
              \/ doomed'[roles[p].msg] # "no" \/ roles[p].msg \in strays'
  BY <1>5, <1>9, <1>10 DEF old
<1>14. \A n \in DOMAIN chat' :
         n \in DOMAIN chat \/ n \in strays' \/ (roles'[p] # NoAnchor /\ roles'[p].msg = n)
  BY <1>5, <1>10
<1>15. roles'[p] # NoAnchor /\ roles'[p].msg \in DOMAIN chat' \ unshown' =>
              chat'[roles'[p].msg] = [cards |-> roles'[p].cards, text |-> roles'[p].text]
  BY <1>5
<1>16. \A n \in DOMAIN chat : n \in strays \/ doomed[n] # "no" => n \in strays' \/ doomed'[n] # "no"
  BY Bounds DEF AnchorsShape
<1>17. \A n \in DOMAIN chat' :
         OwnOf(p, n) \/ (n \in DOMAIN chat /\ chat'[n] = chat[n] /\ (n \in unshown => n \in unshown'))
  BY <1>3, <1>4
<1>18. roles'[p] # NoAnchor /\ anchors'[p] # 0 => anchors'[p] = roles'[p].msg \/ p \in parted'
  BY <1>5, <1>6, <1>9, <1>10 DEF MatchesRecord, old
<1>19. NoStrayAnchor' /\ ShownAsRecorded' /\ MatchesRecord' /\ NamesApart'
  BY <1>1, <1>5, <1>6, <1>11, <1>12, <1>13, <1>14, <1>15, <1>16, <1>17, <1>18, OnePlayerStep
<1>20. DeletedAreGone'
  BY <1>2 DEF DeletedAreGone, AnchorsShape
<1> QED
  BY <1>8, <1>11, <1>19, <1>20

\* A second attempt that leaves the message alone, or is refused.
LEMMA RetryInVainKeeps ==
    ASSUME AnchorsIInv, NEW t \in Painters, RetryLeavesAlone(t) \/ RetryRefused(t)
    PROVE  AnchorsIInv'
<1>1. /\ tasks[t].at \in Retries /\ Recover(t, tasks[t].old) /\ unshown' = unshown \cup {tasks[t].old}
      /\ UNCHANGED <<round, lastStage, deletions, doomed, line, anchors, parted>> /\ Unanswered(t, {})
  BY DEF RetryLeavesAlone, RetryRefused, Unanswered, Retries, messageVars
<1>2. tasks[t].old \in 1..sent /\ sent \in Nat
      /\ doomed' \in [1..MaxSent -> {"no", "waiting", "recorded", "alone"}]
  BY <1>1, Bounds DEF AnchorsIInv, WorkStands, OldStands, AnchorsShape
<1>3. PICK m : m = tasks[t].old
  OBVIOUS
<1>5. /\ strays \subseteq strays'
      /\ sent' \in 0..MaxSent /\ sent' \in {sent, sent + 1}
      /\ DOMAIN chat' \subseteq DOMAIN chat \cup {sent + 1}
      /\ sent + 1 \in DOMAIN chat' => sent' = sent + 1 /\ sent + 1 \in strays'
      /\ \A n \in DOMAIN chat' \ {m, sent + 1} : chat'[n] = chat[n]
  BY <1>1, <1>3, UnansweredCall DEF AnchorsIInv
<1>4. m <= sent' /\ m # sent + 1
  BY <1>2, <1>3, <1>5
<1> QED
  BY <1>1, <1>2, <1>3, <1>4, <1>5, RecoverKeeps

\* A second attempt that sends a new message parts the player's object from the record.
LEMMA RetryResentKeeps ==
    ASSUME AnchorsIInv, NEW t \in Painters, RetryResent(t)
    PROVE  AnchorsIInv'
<1>1. /\ tasks[t].at \in Retries /\ Recover(t, sent + 1) /\ Fits /\ Deliver(t)
      /\ doomed' = [doomed EXCEPT ![tasks[t].old] = "waiting"]
      /\ UNCHANGED <<round, lastStage, deletions, line, anchors>>
      /\ strays' = strays \cup Unrecorded(t) /\ unshown' = unshown \cup {sent + 1}
      /\ parted' = IF roles[PlayerOf(t)] = NoAnchor THEN parted ELSE parted \cup {PlayerOf(t)}
  BY DEF RetryResent, Retries
<1>2. tasks[t].old \in 1..sent /\ doomed \in [1..MaxSent -> {"no", "waiting", "recorded", "alone"}]
  BY <1>1 DEF AnchorsIInv, WorkStands, OldStands, AnchorsShape
<1>3. tasks[t].old \in 1..MaxSent
  BY <1>2, Bounds DEF AnchorsIInv
<1>4. /\ doomed' \in [1..MaxSent -> {"no", "waiting", "recorded", "alone"}]
      /\ \A n \in 1..MaxSent : doomed[n] # "no" => doomed'[n] # "no"
      /\ doomed'[tasks[t].old] # "no"
  BY <1>1, <1>2, <1>3
<1>5. /\ sent' = sent + 1 /\ sent' \in 0..MaxSent
      /\ DOMAIN chat' = DOMAIN chat \cup {sent + 1}
      /\ chat'[sent + 1] = Looks(t)
      /\ \A n \in DOMAIN chat' \ {sent + 1} : chat'[n] = chat[n]
  BY <1>1, Delivered DEF AnchorsIInv
<1>6. PICK m : m = sent + 1
  OBVIOUS
<1>7. m <= sent'
  BY <1>5, <1>6, Bounds DEF AnchorsIInv
<1> QED
  BY <1>1, <1>4, <1>5, <1>6, <1>7, RecoverKeeps
\* The second attempt edited the message in place: the record's cards were those of the
\* edit before it was made.
LEMMA RetryAppliedKeeps ==
    ASSUME AnchorsIInv, NEW t \in Painters, RetryApplied(t)
    PROVE  AnchorsIInv'
<1> USE DEF AnchorsIInv
<1>0. /\ tasks[t].at = "retrying" /\ HasLock(t) /\ tasks[t].todo # {} /\ PlayerOf(t) \in Players
      /\ tasks[t].old \in DOMAIN chat /\ chat' = [chat EXCEPT ![tasks[t].old] = Looks(t)]
      /\ unshown' = unshown \ {tasks[t].old} /\ NextPlayer(t)
      /\ UNCHANGED <<round, lastStage, sent, deletions, doomed, strays, anchors, parted, line>>
  BY PlayerIsOne DEF RetryApplied, OneWorks, Busy, Retries
<1>1. PICK p \in Players : p = PlayerOf(t)
  BY <1>0
<1>2. PICK m : m = tasks[t].old
  OBVIOUS
<1>3. m \in 1..sent /\ OwnOf(p, m)
  BY <1>0, <1>1, <1>2 DEF WorkStands, OldStands, Retries
<1>4. roles[p] # NoAnchor => roles[p].msg = m /\ roles[p].cards = tasks[t].cards
  BY <1>0, <1>1, <1>2 DEF WorkStands, RecordStands, Retries
<1>5. /\ roles' \in [Players -> Anchor \cup {NoAnchor}]
      /\ \A q \in Players \ {p} : roles'[q] = roles[q]
      /\ roles[p] = NoAnchor => roles'[p] = NoAnchor
      /\ roles[p] # NoAnchor => /\ roles'[p] # NoAnchor /\ roles'[p].msg = m
                                /\ roles'[p].cards = tasks[t].cards /\ roles'[p].text = tasks[t].text
  <2> DEFINE a == [roles[p] EXCEPT !.text = tasks[t].text, !.light = tasks[t].text]
  <2>1. roles' = [roles EXCEPT ![p] = IF roles[p] = NoAnchor THEN roles[p] ELSE a]
    BY <1>1 DEF RetryApplied
  <2>2. roles[p] \in Anchor => /\ a \in Anchor /\ a.msg = roles[p].msg /\ a.cards = roles[p].cards
                               /\ a.text = tasks[t].text
    <3>1. tasks[t].text \in Texts
      BY DealtAreCards
    <3> QED
      BY <3>1 DEF Anchor
  <2>3. roles[p] # NoAnchor => /\ a \in Anchor /\ a # NoAnchor /\ a.msg = roles[p].msg
                               /\ a.cards = roles[p].cards /\ a.text = tasks[t].text
    BY <2>2, AnchorIsThere DEF AnchorsShape
  <2> HIDE DEF a
  <2> QED
    BY <1>4, <2>1, <2>3 DEF AnchorsShape
<1>6. tasks' \in [Painters -> Call] /\ WorkStands' /\ OneWorks'
  BY <1>0, TurnsOn
<1>7. /\ DOMAIN chat' = DOMAIN chat /\ chat'[m] = Looks(t)
      /\ \A n \in DOMAIN chat' \ {m} : chat'[n] = chat[n]
  BY <1>0, <1>2
<1>8. AnchorsShape'
  <2>1. \A q \in Players : roles'[q] # NoAnchor => roles'[q].msg \in 1..sent'
    BY <1>0, <1>3, <1>5 DEF AnchorsShape
  <2> QED
    BY <1>0, <1>5, <1>6, <1>7, <2>1 DEF AnchorsShape
<1>9. \A n \in 1..sent' : Named(p, n)' => OwnOf(p, n)
  <2> SUFFICES ASSUME NEW n \in 1..sent', Named(p, n)' PROVE OwnOf(p, n)
    OBVIOUS
  <2>1. n = m \/ anchors[p] = n
    BY <1>0, <1>5 DEF Named
  <2> QED
    BY <1>0, <1>3, <2>1 DEF NamesApart, Named
<1>10. roles'[p] # NoAnchor /\ roles'[p].msg \in DOMAIN chat' \ unshown' =>
              chat'[roles'[p].msg] = [cards |-> roles'[p].cards, text |-> roles'[p].text]
  BY <1>5, <1>7 DEF Looks
<1>11. roles'[p] # NoAnchor /\ anchors'[p] # 0 => anchors'[p] = roles'[p].msg \/ p \in parted'
  BY <1>0, <1>4, <1>5 DEF MatchesRecord
<1>12. roles[p] # NoAnchor /\ roles[p].msg \in DOMAIN chat =>
              \/ roles'[p] # NoAnchor /\ roles'[p].msg = roles[p].msg
              \/ doomed'[roles[p].msg] # "no" \/ roles[p].msg \in strays'
  BY <1>4, <1>5
<1>13. \A n \in DOMAIN chat' :
         OwnOf(p, n) \/ (n \in DOMAIN chat /\ chat'[n] = chat[n] /\ (n \in unshown => n \in unshown'))
  BY <1>0, <1>2, <1>3, <1>7
<1>14. \A q \in Players \ {p} : roles'[q] = roles[q] /\ anchors'[q] = anchors[q]
  BY <1>0, <1>5
<1>15. /\ parted \subseteq parted' \cup {p}
       /\ \A n \in DOMAIN chat' : n \in DOMAIN chat
       /\ \A n \in DOMAIN chat : n \in strays \/ doomed[n] # "no" => n \in strays' \/ doomed'[n] # "no"
  BY <1>0, <1>7
<1>16. NoStrayAnchor' /\ ShownAsRecorded' /\ MatchesRecord' /\ NamesApart'
  BY <1>8, <1>9, <1>10, <1>11, <1>12, <1>13, <1>14, <1>15, OnePlayerStep
<1>17. DeletedAreGone'
  BY <1>0, <1>7 DEF DeletedAreGone
<1> QED
  BY <1>6, <1>8, <1>16, <1>17

-----------------------------------------------------------------------------
(* The anchors of a new hand.                                                *)

\* A recorded anchor that was not deleted is taken over.
LEMMA ReuseKeeps ==
    ASSUME AnchorsIInv, NEW t \in Painters, Reuse(t)
    PROVE  AnchorsIInv'
<1> USE DEF AnchorsIInv
<1>0. /\ HasLock(t) /\ tasks[t].todo # {} /\ PlayerOf(t) \in Players /\ NextPlayer(t)
      /\ roles[PlayerOf(t)] # NoAnchor
      /\ UNCHANGED <<round, lastStage, chat, sent, deletions, doomed, strays, line>>
  BY PlayerIsOne DEF Reuse, Working, Kept
<1>1. PICK p \in Players : p = PlayerOf(t)
  BY <1>0
<1>2. PICK m : m = roles[p].msg
  OBVIOUS
<1>3. m \in 1..sent /\ sent \in Nat /\ OwnOf(p, m)
  BY <1>0, <1>1, <1>2, Bounds DEF AnchorsShape, NamesApart, Named
<1>4. /\ roles' \in [Players -> Anchor \cup {NoAnchor}]
      /\ \A q \in Players \ {p} : roles'[q] = roles[q]
      /\ roles'[p] # NoAnchor /\ roles'[p].msg = m
  <2> DEFINE a == [msg |-> m, cards |-> Dealt(t), text |-> "plain", light |-> "plain",
                   sig |-> [cards |-> Dealt(t), text |-> "plain"]]
  <2>1. roles' = [roles EXCEPT ![p] = a]
    BY <1>1, <1>2 DEF Reuse
  <2>2. a \in Anchor /\ a.msg = m
    BY <1>3, DealtAreCards DEF Anchor, Texts
  <2>3. a # NoAnchor
    BY <2>2, AnchorIsThere
  <2> HIDE DEF a
  <2> QED
    BY <2>1, <2>2, <2>3 DEF AnchorsShape
<1>5. /\ anchors' \in [Players -> 0..sent'] /\ anchors'[p] = m
      /\ \A q \in Players \ {p} : anchors'[q] = anchors[q]
      /\ parted' = parted \ {p} /\ unshown' = unshown \cup {m}
  BY <1>0, <1>1, <1>2, <1>3 DEF Reuse, AnchorsShape
<1>6. tasks' \in [Painters -> Call] /\ WorkStands' /\ OneWorks'
  BY <1>0, TurnsOn
<1>7. AnchorsShape'
  <2>1. \A q \in Players : roles'[q] # NoAnchor => roles'[q].msg \in 1..sent'
    BY <1>0, <1>3, <1>4 DEF AnchorsShape
  <2> QED
    BY <1>0, <1>4, <1>5, <1>6, <2>1 DEF AnchorsShape
<1>8. \A n \in 1..sent' : Named(p, n)' => OwnOf(p, n)
  <2> SUFFICES ASSUME NEW n \in 1..sent', Named(p, n)' PROVE n = m
    BY <1>3
  <2> QED
    BY <1>4, <1>5 DEF Named
<1>9. /\ roles'[p] # NoAnchor /\ roles'[p].msg \in DOMAIN chat' \ unshown' =>
           chat'[roles'[p].msg] = [cards |-> roles'[p].cards, text |-> roles'[p].text]
      /\ roles'[p] # NoAnchor /\ anchors'[p] # 0 => anchors'[p] = roles'[p].msg \/ p \in parted'
      /\ roles[p] # NoAnchor /\ roles[p].msg \in DOMAIN chat =>
              \/ roles'[p] # NoAnchor /\ roles'[p].msg = roles[p].msg
              \/ doomed'[roles[p].msg] # "no" \/ roles[p].msg \in strays'
  BY <1>2, <1>4, <1>5
<1>10. \A n \in DOMAIN chat' :
         OwnOf(p, n) \/ (n \in DOMAIN chat /\ chat'[n] = chat[n] /\ (n \in unshown => n \in unshown'))
  BY <1>0, <1>5
<1>11. /\ parted \subseteq parted' \cup {p}
       /\ \A n \in DOMAIN chat' : n \in DOMAIN chat
       /\ \A n \in DOMAIN chat : n \in strays \/ doomed[n] # "no" => n \in strays' \/ doomed'[n] # "no"
       /\ \A q \in Players \ {p} : roles'[q] = roles[q] /\ anchors'[q] = anchors[q]
  BY <1>0, <1>4, <1>5
<1>12. NoStrayAnchor' /\ ShownAsRecorded' /\ MatchesRecord' /\ NamesApart'
  BY <1>7, <1>8, <1>9, <1>10, <1>11, OnePlayerStep
<1>13. DeletedAreGone'
  BY <1>0 DEF DeletedAreGone
<1> QED
  BY <1>6, <1>7, <1>12, <1>13
\* A new one is sent only over an anchor that has left the chat.
LEMMA StartSendKeeps ==
    ASSUME AnchorsIInv, NEW t \in Painters, StartSend(t)
    PROVE  AnchorsIInv'
<1> USE DEF AnchorsIInv
<1>0. /\ tasks[t].kind = "send" /\ HasLock(t) /\ tasks[t].todo # {} /\ PlayerOf(t) \in Players
      /\ ~Kept(PlayerOf(t)) /\ deletions' \subseteq deletions
      /\ tasks' = [tasks EXCEPT ![t].at = "sending", ![t].cards = Dealt(t)]
      /\ UNCHANGED <<round, lastStage, chat, sent, doomed, strays, recordVars, line>>
  BY PlayerIsOne DEF StartSend, Working
<1>1. /\ tasks' \in [Painters -> Call] /\ tasks'[t].at = "sending"
      /\ tasks'[t].kind = tasks[t].kind /\ tasks'[t].text = tasks[t].text /\ tasks'[t].todo = tasks[t].todo
      /\ \A u \in Painters \ {t} : tasks'[u] = tasks[u]
  <2> DEFINE d == Dealt(t)
  <2>1. tasks[t] \in Call /\ d \in Cards
    BY DealtAreCards DEF AnchorsShape
  <2> HIDE DEF d
  <2> DEFINE c == [tasks[t] EXCEPT !.at = "sending", !.cards = d]
  <2>2. /\ c \in Call /\ c.at = "sending" /\ c.kind = tasks[t].kind /\ c.text = tasks[t].text
        /\ c.todo = tasks[t].todo
    BY <2>1 DEF Call, Places
  <2>3. tasks' = [tasks EXCEPT ![t] = c]
    BY <1>0, Zenon DEF d
  <2> HIDE DEF c
  <2> QED
    BY <2>2, <2>3 DEF AnchorsShape
<1>2. PlayerOf(t)' = PlayerOf(t)
  <2>1. tasks'[t].todo = tasks[t].todo
    BY <1>1
  <2> QED
    BY <2>1 DEF PlayerOf
<1>3. roles[PlayerOf(t)] # NoAnchor => roles[PlayerOf(t)].msg \notin DOMAIN chat
  BY <1>0 DEF Kept, DeletedAreGone
<1>4. SendStands(t)' /\ OldStands(t)' /\ RecordStands(t)'
  BY <1>0, <1>1, <1>2, <1>3 DEF SendStands, OldStands, RecordStands, WorkStands, recordVars, Attempts, Retries
<1>5. ASSUME NEW u \in Painters PROVE SendStands(u)' /\ OldStands(u)' /\ RecordStands(u)'
  <2>1. CASE u # t
    BY <1>0, <1>1, <2>1, WorkGoesOn DEF recordVars, AnchorsShape
  <2> QED
    BY <1>4, <2>1
<1>6. OneWorks'
  BY <1>0, <1>1 DEF OneWorks, HasLock
<1>7. AnchorsShape'
  BY <1>0, <1>1 DEF AnchorsShape, recordVars
<1>8. \A p \in Players : \A m : Named(p, m)' <=> Named(p, m)
  BY <1>0 DEF Named, recordVars
<1>9. NamesApart' /\ MatchesRecord' /\ DeletedAreGone'
  BY <1>0, <1>8 DEF NamesApart, OwnOf, MatchesRecord, DeletedAreGone, recordVars
<1>10. NoStrayAnchor' /\ ShownAsRecorded'
  BY <1>0 DEF NoStrayAnchor, ShownAsRecorded, RolesOf, recordVars
<1> QED
  BY <1>5, <1>6, <1>7, <1>9, <1>10 DEF WorkStands

\* A new anchor is recorded and named by its player; the message it replaces has gone.
LEMMA AnchorSentKeeps ==
    ASSUME AnchorsIInv, NEW t \in Painters, AnchorSent(t)
    PROVE  AnchorsIInv'
<1> USE DEF AnchorsIInv
<1>0. /\ tasks[t].at = "sending" /\ HasLock(t) /\ tasks[t].todo # {} /\ PlayerOf(t) \in Players /\ NextPlayer(t)
      /\ Fits /\ Deliver(t)
      /\ UNCHANGED <<round, lastStage, deletions, doomed, strays, unshown, line>>
  BY PlayerIsOne DEF AnchorSent, OneWorks, Busy
<1>1. PICK p \in Players : p = PlayerOf(t)
  BY <1>0
<1>2. PICK m : m = sent + 1
  OBVIOUS
<1>3. /\ sent' = m /\ sent' \in 0..MaxSent /\ m \in 1..sent' /\ sent \in Nat
      /\ DOMAIN chat' = DOMAIN chat \cup {m} /\ chat'[m] = Looks(t)
      /\ \A n \in DOMAIN chat' \ {m} : chat'[n] = chat[n]
  BY <1>0, <1>2, Delivered, Bounds
<1>4. \A q \in Players : ~Named(q, m)
  BY <1>2, <1>3 DEF Named, AnchorsShape
<1>5. OwnOf(p, m)
  BY <1>4 DEF OwnOf
<1>6. roles[p] # NoAnchor => roles[p].msg \notin DOMAIN chat
  BY <1>0, <1>1 DEF WorkStands, SendStands
<1>7. tasks[t].text = "plain"
  BY <1>0 DEF WorkStands, SendStands
<1>8. /\ roles' \in [Players -> Anchor \cup {NoAnchor}]
      /\ \A q \in Players \ {p} : roles'[q] = roles[q]
      /\ roles'[p] # NoAnchor /\ roles'[p].msg = m
      /\ roles'[p].cards = tasks[t].cards /\ roles'[p].text = tasks[t].text
  <2> DEFINE a == [msg |-> sent + 1, cards |-> tasks[t].cards, text |-> "plain", light |-> "plain", sig |-> Looks(t)]
  <2>1. roles' = [roles EXCEPT ![p] = a]
    BY <1>1 DEF AnchorSent
  <2>2. a \in Anchor /\ a.msg = m /\ a.cards = tasks[t].cards /\ a.text = tasks[t].text
    BY <1>2, <1>3, <1>7, DealtAreCards DEF Anchor, Texts
  <2>3. a # NoAnchor
    BY <2>2, AnchorIsThere
  <2> HIDE DEF a
  <2> QED
    BY <2>1, <2>2, <2>3 DEF AnchorsShape
<1>9. /\ anchors' \in [Players -> 0..sent'] /\ anchors'[p] = m
      /\ \A q \in Players \ {p} : anchors'[q] = anchors[q]
      /\ parted' = parted \ {p}
  <2>1. anchors' = [anchors EXCEPT ![p] = m] /\ parted' = parted \ {p}
    BY <1>1, <1>2 DEF AnchorSent
  <2>2. anchors \in [Players -> 0..sent']
    BY <1>2, <1>3 DEF AnchorsShape
  <2> QED
    BY <1>3, <2>1, <2>2
<1>10. tasks' \in [Painters -> Call] /\ WorkStands' /\ OneWorks'
  BY <1>0, TurnsOn
<1>11. AnchorsShape'
  <2>1. \A q \in Players : roles'[q] # NoAnchor => roles'[q].msg \in 1..sent'
    BY <1>2, <1>3, <1>8 DEF AnchorsShape
  <2>2. DOMAIN chat' \subseteq 1..sent' /\ deletions' \subseteq 1..sent'
    BY <1>0, <1>2, <1>3 DEF AnchorsShape
  <2> QED
    BY <1>0, <1>3, <1>8, <1>9, <1>10, <2>1, <2>2 DEF AnchorsShape
<1>12. \A n \in 1..sent' : Named(p, n)' => OwnOf(p, n)
  <2> SUFFICES ASSUME NEW n \in 1..sent', Named(p, n)' PROVE n = m
    BY <1>5
  <2> QED
    BY <1>8, <1>9 DEF Named
<1>13. /\ roles'[p] # NoAnchor /\ roles'[p].msg \in DOMAIN chat' \ unshown' =>
            chat'[roles'[p].msg] = [cards |-> roles'[p].cards, text |-> roles'[p].text]
       /\ roles'[p] # NoAnchor /\ anchors'[p] # 0 => anchors'[p] = roles'[p].msg \/ p \in parted'
  BY <1>3, <1>8, <1>9 DEF Looks
<1>14. \A n \in DOMAIN chat' :
         OwnOf(p, n) \/ (n \in DOMAIN chat /\ chat'[n] = chat[n] /\ (n \in unshown => n \in unshown'))
  BY <1>0, <1>3, <1>5
<1>15. /\ parted \subseteq parted' \cup {p}
       /\ \A n \in DOMAIN chat' : n \in DOMAIN chat \/ n \in strays' \/ (roles'[p] # NoAnchor /\ roles'[p].msg = n)
       /\ \A n \in DOMAIN chat : n \in strays \/ doomed[n] # "no" => n \in strays' \/ doomed'[n] # "no"
       /\ \A q \in Players \ {p} : roles'[q] = roles[q] /\ anchors'[q] = anchors[q]
  BY <1>0, <1>3, <1>8, <1>9
<1>16. NoStrayAnchor' /\ ShownAsRecorded' /\ MatchesRecord' /\ NamesApart'
  BY <1>6, <1>11, <1>12, <1>13, <1>14, <1>15, OnePlayerStep
<1>17. DeletedAreGone'
  BY <1>0, <1>2, <1>3 DEF DeletedAreGone, AnchorsShape
<1> QED
  BY <1>10, <1>11, <1>16, <1>17

-----------------------------------------------------------------------------
(* Calls to Telegram without an answer.                                      *)

\* Whatever has reached the chat is a stray message, or an old one whose looks are no
\* more vouched for.
LEMMA NoAnswerKeeps ==
    ASSUME AnchorsIInv, NEW t \in Painters,
           \/ SendLost(t) /\ UNCHANGED unshown
           \/ MayHaveEdited(t, tasks[t].old) /\ UNCHANGED <<sent, strays>>,
           UNCHANGED <<deletions, doomed, roles, anchors, parted>>
    PROVE  /\ NoStrayAnchor' /\ ShownAsRecorded' /\ MatchesRecord' /\ NamesApart' /\ DeletedAreGone'
           /\ sent' \in 0..MaxSent /\ sent' \in {sent, sent + 1} /\ DOMAIN chat' \subseteq 1..sent'
           /\ DOMAIN chat' \subseteq DOMAIN chat \cup {sent + 1}
           /\ sent \in Nat
<1> USE DEF AnchorsIInv
<1>1. sent \in Nat /\ DOMAIN chat \subseteq 1..sent /\ sent \in 0..MaxSent
  BY Bounds DEF AnchorsShape
<1>2. CASE Fits /\ Deliver(t) /\ strays' = strays \cup {sent + 1} /\ UNCHANGED unshown
  <2>1. PICK m : m = sent + 1
    OBVIOUS
  <2>2. /\ sent' = m /\ sent' \in 0..MaxSent /\ DOMAIN chat' = DOMAIN chat \cup {m}
        /\ \A n \in DOMAIN chat' \ {m} : chat'[n] = chat[n]
    BY <1>2, <2>1, Delivered
  <2>3. \A p \in Players : roles[p] # NoAnchor => roles[p].msg # m
    BY <1>1, <2>1 DEF AnchorsShape
  <2>4. NoStrayAnchor'
    BY <1>2, <2>1, <2>2 DEF NoStrayAnchor, RolesOf
  <2>5. ShownAsRecorded'
    BY <1>2, <2>2, <2>3 DEF ShownAsRecorded
  <2>6. NamesApart'
    <3>1. \A p \in Players : \A n : Named(p, n)' <=> Named(p, n)
      BY DEF Named
    <3>2. \A p \in Players : ~Named(p, m)
      BY <1>1, <2>1 DEF AnchorsShape, Named
    <3>3. \A n \in 1..sent' : n \in 1..sent \/ n = m
      BY <1>1, <2>1, <2>2
    <3> QED
      BY <3>1, <3>2, <3>3 DEF NamesApart, OwnOf
  <2>7. DeletedAreGone' /\ MatchesRecord'
    BY <1>1, <2>1, <2>2 DEF DeletedAreGone, MatchesRecord, AnchorsShape
  <2> QED
    BY <1>1, <2>1, <2>2, <2>4, <2>5, <2>6, <2>7
<1>3. CASE UNCHANGED <<sent, strays>> /\ \/ UNCHANGED <<chat, unshown>>
                                         \/ MayHaveEdited(t, tasks[t].old)
  <2>1. PICK m : m = tasks[t].old
    OBVIOUS
  <2>2. /\ DOMAIN chat' = DOMAIN chat /\ unshown \subseteq unshown'
        /\ \A n \in DOMAIN chat' : n \in unshown' \/ chat'[n] = chat[n]
    BY <1>3, <2>1 DEF MayHaveEdited
  <2>3. NoStrayAnchor'
    BY <1>3, <2>2 DEF NoStrayAnchor, RolesOf
  <2>4. ShownAsRecorded'
    BY <2>2 DEF ShownAsRecorded
  <2>5. NamesApart'
    <3>1. \A p \in Players : \A n : Named(p, n)' <=> Named(p, n)
      BY DEF Named
    <3> QED
      BY <1>3, <3>1 DEF NamesApart, OwnOf
  <2>6. DeletedAreGone' /\ MatchesRecord'
    BY <2>2 DEF DeletedAreGone, MatchesRecord
  <2> QED
    BY <1>1, <1>3, <2>2, <2>3, <2>4, <2>5, <2>6
<1> QED
  BY <1>2, <1>3 DEF SendLost

\* A call that gets no answer leaves everything in its type.
LEMMA NoAnswerShape ==
    ASSUME AnchorsIInv, NEW t \in Painters,
           \/ SendLost(t) /\ UNCHANGED unshown
           \/ MayHaveEdited(t, tasks[t].old) /\ UNCHANGED <<sent, strays>>,
           UNCHANGED <<round, lastStage, deletions, doomed, roles, anchors, parted>>,
           tasks' \in [Painters -> Call], line' \in Seq(Painters)
    PROVE  AnchorsShape'
<1> USE DEF AnchorsIInv
<1>1. /\ sent' \in 0..MaxSent /\ sent' \in {sent, sent + 1} /\ DOMAIN chat' \subseteq 1..sent' /\ sent \in Nat
  BY NoAnswerKeeps
<1>2. \A q \in Players : roles'[q] # NoAnchor => roles'[q].msg \in 1..sent'
  BY <1>1 DEF AnchorsShape
<1>3. deletions' \subseteq 1..sent' /\ anchors' \in [Players -> 0..sent']
  BY <1>1 DEF AnchorsShape
<1> QED
  BY <1>1, <1>2, <1>3 DEF AnchorsShape

\* The loop over the players goes on.
LEMMA FailedOnKeeps ==
    ASSUME AnchorsIInv, NEW t \in Painters,
           SendFails(t) \/ RetryRaises(t) \/ (UpdateRaises(t) /\ NextPlayer(t))
    PROVE  AnchorsIInv'
<1> USE DEF AnchorsIInv
<1>1. /\ tasks[t].at \in Busy /\ NextPlayer(t)
      /\ UNCHANGED <<round, lastStage, deletions, doomed, roles, anchors, parted, line>>
  BY DEF SendFails, RetryRaises, UpdateRaises, Busy, Attempts, Retries, recordVars
<1>2. \/ SendLost(t) /\ UNCHANGED unshown
      \/ MayHaveEdited(t, tasks[t].old) /\ UNCHANGED <<sent, strays>>
  BY DEF SendFails, RetryRaises, UpdateRaises, NoAnswer, recordVars
<1>3. tasks' \in [Painters -> Call] /\ WorkStands' /\ OneWorks'
  BY <1>1, TurnsOn DEF OneWorks
<1>4. line' \in Seq(Painters)
  BY <1>1 DEF AnchorsShape
<1>5. AnchorsShape'
  BY <1>1, <1>2, <1>3, <1>4, NoAnswerShape
<1> QED
  BY <1>1, <1>2, <1>3, <1>5, NoAnswerKeeps

\* An update without an answer is tried again, if the record still is of its message.
LEMMA UpdateRaisesKeeps ==
    ASSUME AnchorsIInv, NEW t \in Painters, UpdateRaises(t)
    PROVE  AnchorsIInv'
<1> USE DEF AnchorsIInv
<1>1. PICK p \in Players : p = PlayerOf(t)
  BY PlayerIsOne DEF UpdateRaises, OneWorks, Busy, Attempts
<1>2. CASE roles[p] # NoAnchor /\ roles[p].msg = tasks[t].old
  <2>1. /\ tasks[t].at \in Attempts
        /\ UNCHANGED <<round, lastStage, deletions, doomed, roles, anchors, parted, line>>
        /\ tasks' = [tasks EXCEPT ![t] = [tasks[t] EXCEPT !.at = "retry"]]
    BY <1>1, <1>2 DEF UpdateRaises, Attempts
  <2>2. \/ SendLost(t) /\ UNCHANGED unshown
        \/ MayHaveEdited(t, tasks[t].old) /\ UNCHANGED <<sent, strays>>
    BY DEF UpdateRaises, NoAnswer
  <2>3. HasLock(t) /\ tasks[t].todo # {}
    BY <2>1 DEF OneWorks, Busy
  <2>4. /\ tasks' \in [Painters -> Call] /\ tasks'[t].at = "retry"
        /\ tasks'[t].kind = tasks[t].kind /\ tasks'[t].todo = tasks[t].todo /\ tasks'[t].old = tasks[t].old
        /\ \A u \in Painters \ {t} : tasks'[u] = tasks[u]
    <3> DEFINE c == [tasks[t] EXCEPT !.at = "retry"]
    <3>1. tasks[t] \in Call /\ "retry" \in Places
      BY DEF AnchorsShape, Places
    <3>2. /\ c \in Call /\ c.at = "retry" /\ c.kind = tasks[t].kind /\ c.todo = tasks[t].todo
          /\ c.old = tasks[t].old
      BY <3>1, CallAt
    <3>3. tasks' = [tasks EXCEPT ![t] = c]
      BY <2>1
    <3> HIDE DEF c
    <3> QED
      BY <3>2, <3>3 DEF AnchorsShape
  <2>5. PlayerOf(t)' = p
    <3>1. tasks'[t].todo = tasks[t].todo
      BY <2>4
    <3> QED
      BY <1>1, <3>1 DEF PlayerOf
  <2>6. /\ tasks[t].kind = "update" /\ tasks[t].old \in 1..sent /\ OwnOf(p, tasks[t].old)
        /\ sent \in Nat /\ sent' \in {sent, sent + 1}
    BY <1>1, <2>1, <2>2, NoAnswerKeeps DEF WorkStands, OldStands
  <2>7. \A q \in Players : \A m : Named(q, m)' <=> Named(q, m)
    BY <2>1 DEF Named
  <2>8. OldStands(t)'
    <3>1. tasks'[t].old \in 1..sent'
      BY <2>4, <2>6
    <3>2. \A q \in Players \ {p} : ~Named(q, tasks[t].old)'
      <4>1. PICK m : m = tasks[t].old
        OBVIOUS
      <4>2. tasks'[t].old = m
        BY <2>4, <4>1
      <4>3. \A q \in Players \ {p} : ~Named(q, m)'
        BY <2>6, <2>7, <4>1 DEF OwnOf
      <4> QED
        BY <4>2, <4>3 DEF Named
    <3> QED
      BY <2>4, <2>5, <2>6, <3>1, <3>2 DEF OldStands, OwnOf
  <2>9. SendStands(t)' /\ RecordStands(t)'
    BY <1>2, <2>1, <2>4, <2>5, <2>6 DEF SendStands, RecordStands, Retries, Attempts
  <2>10. ASSUME NEW u \in Painters \ {t} PROVE SendStands(u)' /\ OldStands(u)' /\ RecordStands(u)'
    <3>1. tasks[u].at \notin Busy /\ tasks'[u] = tasks[u]
      BY <2>3, <2>4, WorksAlone
    <3>2. tasks[u].kind = "send" => tasks[u].text = "plain"
      BY DEF WorkStands, SendStands
    <3> QED
      BY <3>1, <3>2 DEF SendStands, OldStands, RecordStands, Busy
  <2>11. WorkStands'
    BY <2>8, <2>9, <2>10 DEF WorkStands
  <2>12. OneWorks'
    BY <2>1, <2>3, <2>4 DEF OneWorks, HasLock
  <2>13. line' \in Seq(Painters)
    BY <2>1 DEF AnchorsShape
  <2>14. AnchorsShape'
    BY <2>1, <2>2, <2>4, <2>13, NoAnswerShape
  <2> QED
    BY <2>1, <2>2, <2>11, <2>12, <2>14, NoAnswerKeeps
<1>3. CASE ~(roles[p] # NoAnchor /\ roles[p].msg = tasks[t].old)
  <2>1. NextPlayer(t)
    BY <1>1, <1>3 DEF UpdateRaises, NextPlayer
  <2> QED
    BY <2>1, FailedOnKeeps
<1> QED
  BY <1>2, <1>3

\* A send that is cut off gives the lock up, and its place in the line.
LEMMA SendCancelledKeeps ==
    ASSUME AnchorsIInv, NEW t \in Painters, SendCancelled(t)
    PROVE  AnchorsIInv'
<1> USE DEF AnchorsIInv
<1>1. /\ tasks' = [tasks EXCEPT ![t] = NoCall] /\ line' = RemoveFirst(line, t)
      /\ UNCHANGED <<round, lastStage, deletions, doomed, recordVars>>
      /\ SendLost(t) \/ UNCHANGED <<sent, chat, strays>>
  BY DEF SendCancelled
<1>2. NoCall \in Call /\ NoCall.at = "idle" /\ NoCall.text = "plain"
  BY DEF NoCall, Call, Places, Texts, Cards
<1>3. /\ tasks' \in [Painters -> Call] /\ tasks'[t] = NoCall
      /\ \A u \in Painters \ {t} : tasks'[u] = tasks[u]
  BY <1>1, <1>2 DEF AnchorsShape
<1>4. tasks'[t].at \notin Busy /\ tasks'[t].text = "plain"
  BY <1>2, <1>3 DEF Busy, Attempts, Retries
<1>5. OneWorks' /\ line' \in Seq(Painters)
  BY <1>1, <1>3, <1>4, OneGoesOnWorking
<1>6. SendLost(t) /\ UNCHANGED <<unshown, roles, anchors, parted>>
  BY <1>1 DEF SendLost, recordVars
<1>7. AnchorsShape'
  BY <1>1, <1>3, <1>5, <1>6, NoAnswerShape
<1>8. /\ NoStrayAnchor' /\ ShownAsRecorded' /\ MatchesRecord' /\ NamesApart' /\ DeletedAreGone'
      /\ sent' \in {sent, sent + 1} /\ sent \in Nat /\ DOMAIN chat' \subseteq DOMAIN chat \cup {sent + 1}
  BY <1>1, <1>6, NoAnswerKeeps
<1>9. ASSUME NEW u \in Painters PROVE SendStands(u)' /\ OldStands(u)' /\ RecordStands(u)'
  <2>1. CASE u = t
    BY <1>3, <1>4, <2>1 DEF SendStands, OldStands, RecordStands, Busy
  <2>2. CASE u # t
    <3>1. tasks'[u] = tasks[u]
      BY <1>3, <2>2
    <3>2. PlayerOf(u)' = PlayerOf(u)
      BY <3>1 DEF PlayerOf
    <3>3. SendStands(u) /\ OldStands(u) /\ RecordStands(u)
      BY DEF WorkStands
    <3>4. tasks[u].at \in Busy => PlayerOf(u) \in Players
      BY PlayerIsOne DEF OneWorks
    <3>5. SendStands(u)'
      <4>1. \A p \in Players : roles[p] # NoAnchor => roles[p].msg # sent + 1
        BY <1>8 DEF AnchorsShape
      <4> QED
        BY <1>6, <1>8, <3>1, <3>2, <3>3, <3>4, <4>1 DEF SendStands, Busy
    <3>6. \A q \in Players : \A m : Named(q, m)' <=> Named(q, m)
      BY <1>6 DEF Named
    <3>7. OldStands(u)'
      BY <1>8, <3>1, <3>2, <3>3, <3>6 DEF OldStands, OwnOf
    <3>8. RecordStands(u)'
      BY <1>6, <3>1, <3>2, <3>3 DEF RecordStands
    <3> QED
      BY <3>5, <3>7, <3>8
  <2> QED
    BY <2>1, <2>2
<1> QED
  BY <1>5, <1>7, <1>8, <1>9 DEF WorkStands
-----------------------------------------------------------------------------
(* Deletions, records that are dropped, and the game beside the anchors.     *)

\* Steps that take away: messages, names, records whose message is given up.
LEMMA TakesAway ==
    ASSUME AnchorsIInv, AnchorsShape', OneWorks', UNCHANGED <<sent, unshown>>,
           DOMAIN chat' \subseteq DOMAIN chat, \A n \in DOMAIN chat' : chat'[n] = chat[n],
           deletions' \cap DOMAIN chat' = {},
           \A p \in Players : anchors'[p] \in {anchors[p], 0},
           \A p \in Players :
              IF roles'[p] = NoAnchor THEN roles[p] = NoAnchor \/ roles[p].msg \in strays'
              ELSE /\ roles[p] # NoAnchor /\ roles'[p].msg = roles[p].msg
                   /\ roles'[p].cards = roles[p].cards /\ roles'[p].text = roles[p].text
                   /\ p \in parted => p \in parted',
           \A n \in DOMAIN chat' :
              n \in strays \/ doomed[n] # "no" => n \in strays' \/ doomed'[n] # "no" \/ RolesOf(n)' # {},
           \A u \in Painters :
              \/ tasks'[u] = tasks[u]
              \/ tasks'[u].at \notin Busy /\ (tasks'[u].kind = "send" => tasks'[u].text = "plain")
    PROVE  AnchorsIInv'
<1> USE DEF AnchorsIInv
<1>1. NoStrayAnchor'
  <2> SUFFICES ASSUME NEW n \in DOMAIN chat', n \notin strays', doomed'[n] = "no" PROVE RolesOf(n)' # {}
    BY DEF NoStrayAnchor
  <2>1. CASE n \in strays \/ doomed[n] # "no"
    BY <2>1
  <2>2. CASE ~(n \in strays \/ doomed[n] # "no")
    <3>1. PICK p \in Players : roles[p] # NoAnchor /\ roles[p].msg = n
      BY <2>2 DEF NoStrayAnchor, RolesOf
    <3>2. roles'[p] # NoAnchor /\ roles'[p].msg = n
      BY <3>1
    <3> QED
      BY <3>2 DEF RolesOf
  <2> QED
    BY <2>1, <2>2
<1>2. ShownAsRecorded'
  <2> SUFFICES ASSUME NEW p \in Players, roles'[p] # NoAnchor, roles'[p].msg \in DOMAIN chat' \ unshown'
               PROVE  chat'[roles'[p].msg] = [cards |-> roles'[p].cards, text |-> roles'[p].text]
    BY DEF ShownAsRecorded
  <2>1. /\ roles[p] # NoAnchor /\ roles'[p].msg = roles[p].msg
        /\ roles'[p].cards = roles[p].cards /\ roles'[p].text = roles[p].text
    OBVIOUS
  <2> QED
    BY <2>1 DEF ShownAsRecorded
<1>3. MatchesRecord' /\ DeletedAreGone'
  BY DEF MatchesRecord, DeletedAreGone
<1>4. NamesApart'
  <2>1. \A p \in Players : \A n \in 1..sent : Named(p, n)' => Named(p, n)
    BY DEF Named
  <2> QED
    BY <2>1 DEF NamesApart, OwnOf
<1>5. WorkStands'
  <2> SUFFICES ASSUME NEW u \in Painters PROVE SendStands(u)' /\ OldStands(u)' /\ RecordStands(u)'
    BY DEF WorkStands
  <2>1. CASE tasks'[u] = tasks[u]
    BY <2>1, WorkGoesOn
  <2>2. CASE tasks'[u].at \notin Busy /\ (tasks'[u].kind = "send" => tasks'[u].text = "plain")
    BY <2>2 DEF SendStands, OldStands, RecordStands, Busy
  <2> QED
    BY <2>1, <2>2
<1> QED
  BY <1>1, <1>2, <1>3, <1>4, <1>5

\* A round that gets other fields stays one.
LEMMA RoundWith ==
    ASSUME NEW r \in Round, NEW p \in Players \cup {0}, NEW h \in Nat, NEW s \in Nat,
           NEW act \in SUBSET Players, NEW sit \in SUBSET Players
    PROVE  /\ [r EXCEPT !.street = s, !.hand = h, !.turn = p, !.active = act] \in Round
           /\ [r EXCEPT !.turn = p] \in Round /\ [r EXCEPT !.street = s] \in Round
           /\ [r EXCEPT !.active = act] \in Round /\ [r EXCEPT !.street = s, !.turn = p] \in Round
           /\ [r EXCEPT !.seated = sit, !.active = act] \in Round
<1>1. [r EXCEPT !.street = s, !.hand = h, !.turn = p, !.active = act] \in Round
  BY DEF Round
<1>2. [r EXCEPT !.turn = p] \in Round /\ [r EXCEPT !.street = s] \in Round
  BY DEF Round
<1>3. [r EXCEPT !.active = act] \in Round /\ [r EXCEPT !.street = s, !.turn = p] \in Round
  BY DEF Round
<1>4. [r EXCEPT !.seated = sit, !.active = act] \in Round
  BY DEF Round
<1> QED
  BY <1>1, <1>2, <1>3, <1>4

\* The game deals, moves the turn and seats players; who comes back names no message.
LEMMA GameMovesKeeps ==
    ASSUME AnchorsIInv, GameMoves
    PROVE  AnchorsIInv'
<1> USE DEF AnchorsIInv
<1>1. UNCHANGED <<lastStage, messageVars, roles, unshown, parted, line, tasks>>
  BY DEF GameMoves
<1>2. PICK p \in Players :
       \/ /\ round' = [round EXCEPT !.street = 1, !.hand = @ + 1, !.turn = p, !.active = round.seated]
          /\ UNCHANGED anchors
       \/ /\ round' \in {[round EXCEPT !.turn = p], [round EXCEPT !.street = 2],
                         [round EXCEPT !.active = @ \ {p}], [round EXCEPT !.street = 0, !.turn = 0]}
          /\ UNCHANGED anchors
       \/ /\ round' = [round EXCEPT !.seated = @ \ {p}, !.active = @ \ {p}]
          /\ UNCHANGED anchors
       \/ /\ round' = [round EXCEPT !.seated = @ \cup {p}, !.active = @ \cup {p}]
          /\ anchors' = [anchors EXCEPT ![p] = 0]
  BY DEF GameMoves
<1>3. round' \in Round
  <2>1. round \in Round
    BY DEF AnchorsShape
  <2>2. /\ round.hand + 1 \in Nat /\ round.seated \in SUBSET Players /\ round.active \in SUBSET Players
    BY <2>1 DEF Round
  <2>3. /\ round.active \ {p} \in SUBSET Players /\ round.seated \ {p} \in SUBSET Players
        /\ round.active \cup {p} \in SUBSET Players /\ round.seated \cup {p} \in SUBSET Players
    BY <2>2
  <2>4. /\ p \in Players \cup {0} /\ 0 \in Players \cup {0} /\ 0 \in Nat /\ 1 \in Nat /\ 2 \in Nat
    OBVIOUS
  <2>5. [round EXCEPT !.street = 1, !.hand = @ + 1, !.turn = p, !.active = round.seated] \in Round
    BY <2>1, <2>2, <2>4, RoundWith
  <2>6. /\ [round EXCEPT !.turn = p] \in Round /\ [round EXCEPT !.street = 2] \in Round
        /\ [round EXCEPT !.active = @ \ {p}] \in Round /\ [round EXCEPT !.street = 0, !.turn = 0] \in Round
    BY <2>1, <2>2, <2>3, <2>4, RoundWith
  <2>7. [round EXCEPT !.seated = @ \ {p}, !.active = @ \ {p}] \in Round
    BY <2>1, <2>2, <2>3, <2>4, RoundWith
  <2>8. [round EXCEPT !.seated = @ \cup {p}, !.active = @ \cup {p}] \in Round
    BY <2>1, <2>2, <2>3, <2>4, RoundWith
  <2> QED
    BY <1>2, <2>5, <2>6, <2>7, <2>8
<1>4. anchors' \in [Players -> 0..sent] /\ \A q \in Players : anchors'[q] \in {anchors[q], 0}
  <2>1. anchors \in [Players -> 0..sent] /\ 0 \in 0..sent
    BY Bounds DEF AnchorsShape
  <2>2. CASE UNCHANGED anchors
    BY <2>1, <2>2
  <2>3. CASE anchors' = [anchors EXCEPT ![p] = 0]
    BY <2>1, <2>3
  <2> QED
    BY <1>2, <2>2, <2>3
<1>5. AnchorsShape' /\ OneWorks'
  BY <1>1, <1>3, <1>4 DEF AnchorsShape, messageVars, OneWorks, HasLock
<1>6. deletions' \cap DOMAIN chat' = {}
  BY <1>1 DEF DeletedAreGone, messageVars
<1> QED
  BY <1>1, <1>4, <1>5, <1>6, TakesAway DEF messageVars

\* What a call to delete a message changes.
LEMMA DeleteCallDoes ==
    ASSUME AnchorsIInv, NEW m, NEW recorded, DeleteCall(m, recorded)
    PROVE  /\ sent' = sent /\ DOMAIN chat' \subseteq DOMAIN chat /\ \A n \in DOMAIN chat' : chat'[n] = chat[n]
           /\ deletions' \subseteq 1..sent /\ deletions' \cap DOMAIN chat' = {}
<1> USE DEF AnchorsIInv
<1>1. DOMAIN chat \subseteq 1..sent /\ deletions \subseteq 1..sent /\ deletions \cap DOMAIN chat = {}
  BY DEF AnchorsShape, DeletedAreGone
<1>2. CASE m \in DOMAIN chat /\ Vanish(m) /\ deletions' \subseteq deletions \cup {m} /\ sent' = sent
  <2>1. DOMAIN chat' = DOMAIN chat \ {m} /\ \A n \in DOMAIN chat' : chat'[n] = chat[n]
    BY <1>2 DEF Vanish
  <2> QED
    BY <1>1, <1>2, <2>1
<1>3. CASE UNCHANGED <<chat, deletions, sent>>
  BY <1>1, <1>3
<1> QED
  BY <1>2, <1>3 DEF DeleteCall

\* The deletion of a replaced message.
LEMMA DeletionKeeps ==
    ASSUME AnchorsIInv, NEW m \in 1..sent, DecideDelete(m) \/ DeleteReplaced(m)
    PROVE  AnchorsIInv'
<1> USE DEF AnchorsIInv
<1>1. m \in 1..MaxSent /\ DOMAIN chat \subseteq 1..MaxSent
  BY Bounds DEF AnchorsShape
<1>2. CASE DecideDelete(m)
  <2>1. /\ UNCHANGED <<round, lastStage, chat, sent, deletions, strays, recordVars, line, tasks>>
        /\ doomed' = [doomed EXCEPT ![m] = IF Protected(m) THEN "no" ELSE IF RolesOf(m) # {} THEN "recorded" ELSE "alone"]
    BY <1>2 DEF DecideDelete
  <2>2. AnchorsShape' /\ OneWorks'
    BY <1>1, <2>1 DEF AnchorsShape, OneWorks, HasLock, recordVars
  <2>3. ASSUME NEW n \in DOMAIN chat, doomed[n] # "no" PROVE doomed'[n] # "no" \/ RolesOf(n) # {}
    <3>1. CASE n # m
      BY <1>1, <2>1, <2>3, <3>1 DEF AnchorsShape
    <3>2. CASE n = m
      <4>1. doomed'[n] = IF Protected(n) THEN "no" ELSE IF RolesOf(n) # {} THEN "recorded" ELSE "alone"
        BY <1>1, <2>1, <3>2 DEF AnchorsShape
      <4> QED
        BY <4>1 DEF Protected
    <3> QED
      BY <3>1, <3>2
  <2>4. \A n \in DOMAIN chat' :
           n \in strays \/ doomed[n] # "no" => n \in strays' \/ doomed'[n] # "no" \/ RolesOf(n)' # {}
    <3>1. \A n : RolesOf(n)' = RolesOf(n)
      BY <2>1 DEF recordVars, RolesOf
    <3> QED
      BY <2>1, <2>3, <3>1
  <2>5. deletions' \cap DOMAIN chat' = {}
    BY <2>1 DEF DeletedAreGone
  <2> QED
    BY <2>1, <2>2, <2>4, <2>5, TakesAway DEF recordVars
<1>3. CASE DeleteReplaced(m)
  <2>1. /\ UNCHANGED <<round, lastStage, recordVars, line, tasks>> /\ strays' = strays \cup {m}
        /\ doomed' = [doomed EXCEPT ![m] = "no"]
    BY <1>3 DEF DeleteReplaced
  <2>2. /\ sent' = sent /\ DOMAIN chat' \subseteq DOMAIN chat /\ \A n \in DOMAIN chat' : chat'[n] = chat[n]
        /\ deletions' \subseteq 1..sent /\ deletions' \cap DOMAIN chat' = {}
    BY <1>3, DeleteCallDoes DEF DeleteReplaced
  <2>3. AnchorsShape' /\ OneWorks'
    BY <1>1, <2>1, <2>2 DEF AnchorsShape, OneWorks, HasLock, recordVars
  <2>4. \A n \in DOMAIN chat' :
           n \in strays \/ doomed[n] # "no" => n \in strays' \/ doomed'[n] # "no" \/ RolesOf(n)' # {}
    BY <1>1, <2>1, <2>2 DEF AnchorsShape
  <2> QED
    BY <2>1, <2>2, <2>3, <2>4, TakesAway DEF recordVars
<1> QED
  BY <1>2, <1>3
\* A clean-up drops records, deletes their messages, or goes from one player to the next;
\* the other calls do not notice.
LEMMA ClearKeeps ==
    ASSUME AnchorsIInv, NEW t \in Painters, ClearBlocked(t) \/ StartClear(t) \/ Cleared(t)
    PROVE  AnchorsIInv'
<1> USE DEF AnchorsIInv
<1>0. {"clearing", "leaving"} \cap Busy = {} /\ {"clearing", "leaving"} \subseteq Places
  BY DEF Busy, Attempts, Retries, Places
<1>1. PICK p : p = PlayerOf(t)
  OBVIOUS
<1>2. tasks[t].kind = "send" => tasks[t].text = "plain"
  BY DEF WorkStands, SendStands
<1>3. ASSUME NEW c \in Call, tasks' = [tasks EXCEPT ![t] = c], c.at \in {"clearing", "leaving"},
             c.kind = tasks[t].kind, c.text = tasks[t].text, UNCHANGED line
      PROVE  /\ tasks' \in [Painters -> Call] /\ OneWorks' /\ line' \in Seq(Painters)
             /\ \A u \in Painters :
                  \/ tasks'[u] = tasks[u]
                  \/ tasks'[u].at \notin Busy /\ (tasks'[u].kind = "send" => tasks'[u].text = "plain")
  <2>1. tasks' \in [Painters -> Call] /\ tasks'[t] = c /\ \A u \in Painters \ {t} : tasks'[u] = tasks[u]
    BY <1>3 DEF AnchorsShape
  <2>2. tasks'[t].at \notin Busy /\ (tasks'[t].kind = "send" => tasks'[t].text = "plain")
    BY <1>0, <1>2, <1>3, <2>1
  <2>3. OneWorks' /\ line' \in Seq(Painters)
    BY <1>3, <2>1, <2>2, OneGoesOnWorking
  <2> QED
    BY <2>1, <2>2, <2>3
<1>4. ASSUME NEW c \in Call, NEW todo \in SUBSET Players
      PROVE  LET d == [c EXCEPT !.at = "clearing", !.todo = todo]
             IN  d \in Call /\ d.at = "clearing" /\ d.kind = c.kind /\ d.text = c.text
  BY DEF Call, Places
<1>5. tasks[t] \in Call /\ tasks[t].todo \ {p} \in SUBSET Players
  BY DEF AnchorsShape, Call
<1>6. ASSUME PopRecord(p)
      PROVE  /\ roles' \in [Players -> Anchor \cup {NoAnchor}]
             /\ \A q \in Players : q # p => roles'[q] = roles[q] /\ (q \in parted => q \in parted')
             /\ \A q \in Players : q = p => roles'[q] = NoAnchor
  BY <1>6 DEF PopRecord, AnchorsShape
<1>7. CASE StartClear(t)
  <2>1. /\ tasks[t].todo # {} /\ roles[p] # NoAnchor
        /\ tasks' = [tasks EXCEPT ![t].at = "leaving", ![t].old = roles[p].msg]
        /\ UNCHANGED <<round, lastStage, messageVars, recordVars, line>>
    BY <1>1, <1>7 DEF StartClear
  <2>2. p \in Players
    BY <1>1, <2>1, PlayerIsOne
  <2>3. roles[p].msg \in Nat
    BY <2>1, <2>2 DEF AnchorsShape
  <2> DEFINE o == roles[p].msg
             c == [tasks[t] EXCEPT !.at = "leaving", !.old = o]
  <2>4. c \in Call /\ c.at = "leaving" /\ c.kind = tasks[t].kind /\ c.text = tasks[t].text
    <3> HIDE DEF o
    <3>1. o \in Nat
      BY <2>3 DEF o
    <3> QED
      BY <1>5, <3>1 DEF Call, Places
  <2>5. tasks' = [tasks EXCEPT ![t] = c]
    BY <2>1, Zenon
  <2> HIDE DEF c
  <2>6. /\ tasks' \in [Painters -> Call] /\ OneWorks' /\ line' \in Seq(Painters)
        /\ \A u \in Painters :
             \/ tasks'[u] = tasks[u]
             \/ tasks'[u].at \notin Busy /\ (tasks'[u].kind = "send" => tasks'[u].text = "plain")
    BY <1>3, <2>1, <2>4, <2>5
  <2>7. AnchorsShape'
    BY <2>1, <2>6 DEF AnchorsShape, messageVars, recordVars
  <2>8. deletions' \cap DOMAIN chat' = {}
    BY <2>1 DEF DeletedAreGone, messageVars
  <2> QED
    BY <2>1, <2>6, <2>7, <2>8, TakesAway DEF messageVars, recordVars
<1>8. CASE ClearBlocked(t)
  <2>1. /\ tasks[t].at = "clearing" /\ PopRecord(p)
        /\ strays' = strays \cup (IF roles[p] = NoAnchor THEN {} ELSE {roles[p].msg})
        /\ tasks' = [tasks EXCEPT ![t].todo = @ \ {p}]
        /\ UNCHANGED <<round, lastStage, chat, sent, deletions, doomed, anchors, unshown, line>>
    BY <1>1, <1>8 DEF ClearBlocked
  <2> DEFINE c == [tasks[t] EXCEPT !.todo = tasks[t].todo \ {p}]
  <2>2. c \in Call /\ c.at = "clearing" /\ c.kind = tasks[t].kind /\ c.text = tasks[t].text
    BY <1>5, <2>1 DEF Call
  <2>3. tasks' = [tasks EXCEPT ![t] = c]
    BY <2>1
  <2> HIDE DEF c
  <2>4. /\ tasks' \in [Painters -> Call] /\ OneWorks' /\ line' \in Seq(Painters)
        /\ \A u \in Painters :
             \/ tasks'[u] = tasks[u]
             \/ tasks'[u].at \notin Busy /\ (tasks'[u].kind = "send" => tasks'[u].text = "plain")
    BY <1>3, <2>1, <2>2, <2>3
  <2>5. AnchorsShape'
    BY <1>6, <2>1, <2>4 DEF AnchorsShape
  <2>6. deletions' \cap DOMAIN chat' = {}
    BY <2>1 DEF DeletedAreGone
  <2> QED
    BY <1>6, <2>1, <2>4, <2>5, <2>6, TakesAway
<1>9. CASE Cleared(t)
  <2>1. /\ tasks[t].at = "leaving" /\ PopRecord(p) /\ DeleteCall(tasks[t].old, TRUE)
        /\ strays' = strays \cup {tasks[t].old} \cup (IF roles[p] = NoAnchor THEN {} ELSE {roles[p].msg})
        /\ tasks' = [tasks EXCEPT ![t].at = "clearing", ![t].todo = @ \ {p}]
        /\ UNCHANGED <<round, lastStage, doomed, anchors, unshown, line>>
    BY <1>1, <1>9 DEF Cleared
  <2> DEFINE todo == tasks[t].todo \ {p}
             c == [tasks[t] EXCEPT !.at = "clearing", !.todo = todo]
  <2>2. c \in Call /\ c.at = "clearing" /\ c.kind = tasks[t].kind /\ c.text = tasks[t].text
    <3> HIDE DEF todo
    <3>1. todo \in SUBSET Players
      BY <1>5 DEF todo
    <3> QED
      BY <1>4, <1>5, <3>1
  <2>3. tasks' = [tasks EXCEPT ![t] = c]
    BY <2>1, Zenon
  <2> HIDE DEF c
  <2>4. /\ tasks' \in [Painters -> Call] /\ OneWorks' /\ line' \in Seq(Painters)
        /\ \A u \in Painters :
             \/ tasks'[u] = tasks[u]
             \/ tasks'[u].at \notin Busy /\ (tasks'[u].kind = "send" => tasks'[u].text = "plain")
    BY <1>3, <2>1, <2>2, <2>3
  <2>5. /\ sent' = sent /\ DOMAIN chat' \subseteq DOMAIN chat /\ \A n \in DOMAIN chat' : chat'[n] = chat[n]
        /\ deletions' \subseteq 1..sent /\ deletions' \cap DOMAIN chat' = {}
    BY <2>1, DeleteCallDoes
  <2>6. AnchorsShape'
    BY <1>6, <2>1, <2>4, <2>5 DEF AnchorsShape
  <2> QED
    BY <1>6, <2>1, <2>4, <2>5, <2>6, TakesAway
<1> QED
  BY <1>7, <1>8, <1>9

\* The end of a clean-up puts lights out, which nothing depends on.
LEMMA EndClearKeeps ==
    ASSUME AnchorsIInv, NEW t \in Painters, EndClear(t)
    PROVE  AnchorsIInv'
<1> USE DEF AnchorsIInv
<1>1. /\ tasks[t].at = "clearing"
      /\ roles' = [p \in Players |-> IF p \in round.seated /\ anchors[p] # 0 /\ roles[p] # NoAnchor
                                       THEN [roles[p] EXCEPT !.light = "plain"] ELSE roles[p]]
      /\ UNCHANGED <<round, chat, sent, deletions, doomed, strays, anchors, unshown, parted>>
  BY DEF EndClear
<1>2. ASSUME NEW p \in Players
      PROVE  /\ roles'[p] \in Anchor \cup {NoAnchor}
             /\ IF roles'[p] = NoAnchor THEN roles[p] = NoAnchor
                ELSE /\ roles[p] # NoAnchor /\ roles'[p].msg = roles[p].msg
                     /\ roles'[p].cards = roles[p].cards /\ roles'[p].text = roles[p].text
  <2> DEFINE a == [roles[p] EXCEPT !.light = "plain"]
  <2>1. roles[p] \in Anchor => /\ a \in Anchor /\ a.msg = roles[p].msg /\ a.cards = roles[p].cards
                               /\ a.text = roles[p].text
    BY DEF Anchor, Texts
  <2>2. roles[p] # NoAnchor => /\ a \in Anchor /\ a # NoAnchor /\ a.msg = roles[p].msg
                               /\ a.cards = roles[p].cards /\ a.text = roles[p].text
    BY <2>1, AnchorIsThere DEF AnchorsShape
  <2>3. roles'[p] = IF p \in round.seated /\ anchors[p] # 0 /\ roles[p] # NoAnchor THEN a ELSE roles[p]
    BY <1>1
  <2> HIDE DEF a
  <2> QED
    BY <2>2, <2>3 DEF AnchorsShape
<1>3. /\ tasks' \in [Painters -> Call] /\ lastStage' \in Nat /\ line' \in {line, Append(line, t)}
      /\ tasks'[t].at \notin Busy /\ tasks'[t].text = "plain"
      /\ \A u \in Painters \ {t} : tasks'[u] = tasks[u]
  <2>0. "working" \in Places /\ {"idle", "working"} \cap Busy = {}
    BY DEF Places, Busy, Attempts, Retries
  <2>1. CASE tasks' = [tasks EXCEPT ![t] = NoCall] /\ UNCHANGED <<line, lastStage>>
    <3>1. NoCall \in Call /\ NoCall.at = "idle" /\ NoCall.text = "plain"
      BY DEF NoCall, Call, Places, Texts, Cards
    <3> QED
      BY <2>0, <2>1, <3>1 DEF AnchorsShape
  <2>2. CASE LookThenWait(t, "working", "update", Players, tasks[t].press) /\ line' = Append(line, t)
    <3>1. tasks[t].press \in AnchorPresses \cup {NoButton}
      BY DEF AnchorsShape, Call
    <3> QED
      BY <2>0, <2>2, <3>1, LooksFirst
  <2> QED
    BY <2>1, <2>2 DEF EndClear
<1>4. OneWorks' /\ line' \in Seq(Painters)
  BY <1>3, OneGoesOnWorking
<1>5. AnchorsShape'
  <2>1. roles' \in [Players -> Anchor \cup {NoAnchor}]
    BY <1>1, <1>2
  <2>2. \A p \in Players : roles'[p] # NoAnchor => roles'[p].msg \in 1..sent
    BY <1>2 DEF AnchorsShape
  <2> QED
    BY <1>1, <1>3, <1>4, <2>1, <2>2 DEF AnchorsShape
<1>6. deletions' \cap DOMAIN chat' = {}
  BY <1>1 DEF DeletedAreGone
<1> QED
  BY <1>1, <1>2, <1>3, <1>4, <1>5, <1>6, TakesAway

-----------------------------------------------------------------------------

\* It holds at the start,
LEMMA AnchorsIInvInit ==
    ASSUME NEW seats \in SUBSET Players, AnchorsInit(seats)
    PROVE  AnchorsIInv
<1>1. MaxSent \in Nat
  BY AnchorsAssumption
<1>2. NoCall \in Call /\ NoCall.at = "idle" /\ NoCall.kind = "update"
  BY DEF NoCall, Call, Places, Texts, Cards
<1>3. round \in Round
  BY DEF AnchorsInit, Round
<1>4. tasks \in [Painters -> Call] /\ \A t \in Painters : tasks[t].at = "idle" /\ tasks[t].kind = "update"
  BY <1>2 DEF AnchorsInit
<1>5. AnchorsShape
  BY <1>1, <1>3, <1>4 DEF AnchorsInit, AnchorsShape
<1>6. OneWorks /\ WorkStands
  BY <1>4 DEF OneWorks, WorkStands, SendStands, OldStands, RecordStands, Busy, Attempts, Retries
<1>7. DeletedAreGone /\ NamesApart /\ MatchesRecord /\ NoStrayAnchor /\ ShownAsRecorded
  BY DEF AnchorsInit, DeletedAreGone, NamesApart, MatchesRecord, NoStrayAnchor, ShownAsRecorded
<1> QED
  BY <1>5, <1>6, <1>7 DEF AnchorsIInv

\* and every step keeps it.
LEMMA AnchorsIInvNext ==
    ASSUME AnchorsIInv, [AnchorsNext]_anchorVars
    PROVE  AnchorsIInv'
<1>1. CASE GameMoves
  BY <1>1, GameMovesKeeps
<1>2. ASSUME NEW t \in Painters, PainterStep(t) PROVE AnchorsIInv'
  <2>1. CASE \/ BeginSend(t)
             \/ \E press \in AnchorPresses \cup {NoButton} : BeginUpdate(t, press) \/ BeginClear(t, press)
    BY <2>1, BeginsKeep
  <2>2. CASE EndCall(t)
    BY <2>2, EndCallKeeps
  <2>3. CASE Reuse(t) \/ StartSend(t) \/ AnchorSent(t) \/ SendFails(t) \/ SendCancelled(t)
    BY <2>3, ReuseKeeps, StartSendKeeps, AnchorSentKeeps, FailedOnKeeps, SendCancelledKeeps
  <2>4. CASE SkipAnchor(t) \/ StartUpdate(t) \/ UpdateLeavesAlone(t) \/ Edit(t) \/ EditAgain(t)
    BY <2>4, SkipAnchorKeeps, StartUpdateKeeps, UpdateLeavesAloneKeeps, CallTelegramKeeps
  <2>5. CASE AnchorEdited(t) \/ UpdateRefused(t) \/ Resent(t) \/ UpdateRaises(t)
    BY <2>5, AnchorEditedKeeps, UpdateRefusedKeeps, ResentKeeps, UpdateRaisesKeeps
  <2>6. CASE RetryLeavesAlone(t) \/ RetryApplied(t) \/ RetryResent(t) \/ RetryRefused(t) \/ RetryRaises(t)
    BY <2>6, RetryInVainKeeps, RetryAppliedKeeps, RetryResentKeeps, FailedOnKeeps
  <2>7. CASE ClearBlocked(t) \/ StartClear(t) \/ Cleared(t) \/ EndClear(t)
    BY <2>7, ClearKeeps, EndClearKeeps
  <2> QED
    BY <1>2, <2>1, <2>2, <2>3, <2>4, <2>5, <2>6, <2>7 DEF PainterStep
<1>3. ASSUME NEW m \in 1..sent, DecideDelete(m) \/ DeleteReplaced(m) PROVE AnchorsIInv'
  BY <1>3, DeletionKeeps
<1>4. CASE UNCHANGED anchorVars
  <2>1. UNCHANGED <<round, lastStage, messageVars, recordVars, line, tasks>>
    BY <1>4 DEF anchorVars
  <2>2. AnchorsShape' /\ OneWorks' /\ deletions' \cap DOMAIN chat' = {}
    BY <2>1 DEF AnchorsIInv, AnchorsShape, OneWorks, HasLock, DeletedAreGone, messageVars, recordVars
  <2> QED
    BY <2>1, <2>2, TakesAway DEF messageVars, recordVars
<1> QED
  BY <1>1, <1>2, <1>3, <1>4 DEF AnchorsNext

\* One anchor per player stays in the chat, shows what is recorded of it and is the one
\* the player's object names, but for the losses that are listed: for any players,
\* calls, presses and answers of Telegram.
THEOREM AnchorsStayTrue == AnchorsSpec => []AnchorsInv
<1>1. (\E seats \in SUBSET Players : AnchorsInit(seats)) => AnchorsIInv
  BY AnchorsIInvInit
<1>2. AnchorsIInv /\ [AnchorsNext]_anchorVars => AnchorsIInv'
  BY AnchorsIInvNext
<1>3. AnchorsIInv => AnchorsInv
  <2> SUFFICES ASSUME AnchorsIInv PROVE AnchorsInv
    OBVIOUS
  <2>1. round.seated \subseteq Players
    BY DEF AnchorsIInv, AnchorsShape, Round
  <2> QED
    BY <2>1 DEF AnchorsIInv, AnchorsInv, AnchorMatchesRecord, MatchesRecord
<1> QED
  BY <1>1, <1>2, <1>3, PTL DEF AnchorsSpec
=============================================================================
