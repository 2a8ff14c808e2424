------------------------------ MODULE SavedTable ------------------------------
(***************************************************************************)
(* One table's snapshot in Redis, the object the process shares, and what   *)
(* reads the one behind the other's back: the start of a hand, which changes *)
(* the shared object across awaits, any of which may raise                   *)
(* (matchmaking_service.py), a join whose check precedes an await and a      *)
(* ready prompt that clears the table (pokerbotmodel.py), saves of the       *)
(* shared object by other handlers (player_identity_manager.py), load_game   *)
(* with validation and repair (table_manager.py, state_validator.py) by the  *)
(* cleanup job and health checks, and a restart with its recovery sweep.     *)
(*                                                                         *)
(* A table is what validate_game looks at, and the chips staked on it, one   *)
(* for each blind; the stakes are also reserved in the wallets, in Redis.    *)
(***************************************************************************)
EXTENDS Integers, FiniteSets

CONSTANTS Joiners,      \* requests to sit down
          Deck,         \* cards of a fresh deck
          MaxPlayers, MinPlayers,
          MaxObjects, MaxJobs, MaxSaves, MaxBets, MaxCrashes   \* bounds

ASSUME SavedTableAssumption ==
  /\ MaxPlayers \in Nat /\ MinPlayers \in 2..MaxPlayers /\ MaxObjects \in Nat
  /\ Deck \in Nat /\ Deck > 2 * MaxPlayers + 5

VARIABLES store,      \* the snapshot in Redis
          objects,    \* the Game objects of the process
          cached,     \* TableManager._tables: the shared object, 0 for none
          start,      \* start_game: where it is, and its object
          join,       \* each join_game: whether it has passed its checks, its object
          job,        \* a load_game at work: where it is, what it read, its copy
          reserved,   \* chips reserved in wallets for the hand
          jobs, saves, crashes,
          lateJoin, staleWrite, halfStart, emptied, failed  \* history: see the properties

tableVars == <<store, objects, cached, start, join, job, reserved>>
history == <<lateJoin, staleWrite, halfStart, emptied, failed>>
savedVars == <<tableVars, jobs, saves, crashes, history>>

Streets == [preflop |-> "flop", flop |-> "turn", turn |-> "river"]
CardsOf == [preflop |-> 3, flop |-> 1, turn |-> 1]

Empty == [stage |-> "initial", seats |-> 0, dealer |-> FALSE, deck |-> Deck, board |-> 0, bets |-> 0]
Idle == [at |-> "idle", obj |-> 0]
NoJob == [at |-> "idle", read |-> Empty, copy |-> Empty]
Shared == objects[cached]
Known == DOMAIN objects

SavedInit ==
  /\ store = Empty /\ objects = [o \in {1} |-> Empty] /\ cached = 1
  /\ start = Idle /\ join = [j \in Joiners |-> Idle] /\ job = NoJob /\ reserved = 0
  /\ jobs = 0 /\ saves = 0 /\ crashes = 0
  /\ lateJoin = FALSE /\ staleWrite = FALSE /\ halfStart = FALSE
  /\ emptied = FALSE /\ failed = {}

\* A fresh object for the process.
NewObject(table) ==
  LET n == Cardinality(Known) + 1 IN
    /\ n <= MaxObjects
    /\ objects' = [o \in Known \cup {n} |-> IF o = n THEN table ELSE objects[o]]
    /\ cached' = n

(***************************************************************************)
(* GameStateValidator                                                      *)
(***************************************************************************)
\* validate_game: a hand has players, a dealer and the deck its cards left.
Valid(table) ==
  IF table.stage = "initial" THEN table.deck = Deck
  ELSE table.seats > 0 /\ table.dealer /\ table.deck = Deck - 2 * table.seats - table.board

\* recover_game, _reset_to_waiting: the seats stay, the hand is forgotten.
Reset(table) == [Empty EXCEPT !.seats = table.seats]

(***************************************************************************)
(* The handlers of the process                                             *)
(***************************************************************************)
\* get_game when nothing is cached: load, validate and repair under the write lock.
Fetch ==
  /\ cached = 0
  /\ NewObject(IF Valid(store) THEN store ELSE Reset(store))
  /\ UNCHANGED <<store, start, join, job, reserved, jobs, saves, crashes, history>>

\* join_game: the stage and the free seats are checked, then the wallet is awaited.
JoinChecks(j) ==
  /\ join[j].at = "idle" /\ cached # 0
  /\ Shared.stage = "initial" /\ Shared.seats < MaxPlayers
  /\ join' = [join EXCEPT ![j] = [at |-> "checked", obj |-> cached]]
  /\ UNCHANGED <<store, objects, cached, start, job, reserved, jobs, saves, crashes, history>>

\* Mutant of JoinSeats: the seats are not counted again.
JoinBlindly(j) ==
  LET o == join[j].obj IN
    /\ join[j].at = "checked"
    /\ join' = [join EXCEPT ![j].at = "seated"]
    /\ objects' = [objects EXCEPT ![o].seats = @ + 1]
    /\ lateJoin' = (lateJoin \/ objects[o].stage # "initial")
    /\ UNCHANGED <<store, cached, start, job, reserved, jobs, saves, crashes, staleWrite, halfStart, emptied, failed>>

\* The player is seated, whatever the table has become, if there is room; he may
\* sit there already.
JoinSeats(j) ==
  LET o == join[j].obj IN
    /\ join[j].at = "checked"
    /\ \/ /\ objects[o].seats < MaxPlayers
          /\ join' = [join EXCEPT ![j].at = "seated"]
          /\ objects' = [objects EXCEPT ![o].seats = @ + 1]
          /\ lateJoin' = (lateJoin \/ objects[o].stage # "initial")
       \/ /\ objects[o].seats > 0
          /\ join' = [join EXCEPT ![j].at = "seated"]
          /\ UNCHANGED <<objects, lateJoin>>
       \/ /\ objects[o].seats >= MaxPlayers
          /\ join' = [join EXCEPT ![j] = Idle]
          /\ UNCHANGED <<objects, lateJoin>>
    /\ UNCHANGED <<store, cached, start, job, reserved, jobs, saves, crashes, staleWrite, halfStart, emptied, failed>>

\* The auto start is scheduled and the prompt edited, and the table saved.
JoinSaves(j) ==
  LET o == join[j].obj IN
    /\ join[j].at = "seated"
    /\ join' = [join EXCEPT ![j] = Idle]
    /\ store' = objects[o] /\ cached' = o
    /\ staleWrite' = (staleWrite \/ o # cached)
    /\ UNCHANGED <<objects, start, job, reserved, jobs, saves, crashes, lateJoin, halfStart, emptied, failed>>

\* ready, send_join_prompt: the table's prompt is missing or of another game, as it
\* is from the start of a hand on: everybody is unseated, whatever the stage, and
\* the table saved.  The dealer's seat is empty too, unless a newcomer will take it.
EmptyTable ==
  /\ cached # 0 /\ saves < MaxSaves
  /\ saves' = saves + 1
  /\ \E dealer \in {FALSE, Shared.dealer} :
       objects' = [objects EXCEPT ![cached].seats = 0, ![cached].dealer = dealer]
  /\ store' = objects'[cached]
  /\ emptied' = (emptied \/ start.at # "idle" \/ Shared.stage # "initial")
  /\ UNCHANGED <<cached, start, join, job, reserved, jobs, crashes, lateJoin, staleWrite, halfStart, failed>>

\* start_game: dealer, stage, cards, two blinds, each followed by an await, then the
\* role anchors and the save of the handler that called it.
Starting(from, to, table) ==
  /\ start.at = from
  /\ start' = [start EXCEPT !.at = to]
  /\ objects' = [objects EXCEPT ![start.obj] = table]

BeginStart ==
  /\ start.at = "idle" /\ cached # 0
  /\ Shared.stage = "initial" /\ Shared.seats >= MinPlayers
  /\ start' = [at |-> "dealer", obj |-> cached]
  /\ objects' = [objects EXCEPT ![cached].dealer = TRUE]
  /\ UNCHANGED <<store, cached, join, job, reserved, jobs, saves, crashes, history>>

InitializeHand ==
  /\ start.at = "dealer"
  /\ Starting("dealer", "stage", [objects[start.obj] EXCEPT !.stage = "preflop"])
  /\ UNCHANGED <<store, cached, join, job, reserved, jobs, saves, crashes, history>>

DealHoleCards ==
  /\ start.at = "stage"
  /\ Starting("stage", "cards", [objects[start.obj] EXCEPT !.deck = @ - 2 * objects[start.obj].seats])
  /\ UNCHANGED <<store, cached, join, job, reserved, jobs, saves, crashes, history>>

\* set_blinds: a chip is reserved, then it is on the table.
PostBlind(from, to) ==
  /\ Starting(from, to, [objects[start.obj] EXCEPT !.bets = @ + 1])
  /\ reserved' = reserved + 1
  /\ UNCHANGED <<store, cached, join, job, jobs, saves, crashes, history>>

\* No blinds are posted when the dealer of two, or one of two, has been unseated.
HasBlinds(table) == table.seats > 2 \/ (table.seats = 2 /\ table.dealer)

PostBlinds ==
  \/ start.at = "cards" /\ HasBlinds(objects[start.obj]) /\ PostBlind("cards", "small")
  \/ PostBlind("small", "blinds")
  \/ /\ start.at = "cards" /\ ~HasBlinds(objects[start.obj])
     /\ start' = [start EXCEPT !.at = "blinds"]
     /\ UNCHANGED <<store, objects, cached, join, job, reserved, jobs, saves, crashes, history>>

\* An await of the start raises: the statistics, a wallet that may have reserved
\* the chip, the role anchors after their 30 seconds.  The exception reaches the
\* handler, which saves nothing; what the start did stays in the shared object.
StartFails(charged) ==
  /\ start.at # "idle"
  /\ charged => start.at = "small" \/ (start.at = "cards" /\ HasBlinds(objects[start.obj]))
  /\ start' = Idle
  /\ reserved' = IF charged THEN reserved + 1 ELSE reserved
  /\ failed' = failed \cup {IF charged THEN "small" ELSE start.at}
  /\ UNCHANGED <<store, objects, cached, join, job, jobs, saves, crashes, lateJoin, staleWrite, halfStart, emptied>>

\* Mutant of SaveStart: the started hand is not saved.
StartUnsaved ==
  /\ start.at = "blinds"
  /\ start' = Idle
  /\ UNCHANGED <<store, objects, cached, join, job, reserved, jobs, saves, crashes, history>>

SaveStart ==
  /\ start.at = "blinds"
  /\ store' = objects[start.obj] /\ cached' = start.obj
  /\ staleWrite' = (staleWrite \/ start.obj # cached)
  /\ start' = Idle
  /\ UNCHANGED <<objects, join, job, reserved, jobs, saves, crashes, lateJoin, halfStart, emptied, failed>>

\* _update_private_chat_id_in_active_game, a prompt that was sent and others save
\* the shared object when they please.
OtherSave ==
  /\ cached # 0 /\ saves < MaxSaves
  /\ saves' = saves + 1
  /\ store' = Shared
  /\ UNCHANGED <<objects, cached, start, join, job, reserved, jobs, crashes, history>>

\* The table an action makes of the stored one: a bet, a street or the end.
Played(t) ==
  (IF t.bets < MaxBets THEN {[t EXCEPT !.bets = @ + 1]} ELSE {})
    \cup (IF t.stage = "river" THEN {}
          ELSE {[t EXCEPT !.stage = Streets[t.stage], !.deck = @ - CardsOf[t.stage], !.board = @ + CardsOf[t.stage]]})
    \cup {Empty}

\* Mutant of PlayerAction: the copy it worked on is not saved.
ActionUnsaved ==
  /\ cached # 0
  /\ store.stage # "initial" /\ store.bets >= 2 /\ Valid(store)
  /\ \E t \in Played(store) :
       /\ NewObject(t)
       /\ reserved' = reserved + t.bets - store.bets
  /\ UNCHANGED <<store, start, join, job, jobs, saves, crashes, history>>

\* A player's action works on a copy it loads and saves under the write lock. A
\* snapshot that needs repair cannot be repaired there (the repair asks for the
\* lock the action holds): the copy has no hand and the action is refused, as it is
\* before both blinds have given somebody the turn.
PlayerAction ==
  /\ cached # 0
  /\ store.stage # "initial" /\ store.bets >= 2 /\ Valid(store)
  /\ \E t \in Played(store) :
       /\ NewObject(t)
       /\ store' = t
       /\ reserved' = reserved + t.bets - store.bets
  /\ UNCHANGED <<start, join, job, jobs, saves, crashes, history>>

(***************************************************************************)
(* load_game outside the handlers                                          *)
(***************************************************************************)
\* check_prune_performance and the cleanup cycle read the snapshot without a lock;
\* an invalid one is repaired, a valid one saved again if the cycle pruned it.
LoadSnapshot ==
  /\ job.at = "idle" /\ jobs < MaxJobs /\ cached # 0
  /\ jobs' = jobs + 1
  /\ \/ /\ ~Valid(store)
        /\ job' = [at |-> "repair", read |-> store, copy |-> Reset(store)]
     \/ /\ Valid(store)
        /\ job' = [at |-> "prune", read |-> store, copy |-> store]
  /\ UNCHANGED <<store, objects, cached, start, join, reserved, saves, crashes, history>>

\* _save of the repaired copy, or save_game of the pruned one, which also takes
\* the place of the shared object.
SaveSnapshot ==
  /\ job.at # "idle"
  /\ store' = job.copy
  /\ IF job.at = "prune" THEN NewObject(job.copy) ELSE UNCHANGED <<objects, cached>>
  /\ staleWrite' = (staleWrite \/ store # job.read \/ (job.at = "prune" /\ Shared # job.copy))
  /\ job' = NoJob
  /\ UNCHANGED <<start, join, reserved, jobs, saves, crashes, lateJoin, halfStart, emptied, failed>>

\* The process restarts; before it serves, run_startup_recovery loads each snapshot
\* and repairs it if need be.
Restart ==
  /\ crashes < MaxCrashes
  /\ crashes' = crashes + 1
  /\ store' = IF Valid(store) THEN store ELSE Reset(store)
  /\ objects' = [o \in {} |-> Empty] /\ cached' = 0
  /\ start' = Idle /\ join' = [j \in Joiners |-> Idle] /\ job' = NoJob
  /\ halfStart' = (halfStart \/ start.at \in {"small", "blinds"})
  /\ UNCHANGED <<reserved, jobs, saves, lateJoin, staleWrite, emptied, failed>>

SavedNext ==
  \/ Fetch \/ BeginStart \/ InitializeHand \/ DealHoleCards \/ PostBlinds \/ SaveStart
  \/ \E charged \in BOOLEAN : StartFails(charged)
  \/ \E j \in Joiners : JoinChecks(j) \/ JoinSeats(j) \/ JoinSaves(j)
  \/ EmptyTable \/ OtherSave \/ PlayerAction \/ LoadSnapshot \/ SaveSnapshot \/ Restart

SavedSpec == SavedInit /\ [][SavedNext]_savedVars

(***************************************************************************)
(* Properties                                                              *)
(***************************************************************************)
\* Where a start can be under way.
StartPlaces == {"dealer", "stage", "cards", "small", "blinds"}

Tables == [stage : {"initial", "preflop", "flop", "turn", "river"}, seats : 0..MaxPlayers,
           dealer : BOOLEAN, deck : 0..Deck, board : 0..5, bets : Nat]

\* Types: every variable stays within its domain.
SavedTypeOK ==
  /\ store \in Tables /\ objects \in [1..Cardinality(Known) -> Tables]
  /\ cached \in Known \cup {0}
  /\ start.at \in {"idle"} \cup StartPlaces /\ start.obj \in Known \cup {0}
  /\ \A j \in Joiners : join[j].at \in {"idle", "checked", "seated"} /\ join[j].obj \in Known \cup {0}
  /\ job.at \in {"idle", "repair", "prune"} /\ job.read \in Tables /\ job.copy \in Tables
  /\ reserved \in Int /\ failed \subseteq StartPlaces
  /\ \A flag \in {lateJoin, staleWrite, halfStart, emptied} : flag \in BOOLEAN

\* At rest the snapshot passes validation, so that neither a restart nor a job
\* resets a live hand, although saves of the shared object may have stored half
\* started hands meanwhile: save_game at the end of start_game covers them. The
\* exceptions: a start failed once it had set the stage, and left the half started
\* hand to whoever saves next; a ready prompt unseated the players of a hand
\* (pokerbotmodel.py); a player was seated in a running hand after the await that
\* followed the check of its stage; or a copy read before another save was written
\* after it.
RestingSnapshotIsValid ==
  start.at = "idle" =>
    Valid(store) \/ ~(failed \subseteq {"dealer"}) \/ emptied \/ lateJoin \/ staleWrite

\* At rest the chips reserved in the wallets are the ones the snapshot knows: a reset
\* (_reset_to_waiting frees no reservation) never takes a hand with stakes. The
\* exceptions: those above, but of the failed starts only those that had asked for a
\* blind, and a restart between the first blind and the save.
ReservedChipsAreOnTable ==
  start.at = "idle" =>
    \/ reserved = store.bets
    \/ failed \cap {"small", "blinds"} # {} \/ halfStart
    \/ emptied \/ lateJoin \/ staleWrite

\* Between joins, starts, saves, repairs and restarts the stored table is one the
\* program can go on from, and the wallets agree with it, but for the cases named.
SavedInv ==
  /\ RestingSnapshotIsValid
  /\ ReservedChipsAreOnTable

===============================================================================
