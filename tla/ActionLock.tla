----------------------------- MODULE ActionLock -----------------------------
(***************************************************************************)
(* The locks LockManager keeps in Redis (or in _InMemoryActionLockBackend):*)
(* a key set with NX and a time to live.                                   *)
(*                                                                         *)
(* A token key (acquire_action_lock, acquire_action_lock_with_retry,       *)
(* acquire_table_lock) holds the token of the try that set it, and only    *)
(* that token takes it away.  A smart key (acquire_with_smart_retry, which *)
(* the player, pot, deck and betting locks use) holds the word "locked",   *)
(* and a release deletes whatever is there.                                *)
(*                                                                         *)
(* Every try has an id of its own; store[k] is the try that set the key.   *)
(* spent[k] holds the tries whose time to live ran out, which no client    *)
(* learns of.                                                              *)
(***************************************************************************)
EXTENDS Integers, FiniteSets

CONSTANTS Clients,    \* coroutines that take these locks
          TokenKeys,  \* action and table lock keys
          SmartKeys,  \* fine-grained lock keys
          MaxTries,   \* max_retries, max_attempts
          QueueThreshold, \* queue_depth_threshold
          WaitDepth,  \* waiters whose estimated wait is within its threshold
          MaxIds,     \* bound: tries in a behaviour
          None

LockKeys == TokenKeys \cup SmartKeys
Ids == 1..MaxIds

ASSUME ActionLockAssumption ==
  /\ TokenKeys \cap SmartKeys = {}
  /\ MaxTries \in Nat /\ MaxIds \in Nat
  /\ None \notin Ids

VARIABLES store,  \* key -> the try that set it, or None
          req,    \* the request each client is in
          line,  \* the waiters list of each smart key: first tries of requests
          spent,  \* key -> the tries whose time to live has run out
          stranded, \* waiters that left without their entry being taken off
          lastId

actionVars == <<store, req, line, spent, stranded, lastId>>

Idle == [at |-> "idle"]

ActionInit ==
  /\ store = [k \in LockKeys |-> None]
  /\ req = [c \in Clients |-> Idle]
  /\ line = [k \in SmartKeys |-> {}]
  /\ spent = [k \in LockKeys |-> {}]
  /\ stranded = {}
  /\ lastId = 0

Waiting(c) == req[c].at \in {"sent", "backoff"}
Key(c) == req[c].key

\* Only a request with a retry loop goes on after a try that failed.
Tries(c) == IF req[c].retry THEN MaxTries ELSE 1

\* What a waiter leaves behind that does not come to its LREM.
Strand(c) == IF Key(c) \in SmartKeys THEN stranded \cup {req[c].first} ELSE stranded

\* Leaving the loop takes the waiter off the list.  An LREM that fails is logged,
\* and the entry stays.
Dequeue(c, removed) ==
  /\ line' = IF removed /\ Key(c) \in SmartKeys
             THEN [line EXCEPT ![Key(c)] = @ \ {req[c].first}] ELSE line
  /\ stranded' = IF removed THEN stranded ELSE Strand(c)

\* A look at the list, where an LLEN that fails counts as nobody, lets a request
\* go on while either the waiters or their estimated wait are within the threshold.
Admitted(k) ==
  \E depth \in {Cardinality(line[k]), 0} : depth <= QueueThreshold \/ depth <= WaitDepth

-----------------------------------------------------------------------------
(* Asking *)

\* acquire_action_lock and acquire_table_lock try once, ..._with_retry tries on.
AskToken(c, k, retry) ==
  /\ req[c].at = "idle" /\ k \in TokenKeys /\ lastId < MaxIds
  /\ lastId' = lastId + 1
  /\ req' = [req EXCEPT ![c] = [at |-> "sent", key |-> k, id |-> lastId + 1,
                                first |-> lastId + 1, tries |-> 1, retry |-> retry]]
  /\ UNCHANGED <<store, line, spent, stranded>>

\* acquire_with_smart_retry looks at the waiters before it joins them.
AskSmart(c, k) ==
  /\ req[c].at = "idle" /\ k \in SmartKeys /\ lastId < MaxIds
  /\ Admitted(k)
  /\ lastId' = lastId + 1
  /\ req' = [req EXCEPT ![c] = [at |-> "join", key |-> k, id |-> lastId + 1,
                                first |-> lastId + 1, tries |-> 1, retry |-> TRUE]]
  /\ UNCHANGED <<store, line, spent, stranded>>

\* LPUSH: when it fails the request goes on, on the list or not.
JoinLine(c, pushed) ==
  /\ req[c].at = "join"
  /\ line' = IF pushed THEN [line EXCEPT ![Key(c)] = @ \cup {req[c].first}] ELSE line
  /\ req' = [req EXCEPT ![c].at = "sent"]
  /\ UNCHANGED <<store, spent, stranded, lastId>>

\* A task cancelled during the LPUSH has not noted that it is on the list.
CancelJoin(c, pushed) ==
  /\ req[c].at = "join"
  /\ line' = IF pushed THEN [line EXCEPT ![Key(c)] = @ \cup {req[c].first}] ELSE line
  /\ stranded' = Strand(c)
  /\ req' = [req EXCEPT ![c] = Idle]
  /\ UNCHANGED <<store, spent, lastId>>

\* Mutants of Granted: SET without NX; the waiter stays on the list.
GrantedOver(c, removed) ==
  /\ req[c].at = "sent"
  /\ store' = [store EXCEPT ![Key(c)] = req[c].id]
  /\ Dequeue(c, removed)
  /\ req' = [req EXCEPT ![c].at = "held"]
  /\ UNCHANGED <<spent, lastId>>

GrantedInLine(c, removed) ==
  /\ req[c].at = "sent" /\ store[Key(c)] = None
  /\ store' = [store EXCEPT ![Key(c)] = req[c].id]
  /\ req' = [req EXCEPT ![c].at = "held"]
  /\ UNCHANGED <<line, spent, stranded, lastId>>

\* SET key NX EX, and its answer arrives.
Granted(c, removed) ==
  /\ req[c].at = "sent" /\ store[Key(c)] = None
  /\ store' = [store EXCEPT ![Key(c)] = req[c].id]
  /\ Dequeue(c, removed)
  /\ req' = [req EXCEPT ![c].at = "held"]
  /\ UNCHANGED <<spent, lastId>>

Fail(c) == req' = [req EXCEPT ![c].at = "backoff"]

Contended(c) ==
  /\ req[c].at = "sent" /\ store[Key(c)] # None
  /\ Fail(c)
  /\ UNCHANGED <<store, line, spent, stranded, lastId>>

\* wait_for runs out of time, or the connection breaks: the key was set or not,
\* and the token is forgotten.
AnswerLost(c, applied) ==
  /\ req[c].at = "sent"
  /\ applied => store[Key(c)] = None
  /\ store' = IF applied THEN [store EXCEPT ![Key(c)] = req[c].id] ELSE store
  /\ Fail(c)
  /\ UNCHANGED <<line, spent, stranded, lastId>>

\* The next try carries a new token.
TryAgain(c) ==
  /\ req[c].at = "backoff" /\ req[c].tries < Tries(c) /\ lastId < MaxIds
  /\ Key(c) \in SmartKeys => Admitted(Key(c))
  /\ lastId' = lastId + 1
  /\ req' = [req EXCEPT ![c].at = "sent", ![c].id = lastId + 1, ![c].tries = @ + 1]
  /\ UNCHANGED <<store, line, spent, stranded>>

\* Mutant of GiveUpRequest: the key is deleted in case a try had set it.
GiveUpAndDrop(c, removed) ==
  /\ req[c].at = "backoff"
  /\ Dequeue(c, removed)
  /\ store' = [store EXCEPT ![Key(c)] = None]
  /\ req' = [req EXCEPT ![c] = Idle]
  /\ UNCHANGED <<spent, lastId>>

\* The tries, the time budget, a cancellation or the line's depth end the request.
GiveUpRequest(c, removed) ==
  /\ req[c].at = "backoff"
  /\ Dequeue(c, removed)
  /\ req' = [req EXCEPT ![c] = Idle]
  /\ UNCHANGED <<store, spent, lastId>>

-----------------------------------------------------------------------------
(* Releasing *)

\* Mutant of DropOwn: the token is not compared.
DropBlindly(c) == [store EXCEPT ![Key(c)] = None]

\* RELEASE_ACTION_LOCK_SCRIPT, _InMemoryActionLockBackend.eval
DropOwn(c) ==
  IF store[Key(c)] = req[c].id THEN [store EXCEPT ![Key(c)] = None] ELSE store

\* Mutant of DropAny: the value is cleared and the key stays.
EmptyKey(c) == [store EXCEPT ![Key(c)] = 0]

\* _release_lock_internal
DropAny(c) == [store EXCEPT ![Key(c)] = None]

\* The connection may break before or after the release took effect.
ReleaseLock(c, applied) ==
  /\ req[c].at = "held"
  /\ store' = IF ~applied THEN store
              ELSE IF Key(c) \in TokenKeys THEN DropOwn(c) ELSE DropAny(c)
  /\ req' = [req EXCEPT ![c] = Idle]
  /\ UNCHANGED <<line, spent, stranded, lastId>>

\* The process ends with a request under way; nothing of it is kept but in Redis.
ClientCrashes(c) ==
  /\ req[c].at # "idle"
  /\ stranded' = IF Waiting(c) THEN Strand(c) ELSE stranded
  /\ req' = [req EXCEPT ![c] = Idle]
  /\ UNCHANGED <<store, line, spent, lastId>>

\* Mutant of Expire: the time to live is set in a call of its own, once the lock
\* is granted.
ExpireGranted(k) ==
  /\ \E c \in Clients : req[c].at = "held" /\ Key(c) = k /\ store[k] = req[c].id
  /\ spent' = [spent EXCEPT ![k] = @ \cup {store[k]}]
  /\ store' = [store EXCEPT ![k] = None]
  /\ UNCHANGED <<req, line, stranded, lastId>>

\* Redis, or _purge_expired, drops a key whose time to live is over.
Expire(k) ==
  /\ store[k] # None
  /\ spent' = [spent EXCEPT ![k] = @ \cup {store[k]}]
  /\ store' = [store EXCEPT ![k] = None]
  /\ UNCHANGED <<req, line, stranded, lastId>>

\* A waiters list expires 300 s after the last waiter joined it.
ExpireQueue(k) ==
  /\ line[k] # {}
  /\ line' = [line EXCEPT ![k] = {}]
  /\ UNCHANGED <<store, req, spent, stranded, lastId>>

ActionNext ==
  \/ \E c \in Clients :
       \/ \E k \in TokenKeys, r \in BOOLEAN : AskToken(c, k, r)
       \/ \E k \in SmartKeys : AskSmart(c, k)
       \/ Contended(c) \/ TryAgain(c) \/ ClientCrashes(c)
       \/ \E pushed \in BOOLEAN : JoinLine(c, pushed) \/ CancelJoin(c, pushed)
       \/ \E removed \in BOOLEAN : Granted(c, removed) \/ GiveUpRequest(c, removed)
       \/ \E applied \in BOOLEAN : AnswerLost(c, applied) \/ ReleaseLock(c, applied)
  \/ \E k \in LockKeys : Expire(k)
  \/ \E k \in SmartKeys : ExpireQueue(k)

RequestGoesOn(c) ==
  \/ Contended(c)
  \/ \E done \in BOOLEAN : JoinLine(c, done) \/ Granted(c, done) \/ GiveUpRequest(c, done)

\* Keys expire; a client does not leave an answer unread or a loop unfinished.
ActionFairness ==
  /\ \A k \in LockKeys : WF_actionVars(Expire(k))
  /\ \A c \in Clients : WF_actionVars(RequestGoesOn(c))

ActionSpec == ActionInit /\ [][ActionNext]_actionVars /\ ActionFairness

-----------------------------------------------------------------------------
(* Properties *)

ActionTypeOK ==
  /\ store \in [LockKeys -> Ids \cup {None}]
  /\ \A c \in Clients : req[c].at \in {"idle", "join", "sent", "backoff", "held"}
  /\ \A k \in SmartKeys : line[k] \subseteq Ids
  /\ \A k \in LockKeys : spent[k] \subseteq Ids
  /\ stranded \subseteq Ids
  /\ lastId \in 0..MaxIds

Holders(k) == {c \in Clients : req[c].at = "held" /\ Key(c) = k}

\* A client that believes it holds a token key does hold it, or its time to live
\* is over: no lost answer, retry or late release takes another's lock away.
TokenHeld ==
  \A k \in TokenKeys : \A c \in Holders(k) : store[k] = req[c].id \/ req[c].id \in spent[k]

\* So two clients believe they hold a token key only when the time of one is over.
TokenExclusion ==
  \A k \in TokenKeys, c, d \in Clients :
    c # d /\ {c, d} \subseteq Holders(k) => {req[c].id, req[d].id} \cap spent[k] # {}

\* A smart key is deleted by whoever releases it, so an expired holder can free
\* another's lock, and a third client takes it.  It takes a time to live that ran
\* out on that key: no lost answer, retry or crash lets two clients in.
SmartExclusion ==
  \A k \in SmartKeys :
    Cardinality(Holders(k)) > 1 => spent[k] # {}

\* An entry of a waiters list is that of a client that waits for the key, unless
\* its waiter crashed, was cancelled while it joined, or could not reach Redis to
\* take the entry off.  Nothing else makes those who come later find the line deeper
\* than it is: not a lost answer, a retry, a grant or a line that expired meanwhile.
LineIsOfWaiters ==
  \A k \in SmartKeys : \A i \in line[k] \ stranded :
    \E c \in Clients : Waiting(c) /\ Key(c) = k /\ req[c].first = i

\* Only the end of a time to live takes a key from the client that holds it,
\* through retries, lost answers and crashes, and who stands in the line of a key
\* waits for it unless taking it off failed.
HoldersInv ==
  /\ TokenHeld
  /\ TokenExclusion
  /\ SmartExclusion
  /\ LineIsOfWaiters

\* A key nobody holds, set by a try whose answer was lost or by a client that
\* crashed or could not release it, does not stay: its time to live frees it.
OrphansAreFreed ==
  \A k \in LockKeys : (store[k] # None /\ Holders(k) = {}) ~> (store[k] = None \/ Holders(k) # {})
=============================================================================
