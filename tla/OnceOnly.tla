------------------------------ MODULE OnceOnly ------------------------------
(***************************************************************************)
(* Defences of mini-dist-transaction against late and repeated requests:   *)
(* fencing tokens and the cache of processed requests.  They share no      *)
(* state.                                                                  *)
(***************************************************************************)
EXTENDS Integers, FiniteSets

-----------------------------------------------------------------------------
(***************************************************************************)
(* mini-dist-transaction/src/fencing.c: a store that issues fencing tokens  *)
(* and a guard, per protected resource, that storage consults before every  *)
(* write.  fencing_issue_token returns a pointer to the slot that the store *)
(* keeps for the resource; a client presents either that pointer            *)
(* (fencing_validate_token) or the number it copied from it when the token  *)
(* was issued (fencing_check_and_advance).                                  *)
(*                                                                          *)
(* issued, last and newest are history variables: the number each client    *)
(* was issued, and the numbers issued to the writer of the last accepted    *)
(* write and to the newest client that has ever written.                    *)
(***************************************************************************)

CONSTANTS
  Protected, Clients,
  MaxTokens,    \* FENCING_MAX_TOKENS
  ByPointer,    \* whether clients present the pointer or the copied number
  MaxCounter    \* bound of the model: global_counter stops there

ASSUME FencingAssumption == MaxTokens \in Nat /\ ByPointer \in BOOLEAN

VARIABLES
  tokens,          \* the slots in use: value, owner and valid flag by resource
  global_counter,
  guard,           \* highest_seen of each resource's FencingGuard
  issued, last, newest

fenceVars == <<tokens, global_counter, guard, issued, last, newest>>

FencingToken == [value : Nat, owner : Clients, valid : BOOLEAN]

-----------------------------------------------------------------------------
(* fencing_store_init and fencing_guard_init.                                *)
FenceInit ==
  /\ tokens = [r \in {} |-> 0]
  /\ global_counter = 1
  /\ guard = [r \in Protected |-> 0]
  /\ issued = [r \in Protected |-> [c \in Clients |-> 0]]
  /\ last = [r \in Protected |-> 0]
  /\ newest = [r \in Protected |-> 0]

(* A second token for a resource overwrites the slot of the first.           *)
fencing_issue_token(r, c) ==
  /\ r \in DOMAIN tokens \/ Cardinality(DOMAIN tokens) < MaxTokens
  /\ global_counter < MaxCounter
  /\ tokens' = [q \in DOMAIN tokens \cup {r} |->
                  IF q = r THEN [value |-> global_counter, owner |-> c, valid |-> TRUE]
                  ELSE tokens[q]]
  /\ global_counter' = global_counter + 1
  /\ issued' = [issued EXCEPT ![r][c] = global_counter]
  /\ UNCHANGED <<guard, last, newest>>

(* The write is accepted; a rejected one only counts.                         *)
fencing_check_and_advance(r, value) ==
  /\ value >= guard[r]
  /\ guard' = [guard EXCEPT ![r] = IF value > @ THEN value ELSE @]

fencing_validate_token(r) ==
  /\ tokens[r].valid
  /\ fencing_check_and_advance(r, tokens[r].value)

(* Client c writes to storage under the token it was issued for r.            *)
Write(r, c) ==
  /\ issued[r][c] > 0
  /\ IF ByPointer THEN fencing_validate_token(r)
     ELSE fencing_check_and_advance(r, issued[r][c])
  /\ last' = [last EXCEPT ![r] = issued[r][c]]
  /\ newest' = [newest EXCEPT ![r] = IF issued[r][c] > @ THEN issued[r][c] ELSE @]
  /\ UNCHANGED <<tokens, global_counter, issued>>

fencing_revoke_token(r) ==
  /\ r \in DOMAIN tokens
  /\ tokens' = [tokens EXCEPT ![r].valid = FALSE]
  /\ UNCHANGED <<global_counter, guard, issued, last, newest>>

FenceNext ==
  \E r \in Protected :
    \/ \E c \in Clients : fencing_issue_token(r, c) \/ Write(r, c)
    \/ fencing_revoke_token(r)

FenceSpec == FenceInit /\ [][FenceNext]_fenceVars

-----------------------------------------------------------------------------
(* Properties.                                                               *)

(* Types; the token array is not overrun.                                    *)
FenceTypeOK ==
  /\ DOMAIN tokens \subseteq Protected
  /\ Cardinality(DOMAIN tokens) <= MaxTokens
  /\ tokens \in [DOMAIN tokens -> FencingToken]
  /\ global_counter \in Nat \ {0}
  /\ guard \in [Protected -> Nat]
  /\ issued \in [Protected -> [Clients -> Nat]]
  /\ last \in [Protected -> Nat]
  /\ newest \in [Protected -> Nat]

(* fencing.h, Fencing Token Safety: "no stale writer can corrupt data".  Once *)
(* a client with a newer token has written a resource, no write of an older   *)
(* one is accepted: the last accepted writer is the newest one.               *)
NoStaleWrite ==
  \A r \in Protected : last[r] = newest[r]

-----------------------------------------------------------------------------
(***************************************************************************)
(* mini-dist-transaction/src/idempotency.c: a cache of processed requests   *)
(* with LRU eviction, and idempotent_retry_with_backoff, the loop of the    *)
(* client that sends them.  The server around the cache is external: a      *)
(* delivery of a request asks idempotent_check and, when the answer is      *)
(* REQ_NEW, executes the request and then calls idempotent_record.  A       *)
(* client whose attempt times out sends the request again, so two           *)
(* deliveries of one request can be under way at the same time.             *)
(*                                                                          *)
(* uses, touched, executed, answer and excused are history variables: how   *)
(* many uses of the cache there were, which of them was the last of each    *)
(* request (0 for none), how often each was executed, what its last         *)
(* execution returned, and the requests that were evicted or delivered      *)
(* again before the first delivery was recorded.                            *)
(***************************************************************************)

CONSTANTS
  Requests,    \* request ids
  Results,     \* what an execution can return
  CacheSize,   \* IDEMPOTENT_CACHE_SIZE
  MaxRetries,  \* max_retries of the RetryPolicy
  MaxLru       \* bound of the model: lru_counter stops there

ASSUME IdempotencyAssumption ==
  CacheSize \in Nat \ {0} /\ MaxRetries \in Nat /\ MaxLru \in Nat

VARIABLES
  slot,          \* processed_ids, with what is left in the slots past count
  count, lru_counter,
  loop,        \* each client's loop: attempts made, and whether it waits
  executing,     \* how many deliveries of each request are between check and record
  uses, touched, executed, answer, excused

store == <<slot, count, lru_counter>>
ghosts == <<uses, touched, executed, answer, excused>>
idemVars == <<store, loop, executing, ghosts>>

NoRequest == "none"

IdempotentRequest ==
  [ id     : Requests \cup {NoRequest},
    result : Results \cup {NoRequest},
    lru    : Nat ]

-----------------------------------------------------------------------------
(* idempotent_store_init.                                                    *)
IdemInit ==
  /\ slot = [i \in 1 .. CacheSize |-> [id |-> NoRequest, result |-> NoRequest, lru |-> 0]]
  /\ count = 0
  /\ lru_counter = 0
  /\ loop = [r \in Requests |-> [attempts |-> 0, waits |-> FALSE]]
  /\ executing = [r \in Requests |-> 0]
  /\ uses = 0
  /\ touched = [r \in Requests |-> 0]
  /\ executed = [r \in Requests |-> 0]
  /\ answer = [r \in Requests |-> NoRequest]
  /\ excused = {}

Found(r) == {i \in 1 .. count : slot[i].id = r}

(* r becomes the most recently used request.                                 *)
Touch(r) ==
  /\ uses' = uses + 1
  /\ touched' = [touched EXCEPT ![r] = uses + 1]

(* idempotent_store_find on a hit, which is a use.                            *)
idempotent_store_find(r) ==
  /\ slot' = [i \in DOMAIN slot |->
                IF i \in Found(r) THEN [slot[i] EXCEPT !.lru = lru_counter + 1] ELSE slot[i]]
  /\ lru_counter' = lru_counter + 1
  /\ Touch(r)

(* idempotent_retry_with_backoff: the first attempt, or another one after a   *)
(* failure; a reply that is lost on its way counts as one.                    *)
idempotent_retry_with_backoff(r) ==
  ~loop[r].waits /\ loop[r].attempts <= MaxRetries

(* A delivery that idempotent_check answers from the cache.                   *)
Replay(r) ==
  /\ idempotent_retry_with_backoff(r)
  /\ Found(r) # {}
  /\ lru_counter < MaxLru
  /\ idempotent_store_find(r)
  /\ loop' = [loop EXCEPT ![r].attempts = @ + 1]
  /\ UNCHANGED <<count, executing, executed, answer, excused>>

(* A delivery that idempotent_check calls new.  Nothing marks it as           *)
(* REQ_PROCESSING until it is recorded.                                       *)
StartNew(r) ==
  /\ idempotent_retry_with_backoff(r)
  /\ Found(r) = {}
  /\ loop' = [loop EXCEPT ![r] = [attempts |-> @.attempts + 1, waits |-> TRUE]]
  /\ executing' = [executing EXCEPT ![r] = @ + 1]
  /\ excused' = IF executing[r] > 0 THEN excused \cup {r} ELSE excused
  /\ UNCHANGED <<store, uses, touched, executed, answer>>

(* The client gives up waiting; the delivery goes on.                         *)
TimeOut(r) ==
  /\ loop[r].waits
  /\ loop' = [loop EXCEPT ![r].waits = FALSE]
  /\ UNCHANGED <<store, executing, ghosts>>

(* idempotent_store_evict_lru: the first entry with the smallest counter.     *)
LeastRecent ==
  CHOOSE i \in 1 .. count :
    \A j \in 1 .. count : slot[i].lru < slot[j].lru \/ (slot[i].lru = slot[j].lru /\ i <= j)

(* Mutant: the shift stops one entry early.                                   *)
EvictShiftsShort ==
  [i \in DOMAIN slot |-> IF i \in LeastRecent .. count - 2 THEN slot[i + 1] ELSE slot[i]]

(* The entries behind it move up; the last slot keeps its old contents.       *)
idempotent_store_evict_lru ==
  [i \in DOMAIN slot |-> IF i \in LeastRecent .. count - 1 THEN slot[i + 1] ELSE slot[i]]

(* A request that is not in the cache is recorded in the next slot, after an  *)
(* eviction if there is none.  A NULL result leaves the slot's old one.       *)
RecordNew(r, result) ==
  LET full == count >= CacheSize
      kept == IF full THEN idempotent_store_evict_lru ELSE slot
      idx  == IF full THEN count ELSE count + 1
  IN  /\ slot' = [kept EXCEPT ![idx] =
           [ id     |-> r,
             result |-> IF result = NoRequest THEN @.result ELSE result,
             lru    |-> lru_counter + 1 ]]
      /\ count' = idx
      /\ lru_counter' = lru_counter + 1
      /\ excused' = IF full THEN excused \cup {slot[LeastRecent].id} ELSE excused

(* A request that is: the find and the record both count as a use.            *)
RecordAgain(r, result) ==
  /\ slot' = [i \in DOMAIN slot |->
       IF i \notin Found(r) THEN slot[i]
       ELSE [ id     |-> r,
              result |-> IF result = NoRequest THEN slot[i].result ELSE result,
              lru    |-> lru_counter + 2 ]]
  /\ lru_counter' = lru_counter + 2
  /\ UNCHANGED <<count, excused>>

idempotent_record(r, result) ==
  IF Found(r) = {} THEN RecordNew(r, result) ELSE RecordAgain(r, result)

(* A delivery under way executes the request and records what it returned.    *)
Execute(r, result) ==
  /\ executing[r] > 0
  /\ lru_counter + 2 <= MaxLru
  /\ executing' = [executing EXCEPT ![r] = @ - 1]
  /\ executed' = [executed EXCEPT ![r] = @ + 1]
  /\ answer' = [answer EXCEPT ![r] = result]
  /\ idempotent_record(r, result)
  /\ Touch(r)
  /\ UNCHANGED loop

IdemNext ==
  \E r \in Requests :
    \/ Replay(r)
    \/ StartNew(r)
    \/ TimeOut(r)
    \/ \E result \in Results \cup {NoRequest} : Execute(r, result)

IdemSpec == IdemInit /\ [][IdemNext]_idemVars

-----------------------------------------------------------------------------
(* Properties.                                                               *)

(* Types, and the cache is not overrun.                                      *)
IdemTypeOK ==
  /\ slot \in [1 .. CacheSize -> IdempotentRequest]
  /\ count \in 0 .. CacheSize
  /\ lru_counter \in Nat
  /\ loop \in [Requests -> [attempts : 0 .. MaxRetries + 1, waits : BOOLEAN]]
  /\ executing \in [Requests -> 0 .. MaxRetries + 1]
  /\ touched \in [Requests -> 0 .. uses]
  /\ executed \in [Requests -> Nat]

(* The cache is an LRU cache: it holds, each once, the requests that were     *)
(* used last, as many as it has slots for.                                    *)
HoldsMostRecent ==
  /\ \A i, j \in 1 .. count : slot[i].id = slot[j].id => i = j
  /\ \A i \in 1 .. count : slot[i].id \in Requests /\ touched[slot[i].id] > 0
  /\ \A r \in Requests :
       (touched[r] > 0 /\ Found(r) = {}) =>
         /\ count = CacheSize
         /\ \A i \in 1 .. count : touched[r] < touched[slot[i].id]

(* A retried request is executed once only, and the cache answers with what   *)
(* that execution returned, unless the request was evicted meanwhile or two   *)
(* deliveries of it overlapped.                                               *)
ExecutedOnce ==
  \A r \in Requests \ excused :
    /\ executed[r] <= 1
    /\ \A i \in Found(r) : answer[r] # NoRequest => slot[i].result = answer[r]

-----------------------------------------------------------------------------
(* Fencing and idempotency: no late write of an old holder is accepted, and   *)
(* no repeated request takes effect twice.                                    *)
OnceAndInOrder ==
  /\ FenceTypeOK /\ NoStaleWrite
  /\ IdemTypeOK /\ HoldsMostRecent /\ ExecutedOnce
=============================================================================
