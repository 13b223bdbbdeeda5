----------------------------- MODULE Admission ------------------------------
(***************************************************************************)
(* What stands between a request and a backend in mini-gateway-proxy: the  *)
(* circuit breaker and the rate limiters.  They share no state; the API    *)
(* gateway asks both.                                                      *)
(***************************************************************************)
EXTENDS Naturals, Sequences, FiniteSetsExt

-----------------------------------------------------------------------------
(***************************************************************************)
(* The circuit breaker of mini-gateway-proxy (circuit_breaker.c).  A call   *)
(* is two steps, what cb_call does before the protected function runs and   *)
(* what it does with its result, so calls of several threads overlap and a  *)
(* result may arrive in a phase other than the one that admitted the call.  *)
(* The clock appears as the time since the circuit opened, which stops to   *)
(* matter once it has reached timeout_ms; the statistics total_... are left *)
(* out.                                                                     *)
(***************************************************************************)

CONSTANTS Callers, failure_threshold, success_threshold,
          half_open_max_requests, timeout_ms

VARIABLES cb,       \* the CBCircuit
          inside    \* the callers whose protected function is running

cbVars == <<cb, inside>>

(* CBCircuit; age stands for opened_at and is the time since then.           *)
CBCircuit == [state: {"CLOSED", "OPEN", "HALF_OPEN"},
              failure_count: 0..failure_threshold,
              success_count: 0..success_threshold,
              current_requests: 0..half_open_max_requests,
              age: 0..timeout_ms]

(* cb_init, and cb_reset except that it keeps opened_at                      *)
Closed(age) == [state |-> "CLOSED", failure_count |-> 0, success_count |-> 0,
                current_requests |-> 0, age |-> age]

Opened(c) == [c EXCEPT !.state = "OPEN", !.age = 0, !.current_requests = 0]

cb_init == Closed(0)

(* Mutant: on success the probe counts one short.                            *)
ClosesLate(c) ==
  IF c.state = "HALF_OPEN"
  THEN IF c.success_count >= success_threshold
       THEN Closed(c.age)
       ELSE [c EXCEPT !.success_count = @ + 1]
  ELSE [c EXCEPT !.failure_count = 0]

cb_on_success(c) ==
  CASE c.state = "CLOSED"    -> [c EXCEPT !.failure_count = 0]
    [] c.state = "OPEN"      -> c
    [] c.state = "HALF_OPEN" ->
         LET n == c.success_count + 1 IN
         IF n >= success_threshold
         THEN [c EXCEPT !.state = "CLOSED", !.success_count = n,
                        !.failure_count = 0, !.current_requests = 0]
         ELSE [c EXCEPT !.success_count = n]

cb_on_failure(c) ==
  CASE c.state = "CLOSED"    ->
         LET d == [c EXCEPT !.failure_count = @ + 1]
         IN  IF d.failure_count >= failure_threshold THEN Opened(d) ELSE d
    [] c.state = "OPEN"      -> c
    [] c.state = "HALF_OPEN" -> Opened(c)

(* What cb_call does before func: the circuit that admits the call.          *)
Admitted ==
  CASE cb.state = "CLOSED"    -> cb
    [] cb.state = "OPEN"      -> [cb EXCEPT !.state = "HALF_OPEN", !.success_count = 0,
                                            !.current_requests = 1]
    [] cb.state = "HALF_OPEN" -> [cb EXCEPT !.current_requests = @ + 1]

Admits == \/ cb.state = "CLOSED"
          \/ cb.state = "OPEN" /\ cb.age >= timeout_ms
          \/ cb.state = "HALF_OPEN" /\ cb.current_requests < half_open_max_requests

CbInit == cb = cb_init /\ inside = {}

(* A refused call only counts itself in total_rejected.                      *)
cb_call(c) ==
  /\ c \notin inside /\ Admits
  /\ cb' = Admitted
  /\ inside' = inside \cup {c}

Returns(c, ok) ==
  /\ c \in inside
  /\ cb' = IF ok THEN cb_on_success(cb) ELSE cb_on_failure(cb)
  /\ inside' = inside \ {c}

cb_reset == cb' = Closed(cb.age) /\ UNCHANGED inside

CbTick ==
  /\ cb.age < timeout_ms
  /\ cb' = [cb EXCEPT !.age = @ + 1]
  /\ UNCHANGED inside

CbNext ==
  \/ \E c \in Callers : cb_call(c) \/ \E ok \in BOOLEAN : Returns(c, ok)
  \/ cb_reset
  \/ CbTick

(* The protected functions return, time passes, and somebody keeps calling.  *)
CbFairness ==
  /\ WF_cbVars(CbTick)
  /\ \A c \in Callers : WF_cbVars(cb_call(c))
                        /\ WF_cbVars(\E ok \in BOOLEAN : Returns(c, ok))

CbSpec == CbInit /\ [][CbNext]_cbVars /\ CbFairness

-----------------------------------------------------------------------------
CbTypeOK == cb \in CBCircuit /\ inside \subseteq Callers

(* No refusal is for ever: an open circuit is probed once its time is over,  *)
(* and probing ends in one of the two other states, although the count of   *)
(* admitted probes only ever grows while the circuit is half-open.           *)
RefusalEnds ==
  /\ cb.state = "OPEN" ~> cb.state # "OPEN"
  /\ cb.state = "HALF_OPEN" ~> cb.state # "HALF_OPEN"

-----------------------------------------------------------------------------
(***************************************************************************)
(* The rate limiters of mini-gateway-proxy (rate_limiter.c): token bucket,  *)
(* leaky bucket, fixed window and sliding log, each with limiters of its    *)
(* own for known clients.  A request costs Cost units and Rate units come   *)
(* back per tick, so that fractions of a token exist as they do in the      *)
(* doubles of the code.                                                     *)
(***************************************************************************)

CONSTANTS Clients, Nobody,           \* Nobody: the request names no client
          MaxClients, Cost, Rate, Burst, Window, max_requests,
          RL_MAX_TIMESTAMPS,         \* slots of the sliding log
          Start,                     \* uptime of the machine at rl_init
          MaxClock, MaxLog           \* bounds: the time and the length of a behaviour

ASSUME LimiterAssumption ==
  /\ Cost \in Nat /\ Rate \in Nat /\ Burst \in Nat /\ max_requests \in Nat
  /\ RL_MAX_TIMESTAMPS \in Nat \ {0}
  /\ Window \in Nat \ {0} /\ Start \in Nat /\ MaxClock \in Nat

VARIABLES algorithm, rl, clients, clock,
          log    \* the admitted requests, [client, time], oldest first

rlVars == <<algorithm, rl, clients, clock, log>>

(* A RateLimiter or ClientLimiter: level and last are tokens/last_refill of  *)
(* the token bucket or water_level/last_drain of the leaky one, count and    *)
(* start belong to the fixed window, stamps to the sliding log.              *)
Limiter(t) ==
  [level |-> IF algorithm = "TOKEN_BUCKET" THEN Burst ELSE 0, last |-> t,
   count |-> 0, start |-> t, stamps |-> <<>>]

rl_init ==
  /\ algorithm \in {"TOKEN_BUCKET", "LEAKY_BUCKET", "FIXED_WINDOW", "SLIDING_WINDOW_LOG"}
  /\ clock = Start
  /\ rl = Limiter(Start)
  /\ clients = <<>>
  /\ log = <<>>

Least(a, b) == IF a < b THEN a ELSE b
Drop(a, b)  == IF a > b THEN a - b ELSE 0

(* clock - window_size_ms is unsigned: before the machine has been up for a  *)
(* window it is a time beyond every timestamp.                               *)
WindowStart == IF clock >= Window THEN clock - Window ELSE MaxClock + 1

(* What the slot of the k-th timestamp holds.  Nothing keeps max_requests    *)
(* below the number of slots: a later timestamp may be there by now.         *)
Slot(stamps, k) ==
  stamps[k + RL_MAX_TIMESTAMPS * ((Len(stamps) - k) \div RL_MAX_TIMESTAMPS)]

(* The oldest ones go, up to the first that is within the window.            *)
Evicted(stamps) ==
  LET kept == {k \in DOMAIN stamps : Slot(stamps, k) >= WindowStart}
  IN  IF kept = {} THEN <<>> ELSE SubSeq(stamps, Min(kept), Len(stamps))

(* Mutant: the bucket is refilled without recording when.                    *)
RefillsAgain(l) ==
  IF algorithm = "TOKEN_BUCKET"
  THEN [l EXCEPT !.level = Least(Burst, @ + Rate * (clock - l.last))] ELSE l

Refilled(l) ==
  CASE algorithm = "TOKEN_BUCKET" ->
         [l EXCEPT !.level = Least(Burst, @ + Rate * (clock - l.last)), !.last = clock]
    [] algorithm = "LEAKY_BUCKET" ->
         [l EXCEPT !.level = Drop(@, Rate * (clock - l.last)), !.last = clock]
    [] algorithm = "FIXED_WINDOW" ->
         IF clock - l.start >= Window THEN [l EXCEPT !.start = clock, !.count = 0] ELSE l
    [] algorithm = "SLIDING_WINDOW_LOG" ->
         [l EXCEPT !.stamps = Evicted(@)]

(* Only the limiters with an algorithm of their own are refilled.            *)
ClientRefilled(l) ==
  IF algorithm \in {"TOKEN_BUCKET", "FIXED_WINDOW"} THEN Refilled(l) ELSE l

(* Has l room for a request, and l with the request taken.                   *)
Room(l) ==
  CASE algorithm = "TOKEN_BUCKET"       -> l.level >= Cost
    [] algorithm = "LEAKY_BUCKET"       -> l.level + Cost <= Burst
    [] algorithm = "FIXED_WINDOW"       -> l.count < max_requests
    [] algorithm = "SLIDING_WINDOW_LOG" -> Len(l.stamps) < max_requests

Take(l) ==
  CASE algorithm = "TOKEN_BUCKET"       -> [l EXCEPT !.level = @ - Cost]
    [] algorithm = "LEAKY_BUCKET"       -> [l EXCEPT !.level = @ + Cost]
    [] algorithm = "FIXED_WINDOW"       -> [l EXCEPT !.count = @ + 1]
    [] algorithm = "SLIDING_WINDOW_LOG" -> [l EXCEPT !.stamps = Append(@, clock)]

rl_refill ==
  /\ rl' = Refilled(rl)
  /\ clients' = [i \in DOMAIN clients |-> [clients[i] EXCEPT !.limiter = ClientRefilled(@)]]
  /\ UNCHANGED <<algorithm, clock, log>>

(* rl_allow, and rl_consume around it: the parent decides alone.             *)
rl_allow ==
  LET r == Refilled(rl) IN
  /\ rl' = IF Room(r) THEN Take(r) ELSE r
  /\ clients' = [i \in DOMAIN clients |-> [clients[i] EXCEPT !.limiter = ClientRefilled(@)]]
  /\ log' = IF Room(r) THEN Append(log, [client |-> Nobody, time |-> clock]) ELSE log
  /\ UNCHANGED <<algorithm, clock>>

Known(c) == {i \in DOMAIN clients : clients[i].id = c}

rl_get_or_create_client(c) ==
  IF Known(c) # {} \/ Len(clients) >= MaxClients THEN clients
  ELSE Append(clients, [id |-> c, limiter |-> Limiter(clock)])

(* A client's limiter decides first; the parent's refusal leaves it alone.   *)
(* A client the table has no place for is refused before anything is         *)
(* refilled, and a fixed window that has no room is renewed without asking   *)
(* the parent at all.                                                        *)
rl_allow_client(c) ==
  LET known == rl_get_or_create_client(c)
      at    == {i \in DOMAIN known : known[i].id = c}
      owns  == algorithm \in {"TOKEN_BUCKET", "FIXED_WINDOW"}
      fresh == [i \in DOMAIN known |-> [known[i] EXCEPT !.limiter = ClientRefilled(@)]]
      r     == Refilled(rl)
      mine  == ~owns \/ \A i \in at : Room(fresh[i].limiter)
      asked == mine \/ algorithm = "TOKEN_BUCKET"
      ok    == mine /\ Room(r)
  IN  IF at = {}
      THEN UNCHANGED rlVars
      ELSE /\ rl' = IF ok THEN Take(r) ELSE IF asked THEN r ELSE rl
           /\ clients' = [i \in DOMAIN known |->
                IF i \in at /\ ok /\ owns THEN [fresh[i] EXCEPT !.limiter = Take(@)]
                ELSE IF asked \/ i \in at THEN fresh[i] ELSE known[i]]
           /\ log' = IF ok THEN Append(log, [client |-> c, time |-> clock]) ELSE log
           /\ UNCHANGED <<algorithm, clock>>

RlTick == clock < MaxClock /\ clock' = clock + 1 /\ UNCHANGED <<algorithm, rl, clients, log>>

RlNext ==
  \/ rl_refill
  \/ Len(log) < MaxLog /\ (rl_allow \/ \E c \in Clients : rl_allow_client(c))
  \/ RlTick

RlSpec == rl_init /\ [][RlNext]_rlVars

-----------------------------------------------------------------------------
RlTypeOK ==
  /\ clock \in Start..MaxClock
  /\ Len(clients) <= MaxClients
  /\ \A l \in {rl} \cup {clients[i].limiter : i \in DOMAIN clients} :
       /\ l.level \in 0..Burst /\ l.count \in 0..max_requests
       /\ Len(l.stamps) <= max_requests

(* n requests spread over time t are within what the algorithm promises: the *)
(* burst and what comes back in t for the buckets, max_requests within every *)
(* window for the sliding log, and twice that for the fixed window, whose    *)
(* end and beginning may be used up together.                                *)
Promised(n, t) ==
  CASE algorithm \in {"TOKEN_BUCKET", "LEAKY_BUCKET"} -> Cost * n <= Burst + Rate * t
    [] algorithm = "FIXED_WINDOW" ->
         n <= max_requests * (IF t = 0 THEN 1 ELSE 2 + (t - 1) \div Window)
    [] algorithm = "SLIDING_WINDOW_LOG" -> t <= Window => n <= max_requests

(* Between any two admitted requests no more were admitted than the          *)
(* algorithm promises for that long, whoever asked and however refills, new  *)
(* clients and requests interleave.                                          *)
RateWithinLimit ==
  \A i, j \in DOMAIN log : i <= j => Promised(j - i + 1, log[j].time - log[i].time)
=============================================================================
