------------------------------ MODULE AuthProxy ------------------------------
(***************************************************************************)
(* Requests of one user through esmauth: the concurrency limiters, the     *)
(* choice of a backend, the attempts, and reloads of the configuration     *)
(* (esmauth/src/lib.rs, esm-auth/src/balance.rs and proxy.rs,              *)
(* esm-common/src/limiter.rs).                                             *)
(*                                                                         *)
(* A reload starts another generation, with its own pool of backends and   *)
(* its own limiter of the user; a request stays with the generation it     *)
(* began in.  The global limiter outlives the generations.                 *)
(***************************************************************************)
EXTENDS Integers, FiniteSets

CONSTANTS
  Requests,       \* requests, each served by a thread of its own
  NBackends,      \* backends of the user's route
  Policies,       \* the load balancing policies to check
  GlobalCap,      \* -maxConcurrentRequests
  UserCap,        \* per generation: max_concurrent_requests of the user
  FailTimeout,    \* -failTimeout
  MaxClock,       \* bound on the clock
  MaxAuthReloads  \* bound on the reloads

ASSUME AuthAssumption ==
  /\ NBackends \in Nat \ {0} /\ Policies \subseteq {"first_available", "least_loaded"}
  /\ GlobalCap \in Nat \ {0} /\ FailTimeout \in Nat /\ MaxClock \in Nat /\ MaxAuthReloads \in Nat
  /\ UserCap \in [0..MaxAuthReloads -> Nat \ {0}]

Backends    == 0..NBackends - 1
Generations == 0..MaxAuthReloads

VARIABLES
  policy,      \* of the pools
  clock,
  generation,  \* the current one
  pools,       \* per generation: in_flight and broken_until of the backends, and the counter n
  globalHeld,  \* permits of the global limiter in use
  userHeld,    \* per generation: permits of the user's limiter in use
  requests     \* per request: where it is

authVars == <<policy, clock, generation, pools, globalHeld, userHeld, requests>>

NoBackend == -1

\* i, n and min are the variables of the selection; disturbed is history: a backend was marked
\* broken while the selection was under way.
NewRequest ==
  [pc |-> "new", gen |-> 0, canRetry |-> FALSE, attempts |-> 0, tried |-> {}, backend |-> NoBackend,
   now |-> 0, i |-> 0, n |-> 0, min |-> 0, minRequests |-> 0, disturbed |-> FALSE, outcome |-> "none"]

Outcomes == {"Success", "ClientCanceled", "ConnectError", "RetryStatus"}

\* The type of every variable; a request has a backend exactly while it holds it or acts on the outcome.
AuthTypeOK ==
  /\ policy \in Policies /\ clock \in 0..MaxClock /\ generation \in Generations
  /\ \A g \in Generations :
       /\ DOMAIN pools[g].inFlight = Backends /\ \A b \in Backends : pools[g].inFlight[b] \in Nat
       /\ \A b \in Backends : pools[g].brokenUntil[b] \in 0..MaxClock + FailTimeout
       /\ pools[g].n \in Nat
  /\ globalHeld \in Nat /\ userHeld \in [Generations -> Nat]
  /\ \A r \in Requests :
       /\ requests[r].gen \in 0..generation /\ requests[r].now \in 0..clock
       /\ requests[r].tried \subseteq Backends /\ requests[r].min \in Backends
       /\ requests[r].attempts \in 0..NBackends
       /\ requests[r].backend # NoBackend <=> requests[r].pc \in {"settle", "send", "outcome"}

AuthInit ==
  /\ policy \in Policies /\ clock = 0 /\ generation = 0
  /\ pools = [g \in Generations |-> [inFlight |-> [b \in Backends |-> 0],
                                     brokenUntil |-> [b \in Backends |-> 0], n |-> 0]]
  /\ globalHeld = 0 /\ userHeld = [g \in Generations |-> 0]
  /\ requests = [r \in Requests |-> NewRequest]

----------------------------------------------------------------------------
(* request_handler: the generation and the permits.                        *)

Goto(r, pc) == requests' = [requests EXCEPT ![r].pc = pc]

\* The user is found in the current generation.
request_handler(r) ==
  /\ requests[r].pc = "new"
  /\ requests' = [requests EXCEPT ![r].pc = "global", ![r].gen = generation]
  /\ UNCHANGED <<policy, clock, generation, pools, globalHeld, userHeld>>

AcquireGlobal(r) ==
  /\ requests[r].pc = "global" /\ globalHeld < GlobalCap
  /\ globalHeld' = globalHeld + 1 /\ Goto(r, "user")
  /\ UNCHANGED <<policy, clock, generation, pools, userHeld>>

AcquireUser(r) ==
  /\ requests[r].pc = "user" /\ userHeld[requests[r].gen] < UserCap[requests[r].gen]
  /\ userHeld' = [userHeld EXCEPT ![requests[r].gen] = @ + 1] /\ Goto(r, "proxy")
  /\ UNCHANGED <<policy, clock, generation, pools, globalHeld>>

\* The permits go out of scope.
DropPermits(r) ==
  /\ globalHeld' = globalHeld - 1
  /\ userHeld' = [userHeld EXCEPT ![requests[r].gen] = @ - 1]

\* No permit has become free in time: 429.
LimitGlobal(r) ==
  /\ requests[r].pc = "global" /\ globalHeld >= GlobalCap /\ Goto(r, "429")
  /\ UNCHANGED <<policy, clock, generation, pools, globalHeld, userHeld>>

\* Mutant: the global permit is kept.
LimitUser_Keep(r) ==
  /\ requests[r].pc = "user" /\ userHeld[requests[r].gen] >= UserCap[requests[r].gen] /\ Goto(r, "429")
  /\ UNCHANGED <<policy, clock, generation, pools, globalHeld, userHeld>>

LimitUser(r) ==
  /\ requests[r].pc = "user" /\ userHeld[requests[r].gen] >= UserCap[requests[r].gen] /\ Goto(r, "429")
  /\ globalHeld' = globalHeld - 1
  /\ UNCHANGED <<policy, clock, generation, pools, userHeld>>

\* The route has no match (400), or the body is too large (413) or cannot be read (400).
ProxyRefuses(r) ==
  /\ requests[r].pc = "proxy" /\ \E code \in {"400", "413"} : Goto(r, code)
  /\ DropPermits(r)
  /\ UNCHANGED <<policy, clock, generation, pools>>

\* The body has been read; whether it can be sent again depends on its size.
read_buffered_body(r) ==
  /\ requests[r].pc = "proxy"
  /\ \E small \in BOOLEAN : requests' = [requests EXCEPT ![r].pc = "select", ![r].canRetry = small]
  /\ UNCHANGED <<policy, clock, generation, pools, globalHeld, userHeld>>

----------------------------------------------------------------------------
(* BackendPool::select.  Every atomic operation on a backend is a step.    *)

Pool(r) == pools[requests[r].gen]

\* is_broken(now), for the now of the selection.
Broken(r, b) == requests[r].now < Pool(r).brokenUntil[b]

\* Mutant: the backend that the exchange has taken is acquired once more.
Acquired_Twice(r, b) == [pools EXCEPT ![requests[r].gen].inFlight[b] = @ + 2]

\* Backend b is acquired by r.
Acquired(r, b) == [pools EXCEPT ![requests[r].gen].inFlight[b] = @ + 1]

Picks(r, b, pc) ==
  /\ pools' = Acquired(r, b)
  /\ requests' = [requests EXCEPT ![r].backend = b, ![r].pc = pc]

\* least_loaded takes a ticket, unless there is one backend only.
select(r) ==
  /\ requests[r].pc = "select"
  /\ LET ticket == policy = "least_loaded" /\ NBackends > 1 IN
     /\ requests' = [requests EXCEPT ![r] = [@ EXCEPT
          !.pc = IF ticket THEN "fast" ELSE "first", !.now = clock, !.i = 0, !.disturbed = FALSE,
          !.n = IF ticket THEN Pool(r).n ELSE 0]]
     /\ pools' = IF ticket THEN [pools EXCEPT ![requests[r].gen].n = @ + 1] ELSE pools
  /\ UNCHANGED <<policy, clock, generation, globalHeld, userHeld>>

\* The first backend that is not broken, else the first one.  With a single backend that is the one.
get_first_available_backend(r) ==
  /\ requests[r].pc = "first"
  /\ LET i == requests[r].i IN
     IF i < NBackends /\ Broken(r, i)
     THEN requests' = [requests EXCEPT ![r].i = i + 1] /\ UNCHANGED pools
     ELSE Picks(r, i % NBackends, "send")
  /\ UNCHANGED <<policy, clock, generation, globalHeld, userHeld>>

\* The i-th backend from the ticket on.
Nth(r, i) == (requests[r].n + i) % NBackends

\* The fast path: a backend that is idle and not broken.  When there is none, the slow path starts
\* with the first one from the ticket on.
FastPath(r) ==
  /\ requests[r].pc = "fast"
  /\ LET i == requests[r].i
         b == Nth(r, i)
     IN
     IF i = NBackends
     THEN /\ requests' = [requests EXCEPT ![r] = [@ EXCEPT !.pc = "slow", !.i = 1,
                            !.min = Nth(r, 0), !.minRequests = Pool(r).inFlight[Nth(r, 0)]]]
          /\ UNCHANGED pools
     ELSE \/ ~Broken(r, b) /\ Pool(r).inFlight[b] = 0 /\ Picks(r, b, "settle")
          \/ /\ Broken(r, b) \/ Pool(r).inFlight[b] # 0
             /\ requests' = [requests EXCEPT ![r].i = i + 1] /\ UNCHANGED pools
  /\ UNCHANGED <<policy, clock, generation, globalHeld, userHeld>>

\* Mutant: the first backend from the ticket on is not given up when it is broken.
Better_Fewer(r, b) == ~Broken(r, b) /\ Pool(r).inFlight[b] < requests[r].minRequests

\* Whether the slow path prefers b to what it has.
Better(r, b) ==
  ~Broken(r, b) /\ (Pool(r).inFlight[b] < requests[r].minRequests \/ Broken(r, requests[r].min))

\* The slow path: the backend with the fewest requests; when that is broken, the first one.
SlowPath(r) ==
  /\ requests[r].pc = "slow"
  /\ LET i == requests[r].i
         b == Nth(r, i)
     IN
     \/ /\ i < NBackends /\ Better(r, b)
        /\ requests' = [requests EXCEPT ![r] = [@ EXCEPT !.i = i + 1, !.min = b,
                                                !.minRequests = Pool(r).inFlight[b]]]
        /\ UNCHANGED pools
     \/ /\ i < NBackends /\ ~Better(r, b)
        /\ requests' = [requests EXCEPT ![r].i = i + 1] /\ UNCHANGED pools
     \/ i = NBackends /\ Broken(r, requests[r].min) /\ Picks(r, 0, "send")
     \/ i = NBackends /\ ~Broken(r, requests[r].min) /\ Picks(r, requests[r].min, "settle")
  /\ UNCHANGED <<policy, clock, generation, globalHeld, userHeld>>

\* The counter goes on after the backend, unless someone else has taken a ticket meanwhile.
AdvanceCounter(r) ==
  /\ requests[r].pc = "settle" /\ Goto(r, "send")
  /\ pools' = [pools EXCEPT ![requests[r].gen].n =
                 IF @ = requests[r].n + 1 THEN requests[r].backend + 1 ELSE @]
  /\ UNCHANGED <<policy, clock, generation, globalHeld, userHeld>>

----------------------------------------------------------------------------
(* Proxy::proxy: the attempts.                                             *)

\* The backend has answered or not, and is released.
attempt(r, outcome) ==
  /\ requests[r].pc = "send"
  /\ pools' = [pools EXCEPT ![requests[r].gen].inFlight[requests[r].backend] = @ - 1]
  /\ requests' = [requests EXCEPT ![r].pc = "outcome", ![r].outcome = outcome, ![r].attempts = @ + 1,
                                  ![r].tried = @ \cup {requests[r].backend}]
  /\ UNCHANGED <<policy, clock, generation, globalHeld, userHeld>>

\* Backend b of generation g is broken from now on; the selections under way are disturbed.
set_broken(g, b) ==
  pools' = [pools EXCEPT ![g].brokenUntil[b] = clock + FailTimeout]

Disturb(g, f) ==
  [q \in Requests |-> IF f[q].gen = g /\ f[q].pc \in {"first", "fast", "slow"}
                      THEN [f[q] EXCEPT !.disturbed = TRUE] ELSE f[q]]

\* Mutant: the request keeps its backend.
Answers_Keep(r, code) == [requests EXCEPT ![r].pc = code]

Answers(r, code) == [requests EXCEPT ![r].pc = code, ![r].backend = NoBackend]

\* The request is over: it has been answered, or its client is gone.
RequestEnds(r) ==
  /\ requests[r].pc = "outcome" /\ requests[r].outcome \in {"Success", "ClientCanceled"}
  /\ requests' = Answers(r, "answered") /\ DropPermits(r)
  /\ UNCHANGED <<policy, clock, generation, pools>>

\* Mutant: the body is sent again whatever its size.
MayRetry_Any(r) == TRUE

\* Whether the body is still there for another attempt.
MayRetry(r) == requests[r].canRetry

\* The attempt has failed and cannot be repeated: 503.  An answered status code leaves the backend as it is.
NoRetry(r) ==
  /\ requests[r].pc = "outcome" /\ requests[r].outcome \in {"ConnectError", "RetryStatus"} /\ ~MayRetry(r)
  /\ IF requests[r].outcome = "ConnectError"
     THEN /\ set_broken(requests[r].gen, requests[r].backend)
          /\ requests' = Disturb(requests[r].gen, Answers(r, "503"))
     ELSE requests' = Answers(r, "503") /\ UNCHANGED pools
  /\ DropPermits(r)
  /\ UNCHANGED <<policy, clock, generation>>

\* The attempt has failed and there is another one, or none is left: 502.
Retry(r) ==
  /\ requests[r].pc = "outcome" /\ requests[r].outcome \in {"ConnectError", "RetryStatus"} /\ MayRetry(r)
  /\ set_broken(requests[r].gen, requests[r].backend)
  /\ LET last == requests[r].attempts = NBackends IN
     /\ requests' = Disturb(requests[r].gen, Answers(r, IF last THEN "502" ELSE "select"))
     /\ IF last THEN DropPermits(r) ELSE UNCHANGED <<globalHeld, userHeld>>
  /\ UNCHANGED <<policy, clock, generation>>

\* Reloader::reload.  A configuration that cannot be read changes nothing.
reload_auth ==
  /\ generation < MaxAuthReloads /\ generation' = generation + 1
  /\ UNCHANGED <<policy, clock, pools, globalHeld, userHeld, requests>>

TimePasses ==
  /\ clock < MaxClock /\ clock' = clock + 1
  /\ UNCHANGED <<policy, generation, pools, globalHeld, userHeld, requests>>

AuthNext ==
  \/ \E r \in Requests :
       \/ request_handler(r) \/ AcquireGlobal(r) \/ LimitGlobal(r) \/ AcquireUser(r) \/ LimitUser(r)
       \/ ProxyRefuses(r) \/ read_buffered_body(r)
       \/ select(r) \/ get_first_available_backend(r) \/ FastPath(r) \/ SlowPath(r) \/ AdvanceCounter(r)
       \/ \E o \in Outcomes : attempt(r, o)
       \/ RequestEnds(r) \/ NoRetry(r) \/ Retry(r)
  \/ reload_auth \/ TimePasses

AuthSpec == AuthInit /\ [][AuthNext]_authVars

----------------------------------------------------------------------------
(* What makes the proxy correct.                                           *)

\* in_flight of a backend counts the requests that hold it, whatever generation is current.
InFlightAccounted ==
  \A g \in Generations, b \in Backends :
    pools[g].inFlight[b] =
      Cardinality({r \in Requests : requests[r].gen = g /\ requests[r].backend = b
                                    /\ requests[r].pc \in {"settle", "send"}})

AtWork(r)   == requests[r].pc \in {"proxy", "select", "first", "fast", "slow", "settle", "send", "outcome"}
HasGlobal(r) == requests[r].pc = "user" \/ AtWork(r)

\* The limiters count the requests they have let in, every way out gives the permits back, and
\* neither limit is exceeded within a generation.
LimitsKept ==
  /\ globalHeld = Cardinality({r \in Requests : HasGlobal(r)}) /\ globalHeld <= GlobalCap
  /\ \A g \in Generations :
       /\ userHeld[g] = Cardinality({r \in Requests : requests[r].gen = g /\ AtWork(r)})
       /\ userHeld[g] <= UserCap[g]

\* A body that does not fit the buffer for retries is sent once; others once per backend, and 502
\* is the answer to no fewer attempts than that.
NoResend ==
  \A r \in Requests :
    /\ ~requests[r].canRetry => requests[r].attempts <= 1
    /\ requests[r].pc = "502" => requests[r].attempts = NBackends

\* A selection that no marking disturbs gives a broken backend only when all are broken.
HealthyPreferred ==
  [][\A r \in Requests :
       LET b == requests'[r].backend IN
       requests[r].backend = NoBackend /\ b # NoBackend /\ ~requests[r].disturbed /\ Broken(r, b) =>
         \A c \in Backends : Broken(r, c)]_authVars

\* What the answer 502 says: every backend is unavailable, that is, has failed this request or is
\* marked broken.
UnavailableMeansAll ==
  \A r \in Requests : requests[r].pc = "502" =>
    \A b \in Backends : b \in requests[r].tried \/ clock < Pool(r).brokenUntil[b]

\* Counts and permits match the requests under way, over retries, limits and reloads, and no
\* request is sent to a second backend once its body is used up (acquire, proxy_request).
AuthSound == AuthTypeOK /\ InFlightAccounted /\ LimitsKept /\ NoResend
=============================================================================
