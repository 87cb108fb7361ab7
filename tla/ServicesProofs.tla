--------------------------- MODULE ServicesProofs ---------------------------
(***************************************************************************)
(* Proofs about the components of MCServices, for all requests, backends,  *)
(* files, targets, rules and bounds: the auth proxy, backup and restore,   *)
(* the scrape manager, and alerting.  They share no variable, so each has  *)
(* theorems of its own specification.                                      *)
(***************************************************************************)
EXTENDS Alerting, AuthProxy, BackupRestore, ScrapeManager, FiniteSetTheorems, TLAPS

----------------------------------------------------------------------------
(* AuthProxy: permits, backends and attempts.                              *)

RequestPcs ==
  {"new", "global", "user", "proxy", "select", "first", "fast", "slow", "settle", "send", "outcome",
   "answered", "400", "413", "429", "502", "503"}

PoolType ==
  [inFlight : [Backends -> Nat], brokenUntil : [Backends -> 0..MaxClock + FailTimeout], n : Nat]

RequestType ==
  [pc : RequestPcs, gen : Generations, canRetry : BOOLEAN, attempts : Nat, tried : SUBSET Backends,
   backend : Backends \cup {NoBackend}, now : Nat, i : Nat, n : Nat, min : Backends,
   minRequests : Nat, disturbed : BOOLEAN, outcome : Outcomes \cup {"none"}]

\* The variables but the requests.
AuthTyped ==
  /\ policy \in Policies /\ clock \in 0..MaxClock /\ generation \in Generations
  /\ pools \in [Generations -> PoolType]
  /\ globalHeld \in Nat /\ userHeld \in [Generations -> Nat]

\* How far a request has come, and what it may still do.
InOrder(r) ==
    LET q == requests[r] IN
    /\ q.gen <= generation /\ q.now <= clock
    /\ q.backend # NoBackend <=> q.pc \in {"settle", "send", "outcome"}
    /\ q.attempts <= NBackends
    /\ q.pc \in {"new", "global", "user", "proxy"} => q.attempts = 0
    /\ q.pc \in {"select", "first", "fast", "slow", "settle", "send"} =>
         q.attempts < NBackends /\ (~q.canRetry => q.attempts = 0)
    /\ q.pc \in {"first", "fast", "slow"} => q.i <= NBackends
    /\ q.pc = "outcome" => q.outcome \in Outcomes
    /\ ~q.canRetry => q.attempts <= 1
    /\ q.pc = "502" => q.attempts = NBackends

RequestsInOrder == \A r \in Requests : InOrder(r)

\* n counts the finite set S.
Counts(n, S) == IsFiniteSet(S) /\ n = Cardinality(S)

GlobalHolders    == {r \in Requests : HasGlobal(r)}
UserHolders(g)   == {r \in Requests : requests[r].gen = g /\ AtWork(r)}
HoldersOf(g, b)  == {r \in Requests : requests[r].gen = g /\ requests[r].backend = b
                                      /\ requests[r].pc \in {"settle", "send"}}

PermitsCounted ==
  /\ Counts(globalHeld, GlobalHolders) /\ globalHeld <= GlobalCap
  /\ \A g \in Generations : Counts(userHeld[g], UserHolders(g)) /\ userHeld[g] <= UserCap[g]

BackendsCounted ==
  \A g \in Generations, b \in Backends : Counts(pools[g].inFlight[b], HoldersOf(g, b))

\* What a selection that no marking has disturbed knows of the backends it has passed.
SelectionSound(r) ==
  ~requests[r].disturbed =>
    /\ requests[r].pc = "first" => \A j \in Nat : j < requests[r].i => Broken(r, j)
    /\ requests[r].pc = "slow" /\ Broken(r, requests[r].min) =>
         \A j \in Nat : j < requests[r].i => Broken(r, Nth(r, j))

SelectionsSound == \A r \in Requests : SelectionSound(r)

AuthInv ==
  /\ AuthTyped /\ requests \in [Requests -> RequestType] /\ RequestsInOrder
  /\ PermitsCounted /\ BackendsCounted /\ SelectionsSound

\* The remainder names a backend.
LEMMA ModInRange ==
  \A a \in Nat : a % NBackends \in Backends
BY AuthAssumption DEF Backends

\* A multiple of the number of backends is no offset.
LEMMA ModPeriod ==
  ASSUME NEW q \in Nat, NEW c \in Backends
  PROVE (q * NBackends + c) % NBackends = c
BY AuthAssumption DEF Backends

\* Round robin from any start meets every backend within one round.
LEMMA EveryBackend ==
  ASSUME NEW n \in Nat, NEW c \in Backends
  PROVE \E j \in Nat : j < NBackends /\ (n + j) % NBackends = c
<1> DEFINE q == n \div NBackends
           m == n % NBackends
<1>1. q \in Nat /\ m \in Nat /\ m < NBackends /\ n = q * NBackends + m
  BY AuthAssumption
<1>2. NBackends \in Nat /\ c \in Nat /\ c < NBackends
  BY AuthAssumption DEF Backends
<1> HIDE DEF q, m
<1>3. CASE c >= m
  <2>1. c - m \in Nat /\ c - m < NBackends /\ n + (c - m) = q * NBackends + c
    BY <1>1, <1>2, <1>3
  <2> QED BY <2>1, <1>1, ModPeriod
<1>4. CASE c < m
  <2>1. q + 1 \in Nat /\ (q + 1) * NBackends = q * NBackends + NBackends
    BY <1>1, <1>2
  <2>2. c + NBackends - m \in Nat /\ c + NBackends - m < NBackends
        /\ n + (c + NBackends - m) = (q + 1) * NBackends + c
    BY <1>1, <1>2, <1>4, <2>1
  <2> QED BY <2>1, <2>2, ModPeriod
<1> QED BY <1>1, <1>2, <1>3, <1>4

\* A counter goes up with its set.
LEMMA CountIn ==
  ASSUME NEW S, NEW x, NEW n, Counts(n, S), x \notin S
  PROVE  Counts(n + 1, S \cup {x})
BY FS_AddElement DEF Counts

\* A counter goes down with its set.
LEMMA CountOut ==
  ASSUME NEW S, NEW x, NEW n, Counts(n, S), x \in S
  PROVE  Counts(n - 1, S \ {x})
BY FS_RemoveElement DEF Counts

\* Every request but r is where it was; it may have been disturbed.
OthersStay(r) ==
  \A q \in Requests \ {r} :
    requests'[q] = requests[q] \/ requests'[q] = [requests[q] EXCEPT !.disturbed = TRUE]

\* The parts of the state that permits and backends are counted by.
LEMMA OthersPlaces ==
  ASSUME requests \in [Requests -> RequestType], NEW r \in Requests, OthersStay(r)
  PROVE  \A q \in Requests \ {r} :
           /\ requests'[q] \in RequestType
           /\ requests'[q].pc = requests[q].pc /\ requests'[q].gen = requests[q].gen
           /\ requests'[q].backend = requests[q].backend /\ requests'[q].now = requests[q].now
           /\ requests'[q].attempts = requests[q].attempts /\ requests'[q].canRetry = requests[q].canRetry
           /\ requests'[q].i = requests[q].i /\ requests'[q].n = requests[q].n
           /\ requests'[q].min = requests[q].min /\ requests'[q].outcome = requests[q].outcome
<1> SUFFICES ASSUME NEW q \in Requests \ {r}
             PROVE  /\ requests'[q] \in RequestType
                    /\ requests'[q].pc = requests[q].pc /\ requests'[q].gen = requests[q].gen
                    /\ requests'[q].backend = requests[q].backend /\ requests'[q].now = requests[q].now
                    /\ requests'[q].attempts = requests[q].attempts /\ requests'[q].canRetry = requests[q].canRetry
                    /\ requests'[q].i = requests[q].i /\ requests'[q].n = requests[q].n
                    /\ requests'[q].min = requests[q].min /\ requests'[q].outcome = requests[q].outcome
  OBVIOUS
<1>1. requests[q] \in RequestType
  OBVIOUS
<1>2. CASE requests'[q] = requests[q]
  BY <1>1, <1>2
<1>3. CASE requests'[q] = [requests[q] EXCEPT !.disturbed = TRUE]
  BY <1>1, <1>3 DEF RequestType
<1> QED BY <1>2, <1>3 DEF OthersStay

\* What a step of r does to the permits: nothing, take one, or return it.
GlobalMoves(r) ==
  \/ (HasGlobal(r)' <=> HasGlobal(r)) /\ globalHeld' = globalHeld
  \/ HasGlobal(r)' /\ ~HasGlobal(r) /\ globalHeld < GlobalCap /\ globalHeld' = globalHeld + 1
  \/ HasGlobal(r) /\ ~HasGlobal(r)' /\ globalHeld' = globalHeld - 1

UserTaken(r) ==
  /\ AtWork(r)' /\ ~AtWork(r) /\ userHeld[requests[r].gen] < UserCap[requests[r].gen]
  /\ userHeld' = [userHeld EXCEPT ![requests[r].gen] = @ + 1] /\ requests'[r].gen = requests[r].gen

UserReturned(r) ==
  AtWork(r) /\ ~AtWork(r)' /\ userHeld' = [userHeld EXCEPT ![requests[r].gen] = @ - 1]

UserKept(r) ==
  /\ AtWork(r)' <=> AtWork(r)
  /\ AtWork(r) => requests'[r].gen = requests[r].gen
  /\ userHeld' = userHeld

\* The limiters count the requests that hold their permits.
LEMMA PermitsStep ==
  ASSUME AuthInv, NEW r \in Requests, OthersStay(r), GlobalMoves(r),
         UserKept(r) \/ UserTaken(r) \/ UserReturned(r)
  PROVE  PermitsCounted' /\ globalHeld' \in Nat /\ userHeld' \in [Generations -> Nat]
<1>1. \A q \in Requests \ {r} : /\ HasGlobal(q)' <=> HasGlobal(q)
                                /\ AtWork(q)' <=> AtWork(q)
                                /\ requests'[q].gen = requests[q].gen
  BY OthersPlaces DEF AuthInv, HasGlobal, AtWork
<1>2. /\ Counts(globalHeld, GlobalHolders) /\ globalHeld <= GlobalCap /\ globalHeld \in Nat
      /\ GlobalCap \in Nat /\ Generations \subseteq Nat
      /\ userHeld \in [Generations -> Nat] /\ UserCap \in [Generations -> Nat]
      /\ \A g \in Generations : Counts(userHeld[g], UserHolders(g)) /\ userHeld[g] <= UserCap[g]
      /\ requests[r].gen \in Generations
  BY AuthAssumption DEF AuthInv, PermitsCounted, AuthTyped, RequestType, Generations
<1>3. Counts(globalHeld', GlobalHolders') /\ globalHeld' <= GlobalCap /\ globalHeld' \in Nat
  <2>1. CASE (HasGlobal(r)' <=> HasGlobal(r)) /\ globalHeld' = globalHeld
    <3>1. GlobalHolders' = GlobalHolders
      BY <1>1, <2>1 DEF GlobalHolders
    <3> QED BY <3>1, <2>1, <1>2
  <2>2. CASE HasGlobal(r)' /\ ~HasGlobal(r) /\ globalHeld < GlobalCap /\ globalHeld' = globalHeld + 1
    <3>1. GlobalHolders' = GlobalHolders \cup {r} /\ r \notin GlobalHolders
      BY <1>1, <2>2 DEF GlobalHolders
    <3>2. Counts(globalHeld + 1, GlobalHolders \cup {r})
      BY <3>1, <1>2, CountIn
    <3> QED BY <3>1, <3>2, <2>2, <1>2
  <2>3. CASE HasGlobal(r) /\ ~HasGlobal(r)' /\ globalHeld' = globalHeld - 1
    <3>1. GlobalHolders' = GlobalHolders \ {r} /\ r \in GlobalHolders
      BY <1>1, <2>3 DEF GlobalHolders
    <3>2. Counts(globalHeld - 1, GlobalHolders \ {r})
      BY <3>1, <1>2, CountOut
    <3>3. globalHeld - 1 \in Nat
      BY <3>2, FS_CardinalityType DEF Counts
    <3> QED BY <3>1, <3>2, <3>3, <2>3, <1>2
  <2> QED BY <2>1, <2>2, <2>3 DEF GlobalMoves
<1>4. /\ \A g \in Generations : Counts(userHeld'[g], UserHolders(g)') /\ userHeld'[g] <= UserCap[g]
      /\ userHeld' \in [Generations -> Nat]
  <2>1. CASE UserKept(r)
    <3>1. \A g \in Generations : UserHolders(g)' = UserHolders(g)
      BY <1>1, <2>1 DEF UserHolders, UserKept
    <3> QED BY <3>1, <2>1, <1>2 DEF UserKept
  <2>2. CASE UserTaken(r)
    <3>0. PICK h \in Generations : h = requests[r].gen
      BY <1>2
    <3>1. UserHolders(h)' = UserHolders(h) \cup {r} /\ r \notin UserHolders(h)
      BY <1>1, <2>2, <3>0 DEF UserHolders, UserTaken
    <3>2. \A g \in Generations \ {h} : UserHolders(g)' = UserHolders(g)
      BY <1>1, <2>2, <3>0 DEF UserHolders, UserTaken
    <3>3. /\ userHeld'[h] = userHeld[h] + 1 /\ \A g \in Generations \ {h} : userHeld'[g] = userHeld[g]
          /\ userHeld' \in [Generations -> Nat]
      BY <2>2, <1>2, <3>0 DEF UserTaken
    <3>4. Counts(userHeld[h] + 1, UserHolders(h) \cup {r})
      BY <3>1, <1>2, CountIn
    <3>5. userHeld[h] + 1 <= UserCap[h]
      BY <2>2, <1>2, <3>0 DEF UserTaken
    <3> QED BY <3>1, <3>2, <3>3, <3>4, <3>5, <1>2
  <2>3. CASE UserReturned(r)
    <3>0. PICK h \in Generations : h = requests[r].gen
      BY <1>2
    <3>1. UserHolders(h)' = UserHolders(h) \ {r} /\ r \in UserHolders(h)
      BY <1>1, <2>3, <3>0 DEF UserHolders, UserReturned
    <3>2. \A g \in Generations \ {h} : UserHolders(g)' = UserHolders(g)
      BY <1>1, <2>3, <3>0 DEF UserHolders, UserReturned
    <3>4. Counts(userHeld[h] - 1, UserHolders(h) \ {r})
      BY <3>1, <1>2, CountOut
    <3>5. userHeld[h] - 1 \in Nat
      BY <3>4, FS_CardinalityType DEF Counts
    <3>3. /\ userHeld'[h] = userHeld[h] - 1 /\ \A g \in Generations \ {h} : userHeld'[g] = userHeld[g]
          /\ userHeld' \in [Generations -> Nat]
      BY <2>3, <1>2, <3>0, <3>5 DEF UserReturned
    <3>6. userHeld[h] - 1 <= UserCap[h]
      BY <1>2
    <3> QED BY <3>1, <3>2, <3>3, <3>4, <3>6, <1>2
  <2> QED BY <2>1, <2>2, <2>3
<1> QED BY <1>3, <1>4 DEF PermitsCounted

\* What a step of r does to the backends it may hold: nothing, take b, or return its own.
BackendKept(r) ==
  /\ requests'[r].pc \in {"settle", "send"} <=> requests[r].pc \in {"settle", "send"}
  /\ requests[r].pc \in {"settle", "send"} =>
       requests'[r].gen = requests[r].gen /\ requests'[r].backend = requests[r].backend
  /\ \A g \in Generations : pools'[g].inFlight = pools[g].inFlight

BackendTaken(r) ==
  LET g == requests[r].gen  b == requests'[r].backend IN
  /\ requests[r].pc \notin {"settle", "send"} /\ requests'[r].pc \in {"settle", "send"}
  /\ requests'[r].gen = g /\ b \in Backends
  /\ pools' = [pools EXCEPT ![g].inFlight[b] = @ + 1]

BackendReturned(r) ==
  LET g == requests[r].gen  b == requests[r].backend IN
  /\ requests[r].pc \in {"settle", "send"} /\ requests'[r].pc \notin {"settle", "send"}
  /\ pools' = [pools EXCEPT ![g].inFlight[b] = @ - 1]

\* Every backend counts the requests that are with it.
LEMMA BackendsStep ==
  ASSUME AuthInv, NEW r \in Requests, OthersStay(r),
         BackendKept(r) \/ BackendTaken(r) \/ BackendReturned(r)
  PROVE  BackendsCounted'
<1>1. \A q \in Requests \ {r} : /\ requests'[q].pc = requests[q].pc
                                /\ requests'[q].backend = requests[q].backend
                                /\ requests'[q].gen = requests[q].gen
  BY OthersPlaces DEF AuthInv
<1>2. /\ \A g \in Generations, b \in Backends : Counts(pools[g].inFlight[b], HoldersOf(g, b))
      /\ requests[r].gen \in Generations /\ requests[r].pc \in {"settle", "send"} => requests[r].backend \in Backends
      /\ pools \in [Generations -> PoolType]
  BY DEF AuthInv, BackendsCounted, AuthTyped, RequestType, RequestsInOrder, InOrder
<1>3. SUFFICES ASSUME NEW g \in Generations, NEW b \in Backends
               PROVE  Counts(pools'[g].inFlight[b], HoldersOf(g, b)')
  BY DEF BackendsCounted
<1>4. CASE BackendKept(r)
  <2>1. HoldersOf(g, b)' = HoldersOf(g, b)
    BY <1>1, <1>4 DEF BackendKept, HoldersOf
  <2> QED BY <2>1, <1>2, <1>4 DEF BackendKept
<1>5. CASE BackendTaken(r)
  <2>1. CASE g = requests[r].gen /\ b = requests'[r].backend
    <3>1. HoldersOf(g, b)' = HoldersOf(g, b) \cup {r} /\ r \notin HoldersOf(g, b)
      BY <1>1, <1>5, <2>1 DEF BackendTaken, HoldersOf
    <3>2. pools'[g].inFlight[b] = pools[g].inFlight[b] + 1
      BY <1>2, <1>5, <2>1 DEF BackendTaken, PoolType
    <3> QED BY <3>1, <3>2, <1>2, CountIn
  <2>2. CASE ~(g = requests[r].gen /\ b = requests'[r].backend)
    <3>1. HoldersOf(g, b)' = HoldersOf(g, b)
      BY <1>1, <1>5, <2>2 DEF BackendTaken, HoldersOf
    <3>2. pools'[g].inFlight[b] = pools[g].inFlight[b]
      BY <1>2, <1>5, <2>2 DEF BackendTaken, PoolType
    <3> QED BY <3>1, <3>2, <1>2
  <2> QED BY <2>1, <2>2
<1>6. CASE BackendReturned(r)
  <2>1. CASE g = requests[r].gen /\ b = requests[r].backend
    <3>1. HoldersOf(g, b)' = HoldersOf(g, b) \ {r} /\ r \in HoldersOf(g, b)
      BY <1>1, <1>6, <2>1 DEF BackendReturned, HoldersOf
    <3>2. pools'[g].inFlight[b] = pools[g].inFlight[b] - 1
      BY <1>2, <1>6, <2>1 DEF BackendReturned, PoolType
    <3> QED BY <3>1, <3>2, <1>2, CountOut
  <2>2. CASE ~(g = requests[r].gen /\ b = requests[r].backend)
    <3>1. HoldersOf(g, b)' = HoldersOf(g, b)
      BY <1>1, <1>6, <2>2 DEF BackendReturned, HoldersOf
    <3>2. pools'[g].inFlight[b] = pools[g].inFlight[b]
      BY <1>2, <1>6, <2>2 DEF BackendReturned, PoolType
    <3> QED BY <3>1, <3>2, <1>2
  <2> QED BY <2>1, <2>2
<1> QED BY <1>4, <1>5, <1>6

\* A selection under way sees the marks of its generation as before, or is disturbed.
MarksSeen(r) ==
  \A q \in Requests \ {r} :
    \/ pools'[requests[q].gen].brokenUntil = pools[requests[q].gen].brokenUntil
    \/ requests'[q].disturbed \/ requests[q].pc \notin {"first", "fast", "slow"}

\* What a step of r does to r itself.
StepOf(r) ==
  /\ requests' = [q \in Requests |-> requests'[q]] /\ requests'[r] \in RequestType
  /\ InOrder(r)' /\ SelectionSound(r)'
  /\ UNCHANGED <<policy, clock, generation>> /\ pools' \in [Generations -> PoolType]

\* A step of one request keeps the invariant, when it moves permits and counts consistently.
LEMMA RequestStep ==
  ASSUME AuthInv, NEW r \in Requests, OthersStay(r), MarksSeen(r), StepOf(r), GlobalMoves(r),
         UserKept(r) \/ UserTaken(r) \/ UserReturned(r),
         BackendKept(r) \/ BackendTaken(r) \/ BackendReturned(r)
  PROVE  AuthInv'
<1>1. PermitsCounted' /\ globalHeld' \in Nat /\ userHeld' \in [Generations -> Nat]
  BY PermitsStep
<1>2. BackendsCounted'
  BY BackendsStep
<1>3. AuthTyped'
  BY <1>1 DEF AuthInv, AuthTyped, StepOf
<1>4. \A q \in Requests \ {r} :
        /\ requests'[q] \in RequestType
        /\ requests'[q].pc = requests[q].pc /\ requests'[q].gen = requests[q].gen
        /\ requests'[q].backend = requests[q].backend /\ requests'[q].now = requests[q].now
        /\ requests'[q].attempts = requests[q].attempts /\ requests'[q].canRetry = requests[q].canRetry
        /\ requests'[q].i = requests[q].i /\ requests'[q].n = requests[q].n
        /\ requests'[q].min = requests[q].min /\ requests'[q].outcome = requests[q].outcome
  BY OthersPlaces DEF AuthInv
<1>5. requests' \in [Requests -> RequestType]
  BY <1>4 DEF StepOf
<1>6. RequestsInOrder'
  <2>1. \A q \in Requests \ {r} : InOrder(q) => InOrder(q)'
    BY <1>4 DEF StepOf, InOrder
  <2> QED BY <2>1 DEF AuthInv, RequestsInOrder, StepOf
<1>7. SelectionsSound'
  <2>1. SUFFICES ASSUME NEW q \in Requests \ {r}
                 PROVE  SelectionSound(q)'
    BY DEF SelectionsSound, StepOf
  <2>2. CASE requests'[q].disturbed
    BY <2>2 DEF SelectionSound
  <2>3. CASE requests[q].pc \notin {"first", "fast", "slow"}
    BY <2>3, <1>4 DEF SelectionSound
  <2>4. CASE /\ ~requests'[q].disturbed
             /\ pools'[requests[q].gen].brokenUntil = pools[requests[q].gen].brokenUntil
    <3>1. requests'[q] = requests[q]
      <4>1. requests[q] \in RequestType
        BY DEF AuthInv
      <4>2. requests'[q] # [requests[q] EXCEPT !.disturbed = TRUE]
        BY <2>4, <4>1 DEF RequestType
      <4> QED BY <4>2 DEF OthersStay
    <3>2. \A b : Broken(q, b)' <=> Broken(q, b)
      BY <3>1, <2>4 DEF Broken, Pool
    <3>3. \A j : Nth(q, j)' = Nth(q, j)
      BY <3>1 DEF Nth
    <3> QED BY <3>1, <3>2, <3>3 DEF SelectionSound, SelectionsSound, AuthInv
  <2> QED BY <2>2, <2>3, <2>4 DEF MarksSeen
<1> QED BY <1>1, <1>2, <1>3, <1>5, <1>6, <1>7 DEF AuthInv

\* A step that leaves the pools alone.
LEMMA AuthQuiet ==
  ASSUME AuthInv, pools' = pools
  PROVE  /\ pools' \in [Generations -> PoolType]
         /\ \A r \in Requests : MarksSeen(r)
         /\ \A r \in Requests : requests'[r].pc \notin {"settle", "send"} /\ requests[r].pc \notin {"settle", "send"}
              => BackendKept(r)
BY DEF AuthInv, AuthTyped, MarksSeen, BackendKept

\* A step of r that selects no backend.
LEMMA QuietStep ==
  ASSUME AuthInv, NEW r \in Requests, OthersStay(r), requests' = [q \in Requests |-> requests'[q]],
         requests'[r] \in RequestType, InOrder(r)', UNCHANGED <<policy, clock, generation, pools>>,
         requests[r].pc \notin {"settle", "send"},
         requests'[r].pc \notin {"first", "slow", "settle", "send"},
         GlobalMoves(r), UserKept(r) \/ UserTaken(r) \/ UserReturned(r)
  PROVE  AuthInv'
<1>1. SelectionSound(r)'
  BY DEF SelectionSound
<1>2. StepOf(r)
  BY <1>1, AuthQuiet DEF StepOf
<1>3. BackendKept(r) /\ MarksSeen(r)
  BY AuthQuiet
<1> QED BY <1>2, <1>3, RequestStep

\* The request enters the current generation.
LEMMA EnterStep ==
  ASSUME AuthInv, NEW r \in Requests, request_handler(r)
  PROVE  AuthInv'
<1>1. requests[r] \in RequestType /\ InOrder(r) /\ requests[r].pc = "new" /\ generation \in Generations
      /\ UNCHANGED <<policy, clock, generation, pools>>
  BY DEF AuthInv, AuthTyped, RequestsInOrder, request_handler
<1>2. /\ OthersStay(r) /\ requests' = [q \in Requests |-> requests'[q]]
      /\ requests'[r] \in RequestType /\ requests'[r].pc = "global"
      /\ requests'[r].gen = generation
      /\ requests'[r].attempts = requests[r].attempts
      /\ requests'[r].canRetry = requests[r].canRetry
      /\ requests'[r].backend = requests[r].backend
      /\ requests'[r].now = requests[r].now
  <2>1. PICK x : requests' = [requests EXCEPT ![r] = x] /\ x = [requests[r] EXCEPT !.pc = "global", !.gen = generation]
    BY DEF request_handler
  <2>2. x \in RequestType
    BY <2>1, <1>1 DEF RequestType, RequestPcs
  <2> QED BY <2>1, <2>2, <1>1 DEF AuthInv, OthersStay, RequestType
<1>3. InOrder(r)'
  BY <1>1, <1>2 DEF InOrder, Generations
<1>4. GlobalMoves(r)
  BY <1>1, <1>2 DEF GlobalMoves, HasGlobal, AtWork, request_handler
<1>5. UserKept(r)
  BY <1>1, <1>2 DEF UserKept, AtWork, request_handler
<1> QED BY <1>1, <1>2, <1>3, <1>4, <1>5, QuietStep

\* The permits: taken, or refused.
LEMMA GlobalStep ==
  ASSUME AuthInv, NEW r \in Requests, AcquireGlobal(r)
  PROVE  AuthInv'
<1>1. requests[r] \in RequestType /\ InOrder(r) /\ requests[r].pc = "global" /\ generation \in Generations
      /\ UNCHANGED <<policy, clock, generation, pools>>
  BY DEF AuthInv, AuthTyped, RequestsInOrder, AcquireGlobal, Goto
<1>2. /\ OthersStay(r) /\ requests' = [q \in Requests |-> requests'[q]]
      /\ requests'[r] \in RequestType /\ requests'[r].pc = "user"
      /\ requests'[r].gen = requests[r].gen
      /\ requests'[r].attempts = requests[r].attempts
      /\ requests'[r].canRetry = requests[r].canRetry
      /\ requests'[r].backend = requests[r].backend
      /\ requests'[r].now = requests[r].now
  <2>1. PICK x : requests' = [requests EXCEPT ![r] = x] /\ x = [requests[r] EXCEPT !.pc = "user"]
    BY DEF AcquireGlobal, Goto
  <2>2. x \in RequestType
    BY <2>1, <1>1 DEF RequestType, RequestPcs
  <2> QED BY <2>1, <2>2, <1>1 DEF AuthInv, OthersStay, RequestType
<1>3. InOrder(r)'
  BY <1>1, <1>2 DEF InOrder
<1>4. GlobalMoves(r)
  BY <1>1, <1>2 DEF GlobalMoves, HasGlobal, AtWork, AcquireGlobal
<1>5. UserKept(r)
  BY <1>1, <1>2 DEF UserKept, AtWork, AcquireGlobal, Goto
<1> QED BY <1>1, <1>2, <1>3, <1>4, <1>5, QuietStep

\* The user's permit.
LEMMA UserStep ==
  ASSUME AuthInv, NEW r \in Requests, AcquireUser(r)
  PROVE  AuthInv'
<1>1. requests[r] \in RequestType /\ InOrder(r) /\ requests[r].pc = "user" /\ generation \in Generations
      /\ UNCHANGED <<policy, clock, generation, pools>>
  BY DEF AuthInv, AuthTyped, RequestsInOrder, AcquireUser, Goto
<1>2. /\ OthersStay(r) /\ requests' = [q \in Requests |-> requests'[q]]
      /\ requests'[r] \in RequestType /\ requests'[r].pc = "proxy"
      /\ requests'[r].gen = requests[r].gen
      /\ requests'[r].attempts = requests[r].attempts
      /\ requests'[r].canRetry = requests[r].canRetry
      /\ requests'[r].backend = requests[r].backend
      /\ requests'[r].now = requests[r].now
  <2>1. PICK x : requests' = [requests EXCEPT ![r] = x] /\ x = [requests[r] EXCEPT !.pc = "proxy"]
    BY DEF AcquireUser, Goto
  <2>2. x \in RequestType
    BY <2>1, <1>1 DEF RequestType, RequestPcs
  <2> QED BY <2>1, <2>2, <1>1 DEF AuthInv, OthersStay, RequestType
<1>3. InOrder(r)'
  BY <1>1, <1>2 DEF InOrder
<1>4. GlobalMoves(r)
  BY <1>1, <1>2 DEF GlobalMoves, HasGlobal, AtWork, AcquireUser
<1>5. UserTaken(r)
  BY <1>1, <1>2 DEF UserTaken, AtWork, AcquireUser, Goto
<1> QED BY <1>1, <1>2, <1>3, <1>4, <1>5, QuietStep

\* No global permit.
LEMMA LimitGlobalStep ==
  ASSUME AuthInv, NEW r \in Requests, LimitGlobal(r)
  PROVE  AuthInv'
<1>1. requests[r] \in RequestType /\ InOrder(r) /\ requests[r].pc = "global" /\ generation \in Generations
      /\ UNCHANGED <<policy, clock, generation, pools>>
  BY DEF AuthInv, AuthTyped, RequestsInOrder, LimitGlobal, Goto
<1>2. /\ OthersStay(r) /\ requests' = [q \in Requests |-> requests'[q]]
      /\ requests'[r] \in RequestType /\ requests'[r].pc = "429"
      /\ requests'[r].gen = requests[r].gen
      /\ requests'[r].attempts = requests[r].attempts
      /\ requests'[r].canRetry = requests[r].canRetry
      /\ requests'[r].backend = requests[r].backend
      /\ requests'[r].now = requests[r].now
  <2>1. PICK x : requests' = [requests EXCEPT ![r] = x] /\ x = [requests[r] EXCEPT !.pc = "429"]
    BY DEF LimitGlobal, Goto
  <2>2. x \in RequestType
    BY <2>1, <1>1 DEF RequestType, RequestPcs
  <2> QED BY <2>1, <2>2, <1>1 DEF AuthInv, OthersStay, RequestType
<1>3. InOrder(r)'
  BY <1>1, <1>2 DEF InOrder
<1>4. GlobalMoves(r)
  BY <1>1, <1>2 DEF GlobalMoves, HasGlobal, AtWork, LimitGlobal
<1>5. UserKept(r)
  BY <1>1, <1>2 DEF UserKept, AtWork, LimitGlobal, Goto
<1> QED BY <1>1, <1>2, <1>3, <1>4, <1>5, QuietStep

\* No permit of the user.
LEMMA LimitUserStep ==
  ASSUME AuthInv, NEW r \in Requests, LimitUser(r)
  PROVE  AuthInv'
<1>1. requests[r] \in RequestType /\ InOrder(r) /\ requests[r].pc = "user" /\ generation \in Generations
      /\ UNCHANGED <<policy, clock, generation, pools>>
  BY DEF AuthInv, AuthTyped, RequestsInOrder, LimitUser, Goto
<1>2. /\ OthersStay(r) /\ requests' = [q \in Requests |-> requests'[q]]
      /\ requests'[r] \in RequestType /\ requests'[r].pc = "429"
      /\ requests'[r].gen = requests[r].gen
      /\ requests'[r].attempts = requests[r].attempts
      /\ requests'[r].canRetry = requests[r].canRetry
      /\ requests'[r].backend = requests[r].backend
      /\ requests'[r].now = requests[r].now
  <2>1. PICK x : requests' = [requests EXCEPT ![r] = x] /\ x = [requests[r] EXCEPT !.pc = "429"]
    BY DEF LimitUser, Goto
  <2>2. x \in RequestType
    BY <2>1, <1>1 DEF RequestType, RequestPcs
  <2> QED BY <2>1, <2>2, <1>1 DEF AuthInv, OthersStay, RequestType
<1>3. InOrder(r)'
  BY <1>1, <1>2 DEF InOrder
<1>4. GlobalMoves(r)
  BY <1>1, <1>2 DEF GlobalMoves, HasGlobal, AtWork, LimitUser
<1>5. UserKept(r)
  BY <1>1, <1>2 DEF UserKept, AtWork, LimitUser, Goto
<1> QED BY <1>1, <1>2, <1>3, <1>4, <1>5, QuietStep

\* Neither route nor body.
LEMMA RefuseStep ==
  ASSUME AuthInv, NEW r \in Requests, ProxyRefuses(r)
  PROVE  AuthInv'
<1>1. requests[r] \in RequestType /\ InOrder(r) /\ requests[r].pc = "proxy" /\ generation \in Generations
      /\ UNCHANGED <<policy, clock, generation, pools>>
  BY DEF AuthInv, AuthTyped, RequestsInOrder, ProxyRefuses, Goto, DropPermits
<1>2. /\ OthersStay(r) /\ requests' = [q \in Requests |-> requests'[q]]
      /\ requests'[r] \in RequestType /\ requests'[r].pc \in {"400", "413"}
      /\ requests'[r].gen = requests[r].gen
      /\ requests'[r].attempts = requests[r].attempts
      /\ requests'[r].canRetry = requests[r].canRetry
      /\ requests'[r].backend = requests[r].backend
      /\ requests'[r].now = requests[r].now
  <2>0. PICK code \in {"400", "413"} : Goto(r, code)
    BY DEF ProxyRefuses
  <2>1. PICK x : requests' = [requests EXCEPT ![r] = x] /\ x = [requests[r] EXCEPT !.pc = code]
    BY <2>0 DEF Goto
  <2>2. x \in RequestType
    BY <2>1, <1>1 DEF RequestType, RequestPcs
  <2> QED BY <2>1, <2>2, <1>1 DEF AuthInv, OthersStay, RequestType
<1>3. InOrder(r)'
  BY <1>1, <1>2 DEF InOrder
<1>4. GlobalMoves(r)
  BY <1>1, <1>2 DEF GlobalMoves, HasGlobal, AtWork, ProxyRefuses, DropPermits
<1>5. UserReturned(r)
  BY <1>1, <1>2 DEF UserReturned, AtWork, ProxyRefuses, Goto, DropPermits
<1> QED BY <1>1, <1>2, <1>3, <1>4, <1>5, QuietStep

\* The body is read.
LEMMA BodyStep ==
  ASSUME AuthInv, NEW r \in Requests, read_buffered_body(r)
  PROVE  AuthInv'
<1>1. requests[r] \in RequestType /\ InOrder(r) /\ requests[r].pc = "proxy" /\ generation \in Generations
      /\ UNCHANGED <<policy, clock, generation, pools>>
  BY DEF AuthInv, AuthTyped, RequestsInOrder, read_buffered_body
<1>2. /\ OthersStay(r) /\ requests' = [q \in Requests |-> requests'[q]]
      /\ requests'[r] \in RequestType /\ requests'[r].pc = "select"
      /\ requests'[r].gen = requests[r].gen
      /\ requests'[r].attempts = requests[r].attempts
      /\ requests'[r].backend = requests[r].backend
      /\ requests'[r].now = requests[r].now
  <2>0. PICK small \in BOOLEAN : requests' = [requests EXCEPT ![r].pc = "select", ![r].canRetry = small]
    BY DEF read_buffered_body
  <2>1. PICK x : requests' = [requests EXCEPT ![r] = x]
                 /\ x = [requests[r] EXCEPT !.pc = "select", !.canRetry = small]
    BY <2>0
  <2>2. x \in RequestType
    BY <2>1, <1>1 DEF RequestType, RequestPcs
  <2> QED BY <2>1, <2>2, <1>1 DEF AuthInv, OthersStay, RequestType
<1>3. InOrder(r)'
  BY <1>1, <1>2, AuthAssumption DEF InOrder
<1>4. GlobalMoves(r)
  BY <1>1, <1>2 DEF GlobalMoves, HasGlobal, AtWork, read_buffered_body
<1>5. UserKept(r)
  BY <1>1, <1>2 DEF UserKept, AtWork, read_buffered_body
<1> QED BY <1>1, <1>2, <1>3, <1>4, <1>5, QuietStep

\* The request is over.
LEMMA EndStep ==
  ASSUME AuthInv, NEW r \in Requests, RequestEnds(r)
  PROVE  AuthInv'
<1>1. requests[r] \in RequestType /\ InOrder(r) /\ requests[r].pc = "outcome" /\ generation \in Generations
      /\ UNCHANGED <<policy, clock, generation, pools>>
  BY DEF AuthInv, AuthTyped, RequestsInOrder, RequestEnds, Answers, DropPermits
<1>2. /\ OthersStay(r) /\ requests' = [q \in Requests |-> requests'[q]]
      /\ requests'[r] \in RequestType /\ requests'[r].pc = "answered"
      /\ requests'[r].gen = requests[r].gen
      /\ requests'[r].attempts = requests[r].attempts
      /\ requests'[r].canRetry = requests[r].canRetry
      /\ requests'[r].backend = NoBackend
      /\ requests'[r].now = requests[r].now
  <2>1. PICK x : requests' = [requests EXCEPT ![r] = x] /\ x = [requests[r] EXCEPT !.pc = "answered", !.backend = NoBackend]
    BY DEF RequestEnds, Answers, DropPermits
  <2>2. x \in RequestType
    BY <2>1, <1>1 DEF RequestType, RequestPcs
  <2> QED BY <2>1, <2>2, <1>1 DEF AuthInv, OthersStay, RequestType
<1>3. InOrder(r)'
  BY <1>1, <1>2 DEF InOrder
<1>4. GlobalMoves(r)
  BY <1>1, <1>2 DEF GlobalMoves, HasGlobal, AtWork, RequestEnds, DropPermits
<1>5. UserReturned(r)
  BY <1>1, <1>2 DEF UserReturned, AtWork, RequestEnds, Answers, DropPermits
<1> QED BY <1>1, <1>2, <1>3, <1>4, <1>5, QuietStep

\* A step of a selection that looks at a backend.
LEMMA LookStep ==
  ASSUME AuthInv, NEW r \in Requests, OthersStay(r), requests' = [q \in Requests |-> requests'[q]],
         requests'[r] \in RequestType, InOrder(r)', SelectionSound(r)',
         UNCHANGED <<policy, clock, generation, globalHeld, userHeld>>, pools' \in [Generations -> PoolType],
         \A g \in Generations : /\ pools'[g].inFlight = pools[g].inFlight
                                /\ pools'[g].brokenUntil = pools[g].brokenUntil,
         requests[r].pc \in {"select", "first", "fast", "slow"},
         requests'[r].pc \in {"first", "fast", "slow"}, requests'[r].gen = requests[r].gen
  PROVE  AuthInv'
<1>1. \A q \in Requests : requests[q].gen \in Generations
  BY DEF AuthInv, RequestType
<1>2. MarksSeen(r) /\ BackendKept(r)
  BY <1>1 DEF MarksSeen, BackendKept
<1>3. GlobalMoves(r) /\ UserKept(r)
  BY DEF GlobalMoves, UserKept, HasGlobal, AtWork
<1>4. StepOf(r)
  BY DEF StepOf
<1> QED BY <1>2, <1>3, <1>4, RequestStep

\* A selection ends with a backend.
LEMMA PickStep ==
  ASSUME AuthInv, NEW r \in Requests, NEW b \in Backends, NEW pc \in {"settle", "send"}, Picks(r, b, pc),
         requests[r].pc \in {"first", "fast", "slow"},
         UNCHANGED <<policy, clock, generation, globalHeld, userHeld>>
  PROVE  AuthInv'
<1>1. requests[r] \in RequestType /\ InOrder(r) /\ NoBackend \notin Backends
      /\ \A q \in Requests : requests[q].gen \in Generations
  BY AuthAssumption DEF AuthInv, RequestsInOrder, RequestType, NoBackend, Backends
<1>2. /\ OthersStay(r) /\ requests' = [q \in Requests |-> requests'[q]]
      /\ requests'[r] \in RequestType /\ requests'[r].pc = pc /\ requests'[r].backend = b
      /\ requests'[r].gen = requests[r].gen /\ requests'[r].attempts = requests[r].attempts
      /\ requests'[r].canRetry = requests[r].canRetry /\ requests'[r].now = requests[r].now
  <2>1. PICK x : requests' = [requests EXCEPT ![r] = x] /\ x = [requests[r] EXCEPT !.backend = b, !.pc = pc]
    BY DEF Picks
  <2>2. x \in RequestType
    BY <2>1, <1>1 DEF RequestType, RequestPcs
  <2> QED BY <2>1, <2>2, <1>1 DEF AuthInv, OthersStay, RequestType
<1>3. InOrder(r)' /\ SelectionSound(r)'
  BY <1>1, <1>2 DEF InOrder, SelectionSound
<1>4. BackendTaken(r)
  <2>1. pools' = [pools EXCEPT ![requests[r].gen].inFlight[b] = @ + 1]
    BY DEF Picks, Acquired
  <2> QED BY <2>1, <1>1, <1>2 DEF BackendTaken
<1>5. /\ pools' \in [Generations -> PoolType]
      /\ \A g \in Generations : pools'[g].brokenUntil = pools[g].brokenUntil
  <2>1. pools' = [pools EXCEPT ![requests[r].gen].inFlight[b] = @ + 1]
    BY DEF Picks, Acquired
  <2>2. pools \in [Generations -> PoolType] /\ requests[r].gen \in Generations
    BY <1>1 DEF AuthInv, AuthTyped
  <2> QED BY SMTT(40), <2>1, <2>2 DEF PoolType
<1>6. GlobalMoves(r) /\ UserKept(r)
  BY <1>2 DEF GlobalMoves, UserKept, HasGlobal, AtWork
<1>7. MarksSeen(r)
  BY <1>1, <1>5 DEF MarksSeen
<1>8. StepOf(r)
  BY <1>2, <1>3, <1>5 DEF StepOf
<1> QED BY <1>2, <1>4, <1>6, <1>7, <1>8, RequestStep

\* BackendPool::select, first_available and the two paths of least_loaded.
LEMMA SelectStep ==
  ASSUME AuthInv, NEW r \in Requests, select(r)
  PROVE  AuthInv'
<1>1. /\ requests[r] \in RequestType /\ InOrder(r) /\ requests[r].pc = "select"
      /\ clock \in Nat /\ pools \in [Generations -> PoolType]
      /\ UNCHANGED <<policy, clock, generation, globalHeld, userHeld>> /\ requests[r].gen \in Generations
      /\ Pool(r).n \in Nat
  <2>1. /\ requests[r] \in RequestType /\ InOrder(r) /\ requests[r].pc = "select"
        /\ clock \in Nat /\ pools \in [Generations -> PoolType]
    BY AuthAssumption DEF AuthInv, RequestsInOrder, AuthTyped, select
  <2>2. requests[r].gen \in Generations
    BY <2>1 DEF RequestType
  <2>3. Pool(r).n \in Nat
    BY <2>1, <2>2 DEF Pool, PoolType
  <2> QED BY <2>1, <2>2, <2>3 DEF select
<1>2. /\ pools' \in [Generations -> PoolType]
      /\ \A g \in Generations : /\ pools'[g].inFlight = pools[g].inFlight
                                /\ pools'[g].brokenUntil = pools[g].brokenUntil
  <2>1. CASE pools' = pools
    BY <2>1, <1>1
  <2>2. CASE pools' = [pools EXCEPT ![requests[r].gen].n = @ + 1]
    BY <2>2, <1>1 DEF PoolType
  <2> QED BY <2>1, <2>2 DEF select
<1>3. PICK pc \in {"fast", "first"}, n \in Nat :
        requests' = [requests EXCEPT ![r] =
          [requests[r] EXCEPT !.pc = pc, !.now = clock, !.i = 0, !.disturbed = FALSE, !.n = n]]
  <2>1. CASE policy = "least_loaded" /\ NBackends > 1
    BY <2>1, <1>1 DEF select
  <2>2. CASE ~(policy = "least_loaded" /\ NBackends > 1)
    BY <2>2, <1>1 DEF select
  <2> QED BY <2>1, <2>2
<1>4. /\ OthersStay(r) /\ requests' = [q \in Requests |-> requests'[q]]
      /\ requests'[r] \in RequestType /\ requests'[r].pc = pc /\ requests'[r].backend = requests[r].backend
      /\ requests'[r].gen = requests[r].gen /\ requests'[r].attempts = requests[r].attempts
      /\ requests'[r].canRetry = requests[r].canRetry /\ requests'[r].now = clock /\ requests'[r].i = 0
  <2> DEFINE x == [requests[r] EXCEPT !.pc = pc, !.now = clock, !.i = 0, !.disturbed = FALSE, !.n = n]
  <2>1. x \in RequestType /\ x.pc = pc /\ x.backend = requests[r].backend
        /\ x.gen = requests[r].gen /\ x.attempts = requests[r].attempts
        /\ x.canRetry = requests[r].canRetry /\ x.now = clock /\ x.i = 0
    BY <1>1 DEF RequestType, RequestPcs
  <2>2. requests' = [requests EXCEPT ![r] = x]
    BY <1>3
  <2> HIDE DEF x
  <2> QED BY <2>1, <2>2 DEF AuthInv, OthersStay
<1>5. InOrder(r)'
  BY <1>1, <1>4, AuthAssumption DEF InOrder
<1>6. SelectionSound(r)'
  BY <1>4 DEF SelectionSound
<1> QED BY <1>1, <1>2, <1>4, <1>5, <1>6, LookStep

\* The first-available policy chooses a backend.
LEMMA FirstStep ==
  ASSUME AuthInv, NEW r \in Requests, get_first_available_backend(r)
  PROVE  AuthInv'
<1>1. /\ requests[r] \in RequestType /\ InOrder(r) /\ SelectionSound(r) /\ requests[r].pc = "first"
      /\ requests[r].i \in Nat /\ requests[r].i <= NBackends /\ NBackends \in Nat
  BY AuthAssumption DEF AuthInv, RequestsInOrder, SelectionsSound, RequestType, get_first_available_backend, InOrder
<1>2. UNCHANGED <<policy, clock, generation, globalHeld, userHeld>>
  BY DEF get_first_available_backend
<1>3. CASE requests[r].i < NBackends /\ Broken(r, requests[r].i)
  <2>1. pools' = pools /\ requests' = [requests EXCEPT ![r] = [requests[r] EXCEPT !.i = requests[r].i + 1]]
    BY <1>3 DEF get_first_available_backend
  <2> DEFINE x == [requests[r] EXCEPT !.i = requests[r].i + 1]
  <2>2. /\ x \in RequestType /\ x.pc = "first" /\ x.i = requests[r].i + 1 /\ x.gen = requests[r].gen
        /\ x.backend = requests[r].backend /\ x.attempts = requests[r].attempts
        /\ x.canRetry = requests[r].canRetry /\ x.now = requests[r].now /\ x.disturbed = requests[r].disturbed
    BY <1>1 DEF RequestType
  <2>3. requests'[r] = x /\ OthersStay(r) /\ requests' = [q \in Requests |-> requests'[q]]
    BY <2>1 DEF AuthInv, OthersStay
  <2> HIDE DEF x
  <2>4. InOrder(r)'
    BY <1>1, <1>2, <1>3, <2>2, <2>3 DEF InOrder
  <2>5. SelectionSound(r)'
    <3>1. \A b : Broken(r, b)' <=> Broken(r, b)
      BY <2>1, <2>2, <2>3 DEF Broken, Pool
    <3>2. \A j \in Nat : j < requests[r].i + 1 => j < requests[r].i \/ j = requests[r].i
      BY <1>1
    <3> QED BY <1>1, <1>3, <2>2, <2>3, <3>1, <3>2 DEF SelectionSound
  <2> QED BY <1>1, <1>2, <2>1, <2>2, <2>3, <2>4, <2>5, LookStep DEF AuthInv, AuthTyped
<1>4. CASE ~(requests[r].i < NBackends /\ Broken(r, requests[r].i))
  <2>1. Picks(r, requests[r].i % NBackends, "send")
    BY <1>4 DEF get_first_available_backend
  <2> QED BY <1>1, <1>2, <2>1, ModInRange, PickStep
<1> QED BY <1>3, <1>4

\* The least-loaded policy takes the first backend that is idle and healthy.
LEMMA FastStep ==
  ASSUME AuthInv, NEW r \in Requests, FastPath(r)
  PROVE  AuthInv'
<1>1. /\ requests[r] \in RequestType /\ InOrder(r) /\ requests[r].pc = "fast"
      /\ requests[r].i \in Nat /\ requests[r].i <= NBackends /\ NBackends \in Nat \ {0} /\ requests[r].n \in Nat
      /\ requests[r].gen \in Generations
  BY AuthAssumption DEF AuthInv, RequestsInOrder, RequestType, FastPath, InOrder
<1>2. UNCHANGED <<policy, clock, generation, globalHeld, userHeld>>
  BY DEF FastPath
<1>3. \A j \in Nat : Nth(r, j) \in Backends
  BY <1>1, ModInRange DEF Nth
<1>4. CASE requests[r].i = NBackends
  <2> DEFINE x == [requests[r] EXCEPT !.pc = "slow", !.i = 1, !.min = Nth(r, 0),
                                      !.minRequests = Pool(r).inFlight[Nth(r, 0)]]
  <2>1. pools' = pools /\ requests' = [requests EXCEPT ![r] = x]
    BY <1>4 DEF FastPath
  <2>2. Pool(r).inFlight[Nth(r, 0)] \in Nat /\ Nth(r, 0) \in Backends
    BY <1>1, <1>3 DEF AuthInv, AuthTyped, PoolType, Pool
  <2>3. /\ x \in RequestType /\ x.pc = "slow" /\ x.i = 1 /\ x.gen = requests[r].gen
        /\ x.backend = requests[r].backend /\ x.attempts = requests[r].attempts /\ x.n = requests[r].n
        /\ x.canRetry = requests[r].canRetry /\ x.now = requests[r].now /\ x.min = Nth(r, 0)
    BY <1>1, <2>2 DEF RequestType, RequestPcs
  <2>4. requests'[r] = x /\ OthersStay(r) /\ requests' = [q \in Requests |-> requests'[q]]
    BY <2>1 DEF AuthInv, OthersStay
  <2> HIDE DEF x
  <2>5. InOrder(r)'
    BY <1>1, <1>2, <2>3, <2>4 DEF InOrder
  <2>6. SelectionSound(r)'
    <3>1. Nth(r, 0)' = Nth(r, 0)
      BY <2>3, <2>4 DEF Nth
    <3>2. \A j \in Nat : j < 1 => j = 0
      OBVIOUS
    <3> QED BY <2>3, <2>4, <3>1, <3>2 DEF SelectionSound
  <2> QED BY <1>1, <1>2, <2>1, <2>3, <2>4, <2>5, <2>6, LookStep DEF AuthInv, AuthTyped
<1>5. CASE requests[r].i # NBackends /\ Picks(r, Nth(r, requests[r].i), "settle")
  BY <1>1, <1>2, <1>3, <1>5, PickStep
<1>6. CASE requests[r].i # NBackends /\ pools' = pools /\ requests' = [requests EXCEPT ![r].i = requests[r].i + 1]
  <2> DEFINE x == [requests[r] EXCEPT !.i = requests[r].i + 1]
  <2>2. /\ x \in RequestType /\ x.pc = "fast" /\ x.i = requests[r].i + 1 /\ x.gen = requests[r].gen
        /\ x.backend = requests[r].backend /\ x.attempts = requests[r].attempts
        /\ x.canRetry = requests[r].canRetry /\ x.now = requests[r].now
    BY <1>1 DEF RequestType
  <2>3. requests'[r] = x /\ OthersStay(r) /\ requests' = [q \in Requests |-> requests'[q]]
    BY <1>6 DEF AuthInv, OthersStay
  <2> HIDE DEF x
  <2>4. InOrder(r)' /\ SelectionSound(r)'
    BY <1>1, <1>2, <1>6, <2>2, <2>3 DEF InOrder, SelectionSound
  <2> QED BY <1>1, <1>2, <1>6, <2>2, <2>3, <2>4, LookStep DEF AuthInv, AuthTyped
<1> QED BY <1>4, <1>5, <1>6 DEF FastPath

\* The least-loaded policy compares all backends.
LEMMA SlowStep ==
  ASSUME AuthInv, NEW r \in Requests, SlowPath(r)
  PROVE  AuthInv'
<1>1. /\ requests[r] \in RequestType /\ InOrder(r) /\ SelectionSound(r) /\ requests[r].pc = "slow"
      /\ requests[r].i \in Nat /\ requests[r].i <= NBackends /\ NBackends \in Nat \ {0} /\ requests[r].n \in Nat
      /\ requests[r].gen \in Generations /\ requests[r].min \in Backends
  BY AuthAssumption DEF AuthInv, RequestsInOrder, SelectionsSound, RequestType, SlowPath, InOrder
<1>2. UNCHANGED <<policy, clock, generation, globalHeld, userHeld>>
  BY DEF SlowPath
<1>3. \A j \in Nat : Nth(r, j) \in Backends
  BY <1>1, ModInRange DEF Nth
<1>4. \A j \in Nat : j < requests[r].i + 1 => j < requests[r].i \/ j = requests[r].i
  BY <1>1
<1> DEFINE b == Nth(r, requests[r].i)
<1>5. CASE requests[r].i < NBackends /\ Better(r, b)
  <2> DEFINE m == Pool(r).inFlight[b]
             x == [requests[r] EXCEPT !.i = requests[r].i + 1, !.min = b, !.minRequests = m]
  <2>1. pools' = pools /\ requests' = [requests EXCEPT ![r] = x]
    BY <1>1, <1>5 DEF SlowPath
  <2>2. m \in Nat /\ b \in Backends /\ requests[r].i + 1 \in Nat
    BY <1>1, <1>3 DEF AuthInv, AuthTyped, PoolType, Pool
  <2> HIDE DEF b, m
  <2>3. /\ x \in RequestType /\ x.pc = "slow" /\ x.i = requests[r].i + 1 /\ x.gen = requests[r].gen
        /\ x.backend = requests[r].backend /\ x.attempts = requests[r].attempts
        /\ x.canRetry = requests[r].canRetry /\ x.now = requests[r].now /\ x.min = b
    BY <1>1, <2>2 DEF RequestType
  <2>4. requests'[r] = x /\ OthersStay(r) /\ requests' = [q \in Requests |-> requests'[q]]
    BY <2>1 DEF AuthInv, OthersStay
  <2>5. \A c : (Broken(r, c)' <=> Broken(r, c))
    BY <2>1, <2>3, <2>4 DEF Broken, Pool
  <2>6. ~Broken(r, b)
    BY <1>5 DEF Better
  <2> HIDE DEF x
  <2>7. InOrder(r)' /\ SelectionSound(r)'
    BY <1>1, <1>2, <1>5, <2>3, <2>4, <2>5, <2>6 DEF InOrder, SelectionSound
  <2> QED BY <1>1, <1>2, <2>1, <2>3, <2>4, <2>7, LookStep DEF AuthInv, AuthTyped
<1>6. CASE requests[r].i < NBackends /\ ~Better(r, b)
  <2> DEFINE x == [requests[r] EXCEPT !.i = requests[r].i + 1]
  <2>1. pools' = pools /\ requests' = [requests EXCEPT ![r] = x]
    BY <1>1, <1>6 DEF SlowPath
  <2>3. /\ x \in RequestType /\ x.pc = "slow" /\ x.i = requests[r].i + 1 /\ x.gen = requests[r].gen
        /\ x.backend = requests[r].backend /\ x.attempts = requests[r].attempts /\ x.n = requests[r].n
        /\ x.canRetry = requests[r].canRetry /\ x.now = requests[r].now /\ x.min = requests[r].min
        /\ x.disturbed = requests[r].disturbed
    BY <1>1 DEF RequestType
  <2>4. requests'[r] = x /\ OthersStay(r) /\ requests' = [q \in Requests |-> requests'[q]]
    BY <2>1 DEF AuthInv, OthersStay
  <2> HIDE DEF x
  <2>5. \A c : (Broken(r, c)' <=> Broken(r, c))
    BY <2>1, <2>3, <2>4 DEF Broken, Pool
  <2>6. \A j : Nth(r, j)' = Nth(r, j)
    BY <2>3, <2>4 DEF Nth
  <2>7. Broken(r, requests[r].min) => Broken(r, b)
    BY <1>6 DEF Better
  <2>8. InOrder(r)'
    BY <1>1, <1>2, <1>6, <2>3, <2>4 DEF InOrder
  <2>9. SelectionSound(r)'
    BY <1>1, <1>4, <2>3, <2>4, <2>5, <2>6, <2>7 DEF SelectionSound
  <2> QED BY <1>1, <1>2, <2>1, <2>3, <2>4, <2>8, <2>9, LookStep DEF AuthInv, AuthTyped
<1>7. CASE requests[r].i = NBackends
  <2>1. 0 \in Backends
    BY AuthAssumption DEF Backends
  <2>2. CASE Broken(r, requests[r].min)
    <3>1. Picks(r, 0, "send")
      BY <1>1, <1>7, <2>2 DEF SlowPath
    <3> QED BY <1>1, <1>2, <2>1, <3>1, PickStep
  <2>3. CASE ~Broken(r, requests[r].min)
    <3>1. Picks(r, requests[r].min, "settle")
      BY <1>1, <1>7, <2>3 DEF SlowPath
    <3> QED BY <1>1, <1>2, <3>1, PickStep
  <2> QED BY <2>2, <2>3
<1>8. requests[r].i < NBackends \/ requests[r].i = NBackends
  BY <1>1
<1> QED BY <1>5, <1>6, <1>7, <1>8

\* The round-robin counter is moved past the choice.
LEMMA CounterStep ==
  ASSUME AuthInv, NEW r \in Requests, AdvanceCounter(r)
  PROVE  AuthInv'
<1>1. /\ requests[r] \in RequestType /\ InOrder(r) /\ requests[r].pc = "settle"
      /\ requests[r].gen \in Generations /\ requests[r].backend \in Backends
      /\ \A q \in Requests : requests[q].gen \in Generations
  BY DEF AuthInv, RequestsInOrder, RequestType, AdvanceCounter, InOrder
<1>2. UNCHANGED <<policy, clock, generation, globalHeld, userHeld>>
  BY DEF AdvanceCounter
<1>3. /\ pools' \in [Generations -> PoolType]
      /\ \A g \in Generations : /\ pools'[g].inFlight = pools[g].inFlight
                                /\ pools'[g].brokenUntil = pools[g].brokenUntil
  <2>1. PICK m : m \in Nat /\ pools' = [pools EXCEPT ![requests[r].gen].n = m]
    <3>1. requests[r].backend + 1 \in Nat
      BY <1>1, AuthAssumption DEF Backends
    <3>2. pools[requests[r].gen].n \in Nat
      BY <1>1 DEF AuthInv, AuthTyped, PoolType
    <3> QED BY <3>1, <3>2 DEF AdvanceCounter
  <2>2. pools \in [Generations -> PoolType]
    BY DEF AuthInv, AuthTyped
  <2> QED BY <2>1, <2>2, <1>1 DEF PoolType
<1> DEFINE x == [requests[r] EXCEPT !.pc = "send"]
<1>4. requests' = [requests EXCEPT ![r] = x]
  BY DEF AdvanceCounter, Goto
<1>5. /\ x \in RequestType /\ x.pc = "send" /\ x.gen = requests[r].gen
      /\ x.backend = requests[r].backend /\ x.attempts = requests[r].attempts
      /\ x.canRetry = requests[r].canRetry /\ x.now = requests[r].now
  BY <1>1 DEF RequestType, RequestPcs
<1>6. requests'[r] = x /\ OthersStay(r) /\ requests' = [q \in Requests |-> requests'[q]]
  BY <1>4 DEF AuthInv, OthersStay
<1> HIDE DEF x
<1>7. InOrder(r)' /\ SelectionSound(r)'
  BY <1>1, <1>2, <1>5, <1>6 DEF InOrder, SelectionSound
<1>8. MarksSeen(r) /\ BackendKept(r)
  BY <1>1, <1>3, <1>5, <1>6 DEF MarksSeen, BackendKept
<1>9. GlobalMoves(r) /\ UserKept(r)
  BY <1>1, <1>2, <1>5, <1>6 DEF GlobalMoves, UserKept, HasGlobal, AtWork
<1>10. StepOf(r)
  BY <1>2, <1>3, <1>5, <1>6, <1>7 DEF StepOf
<1> QED BY <1>6, <1>8, <1>9, <1>10, RequestStep

\* Proxy::proxy: an attempt, and what comes after it.
LEMMA AttemptStep ==
  ASSUME AuthInv, NEW r \in Requests, NEW o \in Outcomes, attempt(r, o)
  PROVE  AuthInv'
<1>1. /\ requests[r] \in RequestType /\ InOrder(r) /\ requests[r].pc = "send" /\ requests[r].attempts \in Nat
      /\ requests[r].gen \in Generations /\ requests[r].backend \in Backends /\ requests[r].attempts < NBackends
      /\ \A q \in Requests : requests[q].gen \in Generations
  BY DEF AuthInv, RequestsInOrder, RequestType, attempt, InOrder
<1>2. UNCHANGED <<policy, clock, generation, globalHeld, userHeld>>
  BY DEF attempt
<1>3. pools' = [pools EXCEPT ![requests[r].gen].inFlight[requests[r].backend] = @ - 1]
  BY DEF attempt
<1>4. /\ pools' \in [Generations -> PoolType]
      /\ \A g \in Generations : pools'[g].brokenUntil = pools[g].brokenUntil
  <2>1. pools \in [Generations -> PoolType]
    BY DEF AuthInv, AuthTyped
  <2> DEFINE H == HoldersOf(requests[r].gen, requests[r].backend)
             n == pools[requests[r].gen].inFlight[requests[r].backend]
  <2>2. Counts(n, H) /\ r \in H
    BY <1>1 DEF AuthInv, BackendsCounted, HoldersOf
  <2> HIDE DEF H
  <2>3. Counts(n - 1, H \ {r})
    BY <2>2, CountOut
  <2>4. n - 1 \in Nat
    BY <2>3, FS_CardinalityType DEF Counts
  <2> QED BY <1>1, <1>3, <2>1, <2>4 DEF PoolType
<1> DEFINE m == requests[r].attempts + 1
           t == requests[r].tried \cup {requests[r].backend}
           x == [requests[r] EXCEPT !.pc = "outcome", !.outcome = o, !.attempts = m, !.tried = t]
<1>5. requests' = [requests EXCEPT ![r] = x]
  BY DEF attempt
<1>12. m = requests[r].attempts + 1 /\ m \in Nat /\ t \in SUBSET Backends
  BY <1>1 DEF RequestType
<1> HIDE DEF m, t
<1>6. /\ x \in RequestType /\ x.pc = "outcome" /\ x.gen = requests[r].gen /\ x.outcome = o
      /\ x.backend = requests[r].backend /\ x.attempts = m
      /\ x.canRetry = requests[r].canRetry /\ x.now = requests[r].now
  BY <1>1, <1>12 DEF RequestType, RequestPcs
<1>7. requests'[r] = x /\ OthersStay(r) /\ requests' = [q \in Requests |-> requests'[q]]
  BY <1>5 DEF AuthInv, OthersStay
<1> HIDE DEF x
<1>8. InOrder(r)' /\ SelectionSound(r)'
  BY SMTT(40), <1>1, <1>2, <1>6, <1>7, <1>12, AuthAssumption DEF InOrder, SelectionSound
<1>9. MarksSeen(r) /\ BackendReturned(r)
  BY <1>1, <1>3, <1>4, <1>6, <1>7 DEF MarksSeen, BackendReturned
<1>10. GlobalMoves(r) /\ UserKept(r)
  BY <1>1, <1>2, <1>6, <1>7 DEF GlobalMoves, UserKept, HasGlobal, AtWork
<1>11. StepOf(r)
  BY <1>2, <1>4, <1>6, <1>7, <1>8 DEF StepOf
<1> QED BY <1>7, <1>9, <1>10, <1>11, RequestStep

\* The attempt has failed, and its backend is marked broken.
MarksBackend(r, code) ==
  /\ set_broken(requests[r].gen, requests[r].backend)
  /\ requests' = Disturb(requests[r].gen, Answers(r, code))

\* A failed attempt marks its backend as broken.
LEMMA MarkStep ==
  ASSUME AuthInv, NEW r \in Requests, NEW code \in {"502", "503", "select"},
         requests[r].pc = "outcome", MarksBackend(r, code),
         code = "select" => requests[r].attempts < NBackends /\ requests[r].canRetry,
         code = "502" => requests[r].attempts = NBackends,
         UNCHANGED <<policy, clock, generation>>,
         IF code = "select" THEN UNCHANGED <<globalHeld, userHeld>> ELSE DropPermits(r)
  PROVE  AuthInv'
<1>1. /\ requests[r] \in RequestType /\ InOrder(r) /\ requests[r].attempts \in Nat
      /\ requests[r].gen \in Generations /\ requests[r].backend \in Backends
      /\ \A q \in Requests : requests[q].gen \in Generations
  BY DEF AuthInv, RequestsInOrder, RequestType, InOrder
<1>2. pools' = [pools EXCEPT ![requests[r].gen].brokenUntil[requests[r].backend] = clock + FailTimeout]
  BY DEF MarksBackend, set_broken
<1>3. /\ pools' \in [Generations -> PoolType]
      /\ \A g \in Generations : /\ pools'[g].inFlight = pools[g].inFlight
                                /\ g # requests[r].gen => pools'[g].brokenUntil = pools[g].brokenUntil
  <2>1. pools \in [Generations -> PoolType]
    BY DEF AuthInv, AuthTyped
  <2>2. clock + FailTimeout \in 0..MaxClock + FailTimeout
    BY AuthAssumption DEF AuthInv, AuthTyped
  <2> QED BY <1>1, <1>2, <2>1, <2>2 DEF PoolType
<1> DEFINE x == [requests[r] EXCEPT !.pc = code, !.backend = NoBackend]
           f == Answers(r, code)
<1>4. /\ x \in RequestType /\ x.pc = code /\ x.gen = requests[r].gen /\ x.backend = NoBackend
      /\ x.attempts = requests[r].attempts /\ x.canRetry = requests[r].canRetry /\ x.now = requests[r].now
  BY <1>1 DEF RequestType, RequestPcs
<1>5. f[r] = x /\ \A q \in Requests \ {r} : f[q] = requests[q]
  BY DEF Answers, AuthInv
<1> HIDE DEF x, f
<1>6. /\ requests' = [q \in Requests |-> requests'[q]]
      /\ \A q \in Requests :
           requests'[q] = IF f[q].gen = requests[r].gen /\ f[q].pc \in {"first", "fast", "slow"}
                          THEN [f[q] EXCEPT !.disturbed = TRUE] ELSE f[q]
  BY DEF MarksBackend, Disturb, f
<1>7. requests'[r] = x
  BY <1>4, <1>5, <1>6
<1>8. OthersStay(r)
  BY <1>5, <1>6 DEF OthersStay
<1>9. MarksSeen(r)
  <2>1. \A q \in Requests \ {r} : requests[q] \in RequestType
    BY DEF AuthInv
  <2>2. \A q \in Requests \ {r} : requests[q].gen = requests[r].gen /\ requests[q].pc \in {"first", "fast", "slow"}
          => requests'[q].disturbed
    BY <1>5, <1>6, <2>1 DEF RequestType
  <2> QED BY <1>1, <1>3, <2>2 DEF MarksSeen
<1>10. InOrder(r)' /\ SelectionSound(r)'
  BY <1>1, <1>4, <1>7 DEF InOrder, SelectionSound
<1>11. BackendKept(r)
  BY <1>3, <1>4, <1>7 DEF BackendKept
<1>12. GlobalMoves(r) /\ (UserKept(r) \/ UserReturned(r))
  <2>1. CASE code = "select"
    BY <2>1, <1>4, <1>7 DEF GlobalMoves, UserKept, HasGlobal, AtWork
  <2>2. CASE code # "select"
    BY <2>2, <1>4, <1>7 DEF GlobalMoves, UserReturned, HasGlobal, AtWork, DropPermits
  <2> QED BY <2>1, <2>2
<1>13. StepOf(r)
  BY <1>3, <1>4, <1>6, <1>7, <1>10 DEF StepOf
<1> QED BY <1>8, <1>9, <1>11, <1>12, <1>13, RequestStep

\* A failed request that may not be sent again is answered.
LEMMA NoRetryStep ==
  ASSUME AuthInv, NEW r \in Requests, NoRetry(r)
  PROVE  AuthInv'
<1>1. CASE requests[r].outcome = "ConnectError"
  <2>1. MarksBackend(r, "503") /\ requests[r].pc = "outcome" /\ DropPermits(r) /\ UNCHANGED <<policy, clock, generation>>
    BY <1>1 DEF NoRetry, MarksBackend
  <2> QED BY <2>1, MarkStep
<1>2. CASE requests[r].outcome # "ConnectError"
  <2>1. requests[r] \in RequestType /\ InOrder(r) /\ requests[r].pc = "outcome"
        /\ UNCHANGED <<policy, clock, generation, pools>>
    BY <1>2 DEF AuthInv, RequestsInOrder, NoRetry
  <2>2. PICK x : requests' = [requests EXCEPT ![r] = x]
                 /\ x = [requests[r] EXCEPT !.pc = "503", !.backend = NoBackend]
    BY <1>2 DEF NoRetry, Answers
  <2>3. /\ x \in RequestType /\ x.pc = "503" /\ x.backend = NoBackend /\ x.gen = requests[r].gen
        /\ x.attempts = requests[r].attempts /\ x.canRetry = requests[r].canRetry /\ x.now = requests[r].now
    BY <2>1, <2>2 DEF RequestType, RequestPcs
  <2>4. requests'[r] = x /\ OthersStay(r) /\ requests' = [q \in Requests |-> requests'[q]]
    BY <2>2 DEF AuthInv, OthersStay
  <2>5. InOrder(r)'
    BY <2>1, <2>3, <2>4 DEF InOrder
  <2>6. GlobalMoves(r) /\ UserReturned(r)
    BY <2>1, <2>3, <2>4 DEF GlobalMoves, UserReturned, HasGlobal, AtWork, DropPermits, NoRetry
  <2> QED BY <2>1, <2>3, <2>4, <2>5, <2>6, QuietStep
<1> QED BY <1>1, <1>2

\* A failed request is sent to another backend.
LEMMA RetryStep ==
  ASSUME AuthInv, NEW r \in Requests, Retry(r)
  PROVE  AuthInv'
<1>1. /\ requests[r].pc = "outcome" /\ requests[r].canRetry /\ UNCHANGED <<policy, clock, generation>>
      /\ requests[r].attempts <= NBackends /\ requests[r].attempts \in Nat /\ NBackends \in Nat
  BY AuthAssumption DEF Retry, MayRetry, AuthInv, RequestsInOrder, InOrder, RequestType
<1>2. CASE requests[r].attempts = NBackends
  <2>1. MarksBackend(r, "502") /\ DropPermits(r)
    BY <1>2 DEF Retry, MarksBackend
  <2> QED BY <1>1, <1>2, <2>1, MarkStep
<1>3. CASE requests[r].attempts # NBackends
  <2>1. MarksBackend(r, "select") /\ UNCHANGED <<globalHeld, userHeld>> /\ requests[r].attempts < NBackends
    BY <1>1, <1>3 DEF Retry, MarksBackend
  <2> QED BY <1>1, <2>1, MarkStep
<1> QED BY <1>2, <1>3

\* The invariant holds initially.
LEMMA AuthStart ==
  ASSUME AuthInit PROVE AuthInv
<1>1. requests = [r \in Requests |-> NewRequest] /\ generation = 0 /\ clock = 0 /\ globalHeld = 0
      /\ userHeld = [g \in Generations |-> 0] /\ NewRequest.pc = "new" /\ 0 \in Generations /\ 0 \in Backends
  BY AuthAssumption DEF AuthInit, NewRequest, Generations, Backends
<1>2. NewRequest \in RequestType
  BY <1>1 DEF NewRequest, RequestType, RequestPcs
<1>3. AuthTyped
  <2>1. pools \in [Generations -> PoolType]
    BY AuthAssumption DEF AuthInit, PoolType
  <2> QED BY <2>1, <1>1, AuthAssumption DEF AuthInit, AuthTyped
<1>4. RequestsInOrder
  BY <1>1, AuthAssumption DEF RequestsInOrder, InOrder, NewRequest, NoBackend
<1>5. SelectionsSound
  BY <1>1 DEF SelectionsSound, SelectionSound
<1>6. \A r \in Requests : ~HasGlobal(r) /\ ~AtWork(r) /\ requests[r].pc \notin {"settle", "send"}
  BY <1>1 DEF HasGlobal, AtWork
<1>7. GlobalHolders = {} /\ \A g \in Generations : UserHolders(g) = {} /\ \A b \in Backends : HoldersOf(g, b) = {}
  BY <1>6 DEF GlobalHolders, UserHolders, HoldersOf
<1>8. Counts(0, {})
  BY FS_EmptySet DEF Counts
<1>9. PermitsCounted
  <2>1. 0 <= GlobalCap /\ \A g \in Generations : 0 <= UserCap[g] /\ userHeld[g] = 0
    BY <1>1, AuthAssumption DEF Generations
  <2> QED BY <1>1, <1>7, <1>8, <2>1 DEF PermitsCounted
<1>10. BackendsCounted
  <2>1. \A g \in Generations, b \in Backends : pools[g].inFlight[b] = 0
    BY DEF AuthInit
  <2> QED BY <1>7, <1>8, <2>1 DEF BackendsCounted
<1> QED BY <1>1, <1>2, <1>3, <1>4, <1>5, <1>9, <1>10 DEF AuthInv

\* A reload and the clock leave every request and every pool alone.
LEMMA AroundStep ==
  ASSUME AuthInv, reload_auth \/ TimePasses
  PROVE  AuthInv'
<1>1. /\ UNCHANGED <<policy, pools, globalHeld, userHeld, requests>>
      /\ generation' \in Generations /\ generation' >= generation
      /\ clock' \in 0..MaxClock /\ clock' >= clock
  BY SMTT(40), AuthAssumption DEF AuthInv, AuthTyped, reload_auth, TimePasses, Generations
<1>2. RequestsInOrder'
  <2>1. \A r \in Requests : requests[r].gen \in Nat /\ requests[r].now \in Nat
    BY DEF AuthInv, RequestType, Generations
  <2>2. clock \in Nat /\ generation \in Nat /\ clock' \in Nat /\ generation' \in Nat
    BY <1>1 DEF AuthInv, AuthTyped, Generations
  <2> QED BY <1>1, <2>1, <2>2 DEF AuthInv, RequestsInOrder, InOrder
<1>3. SelectionsSound'
  <2>1. \A r, b : Broken(r, b)' <=> Broken(r, b)
    BY <1>1 DEF Broken, Pool
  <2>2. \A r, j : Nth(r, j)' = Nth(r, j)
    BY <1>1 DEF Nth
  <2> QED BY <1>1, <2>1, <2>2 DEF AuthInv, SelectionsSound, SelectionSound
<1>4. PermitsCounted' /\ BackendsCounted'
  <2>1. GlobalHolders' = GlobalHolders
    BY <1>1 DEF GlobalHolders, HasGlobal, AtWork
  <2>2. \A g : UserHolders(g)' = UserHolders(g)
    BY <1>1 DEF UserHolders, AtWork
  <2>3. \A g, b : HoldersOf(g, b)' = HoldersOf(g, b)
    BY <1>1 DEF HoldersOf
  <2>4. PermitsCounted'
    BY <1>1, <2>1, <2>2 DEF AuthInv, PermitsCounted
  <2>5. BackendsCounted'
    BY <1>1, <2>3 DEF AuthInv, BackendsCounted
  <2> QED BY <2>4, <2>5
<1>5. AuthTyped' /\ requests' \in [Requests -> RequestType]
  BY <1>1 DEF AuthInv, AuthTyped
<1> QED BY <1>2, <1>3, <1>4, <1>5 DEF AuthInv

\* Nothing changes.
LEMMA AuthNothing ==
  ASSUME AuthInv, UNCHANGED authVars
  PROVE  AuthInv'
<1>1. SelectionsSound'
  BY DEF authVars, AuthInv, SelectionsSound, SelectionSound, Broken, Pool, Nth
<1>2. PermitsCounted' /\ BackendsCounted'
  BY DEF authVars, AuthInv, PermitsCounted, BackendsCounted, GlobalHolders, UserHolders, HoldersOf, HasGlobal, AtWork
<1>3. AuthTyped' /\ requests' \in [Requests -> RequestType] /\ RequestsInOrder'
  BY DEF authVars, AuthInv, AuthTyped, RequestsInOrder, InOrder
<1> QED BY <1>1, <1>2, <1>3 DEF AuthInv

\* Every step keeps the invariant.
LEMMA AuthKept ==
  AuthInv /\ [AuthNext]_authVars => AuthInv'
<1> SUFFICES ASSUME AuthInv, [AuthNext]_authVars PROVE AuthInv'
  OBVIOUS
<1>1. ASSUME NEW r \in Requests,
             \/ request_handler(r) \/ AcquireGlobal(r) \/ LimitGlobal(r) \/ AcquireUser(r) \/ LimitUser(r)
             \/ ProxyRefuses(r) \/ read_buffered_body(r) \/ RequestEnds(r)
      PROVE  AuthInv'
  BY <1>1, EnterStep, GlobalStep, LimitGlobalStep, UserStep, LimitUserStep, RefuseStep, BodyStep, EndStep
<1>2. ASSUME NEW r \in Requests,
             \/ select(r) \/ get_first_available_backend(r) \/ FastPath(r) \/ SlowPath(r) \/ AdvanceCounter(r)
             \/ (\E o \in Outcomes : attempt(r, o)) \/ NoRetry(r) \/ Retry(r)
      PROVE  AuthInv'
  BY <1>2, SelectStep, FirstStep, FastStep, SlowStep, CounterStep, AttemptStep, NoRetryStep, RetryStep
<1> QED BY <1>1, <1>2, AroundStep, AuthNothing DEF AuthNext

\* The invariant contains the property.
LEMMA AuthInvSound ==
  AuthInv => AuthSound
<1> SUFFICES ASSUME AuthInv PROVE AuthSound
  OBVIOUS
<1>1. AuthTypeOK
  <2>1. \A r \in Requests :
          /\ requests[r].gen \in 0..generation /\ requests[r].now \in 0..clock
          /\ requests[r].tried \subseteq Backends /\ requests[r].min \in Backends
          /\ requests[r].attempts \in 0..NBackends
          /\ requests[r].backend # NoBackend <=> requests[r].pc \in {"settle", "send", "outcome"}
    <3> SUFFICES ASSUME NEW r \in Requests
                 PROVE  /\ requests[r].gen \in 0..generation /\ requests[r].now \in 0..clock
                        /\ requests[r].tried \subseteq Backends /\ requests[r].min \in Backends
                        /\ requests[r].attempts \in 0..NBackends
                        /\ requests[r].backend # NoBackend <=> requests[r].pc \in {"settle", "send", "outcome"}
      OBVIOUS
    <3>1. /\ requests[r].gen \in Nat /\ requests[r].now \in Nat /\ requests[r].attempts \in Nat
          /\ requests[r].tried \subseteq Backends /\ requests[r].min \in Backends
      BY DEF AuthInv, RequestType, Generations
    <3>2. generation \in Nat /\ clock \in Nat /\ NBackends \in Nat
      BY AuthAssumption DEF AuthInv, AuthTyped, Generations
    <3> QED BY <3>1, <3>2 DEF AuthInv, RequestsInOrder, InOrder
  <2>2. \A g \in Generations :
          /\ DOMAIN pools[g].inFlight = Backends /\ \A b \in Backends : pools[g].inFlight[b] \in Nat
          /\ \A b \in Backends : pools[g].brokenUntil[b] \in 0..MaxClock + FailTimeout
          /\ pools[g].n \in Nat
    BY DEF AuthInv, AuthTyped, PoolType
  <2> QED BY <2>1, <2>2 DEF AuthTypeOK, AuthInv, AuthTyped
<1>2. InFlightAccounted
  BY DEF AuthInv, BackendsCounted, InFlightAccounted, Counts, HoldersOf
<1>3. LimitsKept
  BY DEF AuthInv, PermitsCounted, LimitsKept, Counts, GlobalHolders, UserHolders
<1>4. NoResend
  BY DEF AuthInv, RequestsInOrder, InOrder, NoResend
<1> QED BY <1>1, <1>2, <1>3, <1>4 DEF AuthSound

\* Permits and in-flight counts match the requests under way over retries, limits and reloads, and
\* no request is sent again once its body is used up (acquire, proxy_request).
THEOREM AuthIsSound == AuthSpec => []AuthSound
<1>1. AuthInit => AuthInv
  BY AuthStart
<1>2. AuthInv /\ [AuthNext]_authVars => AuthInv'
  BY AuthKept
<1>3. AuthInv => AuthSound
  BY AuthInvSound
<1> QED BY <1>1, <1>2, <1>3, PTL DEF AuthSpec

\* The property of a step that HealthyPreferred is about, for the request r.
PrefersHealthy(r) ==
  LET b == requests'[r].backend IN
  requests[r].backend = NoBackend /\ b # NoBackend /\ ~requests[r].disturbed /\ Broken(r, b) =>
    \A c \in Backends : Broken(r, c)

\* A step gives a backend to nobody but the request whose selection ends.
NobodyPicks == \A q \in Requests : requests'[q].backend \in {requests[q].backend, NoBackend}

\* A step of one request chooses for that request only.
LEMMA OthersPickNothing ==
  ASSUME AuthInv, NEW r \in Requests, OthersStay(r), PrefersHealthy(r)
  PROVE  \A q \in Requests : PrefersHealthy(q)
<1>1. \A q \in Requests \ {r} : requests'[q].backend = requests[q].backend
  BY OthersPlaces DEF AuthInv
<1> QED BY <1>1 DEF PrefersHealthy

\* Choosing a backend leaves the other requests alone.
LEMMA PicksKeep ==
  ASSUME AuthInv, NEW r \in Requests, NEW b, NEW pc, Picks(r, b, pc)
  PROVE  OthersStay(r) /\ requests'[r].backend = b
<1>1. requests[r] \in RequestType
  BY DEF AuthInv
<1> QED BY <1>1 DEF Picks, OthersStay, AuthInv, RequestType

\* The steps that choose no backend.
LEMMA QuietPicksNothing ==
  ASSUME AuthInv, NEW r \in Requests,
         \/ request_handler(r) \/ AcquireGlobal(r) \/ LimitGlobal(r) \/ AcquireUser(r) \/ LimitUser(r)
         \/ ProxyRefuses(r) \/ read_buffered_body(r) \/ RequestEnds(r) \/ select(r) \/ AdvanceCounter(r)
         \/ (\E o \in Outcomes : attempt(r, o)) \/ NoRetry(r) \/ Retry(r)
  PROVE  NobodyPicks
<1>1. requests \in [Requests -> RequestType]
  BY DEF AuthInv
<1>2. ASSUME NEW code, requests' = Answers(r, code) PROVE NobodyPicks
  BY <1>1, <1>2 DEF NobodyPicks, Answers, RequestType
<1>3. ASSUME NEW code, NEW g, requests' = Disturb(g, Answers(r, code)) PROVE NobodyPicks
  <2> DEFINE f == Answers(r, code)
  <2>1. \A q \in Requests : f[q].backend \in {requests[q].backend, NoBackend}
                            /\ [f[q] EXCEPT !.disturbed = TRUE].backend = f[q].backend
    BY <1>1 DEF Answers, RequestType
  <2>2. \A q \in Requests : requests'[q] = f[q] \/ requests'[q] = [f[q] EXCEPT !.disturbed = TRUE]
    BY <1>3 DEF Disturb
  <2> HIDE DEF f
  <2> QED BY <2>1, <2>2 DEF NobodyPicks
<1>4. ASSUME NEW pc, Goto(r, pc) PROVE NobodyPicks
  BY <1>1, <1>4 DEF NobodyPicks, Goto, RequestType
<1>5. CASE request_handler(r)
  BY <1>1, <1>5 DEF request_handler, NobodyPicks, RequestType
<1>6. CASE read_buffered_body(r)
  <2>1. PICK small \in BOOLEAN : requests' = [requests EXCEPT ![r].pc = "select", ![r].canRetry = small]
    BY <1>6 DEF read_buffered_body
  <2> QED BY <1>1, <2>1 DEF NobodyPicks, RequestType
<1>7. CASE select(r)
  <2>1. PICK pc, n : requests' = [requests EXCEPT ![r] =
          [requests[r] EXCEPT !.pc = pc, !.now = clock, !.i = 0, !.disturbed = FALSE, !.n = n]]
    BY <1>7 DEF select
  <2> DEFINE x == [requests[r] EXCEPT !.pc = pc, !.now = clock, !.i = 0, !.disturbed = FALSE, !.n = n]
  <2>2. x.backend = requests[r].backend
    BY <1>1 DEF RequestType
  <2>3. requests' = [requests EXCEPT ![r] = x]
    BY <2>1
  <2> HIDE DEF x
  <2> QED BY <1>1, <2>2, <2>3 DEF NobodyPicks
<1>8. CASE \E o \in Outcomes : attempt(r, o)
  <2>1. PICK o \in Outcomes : attempt(r, o)
    BY <1>8
  <2> DEFINE x == [requests[r] EXCEPT !.pc = "outcome", !.outcome = o, !.attempts = requests[r].attempts + 1,
                                      !.tried = requests[r].tried \cup {requests[r].backend}]
  <2>2. x.backend = requests[r].backend
    BY <1>1 DEF RequestType
  <2>3. requests' = [requests EXCEPT ![r] = x]
    BY <2>1 DEF attempt
  <2> HIDE DEF x
  <2> QED BY <1>1, <2>2, <2>3 DEF NobodyPicks
<1>9. CASE AcquireGlobal(r) \/ LimitGlobal(r) \/ AcquireUser(r) \/ LimitUser(r) \/ ProxyRefuses(r) \/ AdvanceCounter(r)
  BY <1>4, <1>9 DEF AcquireGlobal, LimitGlobal, AcquireUser, LimitUser, ProxyRefuses, AdvanceCounter
<1>10. CASE RequestEnds(r) \/ NoRetry(r) \/ Retry(r)
  BY <1>2, <1>3, <1>10 DEF RequestEnds, NoRetry, Retry
<1> QED BY <1>5, <1>6, <1>7, <1>8, <1>9, <1>10

\* Each of the three ways to choose prefers healthy backends.
LEMMA SelectionPrefers ==
  ASSUME AuthInv, NEW r \in Requests, get_first_available_backend(r) \/ FastPath(r) \/ SlowPath(r)
  PROVE  \A q \in Requests : PrefersHealthy(q)
<1>1. /\ requests \in [Requests -> RequestType] /\ InOrder(r) /\ SelectionSound(r)
      /\ requests[r].i \in Nat /\ requests[r].n \in Nat /\ NBackends \in Nat \ {0}
      /\ requests[r].pc \in {"first", "fast", "slow"} => requests[r].i <= NBackends
  BY AuthAssumption DEF AuthInv, RequestsInOrder, SelectionsSound, RequestType, InOrder
<1>2. \A q : NobodyPicks /\ q \in Requests => PrefersHealthy(q)
  BY DEF NobodyPicks, PrefersHealthy
<1>3. ASSUME NEW b, NEW pc, Picks(r, b, pc), requests[r].disturbed \/ ~Broken(r, b) \/ \A c \in Backends : Broken(r, c)
      PROVE  \A q \in Requests : PrefersHealthy(q)
  <2>1. OthersStay(r) /\ requests'[r].backend = b
    BY <1>3, PicksKeep
  <2>2. PrefersHealthy(r)
    BY <1>3, <2>1 DEF PrefersHealthy
  <2> QED BY <2>1, <2>2, OthersPickNothing
<1>4. CASE get_first_available_backend(r)
  <2>1. CASE requests[r].i < NBackends /\ Broken(r, requests[r].i)
    <3>1. requests' = [requests EXCEPT ![r].i = requests[r].i + 1]
      BY <1>4, <2>1 DEF get_first_available_backend
    <3>2. NobodyPicks
      BY <1>1, <3>1 DEF NobodyPicks, RequestType
    <3> QED BY <1>2, <3>2
  <2>2. CASE requests[r].i < NBackends /\ ~Broken(r, requests[r].i)
    <3>1. Picks(r, requests[r].i % NBackends, "send")
      BY <1>4, <2>2 DEF get_first_available_backend
    <3>2. requests[r].i % NBackends = requests[r].i
      BY <1>1, <2>2
    <3> QED BY <1>3, <2>2, <3>1, <3>2
  <2>3. CASE requests[r].i = NBackends
    <3>1. Picks(r, requests[r].i % NBackends, "send")
      BY <1>1, <1>4, <2>3 DEF get_first_available_backend
    <3>2. \A c \in Backends : c \in Nat /\ c < NBackends
      BY <1>1 DEF Backends
    <3>3. requests[r].disturbed \/ \A c \in Backends : Broken(r, c)
      BY <1>1, <1>4, <2>3, <3>2 DEF SelectionSound, get_first_available_backend
    <3> QED BY <1>3, <3>1, <3>3
  <2>4. requests[r].i < NBackends \/ requests[r].i = NBackends
    BY <1>1, <1>4 DEF get_first_available_backend
  <2> QED BY <2>1, <2>2, <2>3, <2>4
<1>5. CASE FastPath(r)
  <2>1. CASE requests[r].i = NBackends
    <3> DEFINE m == Pool(r).inFlight[Nth(r, 0)]
               b == Nth(r, 0)
               x == [requests[r] EXCEPT !.pc = "slow", !.i = 1, !.min = b, !.minRequests = m]
    <3>1. requests' = [requests EXCEPT ![r] = x]
      BY <1>5, <2>1 DEF FastPath
    <3> HIDE DEF m, b
    <3>2. x.backend = requests[r].backend
      BY <1>1 DEF RequestType
    <3> HIDE DEF x
    <3>3. NobodyPicks
      BY <1>1, <3>1, <3>2 DEF NobodyPicks
    <3> QED BY <1>2, <3>3
  <2>2. CASE requests[r].i # NBackends /\ requests' = [requests EXCEPT ![r].i = requests[r].i + 1]
    <3>1. NobodyPicks
      BY <1>1, <2>2 DEF NobodyPicks, RequestType
    <3> QED BY <1>2, <3>1
  <2>3. CASE ~Broken(r, Nth(r, requests[r].i)) /\ Picks(r, Nth(r, requests[r].i), "settle")
    BY <1>3, <2>3
  <2> QED BY <1>5, <2>1, <2>2, <2>3 DEF FastPath
<1>6. CASE SlowPath(r)
  <2> DEFINE b == Nth(r, requests[r].i)
             m == Pool(r).inFlight[b]
             x == [requests[r] EXCEPT !.i = requests[r].i + 1, !.min = b, !.minRequests = m]
  <2>1. CASE requests' = [requests EXCEPT ![r] = x]
    <3> HIDE DEF b, m
    <3>1. x.backend = requests[r].backend
      BY <1>1 DEF RequestType
    <3> HIDE DEF x
    <3>2. NobodyPicks
      BY <1>1, <2>1, <3>1 DEF NobodyPicks
    <3> QED BY <1>2, <3>2
  <2>2. CASE requests' = [requests EXCEPT ![r].i = requests[r].i + 1]
    <3>1. NobodyPicks
      BY <1>1, <2>2 DEF NobodyPicks, RequestType
    <3> QED BY <1>2, <3>1
  <2>3. CASE requests[r].i = NBackends /\ Broken(r, requests[r].min) /\ Picks(r, 0, "send")
    <3>1. ASSUME ~requests[r].disturbed, NEW c \in Backends PROVE Broken(r, c)
      <4>1. PICK j \in Nat : j < NBackends /\ (requests[r].n + j) % NBackends = c
        BY <1>1, EveryBackend
      <4>2. Broken(r, Nth(r, j))
        BY <1>1, <1>6, <2>3, <3>1, <4>1 DEF SelectionSound, SlowPath
      <4> QED BY <4>1, <4>2 DEF Nth
    <3> QED BY <1>3, <2>3, <3>1
  <2>4. CASE ~Broken(r, requests[r].min) /\ Picks(r, requests[r].min, "settle")
    BY <1>3, <2>4
  <2> QED BY <1>6, <2>1, <2>2, <2>3, <2>4 DEF SlowPath
<1> QED BY <1>4, <1>5, <1>6

\* A selection that no marking disturbs gives a broken backend only when all are broken
\* (BackendPool::select).
THEOREM AuthPrefersHealthy == AuthSpec => HealthyPreferred
<1>1. AuthInit => AuthInv
  BY AuthStart
<1>2. AuthInv /\ [AuthNext]_authVars => AuthInv'
  BY AuthKept
<1>3. AuthInv /\ [AuthNext]_authVars => [\A r \in Requests : PrefersHealthy(r)]_authVars
  <2> SUFFICES ASSUME AuthInv, AuthNext PROVE \A r \in Requests : PrefersHealthy(r)
    OBVIOUS
  <2>1. NobodyPicks => \A r \in Requests : PrefersHealthy(r)
    BY DEF NobodyPicks, PrefersHealthy
  <2>2. reload_auth \/ TimePasses => NobodyPicks
    BY DEF reload_auth, TimePasses, NobodyPicks
  <2> QED BY <2>1, <2>2, QuietPicksNothing, SelectionPrefers DEF AuthNext
<1> QED BY <1>1, <1>2, <1>3, PTL DEF AuthSpec, HealthyPreferred, PrefersHealthy

----------------------------------------------------------------------------
(* BackupRestore: the destination and the directory.                       *)

\* The parts are those of the files, parts.json included.
LEMMA PartsNamed ==
  /\ Json \in Parts
  /\ \A p \in Parts : p = Json \/ p[1] \in DataFiles
  /\ \A p \in Parts : p[1] = PartsJson <=> p = Json
BY BackupAssumption DEF Parts, PartsIn, Json

\* The parts of files are those of the files, and parts.json.
LEMMA PartsOfFiles ==
  ASSUME NEW F \in SUBSET DataFiles
  PROVE  /\ PartsIn(F) \subseteq Parts
         /\ \A p \in Parts : p \in PartsIn(F) <=> p = Json \/ p[1] \in F
BY BackupAssumption DEF Parts, PartsIn, Json

\* Every file has a first part.
LEMMA FirstPart ==
  /\ \A f \in DataFiles : <<f, 1>> \in Parts
  /\ \A p \in Parts : <<p[1], 1>> \in Parts
  /\ Json[1] = PartsJson /\ Json[2] = 1
BY BackupAssumption DEF Parts, PartsIn, Json

\* What the differences are, by key.
LEMMA MinusOfFull ==
  ASSUME NEW S, NEW b
  PROVE  /\ Minus({<<p, "full">> : p \in S}, b) = {p \in S : <<p, "full">> \notin b \/ p = Json}
         /\ Common({<<p, "full">> : p \in S}, b) = {p \in S : <<p, "full">> \in b /\ p # Json}
<1>1. \A p : <<p, "full">>[1] = p
  OBVIOUS
<1> QED BY <1>1 DEF Minus, Common

\* What a listing has and another one has not.
LEMMA MinusOfRemote ==
  ASSUME NEW parts, NEW b
  PROVE  /\ Minus(RemoteKeys(parts), b) =
              {p \in Parts : parts[p] # "none" /\ (<<p, parts[p]>> \notin b \/ p = Json)}
         /\ \A p \in Parts : <<p, "full">> \in RemoteKeys(parts) <=> parts[p] = "full"
<1>1. \A p : <<p, parts[p]>>[1] = p
  OBVIOUS
<1>2. \A p \in Parts : <<p, "full">> \in RemoteKeys(parts) <=> parts[p] = "full"
  BY DEF RemoteKeys
<1> QED BY <1>1, <1>2 DEF Minus, RemoteKeys

RunningBackup ==
  [active : BOOLEAN, delete : SUBSET Parts, copy : SUBSET Parts, upload : SUBSET Parts, open : SUBSET Parts]

RunningRestore ==
  [stage : {"idle", "delete", "download"}, delete : SUBSET (DataFiles \cup {PartsJson}),
   get : SUBSET Parts, open : SUBSET Parts]

Contents(states) == [parts : [Parts -> states], lists : SUBSET DataFiles]

BackupTyped ==
  /\ serving \in BOOLEAN /\ lock \in BOOLEAN /\ marker \in BOOLEAN /\ interrupts \in 0..MaxInterrupts
  /\ local \in Contents({"none", "zeros", "full"}) /\ remote \in Contents({"none", "torn", "full"})
  /\ used \subseteq DataFiles /\ local.lists \subseteq used /\ remote.lists \subseteq used
  /\ (snapshot = {} \/ \E files : snapshot = {files}) /\ snapshot \subseteq SUBSET used
  /\ origin \in [Parts -> {"none", "torn", "full"}]
  /\ bk \in RunningBackup /\ rs \in RunningRestore

\* One tool runs at a time, each in its stages, and a restore while the server is stopped.
StagesInOrder ==
  /\ ~bk.active => bk = NoBackup
  /\ bk.active => rs.stage = "idle" /\ ~marker
  /\ bk.open \subseteq bk.copy \cup bk.upload /\ bk.copy \cap bk.upload = {}
  /\ bk.open # {} => bk.delete = {}
  /\ rs.stage = "idle" => rs = NoRestore
  /\ rs.stage # "idle" => lock /\ ~serving /\ marker
  /\ rs.stage = "delete" => rs.get = {} /\ rs.open = {}
  /\ rs.stage = "download" => rs.delete = {}
  /\ rs.open \subseteq rs.get

\* The running backup has in hand whatever keeps the destination from being the snapshot.
BackupAhead ==
  bk.active => \E files : 
    /\ snapshot = {files}
    /\ \A p \in PartsIn(files) : p \in bk.copy \cup bk.upload \/ remote.parts[p] = "full"
    /\ \A p \in Parts \ PartsIn(files) : p \in bk.delete \/ remote.parts[p] = "none"
    /\ bk.copy \cup bk.upload \subseteq PartsIn(files)
    /\ \A p \in PartsIn(files) : p \in bk.delete => p \in bk.copy \cup bk.upload
    /\ \A p \in bk.copy : origin[p] = "full" /\ p # Json
    /\ Json \in bk.upload \/ remote.lists = files

\* What holds of the destination wherever restores are interrupted.
RemoteInv == BackupTyped /\ StagesInOrder /\ BackupAhead /\ MarkerMeansWhole

\* Outside of a download no file of the directory is in part there.
LocalFilesWhole ==
  rs.stage # "download" => \A p \in Parts : local.parts[p] # "zeros" /\ local.parts[p] = local.parts[<<p[1], 1>>]

\* The running restore has in hand whatever keeps the directory from being the backup.
RestoreAhead ==
  /\ rs.stage = "delete" => \A p \in Parts : local.parts[p] # "none" =>
       p[1] \in rs.delete \/ (remote.parts[p] = "full" /\ p # Json)
  /\ rs.stage = "download" =>
       /\ \A p \in Parts : p \in rs.get => remote.parts[p] = "full"
       /\ \A p \in Parts : p \notin rs.get => local.parts[p] = remote.parts[p]
       /\ Json \in rs.get \/ local.lists = remote.lists

\* What holds of the directory as well, if no restore is interrupted while it downloads.
DirectoryInv ==
  /\ RemoteInv /\ LocalFilesWhole /\ RestoreAhead
  /\ ~lock => Whole(local)
  /\ serving => ~lock

\* The invariant holds initially.
LEMMA BackupStart ==
  ASSUME BackupInit PROVE DirectoryInv
<1>1. BackupTyped
  <2>1. local \in Contents({"none", "zeros", "full"}) /\ remote \in Contents({"none", "torn", "full"})
    BY DEF BackupInit, Contents
  <2>2. bk \in RunningBackup
    BY DEF BackupInit, NoBackup, RunningBackup
  <2>3. rs \in RunningRestore
    BY DEF BackupInit, NoRestore, RunningRestore
  <2>4. origin \in [Parts -> {"none", "torn", "full"}]
    BY DEF BackupInit
  <2>5. local.lists = {} /\ remote.lists = {} /\ interrupts \in 0..MaxInterrupts
    BY BackupAssumption DEF BackupInit
  <2> QED BY <2>1, <2>2, <2>3, <2>4, <2>5 DEF BackupInit, BackupTyped
<1>2. StagesInOrder /\ BackupAhead /\ MarkerMeansWhole /\ RestoreAhead /\ (serving => ~lock)
  BY DEF BackupInit, StagesInOrder, BackupAhead, MarkerMeansWhole, RestoreAhead, NoBackup, NoRestore
<1>3. \A p \in Parts : p \in PartsIn({}) <=> p = Json
  BY PartsOfFiles
<1>4. \A p \in Parts : local.parts[p] = (IF p = Json THEN "full" ELSE "none") /\ local.lists = {}
  BY DEF BackupInit
<1>5. Whole(local)
  BY <1>3, <1>4 DEF Whole
<1>6. LocalFilesWhole
  <2>1. \A p \in Parts : <<p[1], 1>> = Json <=> p = Json
    BY PartsNamed, FirstPart DEF Json
  <2> QED BY <1>4, <2>1, FirstPart DEF LocalFilesWhole
<1> QED BY <1>1, <1>2, <1>5, <1>6 DEF DirectoryInv, RemoteInv

\* A step of the restore or of the server leaves the backup as whole as it was.
LEMMA RemoteUntouched ==
  ASSUME RemoteInv, UNCHANGED <<remote, marker, origin, bk>>, ~bk.active \/ UNCHANGED snapshot
  PROVE  BackupAhead' /\ MarkerMeansWhole'
BY DEF RemoteInv, BackupAhead, MarkerMeansWhole, Whole

\* The server and the restore leave the destination alone.
LEMMA ServerStep ==
  ASSUME RemoteInv,
         OpenStorage \/ CloseStorage \/ (\E f \in DataFiles, old \in SUBSET local.lists : ReplaceFiles(f, old))
  PROVE  RemoteInv'
<1>1. BackupTyped /\ StagesInOrder
  BY DEF RemoteInv
<1>2. UNCHANGED <<lock, snapshot, remote, marker, origin, bk, rs, interrupts>>
  BY DEF OpenStorage, CloseStorage, ReplaceFiles
<1>3. /\ used' \subseteq DataFiles /\ used \subseteq used' /\ serving' \in BOOLEAN
      /\ local' \in Contents({"none", "zeros", "full"}) /\ local'.lists \subseteq used'
  <2>1. CASE OpenStorage \/ CloseStorage
    BY <1>1, <2>1 DEF OpenStorage, CloseStorage, BackupTyped
  <2>2. ASSUME NEW f \in DataFiles, NEW old \in SUBSET local.lists, ReplaceFiles(f, old)
        PROVE  /\ used' \subseteq DataFiles /\ used \subseteq used' /\ serving' \in BOOLEAN
               /\ local' \in Contents({"none", "zeros", "full"}) /\ local'.lists \subseteq used'
    <3> DEFINE files == (local.lists \ old) \cup {f}
    <3>1. files \subseteq used' /\ used' \subseteq DataFiles /\ used \subseteq used' /\ serving' = serving
      BY <1>1, <2>2 DEF ReplaceFiles, BackupTyped
    <3>2. local' = [parts |-> [p \in Parts |-> IF p \in PartsIn(files) THEN "full" ELSE "none"], lists |-> files]
      BY <2>2 DEF ReplaceFiles
    <3> HIDE DEF files
    <3> QED BY <1>1, <3>1, <3>2 DEF Contents, BackupTyped
  <2> QED BY <2>1, <2>2
<1>4. BackupTyped'
  BY <1>1, <1>2, <1>3 DEF BackupTyped
<1>5. StagesInOrder'
  <2>1. OpenStorage => rs.stage = "idle"
    BY DEF OpenStorage, NoRestore
  <2>2. CASE OpenStorage
    BY <1>1, <1>2, <2>1, <2>2 DEF StagesInOrder
  <2>3. CASE serving' = FALSE
    BY <1>1, <1>2, <2>3 DEF StagesInOrder
  <2>4. CASE serving' = serving
    BY <1>1, <1>2, <2>4 DEF StagesInOrder
  <2> QED BY <2>2, <2>3, <2>4 DEF CloseStorage, ReplaceFiles
<1>6. BackupAhead' /\ MarkerMeansWhole'
  BY <1>2, RemoteUntouched
<1> QED BY <1>4, <1>5, <1>6 DEF RemoteInv

\* Backup::run: the comparison leaves in hand whatever differs.
LEMMA BackupRunStep ==
  ASSUME RemoteInv, esbackup
  PROVE  RemoteInv'
<1>1. BackupTyped /\ StagesInOrder
  BY DEF RemoteInv
<1>2. PICK files \in SUBSET used : Backup_run(files)
  BY <1>1 DEF esbackup, BackupTyped
<1> DEFINE T == PartsIn(files)
           src == {<<p, "full">> : p \in T}
           dst == RemoteKeys(remote.parts)
           fresh == {p \in T : remote.parts[p] # "full" \/ p = Json}
<1>3. T \subseteq Parts /\ Json \in T
  BY <1>1, PartsOfFiles, PartsNamed DEF BackupTyped
<1>4. /\ ~bk.active /\ rs = NoRestore /\ marker' = FALSE /\ snapshot' = {files}
      /\ UNCHANGED <<serving, local, lock, used, remote, rs, interrupts>>
      /\ \E o \in Origins : origin' = [p \in Parts |-> IF p[1] \in used THEN o[p] ELSE "none"]
  BY <1>2 DEF Backup_run
<1>5. origin' \in [Parts -> {"none", "torn", "full"}]
  BY <1>4, BackupAssumption
<1>6. /\ Minus(src, dst) = fresh
      /\ \A p \in Parts : p \in Minus(dst, src) <=> remote.parts[p] # "none" /\ (<<p, remote.parts[p]>> \notin src \/ p = Json)
      /\ Minus(dst, src) \subseteq Parts
  <2>1. Minus(src, dst) = {p \in T : <<p, "full">> \notin dst \/ p = Json}
    BY MinusOfFull
  <2>2. \A p \in Parts : <<p, "full">> \in dst <=> remote.parts[p] = "full"
    BY MinusOfRemote
  <2>3. Minus(dst, src) = {p \in Parts : remote.parts[p] # "none" /\ (<<p, remote.parts[p]>> \notin src \/ p = Json)}
    BY MinusOfRemote
  <2>4. \A p \in T : (<<p, "full">> \notin dst \/ p = Json) <=> (remote.parts[p] # "full" \/ p = Json)
    BY <1>3, <2>2
  <2> HIDE DEF src, dst, T
  <2>5. Minus(src, dst) = fresh
    BY <2>1, <2>4
  <2> QED BY <2>3, <2>5
<1>7. /\ Common({<<p, "full">> : p \in fresh}, RemoteKeys(origin')) = {p \in fresh : origin'[p] = "full" /\ p # Json}
      /\ Minus({<<p, "full">> : p \in fresh}, RemoteKeys(origin')) = {p \in fresh : origin'[p] # "full" \/ p = Json}
  <2>1. \A p \in Parts : <<p, "full">> \in RemoteKeys(origin') <=> origin'[p] = "full"
    BY MinusOfRemote
  <2>2. fresh \subseteq Parts
    BY <1>3
  <2> HIDE DEF fresh
  <2> DEFINE K == RemoteKeys(origin')
  <2>3. /\ Common({<<p, "full">> : p \in fresh}, K) = {p \in fresh : <<p, "full">> \in K /\ p # Json}
        /\ Minus({<<p, "full">> : p \in fresh}, K) = {p \in fresh : <<p, "full">> \notin K \/ p = Json}
    BY MinusOfFull
  <2>4. \A p \in fresh : <<p, "full">> \in K <=> origin'[p] = "full"
    BY <2>1, <2>2
  <2> HIDE DEF K
  <2> QED BY <2>3, <2>4 DEF K
<1>8. bk' = [active |-> TRUE, open |-> {}, delete |-> Minus(dst, src),
             copy |-> {p \in fresh : origin'[p] = "full" /\ p # Json},
             upload |-> {p \in fresh : origin'[p] # "full" \/ p = Json}]
  <2>1. bk' = [active |-> TRUE, open |-> {}, delete |-> Minus(dst, src),
               copy |-> Common({<<p, "full">> : p \in Minus(src, dst)}, RemoteKeys(origin')),
               upload |-> Minus({<<p, "full">> : p \in Minus(src, dst)}, RemoteKeys(origin'))]
    BY <1>2 DEF Backup_run
  <2> HIDE DEF src, dst, fresh, T
  <2> QED BY <1>6, <1>7, <2>1
<1>9. /\ bk'.active = TRUE /\ bk'.open = {} /\ bk'.delete = Minus(dst, src)
      /\ bk'.copy = {p \in fresh : origin'[p] = "full" /\ p # Json}
      /\ bk'.upload = {p \in fresh : origin'[p] # "full" \/ p = Json}
      /\ fresh \subseteq T /\ Minus(dst, src) \subseteq Parts
  <2> HIDE DEF src, dst, T
  <2> QED BY <1>6, <1>8
<1>10. bk' \in RunningBackup
  <2> HIDE DEF src, dst, T, fresh
  <2> QED BY <1>3, <1>8, <1>9 DEF RunningBackup
<1>11. BackupTyped'
  BY <1>1, <1>2, <1>4, <1>5, <1>10 DEF BackupTyped
<1>12. StagesInOrder'
  <2>1. rs.stage = "idle"
    BY <1>4 DEF NoRestore
  <2> HIDE DEF src, dst, T, fresh
  <2> QED BY <1>1, <1>4, <1>9, <2>1 DEF StagesInOrder
<1>13. BackupAhead'
  <2>1. \A p \in T : p \in bk'.copy \cup bk'.upload \/ remote'.parts[p] = "full"
    BY <1>4, <1>9
  <2>2. \A p \in Parts \ T : p \in bk'.delete \/ remote'.parts[p] = "none"
    <3>1. \A p \in Parts \ T : <<p, remote.parts[p]>> \notin src
      OBVIOUS
    <3> HIDE DEF src, dst, T
    <3> QED BY ZenonT(40), <1>4, <1>6, <1>9, <3>1
  <2>3. bk'.copy \cup bk'.upload \subseteq T /\ Json \in bk'.upload
    BY <1>3, <1>9
  <2>4. \A p \in T : p \in bk'.delete => p \in bk'.copy \cup bk'.upload
    <3>1. \A p \in T : remote.parts[p] = "full" => <<p, remote.parts[p]>> \in src
      OBVIOUS
    <3>2. \A p \in T : p \notin fresh => remote.parts[p] = "full" /\ p # Json
      OBVIOUS
    <3>3. \A p \in T : p \notin fresh => p \notin bk'.delete
      <4>1. bk'.delete = Minus(dst, src) /\ \A p \in T : p \in Parts
        BY <1>3, <1>9
      <4> HIDE DEF src, dst, T, fresh
      <4> QED BY <1>6, <3>1, <3>2, <4>1
    <3> HIDE DEF src, dst, T, fresh
    <3> QED BY <1>9, <3>3
  <2>5. \A p \in bk'.copy : origin'[p] = "full" /\ p # Json
    BY <1>9
  <2> QED BY <1>4, <2>1, <2>2, <2>3, <2>4, <2>5 DEF BackupAhead
<1>14. MarkerMeansWhole'
  BY <1>4 DEF MarkerMeansWhole
<1> QED BY <1>11, <1>12, <1>13, <1>14 DEF RemoteInv

\* What a step of the running backup leaves: one part less to do, and that one in place.
LEMMA PartStep ==
  ASSUME RemoteInv, NEW p \in Parts, delete_part(p) \/ CreatePart(p) \/ copy_part_from(p) \/ upload_part(p)
  PROVE  RemoteInv'
<1>1. BackupTyped /\ StagesInOrder /\ bk \in RunningBackup /\ remote \in Contents({"none", "torn", "full"})
  BY DEF RemoteInv, BackupTyped
<1>2. bk.active
  BY <1>1 DEF StagesInOrder, NoBackup, delete_part, CreatePart, copy_part_from, upload_part
<1>3. PICK files :
        /\ snapshot = {files}
        /\ \A q \in PartsIn(files) : q \in bk.copy \cup bk.upload \/ remote.parts[q] = "full"
        /\ \A q \in Parts \ PartsIn(files) : q \in bk.delete \/ remote.parts[q] = "none"
        /\ bk.copy \cup bk.upload \subseteq PartsIn(files)
        /\ \A q \in PartsIn(files) : q \in bk.delete => q \in bk.copy \cup bk.upload
        /\ \A q \in bk.copy : origin[q] = "full" /\ q # Json
        /\ Json \in bk.upload \/ remote.lists = files
  BY <1>2 DEF RemoteInv, BackupAhead
<1>4. files \subseteq used /\ files \subseteq DataFiles /\ PartsIn(files) \subseteq Parts
  <2>1. files \subseteq used /\ files \subseteq DataFiles
    BY <1>1, <1>3 DEF BackupTyped
  <2> QED BY <2>1, PartsOfFiles
<1>5. UNCHANGED <<serving, local, lock, snapshot, used, marker, origin, rs, interrupts>>
  BY DEF delete_part, CreatePart, copy_part_from, upload_part
<1>6. ~marker /\ rs.stage = "idle"
  BY <1>1, <1>2 DEF StagesInOrder
\* The new state, part by part.
<1>7. /\ remote' \in Contents({"none", "torn", "full"}) /\ bk' \in RunningBackup /\ bk'.active
      /\ bk'.delete \subseteq bk.delete /\ bk'.copy \subseteq bk.copy /\ bk'.upload \subseteq bk.upload
      /\ bk'.open \subseteq bk'.copy \cup bk'.upload
      /\ bk'.open # {} => bk'.delete = {}
      /\ \A q \in Parts \ {p} : remote'.parts[q] = remote.parts[q]
      /\ \A q \in Parts \ {p} : q \in bk.delete => q \in bk'.delete
      /\ \A q \in Parts \ {p} : q \in bk.copy \cup bk.upload => q \in bk'.copy \cup bk'.upload
      /\ p \in bk.copy \cup bk.upload => p \in bk'.copy \cup bk'.upload \/ remote'.parts[p] = "full"
      /\ p \in bk.delete \/ p \in bk.copy \cup bk.upload
      /\ p \in bk.delete /\ p \notin bk.copy \cup bk.upload => remote'.parts[p] = "none" 
      /\ p \in bk'.delete => p \in bk'.copy \cup bk'.upload
      /\ Json \in bk.upload => Json \in bk'.upload \/ remote'.lists = files
      /\ Json \notin bk.upload => remote'.lists = remote.lists
      /\ remote'.lists \subseteq used
  <2>1. CASE delete_part(p)
    <3>1. p \in bk.delete /\ remote' = [remote EXCEPT !.parts[p] = "none"] /\ bk' = [bk EXCEPT !.delete = @ \ {p}]
      BY <2>1 DEF delete_part
    <3>2. /\ bk'.active = bk.active /\ bk'.delete = bk.delete \ {p} /\ bk'.copy = bk.copy
          /\ bk'.upload = bk.upload /\ bk'.open = bk.open /\ bk' \in RunningBackup
      BY <1>1, <3>1 DEF RunningBackup
    <3>3. /\ remote' \in Contents({"none", "torn", "full"}) /\ remote'.lists = remote.lists
          /\ remote'.parts[p] = "none" /\ \A q \in Parts \ {p} : remote'.parts[q] = remote.parts[q]
      BY <1>1, <3>1 DEF Contents
    <3>4. remote.lists \subseteq used /\ bk.open \subseteq bk.copy \cup bk.upload /\ bk.open = {}
      BY <1>1, <3>1 DEF BackupTyped, StagesInOrder
    <3> QED BY <1>2, <2>1, <3>2, <3>3, <3>4 DEF delete_part
  <2>2. CASE CreatePart(p)
    <3>1. /\ bk.delete = {} /\ p \in bk.copy \cup bk.upload
          /\ remote' = [remote EXCEPT !.parts[p] = "torn"] /\ bk' = [bk EXCEPT !.open = @ \cup {p}]
      BY <2>2 DEF CreatePart
    <3>2. /\ bk'.active = bk.active /\ bk'.delete = bk.delete /\ bk'.copy = bk.copy
          /\ bk'.upload = bk.upload /\ bk'.open = bk.open \cup {p} /\ bk' \in RunningBackup
      BY <1>1, <3>1 DEF RunningBackup
    <3>3. /\ remote' \in Contents({"none", "torn", "full"}) /\ remote'.lists = remote.lists
          /\ \A q \in Parts \ {p} : remote'.parts[q] = remote.parts[q]
      BY <1>1, <3>1 DEF Contents
    <3>4. remote.lists \subseteq used /\ bk.open \subseteq bk.copy \cup bk.upload
          /\ bk.delete = {} /\ p \in bk.copy \cup bk.upload
      BY <1>1, <3>1 DEF BackupTyped, StagesInOrder
    <3> QED BY <1>2, <3>2, <3>3, <3>4
  <2>3. CASE copy_part_from(p)
    <3>1. /\ p \in bk.open /\ p \in bk.copy
          /\ remote' = [remote EXCEPT !.parts[p] = origin[p]] /\ bk' = [bk EXCEPT !.open = @ \ {p}, !.copy = @ \ {p}]
      BY <2>3 DEF copy_part_from
    <3>2. /\ bk'.active = bk.active /\ bk'.delete = bk.delete /\ bk'.copy = bk.copy \ {p}
          /\ bk'.upload = bk.upload /\ bk'.open = bk.open \ {p} /\ bk' \in RunningBackup
      BY <1>1, <3>1 DEF RunningBackup
    <3>3. origin[p] = "full" /\ p # Json
      BY <1>3, <3>1
    <3>4. /\ remote' \in Contents({"none", "torn", "full"}) /\ remote'.lists = remote.lists
          /\ remote'.parts[p] = "full" /\ \A q \in Parts \ {p} : remote'.parts[q] = remote.parts[q]
      BY <1>1, <3>1, <3>3 DEF Contents
    <3>5. /\ remote.lists \subseteq used /\ bk.open \subseteq bk.copy \cup bk.upload
          /\ bk.delete = {} /\ p \in bk.copy /\ p \notin bk.upload
      BY <1>1, <3>1 DEF BackupTyped, StagesInOrder
    <3> QED BY <1>2, <3>2, <3>3, <3>4, <3>5
  <2>4. CASE upload_part(p)
    <3>1. /\ p \in bk.open /\ p \in bk.upload /\ bk' = [bk EXCEPT !.open = @ \ {p}, !.upload = @ \ {p}]
          /\ remote' = [parts |-> [remote.parts EXCEPT ![p] = "full"], lists |-> IF p = Json THEN files ELSE remote.lists]
      BY <1>3, <2>4 DEF upload_part
    <3>2. /\ bk'.active = bk.active /\ bk'.delete = bk.delete /\ bk'.copy = bk.copy
          /\ bk'.upload = bk.upload \ {p} /\ bk'.open = bk.open \ {p} /\ bk' \in RunningBackup
      BY <1>1, <3>1 DEF RunningBackup
    <3>3. remote.lists \subseteq used /\ remote.lists \subseteq DataFiles
      BY <1>1 DEF BackupTyped
    <3>4. /\ remote' \in Contents({"none", "torn", "full"}) /\ remote'.lists = (IF p = Json THEN files ELSE remote.lists)
          /\ remote'.parts[p] = "full" /\ \A q \in Parts \ {p} : remote'.parts[q] = remote.parts[q]
      BY <1>1, <1>4, <3>1, <3>3 DEF Contents
    <3>5. /\ bk.open \subseteq bk.copy \cup bk.upload
          /\ bk.delete = {} /\ p \in bk.upload /\ p \notin bk.copy
      BY <1>1, <3>1 DEF BackupTyped, StagesInOrder
    <3> QED BY <1>2, <1>4, <3>2, <3>3, <3>4, <3>5
  <2> QED BY <2>1, <2>2, <2>3, <2>4
<1>8. BackupTyped'
  BY <1>1, <1>5, <1>7 DEF BackupTyped
<1>9. StagesInOrder'
  BY <1>1, <1>2, <1>5, <1>6, <1>7 DEF StagesInOrder
<1>10. BackupAhead'
  <2>1. \A q \in PartsIn(files) : q \in bk'.copy \cup bk'.upload \/ remote'.parts[q] = "full"
    BY <1>3, <1>4, <1>7
  <2>2. \A q \in Parts \ PartsIn(files) : q \in bk'.delete \/ remote'.parts[q] = "none"
    BY <1>3, <1>7
  <2>3. bk'.copy \cup bk'.upload \subseteq PartsIn(files)
    BY <1>3, <1>7
  <2>4. \A q \in PartsIn(files) : q \in bk'.delete => q \in bk'.copy \cup bk'.upload
    BY <1>3, <1>4, <1>7
  <2>5. \A q \in bk'.copy : origin'[q] = "full" /\ q # Json
    BY <1>3, <1>5, <1>7
  <2>6. Json \in bk'.upload \/ remote'.lists = files
    BY <1>3, <1>7
  <2> QED BY <1>3, <1>5, <2>1, <2>2, <2>3, <2>4, <2>5, <2>6 DEF BackupAhead
<1>11. MarkerMeansWhole'
  BY <1>5, <1>6 DEF MarkerMeansWhole
<1> QED BY <1>8, <1>9, <1>10, <1>11 DEF RemoteInv

\* The marker is written when nothing is left to do.
LEMMA BackupEndStep ==
  ASSUME RemoteInv, CompleteBackup \/ BackupInterrupted
  PROVE  RemoteInv'
<1>1. BackupTyped /\ StagesInOrder /\ bk.active
  BY DEF RemoteInv, CompleteBackup, BackupInterrupted
<1>2. /\ bk' = NoBackup /\ snapshot' \in {snapshot, {}} /\ interrupts' \in 0..MaxInterrupts
      /\ UNCHANGED <<serving, local, lock, used, remote, origin, rs>> /\ marker' \in BOOLEAN
  <2>1. CASE CompleteBackup
    BY <1>1, <2>1 DEF CompleteBackup, BackupTyped
  <2>2. CASE BackupInterrupted
    <3>1. interrupts' \in 0..MaxInterrupts
      BY <1>1, <2>2, BackupAssumption DEF BackupInterrupted, BackupTyped
    <3> QED BY <1>1, <2>2, <3>1 DEF BackupInterrupted, BackupTyped
  <2> QED BY <2>1, <2>2
<1>3. NoBackup \in RunningBackup /\ NoBackup.active = FALSE /\ NoBackup.open = {} /\ NoBackup.delete = {}
      /\ NoBackup.copy = {} /\ NoBackup.upload = {}
  BY DEF NoBackup, RunningBackup
<1>4. BackupTyped'
  BY <1>1, <1>2, <1>3 DEF BackupTyped
<1>5. StagesInOrder'
  BY <1>1, <1>2, <1>3 DEF StagesInOrder
<1>6. BackupAhead'
  BY <1>2, <1>3 DEF BackupAhead
<1>7. MarkerMeansWhole'
  <2>1. CASE BackupInterrupted
    <3>1. ~marker'
      BY <1>1, <2>1 DEF BackupInterrupted, StagesInOrder
    <3> QED BY <3>1 DEF MarkerMeansWhole
  <2>2. CASE CompleteBackup
    <3>1. bk.delete = {} /\ bk.copy = {} /\ bk.upload = {}
      BY <2>2 DEF CompleteBackup
    <3>2. PICK files :
            /\ \A q \in PartsIn(files) : remote.parts[q] = "full"
            /\ \A q \in Parts \ PartsIn(files) : remote.parts[q] = "none"
            /\ remote.lists = files
      BY <1>1, <3>1 DEF RemoteInv, BackupAhead
    <3>3. Whole(remote)
      BY <3>2 DEF Whole
    <3> QED BY <1>2, <3>3 DEF MarkerMeansWhole, Whole
  <2> QED BY <2>1, <2>2
<1> QED BY <1>4, <1>5, <1>6, <1>7 DEF RemoteInv

\* A restore, step by step: its own bookkeeping.
LEMMA RestoreRunStep ==
  ASSUME RemoteInv, Restore_run
  PROVE  RemoteInv'
<1>1. BackupTyped /\ StagesInOrder /\ ~bk.active /\ marker /\ ~serving
  BY DEF RemoteInv, Restore_run
<1>2. UNCHANGED <<serving, local, snapshot, used, remote, marker, origin, bk, interrupts>> /\ lock' = TRUE
  BY DEF Restore_run
<1>3. rs' \in RunningRestore /\ rs'.get = {} /\ rs'.open = {} /\ rs'.stage \in {"idle", "delete"}
      /\ (rs'.stage = "idle" => rs' = NoRestore)
  <2>1. CASE rs' = NoRestore
    BY <2>1 DEF NoRestore, RunningRestore
  <2>2. CASE rs' # NoRestore
    <3> DEFINE D == {p[1] : p \in {q \in Minus(LocalKeys(local.parts), RemoteKeys(remote.parts)) : q[2] = 1}}
    <3>1. rs' = [NoRestore EXCEPT !.stage = "delete", !.delete = D]
      BY <2>2 DEF Restore_run
    <3>2. D \subseteq DataFiles \cup {PartsJson}
      <4>1. Minus(LocalKeys(local.parts), RemoteKeys(remote.parts)) \subseteq Parts
        BY DEF Minus, LocalKeys
      <4>2. \A p \in Parts : p[1] \in DataFiles \cup {PartsJson}
        BY PartsNamed
      <4> QED BY <4>1, <4>2
    <3> HIDE DEF D
    <3> QED BY <3>1, <3>2 DEF NoRestore, RunningRestore
  <2> QED BY <2>1, <2>2
<1>4. BackupTyped'
  BY <1>1, <1>2, <1>3 DEF BackupTyped
<1>5. StagesInOrder'
  BY <1>1, <1>2, <1>3 DEF StagesInOrder
<1> QED BY <1>1, <1>2, <1>4, <1>5, RemoteUntouched DEF RemoteInv

\* The steps of a restore keep the invariant about the backup.
LEMMA RestoreWorkStep ==
  ASSUME RemoteInv,
         \/ ListMissing \/ CompleteRestore \/ RestoreInterrupted
         \/ (\E f \in DataFiles \cup {PartsJson} : delete_path(f))
         \/ (\E p \in Parts : GrowFile(p) \/ write_part_at(p))
  PROVE  RemoteInv'
<1>1. BackupTyped /\ StagesInOrder /\ rs \in RunningRestore /\ local \in Contents({"none", "zeros", "full"})
  BY DEF RemoteInv, BackupTyped
<1>2. rs.stage # "idle"
  <2>1. rs = NoRestore => rs.stage = "idle" /\ rs.delete = {} /\ rs.get = {} /\ rs.open = {}
    BY DEF NoRestore
  <2>2. RestoreInterrupted => rs.stage \in {"delete", "download"}
    BY BackupAssumption DEF RestoreInterrupted
  <2> QED BY <1>1, <2>1, <2>2 DEF StagesInOrder, ListMissing, CompleteRestore, delete_path, GrowFile, write_part_at
<1>3. ~bk.active /\ ~serving /\ lock /\ marker
  BY <1>1, <1>2 DEF StagesInOrder
<1>4. NoRestore \in RunningRestore /\ NoRestore.stage = "idle" /\ NoRestore.open = {} /\ NoRestore.get = {}
  BY DEF NoRestore, RunningRestore
<1>5. CASE CompleteRestore \/ RestoreInterrupted
  <2>1. /\ UNCHANGED <<serving, local, snapshot, used, remote, marker, origin, bk>> /\ rs' = NoRestore
        /\ lock' \in BOOLEAN /\ interrupts' \in 0..MaxInterrupts
    <3>1. CASE CompleteRestore
      BY <1>1, <3>1 DEF CompleteRestore, BackupTyped
    <3>2. CASE RestoreInterrupted
      <4>1. interrupts' \in 0..MaxInterrupts
        BY <1>1, <3>2, BackupAssumption DEF RestoreInterrupted, BackupTyped
      <4> QED BY <1>1, <3>2, <4>1 DEF RestoreInterrupted, BackupTyped
    <3> QED BY <1>5, <3>1, <3>2
  <2>2. BackupTyped'
    BY <1>1, <1>4, <2>1 DEF BackupTyped
  <2>3. StagesInOrder'
    BY <1>1, <1>3, <1>4, <2>1 DEF StagesInOrder
  <2> QED BY <2>1, <2>2, <2>3, RemoteUntouched DEF RemoteInv
<1>6. CASE ListMissing
  <2> DEFINE G == Minus(RemoteKeys(remote.parts), LocalKeys(local.parts))
  <2>1. UNCHANGED <<serving, local, lock, snapshot, used, remote, marker, origin, bk, interrupts>>
        /\ rs.stage = "delete" /\ rs.delete = {} /\ rs' = [rs EXCEPT !.stage = "download", !.get = G]
    BY <1>6 DEF ListMissing
  <2>2. G \subseteq Parts
    BY DEF Minus, RemoteKeys
  <2> HIDE DEF G
  <2>3. rs' \in RunningRestore /\ rs'.stage = "download" /\ rs'.get = G /\ rs'.open = rs.open /\ rs'.delete = {}
    BY <1>1, <2>1, <2>2 DEF RunningRestore
  <2>4. BackupTyped'
    BY <1>1, <2>1, <2>3 DEF BackupTyped
  <2>5. StagesInOrder'
    BY <1>1, <1>3, <2>1, <2>3 DEF StagesInOrder
  <2> QED BY <2>1, <2>4, <2>5, RemoteUntouched DEF RemoteInv
<1>7. ASSUME NEW f \in DataFiles \cup {PartsJson}, delete_path(f)
      PROVE  RemoteInv'
  <2>1. UNCHANGED <<serving, lock, used, remote, marker, origin, bk, interrupts>> /\ snapshot' = {}
        /\ rs' = [rs EXCEPT !.delete = rs.delete \ {f}] /\ f \in rs.delete
    BY <1>7 DEF delete_path
  <2>2. rs' \in RunningRestore /\ rs'.stage = rs.stage /\ rs'.get = rs.get /\ rs'.open = rs.open
        /\ rs'.delete = rs.delete \ {f}
    BY <1>1, <2>1 DEF RunningRestore
  <2>3. local' \in Contents({"none", "zeros", "full"}) /\ local'.lists = local.lists
    BY <1>1, <1>7 DEF delete_path, Contents
  <2>4. BackupTyped'
    BY <1>1, <2>1, <2>2, <2>3 DEF BackupTyped
  <2>5. StagesInOrder'
    BY <1>1, <1>2, <1>3, <2>1, <2>2 DEF StagesInOrder
  <2> QED BY <1>3, <2>1, <2>4, <2>5, RemoteUntouched DEF RemoteInv
<1>8. ASSUME NEW p \in Parts, GrowFile(p)
      PROVE  RemoteInv'
  <2>1. UNCHANGED <<serving, lock, snapshot, used, remote, marker, origin, bk, interrupts>>
        /\ rs' = [rs EXCEPT !.open = rs.open \cup {p}] /\ p \in rs.get
    BY <1>8 DEF GrowFile
  <2>2. rs' \in RunningRestore /\ rs'.stage = rs.stage /\ rs'.get = rs.get /\ rs'.open = rs.open \cup {p}
        /\ rs'.delete = rs.delete
    BY <1>1, <2>1 DEF RunningRestore
  <2>3. local' \in Contents({"none", "zeros", "full"}) /\ local'.lists = local.lists
    BY <1>1, <1>8 DEF GrowFile, Contents
  <2>4. BackupTyped'
    BY <1>1, <2>1, <2>2, <2>3 DEF BackupTyped
  <2>5. StagesInOrder'
    BY <1>1, <1>2, <1>3, <2>1, <2>2 DEF StagesInOrder
  <2> QED BY <2>1, <2>4, <2>5, RemoteUntouched DEF RemoteInv
<1>9. ASSUME NEW p \in Parts, write_part_at(p)
      PROVE  RemoteInv'
  <2>1. UNCHANGED <<serving, lock, snapshot, used, remote, marker, origin, bk, interrupts>>
        /\ rs' = [rs EXCEPT !.open = rs.open \ {p}, !.get = rs.get \ {p}] /\ p \in rs.open
    BY <1>9 DEF write_part_at
  <2>2. rs' \in RunningRestore /\ rs'.stage = rs.stage /\ rs'.get = rs.get \ {p} /\ rs'.open = rs.open \ {p}
        /\ rs'.delete = rs.delete
    BY <1>1, <2>1 DEF RunningRestore
  <2>3. local' \in Contents({"none", "zeros", "full"}) /\ local'.lists \subseteq used
    <3>1. local' = [parts |-> [local.parts EXCEPT ![p] = "full"], lists |-> IF p = Json THEN remote.lists ELSE local.lists]
      BY <1>9 DEF write_part_at
    <3>2. remote.lists \subseteq used /\ local.lists \subseteq used /\ used \subseteq DataFiles
      BY <1>1 DEF BackupTyped
    <3> QED BY <1>1, <3>1, <3>2 DEF Contents
  <2>4. BackupTyped'
    BY <1>1, <2>1, <2>2, <2>3 DEF BackupTyped
  <2>5. StagesInOrder'
    BY <1>1, <1>2, <1>3, <2>1, <2>2 DEF StagesInOrder
  <2> QED BY <2>1, <2>4, <2>5, RemoteUntouched DEF RemoteInv
<1> QED BY <1>5, <1>6, <1>7, <1>8, <1>9

\* Every step keeps the invariant about the backup.
LEMMA RemoteKept ==
  RemoteInv /\ [BackupNext]_backupVars => RemoteInv'
<1> SUFFICES ASSUME RemoteInv, [BackupNext]_backupVars PROVE RemoteInv'
  OBVIOUS
<1>1. CASE UNCHANGED backupVars
  BY <1>1 DEF backupVars, RemoteInv, BackupTyped, StagesInOrder, BackupAhead, MarkerMeansWhole, Whole
<1>2. CASE OpenStorage \/ CloseStorage \/ (\E f \in DataFiles, old \in SUBSET local.lists : ReplaceFiles(f, old))
  BY <1>2, ServerStep
<1>3. CASE esbackup \/ CompleteBackup \/ BackupInterrupted \/ Restore_run
  BY <1>3, BackupRunStep, BackupEndStep, RestoreRunStep
<1>4. CASE \E p \in Parts : delete_part(p) \/ CreatePart(p) \/ copy_part_from(p) \/ upload_part(p)
  BY <1>4, PartStep
<1>5. CASE \/ ListMissing \/ CompleteRestore \/ RestoreInterrupted
           \/ (\E f \in DataFiles \cup {PartsJson} : delete_path(f))
           \/ (\E p \in Parts : GrowFile(p) \/ write_part_at(p))
  BY <1>5, RestoreWorkStep
<1> QED BY <1>1, <1>2, <1>3, <1>4, <1>5 DEF BackupNext

\* The invariant contains the types.
LEMMA RemoteInvTyped ==
  RemoteInv => BackupTypeOK
<1> SUFFICES ASSUME RemoteInv PROVE BackupTypeOK
  OBVIOUS
<1>1. Cardinality(snapshot) <= 1
  <2>1. CASE snapshot = {}
    BY <2>1, FS_EmptySet
  <2>2. CASE \E files : snapshot = {files}
    BY <2>2, FS_Singleton
  <2> QED BY <2>1, <2>2 DEF RemoteInv, BackupTyped
<1>2. \A files \in snapshot : files \subseteq used
  BY DEF RemoteInv, BackupTyped
<1> QED BY <1>1, <1>2 DEF RemoteInv, BackupTyped, StagesInOrder, BackupTypeOK, Contents

\* backup_complete.ignore is only ever beside a whole backup, whatever backups and restores were
\* interrupted before, at any stage (Backup::run).
THEOREM MarkerOnlyWhenWhole == BackupSpec => [](BackupTypeOK /\ MarkerMeansWhole)
<1>1. BackupInit => RemoteInv
  BY BackupStart DEF DirectoryInv
<1>2. RemoteInv => BackupTypeOK /\ MarkerMeansWhole
  BY RemoteInvTyped DEF RemoteInv
<1> QED BY <1>1, <1>2, RemoteKept, PTL DEF BackupSpec

\* In a directory or a backup that is whole, every file is there in full or not at all.
LEMMA WholeByFile ==
  ASSUME NEW place, place.lists \in SUBSET DataFiles, Whole(place)
  PROVE  \A p \in Parts : /\ place.parts[p] \in {"none", "full"}
                          /\ <<p[1], 1>> \in Parts /\ place.parts[p] = place.parts[<<p[1], 1>>]
                          /\ place.parts[p] = "full" <=> (p = Json \/ p[1] \in place.lists)
<1>1. \A p \in Parts : <<p[1], 1>> \in Parts /\ (<<p[1], 1>> = Json <=> p = Json) /\ <<p[1], 1>>[1] = p[1]
  BY PartsNamed, FirstPart DEF Json
<1>2. \A p \in Parts : p \in PartsIn(place.lists) <=> p = Json \/ p[1] \in place.lists
  BY PartsOfFiles
<1>3. \A p \in Parts : place.parts[p] = IF p = Json \/ p[1] \in place.lists THEN "full" ELSE "none"
  BY <1>2 DEF Whole
<1> SUFFICES ASSUME NEW p \in Parts
             PROVE  /\ place.parts[p] \in {"none", "full"}
                    /\ <<p[1], 1>> \in Parts /\ place.parts[p] = place.parts[<<p[1], 1>>]
                    /\ place.parts[p] = "full" <=> (p = Json \/ p[1] \in place.lists)
  OBVIOUS
<1>4. PICK q \in Parts : q = <<p[1], 1>> /\ (q = Json <=> p = Json) /\ q[1] = p[1]
  BY <1>1
<1>5. place.parts[p] = place.parts[q]
  BY <1>3, <1>4
<1> QED BY <1>3, <1>4, <1>5

\* The server changes its files.
LEMMA DirectoryServer ==
  ASSUME DirectoryInv,
         OpenStorage \/ CloseStorage \/ (\E f \in DataFiles, old \in SUBSET local.lists : ReplaceFiles(f, old))
  PROVE  LocalFilesWhole' /\ RestoreAhead' /\ (~lock' => Whole(local')) /\ (serving' => ~lock')
<1>1. BackupTyped /\ StagesInOrder
  BY DEF DirectoryInv, RemoteInv
<1>2. CASE OpenStorage \/ CloseStorage
  <2>1. UNCHANGED <<local, lock, remote, rs>> /\ (serving' => ~lock')
    BY <1>2 DEF OpenStorage, CloseStorage
  <2> QED BY <2>1 DEF DirectoryInv, LocalFilesWhole, RestoreAhead, Whole
<1>3. ASSUME NEW f \in DataFiles, NEW old \in SUBSET local.lists, ReplaceFiles(f, old)
      PROVE  LocalFilesWhole' /\ RestoreAhead' /\ (~lock' => Whole(local')) /\ (serving' => ~lock')
  <2> DEFINE files == (local.lists \ old) \cup {f}
  <2>1. files \in SUBSET DataFiles /\ UNCHANGED <<serving, lock, rs>> /\ serving
    BY <1>1, <1>3 DEF ReplaceFiles, BackupTyped
  <2>2. local' = [parts |-> [p \in Parts |-> IF p \in PartsIn(files) THEN "full" ELSE "none"], lists |-> files]
    BY <1>3 DEF ReplaceFiles
  <2> HIDE DEF files
  <2>3. local'.lists = files /\ \A p \in Parts : local'.parts[p] = IF p \in PartsIn(local'.lists) THEN "full" ELSE "none"
    BY <2>2
  <2>4. Whole(local')
    BY <2>3 DEF Whole
  <2>5. LocalFilesWhole'
    BY <2>1, <2>3, <2>4, WholeByFile DEF LocalFilesWhole
  <2>6. rs'.stage = "idle"
    BY <1>1, <2>1 DEF StagesInOrder, BackupTyped, RunningRestore
  <2> QED BY <2>1, <2>4, <2>5, <2>6 DEF RestoreAhead, DirectoryInv
<1> QED BY <1>2, <1>3

\* A backup writes nothing locally.
LEMMA DirectoryBackup ==
  ASSUME DirectoryInv,
         \/ esbackup \/ CompleteBackup \/ BackupInterrupted
         \/ (\E p \in Parts : delete_part(p) \/ CreatePart(p) \/ copy_part_from(p) \/ upload_part(p))
  PROVE  LocalFilesWhole' /\ RestoreAhead' /\ (~lock' => Whole(local')) /\ (serving' => ~lock')
<1>1. UNCHANGED <<serving, local, lock, rs>>
  BY DEF esbackup, Backup_run, CompleteBackup, BackupInterrupted, delete_part, CreatePart, copy_part_from, upload_part
<1>2. rs.stage = "idle" \/ UNCHANGED remote
  <2>1. bk.active \/ UNCHANGED remote
    <3>1. NoBackup.delete = {} /\ NoBackup.open = {} /\ NoBackup.copy = {} /\ NoBackup.upload = {}
      BY DEF NoBackup
    <3>2. bk.active \/ bk = NoBackup
      BY DEF DirectoryInv, RemoteInv, StagesInOrder
    <3>3. CASE esbackup \/ CompleteBackup \/ BackupInterrupted
      BY <3>3 DEF esbackup, Backup_run, CompleteBackup, BackupInterrupted
    <3>4. CASE \E p \in Parts : delete_part(p) \/ CreatePart(p) \/ copy_part_from(p) \/ upload_part(p)
      <4>1. bk # NoBackup
        BY <3>1, <3>4 DEF delete_part, CreatePart, copy_part_from, upload_part
      <4> QED BY <3>2, <4>1
    <3> QED BY <3>3, <3>4
  <2> QED BY <2>1 DEF DirectoryInv, RemoteInv, StagesInOrder
<1> QED BY <1>1, <1>2 DEF DirectoryInv, LocalFilesWhole, RestoreAhead, Whole

\* A restore begins, and takes the lock.
LEMMA DirectoryRestore ==
  ASSUME DirectoryInv, Restore_run
  PROVE  LocalFilesWhole' /\ RestoreAhead' /\ (~lock' => Whole(local')) /\ (serving' => ~lock')
<1>1. BackupTyped /\ StagesInOrder /\ rs.stage = "idle" /\ Whole(remote)
  BY DEF DirectoryInv, RemoteInv, Restore_run, NoRestore, MarkerMeansWhole
<1>2. UNCHANGED <<serving, local, remote>> /\ lock' = TRUE /\ ~serving
  BY DEF Restore_run
<1>3. \A p \in Parts : local.parts[p] # "zeros" /\ <<p[1], 1>> \in Parts /\ local.parts[p] = local.parts[<<p[1], 1>>]
  BY <1>1, FirstPart DEF DirectoryInv, LocalFilesWhole
<1>4. \A p \in Parts : remote.parts[p] \in {"none", "full"} /\ remote.parts[p] = remote.parts[<<p[1], 1>>]
  BY <1>1, WholeByFile DEF BackupTyped, Contents
<1>5. CASE rs' = NoRestore
  BY <1>2, <1>3, <1>5 DEF LocalFilesWhole, RestoreAhead, NoRestore
<1>6. CASE rs' # NoRestore
  <2> DEFINE M == Minus(LocalKeys(local.parts), RemoteKeys(remote.parts))
             D == {p[1] : p \in {q \in M : q[2] = 1}}
  <2>1. rs' = [NoRestore EXCEPT !.stage = "delete", !.delete = D]
    BY <1>6 DEF Restore_run
  <2>2. \A q \in Parts : local.parts[q] # "none" /\ (remote.parts[q] # "full" \/ q = Json) => q \in M
    <3>1. M = {q \in {r \in Parts : local.parts[r] # "none"} : <<q, "full">> \notin RemoteKeys(remote.parts) \/ q = Json}
      BY MinusOfFull DEF LocalKeys
    <3>2. \A q \in Parts : <<q, "full">> \in RemoteKeys(remote.parts) <=> remote.parts[q] = "full"
      BY MinusOfRemote
    <3> HIDE DEF M
    <3> QED BY <3>1, <3>2
  <2> HIDE DEF M
  <2>3. \A p \in Parts : local.parts[p] # "none" => p[1] \in D \/ (remote.parts[p] = "full" /\ p # Json)
    <3> SUFFICES ASSUME NEW p \in Parts, local.parts[p] # "none", ~(remote.parts[p] = "full" /\ p # Json)
                 PROVE  p[1] \in D
      OBVIOUS
    <3> DEFINE q == <<p[1], 1>>
    <3>1. q \in Parts /\ local.parts[q] # "none" /\ q[1] = p[1] /\ q[2] = 1
      BY <1>3
    <3>2. remote.parts[q] # "full" \/ q = Json
      BY <1>4, PartsNamed, FirstPart DEF Json
    <3> HIDE DEF q
    <3>3. q \in M
      BY <2>2, <3>1, <3>2
    <3> QED BY <3>1, <3>3
  <2> HIDE DEF D
  <2>4. rs'.stage = "delete" /\ rs'.delete = D
    BY <2>1 DEF NoRestore
  <2> QED BY <1>2, <1>3, <2>3, <2>4 DEF LocalFilesWhole, RestoreAhead
<1> QED BY <1>5, <1>6

\* A restore deletes what the backup does not have.
LEMMA DirectoryDelete ==
  ASSUME DirectoryInv, NEW f \in DataFiles \cup {PartsJson}, delete_path(f)
  PROVE  LocalFilesWhole' /\ RestoreAhead' /\ (~lock' => Whole(local')) /\ (serving' => ~lock')
<1>1. BackupTyped /\ StagesInOrder /\ rs \in RunningRestore /\ local \in Contents({"none", "zeros", "full"})
  BY DEF DirectoryInv, RemoteInv, BackupTyped
<1>2. f \in rs.delete /\ UNCHANGED <<serving, lock, remote>>
      /\ rs' = [rs EXCEPT !.delete = rs.delete \ {f}]
  BY DEF delete_path
<1>3. rs.stage = "delete" /\ lock /\ ~serving
  <2>1. NoRestore.delete = {}
    BY DEF NoRestore
  <2>2. rs.stage \in {"idle", "delete", "download"}
    BY <1>1 DEF RunningRestore
  <2> QED BY <1>1, <1>2, <2>1, <2>2 DEF StagesInOrder
<1>4. rs'.stage = "delete" /\ rs'.delete = rs.delete \ {f}
  BY <1>1, <1>2, <1>3 DEF RunningRestore
<1>5. \A p \in Parts : local'.parts[p] = IF p[1] = f THEN "none" ELSE local.parts[p]
  BY <1>1 DEF delete_path, Contents
<1>6. \A p \in Parts : local.parts[p] # "zeros" /\ local.parts[p] = local.parts[<<p[1], 1>>]
  BY <1>3 DEF DirectoryInv, LocalFilesWhole
<1>7. LocalFilesWhole'
  <2> SUFFICES ASSUME NEW p \in Parts
               PROVE  local'.parts[p] # "zeros" /\ local'.parts[p] = local'.parts[<<p[1], 1>>]
    BY DEF LocalFilesWhole
  <2>1. PICK q \in Parts : q = <<p[1], 1>> /\ q[1] = p[1]
    BY FirstPart
  <2>2. local.parts[p] = local.parts[q] /\ local.parts[p] # "zeros"
    BY <1>6, <2>1
  <2> QED BY <1>5, <2>1, <2>2
<1>8. RestoreAhead'
  <2>1. \A p \in Parts : local.parts[p] # "none" => p[1] \in rs.delete \/ (remote.parts[p] = "full" /\ p # Json)
    BY <1>3 DEF DirectoryInv, RestoreAhead
  <2> QED BY <1>2, <1>4, <1>5, <2>1 DEF RestoreAhead
<1> QED BY <1>2, <1>3, <1>7, <1>8

\* A restore lists what is missing, once nothing is left to delete.
LEMMA DirectoryList ==
  ASSUME DirectoryInv, ListMissing
  PROVE  LocalFilesWhole' /\ RestoreAhead' /\ (~lock' => Whole(local')) /\ (serving' => ~lock')
<1>1. /\ BackupTyped /\ StagesInOrder /\ rs \in RunningRestore /\ rs.stage = "delete" /\ rs.delete = {}
      /\ Whole(remote) /\ lock /\ ~serving
  BY DEF DirectoryInv, RemoteInv, BackupTyped, ListMissing, StagesInOrder, MarkerMeansWhole
<1>2. /\ remote.lists \in SUBSET DataFiles /\ local \in Contents({"none", "zeros", "full"})
      /\ UNCHANGED <<serving, lock, remote, local>>
  BY <1>1 DEF BackupTyped, Contents, ListMissing
<1> DEFINE G == Minus(RemoteKeys(remote.parts), LocalKeys(local.parts))
<1>3. rs' = [rs EXCEPT !.stage = "download", !.get = G]
  BY DEF ListMissing
<1>4. G = {p \in Parts : remote.parts[p] # "none" /\ (<<p, remote.parts[p]>> \notin LocalKeys(local.parts) \/ p = Json)}
  BY MinusOfRemote
<1>5. \A p \in Parts : <<p, "full">> \in LocalKeys(local.parts) <=> local.parts[p] # "none"
  BY DEF LocalKeys
<1> HIDE DEF G
<1>6. rs'.stage = "download" /\ rs'.get = G
  BY <1>1, <1>3 DEF RunningRestore
<1>7. \A p \in Parts : remote.parts[p] \in {"none", "full"}
  BY <1>1, <1>2, WholeByFile
<1>8. \A p \in Parts : p \in G <=> remote.parts[p] = "full" /\ (local.parts[p] = "none" \/ p = Json)
  BY <1>4, <1>5, <1>7
<1>9. remote.parts[Json] = "full"
  BY <1>1, <1>2, WholeByFile, PartsNamed
<1>10. \A p \in Parts : /\ local.parts[p] # "zeros"
                        /\ local.parts[p] # "none" => remote.parts[p] = "full" /\ p # Json
  BY <1>1 DEF DirectoryInv, LocalFilesWhole, RestoreAhead
<1>11. \A p \in Parts : local.parts[p] \in {"none", "zeros", "full"}
  BY <1>2 DEF Contents
<1>12. \A p \in Parts : p \notin G => local.parts[p] = remote.parts[p]
  BY <1>7, <1>8, <1>10, <1>11
<1>13. RestoreAhead'
  BY <1>2, <1>6, <1>8, <1>9, <1>12, PartsNamed DEF RestoreAhead
<1> QED BY <1>1, <1>2, <1>6, <1>13 DEF LocalFilesWhole

\* A restore creates or writes a part of a file.
LEMMA DirectoryWrite ==
  ASSUME DirectoryInv, NEW p \in Parts, GrowFile(p) \/ write_part_at(p)
  PROVE  LocalFilesWhole' /\ RestoreAhead' /\ (~lock' => Whole(local')) /\ (serving' => ~lock')
<1>1. BackupTyped /\ StagesInOrder /\ rs \in RunningRestore /\ local \in Contents({"none", "zeros", "full"})
  BY DEF DirectoryInv, RemoteInv, BackupTyped
<1>2. p \in rs.get /\ UNCHANGED <<serving, lock, remote>>
  BY <1>1 DEF GrowFile, write_part_at, StagesInOrder
<1>3. rs.stage = "download" /\ lock /\ ~serving /\ Whole(remote)
  <2>1. NoRestore.get = {}
    BY DEF NoRestore
  <2>2. rs.stage \in {"idle", "delete", "download"}
    BY <1>1 DEF RunningRestore
  <2>3. rs.stage = "download" /\ lock /\ ~serving /\ marker
    BY <1>1, <1>2, <2>1, <2>2 DEF StagesInOrder
  <2> QED BY <2>3 DEF DirectoryInv, RemoteInv, MarkerMeansWhole
<1>4. /\ \A q \in Parts : q \in rs.get => remote.parts[q] = "full"
      /\ \A q \in Parts : q \notin rs.get => local.parts[q] = remote.parts[q]
      /\ Json \in rs.get \/ local.lists = remote.lists
  BY <1>3 DEF DirectoryInv, RestoreAhead
<1>5. CASE GrowFile(p)
  <2>1. rs' = [rs EXCEPT !.open = rs.open \cup {p}]
    BY <1>5 DEF GrowFile
  <2>2. rs'.stage = "download" /\ rs'.get = rs.get
    BY <1>1, <1>3, <2>1 DEF RunningRestore
  <2>3. /\ \A q \in Parts : local'.parts[q] = IF q[1] = p[1] /\ local.parts[q] = "none" THEN "zeros" ELSE local.parts[q]
        /\ local'.lists = local.lists
    BY <1>1, <1>5 DEF GrowFile, Contents
  <2>4. remote.lists \in SUBSET DataFiles
    BY <1>1 DEF BackupTyped, Contents
  <2>5. \A q \in Parts : q[1] = p[1] => remote.parts[q] = "full"
    <3>1. remote.parts[p] = "full"
      BY <1>2, <1>4
    <3>2. \A q \in Parts : remote.parts[q] = "full" <=> (q = Json \/ q[1] \in remote.lists)
      BY <1>3, <2>4, WholeByFile
    <3> QED BY <3>1, <3>2, PartsNamed
  <2>6. \A q \in Parts : q \notin rs.get => local'.parts[q] = remote.parts[q]
    BY <1>4, <2>3, <2>5
  <2> QED BY <1>2, <1>3, <1>4, <2>2, <2>3, <2>6 DEF RestoreAhead, LocalFilesWhole
<1>6. CASE write_part_at(p)
  <2>1. /\ rs' = [rs EXCEPT !.open = rs.open \ {p}, !.get = rs.get \ {p}]
        /\ local' = [parts |-> [local.parts EXCEPT ![p] = "full"], lists |-> IF p = Json THEN remote.lists ELSE local.lists]
    BY <1>6 DEF write_part_at
  <2>2. rs'.stage = "download" /\ rs'.get = rs.get \ {p}
    BY <1>1, <1>3, <2>1 DEF RunningRestore
  <2>3. /\ local'.parts[p] = "full" /\ \A q \in Parts \ {p} : local'.parts[q] = local.parts[q]
        /\ local'.lists = IF p = Json THEN remote.lists ELSE local.lists
    BY <1>1, <2>1 DEF Contents
  <2> QED BY <1>2, <1>3, <1>4, <2>2, <2>3 DEF RestoreAhead, LocalFilesWhole
<1> QED BY <1>5, <1>6

\* A restore that ends leaves the directory as the backup is.
LEMMA RestoreEnds ==
  ASSUME DirectoryInv, CompleteRestore
  PROVE  local' = remote' /\ Whole(local')
<1>1. /\ rs.stage = "download" /\ rs.get = {} /\ UNCHANGED <<local, remote>>
      /\ local \in Contents({"none", "zeros", "full"}) /\ remote \in Contents({"none", "torn", "full"})
  BY DEF CompleteRestore, DirectoryInv, RemoteInv, BackupTyped
<1>2. Whole(remote)
  BY <1>1 DEF DirectoryInv, RemoteInv, StagesInOrder, MarkerMeansWhole
<1>3. (\A q \in Parts : local.parts[q] = remote.parts[q]) /\ local.lists = remote.lists
  BY <1>1 DEF DirectoryInv, RestoreAhead
<1>4. local.parts = remote.parts
  BY <1>1, <1>3 DEF Contents
<1>5. local = remote
  BY <1>1, <1>3, <1>4 DEF Contents
<1> QED BY <1>1, <1>2, <1>5

\* Every step keeps the invariant about the data directory, unless downloads are cut short.
LEMMA DirectoryKept ==
  ASSUME "download" \notin RestoreFaults
  PROVE  DirectoryInv /\ [BackupNext]_backupVars => DirectoryInv'
<1> SUFFICES ASSUME DirectoryInv, [BackupNext]_backupVars PROVE DirectoryInv'
  OBVIOUS
<1>1. RemoteInv'
  BY RemoteKept DEF DirectoryInv
<1>2. LocalFilesWhole' /\ RestoreAhead' /\ (~lock' => Whole(local')) /\ (serving' => ~lock')
  <2>1. CASE UNCHANGED backupVars
    BY <2>1 DEF backupVars, DirectoryInv, LocalFilesWhole, RestoreAhead, Whole
  <2>2. CASE OpenStorage \/ CloseStorage \/ (\E f \in DataFiles, old \in SUBSET local.lists : ReplaceFiles(f, old))
    BY <2>2, DirectoryServer
  <2>3. CASE \/ esbackup \/ CompleteBackup \/ BackupInterrupted
             \/ (\E p \in Parts : delete_part(p) \/ CreatePart(p) \/ copy_part_from(p) \/ upload_part(p))
    BY <2>3, DirectoryBackup
  <2>4. CASE Restore_run \/ ListMissing
    BY <2>4, DirectoryRestore, DirectoryList
  <2>5. CASE \/ (\E f \in DataFiles \cup {PartsJson} : delete_path(f))
             \/ (\E p \in Parts : GrowFile(p) \/ write_part_at(p))
    BY <2>5, DirectoryDelete, DirectoryWrite
  <2>6. CASE CompleteRestore
    <3>1. Whole(local') /\ rs'.stage = "idle" /\ serving' = serving
      BY <2>6, RestoreEnds DEF CompleteRestore, NoRestore
    <3>2. ~serving
      BY <2>6 DEF DirectoryInv, RemoteInv, StagesInOrder, CompleteRestore
    <3>3. local'.lists \in SUBSET DataFiles
      BY <1>1 DEF RemoteInv, BackupTyped, Contents
    <3>4. LocalFilesWhole'
      BY <3>1, <3>3, WholeByFile DEF LocalFilesWhole
    <3> QED BY <3>1, <3>2, <3>4 DEF RestoreAhead
  <2>7. CASE RestoreInterrupted
    <3>1. rs.stage = "delete" /\ rs'.stage = "idle" /\ UNCHANGED <<serving, local, lock, remote>>
      BY <2>7, BackupAssumption DEF RestoreInterrupted, NoRestore
    <3> QED BY <3>1 DEF DirectoryInv, LocalFilesWhole, RestoreAhead, Whole
  <2> QED BY <2>1, <2>2, <2>3, <2>4, <2>5, <2>6, <2>7 DEF BackupNext
<1> QED BY <1>1, <1>2 DEF DirectoryInv

\* If no restore is interrupted while it downloads, the server never serves a directory that a
\* restore left behind, whatever else was interrupted (must_open, Restore::run).
THEOREM BackupIsSound ==
  ASSUME "download" \notin RestoreFaults
  PROVE  BackupSpec => []BackupSound
<1>1. BackupInit => DirectoryInv
  BY BackupStart
<1>2. DirectoryInv /\ [BackupNext]_backupVars => DirectoryInv'
  BY DirectoryKept
<1>3. DirectoryInv => BackupSound
  BY RemoteInvTyped DEF DirectoryInv, RemoteInv, BackupSound, ServedDataWhole
<1> QED BY <1>1, <1>2, <1>3, PTL DEF BackupSpec

\* Under the same condition, a restore that removes restore-in-progress has made the directory
\* the backup (Restore::run).
THEOREM RestoredIsBackup ==
  ASSUME "download" \notin RestoreFaults
  PROVE  BackupSpec => RestoreYieldsBackup
<1>1. BackupInit => DirectoryInv
  BY BackupStart
<1>2. DirectoryInv /\ [BackupNext]_backupVars => DirectoryInv'
  BY DirectoryKept
<1>3. DirectoryInv /\ [BackupNext]_backupVars => [lock /\ ~lock' => local' = remote']_backupVars
  <2> SUFFICES ASSUME DirectoryInv, BackupNext, lock, ~lock' PROVE local' = remote'
    OBVIOUS
  <2>1. CompleteRestore
    BY DEF BackupNext, OpenStorage, CloseStorage, ReplaceFiles, esbackup, Backup_run, CompleteBackup,
           BackupInterrupted, delete_part, CreatePart, copy_part_from, upload_part, Restore_run, ListMissing,
           RestoreInterrupted, delete_path, GrowFile, write_part_at
  <2> QED BY <2>1, RestoreEnds
<1> QED BY <1>1, <1>2, <1>3, PTL DEF BackupSpec, RestoreYieldsBackup

----------------------------------------------------------------------------
(* ScrapeManager: workers, targets and the series live at the receiver.    *)

ScrapeSeries == Keys \X (1..MaxVersion) \X Metrics

WorkerRec ==
  [pc : {"none", "scrape", "push", "record", "wait", "exited"}, stop : BOOLEAN, labels : 0..MaxVersion,
   last_series : SUBSET ScrapeSeries, last_scrape_ok : BOOLEAN,
   series : SUBSET ScrapeSeries, stale : SUBSET ScrapeSeries]

ManagerRec ==
  [pc : {"idle", "reconcile", "reload", "stop", "stopped"}, todo : SUBSET Jobs,
   stopping : SUBSET Keys, next : [Jobs -> 0..MaxVersion]]

ScrapeVarsTyped ==
  /\ listed \in [Jobs -> [Urls -> 0..MaxVersion]] /\ cache \in [Jobs -> [Urls -> 0..MaxVersion]]
  /\ jobs \in [Jobs -> 0..MaxVersion] /\ workers \in [Keys -> WorkerRec] /\ mgr \in ManagerRec
  /\ targets \in [Keys -> {"none", "unknown", "up", "down"}] /\ live \in SUBSET ScrapeSeries

OwnIn(k, L) == {s \in L : s[1] = k}

\* What worker w of target k knows of the series L that are live: all of them are tracked or about
\* to be marked, and a result on its way makes the two the same.
Tracks(k, w, L) ==
  /\ w.pc # "none" => w.labels # 0
  /\ \A s \in w.last_series \cup w.series \cup w.stale : s[1] = k
  /\ w.pc # "push" => w.series = {} /\ w.stale = {}
  /\ w.pc \in {"wait", "record", "scrape"} => OwnIn(k, L) = IF w.last_scrape_ok THEN w.last_series ELSE {}
  /\ w.pc = "push" /\ w.last_scrape_ok =>
       w.series = w.last_series /\ w.stale \cap w.series = {} /\ OwnIn(k, L) \subseteq w.last_series \cup w.stale
  /\ w.pc = "push" /\ ~w.last_scrape_ok => w.series = {} /\ OwnIn(k, L) \subseteq w.stale
  /\ w.pc \in {"none", "exited"} => OwnIn(k, L) = {}

\* Whom the manager stops, and when: nobody between passes, everyone whose job changes in a reload,
\* all of them at the end.
ManagerInOrder ==
  /\ \A k \in Keys : workers[k].stop => k \in mgr.stopping
  /\ \A k \in mgr.stopping : workers[k].pc # "none"
  /\ mgr.pc \in {"idle", "stopped"} => mgr.stopping = {}
  /\ mgr.pc = "reconcile" => \A j \in mgr.todo : jobs[j] # 0
  /\ mgr.pc = "reload" =>
       \A k \in Keys : workers[k].pc # "none" /\ mgr.next[k[1]] # jobs[k[1]] => k \in mgr.stopping
  /\ mgr.pc \in {"stop", "stopped"} => \A k \in Keys : workers[k].pc # "none" => k \in mgr.stopping

ScrapeInv ==
  /\ ScrapeVarsTyped /\ (\A k \in Keys : Tracks(k, workers[k], live))
  /\ TargetsAreWorkers /\ ManagerInOrder /\ WorkersWanted

\* The invariant holds initially.
LEMMA ScrapeStart == ASSUME ScrapeInit PROVE ScrapeInv
<1>1. 0 \in 0..MaxVersion /\ 1 \in 0..MaxVersion
  BY ScrapeAssumption
<1>2. NoWorker \in WorkerRec
  BY <1>1 DEF NoWorker, WorkerRec
<1>3. jobs \in [Jobs -> 0..MaxVersion] /\ listed \in [Jobs -> [Urls -> 0..MaxVersion]]
  BY <1>1, ScrapeAssumption DEF ScrapeInit
<1>4. ScrapeVarsTyped
  BY <1>1, <1>2, <1>3 DEF ScrapeInit, ScrapeVarsTyped, NoSource, ManagerRec
<1>5. \A k \in Keys : Tracks(k, workers[k], live)
  BY DEF ScrapeInit, Tracks, NoWorker, OwnIn
<1>6. ManagerInOrder
  BY DEF ScrapeInit, ManagerInOrder, NoWorker
<1>7. TargetsAreWorkers /\ WorkersWanted
  BY DEF ScrapeInit, TargetsAreWorkers, WorkersWanted, NoWorker
<1> QED BY <1>4, <1>5, <1>6, <1>7 DEF ScrapeInv

\* The other targets have the series they had.
OthersLive(k) == live' \in SUBSET ScrapeSeries /\ \A s \in ScrapeSeries : s[1] # k => (s \in live' <=> s \in live)

\* A worker moves on.
LEMMA WorkerMoves ==
  ASSUME ScrapeInv, NEW k \in Keys, NEW n \in WorkerRec, workers' = [workers EXCEPT ![k] = n],
         workers[k].pc # "none", n.pc # "none", n.stop = workers[k].stop, Tracks(k, n, live'), OthersLive(k),
         UNCHANGED <<listed, jobs, cache, mgr>>,
         targets' \in [Keys -> {"none", "unknown", "up", "down"}], targets'[k] # "none",
         \A l \in Keys : l # k => targets'[l] = targets[l]
  PROVE  ScrapeInv'
<1>1. workers'[k] = n /\ \A l \in Keys : l # k => workers'[l] = workers[l]
  BY DEF ScrapeInv, ScrapeVarsTyped
<1>2. \A l \in Keys : (workers'[l].pc = "none" <=> workers[l].pc = "none") /\ workers'[l].stop = workers[l].stop
  BY <1>1
<1>3. ScrapeVarsTyped'
  BY DEF ScrapeInv, ScrapeVarsTyped, OthersLive
<1>4. ASSUME NEW l \in Keys PROVE Tracks(l, workers'[l], live')
  <2>1. CASE l = k
    BY <1>1, <2>1
  <2>2. CASE l # k
    <3>1. OwnIn(l, live') = OwnIn(l, live)
      BY <2>2 DEF OwnIn, OthersLive, ScrapeInv, ScrapeVarsTyped
    <3>2. Tracks(l, workers[l], live)
      BY DEF ScrapeInv
    <3> QED BY <1>1, <2>2, <3>1, <3>2 DEF Tracks
  <2> QED BY <2>1, <2>2
<1>5. TargetsAreWorkers'
  BY <1>1, <1>2 DEF ScrapeInv, TargetsAreWorkers
<1>6. ManagerInOrder'
  <2>1. mgr.stopping \subseteq Keys
    BY DEF ScrapeInv, ScrapeVarsTyped, ManagerRec
  <2> QED BY <1>2, <2>1 DEF ScrapeInv, ManagerInOrder
<1>7. WorkersWanted'
  BY <1>2 DEF ScrapeInv, WorkersWanted
<1> QED BY <1>3, <1>4, <1>5, <1>6, <1>7 DEF ScrapeInv

\* What the invariant says of one worker.
LEMMA WorkerIs ==
  ASSUME ScrapeInv, NEW k \in Keys
  PROVE  /\ workers[k] \in WorkerRec /\ Tracks(k, workers[k], live)
         /\ (targets[k] # "none" <=> workers[k].pc # "none")
         /\ targets \in [Keys -> {"none", "unknown", "up", "down"}] /\ live \in SUBSET ScrapeSeries
BY DEF ScrapeInv, ScrapeVarsTyped, TargetsAreWorkers

\* A scrape ends.
LEMMA ScrapeStepInv == ASSUME ScrapeInv, NEW k \in Keys, scrape(k) PROVE ScrapeInv'
<1> DEFINE w == workers[k]
<1>1. /\ w.pc = "scrape" /\ w \in WorkerRec /\ Tracks(k, w, live)
      /\ UNCHANGED <<listed, jobs, cache, targets, live, mgr>>
  BY WorkerIs DEF scrape
<1>2. PICK ok \in BOOLEAN, metrics \in SUBSET Metrics : SetWorker(k, Scraped(k, w, ok, metrics))
  BY DEF scrape
<1> DEFINE current == IF ok THEN SeriesOf(k, w, metrics) ELSE {}
           n == Scraped(k, w, ok, metrics)
<1>3. SeriesOf(k, w, metrics) \in SUBSET ScrapeSeries /\ \A s \in SeriesOf(k, w, metrics) : s[1] = k
  BY <1>1 DEF SeriesOf, ScrapeSeries, Tracks, WorkerRec
<1>4. /\ n.pc = "push" /\ n.stop = w.stop /\ n.labels = w.labels /\ n.series = current
      /\ n.stale = (IF w.last_scrape_ok \/ ok THEN w.last_series \ current ELSE {})
      /\ n.last_series = (IF ok THEN current ELSE w.last_series) /\ n.last_scrape_ok = ok
  BY <1>1 DEF Scraped, WorkerRec
<1>5. current \in SUBSET ScrapeSeries /\ \A s \in current : s[1] = k
  BY <1>3
<1>6. n \in WorkerRec
  BY <1>1, <1>5 DEF Scraped, WorkerRec
<1>7. workers' = [workers EXCEPT ![k] = n]
  BY <1>2 DEF SetWorker
<1>8. OwnIn(k, live) = IF w.last_scrape_ok THEN w.last_series ELSE {}
  BY <1>1 DEF Tracks
<1>9. w.labels # 0 /\ \A s \in w.last_series : s[1] = k
  BY <1>1 DEF Tracks
<1> HIDE DEF n, current, w
<1>10. Tracks(k, n, live)
  <2>1. CASE ok
    BY <1>4, <1>5, <1>8, <1>9, <2>1 DEF Tracks
  <2>2. CASE ~ok
    <3>1. current = {}
      BY <2>2 DEF current
    <3> QED BY <1>4, <1>8, <1>9, <2>2, <3>1 DEF Tracks
  <2> QED BY <2>1, <2>2
<1>11. OthersLive(k) /\ targets[k] # "none" /\ targets \in [Keys -> {"none", "unknown", "up", "down"}]
  BY <1>1, WorkerIs DEF OthersLive, w
<1> QED BY <1>1, <1>4, <1>6, <1>7, <1>10, <1>11, WorkerMoves DEF w

\* The result reaches the receiver.
LEMMA PushSeriesStep == ASSUME ScrapeInv, NEW k \in Keys, push_series(k) PROVE ScrapeInv'
<1> DEFINE w == workers[k]
           n == [w EXCEPT !.pc = "record", !.series = {}, !.stale = {}]
<1>1. /\ w.pc = "push" /\ w \in WorkerRec /\ Tracks(k, w, live) /\ live \in SUBSET ScrapeSeries
      /\ live' = (live \cup w.series) \ w.stale /\ workers' = [workers EXCEPT ![k] = n]
      /\ UNCHANGED <<listed, jobs, cache, targets, mgr>>
  BY WorkerIs DEF push_series, SetWorker
<1>2. /\ n \in WorkerRec /\ n.pc = "record" /\ n.stop = w.stop /\ n.labels = w.labels /\ n.series = {} /\ n.stale = {}
      /\ n.last_series = w.last_series /\ n.last_scrape_ok = w.last_scrape_ok
  BY <1>1 DEF WorkerRec
<1>3. targets[k] # "none" /\ targets \in [Keys -> {"none", "unknown", "up", "down"}]
  BY <1>1, WorkerIs
<1>4. \A s \in w.last_series \cup w.series \cup w.stale : s[1] = k
  BY <1>1 DEF Tracks
<1>5. w.series \in SUBSET ScrapeSeries
  BY <1>1 DEF WorkerRec
<1> HIDE DEF n, w
<1>6. OthersLive(k)
  BY <1>1, <1>4, <1>5 DEF OthersLive
<1>7. OwnIn(k, live') = IF w.last_scrape_ok THEN w.last_series ELSE {}
  <2>1. \A s : s \in OwnIn(k, live') <=> (s \in OwnIn(k, live) \/ s \in w.series) /\ s \notin w.stale
    BY <1>1, <1>4 DEF OwnIn
  <2>2. CASE w.last_scrape_ok
    BY <1>1, <2>1, <2>2 DEF Tracks
  <2>3. CASE ~w.last_scrape_ok
    BY <1>1, <2>1, <2>3 DEF Tracks
  <2> QED BY <2>2, <2>3
<1>8. Tracks(k, n, live')
  BY <1>1, <1>2, <1>4, <1>7 DEF Tracks
<1> QED BY <1>1, <1>2, <1>3, <1>6, <1>8, WorkerMoves DEF w

\* The snapshot of targets is updated, and the next wait begins or ends.
LEMMA RecordStep ==
  ASSUME ScrapeInv, NEW k \in Keys, upsert_active(k) \/ wait_or_stop(k) PROVE ScrapeInv'
<1> DEFINE w == workers[k]
<1>1. PICK pc \in {"wait", "scrape"} :
        /\ w.pc \in {"record", "wait"} /\ workers' = [workers EXCEPT ![k] = [w EXCEPT !.pc = pc]]
        /\ UNCHANGED <<listed, jobs, cache, live, mgr>>
  BY DEF upsert_active, wait_or_stop, SetWorker
<1> DEFINE n == [w EXCEPT !.pc = pc]
<1>2. /\ targets' \in [Keys -> {"none", "unknown", "up", "down"}] /\ targets'[k] # "none"
      /\ \A l \in Keys : l # k => targets'[l] = targets[l]
  BY <1>1, WorkerIs DEF upsert_active, wait_or_stop
<1>3. w \in WorkerRec /\ Tracks(k, w, live)
  BY WorkerIs
<1>4. /\ n \in WorkerRec /\ n.pc = pc /\ n.stop = w.stop /\ n.labels = w.labels /\ n.series = w.series
      /\ n.stale = w.stale /\ n.last_series = w.last_series /\ n.last_scrape_ok = w.last_scrape_ok
  BY <1>3 DEF WorkerRec
<1>5. workers' = [workers EXCEPT ![k] = n]
  BY <1>1
<1> HIDE DEF n, w
<1>6. Tracks(k, n, live')
  BY <1>1, <1>3, <1>4 DEF Tracks
<1>7. OthersLive(k)
  BY <1>1, WorkerIs DEF OthersLive
<1> QED BY <1>1, <1>2, <1>4, <1>5, <1>6, <1>7, WorkerMoves DEF w

\* A worker that is stopped marks all its series.
LEMMA MarkStaleStep == ASSUME ScrapeInv, NEW k \in Keys, mark_stale_all(k) PROVE ScrapeInv'
<1> DEFINE w == workers[k]
           n == [w EXCEPT !.pc = "exited", !.last_series = {}]
<1>1. /\ w.pc = "wait" /\ w \in WorkerRec /\ Tracks(k, w, live) /\ live \in SUBSET ScrapeSeries
      /\ live' = live \ w.last_series /\ workers' = [workers EXCEPT ![k] = n]
      /\ UNCHANGED <<listed, jobs, cache, targets, mgr>>
  BY WorkerIs DEF mark_stale_all, SetWorker
<1>2. /\ n \in WorkerRec /\ n.pc = "exited" /\ n.stop = w.stop /\ n.labels = w.labels
      /\ n.series = w.series /\ n.stale = w.stale /\ n.last_series = {}
  BY <1>1 DEF WorkerRec
<1>3. targets[k] # "none" /\ targets \in [Keys -> {"none", "unknown", "up", "down"}]
  BY <1>1, WorkerIs
<1> HIDE DEF n, w
<1>4. OthersLive(k)
  BY <1>1 DEF OthersLive, Tracks
<1>5. OwnIn(k, live') = {}
  <2>1. OwnIn(k, live) \subseteq w.last_series
    BY <1>1 DEF Tracks
  <2> QED BY <1>1, <2>1 DEF OwnIn
<1>6. Tracks(k, n, live')
  BY <1>1, <1>2, <1>5 DEF Tracks
<1> QED BY <1>1, <1>2, <1>3, <1>4, <1>6, WorkerMoves DEF w

\* What the invariant says of the manager.
LEMMA ManagerIs ==
  ASSUME ScrapeInv
  PROVE  /\ ScrapeVarsTyped /\ mgr \in ManagerRec /\ mgr.stopping \in SUBSET Keys /\ mgr.todo \in SUBSET Jobs
         /\ \A k \in Keys : k[1] \in Jobs /\ k[2] \in Urls
BY DEF ScrapeInv, ScrapeVarsTyped, ManagerRec, Keys

\* The manager goes on and leaves the workers alone.
LEMMA ManagerMoves ==
  ASSUME ScrapeInv, UNCHANGED <<workers, targets, live>>, ScrapeVarsTyped', ManagerInOrder', WorkersWanted'
  PROVE  ScrapeInv'
BY DEF ScrapeInv, TargetsAreWorkers

\* A worker is told to stop.
LEMMA SignalStopStep == ASSUME ScrapeInv, NEW k \in Keys, SignalStop(k) PROVE ScrapeInv'
<1> DEFINE w == workers[k]
           n == [w EXCEPT !.stop = TRUE]
<1>1. /\ k \in mgr.stopping /\ workers' = [workers EXCEPT ![k] = n] /\ w \in WorkerRec
      /\ UNCHANGED <<listed, jobs, cache, targets, live, mgr>>
  BY WorkerIs DEF SignalStop, SetWorker
<1>2. /\ n \in WorkerRec /\ n.pc = w.pc /\ n.labels = w.labels /\ n.series = w.series
      /\ n.stale = w.stale /\ n.last_series = w.last_series /\ n.last_scrape_ok = w.last_scrape_ok
  BY <1>1 DEF WorkerRec
<1> HIDE DEF n
<1>3. workers'[k] = n /\ \A l \in Keys : l # k => workers'[l] = workers[l]
  BY <1>1 DEF ScrapeInv, ScrapeVarsTyped
<1>4. \A l \in Keys : workers'[l].pc = workers[l].pc
  BY <1>2, <1>3
<1>5. ScrapeVarsTyped'
  BY <1>1, <1>2 DEF ScrapeInv, ScrapeVarsTyped
<1>6. ASSUME NEW l \in Keys PROVE Tracks(l, workers'[l], live')
  <2>1. Tracks(l, workers[l], live)
    BY WorkerIs
  <2>2. CASE l = k
    BY <1>1, <1>2, <1>3, <2>1, <2>2 DEF Tracks
  <2>3. CASE l # k
    BY <1>1, <1>3, <2>1, <2>3
  <2> QED BY <2>2, <2>3
<1>7. TargetsAreWorkers' /\ WorkersWanted'
  BY <1>1, <1>4 DEF ScrapeInv, TargetsAreWorkers, WorkersWanted
<1>8. ManagerInOrder'
  BY <1>1, <1>3, <1>4, ManagerIs DEF ScrapeInv, ManagerInOrder
<1> QED BY <1>5, <1>6, <1>7, <1>8 DEF ScrapeInv

\* A worker has ended and is removed.
LEMMA StopWorkerStep == ASSUME ScrapeInv, NEW k \in Keys, stop_worker(k) PROVE ScrapeInv'
<1> DEFINE n == [mgr EXCEPT !.stopping = @ \ {k}]
<1>1. /\ k \in mgr.stopping /\ workers[k].pc = "exited" /\ workers' = [workers EXCEPT ![k] = NoWorker]
      /\ targets' = [targets EXCEPT ![k] = "none"] /\ mgr' = n /\ UNCHANGED <<listed, jobs, cache, live>>
  BY DEF stop_worker, SetWorker
<1>2. /\ n \in ManagerRec /\ n.pc = mgr.pc /\ n.todo = mgr.todo /\ n.next = mgr.next
      /\ n.stopping = mgr.stopping \ {k}
  BY ManagerIs DEF ManagerRec
<1>3. NoWorker \in WorkerRec /\ NoWorker.pc = "none" /\ NoWorker.stop = FALSE
  BY ScrapeAssumption DEF NoWorker, WorkerRec
<1> HIDE DEF n
<1>4. /\ workers'[k] = NoWorker /\ targets'[k] = "none"
      /\ \A l \in Keys : l # k => workers'[l] = workers[l] /\ targets'[l] = targets[l]
  BY <1>1 DEF ScrapeInv, ScrapeVarsTyped
<1>5. ScrapeVarsTyped'
  BY <1>1, <1>2, <1>3 DEF ScrapeInv, ScrapeVarsTyped
<1>6. ASSUME NEW l \in Keys PROVE Tracks(l, workers'[l], live')
  <2>1. Tracks(l, workers[l], live)
    BY WorkerIs
  <2>2. CASE l = k
    <3>1. OwnIn(k, live) = {}
      BY <1>1, <2>1, <2>2 DEF Tracks
    <3> QED BY <1>1, <1>4, <2>2, <3>1 DEF Tracks, NoWorker
  <2>3. CASE l # k
    BY <1>1, <1>4, <2>1, <2>3
  <2> QED BY <2>2, <2>3
<1>7. TargetsAreWorkers' /\ WorkersWanted'
  BY <1>1, <1>2, <1>3, <1>4 DEF ScrapeInv, TargetsAreWorkers, WorkersWanted
<1>8. ManagerInOrder'
  BY <1>1, <1>2, <1>3, <1>4, ManagerIs DEF ScrapeInv, ManagerInOrder
<1> QED BY <1>5, <1>6, <1>7, <1>8 DEF ScrapeInv

\* A job is reconciled with what its providers list.
LEMMA ReconcileStep == ASSUME ScrapeInv, NEW j \in Jobs, ReconcileJob(j) PROVE ScrapeInv'
<1>1. PICK groups \in {listed[j], cache[j]} :
        LET new == {k \in Keys : k[1] = j /\ groups[k[2]] # 0 /\ workers[k].pc = "none"}
        IN  /\ cache' = [cache EXCEPT ![j] = groups]
            /\ workers' = [k \in Keys |->
                 IF k \in new THEN [NoWorker EXCEPT !.pc = "scrape", !.labels = groups[k[2]]] ELSE workers[k]]
            /\ targets' = [k \in Keys |-> IF k \in new THEN "unknown" ELSE targets[k]]
            /\ mgr' = [mgr EXCEPT !.todo = @ \ {j}, !.stopping = {k \in Running(j) : groups[k[2]] = 0}]
  BY DEF ReconcileJob
<1> DEFINE new == {k \in Keys : k[1] = j /\ groups[k[2]] # 0 /\ workers[k].pc = "none"}
           fresh(k) == [NoWorker EXCEPT !.pc = "scrape", !.labels = groups[k[2]]]
           stopping == {k \in Running(j) : groups[k[2]] = 0}
           n == [mgr EXCEPT !.todo = @ \ {j}, !.stopping = stopping]
<1>2. /\ mgr.pc = "reconcile" /\ mgr.stopping = {} /\ j \in mgr.todo /\ UNCHANGED <<listed, jobs, live>>
      /\ cache' = [cache EXCEPT ![j] = groups] /\ mgr' = n
  BY <1>1 DEF ReconcileJob
<1>3. \A k \in Keys : /\ k \in new => workers'[k] = fresh(k) /\ targets'[k] = "unknown"
                      /\ k \notin new => workers'[k] = workers[k] /\ targets'[k] = targets[k]
  BY <1>1
<1>4. groups \in [Urls -> 0..MaxVersion]
  BY DEF ScrapeInv, ScrapeVarsTyped
<1>5. \A k \in Keys : /\ fresh(k) \in WorkerRec /\ fresh(k).pc = "scrape" /\ ~fresh(k).stop
                      /\ fresh(k).labels = groups[k[2]] /\ fresh(k).series = {} /\ fresh(k).stale = {}
                      /\ fresh(k).last_series = {} /\ fresh(k).last_scrape_ok = FALSE
  BY <1>4, ManagerIs DEF NoWorker, WorkerRec
<1>6. /\ n \in ManagerRec /\ n.pc = mgr.pc /\ n.todo = mgr.todo \ {j} /\ n.next = mgr.next
      /\ n.stopping = stopping /\ stopping \in SUBSET Keys
  BY ManagerIs DEF ManagerRec, Running
<1>7. \A k \in Keys : k \in stopping <=> k[1] = j /\ workers[k].pc # "none" /\ groups[k[2]] = 0
  BY DEF Running
<1>8. \A k \in Keys : k \in new <=> k[1] = j /\ groups[k[2]] # 0 /\ workers[k].pc = "none"
  OBVIOUS
<1>9. workers' \in [Keys -> WorkerRec] /\ targets' \in [Keys -> {"none", "unknown", "up", "down"}]
  <2>1. workers' = [k \in Keys |-> IF k \in new THEN fresh(k) ELSE workers[k]]
    BY <1>1
  <2>2. \A k \in Keys : workers[k] \in WorkerRec /\ targets[k] \in {"none", "unknown", "up", "down"}
    BY DEF ScrapeInv, ScrapeVarsTyped
  <2> HIDE DEF fresh, new
  <2>3. workers' \in [Keys -> WorkerRec]
    BY <1>5, <2>1, <2>2
  <2>4. targets' = [k \in Keys |-> IF k \in new THEN "unknown" ELSE targets[k]]
    BY <1>1 DEF new
  <2> QED BY <2>2, <2>3, <2>4
<1> HIDE DEF n, new, fresh, stopping
<1>10. ScrapeVarsTyped'
  BY <1>2, <1>4, <1>6, <1>9 DEF ScrapeInv, ScrapeVarsTyped
<1>11. ASSUME NEW k \in Keys PROVE Tracks(k, workers'[k], live')
  <2>1. Tracks(k, workers[k], live)
    BY WorkerIs
  <2>2. CASE k \in new
    <3>1. OwnIn(k, live) = {}
      BY <1>8, <2>1, <2>2 DEF Tracks
    <3> QED BY <1>2, <1>3, <1>5, <1>8, <2>2, <3>1 DEF Tracks
  <2>3. CASE k \notin new
    BY <1>2, <1>3, <2>1, <2>3
  <2> QED BY <2>2, <2>3
<1>12. TargetsAreWorkers'
  BY <1>3, <1>5, <1>8 DEF ScrapeInv, TargetsAreWorkers
<1>13. ManagerInOrder'
  <2>1. \A k \in Keys : ~workers'[k].stop
    BY <1>2, <1>3, <1>5 DEF ScrapeInv, ManagerInOrder
  <2>2. \A k \in Keys : workers'[k].pc = "none" => workers[k].pc = "none"
    BY <1>3, <1>5
  <2>3. \A i \in mgr.todo : jobs[i] # 0
    BY <1>2 DEF ScrapeInv, ManagerInOrder
  <2> QED BY <1>2, <1>6, <1>7, <2>1, <2>2, <2>3 DEF ManagerInOrder
<1>14. WorkersWanted'
  <2> SUFFICES ASSUME NEW k \in Keys, workers'[k].pc # "none"
               PROVE  k \in mgr'.stopping \/ (jobs'[k[1]] # 0 /\ cache'[k[1]][k[2]] # 0)
    BY DEF WorkersWanted
  <2>1. k[1] \in Jobs /\ jobs[j] # 0 /\ (k[1] = j => cache'[k[1]] = groups) /\ (k[1] # j => cache'[k[1]] = cache[k[1]])
    BY <1>2, ManagerIs DEF ScrapeInv, ScrapeVarsTyped, ManagerInOrder
  <2>2. CASE k[1] = j
    BY <1>2, <1>3, <1>6, <1>7, <1>8, <2>1, <2>2
  <2>3. CASE k[1] # j
    BY <1>2, <1>3, <1>8, <2>1, <2>3 DEF ScrapeInv, WorkersWanted
  <2> QED BY <2>2, <2>3
<1> QED BY <1>10, <1>11, <1>12, <1>13, <1>14 DEF ScrapeInv

\* Passes, reloads and the stop begin and end.
LEMMA ManagerStep ==
  ASSUME ScrapeInv, ReconcileEnds \/ ReconcileBegins \/ Reload_begins \/ reload_scrape \/ stop_scraping
  PROVE  ScrapeInv'
<1>1. ASSUME ReconcileEnds PROVE ScrapeInv'
  <2> DEFINE n == [mgr EXCEPT !.pc = "idle"]
  <2>1. mgr' = n /\ mgr.stopping = {} /\ UNCHANGED <<listed, jobs, cache, workers, targets, live>>
    BY <1>1 DEF ReconcileEnds
  <2>2. n \in ManagerRec /\ n.pc = "idle" /\ n.stopping = mgr.stopping /\ n.todo = mgr.todo
    BY ManagerIs DEF ManagerRec
  <2> HIDE DEF n
  <2>3. ScrapeVarsTyped' /\ WorkersWanted' /\ ManagerInOrder'
    BY <2>1, <2>2, ManagerIs DEF ScrapeInv, ScrapeVarsTyped, WorkersWanted, ManagerInOrder
  <2> QED BY <2>1, <2>3, ManagerMoves
<1>2. ASSUME ReconcileBegins PROVE ScrapeInv'
  <2> DEFINE n == [mgr EXCEPT !.pc = "reconcile", !.todo = {j \in Jobs : jobs[j] # 0}]
  <2>1. mgr.pc = "idle" /\ mgr' = n /\ UNCHANGED <<listed, jobs, cache, workers, targets, live>>
    BY <1>2 DEF ReconcileBegins
  <2>2. n \in ManagerRec /\ n.pc = "reconcile" /\ n.stopping = mgr.stopping /\ n.todo = {j \in Jobs : jobs[j] # 0}
    BY ManagerIs DEF ManagerRec
  <2> HIDE DEF n
  <2>3. ScrapeVarsTyped' /\ WorkersWanted' /\ ManagerInOrder'
    BY <2>1, <2>2, ManagerIs DEF ScrapeInv, ScrapeVarsTyped, WorkersWanted, ManagerInOrder
  <2> QED BY <2>1, <2>3, ManagerMoves
<1>3. ASSUME Reload_begins PROVE ScrapeInv'
  <2>1. PICK next \in [Jobs -> 0..MaxVersion] :
          mgr' = [mgr EXCEPT !.pc = "reload", !.next = next,
                             !.stopping = UNION {Running(j) : j \in {i \in Jobs : next[i] # jobs[i]}}]
    BY <1>3 DEF Reload_begins
  <2> DEFINE S == UNION {Running(j) : j \in {i \in Jobs : next[i] # jobs[i]}}
             n == [mgr EXCEPT !.pc = "reload", !.next = next, !.stopping = S]
  <2>2. mgr.pc = "idle" /\ mgr' = n /\ UNCHANGED <<listed, jobs, cache, workers, targets, live>>
    BY <1>3, <2>1 DEF Reload_begins
  <2>3. S \in SUBSET Keys /\ \A k \in Keys : k \in S <=> workers[k].pc # "none" /\ next[k[1]] # jobs[k[1]]
    BY ManagerIs DEF Running
  <2>4. n \in ManagerRec /\ n.pc = "reload" /\ n.stopping = S /\ n.todo = mgr.todo /\ n.next = next
    BY <2>3, ManagerIs DEF ManagerRec
  <2> HIDE DEF n, S
  <2>5. mgr.stopping = {} /\ \A k \in Keys : ~workers[k].stop
    BY <2>2 DEF ScrapeInv, ManagerInOrder
  <2>6. ManagerInOrder'
    BY <2>2, <2>3, <2>4, <2>5 DEF ManagerInOrder
  <2>7. ScrapeVarsTyped' /\ WorkersWanted'
    BY <2>2, <2>4, <2>5 DEF ScrapeInv, ScrapeVarsTyped, WorkersWanted
  <2> QED BY <2>2, <2>6, <2>7, ManagerMoves
<1>4. ASSUME reload_scrape PROVE ScrapeInv'
  <2> DEFINE n == [mgr EXCEPT !.pc = "reconcile", !.todo = {j \in Jobs : mgr.next[j] # 0}]
  <2>1. /\ mgr.pc = "reload" /\ mgr.stopping = {} /\ jobs' = mgr.next /\ mgr' = n
        /\ cache' = [j \in Jobs |-> IF mgr.next[j] # jobs[j] THEN NoSource ELSE cache[j]]
        /\ UNCHANGED <<listed, workers, targets, live>>
    BY <1>4 DEF reload_scrape
  <2>2. n \in ManagerRec /\ n.pc = "reconcile" /\ n.stopping = mgr.stopping /\ n.todo = {j \in Jobs : mgr.next[j] # 0}
    BY ManagerIs DEF ManagerRec
  <2>3. mgr.next \in [Jobs -> 0..MaxVersion] /\ NoSource \in [Urls -> 0..MaxVersion]
    BY ManagerIs, ScrapeAssumption DEF ManagerRec, NoSource
  <2> HIDE DEF n
  <2>4. \A k \in Keys : ~workers[k].stop /\ (workers[k].pc # "none" => mgr.next[k[1]] = jobs[k[1]])
    BY <2>1 DEF ScrapeInv, ManagerInOrder
  <2>5. ManagerInOrder'
    BY <2>1, <2>2, <2>4 DEF ManagerInOrder
  <2>6. ScrapeVarsTyped'
    BY <2>1, <2>2, <2>3 DEF ScrapeInv, ScrapeVarsTyped
  <2>7. WorkersWanted'
    BY <2>1, <2>4, ManagerIs DEF ScrapeInv, WorkersWanted
  <2> QED BY <2>1, <2>5, <2>6, <2>7, ManagerMoves
<1>5. ASSUME stop_scraping, mgr.pc = "idle" PROVE ScrapeInv'
  <2> DEFINE S == UNION {Running(j) : j \in Jobs}
             n == [mgr EXCEPT !.pc = "stop", !.stopping = S]
  <2>1. mgr' = n /\ UNCHANGED <<listed, jobs, cache, workers, targets, live>>
    BY <1>5 DEF stop_scraping
  <2>2. S \in SUBSET Keys /\ \A k \in Keys : k \in S <=> workers[k].pc # "none"
    BY ManagerIs DEF Running
  <2>3. n \in ManagerRec /\ n.pc = "stop" /\ n.stopping = S
    BY <2>2, ManagerIs DEF ManagerRec
  <2> HIDE DEF n, S
  <2>4. mgr.stopping = {} /\ \A k \in Keys : ~workers[k].stop
    BY <1>5 DEF ScrapeInv, ManagerInOrder
  <2>5. ManagerInOrder'
    BY <2>1, <2>2, <2>3, <2>4 DEF ManagerInOrder
  <2>6. ScrapeVarsTyped' /\ WorkersWanted'
    BY <2>1, <2>2, <2>3 DEF ScrapeInv, ScrapeVarsTyped, WorkersWanted
  <2> QED BY <2>1, <2>5, <2>6, ManagerMoves
<1>6. ASSUME stop_scraping, mgr.pc # "idle" PROVE ScrapeInv'
  <2> DEFINE n == [mgr EXCEPT !.pc = "stopped"]
  <2>1. /\ mgr.pc = "stop" /\ mgr.stopping = {} /\ mgr' = n /\ jobs' = [j \in Jobs |-> 0]
        /\ UNCHANGED <<listed, cache, workers, targets, live>>
    BY <1>6 DEF stop_scraping
  <2>2. n \in ManagerRec /\ n.pc = "stopped" /\ n.stopping = mgr.stopping
    BY ManagerIs DEF ManagerRec
  <2> HIDE DEF n
  <2>3. \A k \in Keys : ~workers[k].stop /\ workers[k].pc = "none"
    BY <2>1 DEF ScrapeInv, ManagerInOrder
  <2>4. ManagerInOrder' /\ WorkersWanted'
    BY <2>1, <2>2, <2>3 DEF ManagerInOrder, WorkersWanted
  <2>5. ScrapeVarsTyped'
    BY <2>1, <2>2, ScrapeAssumption DEF ScrapeInv, ScrapeVarsTyped
  <2> QED BY <2>1, <2>4, <2>5, ManagerMoves
<1> QED BY <1>1, <1>2, <1>3, <1>4, <1>5, <1>6

\* Every step keeps the invariant.
LEMMA ScrapeKept == ScrapeInv /\ [ScrapeNext]_scrapeVars => ScrapeInv'
<1> SUFFICES ASSUME ScrapeInv, [ScrapeNext]_scrapeVars PROVE ScrapeInv'
  OBVIOUS
<1>1. ASSUME NEW j \in Jobs, SourceChanges(j) PROVE ScrapeInv'
  <2>1. /\ UNCHANGED <<jobs, cache, workers, targets, live, mgr>>
        /\ \E u \in Urls, v \in 0..MaxVersion : listed' = [listed EXCEPT ![j][u] = v]
    BY <1>1 DEF SourceChanges
  <2>2. listed' \in [Jobs -> [Urls -> 0..MaxVersion]]
    BY <2>1 DEF ScrapeInv, ScrapeVarsTyped
  <2>3. ScrapeVarsTyped' /\ WorkersWanted' /\ ManagerInOrder'
    BY <2>1, <2>2 DEF ScrapeInv, ScrapeVarsTyped, WorkersWanted, ManagerInOrder
  <2> QED BY <2>1, <2>3, ManagerMoves
<1>2. ASSUME UNCHANGED scrapeVars PROVE ScrapeInv'
  BY <1>2 DEF scrapeVars, ScrapeInv, ScrapeVarsTyped, WorkersWanted, ManagerInOrder, TargetsAreWorkers
<1> QED BY <1>1, <1>2, ScrapeStepInv, PushSeriesStep, RecordStep, MarkStaleStep, SignalStopStep, StopWorkerStep,
           ReconcileStep, ManagerStep
        DEF ScrapeNext, WorkerSteps, ManagerSteps

\* The workers, the list of targets and what is live at the receiver agree, through failed scrapes,
\* vanished targets, reloads and the stop, for any jobs, targets and metrics (reconcile, reload,
\* run_worker_loop).
THEOREM ScrapeIsSound == ScrapeSpec => []ScrapeSound
<1>1. ScrapeInv => ScrapeSound
  <2> SUFFICES ASSUME ScrapeInv PROVE ScrapeSound
    OBVIOUS
  <2>1. \A k \in Keys : Own(k) = OwnIn(k, live)
    BY DEF Own, OwnIn
  <2>2. ReceiverAgrees
    BY <2>1 DEF ScrapeInv, Tracks, ReceiverAgrees
  <2>3. \A k \in Keys : workers[k].pc \in {"none", "scrape", "push", "record", "wait", "exited"}
    BY DEF ScrapeInv, ScrapeVarsTyped, WorkerRec
  <2>4. \A k \in Keys : workers[k].series \cap workers[k].stale = {}
    BY WorkerIs DEF Tracks
  <2>5. ScrapeTypeOK
    BY <2>3, <2>4 DEF ScrapeInv, ScrapeVarsTyped, ScrapeTypeOK, ManagerInOrder, ManagerRec, ScrapeSeries
  <2> QED BY <2>2, <2>5 DEF ScrapeInv, ScrapeSound
<1>2. ScrapeInit => ScrapeInv
  BY ScrapeStart
<1> QED BY <1>1, <1>2, ScrapeKept, PTL DEF ScrapeSpec

----------------------------------------------------------------------------
(* Alerting: the alert of a rule, its history and what Alertmanager heard. *)

AlertRec ==
  [state : {"none", "pending", "firing", "inactive"}, activeAt : Int, keepSince : Int, resolvedAt : Int]

AlertVarsTyped ==
  /\ now \in 0..MaxNow + 1 /\ ruleSet \subseteq AlertRules /\ wanted \subseteq AlertRules
  /\ updates \in Seq(SUBSET AlertRules) /\ resurrected \subseteq AlertRules /\ told \subseteq AlertRules
  /\ alerts \in [AlertRules -> AlertRec]
  /\ forState \in [AlertRules -> [at : Int, value : Int, since : Int]]
  /\ amEnds \in [AlertRules -> {NoTime} \cup 0..MaxNow + ResolveAfter]
  /\ lastOk \in [AlertRules -> Int] /\ since \in [AlertRules -> Int]

\* The times of an alert at time t.
AlertInOrder(a, t) ==
  /\ a.state # "none" => a.activeAt \in 0..t
  /\ a.keepSince # NoTime => a.state \in {"firing", "inactive"}
  /\ a.resolvedAt = NoTime \/ a.resolvedAt \in 0..t
  /\ a.state = "inactive" => a.resolvedAt # NoTime

\* An alert with its last successful evaluation and the history of its activity: active since then,
\* or restored from a run that was over; pending before `for` is over and firing after it.
AlertFollows(a, ok, s, back) ==
  /\ Active(a) => s = a.activeAt \/ (s = NoTime /\ back)
  /\ ~Active(a) => s = NoTime
  /\ a.state = "firing" => ok # NoTime /\ ok - a.activeAt >= For
  /\ a.state = "pending" /\ ok # NoTime => ok - a.activeAt < For

\* What the Alertmanager was told of an alert that ends at e.
ToldRight(a, e, ok) ==
  /\ a.state = "firing" /\ a.resolvedAt = NoTime => e > ok
  /\ a.state = "inactive" => e <= ok

RuleInOrder(r) ==
  /\ AlertInOrder(alerts[r], now) /\ AlertFollows(alerts[r], lastOk[r], since[r], r \in resurrected)
  /\ alerts[r].state # "none" => r \in ruleSet
  /\ lastOk[r] = NoTime \/ lastOk[r] \in 0..now - 1
  /\ forState[r].at # NoTime => forState[r].value \in 0..now
  /\ forState[r].since = NoTime \/ forState[r].since = forState[r].value
  /\ r \in told => ToldRight(alerts[r], amEnds[r], lastOk[r])

AlertInv == AlertVarsTyped /\ \A r \in AlertRules : RuleInOrder(r)

\* The invariant is stronger than what the run checks.
LEMMA AlertInvSuffices == ASSUME AlertInv PROVE AlertsSound
<1> USE AlertingAssumption
<1>1. AlertingTypeOK
  <2>1. ASSUME NEW r \in AlertRules PROVE
          /\ alerts[r].state \in {"none", "pending", "firing", "inactive"}
          /\ alerts[r].state # "none" => r \in ruleSet /\ alerts[r].activeAt \in 0..now
          /\ alerts[r].keepSince # NoTime => alerts[r].state \in {"firing", "inactive"}
          /\ alerts[r].state = "inactive" => alerts[r].resolvedAt \in 0..now
          /\ amEnds[r] \in {NoTime} \cup 0..MaxNow + ResolveAfter
    BY DEF AlertInv, AlertVarsTyped, RuleInOrder, AlertInOrder, AlertRec
  <2> QED BY <2>1 DEF AlertInv, AlertVarsTyped, AlertingTypeOK
<1>2. FiringOnlyAfterFor
  <2> SUFFICES ASSUME NEW r \in AlertRules \ resurrected, alerts[r].state = "firing"
               PROVE  since[r] # NoTime /\ lastOk[r] - since[r] >= For
    BY DEF FiringOnlyAfterFor
  <2>1. RuleInOrder(r) /\ Active(alerts[r]) BY DEF AlertInv, Active
  <2>2. since[r] = alerts[r].activeAt /\ alerts[r].activeAt \in 0..now /\ lastOk[r] - alerts[r].activeAt >= For
    BY <2>1 DEF RuleInOrder, AlertInOrder, AlertFollows
  <2> QED BY <2>2 DEF NoTime
<1>3. FiresInTime
  <2> SUFFICES ASSUME NEW r \in AlertRules, since[r] # NoTime, lastOk[r] # NoTime, lastOk[r] - since[r] >= For
               PROVE  alerts[r].state = "firing"
    BY DEF FiresInTime
  <2>1. RuleInOrder(r) /\ lastOk[r] \in Int /\ since[r] \in Int BY DEF AlertInv, AlertVarsTyped
  <2>2. Active(alerts[r]) /\ since[r] = alerts[r].activeAt BY <2>1 DEF RuleInOrder, AlertFollows
  <2>3. ~(alerts[r].state = "pending") BY <2>1, <2>2 DEF RuleInOrder, AlertFollows
  <2> QED BY <2>2, <2>3 DEF Active
<1>4. AlertmanagerAgrees
  BY DEF AlertInv, AlertVarsTyped, RuleInOrder, ToldRight, AlertmanagerAgrees
<1> QED BY <1>1, <1>2, <1>3, <1>4 DEF AlertsSound

\* What an evaluation makes of an alert.
LEMMA ExecSteps ==
  ASSUME NEW a \in AlertRec, NEW ts \in Nat, NEW p \in BOOLEAN, AlertInOrder(a, ts),
         a.state = "firing" => ts - a.activeAt >= For
  PROVE  LET b == exec(a, ts, p) IN
         /\ b \in AlertRec /\ AlertInOrder(b, ts)
         /\ Active(b) /\ Active(a) => b.activeAt = a.activeAt
         /\ Active(b) /\ ~Active(a) => b.activeAt = ts
         /\ b.state = "firing" => ts - b.activeAt >= For
         /\ b.state = "pending" => ts - b.activeAt < For
<1> USE AlertingAssumption
<1>0. /\ NoTime \in Int /\ ts \in Int
      /\ NoAlert \in AlertRec /\ NoAlert.keepSince = NoTime /\ NoAlert.resolvedAt = NoTime
  BY DEF NoTime, NoAlert, AlertRec
<1> DEFINE e == Evicted(a, ts)
<1>1. /\ e \in AlertRec /\ AlertInOrder(e, ts) /\ (Active(e) <=> Active(a))
      /\ e.state = "firing" => ts - e.activeAt >= For
      /\ Active(a) => e = a
  BY DEF Evicted, AlertRec, NoAlert, AlertInOrder, Active, NoTime
<1> DEFINE s == IF p THEN apply_updates(e, ts) ELSE Swept(e, ts)
<1>2. /\ exec(a, ts, p) = Promoted(s, ts)
      /\ p => s = apply_updates(e, ts)
      /\ ~p => s = Swept(e, ts)
  BY DEF exec
<1> HIDE DEF e, s
<1>3. ASSUME p PROVE
        /\ s \in AlertRec /\ AlertInOrder(s, ts) /\ Active(s)
        /\ s.activeAt = IF Active(e) THEN e.activeAt ELSE ts
        /\ s.state = "firing" => ts - s.activeAt >= For
  <2>1. s = apply_updates(e, ts) BY <1>2, <1>3
  <2>2. CASE e.state = "none"
    <3>1. s = [NoAlert EXCEPT !.state = "pending", !.activeAt = ts] BY <2>1, <2>2 DEF apply_updates
    <3>2. s \in AlertRec /\ s.state = "pending" /\ s.activeAt = ts /\ s.keepSince = NoTime /\ s.resolvedAt = NoTime
      BY <1>0, <1>1, <3>1 DEF AlertRec
    <3> QED BY <1>1, <2>2, <3>2 DEF AlertInOrder, Active
  <2>3. CASE e.state = "inactive"
    <3>1. s = [e EXCEPT !.state = "pending", !.activeAt = ts, !.keepSince = NoTime]
      BY <2>1, <2>3 DEF apply_updates
    <3>2. /\ s \in AlertRec /\ s.state = "pending" /\ s.activeAt = ts /\ s.keepSince = NoTime
          /\ s.resolvedAt = e.resolvedAt
      BY <1>0, <1>1, <3>1 DEF AlertRec
    <3> QED BY <1>1, <2>3, <3>2 DEF AlertInOrder, Active
  <2>4. CASE e.state \in {"pending", "firing"}
    <3>1. s = [e EXCEPT !.keepSince = NoTime] BY <2>1, <2>4 DEF apply_updates
    <3>2. /\ s \in AlertRec /\ s.state = e.state /\ s.activeAt = e.activeAt /\ s.keepSince = NoTime
          /\ s.resolvedAt = e.resolvedAt
      BY <1>1, <3>1 DEF AlertRec, NoTime
    <3> QED BY <1>1, <2>4, <3>2 DEF AlertInOrder, Active
  <2> QED BY <1>1, <2>2, <2>3, <2>4 DEF AlertRec
<1>4. ASSUME ~p PROVE
        /\ s \in AlertRec /\ AlertInOrder(s, ts) /\ s.state # "pending"
        /\ Active(s) => Active(e) /\ s.activeAt = e.activeAt
        /\ s.state = "firing" => ts - s.activeAt >= For
  <2>1. s = Swept(e, ts) BY <1>2, <1>4
  <2>2. CASE e.state = "pending"
    BY <1>1, <2>1, <2>2 DEF Swept, AlertRec, NoAlert, AlertInOrder, Active, NoTime
  <2>3. CASE e.state = "firing"
    <3> DEFINE k == IF KeepFiringFor > 0 /\ e.keepSince = NoTime THEN ts ELSE e.keepSince
    <3>1. k \in Int BY <1>1 DEF AlertRec
    <3>2. s = IF k = NoTime \/ ts - k >= KeepFiringFor
              THEN [e EXCEPT !.keepSince = k, !.state = "inactive", !.resolvedAt = ts]
              ELSE [e EXCEPT !.keepSince = k]
      BY <2>1, <2>3 DEF Swept
    <3> HIDE DEF k
    <3>3. CASE k = NoTime \/ ts - k >= KeepFiringFor
      <4>1. s = [e EXCEPT !.keepSince = k, !.state = "inactive", !.resolvedAt = ts] BY <3>2, <3>3
      <4>2. s \in AlertRec /\ s.state = "inactive" /\ s.activeAt = e.activeAt /\ s.resolvedAt = ts
        BY <1>0, <1>1, <3>1, <4>1 DEF AlertRec
      <4> QED BY <1>1, <2>3, <4>2 DEF AlertInOrder, Active, NoTime
    <3>4. CASE ~(k = NoTime \/ ts - k >= KeepFiringFor)
      <4>1. s = [e EXCEPT !.keepSince = k] BY <3>2, <3>4
      <4>2. s \in AlertRec /\ s.state = "firing" /\ s.activeAt = e.activeAt /\ s.resolvedAt = e.resolvedAt
        BY <1>1, <2>3, <3>1, <4>1 DEF AlertRec
      <4> QED BY <1>1, <2>3, <4>2 DEF AlertInOrder, Active
    <3> QED BY <3>3, <3>4
  <2>4. CASE e.state \in {"none", "inactive"}
    BY <1>1, <2>1, <2>4 DEF Swept, AlertRec, AlertInOrder, Active
  <2> QED BY <1>1, <2>2, <2>3, <2>4 DEF AlertRec
<1>5. /\ s \in AlertRec /\ AlertInOrder(s, ts)
      /\ Active(s) /\ Active(a) => s.activeAt = a.activeAt
      /\ Active(s) /\ ~Active(a) => s.activeAt = ts
      /\ s.state = "firing" => ts - s.activeAt >= For
  BY <1>1, <1>3, <1>4
<1>6. CASE s.state = "pending" /\ ts - s.activeAt >= For
  BY <1>2, <1>5, <1>6 DEF Promoted, AlertRec, AlertInOrder, Active, NoTime
<1>7. CASE ~(s.state = "pending" /\ ts - s.activeAt >= For)
  <2>1. exec(a, ts, p) = s BY <1>2, <1>7 DEF Promoted
  <2>2. s.state = "pending" => s.activeAt \in Int /\ ~(ts - s.activeAt >= For) BY <1>5, <1>7 DEF AlertRec
  <2> QED BY <1>5, <2>1, <2>2
<1> QED BY <1>6, <1>7

\* The invariant holds initially.
LEMMA AlertStart == ASSUME AlertingInit PROVE AlertInv
<1> USE AlertingAssumption
<1>1. AlertVarsTyped
  BY DEF AlertingInit, AlertVarsTyped, AlertRec, NoAlert, NoTime
<1>2. ASSUME NEW r \in AlertRules PROVE RuleInOrder(r)
  BY DEF AlertingInit, RuleInOrder, AlertInOrder, AlertFollows, NoAlert, Active
<1> QED BY <1>1, <1>2 DEF AlertInv

\* An evaluation of the group.
LEMMA AlertEval ==
  ASSUME AlertInv, NEW present \in SUBSET ruleSet, NEW failed, NEW d \in BOOLEAN,
         eval_once(present, failed, d)
  PROVE  AlertInv'
<1> USE AlertingAssumption
<1> DEFINE ok == ruleSet \ failed
           new(r) == exec(alerts[r], now, r \in present)
           sent == {r \in ok : new(r).state \in {"firing", "inactive"}}
           run(r) == IF ~Active(new(r)) THEN NoTime ELSE IF Active(alerts[r]) THEN since[r] ELSE now
           sample(r) == IF Active(new(r)) THEN [at |-> now, value |-> new(r).activeAt, since |-> run(r)]
                                          ELSE [forState[r] EXCEPT !.since = NoTime]
<1>1. /\ now <= MaxNow /\ now' = now + 1
      /\ alerts' = [r \in AlertRules |-> IF r \in ok THEN new(r) ELSE alerts[r]]
      /\ forState' = [r \in AlertRules |-> IF r \in ok THEN sample(r) ELSE forState[r]]
      /\ amEnds' = [r \in AlertRules |-> IF r \in sent /\ d THEN EndsAt(new(r), now) ELSE amEnds[r]]
      /\ told' = (told \ ok) \cup (IF d THEN sent ELSE {})
      /\ lastOk' = [r \in AlertRules |-> IF r \in ok THEN now ELSE lastOk[r]]
      /\ since' = [r \in AlertRules |-> IF r \in ok THEN run(r) ELSE since[r]]
      /\ resurrected' = resurrected \ {r \in ok : ~Active(new(r))}
      /\ UNCHANGED <<ruleSet, wanted, updates, bounds>>
  BY DEF eval_once
<1>2. /\ now \in Nat /\ now \in 0..MaxNow /\ ruleSet \subseteq AlertRules
      /\ alerts \in [AlertRules -> AlertRec] /\ since \in [AlertRules -> Int] /\ lastOk \in [AlertRules -> Int]
      /\ forState \in [AlertRules -> [at : Int, value : Int, since : Int]]
      /\ \A r \in AlertRules : RuleInOrder(r)
  BY <1>1 DEF AlertInv, AlertVarsTyped
<1>3. ASSUME NEW r \in AlertRules PROVE
        /\ new(r) \in AlertRec /\ AlertInOrder(new(r), now)
        /\ Active(new(r)) /\ Active(alerts[r]) => new(r).activeAt = alerts[r].activeAt
        /\ Active(new(r)) /\ ~Active(alerts[r]) => new(r).activeAt = now
        /\ new(r).state = "firing" => now - new(r).activeAt >= For
        /\ new(r).state = "pending" => now - new(r).activeAt < For
  <2>1. AlertInOrder(alerts[r], now) /\ alerts[r] \in AlertRec /\ (r \in present) \in BOOLEAN
    BY <1>2 DEF RuleInOrder
  <2>2. alerts[r].state = "firing" => now - alerts[r].activeAt >= For
    <3> SUFFICES ASSUME alerts[r].state = "firing" PROVE now - alerts[r].activeAt >= For OBVIOUS
    <3>1. lastOk[r] \in 0..now - 1 /\ lastOk[r] - alerts[r].activeAt >= For /\ alerts[r].activeAt \in Int
      BY <1>2, <2>1 DEF RuleInOrder, AlertFollows, AlertRec
    <3> QED BY <1>2, <3>1
  <2> QED BY <1>2, <2>1, <2>2, ExecSteps
<1> HIDE DEF new
<1>4. ASSUME NEW r \in AlertRules PROVE run(r) \in Int
  BY <1>2 DEF NoTime
<1>5. ASSUME NEW r \in AlertRules PROVE EndsAt(new(r), now) \in {NoTime} \cup 0..MaxNow + ResolveAfter
  BY <1>2, <1>3 DEF EndsAt, AlertInOrder
<1> HIDE DEF run, ok, sent
<1>6. AlertVarsTyped'
  <2>1. now' \in 0..MaxNow + 1 BY <1>1, <1>2
  <2>2. alerts' \in [AlertRules -> AlertRec] BY <1>1, <1>2, <1>3
  <2>3. forState' \in [AlertRules -> [at : Int, value : Int, since : Int]]
    <3>1. \A r \in AlertRules : new(r).activeAt \in Int BY <1>3 DEF AlertRec
    <3>2. NoTime \in Int /\ now \in Int BY <1>2 DEF NoTime
    <3>3. ASSUME NEW r \in AlertRules PROVE forState'[r] \in [at : Int, value : Int, since : Int]
      <4>1. CASE r \notin ok BY <1>1, <1>2, <4>1
      <4>2. CASE r \in ok /\ Active(new(r))
        <5>1. forState'[r] = [at |-> now, value |-> new(r).activeAt, since |-> run(r)] BY <1>1, <4>2
        <5> QED BY <1>4, <3>1, <3>2, <5>1
      <4>3. CASE r \in ok /\ ~Active(new(r))
        <5>1. forState'[r] = [forState[r] EXCEPT !.since = NoTime] BY <1>1, <4>3
        <5> QED BY <1>2, <3>2, <5>1
      <4> QED BY <4>1, <4>2, <4>3
    <3> QED BY <1>1, <3>3
  <2>4. amEnds' \in [AlertRules -> {NoTime} \cup 0..MaxNow + ResolveAfter]
    BY <1>1, <1>5 DEF AlertInv, AlertVarsTyped
  <2>5. lastOk' \in [AlertRules -> Int] /\ since' \in [AlertRules -> Int] BY <1>1, <1>2, <1>4
  <2>6. told' \subseteq AlertRules /\ resurrected' \subseteq AlertRules
    BY <1>1, <1>2 DEF AlertInv, AlertVarsTyped, ok, sent
  <2> QED BY <1>1, <2>1, <2>2, <2>3, <2>4, <2>5, <2>6 DEF AlertInv, AlertVarsTyped
<1>7. ASSUME NEW r \in AlertRules PROVE RuleInOrder(r)'
  <2>1. RuleInOrder(r) BY <1>2
  <2>2. CASE r \notin ok
    <3>1. /\ alerts'[r] = alerts[r] /\ forState'[r] = forState[r] /\ lastOk'[r] = lastOk[r] /\ since'[r] = since[r]
          /\ amEnds'[r] = amEnds[r] /\ (r \in told') = (r \in told) /\ (r \in resurrected') = (r \in resurrected)
      <4>1. /\ alerts'[r] = alerts[r] /\ forState'[r] = forState[r] /\ lastOk'[r] = lastOk[r] /\ since'[r] = since[r]
            /\ amEnds'[r] = amEnds[r]
        BY <1>1, <2>2 DEF sent
      <4>2. (r \in told') = (r \in told) BY <1>1, <2>2 DEF sent
      <4>3. (r \in resurrected') = (r \in resurrected) BY <1>1, <2>2
      <4> QED BY <4>1, <4>2, <4>3
    <3>2. alerts[r] \in AlertRec /\ lastOk[r] \in Int /\ forState[r] \in [at : Int, value : Int, since : Int]
      BY <1>2
    <3>3. AlertInOrder(alerts[r], now + 1) BY <1>2, <2>1, <3>2 DEF RuleInOrder, AlertInOrder, AlertRec
    <3>4. /\ lastOk[r] = NoTime \/ lastOk[r] \in 0..(now + 1) - 1
          /\ forState[r].at # NoTime => forState[r].value \in 0..now + 1
      BY <1>2, <2>1, <3>2 DEF RuleInOrder
    <3> QED BY <1>1, <2>1, <3>1, <3>3, <3>4 DEF RuleInOrder
  <2>3. CASE r \in ok
    <3>1. /\ alerts'[r] = new(r) /\ lastOk'[r] = now /\ since'[r] = run(r) /\ r \in ruleSet
          /\ forState'[r] = IF Active(new(r)) THEN [at |-> now, value |-> new(r).activeAt, since |-> run(r)]
                            ELSE [forState[r] EXCEPT !.since = NoTime]
      BY <1>1, <2>3 DEF ok
    <3>2. AlertInOrder(new(r), now + 1) BY <1>2, <1>3 DEF AlertInOrder, AlertRec
    <3>3. AlertFollows(new(r), now, run(r), r \in resurrected')
      <4>1. now # NoTime BY <1>2 DEF NoTime
      <4>2. CASE ~Active(new(r))
        <5>1. run(r) = NoTime BY <4>2 DEF run
        <5> QED BY <4>2, <5>1 DEF AlertFollows, Active
      <4>3. CASE Active(new(r)) /\ Active(alerts[r])
        <5>1. run(r) = since[r] BY <4>3 DEF run
        <5>2. r \in resurrected' <=> r \in resurrected BY <1>1, <4>3
        <5>3. since[r] = alerts[r].activeAt \/ (since[r] = NoTime /\ r \in resurrected)
          BY <2>1, <4>3 DEF RuleInOrder, AlertFollows
        <5> QED BY <1>3, <4>1, <4>3, <5>1, <5>2, <5>3 DEF AlertFollows
      <4>4. CASE Active(new(r)) /\ ~Active(alerts[r])
        <5>1. run(r) = now BY <4>4 DEF run
        <5> QED BY <1>3, <4>1, <4>4, <5>1 DEF AlertFollows
      <4> QED BY <4>2, <4>3, <4>4
    <3>4. /\ forState'[r].at # NoTime => forState'[r].value \in 0..now + 1
          /\ forState'[r].since = NoTime \/ forState'[r].since = forState'[r].value
      <4>1. CASE Active(new(r))
        <5>1. forState'[r] = [at |-> now, value |-> new(r).activeAt, since |-> run(r)] BY <3>1, <4>1
        <5>2. new(r).activeAt \in 0..now BY <1>3, <4>1 DEF AlertInOrder, Active
        <5>3. run(r) = NoTime \/ run(r) = new(r).activeAt BY <3>3, <4>1 DEF AlertFollows
        <5>4. forState'[r].value = new(r).activeAt /\ forState'[r].since = run(r) BY <5>1
        <5> QED BY <1>2, <5>2, <5>3, <5>4
      <4>2. CASE ~Active(new(r))
        <5>1. forState[r] \in [at : Int, value : Int, since : Int] BY <1>2
        <5>2. /\ forState'[r].at = forState[r].at /\ forState'[r].value = forState[r].value
              /\ forState'[r].since = NoTime
          BY <3>1, <4>2, <5>1
        <5>3. forState[r].at # NoTime => forState[r].value \in 0..now BY <2>1 DEF RuleInOrder
        <5> QED BY <1>2, <5>2, <5>3
      <4> QED BY <4>1, <4>2
    <3>5. r \in told' => ToldRight(new(r), amEnds'[r], now)
      <4> SUFFICES ASSUME r \in told' PROVE ToldRight(new(r), amEnds'[r], now) OBVIOUS
      <4>1. d /\ r \in sent BY <1>1, <2>3 DEF sent
      <4>2. amEnds'[r] = EndsAt(new(r), now) BY <1>1, <4>1
      <4> QED BY <1>2, <1>3, <4>2 DEF ToldRight, EndsAt, AlertInOrder
    <3>6. now \in 0..(now + 1) - 1 BY <1>2
    <3> QED BY <1>1, <3>1, <3>2, <3>3, <3>4, <3>5, <3>6 DEF RuleInOrder
  <2> QED BY <2>2, <2>3
<1> QED BY <1>6, <1>7 DEF AlertInv

\* An update that the group takes, and one that the manager sends.
LEMMA AlertReload ==
  ASSUME AlertInv, apply_update \/ \E rules \in SUBSET AlertRules : reload(rules)
  PROVE  AlertInv'
<1> USE AlertingAssumption
<1>1. ASSUME NEW rules \in SUBSET AlertRules, reload(rules) PROVE AlertInv'
  <2>1. UNCHANGED <<now, ruleSet, alerts, forState, amEnds, told, lastOk, since, resurrected>>
    BY <1>1 DEF reload
  <2>2. updates' \in Seq(SUBSET AlertRules) /\ wanted' \subseteq AlertRules
    BY <1>1 DEF reload, AlertInv, AlertVarsTyped
  <2>3. \A r \in AlertRules : RuleInOrder(r)' BY <2>1 DEF AlertInv, RuleInOrder
  <2> QED BY <2>1, <2>2, <2>3 DEF AlertInv, AlertVarsTyped
<1>2. ASSUME apply_update PROVE AlertInv'
  <2> DEFINE kept == Head(updates) \cap ruleSet
  <2>1. /\ updates' = Tail(updates) /\ ruleSet' = Head(updates) /\ updates # <<>>
        /\ alerts' = [r \in AlertRules |-> IF r \in kept THEN alerts[r] ELSE NoAlert]
        /\ since' = [r \in AlertRules |-> IF r \in kept THEN since[r] ELSE NoTime]
        /\ lastOk' = [r \in AlertRules |-> IF r \in kept THEN lastOk[r] ELSE NoTime]
        /\ resurrected' = resurrected \cap kept /\ told' = told \cap kept
        /\ UNCHANGED <<now, wanted, forState, amEnds, bounds>>
    BY <1>2 DEF apply_update, Kept, Only
  <2>2. Tail(updates) \in Seq(SUBSET AlertRules) /\ Head(updates) \in SUBSET AlertRules
    BY <2>1 DEF AlertInv, AlertVarsTyped
  <2>3. NoAlert \in AlertRec /\ NoTime \in Int BY DEF NoAlert, AlertRec, NoTime
  <2>4. AlertVarsTyped'
    <3>1. alerts' \in [AlertRules -> AlertRec] /\ since' \in [AlertRules -> Int] /\ lastOk' \in [AlertRules -> Int]
      BY <2>1, <2>3 DEF AlertInv, AlertVarsTyped
    <3> QED BY <2>1, <2>2, <3>1 DEF AlertInv, AlertVarsTyped
  <2>5. ASSUME NEW r \in AlertRules PROVE RuleInOrder(r)'
    <3>1. RuleInOrder(r) BY DEF AlertInv
    <3>2. CASE r \in kept
      <4>1. /\ alerts'[r] = alerts[r] /\ since'[r] = since[r] /\ lastOk'[r] = lastOk[r] /\ r \in ruleSet'
            /\ (r \in resurrected' <=> r \in resurrected) /\ (r \in told' <=> r \in told)
        BY <2>1, <3>2
      <4> QED BY <2>1, <3>1, <4>1 DEF RuleInOrder
    <3>3. CASE r \notin kept
      <4>1. alerts'[r] = NoAlert /\ since'[r] = NoTime /\ lastOk'[r] = NoTime /\ r \notin told'
        BY <2>1, <3>3
      <4>2. AlertInOrder(NoAlert, now) /\ AlertFollows(NoAlert, NoTime, NoTime, r \in resurrected') /\ NoAlert.state = "none"
        BY DEF AlertInOrder, AlertFollows, NoAlert, Active
      <4> QED BY <2>1, <3>1, <4>1, <4>2 DEF RuleInOrder
    <3> QED BY <3>2, <3>3
  <2> QED BY <2>4, <2>5 DEF AlertInv
<1> QED BY <1>1, <1>2

\* A restart, with the alerts that are restored.
LEMMA AlertRestart ==
  ASSUME AlertInv, NEW S \in SUBSET ruleSet, Restart(S)
  PROVE  AlertInv'
<1> USE AlertingAssumption
<1>1. /\ now <= MaxNow /\ now' = now + 1 /\ S \subseteq Found
      /\ alerts' = [r \in AlertRules |-> IF r \in S THEN Restored(r) ELSE NoAlert]
      /\ resurrected' = {r \in S : forState[r].since = NoTime}
      /\ since' = [r \in AlertRules |-> IF r \in S THEN forState[r].since ELSE NoTime]
      /\ lastOk' = [r \in AlertRules |-> NoTime] /\ told' = {}
      /\ UNCHANGED <<ruleSet, wanted, updates, forState, amEnds>>
  BY DEF Restart, Only
<1>2. /\ now \in Nat /\ ruleSet \subseteq AlertRules /\ forState \in [AlertRules -> [at : Int, value : Int, since : Int]]
      /\ NoTime \in Int /\ NoAlert \in AlertRec /\ NoAlert.keepSince = NoTime /\ NoAlert.resolvedAt = NoTime
  BY DEF AlertInv, AlertVarsTyped, NoTime, NoAlert, AlertRec
<1>3. ASSUME NEW r \in AlertRules PROVE
        /\ Restored(r) \in AlertRec /\ Restored(r).state = "pending" /\ Restored(r).activeAt = forState[r].value
        /\ Restored(r).keepSince = NoTime /\ Restored(r).resolvedAt = NoTime
  BY <1>2 DEF Restored, AlertRec
<1>4. AlertVarsTyped'
  <2>1. alerts' \in [AlertRules -> AlertRec]
    BY <1>1, <1>2, <1>3
  <2>2. since' \in [AlertRules -> Int] /\ lastOk' \in [AlertRules -> Int] BY <1>1, <1>2
  <2>3. resurrected' \subseteq AlertRules /\ told' \subseteq AlertRules BY <1>1, <1>2
  <2>4. now' \in 0..MaxNow + 1 BY <1>1, <1>2
  <2> QED BY <1>1, <2>1, <2>2, <2>3, <2>4 DEF AlertInv, AlertVarsTyped
<1>5. ASSUME NEW r \in AlertRules PROVE RuleInOrder(r)'
  <2>1. RuleInOrder(r) /\ lastOk'[r] = NoTime /\ r \notin told' /\ forState'[r] = forState[r] BY <1>1 DEF AlertInv
  <2>2. /\ forState[r].at # NoTime => forState[r].value \in 0..now + 1
        /\ forState[r].since = NoTime \/ forState[r].since = forState[r].value
    <3>1. forState[r].at # NoTime => forState[r].value \in 0..now BY <2>1 DEF RuleInOrder
    <3>2. forState[r].since = NoTime \/ forState[r].since = forState[r].value BY <2>1 DEF RuleInOrder
    <3> QED BY <1>2, <3>1, <3>2
  <2>3. CASE r \in S
    <3>1. /\ alerts'[r] = Restored(r) /\ since'[r] = forState[r].since /\ r \in ruleSet' /\ forState[r].at # NoTime
          /\ (r \in resurrected' <=> forState[r].since = NoTime)
      BY <1>1, <2>3 DEF Found
    <3>2. /\ alerts'[r].state = "pending" /\ alerts'[r].activeAt = forState[r].value
          /\ alerts'[r].keepSince = NoTime /\ alerts'[r].resolvedAt = NoTime
      BY <1>3, <3>1
    <3>3. AlertInOrder(alerts'[r], now + 1) BY <2>2, <3>1, <3>2 DEF AlertInOrder
    <3>4. AlertFollows(alerts'[r], NoTime, since'[r], r \in resurrected')
      BY <2>2, <3>1, <3>2 DEF AlertFollows, Active
    <3> QED BY <1>1, <2>1, <2>2, <3>1, <3>3, <3>4 DEF RuleInOrder
  <2>4. CASE r \notin S
    <3>1. alerts'[r] = NoAlert /\ since'[r] = NoTime BY <1>1, <2>4
    <3>2. AlertInOrder(NoAlert, now') /\ AlertFollows(NoAlert, NoTime, NoTime, r \in resurrected') /\ NoAlert.state = "none"
      BY DEF AlertInOrder, AlertFollows, NoAlert, Active
    <3> QED BY <1>1, <2>1, <2>2, <3>1, <3>2 DEF RuleInOrder
  <2> QED BY <2>3, <2>4
<1> QED BY <1>4, <1>5 DEF AlertInv

\* AlertsSound (exec, apply_update, restore, eval_once) for all rules, durations and bounds: an alert
\* fires as soon as its series has been active for `for` and not before, through failed queries,
\* reloads and restarts, and the Alertmanager was told the same.
THEOREM AlertsAreSound == AlertingSpec => []AlertsSound
<1>1. AlertingInit => AlertInv BY AlertStart
<1>2. AlertInv /\ [AlertingNext]_alertVars => AlertInv'
  <2> SUFFICES ASSUME AlertInv, [AlertingNext]_alertVars PROVE AlertInv' OBVIOUS
  <2>1. CASE UNCHANGED alertVars
    BY <2>1 DEF alertVars, AlertInv, AlertVarsTyped, RuleInOrder
  <2>2. CASE AlertingNext
    BY <2>2, AlertEval, AlertReload, AlertRestart DEF AlertingNext
  <2> QED BY <2>1, <2>2
<1>3. AlertInv => AlertsSound BY AlertInvSuffices
<1> QED BY <1>1, <1>2, <1>3, PTL DEF AlertingSpec
=============================================================================
