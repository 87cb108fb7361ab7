------------------------- MODULE RemoteWriteProofs -------------------------
(***************************************************************************)
(* Proofs about RemoteWrite, for all series, threads, limits and bounds,   *)
(* where no file operation but a write may fail: every accepted series is  *)
(* in one place, and under the threads of the destination the queue is     *)
(* still the durable FIFO of QueueProofs.                                  *)
(***************************************************************************)
EXTENDS MCRemoteWrite, FiniteSetTheorems, TLAPS

QP == INSTANCE QueueProofs

----------------------------------------------------------------------------
(* The invariant.                                                          *)

\* The series of the blocks in the threads' hands h.
Held(h) == UNION {UNION h[t] : t \in Threads}

\* Blocks of different threads, and of different files, have no series in common.
Apart(h)      == \A t, u \in Threads : \A d \in h[t], e \in h[u] : d \cap e # {} => t = u
FilesApart(F) == \A b, c \in F : b.data \cap c.data # {} => b = c

\* Sets that have nothing in common and together are the last one.
Partitioned(p, h, q, d, r, e, f, all) ==
  /\ p \cap (h \cup q \cup d \cup r \cup e \cup f) = {}
  /\ h \cap (q \cup d \cup r \cup e \cup f) = {}
  /\ q \cap (d \cup r \cup e \cup f) = {}
  /\ d \cap (r \cup e \cup f) = {}
  /\ r \cap (e \cup f) = {}
  /\ e \cap f = {}
  /\ all = p \cup h \cup q \cup d \cup r \cup e \cup f

\* The places of series are apart, and together they hold what has been accepted.
SeriesApart ==
  /\ Partitioned(pending, Held(hands), Queued, delivered, rejected, Evicted, failed, accepted)
  /\ Apart(hands) /\ FilesApart(files)

\* A thread has one block at most, and none while its push is under way or its worker has no
\* use for one; a stop leaves less and less in hands; a stopped destination is a closed queue.
ThreadsInv ==
  /\ \A t \in Threads : \A d, e \in hands[t] : d = e
  /\ \A t, u \in holder : t = u
  /\ \A t \in holder : hands[t] = {} /\ (t \in Workers => pc[t] = "requeue")
  /\ \A w \in Workers : pc[w] \in {"loop", "pop", "exit"} => hands[w] = {}
  /\ stage # "running" => Quiet(Pushers)
  /\ stage \notin {"running", "flush_stop"} => pending = {} /\ Quiet({"flush_loop"})
  /\ stage # "final_flush" => Quiet({"stop"})
  /\ stage = "stopped" <=> status = "closed"
  /\ stage = "stopped" => \A w \in Workers : pc[w] = "exit"
  /\ status = "down" => pending = {} /\ holder = {} /\ \A t \in Threads : hands[t] = {}

\* No block is longer than max_block_size.
BlocksFit ==
  /\ Cardinality(pending) < MaxBlockSize
  /\ \A t \in Threads : \A d \in hands[t] : Cardinality(d) <= MaxBlockSize
  /\ \A b \in files : Cardinality(b.data) <= MaxBlockSize

\* What the destination keeps beside the queue.
DestTyped ==
  /\ pending \subseteq Series
  /\ hands \in [Threads -> SUBSET Blocks]
  /\ holder \subseteq Threads
  /\ pc \in [Workers -> Steps]
  /\ stage \in {"running", "flush_stop", "final_flush", "client_stop", "stopped"}
  /\ accepted \subseteq Series /\ delivered \subseteq Series
  /\ rejected \subseteq Series /\ failed \subseteq Series
  /\ stops \in Nat

DestInv     == DestTyped /\ SeriesApart /\ ThreadsInv /\ BlocksFit
PipelineInv == QP!DurableInv /\ DestInv

----------------------------------------------------------------------------
(* The queue of the destination.                                           *)

\* What a block may hold is finite and not empty.
LEMMA BlocksFinite ==
  /\ \A d \in Blocks : d \subseteq Series /\ d # {} /\ IsFiniteSet(d) /\ Cardinality(d) \in Nat \ {0}
  /\ \A d \in Blocks : Size[d] = Cardinality(d)
<1>1. IsFiniteSet(Series) /\ Blocks = (SUBSET Series) \ {{}} /\ Size = [b \in Blocks |-> Cardinality(b)]
  BY RemoteWriteAssumption
<1>2. ASSUME NEW d \in Blocks
      PROVE  d \subseteq Series /\ d # {} /\ IsFiniteSet(d) /\ Cardinality(d) \in Nat \ {0}
  <2>1. d \subseteq Series /\ d # {} BY <1>1
  <2>2. IsFiniteSet(d) BY <1>1, <2>1, FS_Subset
  <2> QED BY <2>1, <2>2, FS_CardinalityType, FS_EmptySet
<1> QED BY <1>1, <1>2

\* The destination meets what the queue assumes.
LEMMA QueueAssumed ==
  /\ Size \in [Blocks -> Nat \ {0}]
  /\ Faulty \subseteq {"write", "remove", "read"}
  /\ MaxBytes \in Nat /\ MaxIndex \in Nat /\ MaxFaults \in Nat /\ MaxCrashes \in Nat
BY BlocksFinite, RemoteWriteAssumption

\* The operators of the queue are the ones its proofs are about.
LEMMA SameSurplus ==
  ASSUME NEW S
  PROVE  Queue!Surplus(S) = QP!Surplus(S) /\ Queue!Bytes(S) = QP!Bytes(S)
BY DEF Queue!Surplus, QP!Surplus, Queue!Over, QP!Over, Queue!Bytes, QP!Bytes,
       Queue!Cardinality, QP!Cardinality, Queue!BytePositions, QP!BytePositions

\* ... the order of the files ...
LEMMA SameOrder ==
  ASSUME NEW S
  PROVE  /\ Queue!Replayed(S) = QP!Replayed(S) /\ Queue!IndexAfter(S) = QP!IndexAfter(S)
         /\ Queue!FileOrder(S) = QP!FileOrder(S)
<1>1. Queue!ByIndex(S) = QP!ByIndex(S)
  BY DEF Queue!ByIndex, QP!ByIndex, Queue!UpTo, QP!UpTo, Queue!Cardinality, QP!Cardinality
<1>2. Queue!Cardinality(S) = QP!Cardinality(S) BY DEF Queue!Cardinality, QP!Cardinality
<1>3. Queue!IndexAfter(S) = QP!IndexAfter(S)
  BY DEF Queue!IndexAfter, QP!IndexAfter, Queue!LastOf, QP!LastOf
<1> QED BY <1>1, <1>2, <1>3 DEF Queue!Replayed, QP!Replayed, Queue!FileOrder, QP!FileOrder

\* ... and so are its operations.
LEMMA SamePush ==
  ASSUME NEW x
  PROVE  /\ Queue!write_block_file(x) <=> QP!write_block_file(x)
         /\ Queue!PushFails(x) <=> QP!PushFails(x)
         /\ Queue!PushEvict(x) <=> QP!PushEvict(x)
         /\ Queue!PushBack(x) <=> QP!PushBack(x)
<1>1. Queue!write_block_file(x) <=> QP!write_block_file(x)
  BY DEF Queue!write_block_file, QP!write_block_file
<1>2. Queue!PushFails(x) <=> QP!PushFails(x)
  BY DEF Queue!PushFails, QP!PushFails, Queue!Fault, QP!Fault
<1>3. Queue!PushEvict(x) <=> QP!PushEvict(x)
  BY DEF Queue!PushEvict, QP!PushEvict, Queue!Fault, QP!Fault, Queue!remove_block_file,
         QP!remove_block_file, Queue!TooMuch, QP!TooMuch, Queue!Over, QP!Over
<1>4. Queue!PushBack(x) <=> QP!PushBack(x)
  BY DEF Queue!PushBack, QP!PushBack, Queue!TooMuch, QP!TooMuch, Queue!Over, QP!Over
<1> QED BY <1>1, <1>2, <1>3, <1>4

\* Likewise for those that the workers, a stop and a crash use.
LEMMA SameRest ==
  /\ Queue!pop <=> QP!pop
  /\ Queue!PopNone <=> QP!PopNone
  /\ Queue!close <=> QP!close
  /\ Queue!Crash <=> QP!Crash
  /\ Queue!Init <=> QP!Init
<1>1. Queue!pop <=> QP!pop
  BY DEF Queue!pop, QP!pop, Queue!Fault, QP!Fault, Queue!remove_block_file, QP!remove_block_file
<1>2. Queue!PopNone <=> QP!PopNone BY DEF Queue!PopNone, QP!PopNone, Queue!vars, QP!vars
<1>3. Queue!close <=> QP!close BY DEF Queue!close, QP!close
<1>4. Queue!Crash <=> QP!Crash BY DEF Queue!Crash, QP!Crash
<1>5. Queue!Init <=> QP!Init BY DEF Queue!Init, QP!Init
<1> QED BY <1>1, <1>2, <1>3, <1>4, <1>5

\* ... and for open.
LEMMA SameOpen ==
  ASSUME NEW bad, NEW stay
  PROVE  Queue!open(bad, stay) <=> QP!open(bad, stay)
<1>1. Queue!Cardinality(bad) = QP!Cardinality(bad) /\ Queue!Cardinality(stay) = QP!Cardinality(stay)
  BY DEF Queue!Cardinality, QP!Cardinality
<1>2. \A S : Queue!Surplus(S) = QP!Surplus(S) BY SameSurplus
<1>3. \A S : Queue!Bytes(S) = QP!Bytes(S) BY SameSurplus
<1>4. \A S : Queue!Replayed(S) = QP!Replayed(S) BY SameOrder
<1>5. \A S : Queue!IndexAfter(S) = QP!IndexAfter(S) BY SameOrder
<1> QED BY <1>1, <1>2, <1>3, <1>4, <1>5 DEF Queue!open, QP!open

\* Every step of the destination is one of the queue or leaves the queue alone.
LEMMA QueueStep ==
  ASSUME DestTyped, [Next]_vars
  PROVE  [QP!Next]_(QP!vars)
<1>1. \A t \in Threads : \A d \in hands[t] : d \in Blocks BY DEF DestTyped
<1>2. ASSUME UNCHANGED queue PROVE UNCHANGED QP!vars BY <1>2 DEF queue, QP!vars
<1>3. CASE UNCHANGED vars BY <1>2, <1>3 DEF vars
<1>4. ASSUME NEW t \in Pushers, NEW s \in Series, push(t, s) PROVE UNCHANGED QP!vars BY <1>2, <1>4 DEF push
<1>5. CASE flush_loop BY <1>2, <1>5 DEF flush_loop
<1>6. ASSUME NEW t \in Threads, NEW d \in hands[t], PushWrite(t, d) PROVE QP!Next
  BY <1>1, <1>6, SamePush DEF PushWrite, QP!Next
<1>7. ASSUME NEW t \in Threads, NEW d \in hands[t], PushFails(t, d) PROVE QP!Next
  BY <1>1, <1>7, SamePush DEF PushFails, QP!Next
<1>8. ASSUME NEW b \in writer, PushEvict(b) PROVE QP!Next BY <1>8, SamePush DEF PushEvict, QP!Next
<1>9. ASSUME NEW b \in writer, NEW t \in Threads, PushBack(b, t) PROVE QP!Next
  BY <1>9, SamePush DEF PushBack, QP!Next
<1>10. ASSUME NEW w \in Workers, worker_loop(w) \/ Retryable(w) \/ wait_or_stop(w) PROVE UNCHANGED QP!vars
  BY <1>2, <1>10 DEF worker_loop, Retryable, wait_or_stop
<1>11. ASSUME NEW w \in Workers, pop(w) PROVE QP!Next BY <1>11, SameRest DEF pop, QP!Next
<1>12. ASSUME NEW w \in Workers, NEW d \in hands[w], Answered(w, d) PROVE UNCHANGED QP!vars
  BY <1>2, <1>12 DEF Answered
<1>13. CASE stop \/ FinalFlush \/ ClientStop BY <1>2, <1>13 DEF stop, FinalFlush, ClientStop
<1>14. CASE Close BY <1>14, SameRest DEF Close, QP!Next
<1>15. CASE Crash BY <1>15, SameRest DEF Crash, QP!Next
<1>16. ASSUME NEW bad \in SUBSET files, NEW stay \in SUBSET files, start(bad, stay) PROVE QP!Next
  BY <1>16, SameOpen DEF start, QP!Next
<1> QED BY <1>3, <1>4, <1>5, <1>6, <1>7, <1>8, <1>9, <1>10, <1>11, <1>12, <1>13, <1>14, <1>15, <1>16 DEF Next

\* A push adds a file with its block.
LEMMA FileAdded ==
  ASSUME QP!DurableInv, NEW d \in Blocks, Queue!write_block_file(d)
  PROVE  /\ \E b : b.data = d /\ files' = files \cup {b}
         /\ UNCHANGED <<status, evicted>> /\ status = "open"
<1> DEFINE b == [index |-> nextIndex, data |-> d]
<1>1. QP!write_block_file(d) BY SamePush
<1>2. files' = files \cup {b} BY <1>1, QueueAssumed, QP!WriteLast
<1>3. b.data = d OBVIOUS
<1> HIDE DEF b
<1>4. UNCHANGED <<status, evicted>> /\ status = "open" BY DEF Queue!write_block_file
<1> QED BY <1>2, <1>3, <1>4

\* A pop and an eviction remove one file.
LEMMA FileRemoved ==
  ASSUME Faulty \subseteq {"write"}, QP!DurableInv, Queue!pop \/ \E b \in writer : Queue!PushEvict(b)
  PROVE  Head(blocks) \in files /\ files' = files \ {Head(blocks)}
<1>1. /\ blocks # <<>> /\ blocks' = Tail(blocks) /\ writer' = writer
      /\ QP!remove_block_file(Head(blocks))
  BY SamePush, SameRest DEF QP!pop, QP!PushEvict
<1>2. files' = files \ {Head(blocks)} /\ {Head(blocks)} \in SUBSET files
  BY <1>1, QueueAssumed, QP!DropOldest
<1> QED BY <1>2

\* An open removes the files of the blocks it drops.
LEMMA FilesDropped ==
  ASSUME Faulty \subseteq {"write"}, QP!DurableInv, NEW bad \in SUBSET files, NEW stay \in SUBSET files,
         Queue!open(bad, stay)
  PROVE  /\ \E X \in SUBSET files : files' = files \ X /\ evicted' = evicted \cup {b.data : b \in X}
         /\ status # "open" /\ status' = "open"
<1> DEFINE X == QP!Surplus(files)
<1>1. QP!open(bad, stay) BY SameOpen
<1>2. files' = files \ X BY <1>1, QueueAssumed, QP!OpenDrops
<1>3. X \in SUBSET files BY QueueAssumed, QP!SurplusFits DEF QP!DurableInv, QP!QueueInv
<1>4. bad = {} BY <1>1 DEF QP!open
<1>5. files \ bad = files BY <1>4
<1>6. evicted' = evicted \cup {b.data : b \in X} BY <1>1, <1>5 DEF QP!open
<1>7. status # "open" /\ status' = "open" BY <1>1 DEF QP!open
<1> HIDE DEF X
<1> QED BY <1>2, <1>3, <1>6, <1>7

----------------------------------------------------------------------------
(* Where the series are.                                                   *)

\* Another block, or none, in the hand of t: the series in instead of the series out.
Replaced(h, g, t, out, in) ==
  /\ t \in Threads /\ Apart(h) /\ UNION h[t] = out /\ UNION g[t] = in
  /\ \A u \in Threads : u # t => g[u] = h[u]
  /\ in \cap (Held(h) \ out) = {}

\* Hands stay apart when new series come into one.
LEMMA HandChanged ==
  ASSUME NEW h, NEW g, NEW t, NEW in, NEW out, Replaced(h, g, t, out, in)
  PROVE  Apart(g) /\ Held(g) = (Held(h) \ out) \cup in
<1> DEFINE others == Held(h) \ out
<1> USE DEF Replaced
<1>1. \A u \in Threads : u # t => \A e \in h[u] : e \subseteq others
  <2> SUFFICES ASSUME NEW u \in Threads, u # t, NEW e \in h[u], NEW s \in e
               PROVE  s \in Held(h) /\ s \notin out
    OBVIOUS
  <2>1. s \in Held(h) BY DEF Held
  <2>2. \A d \in h[t] : s \notin d BY DEF Apart
  <2> QED BY <2>1, <2>2
<1>2. \A d \in g[t] : d \subseteq in OBVIOUS
<1>3. in \cap others = {} OBVIOUS
<1>4. Apart(g)
  <2> HIDE DEF others
  <2> SUFFICES ASSUME NEW u \in Threads, NEW v \in Threads, u # v, NEW d \in g[u], NEW e \in g[v]
               PROVE  d \cap e = {}
    BY DEF Apart
  <2>1. CASE u = t
    <3>1. e \subseteq others BY <1>1, <2>1
    <3>2. d \subseteq in BY <1>2, <2>1
    <3> QED BY ONLY <1>3, <3>1, <3>2
  <2>2. CASE v = t
    <3>1. d \subseteq others BY <1>1, <2>2
    <3>2. e \subseteq in BY <1>2, <2>2
    <3> QED BY ONLY <1>3, <3>1, <3>2
  <2>3. CASE u # t /\ v # t
    <3>1. d \in h[u] /\ e \in h[v] BY <2>3
    <3> QED BY <3>1 DEF Apart
  <2> QED BY <2>1, <2>2, <2>3
<1>5. ASSUME NEW s PROVE s \in Held(g) <=> s \in others \cup in
  <2>1. ASSUME s \in Held(g) PROVE s \in others \cup in
    <3>1. PICK u \in Threads : s \in UNION g[u] BY <2>1 DEF Held
    <3>2. CASE u = t BY <3>1, <3>2
    <3>3. CASE u # t BY <1>1, <3>1, <3>3
    <3> QED BY <3>2, <3>3
  <2>2. ASSUME s \in in PROVE s \in Held(g) BY <2>2 DEF Held
  <2>3. ASSUME s \in others PROVE s \in Held(g)
    <3>1. PICK u \in Threads : s \in UNION h[u] BY <2>3 DEF Held
    <3>2. u # t BY <2>3, <3>1
    <3> QED BY <3>1, <3>2 DEF Held
  <2> QED BY <2>1, <2>2, <2>3
<1>6. Held(g) = others \cup in BY <1>5
<1> QED BY <1>4, <1>6

\* The series of files F.
In(F) == UNION {b.data : b \in F}

\* A file more, with series that no other has.
LEMMA InAdd ==
  ASSUME NEW F, NEW b, FilesApart(F), In(F) \cap b.data = {}
  PROVE  FilesApart(F \cup {b}) /\ In(F \cup {b}) = In(F) \cup b.data
<1>1. In(F \cup {b}) = In(F) \cup b.data BY DEF In
<1>2. \A c \in F : c.data \subseteq In(F) BY DEF In
<1>3. \A c \in F : c.data \cap b.data = {} BY <1>2
<1> QED BY <1>1, <1>3 DEF FilesApart

\* Files less, and their series with them.
LEMMA InDrop ==
  ASSUME NEW F, NEW X \in SUBSET F, FilesApart(F)
  PROVE  FilesApart(F \ X) /\ In(F \ X) = In(F) \ In(X) /\ In(X) \subseteq In(F)
<1>1. ASSUME NEW s PROVE s \in In(F \ X) <=> s \in In(F) /\ s \notin In(X)
  <2>1. ASSUME s \in In(F \ X) PROVE s \in In(F) /\ s \notin In(X)
    <3>1. PICK b \in F \ X : s \in b.data BY <2>1 DEF In
    <3>2. \A c \in X : s \notin c.data BY <3>1 DEF FilesApart
    <3> QED BY <3>1, <3>2 DEF In
  <2>2. ASSUME s \in In(F), s \notin In(X) PROVE s \in In(F \ X)
    <3>1. PICK b \in F : s \in b.data BY <2>2 DEF In
    <3>2. b \notin X BY <2>2, <3>1 DEF In
    <3> QED BY <3>1, <3>2 DEF In
  <2> QED BY <2>1, <2>2
<1>2. In(F \ X) = In(F) \ In(X) BY <1>1
<1>3. In(X) \subseteq In(F) BY DEF In
<1> QED BY <1>2, <1>3 DEF FilesApart

\* Each series of the destination counts for its place.
LEMMA InUse ==
  /\ Queued = In(files) /\ Queued' = In(files') /\ Held(hands)' = Held(hands')
  /\ Apart(hands)' <=> Apart(hands')
  /\ FilesApart(files)' <=> FilesApart(files')
<1>1. Queued = In(files) /\ Queued' = In(files') BY DEF Queued, In
<1>2. Held(hands)' = Held(hands') BY DEF Held
<1>3. Apart(hands)' <=> Apart(hands') BY DEF Apart
<1>4. FilesApart(files)' <=> FilesApart(files') BY DEF FilesApart
<1> QED BY <1>1, <1>2, <1>3, <1>4

\* Series move from one place to another.
LEMMA SealMove ==
  ASSUME NEW p, NEW h, NEW q, NEW d, NEW r, NEW e, NEW f, NEW a, NEW s,
         Partitioned(p, h, q, d, r, e, f, a), s \notin a
  PROVE  /\ Partitioned({}, h \cup p \cup {s}, q, d, r, e, f, a \cup {s})
         /\ Partitioned(p \cup {s}, h, q, d, r, e, f, a \cup {s})
BY DEF Partitioned

\* ... out of the buffer ...
LEMMA FlushMove ==
  ASSUME NEW p, NEW h, NEW q, NEW d, NEW r, NEW e, NEW f, NEW a,
         Partitioned(p, h, q, d, r, e, f, a)
  PROVE  Partitioned({}, h \cup p, q, d, r, e, f, a)
BY DEF Partitioned

\* ... out of a hand ...
LEMMA HandMove ==
  ASSUME NEW p, NEW h, NEW q, NEW d, NEW r, NEW e, NEW f, NEW a, NEW x \in SUBSET h,
         Partitioned(p, h, q, d, r, e, f, a)
  PROVE  /\ Partitioned(p, h \ x, q \cup x, d, r, e, f, a)
         /\ Partitioned(p, h \ x, q, d \cup x, r, e, f, a)
         /\ Partitioned(p, h \ x, q, d, r \cup x, e, f, a)
         /\ Partitioned(p, h \ x, q, d, r, e, f \cup x, a)
BY DEF Partitioned

\* ... out of files ...
LEMMA FileMove ==
  ASSUME NEW p, NEW h, NEW q, NEW d, NEW r, NEW e, NEW f, NEW a, NEW x \in SUBSET q,
         Partitioned(p, h, q, d, r, e, f, a)
  PROVE  /\ Partitioned(p, h \cup x, q \ x, d, r, e, f, a)
         /\ Partitioned(p, h, q \ x, d, r, e \cup x, f, a)
BY DEF Partitioned

\* ... or out of the world.
LEMMA CrashMove ==
  ASSUME NEW p, NEW h, NEW q, NEW d, NEW r, NEW e, NEW f, NEW a,
         Partitioned(p, h, q, d, r, e, f, a)
  PROVE  Partitioned({}, {}, q, d, r, e, f, d \cup r \cup e \cup f \cup q)
BY DEF Partitioned

\* What leaves all places alone.
LEMMA PlacesStay ==
  ASSUME DestInv, UNCHANGED <<pending, hands, files, evicted, accepted, results>>
  PROVE  SeriesApart' /\ BlocksFit'
<1>1. SeriesApart' BY DEF DestInv, SeriesApart, results, Queued, Evicted, Held, Apart, FilesApart, Partitioned
<1>2. BlocksFit' BY DEF DestInv, BlocksFit
<1> QED BY <1>1, <1>2

----------------------------------------------------------------------------
(* Every step keeps the invariant of the destination.                      *)

\* The threads are different ones.
LEMMA ThreadSets ==
  /\ "stop" \in Threads /\ "flush_loop" \in Threads /\ Workers \subseteq Threads /\ Pushers \subseteq Threads
  /\ "stop" \notin Workers /\ "flush_loop" \notin Workers /\ "stop" \notin Pushers /\ "flush_loop" \notin Pushers
  /\ "stop" # "flush_loop" /\ \A t \in Pushers : t \notin Workers
BY RemoteWriteAssumption DEF Threads

\* The buffer is finite.
LEMMA PendingFinite ==
  ASSUME DestTyped
  PROVE  IsFiniteSet(pending) /\ Cardinality(pending) \in Nat
BY RemoteWriteAssumption, FS_Subset, FS_CardinalityType DEF DestTyped

\* A series is buffered, and a full buffer sealed.
LEMMA PushKept ==
  ASSUME DestInv, NEW t \in Pushers, NEW s \in Series, push(t, s)
  PROVE  DestInv'
<1>1. /\ status = "open" /\ stage = "running" /\ hands[t] = {} /\ holder # {t} /\ s \notin accepted
      /\ accepted' = accepted \cup {s}
      /\ UNCHANGED <<files, evicted, status, holder, pc, stage, delivered, rejected, failed, stops>>
  BY DEF push, queue, results
<1>2. t \in Threads /\ t \notin Workers /\ t # "stop" /\ t # "flush_loop" BY ThreadSets
<1>3. t \notin holder BY <1>1 DEF DestInv, ThreadsInv
<1>4. DestTyped /\ SeriesApart /\ ThreadsInv /\ BlocksFit BY DEF DestInv
<1>5. s \notin pending \cup Held(hands) \cup Queued \cup Settled
  BY <1>1, <1>4 DEF SeriesApart, Partitioned, Settled
<1>6. Queued' = Queued /\ Evicted' = Evicted /\ FilesApart(files)' BY <1>1, <1>4 DEF Queued, Evicted, SeriesApart, FilesApart
<1>7. CASE Cardinality(pending) + 1 >= MaxBlockSize
  <2> DEFINE V == {pending \cup {s}}
  <2>1. pending' = {} /\ hands' = [hands EXCEPT ![t] = V] BY <1>7 DEF push
  <2>2. V \in SUBSET Blocks /\ UNION V = pending \cup {s} BY <1>4, RemoteWriteAssumption DEF DestTyped
  <2>3. UNION hands[t] = {} BY <1>1
  <2>4. (pending \cup {s}) \cap Held(hands) = {} BY <1>4, <1>5 DEF SeriesApart, Partitioned
  <2>5. /\ hands' \in [Threads -> SUBSET Blocks] /\ hands'[t] = V /\ \A u \in Threads : u # t => hands'[u] = hands[u]
        /\ Apart(hands') /\ Held(hands') = Held(hands) \cup pending \cup {s}
    <3> DEFINE in == pending \cup {s}
    <3>1. hands \in [Threads -> SUBSET Blocks] /\ Apart(hands) BY <1>4 DEF DestTyped, SeriesApart
    <3>2. hands' \in [Threads -> SUBSET Blocks] /\ hands'[t] = V /\ \A u \in Threads : u # t => hands'[u] = hands[u]
      BY <1>2, <2>1, <2>2, <3>1
    <3>3. UNION hands'[t] = in BY <2>2, <3>2
    <3>4. in \cap (Held(hands) \ {}) = {} BY <2>4
    <3> HIDE DEF in
    <3>5. Replaced(hands, hands', t, {}, in) BY <1>2, <2>3, <3>1, <3>2, <3>3, <3>4 DEF Replaced
    <3>6. Apart(hands') /\ Held(hands') = (Held(hands) \ {}) \cup in BY <3>5, HandChanged
    <3> QED BY <3>2, <3>6 DEF in
  <2> HIDE DEF V
  <2>6. Held(hands)' = Held(hands) \cup pending \cup {s} BY <2>5, InUse
  <2>7. SeriesApart'
    <3>1. Partitioned({}, Held(hands) \cup pending \cup {s}, Queued, delivered, rejected, Evicted, failed,
                      accepted \cup {s})
      BY <1>1, <1>4, SealMove DEF SeriesApart
    <3>2. Partitioned(pending, Held(hands), Queued, delivered, rejected, Evicted, failed, accepted)'
      BY <1>1, <1>6, <2>1, <2>6, <3>1
    <3> QED BY <1>6, <2>5, <3>2, InUse DEF SeriesApart
  <2>8. DestTyped' BY <1>1, <1>4, <2>1, <2>5 DEF DestTyped
  <2>9. BlocksFit'
    <3>1. IsFiniteSet(pending) /\ Cardinality(pending) \in Nat BY <1>4, PendingFinite
    <3>2. Cardinality(pending \cup {s}) = Cardinality(pending) + 1 BY <1>5, <3>1, FS_AddElement
    <3>3. MaxBlockSize \in Nat \ {0} /\ Cardinality(pending) < MaxBlockSize BY <1>4, RemoteWriteAssumption DEF BlocksFit
    <3>4. \A d \in V : Cardinality(d) <= MaxBlockSize
      <4>1. Cardinality(pending \cup {s}) <= MaxBlockSize BY <3>1, <3>2, <3>3
      <4> QED BY <4>1 DEF V
    <3>5. Cardinality(pending') < MaxBlockSize BY <2>1, <3>3, FS_EmptySet
    <3>6. \A u \in Threads : \A d \in hands'[u] : Cardinality(d) <= MaxBlockSize
      BY <1>4, <2>5, <3>4 DEF BlocksFit
    <3> QED BY <1>1, <1>4, <3>5, <3>6 DEF BlocksFit
  <2>10. ThreadsInv'
    <3>1. \A u \in Threads : \A d, e \in hands'[u] : d = e
      <4>1. \A d, e \in V : d = e BY DEF V
      <4>2. \A u \in Threads : \A d, e \in hands[u] : d = e BY <1>4 DEF ThreadsInv
      <4> QED BY <2>5, <4>1, <4>2
    <3>2. \A u \in holder' : hands'[u] = {} /\ (u \in Workers => pc'[u] = "requeue")
      BY <1>1, <1>3, <1>4, <2>5 DEF ThreadsInv, DestTyped
    <3>3. \A w \in Workers : pc'[w] \in {"loop", "pop", "exit"} => hands'[w] = {}
      BY <1>1, <1>2, <1>4, <2>5, ThreadSets DEF ThreadsInv
    <3>4. Quiet({"stop"})' BY <1>1, <1>2, <1>4, <2>5, ThreadSets DEF ThreadsInv, Quiet
    <3> QED BY <1>1, <1>4, <3>1, <3>2, <3>3, <3>4 DEF ThreadsInv
  <2> QED BY <2>7, <2>8, <2>9, <2>10 DEF DestInv
<1>8. CASE ~(Cardinality(pending) + 1 >= MaxBlockSize)
  <2>1. pending' = pending \cup {s} /\ hands' = hands BY <1>8 DEF push
  <2>2. Held(hands)' = Held(hands) /\ Apart(hands)' BY <1>4, <2>1 DEF Held, Apart, SeriesApart
  <2>3. SeriesApart'
    <3>1. Partitioned(pending, Held(hands), Queued, delivered, rejected, Evicted, failed, accepted)'
      BY <1>1, <1>4, <1>5, <1>6, <2>1, <2>2 DEF SeriesApart, Partitioned, Settled
    <3> QED BY <1>6, <2>2, <3>1 DEF SeriesApart
  <2>4. DestTyped' BY <1>1, <1>4, <2>1 DEF DestTyped
  <2>5. BlocksFit'
    <3>1. IsFiniteSet(pending) /\ Cardinality(pending) \in Nat BY <1>4, PendingFinite
    <3>2. Cardinality(pending \cup {s}) = Cardinality(pending) + 1 BY <1>5, <3>1, FS_AddElement
    <3>3. MaxBlockSize \in Nat \ {0} BY RemoteWriteAssumption
    <3>4. Cardinality(pending') < MaxBlockSize BY <1>8, <2>1, <3>1, <3>2, <3>3
    <3> QED BY <1>1, <1>4, <2>1, <3>4 DEF BlocksFit
  <2>6. ThreadsInv' BY <1>1, <1>4, <2>1 DEF ThreadsInv, Quiet
  <2> QED BY <2>3, <2>4, <2>5, <2>6 DEF DestInv
<1> QED BY <1>7, <1>8

\* What is buffered becomes a block in an empty hand.
LEMMA Flushed ==
  ASSUME DestInv, NEW t \in Threads, hands[t] = {}, Flush(t), t \notin Workers, t \notin holder,
         UNCHANGED <<queue, holder, pc, accepted, results, stops>>
  PROVE  /\ SeriesApart' /\ BlocksFit' /\ pending' = {}
         /\ hands' \in [Threads -> SUBSET Blocks] /\ \A u \in Threads : u # t => hands'[u] = hands[u]
         /\ \A u \in Threads : \A d, e \in hands'[u] : d = e
         /\ \A u \in holder' : hands'[u] = {} /\ (u \in Workers => pc'[u] = "requeue")
         /\ \A w \in Workers : pc'[w] \in {"loop", "pop", "exit"} => hands'[w] = {}
<1> DEFINE V == IF pending = {} THEN {} ELSE {pending}
<1>1. pending' = {} /\ hands' = [hands EXCEPT ![t] = V] BY DEF Flush
<1>2. DestTyped /\ SeriesApart /\ ThreadsInv /\ BlocksFit BY DEF DestInv
<1>3. V \in SUBSET Blocks BY <1>2, RemoteWriteAssumption DEF DestTyped
<1>4. UNION V = pending
  <2>1. CASE pending = {} BY <2>1
  <2>2. CASE pending # {} BY <2>2
  <2> QED BY <2>1, <2>2
<1>5. \A d \in V : d = pending OBVIOUS
<1> HIDE DEF V
<1>6. UNION hands[t] = {} OBVIOUS
<1>7. pending \cap (Held(hands) \ {}) = {} BY <1>2 DEF SeriesApart, Partitioned
<1>8. /\ hands' \in [Threads -> SUBSET Blocks] /\ hands'[t] = V /\ \A u \in Threads : u # t => hands'[u] = hands[u]
      /\ Apart(hands') /\ Held(hands') = (Held(hands) \ {}) \cup pending
  <2>1. hands \in [Threads -> SUBSET Blocks] /\ Apart(hands) BY <1>2 DEF DestTyped, SeriesApart
  <2>2. hands' \in [Threads -> SUBSET Blocks] /\ hands'[t] = V /\ \A u \in Threads : u # t => hands'[u] = hands[u]
    BY <1>1, <1>3, <2>1
  <2>3. UNION hands'[t] = pending BY <1>4, <2>2
  <2>4. Replaced(hands, hands', t, {}, pending) BY <1>6, <1>7, <2>1, <2>2, <2>3 DEF Replaced
  <2> QED BY <2>2, <2>4, HandChanged
<1>9. Held(hands)' = Held(hands) \cup pending BY <1>8, InUse
<1>10. UNCHANGED <<files, evicted, accepted, delivered, rejected, failed, holder, pc>> BY DEF queue, results
<1>11. Queued' = Queued /\ Evicted' = Evicted /\ FilesApart(files)' BY <1>2, <1>10 DEF Queued, Evicted, SeriesApart, FilesApart
<1>12. SeriesApart'
  <2>1. Partitioned(pending, Held(hands), Queued, delivered, rejected, Evicted, failed, accepted)'
    BY <1>1, <1>2, <1>9, <1>10, <1>11 DEF SeriesApart, Partitioned
  <2> QED BY <1>8, <1>11, <2>1, InUse DEF SeriesApart
<1>13. BlocksFit'
  <2>1. Cardinality(pending) \in Nat /\ MaxBlockSize \in Nat \ {0} /\ Cardinality(pending) <= MaxBlockSize
    BY <1>2, PendingFinite, RemoteWriteAssumption DEF BlocksFit
  <2>2. Cardinality(pending') < MaxBlockSize BY <1>1, <2>1, FS_EmptySet
  <2>3. \A u \in Threads : \A d \in hands'[u] : Cardinality(d) <= MaxBlockSize
    BY <1>2, <1>5, <1>8, <2>1 DEF BlocksFit
  <2> QED BY <1>2, <1>10, <2>2, <2>3 DEF BlocksFit
<1>14. \A u \in Threads : \A d, e \in hands'[u] : d = e BY <1>2, <1>5, <1>8 DEF ThreadsInv
<1>15. \A u \in holder' : hands'[u] = {} /\ (u \in Workers => pc'[u] = "requeue")
  BY <1>2, <1>8, <1>10 DEF ThreadsInv, DestTyped
<1>16. \A w \in Workers : pc'[w] \in {"loop", "pop", "exit"} => hands'[w] = {}
  BY <1>2, <1>8, <1>10, ThreadSets DEF ThreadsInv
<1> QED BY <1>1, <1>8, <1>12, <1>13, <1>14, <1>15, <1>16

\* The flush thread flushes.
LEMMA FlushLoopKept ==
  ASSUME DestInv, flush_loop
  PROVE  DestInv'
<1>1. /\ status = "open" /\ stage \in {"running", "flush_stop"} /\ hands["flush_loop"] = {}
      /\ holder # {"flush_loop"} /\ Flush("flush_loop")
      /\ UNCHANGED <<queue, holder, pc, stage, accepted, results, stops>>
  BY DEF flush_loop
<1>2. DestTyped /\ ThreadsInv BY DEF DestInv
<1>3. "flush_loop" \notin holder BY <1>1, <1>2 DEF ThreadsInv
<1>4. /\ SeriesApart' /\ BlocksFit' /\ pending' = {}
      /\ hands' \in [Threads -> SUBSET Blocks] /\ \A u \in Threads : u # "flush_loop" => hands'[u] = hands[u]
      /\ \A u \in Threads : \A d, e \in hands'[u] : d = e
      /\ \A u \in holder' : hands'[u] = {} /\ (u \in Workers => pc'[u] = "requeue")
      /\ \A w \in Workers : pc'[w] \in {"loop", "pop", "exit"} => hands'[w] = {}
  BY <1>1, <1>3, ThreadSets, Flushed
<1>5. UNCHANGED <<holder, pc, stage, accepted, delivered, rejected, failed, stops, status>> BY <1>1 DEF queue, results
<1>6. DestTyped' BY <1>2, <1>4, <1>5 DEF DestTyped
<1>7. Quiet({"stop"})' /\ (stage' # "running" => Quiet(Pushers)')
  BY <1>1, <1>2, <1>4, <1>5, ThreadSets DEF ThreadsInv, Quiet
<1>8. ThreadsInv' BY <1>1, <1>2, <1>4, <1>5, <1>7 DEF ThreadsInv
<1> QED BY <1>4, <1>6, <1>8 DEF DestInv

\* The last flush of a stop.
LEMMA FinalFlushKept ==
  ASSUME DestInv, FinalFlush
  PROVE  DestInv'
<1>1. /\ status = "open" /\ stage = "flush_stop" /\ Quiet({"flush_loop"}) /\ stage' = "final_flush" /\ Flush("stop")
      /\ UNCHANGED <<queue, holder, pc, accepted, results, stops>>
  BY DEF FinalFlush
<1>2. DestTyped /\ ThreadsInv BY DEF DestInv
<1>3. Quiet({"stop"}) /\ Quiet(Pushers) BY <1>1, <1>2 DEF ThreadsInv
<1>4. hands["stop"] = {} /\ "stop" \notin holder BY <1>3 DEF Quiet
<1>5. /\ SeriesApart' /\ BlocksFit' /\ pending' = {}
      /\ hands' \in [Threads -> SUBSET Blocks] /\ \A u \in Threads : u # "stop" => hands'[u] = hands[u]
      /\ \A u \in Threads : \A d, e \in hands'[u] : d = e
      /\ \A u \in holder' : hands'[u] = {} /\ (u \in Workers => pc'[u] = "requeue")
      /\ \A w \in Workers : pc'[w] \in {"loop", "pop", "exit"} => hands'[w] = {}
  BY <1>1, <1>4, ThreadSets, Flushed
<1>6. UNCHANGED <<holder, pc, accepted, delivered, rejected, failed, stops, status>> BY <1>1 DEF queue, results
<1>7. DestTyped' BY <1>1, <1>2, <1>5, <1>6 DEF DestTyped
<1>8. Quiet({"flush_loop"})' /\ Quiet(Pushers)' BY <1>1, <1>3, <1>5, <1>6, ThreadSets DEF Quiet
<1>9. ThreadsInv' BY <1>1, <1>2, <1>5, <1>6, <1>8 DEF ThreadsInv
<1> QED BY <1>5, <1>7, <1>9 DEF DestInv

\* A block leaves the hand of a thread.
LEMMA HandEmptied ==
  ASSUME DestInv, NEW t \in Threads, NEW d \in hands[t], hands' = [hands EXCEPT ![t] = {}]
  PROVE  /\ hands' \in [Threads -> SUBSET Blocks] /\ hands'[t] = {}
         /\ \A u \in Threads : hands'[u] \subseteq hands[u]
         /\ Apart(hands)' /\ Held(hands)' = Held(hands) \ d /\ d \in SUBSET Held(hands)
<1>1. hands \in [Threads -> SUBSET Blocks] /\ Apart(hands) BY DEF DestInv, DestTyped, SeriesApart
<1>2. hands[t] = {d} BY DEF DestInv, ThreadsInv
<1>3. UNION hands[t] = d BY <1>2
<1>4. d \in SUBSET Held(hands) BY DEF Held
<1>5. hands' \in [Threads -> SUBSET Blocks] /\ hands'[t] = {} /\ \A u \in Threads : u # t => hands'[u] = hands[u]
  BY <1>1
<1>6. UNION hands'[t] = {} /\ {} \cap (Held(hands) \ d) = {} BY <1>5
<1>7. Apart(hands') /\ Held(hands') = (Held(hands) \ d) \cup {}
  <2> DEFINE none == {}
  <2>1. Replaced(hands, hands', t, d, none) BY <1>1, <1>3, <1>5, <1>6 DEF Replaced
  <2> HIDE DEF none
  <2>2. Apart(hands') /\ Held(hands') = (Held(hands) \ d) \cup none BY ONLY <2>1, HandChanged
  <2> QED BY <2>2 DEF none
<1>8. Held(hands)' = Held(hands) \ d BY <1>7, InUse
<1>9. \A u \in Threads : hands'[u] \subseteq hands[u] BY <1>5
<1> QED BY <1>4, <1>5, <1>7, <1>8, <1>9, InUse

\* What ThreadsInv says of hands holds of less in hands.
LEMMA FewerHeld ==
  ASSUME DestInv, \A u \in Threads : hands'[u] \subseteq hands[u]
  PROVE  /\ \A u \in Threads : \A d, e \in hands'[u] : d = e
         /\ \A u \in Threads : hands[u] = {} => hands'[u] = {}
         /\ \A u \in Threads : \A d \in hands'[u] : Cardinality(d) <= MaxBlockSize
BY DEF DestInv, ThreadsInv, BlocksFit

\* A block goes from a hand to a file.
LEMMA PushWriteKept ==
  ASSUME QP!DurableInv, DestInv, NEW t \in Threads, NEW d \in hands[t], PushWrite(t, d)
  PROVE  DestInv'
<1>1. /\ Pushing(t) /\ Queue!write_block_file(d) /\ hands' = [hands EXCEPT ![t] = {}] /\ holder' = {t}
      /\ UNCHANGED <<pending, pc, stage, accepted, delivered, rejected, failed, stops>>
  BY DEF PushWrite, results
<1>2. DestTyped /\ SeriesApart /\ ThreadsInv /\ BlocksFit BY DEF DestInv
<1>3. d \in Blocks BY <1>2 DEF DestTyped
<1>4. PICK b : b.data = d /\ files' = files \cup {b} BY <1>1, <1>3, FileAdded
<1>5. UNCHANGED <<status, evicted>> /\ status = "open" BY <1>1, <1>3, FileAdded
<1>6. /\ hands' \in [Threads -> SUBSET Blocks] /\ hands'[t] = {}
      /\ \A u \in Threads : hands'[u] \subseteq hands[u]
      /\ Apart(hands)' /\ Held(hands)' = Held(hands) \ d /\ d \in SUBSET Held(hands)
  BY <1>1, HandEmptied
<1>7. Queued \cap d = {} BY <1>2, <1>6 DEF SeriesApart, Partitioned
<1>8. Queued' = Queued \cup d /\ FilesApart(files')
  <2>1. FilesApart(files) /\ In(files) \cap b.data = {} BY <1>2, <1>4, <1>7, InUse DEF SeriesApart
  <2>2. FilesApart(files \cup {b}) /\ In(files \cup {b}) = In(files) \cup b.data BY <2>1, InAdd
  <2> QED BY <1>4, <2>2, InUse
<1>9. Evicted' = Evicted BY <1>5 DEF Evicted
<1>10. SeriesApart'
  <2>1. Partitioned(pending, Held(hands) \ d, Queued \cup d, delivered, rejected, Evicted, failed, accepted)
    BY <1>2, <1>6, HandMove DEF SeriesApart
  <2>2. Partitioned(pending, Held(hands), Queued, delivered, rejected, Evicted, failed, accepted)'
    BY <1>1, <1>6, <1>8, <1>9, <2>1
  <2> QED BY <1>6, <1>8, <2>2, InUse DEF SeriesApart
<1>11. /\ \A u \in Threads : \A e, f \in hands'[u] : e = f
       /\ \A u \in Threads : hands[u] = {} => hands'[u] = {}
       /\ \A u \in Threads : \A e \in hands'[u] : Cardinality(e) <= MaxBlockSize
  BY <1>6, FewerHeld
<1>12. BlocksFit'
  <2>1. Cardinality(d) <= MaxBlockSize BY <1>2 DEF BlocksFit
  <2>2. \A c \in files' : Cardinality(c.data) <= MaxBlockSize BY <1>2, <1>4, <2>1 DEF BlocksFit
  <2> QED BY <1>1, <1>2, <1>11, <2>2 DEF BlocksFit
<1>13. DestTyped' BY <1>1, <1>2, <1>6 DEF DestTyped
<1>14. t \notin Pushers \/ stage = "running" BY <1>2 DEF ThreadsInv, Quiet
<1>15. t = "flush_loop" => stage \in {"running", "flush_stop"} BY <1>2 DEF ThreadsInv, Quiet
<1>16. t = "stop" => stage = "final_flush" BY <1>2 DEF ThreadsInv, Quiet
<1>17. /\ stage # "running" => Quiet(Pushers)'
       /\ stage \notin {"running", "flush_stop"} => Quiet({"flush_loop"})'
       /\ stage # "final_flush" => Quiet({"stop"})'
  BY <1>1, <1>2, <1>11, <1>14, <1>15, <1>16, ThreadSets DEF ThreadsInv, Quiet
<1>18. \A w \in Workers : pc'[w] \in {"loop", "pop", "exit"} => hands'[w] = {}
  BY <1>1, <1>2, <1>11, ThreadSets DEF ThreadsInv
<1>19. ThreadsInv' BY <1>1, <1>2, <1>5, <1>6, <1>11, <1>17, <1>18 DEF ThreadsInv, Pushing
<1> QED BY <1>10, <1>12, <1>13, <1>19 DEF DestInv

\* A block that cannot be written is given up.
LEMMA PushFailsKept ==
  ASSUME DestInv, NEW t \in Threads, NEW d \in hands[t], PushFails(t, d)
  PROVE  DestInv'
<1>1. /\ Pushing(t) /\ Queue!PushFails(d) /\ hands' = [hands EXCEPT ![t] = {}] /\ pc' = Requeued(t)
      /\ failed' = failed \cup d
      /\ UNCHANGED <<pending, holder, stage, accepted, delivered, rejected, stops>>
  BY DEF PushFails
<1>2. DestTyped /\ SeriesApart /\ ThreadsInv /\ BlocksFit BY DEF DestInv
<1>3. UNCHANGED <<files, evicted, status>> BY <1>1 DEF Queue!PushFails
<1>4. /\ hands' \in [Threads -> SUBSET Blocks] /\ hands'[t] = {}
      /\ \A u \in Threads : hands'[u] \subseteq hands[u]
      /\ Apart(hands)' /\ Held(hands)' = Held(hands) \ d /\ d \in SUBSET Held(hands)
  BY <1>1, HandEmptied
<1>5. Queued' = Queued /\ Evicted' = Evicted /\ FilesApart(files)'
  BY <1>2, <1>3 DEF Queued, Evicted, SeriesApart, FilesApart
<1>6. SeriesApart'
  <2>1. Partitioned(pending, Held(hands) \ d, Queued, delivered, rejected, Evicted, failed \cup d, accepted)
    BY <1>2, <1>4, HandMove DEF SeriesApart
  <2>2. Partitioned(pending, Held(hands), Queued, delivered, rejected, Evicted, failed, accepted)'
    BY <1>1, <1>4, <1>5, <2>1
  <2> QED BY <1>4, <1>5, <2>2 DEF SeriesApart
<1>7. /\ \A u \in Threads : \A e, f \in hands'[u] : e = f
      /\ \A u \in Threads : hands[u] = {} => hands'[u] = {}
      /\ \A u \in Threads : \A e \in hands'[u] : Cardinality(e) <= MaxBlockSize
  BY <1>4, FewerHeld
<1>8. BlocksFit' BY <1>1, <1>2, <1>3, <1>7 DEF BlocksFit
<1>9. d \in Blocks /\ d \subseteq Series BY <1>2, BlocksFinite DEF DestTyped
<1>10. pc' \in [Workers -> Steps] /\ (\A w \in Workers : w # t => pc'[w] = pc[w]) /\ (t \in Workers => pc'[t] = "loop")
  BY <1>1, <1>2 DEF DestTyped, Requeued, Steps
<1>11. DestTyped' BY <1>1, <1>2, <1>4, <1>9, <1>10 DEF DestTyped
<1>12. t \notin holder BY <1>2 DEF ThreadsInv
<1>13. /\ stage # "running" => Quiet(Pushers)'
       /\ stage \notin {"running", "flush_stop"} => Quiet({"flush_loop"})'
       /\ stage # "final_flush" => Quiet({"stop"})'
  BY <1>1, <1>2, <1>7, ThreadSets DEF ThreadsInv, Quiet
<1>14. \A w \in Workers : pc'[w] \in {"loop", "pop", "exit"} => hands'[w] = {}
  BY <1>2, <1>4, <1>7, <1>10, ThreadSets DEF ThreadsInv
<1>15. \A u \in holder : hands'[u] = {} /\ (u \in Workers => pc'[u] = "requeue")
  BY <1>2, <1>7, <1>10, <1>12 DEF ThreadsInv, DestTyped
<1>16. status = "open" BY <1>1 DEF Queue!PushFails
<1>17. stage # "stopped" BY <1>2, <1>16 DEF ThreadsInv
<1>18. ThreadsInv' BY <1>1, <1>2, <1>3, <1>7, <1>13, <1>14, <1>15, <1>16, <1>17 DEF ThreadsInv
<1> QED BY <1>6, <1>8, <1>11, <1>18 DEF DestInv

\* An eviction takes a block from its file.
LEMMA PushEvictKept ==
  ASSUME Faulty \subseteq {"write"}, QP!DurableInv, DestInv, NEW b \in writer, PushEvict(b)
  PROVE  DestInv'
<1> DEFINE old == Head(blocks)
<1>1. /\ Queue!PushEvict(b) /\ UNCHANGED <<pending, hands, holder, pc, stage, accepted, delivered, rejected, failed, stops>>
  BY DEF PushEvict, results
<1>2. DestTyped /\ SeriesApart /\ ThreadsInv /\ BlocksFit BY DEF DestInv
<1>3. old \in files /\ files' = files \ {old} BY <1>1, FileRemoved
<1>4. evicted' = evicted \cup {old.data} /\ status' = status BY <1>1 DEF Queue!PushEvict
<1> HIDE DEF old
<1>5. In({old}) = old.data /\ {old} \in SUBSET files BY <1>3 DEF In
<1>6. FilesApart(files \ {old}) /\ In(files \ {old}) = In(files) \ In({old}) /\ In({old}) \subseteq In(files)
  BY <1>2, <1>5, InDrop DEF SeriesApart
<1>7. FilesApart(files)' /\ Queued' = Queued \ old.data /\ old.data \in SUBSET Queued BY <1>3, <1>5, <1>6, InUse
<1>8. Evicted' = Evicted \cup old.data BY <1>4 DEF Evicted
<1>9. Held(hands)' = Held(hands) /\ Apart(hands)' BY <1>1, <1>2 DEF Held, Apart, SeriesApart
<1>10. SeriesApart'
  <2>1. Partitioned(pending, Held(hands), Queued \ old.data, delivered, rejected, Evicted \cup old.data, failed, accepted)
    BY <1>2, <1>7, FileMove DEF SeriesApart
  <2>2. Partitioned(pending, Held(hands), Queued, delivered, rejected, Evicted, failed, accepted)'
    BY <1>1, <1>7, <1>8, <1>9, <2>1
  <2> QED BY <1>7, <1>9, <2>2 DEF SeriesApart
<1>11. BlocksFit' BY <1>1, <1>2, <1>3 DEF BlocksFit
<1>12. DestTyped' BY <1>1, <1>2 DEF DestTyped
<1>13. ThreadsInv' BY <1>1, <1>2, <1>4 DEF ThreadsInv, Quiet
<1> QED BY <1>10, <1>11, <1>12, <1>13 DEF DestInv

\* A worker takes the oldest block.
LEMMA PopKept ==
  ASSUME Faulty \subseteq {"write"}, QP!DurableInv, DestInv, NEW w \in Workers, pc[w] = "pop", Queue!pop,
         hands' = [hands EXCEPT ![w] = {Head(blocks).data}], pc' = [pc EXCEPT ![w] = "send"],
         UNCHANGED <<pending, holder, stage, accepted, results, stops>>
  PROVE  DestInv'
<1> DEFINE old == Head(blocks)
<1>1. UNCHANGED <<pending, holder, stage, accepted, delivered, rejected, failed, stops>> BY DEF results
<1>2. DestTyped /\ SeriesApart /\ ThreadsInv /\ BlocksFit BY DEF DestInv
<1>3. old \in files /\ files' = files \ {old} BY FileRemoved
<1>4. UNCHANGED <<evicted, status>> /\ status = "open" BY DEF Queue!pop
<1>5. old.data \in Blocks
  <2>1. \A b \in files : b.data \in Blocks BY DEF QP!DurableInv, QP!QueueInv, QP!TypeOK, QP!QueuedBlock
  <2> QED BY <1>3, <2>1
<1>6. w \in Threads /\ hands[w] = {} BY <1>2, ThreadSets DEF ThreadsInv
<1>7. hands' \in [Threads -> SUBSET Blocks] /\ hands'[w] = {old.data} /\ \A u \in Threads : u # w => hands'[u] = hands[u]
  BY <1>2, <1>5, <1>6 DEF DestTyped
<1> HIDE DEF old
<1>8. In({old}) = old.data /\ {old} \in SUBSET files BY <1>3 DEF In
<1>9. FilesApart(files \ {old}) /\ In(files \ {old}) = In(files) \ In({old}) /\ In({old}) \subseteq In(files)
  BY <1>2, <1>8, InDrop DEF SeriesApart
<1>10. FilesApart(files)' /\ Queued' = Queued \ old.data /\ old.data \in SUBSET Queued BY <1>3, <1>8, <1>9, InUse
<1>11. Apart(hands)' /\ Held(hands)' = Held(hands) \cup old.data
  <2> DEFINE in == old.data
  <2>1. UNION hands[w] = {} /\ UNION hands'[w] = in BY <1>6, <1>7
  <2>2. in \cap Held(hands) = {} BY <1>2, <1>10 DEF SeriesApart, Partitioned
  <2>3. in \cap (Held(hands) \ {}) = {} BY <2>2
  <2> HIDE DEF in
  <2>4. Replaced(hands, hands', w, {}, in) BY <1>2, <1>6, <1>7, <2>1, <2>3 DEF Replaced, SeriesApart
  <2>5. Apart(hands') /\ Held(hands') = (Held(hands) \ {}) \cup in BY ONLY <2>4, HandChanged
  <2>6. (Held(hands) \ {}) \cup in = Held(hands) \cup in OBVIOUS
  <2>7. Held(hands') = Held(hands) \cup in BY ONLY <2>5, <2>6
  <2>8. Held(hands)' = Held(hands') /\ (Apart(hands)' <=> Apart(hands')) BY ONLY InUse
  <2> QED BY ONLY <2>5, <2>7, <2>8 DEF in
<1>12. Evicted' = Evicted BY <1>4 DEF Evicted
<1>13. SeriesApart'
  <2>1. Partitioned(pending, Held(hands) \cup old.data, Queued \ old.data, delivered, rejected, Evicted, failed, accepted)
    BY <1>2, <1>10, FileMove DEF SeriesApart
  <2>2. Partitioned(pending, Held(hands), Queued, delivered, rejected, Evicted, failed, accepted)'
    BY <1>1, <1>10, <1>11, <1>12, <2>1
  <2> QED BY <1>10, <1>11, <2>2 DEF SeriesApart
<1>14. BlocksFit'
  <2>1. Cardinality(old.data) <= MaxBlockSize BY <1>2, <1>3 DEF BlocksFit
  <2>2. \A u \in Threads : \A d \in hands'[u] : Cardinality(d) <= MaxBlockSize BY <1>2, <1>7, <2>1 DEF BlocksFit
  <2> QED BY <1>1, <1>2, <1>3, <2>2 DEF BlocksFit
<1>15. pc' \in [Workers -> Steps] /\ pc'[w] = "send" /\ \A v \in Workers : v # w => pc'[v] = pc[v]
  BY <1>2 DEF DestTyped, Steps
<1>16. DestTyped' BY <1>1, <1>2, <1>7, <1>15 DEF DestTyped
<1>17. w \notin holder BY <1>2 DEF ThreadsInv
<1>18. \A u \in holder' : hands'[u] = {} /\ (u \in Workers => pc'[u] = "requeue")
  BY <1>1, <1>2, <1>7, <1>15, <1>17 DEF ThreadsInv, DestTyped
<1>19. \A v \in Workers : pc'[v] \in {"loop", "pop", "exit"} => hands'[v] = {}
  BY <1>2, <1>7, <1>15, ThreadSets DEF ThreadsInv
<1>20. /\ stage # "running" => Quiet(Pushers)'
       /\ stage \notin {"running", "flush_stop"} => Quiet({"flush_loop"})'
       /\ stage # "final_flush" => Quiet({"stop"})'
  BY <1>1, <1>2, <1>7, ThreadSets DEF ThreadsInv, Quiet
<1>21. \A u \in Threads : \A d, e \in hands'[u] : d = e BY <1>2, <1>7 DEF ThreadsInv
<1>22. stage # "stopped" BY <1>2, <1>4 DEF ThreadsInv
<1>23. ThreadsInv' BY <1>1, <1>2, <1>4, <1>18, <1>19, <1>20, <1>21, <1>22 DEF ThreadsInv
<1> QED BY <1>13, <1>14, <1>16, <1>23 DEF DestInv

\* A worker is done with its block.
LEMMA AnsweredKept ==
  ASSUME DestInv, NEW w \in Workers, NEW d \in hands[w], Answered(w, d)
  PROVE  DestInv'
<1>1. /\ status = "open" /\ pc[w] = "send" /\ hands' = [hands EXCEPT ![w] = {}] /\ pc' = [pc EXCEPT ![w] = "loop"]
      /\ \/ delivered' = delivered \cup d /\ rejected' = rejected
         \/ rejected' = rejected \cup d /\ delivered' = delivered
      /\ UNCHANGED <<files, evicted, status, pending, holder, stage, accepted, failed, stops>>
  BY DEF Answered, queue
<1>2. DestTyped /\ SeriesApart /\ ThreadsInv /\ BlocksFit BY DEF DestInv
<1>3. w \in Threads BY ThreadSets
<1>4. /\ hands' \in [Threads -> SUBSET Blocks] /\ hands'[w] = {}
      /\ \A u \in Threads : hands'[u] \subseteq hands[u]
      /\ Apart(hands)' /\ Held(hands)' = Held(hands) \ d /\ d \in SUBSET Held(hands)
  BY <1>1, <1>3, HandEmptied
<1>5. Queued' = Queued /\ Evicted' = Evicted /\ FilesApart(files)'
  BY <1>1, <1>2 DEF Queued, Evicted, SeriesApart, FilesApart
<1>6. SeriesApart'
  <2>1. /\ Partitioned(pending, Held(hands) \ d, Queued, delivered \cup d, rejected, Evicted, failed, accepted)
        /\ Partitioned(pending, Held(hands) \ d, Queued, delivered, rejected \cup d, Evicted, failed, accepted)
    BY <1>2, <1>4, HandMove DEF SeriesApart
  <2>2. Partitioned(pending, Held(hands), Queued, delivered, rejected, Evicted, failed, accepted)'
    BY <1>1, <1>4, <1>5, <2>1
  <2> QED BY <1>4, <1>5, <2>2 DEF SeriesApart
<1>7. /\ \A u \in Threads : \A e, f \in hands'[u] : e = f
      /\ \A u \in Threads : hands[u] = {} => hands'[u] = {}
      /\ \A u \in Threads : \A e \in hands'[u] : Cardinality(e) <= MaxBlockSize
  BY <1>4, FewerHeld
<1>8. BlocksFit' BY <1>1, <1>2, <1>7 DEF BlocksFit
<1>9. d \in Blocks /\ d \subseteq Series BY <1>2, <1>3, BlocksFinite DEF DestTyped
<1>10. pc' \in [Workers -> Steps] /\ pc'[w] = "loop" /\ \A v \in Workers : v # w => pc'[v] = pc[v]
  BY <1>1, <1>2 DEF DestTyped, Steps
<1>11. DestTyped' BY <1>1, <1>2, <1>4, <1>9, <1>10 DEF DestTyped
<1>12. w \notin holder BY <1>2 DEF ThreadsInv
<1>13. /\ stage # "running" => Quiet(Pushers)'
       /\ stage \notin {"running", "flush_stop"} => Quiet({"flush_loop"})'
       /\ stage # "final_flush" => Quiet({"stop"})'
  BY <1>1, <1>2, <1>7, ThreadSets DEF ThreadsInv, Quiet
<1>14. \A v \in Workers : pc'[v] \in {"loop", "pop", "exit"} => hands'[v] = {}
  BY <1>2, <1>4, <1>7, <1>10, ThreadSets DEF ThreadsInv
<1>15. \A u \in holder : hands'[u] = {} /\ (u \in Workers => pc'[u] = "requeue")
  BY <1>2, <1>7, <1>10, <1>12 DEF ThreadsInv, DestTyped
<1>16. stage # "stopped" BY <1>1, <1>2 DEF ThreadsInv
<1>17. ThreadsInv' BY <1>1, <1>2, <1>7, <1>13, <1>14, <1>15, <1>16 DEF ThreadsInv
<1> QED BY <1>6, <1>8, <1>11, <1>17 DEF DestInv

\* A push ends, and its thread goes on.
LEMMA PushBackKept ==
  ASSUME DestInv, NEW b \in writer, NEW t \in Threads, PushBack(b, t)
  PROVE  DestInv'
<1>1. /\ holder = {t} /\ holder' = {} /\ pc' = Requeued(t) /\ Queue!PushBack(b)
      /\ UNCHANGED <<pending, hands, stage, accepted, delivered, rejected, failed, stops>>
  BY DEF PushBack, results
<1>2. DestTyped /\ SeriesApart /\ ThreadsInv /\ BlocksFit BY DEF DestInv
<1>3. UNCHANGED <<files, evicted, status>> /\ status = "open" BY <1>1 DEF Queue!PushBack
<1>4. SeriesApart' /\ BlocksFit' BY <1>1, <1>3, PlacesStay DEF results
<1>5. pc' \in [Workers -> Steps] /\ (\A w \in Workers : w # t => pc'[w] = pc[w]) /\ (t \in Workers => pc'[t] = "loop")
  BY <1>1, <1>2 DEF DestTyped, Requeued, Steps
<1>6. DestTyped' BY <1>1, <1>2, <1>5 DEF DestTyped
<1>7. hands[t] = {} BY <1>1, <1>2 DEF ThreadsInv
<1>8. \A w \in Workers : pc'[w] \in {"loop", "pop", "exit"} => hands'[w] = {}
  BY <1>1, <1>2, <1>5, <1>7 DEF ThreadsInv
<1>9. /\ stage # "running" => Quiet(Pushers)'
      /\ stage \notin {"running", "flush_stop"} => Quiet({"flush_loop"})'
      /\ stage # "final_flush" => Quiet({"stop"})'
  BY <1>1, <1>2 DEF ThreadsInv, Quiet
<1>10. stage # "stopped" BY <1>2, <1>3 DEF ThreadsInv
<1>11. ThreadsInv' BY <1>1, <1>2, <1>3, <1>8, <1>9, <1>10 DEF ThreadsInv
<1> QED BY <1>4, <1>6, <1>11 DEF DestInv

\* A worker goes on without touching a block.
LEMMA WorkerKept ==
  ASSUME DestInv, NEW w \in Workers, status = "open", NEW x \in Steps, pc' = [pc EXCEPT ![w] = x],
         pc[w] # "requeue" \/ x = "requeue", x \in {"loop", "pop", "exit"} => hands[w] = {},
         UNCHANGED <<queue, pending, hands, holder, stage, accepted, results, stops>>
  PROVE  DestInv'
<1>1. /\ UNCHANGED <<pending, hands, holder, stage, accepted, delivered, rejected, failed, stops>>
      /\ UNCHANGED <<files, evicted, status>>
  BY DEF queue, results
<1>2. DestTyped /\ SeriesApart /\ ThreadsInv /\ BlocksFit BY DEF DestInv
<1>3. SeriesApart' /\ BlocksFit' BY <1>1, PlacesStay DEF results
<1>4. pc' \in [Workers -> Steps] /\ (\A v \in Workers : v # w => pc'[v] = pc[v]) /\ pc'[w] = x
  BY <1>2 DEF DestTyped
<1>5. DestTyped' BY <1>1, <1>2, <1>4 DEF DestTyped
<1>6. \A v \in Workers : pc'[v] \in {"loop", "pop", "exit"} => hands'[v] = {}
  BY <1>1, <1>2, <1>4 DEF ThreadsInv
<1>7. \A u \in holder : hands'[u] = {} /\ (u \in Workers => pc'[u] = "requeue")
  BY <1>1, <1>2, <1>4 DEF ThreadsInv
<1>8. /\ stage # "running" => Quiet(Pushers)'
      /\ stage \notin {"running", "flush_stop"} => Quiet({"flush_loop"})'
      /\ stage # "final_flush" => Quiet({"stop"})'
  BY <1>1, <1>2 DEF ThreadsInv, Quiet
<1>9. stage # "stopped" BY <1>2 DEF ThreadsInv
<1>10. ThreadsInv' BY <1>1, <1>2, <1>6, <1>7, <1>8, <1>9 DEF ThreadsInv
<1> QED BY <1>3, <1>5, <1>10 DEF DestInv

\* Between its blocks and between its attempts a worker looks at the stop flag.
LEMMA WorkersKept ==
  ASSUME DestInv, NEW w \in Workers,
         worker_loop(w) \/ Retryable(w) \/ wait_or_stop(w) \/
         (pc[w] = "pop" /\ Queue!PopNone /\ pc' = [pc EXCEPT ![w] = "loop"]
          /\ UNCHANGED <<hands, pending, holder, stage, accepted, results, stops>>)
  PROVE  DestInv'
<1>1. ThreadsInv /\ pc \in [Workers -> Steps] BY DEF DestInv, DestTyped
<1>2. CASE worker_loop(w)
  <2> DEFINE x == IF stop_flag THEN "exit" ELSE "pop"
  <2>1. status = "open" /\ pc[w] = "loop" /\ pc' = [pc EXCEPT ![w] = x] BY <1>2 DEF worker_loop
  <2>2. UNCHANGED <<queue, pending, hands, holder, stage, accepted, results, stops>> BY <1>2 DEF worker_loop
  <2>3. x \in Steps BY DEF Steps
  <2> HIDE DEF x
  <2>4. hands[w] = {} BY <1>1, <2>1 DEF ThreadsInv
  <2> QED BY <2>1, <2>2, <2>3, <2>4, WorkerKept
<1>3. CASE Retryable(w)
  <2>1. "backoff" \in Steps BY DEF Steps
  <2> QED BY <1>3, <2>1, WorkerKept DEF Retryable
<1>4. CASE wait_or_stop(w)
  <2> DEFINE x == IF stop_flag THEN "requeue" ELSE "send"
  <2>1. status = "open" /\ pc[w] = "backoff" /\ pc' = [pc EXCEPT ![w] = x] BY <1>4 DEF wait_or_stop
  <2>2. UNCHANGED <<queue, pending, hands, holder, stage, accepted, results, stops>> BY <1>4 DEF wait_or_stop
  <2>3. x \in Steps /\ x \notin {"loop", "pop", "exit"} BY DEF Steps
  <2> HIDE DEF x
  <2> QED BY <2>1, <2>2, <2>3, WorkerKept
<1>5. CASE /\ pc[w] = "pop" /\ Queue!PopNone /\ pc' = [pc EXCEPT ![w] = "loop"]
           /\ UNCHANGED <<hands, pending, holder, stage, accepted, results, stops>>
  <2>1. UNCHANGED queue /\ status = "open" BY <1>5 DEF Queue!PopNone, Queue!vars, queue
  <2>2. "loop" \in Steps BY DEF Steps
  <2>3. hands[w] = {} BY <1>1, <1>5 DEF ThreadsInv
  <2>4. UNCHANGED <<queue, pending, hands, holder, stage, accepted, results, stops>> BY <1>5, <2>1
  <2> QED BY <1>5, <2>1, <2>2, <2>3, <2>4, WorkerKept
<1> QED BY <1>2, <1>3, <1>4, <1>5

\* A stop goes on when the threads it waits for are quiet.
LEMMA StopKept ==
  ASSUME DestInv, stop \/ ClientStop \/ Close
  PROVE  DestInv'
<1>1. DestTyped /\ SeriesApart /\ ThreadsInv /\ BlocksFit BY DEF DestInv
<1>2. UNCHANGED <<pending, hands, holder, pc, accepted, delivered, rejected, failed, files, evicted>>
  BY DEF stop, ClientStop, Close, queue, results, Queue!close
<1>3. SeriesApart' /\ BlocksFit' BY <1>2, PlacesStay DEF results
<1>4. stops' \in Nat /\ stage' \in {"flush_stop", "client_stop", "stopped"}
  BY <1>1 DEF stop, ClientStop, Close, DestTyped
<1>5. DestTyped' BY <1>1, <1>2, <1>4 DEF DestTyped
<1>7. /\ \A t \in Threads : \A d, e \in hands'[t] : d = e
      /\ \A t, u \in holder' : t = u
      /\ \A t \in holder' : hands'[t] = {} /\ (t \in Workers => pc'[t] = "requeue")
      /\ \A w \in Workers : pc'[w] \in {"loop", "pop", "exit"} => hands'[w] = {}
  BY <1>1, <1>2 DEF ThreadsInv
<1>9. /\ Quiet(Pushers)' <=> Quiet(Pushers)
      /\ Quiet({"flush_loop"})' <=> Quiet({"flush_loop"})
      /\ Quiet({"stop"})' <=> Quiet({"stop"})
  BY <1>2 DEF Quiet
<1>10. status = "open" BY DEF stop, ClientStop, Close, Queue!close
<1>11. CASE stop
  <2>1. stage = "running" /\ Quiet(Pushers) /\ stage' = "flush_stop" /\ status' = status BY <1>11 DEF stop, queue
  <2> QED BY <1>1, <1>2, <1>3, <1>5, <1>7, <1>9, <1>10, <2>1 DEF ThreadsInv, DestInv
<1>12. CASE ClientStop
  <2>1. stage = "final_flush" /\ Quiet({"stop"}) /\ stage' = "client_stop" /\ status' = status
    BY <1>12 DEF ClientStop, queue
  <2> QED BY <1>1, <1>2, <1>3, <1>5, <1>7, <1>9, <1>10, <2>1 DEF ThreadsInv, DestInv
<1>13. CASE Close
  <2>1. stage = "client_stop" /\ stage' = "stopped" /\ status' = "closed" /\ \A w \in Workers : pc[w] = "exit"
    BY <1>13 DEF Close, Queue!close
  <2> QED BY <1>1, <1>2, <1>3, <1>5, <1>7, <1>9, <1>10, <2>1 DEF ThreadsInv, DestInv
<1> QED BY <1>11, <1>12, <1>13

\* Nobody holds anything: nothing is in hands.
LEMMA NoneHeld ==
  ASSUME NEW h, \A t \in Threads : h[t] = {}
  PROVE  Held(h) = {} /\ Apart(h)
BY DEF Held, Apart

\* A crash leaves what is settled and what is in files.
LEMMA CrashKept ==
  ASSUME DestInv, Crash
  PROVE  DestInv'
<1>1. /\ pending' = {} /\ hands' = [t \in Threads |-> {}] /\ holder' = {}
      /\ accepted' = Settled \cup Queued /\ Queue!Crash
      /\ UNCHANGED <<pc, stage, delivered, rejected, failed, stops>>
  BY DEF Crash, results
<1>2. DestTyped /\ SeriesApart /\ ThreadsInv /\ BlocksFit BY DEF DestInv
<1>3. UNCHANGED <<files, evicted>> /\ status = "open" /\ status' = "down" BY <1>1 DEF Queue!Crash
<1>4. \A t \in Threads : hands'[t] = {} BY <1>1
<1>5. Held(hands)' = {} /\ Apart(hands)' BY <1>4, NoneHeld, InUse
<1>6. Queued' = Queued /\ Evicted' = Evicted /\ FilesApart(files)'
  BY <1>2, <1>3 DEF Queued, Evicted, FilesApart, SeriesApart
<1>7. SeriesApart'
  <2>1. Partitioned({}, {}, Queued, delivered, rejected, Evicted, failed, delivered \cup rejected \cup Evicted \cup failed \cup Queued)
    BY <1>2, CrashMove DEF SeriesApart
  <2>2. Partitioned(pending, Held(hands), Queued, delivered, rejected, Evicted, failed, accepted)'
    BY <1>1, <1>5, <1>6, <2>1 DEF Settled
  <2> QED BY <1>5, <1>6, <2>2 DEF SeriesApart
<1>8. Cardinality(pending') < MaxBlockSize BY <1>1, FS_EmptySet, RemoteWriteAssumption
<1>9. BlocksFit' BY <1>2, <1>3, <1>4, <1>8 DEF BlocksFit
<1>10. accepted' \subseteq accepted BY <1>1, <1>2 DEF SeriesApart, Partitioned, Settled
<1>11. hands' \in [Threads -> SUBSET Blocks] BY <1>1
<1>12. DestTyped' BY <1>1, <1>2, <1>10, <1>11 DEF DestTyped
<1>13. Quiet(Pushers)' /\ Quiet({"flush_loop"})' /\ Quiet({"stop"})'
  BY <1>1, <1>4, ThreadSets DEF Quiet
<1>14. stage # "stopped" BY <1>2, <1>3 DEF ThreadsInv
<1>15. ThreadsInv' BY <1>1, <1>3, <1>4, <1>13, <1>14, ThreadSets DEF ThreadsInv
<1> QED BY <1>7, <1>9, <1>12, <1>15 DEF DestInv

\* A start replays the files; those it drops count as dropped for space.
LEMMA StartKept ==
  ASSUME Faulty \subseteq {"write"}, QP!DurableInv, DestInv, NEW bad \in SUBSET files,
         NEW stay \in SUBSET files, start(bad, stay)
  PROVE  DestInv'
<1>1. /\ Queue!open(bad, stay) /\ pc' = [w \in Workers |-> "loop"] /\ stage' = "running"
      /\ UNCHANGED <<pending, hands, holder, accepted, delivered, rejected, failed, stops>>
  BY DEF start, results
<1>2. DestTyped /\ SeriesApart /\ ThreadsInv /\ BlocksFit BY DEF DestInv
<1>3. PICK X \in SUBSET files : files' = files \ X /\ evicted' = evicted \cup {b.data : b \in X}
  BY <1>1, FilesDropped
<1>4. status # "open" /\ status' = "open" BY <1>1, FilesDropped
<1>5. status \in {"closed", "down"} BY <1>4 DEF QP!DurableInv, QP!QueueInv, QP!TypeOK
<1>6. holder = {} /\ \A t \in Threads : hands[t] = {}
  <2>1. CASE status = "down" BY <1>2, <2>1 DEF ThreadsInv
  <2>2. CASE status = "closed"
    <3>1. stage = "stopped" /\ \A w \in Workers : pc[w] = "exit" BY <1>2, <2>2 DEF ThreadsInv
    <3>2. Quiet(Pushers) /\ Quiet({"flush_loop"}) /\ Quiet({"stop"}) BY <1>2, <3>1 DEF ThreadsInv
    <3>3. \A w \in Workers : hands[w] = {} /\ w \notin holder BY <1>2, <3>1 DEF ThreadsInv
    <3>4. \A t \in Threads : hands[t] = {} /\ t \notin holder BY <3>2, <3>3 DEF Quiet, Threads
    <3> QED BY <1>2, <3>4 DEF DestTyped
  <2> QED BY <1>5, <2>1, <2>2
<1>7. FilesApart(files)' /\ Queued' = Queued \ In(X) /\ In(X) \in SUBSET Queued
  <2>1. FilesApart(files \ X) /\ In(files \ X) = In(files) \ In(X) /\ In(X) \subseteq In(files)
    BY <1>2, InDrop DEF SeriesApart
  <2> QED BY <1>3, <2>1, InUse
<1>8. Evicted' = Evicted \cup In(X) BY <1>3 DEF Evicted, In
<1>9. Held(hands)' = Held(hands) /\ Apart(hands)' BY <1>1, <1>2 DEF Held, Apart, SeriesApart
<1>10. SeriesApart'
  <2>1. Partitioned(pending, Held(hands), Queued \ In(X), delivered, rejected, Evicted \cup In(X), failed, accepted)
    BY <1>2, <1>7, FileMove DEF SeriesApart
  <2>2. Partitioned(pending, Held(hands), Queued, delivered, rejected, Evicted, failed, accepted)'
    BY <1>1, <1>7, <1>8, <1>9, <2>1
  <2> QED BY <1>7, <1>9, <2>2 DEF SeriesApart
<1>11. BlocksFit' BY <1>1, <1>2, <1>3 DEF BlocksFit
<1>12. pc' \in [Workers -> Steps] BY <1>1 DEF Steps
<1>13. DestTyped' BY <1>1, <1>2, <1>12 DEF DestTyped
<1>14. hands' = hands /\ holder' = {} BY <1>1, <1>6
<1>15. Quiet({"stop"})' BY <1>6, <1>14, ThreadSets DEF Quiet
<1>16. ThreadsInv' BY <1>1, <1>4, <1>6, <1>14, <1>15, ThreadSets DEF ThreadsInv
<1> QED BY <1>10, <1>11, <1>13, <1>16 DEF DestInv

\* The invariant is inductive where no file operation but a write may fail.
LEMMA PipelineInvKept ==
  ASSUME Faulty \subseteq {"write"}
  PROVE  PipelineInv /\ [Next]_vars => PipelineInv'
<1> SUFFICES ASSUME PipelineInv, [Next]_vars PROVE PipelineInv' OBVIOUS
<1>1. QP!DurableInv /\ DestInv /\ DestTyped BY DEF PipelineInv, DestInv
<1>2. QP!DurableInv' BY <1>1, QueueStep, QueueAssumed, QP!DurableInvKept
<1>3. DestInv'
  <2>1. CASE UNCHANGED vars
    BY <1>1, <2>1, PlacesStay DEF vars, queue, results, DestInv, DestTyped, ThreadsInv, Quiet
  <2>2. CASE \E t \in Pushers, s \in Series : push(t, s) BY <1>1, <2>2, PushKept
  <2>3. CASE flush_loop BY <1>1, <2>3, FlushLoopKept
  <2>4. ASSUME NEW t \in Threads, NEW d \in hands[t], PushWrite(t, d) \/ PushFails(t, d) PROVE DestInv'
    BY <1>1, <2>4, PushWriteKept, PushFailsKept
  <2>5. ASSUME NEW b \in writer, PushEvict(b) \/ \E t \in Threads : PushBack(b, t) PROVE DestInv'
    BY <1>1, <2>5, PushEvictKept, PushBackKept
  <2>6. ASSUME NEW w \in Workers, worker_loop(w) \/ Retryable(w) \/ wait_or_stop(w) PROVE DestInv'
    BY <1>1, <2>6, WorkersKept
  <2>7. ASSUME NEW w \in Workers, pop(w) PROVE DestInv'
    <3>1. CASE Queue!pop /\ hands' = [hands EXCEPT ![w] = {Head(blocks).data}] /\ pc' = [pc EXCEPT ![w] = "send"]
      BY <1>1, <2>7, <3>1, PopKept DEF pop
    <3>2. CASE Queue!PopNone /\ pc' = [pc EXCEPT ![w] = "loop"] /\ UNCHANGED hands
      BY <1>1, <2>7, <3>2, WorkersKept DEF pop
    <3> QED BY <2>7, <3>1, <3>2 DEF pop
  <2>8. ASSUME NEW w \in Workers, NEW d \in hands[w], Answered(w, d) PROVE DestInv'
    BY <1>1, <2>8, AnsweredKept
  <2>9. CASE stop \/ ClientStop \/ Close BY <1>1, <2>9, StopKept
  <2>10. CASE FinalFlush BY <1>1, <2>10, FinalFlushKept
  <2>11. CASE Crash BY <1>1, <2>11, CrashKept
  <2>12. ASSUME NEW bad \in SUBSET files, NEW stay \in SUBSET files, start(bad, stay) PROVE DestInv'
    BY <1>1, <2>12, StartKept
  <2> QED BY <2>1, <2>2, <2>3, <2>4, <2>5, <2>6, <2>7, <2>8, <2>9, <2>10, <2>11, <2>12 DEF Next
<1> QED BY <1>2, <1>3 DEF PipelineInv

\* It holds of a new destination.
LEMMA PipelineInvInit == Init => PipelineInv
<1> SUFFICES ASSUME Init PROVE PipelineInv OBVIOUS
<1>1. QP!Init BY SameRest DEF Init
<1>2. QP!DurableInv BY <1>1, QueueAssumed, QP!DurableInvInit
<1>3. files = {} /\ evicted = {} /\ status = "open" BY <1>1 DEF QP!Init
<1>4. /\ pending = {} /\ hands = [t \in Threads |-> {}] /\ holder = {}
      /\ pc = [w \in Workers |-> "loop"] /\ stage = "running"
      /\ accepted = {} /\ delivered = {} /\ rejected = {} /\ failed = {} /\ stops = 0
  BY DEF Init
<1>5. \A t \in Threads : hands[t] = {} BY <1>4
<1>6. Held(hands) = {} /\ Apart(hands) BY <1>5, NoneHeld
<1>7. Queued = {} /\ Evicted = {} /\ FilesApart(files) BY <1>3 DEF Queued, Evicted, FilesApart
<1>8. SeriesApart BY <1>4, <1>6, <1>7 DEF SeriesApart, Partitioned
<1>9. Cardinality(pending) < MaxBlockSize BY <1>4, FS_EmptySet, RemoteWriteAssumption
<1>10. BlocksFit BY <1>3, <1>5, <1>9 DEF BlocksFit
<1>11. DestTyped BY <1>4 DEF DestTyped, Steps
<1>12. ThreadsInv BY <1>3, <1>4, <1>5, ThreadSets DEF ThreadsInv, Quiet
<1> QED BY <1>2, <1>8, <1>10, <1>11, <1>12 DEF PipelineInv, DestInv

----------------------------------------------------------------------------
(* What the invariant says of the destination.                             *)

\* A series of a buffer, a hand or a file has that place.
LEMMA PlaceOf ==
  ASSUME DestInv, NEW s \in accepted
  PROVE  Cardinality(Places(s)) = 1
<1> DEFINE P1 == {<<"pending">> : x \in {x \in pending : x = s}}
           P2 == {<<"hand", t>> : t \in {t \in Threads : \E d \in hands[t] : s \in d}}
           P3 == {<<"file", b>> : b \in {b \in files : s \in b.data}}
           P4 == {<<"delivered">> : x \in delivered \cap {s}}
           P5 == {<<"rejected">> : x \in rejected \cap {s}}
           P6 == {<<"evicted">> : x \in Evicted \cap {s}}
           P7 == {<<"failed">> : x \in failed \cap {s}}
<1>1. Places(s) = P1 \cup P2 \cup P3 \cup P4 \cup P5 \cup P6 \cup P7 BY DEF Places
<1>2. Partitioned(pending, Held(hands), Queued, delivered, rejected, Evicted, failed, accepted)
      /\ Apart(hands) /\ FilesApart(files)
  BY DEF DestInv, SeriesApart
<1>3. s \notin pending => P1 = {} OBVIOUS
<1>4. s \in pending => P1 = {<<"pending">>} OBVIOUS
<1>5. s \notin Held(hands) => P2 = {} BY DEF Held
<1>6. s \in Held(hands) => \E t \in Threads : P2 = {<<"hand", t>>}
  <2> SUFFICES ASSUME s \in Held(hands) PROVE \E t \in Threads : P2 = {<<"hand", t>>} OBVIOUS
  <2>1. PICK t \in Threads : \E d \in hands[t] : s \in d BY DEF Held
  <2>2. \A u \in Threads : (\E d \in hands[u] : s \in d) => u = t BY <1>2, <2>1 DEF Apart
  <2>3. {u \in Threads : \E d \in hands[u] : s \in d} = {t} BY <2>1, <2>2
  <2> QED BY <2>3
<1>7. s \notin Queued => P3 = {} BY DEF Queued
<1>8. s \in Queued => \E b \in files : P3 = {<<"file", b>>}
  <2> SUFFICES ASSUME s \in Queued PROVE \E b \in files : P3 = {<<"file", b>>} OBVIOUS
  <2>1. PICK b \in files : s \in b.data BY DEF Queued
  <2>2. \A c \in files : s \in c.data => c = b BY <1>2, <2>1 DEF FilesApart
  <2>3. {c \in files : s \in c.data} = {b} BY <2>1, <2>2
  <2> QED BY <2>3
<1>9. (s \notin delivered => P4 = {}) /\ (s \in delivered => P4 = {<<"delivered">>}) OBVIOUS
<1>10. (s \notin rejected => P5 = {}) /\ (s \in rejected => P5 = {<<"rejected">>}) OBVIOUS
<1>11. (s \notin Evicted => P6 = {}) /\ (s \in Evicted => P6 = {<<"evicted">>}) OBVIOUS
<1>12. (s \notin failed => P7 = {}) /\ (s \in failed => P7 = {<<"failed">>}) OBVIOUS
<1> HIDE DEF P1, P2, P3, P4, P5, P6, P7
<1>13. \E x : Places(s) = {x}
  <2>1. s \in pending \cup Held(hands) \cup Queued \cup delivered \cup rejected \cup Evicted \cup failed
    BY <1>2 DEF Partitioned
  <2>2. CASE s \in pending
    <3>1. s \notin Held(hands) \cup Queued \cup delivered \cup rejected \cup Evicted \cup failed
      BY <1>2, <2>2 DEF Partitioned
    <3> QED BY <1>1, <1>4, <1>5, <1>7, <1>9, <1>10, <1>11, <1>12, <2>2, <3>1
  <2>3. CASE s \in Held(hands)
    <3>1. s \notin pending \cup Queued \cup delivered \cup rejected \cup Evicted \cup failed
      BY <1>2, <2>3 DEF Partitioned
    <3> QED BY <1>1, <1>3, <1>6, <1>7, <1>9, <1>10, <1>11, <1>12, <2>3, <3>1
  <2>4. CASE s \in Queued
    <3>1. s \notin pending \cup Held(hands) \cup delivered \cup rejected \cup Evicted \cup failed
      BY <1>2, <2>4 DEF Partitioned
    <3> QED BY <1>1, <1>3, <1>5, <1>8, <1>9, <1>10, <1>11, <1>12, <2>4, <3>1
  <2>5. CASE s \in delivered
    <3>1. s \notin pending \cup Held(hands) \cup Queued \cup rejected \cup Evicted \cup failed
      BY <1>2, <2>5 DEF Partitioned
    <3> QED BY <1>1, <1>3, <1>5, <1>7, <1>9, <1>10, <1>11, <1>12, <2>5, <3>1
  <2>6. CASE s \in rejected
    <3>1. s \notin pending \cup Held(hands) \cup Queued \cup delivered \cup Evicted \cup failed
      BY <1>2, <2>6 DEF Partitioned
    <3> QED BY <1>1, <1>3, <1>5, <1>7, <1>9, <1>10, <1>11, <1>12, <2>6, <3>1
  <2>7. CASE s \in Evicted
    <3>1. s \notin pending \cup Held(hands) \cup Queued \cup delivered \cup rejected \cup failed
      BY <1>2, <2>7 DEF Partitioned
    <3> QED BY <1>1, <1>3, <1>5, <1>7, <1>9, <1>10, <1>11, <1>12, <2>7, <3>1
  <2>8. CASE s \in failed
    <3>1. s \notin pending \cup Held(hands) \cup Queued \cup delivered \cup rejected \cup Evicted
      BY <1>2, <2>8 DEF Partitioned
    <3> QED BY <1>1, <1>3, <1>5, <1>7, <1>9, <1>10, <1>11, <1>12, <2>8, <3>1
  <2> QED BY <2>1, <2>2, <2>3, <2>4, <2>5, <2>6, <2>7, <2>8
<1> QED BY <1>13, FS_Singleton

\* The invariant says what PipelineSound does.
LEMMA PipelineInvSound == PipelineInv => PipelineSound
<1> SUFFICES ASSUME PipelineInv PROVE PipelineSound OBVIOUS
<1>1. DestInv /\ DestTyped /\ SeriesApart /\ ThreadsInv BY DEF PipelineInv, DestInv
<1>2. QP!TypeOK BY DEF PipelineInv, QP!DurableInv, QP!QueueInv
<1>3. Queue!TypeOK BY <1>2 DEF QP!TypeOK, Queue!TypeOK, QP!QueuedBlock, Queue!QueuedBlock
<1>4. TypeOK BY <1>1, <1>3 DEF TypeOK, DestTyped
<1>5. SeriesInOnePlace BY <1>1, PlaceOf DEF SeriesInOnePlace
<1>6. StopKeepsSeries
  <2> SUFFICES ASSUME stage = "stopped" PROVE accepted \subseteq Settled \cup Queued BY DEF StopKeepsSeries
  <2>1. pending = {} /\ Quiet(Pushers) /\ Quiet({"flush_loop"}) /\ Quiet({"stop"}) BY <1>1 DEF ThreadsInv
  <2>2. \A w \in Workers : hands[w] = {} BY <1>1 DEF ThreadsInv
  <2>3. \A t \in Threads : hands[t] = {} BY <2>1, <2>2 DEF Quiet, Threads
  <2>4. Held(hands) = {} BY <2>3, NoneHeld
  <2> QED BY <1>1, <2>1, <2>4 DEF SeriesApart, Partitioned, Settled
<1> QED BY <1>4, <1>5, <1>6 DEF PipelineSound

\* Every accepted series is buffered, in one hand, in one file or settled, and only one of
\* these, through every handover between pushers, flush thread, workers and a stop, and
\* through crashes and restarts (buffer_and_enqueue, worker_loop, RemoteWriteCtx::stop).
THEOREM SeriesStayInOnePlace ==
  ASSUME Faulty \subseteq {"write"}
  PROVE  Spec => []PipelineSound
<1>1. Spec => []PipelineInv BY PipelineInvInit, PipelineInvKept, PTL DEF Spec
<1> QED BY <1>1, PipelineInvSound, PTL

\* A step of the destination is one of the FIFO.
LEMMA FifoMoves ==
  ASSUME Faulty \subseteq {"write"}
  PROVE  PipelineInv /\ [Next]_vars => [Queue!Fifo!Next]_(Queue!FileOrder(files))
<1> SUFFICES ASSUME PipelineInv, [Next]_vars PROVE [Queue!Fifo!Next]_(Queue!FileOrder(files)) OBVIOUS
<1>1. [QP!Next]_(QP!vars) BY QueueStep DEF PipelineInv, DestInv
<1>2. QP!FifoMove BY <1>1, QueueAssumed, QP!FifoStep DEF PipelineInv
<1>3. Queue!FileOrder(files) = QP!FileOrder(files) BY SameOrder
<1>4. Queue!FileOrder(files)' = QP!FileOrder(files)'
  <2>1. Queue!FileOrder(files') = QP!FileOrder(files') BY SameOrder
  <2> QED
    BY DEF Queue!FileOrder, QP!FileOrder, Queue!ByIndex, QP!ByIndex, Queue!UpTo, QP!UpTo, Queue!Cardinality, QP!Cardinality
<1> QED BY <1>2, <1>3, <1>4 DEF QP!FifoMove, Queue!Fifo!Next, Queue!Fifo!Put, Queue!Fifo!Take

\* A new destination has an empty FIFO.
LEMMA FifoStarts == Init => Queue!Fifo!Init
<1> SUFFICES ASSUME Init PROVE Queue!Fifo!Init OBVIOUS
<1>1. QP!Init BY SameRest DEF Init
<1>2. QP!FileOrder(files) = <<>> BY <1>1, QueueAssumed, QP!FifoInit
<1>3. Queue!FileOrder(files) = QP!FileOrder(files) BY SameOrder
<1> QED BY <1>2, <1>3 DEF Queue!Fifo!Init

\* Under the threads of the destination the files implement the FIFO that crashes and restarts
\* do not disturb (PersistentQueue::push, pop, open).
THEOREM DestinationKeepsFifo ==
  ASSUME Faulty \subseteq {"write"}
  PROVE  Spec => QueueIsDurableFifo
<1>1. Spec => []PipelineInv BY PipelineInvInit, PipelineInvKept, PTL DEF Spec
<1>2. Spec => Queue!ImplementsDurableFifo
  BY <1>1, FifoStarts, FifoMoves, PTL DEF Spec, Queue!ImplementsDurableFifo, Queue!Fifo!Spec
<1> QED BY <1>2 DEF QueueIsDurableFifo

\* A block that fits is replayed.
LEMMA SurvivesStep ==
  ASSUME Faulty \subseteq {"write"}, MaxBytes = 0 \/ MaxBlockSize <= MaxBytes
  PROVE  PipelineInv /\ [Next]_vars =>
           /\ [status = "down" /\ status' = "open" /\ writer = {} => files' = files]_(Queue!vars)
           /\ [writer = {} /\ writer' # {} => \A f \in files : f.index # nextIndex]_(Queue!vars)
<1> SUFFICES ASSUME PipelineInv, [Next]_vars
             PROVE  /\ status = "down" /\ status' = "open" /\ writer = {} => files' = files
                    /\ writer = {} /\ writer' # {} => \A f \in files : f.index # nextIndex
  OBVIOUS
<1>1. [QP!Next]_(QP!vars) /\ QP!DurableInv BY QueueStep DEF PipelineInv, DestInv
<1>2. \A b \in files : ~QP!Over(Size[b.data])
  <2> SUFFICES ASSUME NEW b \in files PROVE ~QP!Over(Size[b.data]) OBVIOUS
  <2> DEFINE n == Cardinality(b.data)
  <2>1. b.data \in Blocks BY <1>1 DEF QP!DurableInv, QP!QueueInv, QP!TypeOK, QP!QueuedBlock
  <2>2. Size[b.data] = n /\ n \in Nat BY <2>1, BlocksFinite
  <2>3. n <= MaxBlockSize BY DEF PipelineInv, DestInv, BlocksFit
  <2> HIDE DEF n
  <2>4. MaxBytes \in Nat /\ MaxBlockSize \in Nat BY RemoteWriteAssumption
  <2> QED BY <2>2, <2>3, <2>4 DEF QP!Over
<1>3. status = "down" /\ status' = "open" /\ writer = {} => files' = files
  BY <1>1, <1>2, QueueAssumed, QP!SurviveStep
<1>4. writer = {} /\ writer' # {} => \A f \in files : f.index # nextIndex
  BY <1>1, QueueAssumed, QP!RenameStep
<1> QED BY <1>3, <1>4

\* Where a full block fits in max_bytes, every block whose push returned Ok is replayed by the
\* start that follows a crash, and no push renames over a file (write_block_file, open).
THEOREM QueuedBlocksSurvive ==
  ASSUME Faulty \subseteq {"write"}, MaxBytes = 0 \/ MaxBlockSize <= MaxBytes
  PROVE  Spec => QueuedSurvivesCrash
<1>1. Spec => []PipelineInv BY PipelineInvInit, PipelineInvKept, PTL DEF Spec
<1>2. Spec => Queue!PushSurvivesCrash
  BY <1>1, SurvivesStep, PTL DEF Spec, Queue!PushSurvivesCrash
<1>3. Spec => Queue!RenameTargetAbsent
  BY <1>1, SurvivesStep, PTL DEF Spec, Queue!RenameTargetAbsent
<1> QED BY <1>2, <1>3 DEF QueuedSurvivesCrash
=============================================================================
