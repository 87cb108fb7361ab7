---------------------------- MODULE QueueProofs ----------------------------
(***************************************************************************)
(* Proofs about PersistentQueue, for all blocks, lengths, limits and       *)
(* bounds: what its operators on sets of blocks compute, the byte count    *)
(* and the order of the files though file operations fail, and, where none *)
(* but a write may fail, the durable FIFO that the files are.              *)
(***************************************************************************)
EXTENDS PersistentQueue, FiniteSetTheorems, FunctionTheorems, WellFoundedInduction,
        NaturalsInduction, SequenceTheorems, TLAPS

----------------------------------------------------------------------------
(* Sets of blocks: their bytes and their order.                            *)

\* Blocks with different file names, and no more than can be counted.
Indexed(S) ==
  /\ IsFiniteSet(S) /\ S \subseteq QueuedBlock
  /\ \A b, c \in S : b.index = c.index => b = c

\* Every set of naturals that is not empty has a least element.
LEMMA LeastElement ==
  ASSUME NEW S \in SUBSET Nat, S # {}
  PROVE  \E m \in S : \A n \in S : m <= n
<1> DEFINE R == {p \in Nat \X Nat : p[1] < p[2]}
<1>1. IsWellFoundedOn(R, Nat) BY NatLessThanWellFounded DEF OpToRel
<1> HIDE DEF R
<1>2. PICK m \in S : \A y \in S : ~(<<y, m>> \in R) BY <1>1, WFMin
<1>3. \A y \in S : ~(y < m) BY <1>2 DEF R
<1> QED BY <1>3

\* A part of such a set is one, and so is one with a block of another name.
LEMMA IndexedPart ==
  ASSUME NEW S, Indexed(S), NEW T \in SUBSET S
  PROVE  Indexed(T)
BY FS_Subset DEF Indexed

\* A set with a block of a new name is one.
LEMMA IndexedAdd ==
  ASSUME NEW S, Indexed(S), NEW b \in QueuedBlock, \A c \in S : c.index # b.index
  PROVE  Indexed(S \cup {b})
BY FS_AddElement DEF Indexed

\* The numbers up to one are as many.
LEMMA Count ==
  ASSUME NEW n \in Nat
  PROVE  IsFiniteSet(1..n) /\ Cardinality(1..n) = n
BY FS_Interval

\* The bytes of a block that is added.
LEMMA BytesAdd ==
  ASSUME NEW S, Indexed(S), IsFiniteSet(BytePositions(S)), NEW b \in QueuedBlock, b \notin S
  PROVE  /\ IsFiniteSet(BytePositions(S \cup {b}))
         /\ Bytes(S \cup {b}) = Bytes(S) + Size[b.data]
<1> DEFINE n == Size[b.data]
           P == {b} \X (1..n)
<1>1. n \in Nat BY PersistentQueueAssumption DEF QueuedBlock
<1>2. BytePositions(S \cup {b}) = BytePositions(S) \cup P BY DEF BytePositions
<1>3. BytePositions(S) \cap P = {} BY DEF BytePositions
<1> HIDE DEF n
<1>4. IsFiniteSet(P) /\ Cardinality(P) = n
  <2>1. IsFiniteSet({b}) /\ Cardinality({b}) = 1 BY FS_Singleton
  <2>2. IsFiniteSet(1..n) /\ Cardinality(1..n) = n BY <1>1, Count
  <2>3. IsFiniteSet(P) /\ Cardinality(P) = Cardinality({b}) * Cardinality(1..n)
    BY <2>1, <2>2, FS_Product
  <2> QED BY <1>1, <2>1, <2>2, <2>3
<1> HIDE DEF P
<1>5. Cardinality(BytePositions(S)) \in Nat BY FS_CardinalityType
<1>6. Cardinality(BytePositions(S) \cap P) = 0 BY <1>3, FS_EmptySet
<1>7. IsFiniteSet(BytePositions(S) \cup P)
      /\ Cardinality(BytePositions(S) \cup P) = Cardinality(BytePositions(S)) + Cardinality(P) - 0
  BY <1>4, <1>6, FS_Union
<1>8. Cardinality(BytePositions(S) \cup P) = Cardinality(BytePositions(S)) + n
  BY <1>1, <1>4, <1>5, <1>7
<1>9. Bytes(S \cup {b}) = Bytes(S) + n BY <1>2, <1>8, Zenon DEF Bytes
<1> QED BY <1>2, <1>7, <1>9 DEF n

\* The bytes of a set can be counted.
LEMMA BytesFinite ==
  ASSUME NEW S, Indexed(S)
  PROVE  IsFiniteSet(BytePositions(S)) /\ Bytes(S) \in Nat
<1> DEFINE F == [b \in S |-> {b} \X (1..Size[b.data])]
           U == {{b} \X (1..Size[b.data]) : b \in S}
<1>1. F \in Surjection(S, U) BY Fun_IsSurj
<1>2. IsFiniteSet(U) BY <1>1, FS_Surjection DEF Indexed
<1>3. \A T \in U : IsFiniteSet(T)
  <2> SUFFICES ASSUME NEW b \in S PROVE IsFiniteSet({b} \X (1..Size[b.data])) OBVIOUS
  <2>1. Size[b.data] \in Nat BY PersistentQueueAssumption DEF Indexed, QueuedBlock
  <2>2. IsFiniteSet({b}) /\ IsFiniteSet(1..Size[b.data]) BY <2>1, FS_Singleton, Count
  <2> QED BY <2>2, FS_Product
<1>4. IsFiniteSet(UNION U) BY <1>2, <1>3, FS_UNION
<1>5. IsFiniteSet(BytePositions(S)) BY <1>4 DEF BytePositions
<1> QED BY <1>5, FS_CardinalityType DEF Bytes

\* Nothing has no bytes, and a block without the others its own.
LEMMA BytesRemove ==
  ASSUME NEW S, Indexed(S), NEW b \in S
  PROVE  Bytes(S \ {b}) = Bytes(S) - Size[b.data]
<1> DEFINE n == Size[b.data]
<1>1. Indexed(S \ {b}) BY IndexedPart
<1>2. b \in QueuedBlock BY DEF Indexed
<1>3. IsFiniteSet(BytePositions(S \ {b})) /\ Bytes(S \ {b}) \in Nat BY <1>1, BytesFinite
<1>4. (S \ {b}) \cup {b} = S OBVIOUS
<1>5. Bytes(S) = Bytes(S \ {b}) + n BY <1>1, <1>2, <1>3, <1>4, BytesAdd
<1>6. n \in Nat BY <1>2, PersistentQueueAssumption DEF QueuedBlock
<1> HIDE DEF n
<1>7. Bytes(S \ {b}) = Bytes(S) - n BY <1>3, <1>5, <1>6
<1> QED BY <1>7 DEF n

\* No block, no byte.
LEMMA BytesEmpty == Bytes({}) = 0
<1>1. BytePositions({}) = {} BY DEF BytePositions
<1> QED BY <1>1, FS_EmptySet DEF Bytes

\* The rank of a block: every number up to that of the blocks is that of one.
LEMMA RankBijection ==
  ASSUME NEW S, Indexed(S)
  PROVE  /\ \A b \in S : Cardinality(UpTo(b, S)) \in 1..Cardinality(S)
         /\ \A b, c \in S : b.index < c.index => Cardinality(UpTo(b, S)) < Cardinality(UpTo(c, S))
         /\ \A i \in 1..Cardinality(S) : \E b \in S : Cardinality(UpTo(b, S)) = i
<1> DEFINE n == Cardinality(S)
           rank == [b \in S |-> Cardinality(UpTo(b, S))]
<1>1. n \in Nat BY FS_CardinalityType DEF Indexed
<1>2. \A b \in S : b.index \in Nat BY DEF Indexed, QueuedBlock
<1>3. \A b \in S : /\ UpTo(b, S) \subseteq S /\ b \in UpTo(b, S) /\ IsFiniteSet(UpTo(b, S))
                   /\ Cardinality(UpTo(b, S)) \in Nat
  BY <1>2, FS_Subset, FS_CardinalityType DEF UpTo, Indexed
<1>4. ASSUME NEW b \in S PROVE Cardinality(UpTo(b, S)) \in 1..n
  <2>1. Cardinality(UpTo(b, S)) <= n BY <1>3, FS_Subset DEF Indexed
  <2>2. Cardinality(UpTo(b, S)) # 0 BY <1>3, FS_EmptySet
  <2> QED BY <1>1, <1>3, <2>1, <2>2
<1>5. ASSUME NEW b \in S, NEW c \in S, b.index < c.index
      PROVE  Cardinality(UpTo(b, S)) < Cardinality(UpTo(c, S))
  <2>1. UpTo(b, S) \subseteq UpTo(c, S) /\ c \notin UpTo(b, S) BY <1>2, <1>5 DEF UpTo
  <2>2. Cardinality(UpTo(b, S)) <= Cardinality(UpTo(c, S)) /\ UpTo(c, S) # UpTo(b, S) BY <1>3, <2>1, FS_Subset
  <2>3. Cardinality(UpTo(b, S)) # Cardinality(UpTo(c, S)) BY <1>3, <2>1, <2>2, FS_Subset
  <2> QED BY <1>3, <2>2, <2>3
<1>6. rank \in [S -> 1..n] BY <1>4
<1>7. \A b, c \in S : rank[b] = rank[c] => b = c
  <2> SUFFICES ASSUME NEW b \in S, NEW c \in S, b # c PROVE rank[b] # rank[c] OBVIOUS
  <2>1. b.index < c.index \/ c.index < b.index BY <1>2 DEF Indexed
  <2> QED BY <1>3, <1>5, <2>1
<1>8. rank \in Injection(S, 1..n) BY <1>6, <1>7, Fun_IsInj
<1>9. IsFiniteSet(1..n) /\ Cardinality(1..n) = n BY <1>1, FS_Interval
<1>10. rank \in Surjection(S, 1..n) BY <1>8, <1>9, FS_Injection
<1> HIDE DEF rank
<1>11. \A i \in 1..n : \E b \in S : rank[b] = i BY <1>10, Fun_SurjectionProperties
<1> QED BY <1>4, <1>5, <1>11 DEF rank

\* ByIndex gives every block once, in the order of the names.
LEMMA ByIndexSorts ==
  ASSUME NEW S, Indexed(S)
  PROVE  /\ Cardinality(S) \in Nat /\ ByIndex(S) \in [1..Cardinality(S) -> S]
         /\ \A i \in 1..Cardinality(S) : Cardinality(UpTo(ByIndex(S)[i], S)) = i
         /\ \A b \in S : Cardinality(UpTo(b, S)) \in 1..Cardinality(S)
                         /\ ByIndex(S)[Cardinality(UpTo(b, S))] = b
         /\ \A i, j \in 1..Cardinality(S) : i < j => ByIndex(S)[i].index < ByIndex(S)[j].index
<1> DEFINE n == Cardinality(S)
<1>1. n \in Nat BY FS_CardinalityType DEF Indexed
<1>2. ASSUME NEW i \in 1..n PROVE ByIndex(S)[i] \in S /\ Cardinality(UpTo(ByIndex(S)[i], S)) = i
  <2>1. \E b \in S : Cardinality(UpTo(b, S)) = i BY RankBijection
  <2>2. ByIndex(S)[i] = CHOOSE b \in S : Cardinality(UpTo(b, S)) = i BY DEF ByIndex
  <2> QED BY <2>1, <2>2
<1>3. ByIndex(S) \in [1..n -> S] BY <1>2 DEF ByIndex
<1>4. \A b, c \in S : Cardinality(UpTo(b, S)) = Cardinality(UpTo(c, S)) => b = c
  <2> SUFFICES ASSUME NEW b \in S, NEW c \in S, b # c PROVE Cardinality(UpTo(b, S)) # Cardinality(UpTo(c, S)) OBVIOUS
  <2>1. b.index \in Nat /\ c.index \in Nat /\ b.index # c.index BY DEF Indexed, QueuedBlock
  <2>2. Cardinality(UpTo(b, S)) \in 1..n /\ Cardinality(UpTo(c, S)) \in 1..n BY RankBijection
  <2>3. CASE b.index < c.index BY <1>1, <2>2, <2>3, RankBijection
  <2>4. CASE c.index < b.index BY <1>1, <2>2, <2>4, RankBijection
  <2> QED BY <2>1, <2>3, <2>4
<1>5. ASSUME NEW b \in S PROVE Cardinality(UpTo(b, S)) \in 1..n /\ ByIndex(S)[Cardinality(UpTo(b, S))] = b
  <2>1. Cardinality(UpTo(b, S)) \in 1..n BY RankBijection
  <2> QED BY <1>2, <1>4, <2>1
<1>6. ASSUME NEW i \in 1..n, NEW j \in 1..n, i < j PROVE ByIndex(S)[i].index < ByIndex(S)[j].index
  <2> DEFINE b == ByIndex(S)[i]
             c == ByIndex(S)[j]
  <2>1. b \in S /\ c \in S /\ Cardinality(UpTo(b, S)) = i /\ Cardinality(UpTo(c, S)) = j BY <1>2
  <2>2. b.index \in Nat /\ c.index \in Nat BY <2>1 DEF Indexed, QueuedBlock
  <2>3. b.index # c.index BY <1>1, <1>6, <2>1 DEF Indexed
  <2>4. ~(c.index < b.index)
    <3> SUFFICES ASSUME c.index < b.index PROVE FALSE OBVIOUS
    <3>1. Cardinality(UpTo(c, S)) < Cardinality(UpTo(b, S)) BY <2>1, RankBijection
    <3> QED BY <1>1, <1>6, <2>1, <3>1
  <2> QED BY <2>2, <2>3, <2>4
<1> QED BY <1>1, <1>2, <1>3, <1>5, <1>6

\* ... so its elements are the set.
LEMMA ByIndexElements ==
  ASSUME NEW S, Indexed(S)
  PROVE  /\ Elements(ByIndex(S)) = S /\ ByIndex(S) \in Seq(QueuedBlock)
         /\ DOMAIN ByIndex(S) = 1..Cardinality(S) /\ Len(ByIndex(S)) = Cardinality(S)
<1>1. ByIndex(S) \in [1..Cardinality(S) -> S] /\ Cardinality(S) \in Nat BY ByIndexSorts
<1>2. DOMAIN ByIndex(S) = 1..Cardinality(S) BY <1>1
<1>3. Elements(ByIndex(S)) = S BY <1>1, <1>2, ByIndexSorts DEF Elements
<1>4. ByIndex(S) \in Seq(QueuedBlock) BY <1>1 DEF Indexed
<1> QED BY <1>1, <1>2, <1>3, <1>4

\* Of blocks whose indices are bounded one has the last.
LEMMA LastIsLast ==
  ASSUME NEW S, Indexed(S), S # {}
  PROVE  LastOf(S) \in S /\ \A c \in S : c.index <= LastOf(S).index
<1> DEFINE n == Cardinality(S)
           b == ByIndex(S)[n]
<1>1. n \in Nat /\ n # 0 BY FS_CardinalityType, FS_EmptySet DEF Indexed
<1>2. b \in S /\ Cardinality(UpTo(b, S)) = n BY <1>1, ByIndexSorts
<1> HIDE DEF b
<1>3. UpTo(b, S) = S BY <1>2, FS_Subset DEF UpTo, Indexed
<1>4. \A c \in S : c.index <= b.index BY <1>3 DEF UpTo
<1> QED BY <1>2, <1>4 DEF LastOf

\* The blocks that open drops leave the others within the limit, and are the oldest.
LEMMA SurplusFits ==
  ASSUME NEW S, Indexed(S)
  PROVE  /\ Surplus(S) \in SUBSET S /\ ~Over(Bytes(S \ Surplus(S)))
         /\ \A b \in Surplus(S), c \in S \ Surplus(S) : b.index < c.index
         /\ ~Over(Bytes(S)) => Surplus(S) = {}
<1> DEFINE Oldest(E) == \A b \in E, c \in S \ E : b.index < c.index
           Fits(E) == ~Over(Bytes(S \ E))
           Good == {E \in SUBSET S : Oldest(E) /\ Fits(E)}
           Sizes == {Cardinality(E) : E \in Good}
<1>1. \A E \in SUBSET S : IsFiniteSet(E) /\ Cardinality(E) \in Nat BY FS_Subset, FS_CardinalityType DEF Indexed
<1>2. S \in Good
  <2>1. S \ S = {} OBVIOUS
  <2>2. Bytes(S \ S) = 0 BY <2>1, BytesEmpty
  <2> QED BY <2>1, <2>2, PersistentQueueAssumption DEF Over
<1>3. Sizes \in SUBSET Nat /\ Sizes # {} BY <1>1, <1>2
<1>4. PICK m \in Sizes : \A k \in Sizes : m <= k BY <1>3, LeastElement
<1>5. PICK D \in Good : Cardinality(D) = m BY <1>4
<1>6. D \in SUBSET S /\ Oldest(D) /\ Fits(D) /\ \A E \in SUBSET S : Oldest(E) /\ Fits(E) => Cardinality(D) <= Cardinality(E)
  BY <1>4, <1>5
<1> HIDE DEF Good, Sizes
<1>7. /\ Surplus(S) \in SUBSET S /\ Oldest(Surplus(S)) /\ Fits(Surplus(S))
      /\ \A E \in SUBSET S : Oldest(E) /\ Fits(E) => Cardinality(Surplus(S)) <= Cardinality(E)
  BY <1>6 DEF Surplus
<1>8. ASSUME ~Over(Bytes(S)) PROVE Surplus(S) = {}
  <2>1. {} \in SUBSET S /\ Oldest({}) /\ S \ {} = S OBVIOUS
  <2>2. Fits({}) BY <1>8, <2>1
  <2>3. Cardinality(Surplus(S)) <= 0 BY <1>7, <2>1, <2>2, FS_EmptySet
  <2> QED BY <1>1, <1>7, <2>3, FS_EmptySet
<1> QED BY <1>7, <1>8

\* A block with a later name than all comes last, and the others stay where they are.
LEMMA ByIndexAdd ==
  ASSUME NEW S, Indexed(S), NEW b \in QueuedBlock, \A c \in S : c.index < b.index
  PROVE  /\ Indexed(S \cup {b}) /\ Cardinality(S \cup {b}) = Cardinality(S) + 1
         /\ \A i \in 1..Cardinality(S) : ByIndex(S \cup {b})[i] = ByIndex(S)[i]
         /\ ByIndex(S \cup {b})[Cardinality(S) + 1] = b
<1> DEFINE T == S \cup {b}
           n == Cardinality(S)
<1>1. \A c \in S : c.index \in Nat BY DEF Indexed, QueuedBlock
<1>2. b.index \in Nat BY DEF QueuedBlock
<1>3. b \notin S BY <1>2
<1>4. Indexed(T) BY <1>1, <1>2, IndexedAdd
<1>5. n \in Nat /\ Cardinality(T) = n + 1 BY <1>3, FS_AddElement, FS_CardinalityType DEF Indexed
<1>6. ASSUME NEW i \in 1..n PROVE ByIndex(T)[i] = ByIndex(S)[i]
  <2> DEFINE c == ByIndex(S)[i]
  <2>1. c \in S /\ Cardinality(UpTo(c, S)) = i BY ByIndexSorts
  <2> HIDE DEF c
  <2>2. UpTo(c, T) = UpTo(c, S) BY <1>1, <1>2, <2>1 DEF UpTo
  <2>3. ByIndex(T)[Cardinality(UpTo(c, T))] = c BY <1>4, <2>1, ByIndexSorts
  <2> QED BY <2>1, <2>2, <2>3 DEF c
<1>7. ByIndex(T)[n + 1] = b
  <2>1. UpTo(b, T) = T BY <1>1, <1>2 DEF UpTo
  <2>2. ByIndex(T)[Cardinality(UpTo(b, T))] = b BY <1>4, ByIndexSorts
  <2> QED BY <1>5, <2>1, <2>2
<1> QED BY <1>4, <1>5, <1>6, <1>7

\* Without the oldest blocks the others move up by their number.
LEMMA ByIndexDrop ==
  ASSUME NEW S, Indexed(S), NEW D \in SUBSET S, \A b \in D, c \in S \ D : b.index < c.index
  PROVE  /\ Cardinality(D) \in Nat /\ Cardinality(S) \in Nat /\ Cardinality(D) <= Cardinality(S)
         /\ Cardinality(S \ D) = Cardinality(S) - Cardinality(D)
         /\ \A i \in 1..Cardinality(S \ D) :
              /\ i + Cardinality(D) \in 1..Cardinality(S)
              /\ ByIndex(S \ D)[i] = ByIndex(S)[i + Cardinality(D)]
<1> DEFINE R == S \ D
           d == Cardinality(D)
           n == Cardinality(S)
           r == Cardinality(R)
<1>1. Indexed(D) /\ Indexed(R) BY IndexedPart
<1>2. d \in Nat /\ n \in Nat /\ r \in Nat BY <1>1, FS_CardinalityType DEF Indexed
<1>3. n = d + r /\ D \cap R = {}
  <2>1. S = D \cup R /\ D \cap R = {} OBVIOUS
  <2>2. Cardinality(D \cup R) = d + r - Cardinality(D \cap R) BY <1>1, FS_Union DEF Indexed
  <2>3. Cardinality(D \cap R) = 0 BY <2>1, FS_EmptySet
  <2> HIDE DEF R, d, r
  <2>4. Cardinality(D \cup R) = d + r BY <1>2, <2>2, <2>3
  <2> QED BY <2>1, <2>4
<1>4. ASSUME NEW i \in 1..r PROVE i + d \in 1..n /\ ByIndex(R)[i] = ByIndex(S)[i + d]
  <2> DEFINE c == ByIndex(R)[i]
             U == UpTo(c, R)
  <2>0. \A j \in 1..Cardinality(R) : ByIndex(R)[j] \in R /\ Cardinality(UpTo(ByIndex(R)[j], R)) = j
    <3> HIDE DEF R
    <3> QED BY ONLY <1>1, ByIndexSorts
  <2>1. c \in R /\ Cardinality(U) = i BY ONLY <2>0, i \in 1..r
  <2> HIDE DEF c
  <2>2. \A b \in S : b.index \in Nat BY DEF Indexed, QueuedBlock
  <2>3. UpTo(c, S) = D \cup U /\ D \cap U = {} BY <2>1, <2>2 DEF UpTo
  <2>4. IsFiniteSet(U) /\ IsFiniteSet(D) BY <1>1, FS_Subset DEF UpTo, Indexed
  <2>5. Cardinality(D \cap U) = 0 BY <2>3, FS_EmptySet
  <2>6. Cardinality(D \cup U) = d + Cardinality(U) - Cardinality(D \cap U) BY <2>4, FS_Union
  <2>7. Cardinality(UpTo(c, S)) = i + d BY <1>2, <2>1, <2>3, <2>5, <2>6
  <2>8. Cardinality(UpTo(c, S)) \in 1..n /\ ByIndex(S)[Cardinality(UpTo(c, S))] = c BY <2>1, ByIndexSorts
  <2> QED BY <2>7, <2>8 DEF c
<1>5. \A x, y, z \in Nat : x = y + z => y <= x /\ z = x - y OBVIOUS
<1>6. d <= n /\ r = n - d BY <1>2, <1>3, <1>5
<1> QED BY <1>2, <1>4, <1>6

----------------------------------------------------------------------------
(* The queue in memory.                                                    *)

\* Blocks in the order of their names.
InOrder(s) == \A i, j \in DOMAIN s : i < j => s[i].index < s[j].index

\* A queue without its oldest block.
LEMMA TailInOrder ==
  ASSUME NEW s \in Seq(QueuedBlock), InOrder(s), s # <<>>
  PROVE  /\ Head(s) \in QueuedBlock /\ Head(s) \in Elements(s)
         /\ Tail(s) \in Seq(QueuedBlock) /\ InOrder(Tail(s))
         /\ Elements(Tail(s)) = Elements(s) \ {Head(s)}
         /\ \A b \in Elements(Tail(s)) : Head(s).index < b.index
<1>1. /\ Len(s) \in Nat /\ Len(s) # 0 /\ DOMAIN s = 1..Len(s)
      /\ Head(s) = s[1] /\ Tail(s) \in Seq(QueuedBlock)
      /\ Len(Tail(s)) = Len(s) - 1 /\ DOMAIN Tail(s) = 1..(Len(s) - 1)
      /\ \A i \in 1..(Len(s) - 1) : Tail(s)[i] = s[i + 1]
  OBVIOUS
<1>2. \A i \in 1..Len(s) : s[i] \in QueuedBlock /\ s[i].index \in Nat
  <2>1. \A i \in 1..Len(s) : s[i] \in QueuedBlock OBVIOUS
  <2>2. \A b \in QueuedBlock : b.index \in Nat BY DEF QueuedBlock
  <2> QED BY <2>1, <2>2
<1>3. 1 \in 1..Len(s) BY <1>1
<1>4. Head(s) \in QueuedBlock /\ Head(s) \in Elements(s) BY <1>1, <1>2, <1>3 DEF Elements
<1>5. ASSUME NEW i \in DOMAIN Tail(s), NEW j \in DOMAIN Tail(s), i < j
      PROVE  Tail(s)[i].index < Tail(s)[j].index
  <2>1. i + 1 \in DOMAIN s /\ j + 1 \in DOMAIN s /\ i + 1 < j + 1 BY <1>1, <1>5
  <2>2. s[i + 1].index < s[j + 1].index BY <2>1 DEF InOrder
  <2> QED BY <1>1, <2>2
<1>6. \A i \in 2..Len(s) : s[1].index < s[i].index
  <2> SUFFICES ASSUME NEW i \in 2..Len(s) PROVE s[1].index < s[i].index OBVIOUS
  <2>1. 1 \in DOMAIN s /\ i \in DOMAIN s /\ 1 < i BY <1>1
  <2> QED BY <2>1 DEF InOrder
<1>7. ASSUME NEW b PROVE b \in Elements(Tail(s)) <=> b \in Elements(s) /\ b # Head(s)
  <2>1. ASSUME b \in Elements(Tail(s)) PROVE b \in Elements(s) /\ b # Head(s)
    <3>1. PICK i \in 1..(Len(s) - 1) : b = s[i + 1] BY <1>1, <2>1 DEF Elements
    <3>2. i + 1 \in 2..Len(s) /\ i + 1 \in 1..Len(s) BY <1>1
    <3>3. s[1].index < b.index BY <1>6, <3>1, <3>2
    <3>4. b # s[1] BY <1>2, <1>3, <3>3
    <3> QED BY <1>1, <3>1, <3>2, <3>4 DEF Elements
  <2>2. ASSUME b \in Elements(s), b # Head(s) PROVE b \in Elements(Tail(s))
    <3>1. PICK i \in 1..Len(s) : b = s[i] BY <1>1, <2>2 DEF Elements
    <3>2. i # 1 BY <1>1, <2>2, <3>1
    <3>3. i - 1 \in 1..(Len(s) - 1) /\ (i - 1) + 1 = i BY <1>1, <3>2
    <3>4. Tail(s)[i - 1] = b BY <1>1, <3>1, <3>3
    <3> QED BY <1>1, <3>3, <3>4 DEF Elements
  <2> QED BY <2>1, <2>2
<1>8. Elements(Tail(s)) = Elements(s) \ {Head(s)} BY <1>7
<1>9. ASSUME NEW b \in Elements(Tail(s)) PROVE Head(s).index < b.index
  <2>1. PICK i \in 1..(Len(s) - 1) : b = s[i + 1] BY <1>1, <1>9 DEF Elements
  <2>2. i + 1 \in 2..Len(s) BY <1>1
  <2> QED BY <1>1, <1>6, <2>1, <2>2
<1> QED BY <1>1, <1>4, <1>5, <1>8, <1>9 DEF InOrder

\* A queue with a block of a later name at its end.
LEMMA AppendInOrder ==
  ASSUME NEW s \in Seq(QueuedBlock), InOrder(s), NEW b \in QueuedBlock,
         \A c \in Elements(s) : c.index < b.index
  PROVE  /\ Append(s, b) \in Seq(QueuedBlock) /\ InOrder(Append(s, b))
         /\ Elements(Append(s, b)) = Elements(s) \cup {b} /\ Len(Append(s, b)) = Len(s) + 1
<1> DEFINE t == Append(s, b)
           n == Len(s)
<1>1. /\ n \in Nat /\ DOMAIN s = 1..n /\ t \in Seq(QueuedBlock) /\ Len(t) = n + 1
      /\ DOMAIN t = 1..(n + 1) /\ t[n + 1] = b /\ \A i \in 1..n : t[i] = s[i]
  OBVIOUS
<1> HIDE DEF t, n
<1>2. \A i \in 1..n : s[i] \in Elements(s) BY <1>1 DEF Elements
<1>3. ASSUME NEW i \in DOMAIN t, NEW j \in DOMAIN t, i < j PROVE t[i].index < t[j].index
  <2>1. i \in 1..n BY <1>1, <1>3
  <2>2. CASE j \in 1..n BY <1>1, <1>3, <2>1, <2>2 DEF InOrder
  <2>3. CASE j = n + 1 BY <1>1, <1>2, <2>1, <2>3
  <2> QED BY <1>1, <2>2, <2>3
<1>4. Elements(t) = Elements(s) \cup {b}
  <2>1. ASSUME NEW c PROVE c \in Elements(t) <=> c \in Elements(s) \/ c = b
    <3>1. ASSUME c \in Elements(t) PROVE c \in Elements(s) \/ c = b
      <4>1. PICK i \in 1..(n + 1) : c = t[i] BY <1>1, <3>1 DEF Elements
      <4>2. i \in 1..n \/ i = n + 1 BY <1>1
      <4> QED BY <1>1, <1>2, <4>1, <4>2
    <3>2. ASSUME c \in Elements(s) PROVE c \in Elements(t)
      <4>1. PICK i \in 1..n : c = s[i] BY <1>1, <3>2 DEF Elements
      <4>2. i \in 1..(n + 1) BY <1>1
      <4> QED BY <1>1, <4>1, <4>2 DEF Elements
    <3>3. b \in Elements(t)
      <4>1. n + 1 \in 1..(n + 1) BY <1>1
      <4> QED BY <1>1, <4>1 DEF Elements
    <3> QED BY <3>1, <3>2, <3>3
  <2> QED BY <2>1
<1> QED BY <1>1, <1>3, <1>4 DEF InOrder, t, n

----------------------------------------------------------------------------
(* The byte count and the files, whatever file operation fails.            *)

\* The file names are distinct; the queued blocks, in the order of their names, and the block of
\* the push under way, after them all, have their files; the byte count is that of the queued
\* blocks, and too high for one block at most.
QueueInv ==
  /\ TypeOK /\ Indexed(files)
  /\ InOrder(blocks) /\ Elements(blocks) \cup writer \subseteq files
  /\ \A b \in Elements(blocks) : b.index < nextIndex
  /\ \A w \in writer : w.index + 1 = nextIndex /\ \A b \in Elements(blocks) : b.index < w.index
  /\ currentBytes = Bytes(Elements(blocks))
  /\ writer = {} /\ Over(currentBytes) => Len(blocks) = 1

\* The file of a push replaces one of its name, if any, and none that is queued.
LEMMA WriteKept ==
  ASSUME QueueInv, NEW d \in Blocks, write_block_file(d)
  PROVE  QueueInv'
<1> DEFINE b == [index |-> nextIndex, data |-> d]
           others == {f \in files : f.index # nextIndex}
<1>1. b \in QueuedBlock /\ b.index = nextIndex /\ nextIndex \in Nat BY DEF QueueInv, TypeOK, QueuedBlock
<1>2. /\ files' = others \cup {b} /\ writer' = {b} /\ nextIndex' = nextIndex + 1 /\ writer = {}
      /\ UNCHANGED <<blocks, currentBytes, status, evicted, faults, crashes>>
  BY DEF write_block_file
<1>3. Indexed(others) BY IndexedPart DEF QueueInv
<1>4. \A c \in others : c.index # b.index BY <1>1
<1> HIDE DEF b
<1>5. Indexed(others \cup {b}) BY <1>1, <1>3, <1>4, IndexedAdd
<1>6. \A c \in Elements(blocks) : c \in others /\ c.index < nextIndex /\ c.index \in Nat
  BY <1>1 DEF QueueInv, Indexed, QueuedBlock
<1>7. TypeOK' BY <1>1, <1>2, <1>5 DEF QueueInv, TypeOK, Indexed
<1>8. Elements(blocks)' = Elements(blocks) /\ InOrder(blocks)' /\ Bytes(Elements(blocks))' = Bytes(Elements(blocks))
  BY <1>2 DEF QueueInv, Elements, InOrder, Bytes, BytePositions
<1>9. \A c \in Elements(blocks)' : c \in files' /\ c.index < nextIndex' BY <1>1, <1>2, <1>6, <1>8
<1>10. \A w \in writer' : /\ w \in files' /\ w.index + 1 = nextIndex'
                          /\ \A c \in Elements(blocks)' : c.index < w.index
  BY <1>1, <1>2, <1>6, <1>8
<1>11. (currentBytes = Bytes(Elements(blocks)))' BY <1>2, <1>8 DEF QueueInv
<1> QED BY <1>2, <1>5, <1>7, <1>8, <1>9, <1>10, <1>11 DEF QueueInv

\* The oldest block leaves the queue: what remove_block_file, pop and an eviction leave.
LEMMA DropKept ==
  ASSUME QueueInv, blocks # <<>>, remove_block_file(Head(blocks)),
         blocks' = Tail(blocks), currentBytes' = currentBytes - Size[Head(blocks).data],
         nextIndex' = nextIndex, writer' = writer
  PROVE  /\ Indexed(files') /\ InOrder(blocks') /\ blocks' \in Seq(QueuedBlock)
         /\ Elements(blocks') = Elements(blocks) \ {Head(blocks)}
         /\ Elements(blocks') \cup writer' \subseteq files'
         /\ \A b \in Elements(blocks') : b.index < nextIndex'
         /\ \A w \in writer' : w.index + 1 = nextIndex' /\ \A b \in Elements(blocks') : b.index < w.index
         /\ currentBytes' = Bytes(Elements(blocks')) /\ currentBytes' \in Nat
         /\ currentBytes' <= currentBytes /\ faults' \in Nat
<1> DEFINE old == Head(blocks)
<1>1. blocks \in Seq(QueuedBlock) /\ InOrder(blocks) BY DEF QueueInv, TypeOK
<1>2. /\ old \in QueuedBlock /\ old \in Elements(blocks) /\ blocks' \in Seq(QueuedBlock) /\ InOrder(blocks')
      /\ Elements(blocks') = Elements(blocks) \ {old}
  BY <1>1, TailInOrder
<1> HIDE DEF old
<1>3. files' = files \ {old} \/ files' = files BY DEF remove_block_file, old
<1>4. Indexed(files') BY <1>3, IndexedPart DEF QueueInv
<1>5. Indexed(Elements(blocks)) /\ Indexed(Elements(blocks'))
  <2>1. Elements(blocks) \in SUBSET files /\ Elements(blocks') \in SUBSET files BY <1>2 DEF QueueInv
  <2> QED BY <2>1, IndexedPart DEF QueueInv
<1>6. old \notin writer
  <2>1. \A w \in writer : old.index < w.index BY <1>2 DEF QueueInv
  <2>2. old.index \in Nat BY <1>2 DEF QueuedBlock
  <2> QED BY <2>1, <2>2
<1>7. Elements(blocks') \cup writer' \subseteq files' BY <1>2, <1>3, <1>6 DEF QueueInv
<1>8. /\ \A b \in Elements(blocks') : b.index < nextIndex'
      /\ \A w \in writer' : w.index + 1 = nextIndex' /\ \A b \in Elements(blocks') : b.index < w.index
  BY <1>2 DEF QueueInv
<1>9. currentBytes' = Bytes(Elements(blocks'))
  BY <1>2, <1>5, BytesRemove DEF QueueInv, old
<1>10. Bytes(Elements(blocks')) \in Nat /\ currentBytes \in Nat BY <1>5, BytesFinite DEF QueueInv, TypeOK
<1>11. currentBytes' <= currentBytes
  <2> DEFINE n == Size[old.data]
  <2>1. n \in Nat BY <1>2, PersistentQueueAssumption DEF QueuedBlock
  <2>2. currentBytes' = currentBytes - n BY DEF old
  <2> HIDE DEF n
  <2> QED BY <1>10, <2>1, <2>2
<1>12. faults' \in Nat BY DEF remove_block_file, Fault, QueueInv, TypeOK
<1> QED BY <1>2, <1>4, <1>7, <1>8, <1>9, <1>10, <1>11, <1>12 DEF old

\* An eviction keeps the invariant.
LEMMA EvictKept ==
  ASSUME QueueInv, NEW b \in writer, PushEvict(b)
  PROVE  QueueInv'
<1>1. /\ blocks # <<>> /\ remove_block_file(Head(blocks)) /\ blocks' = Tail(blocks)
      /\ currentBytes' = currentBytes - Size[Head(blocks).data]
      /\ UNCHANGED <<nextIndex, writer, status, crashes>>
      /\ evicted' = evicted \cup {Head(blocks).data}
  BY DEF PushEvict
<1>2. /\ Indexed(files') /\ InOrder(blocks') /\ blocks' \in Seq(QueuedBlock)
      /\ Elements(blocks') \cup writer' \subseteq files'
      /\ \A c \in Elements(blocks') : c.index < nextIndex'
      /\ \A w \in writer' : w.index + 1 = nextIndex' /\ \A c \in Elements(blocks') : c.index < w.index
      /\ currentBytes' = Bytes(Elements(blocks')) /\ currentBytes' \in Nat /\ faults' \in Nat
  BY <1>1, DropKept
<1>3. Head(blocks) \in QueuedBlock BY <1>1, TailInOrder DEF QueueInv, TypeOK
<1>4. evicted' \subseteq Blocks BY <1>1, <1>3 DEF QueueInv, TypeOK, QueuedBlock
<1>5. TypeOK' BY <1>1, <1>2, <1>4 DEF QueueInv, TypeOK, Indexed
<1> QED BY <1>1, <1>2, <1>5 DEF QueueInv

\* A pop keeps it: if the queue was too long it had one block.
LEMMA PopKept ==
  ASSUME QueueInv, pop
  PROVE  QueueInv'
<1>1. /\ blocks # <<>> /\ remove_block_file(Head(blocks)) /\ blocks' = Tail(blocks)
      /\ currentBytes' = currentBytes - Size[Head(blocks).data]
      /\ writer = {} /\ UNCHANGED <<nextIndex, writer, status, evicted, crashes>>
  BY DEF pop
<1>2. /\ Indexed(files') /\ InOrder(blocks') /\ blocks' \in Seq(QueuedBlock)
      /\ Elements(blocks') \cup writer' \subseteq files'
      /\ \A c \in Elements(blocks') : c.index < nextIndex'
      /\ \A w \in writer' : w.index + 1 = nextIndex' /\ \A c \in Elements(blocks') : c.index < w.index
      /\ currentBytes' = Bytes(Elements(blocks')) /\ currentBytes' \in Nat /\ faults' \in Nat
      /\ currentBytes' <= currentBytes
  BY <1>1, DropKept
<1>3. TypeOK' BY <1>1, <1>2 DEF QueueInv, TypeOK, Indexed
<1>4. ~Over(currentBytes')
  <2> SUFFICES ASSUME Over(currentBytes') PROVE FALSE OBVIOUS
  <2>1. MaxBytes \in Nat /\ currentBytes \in Nat BY PersistentQueueAssumption DEF QueueInv, TypeOK
  <2>2. Over(currentBytes) BY <1>2, <2>1 DEF Over
  <2>3. Len(blocks) = 1 BY <1>1, <2>2 DEF QueueInv
  <2>4. blocks' = <<>> BY <1>1, <2>3 DEF QueueInv, TypeOK
  <2>5. Elements(blocks') = {} BY <2>4 DEF Elements
  <2>6. currentBytes' = 0 BY <1>2, <2>5, BytesEmpty
  <2> QED BY <2>1, <2>6 DEF Over
<1> QED BY <1>1, <1>2, <1>3, <1>4 DEF QueueInv

\* The append keeps it: only a block that is alone may be too long.
LEMMA PushBackKept ==
  ASSUME QueueInv, NEW b \in writer, PushBack(b)
  PROVE  QueueInv'
<1>1. /\ currentBytes' = currentBytes + Size[b.data] /\ blocks' = Append(blocks, b) /\ writer' = {}
      /\ TooMuch(b) => blocks = <<>>
      /\ UNCHANGED <<files, nextIndex, status, evicted, faults, crashes>>
  BY DEF PushBack
<1>2. /\ blocks \in Seq(QueuedBlock) /\ InOrder(blocks) /\ b \in QueuedBlock /\ b \in files
      /\ \A c \in Elements(blocks) : c.index < b.index
  BY DEF QueueInv, TypeOK
<1>3. /\ blocks' \in Seq(QueuedBlock) /\ InOrder(blocks') /\ Elements(blocks') = Elements(blocks) \cup {b}
      /\ Len(blocks') = Len(blocks) + 1
  BY <1>1, <1>2, AppendInOrder
<1>4. b.index \in Nat /\ b.index + 1 = nextIndex /\ nextIndex \in Nat BY <1>2 DEF QueueInv, TypeOK, QueuedBlock
<1>5. \A c \in Elements(blocks') : c \in files' /\ c.index < nextIndex'
  BY <1>1, <1>2, <1>3, <1>4 DEF QueueInv
<1>6. Indexed(Elements(blocks))
  <2>1. Elements(blocks) \in SUBSET files BY DEF QueueInv
  <2> QED BY <2>1, IndexedPart DEF QueueInv
<1>7. b \notin Elements(blocks) BY <1>2, <1>4
<1>8. currentBytes' = Bytes(Elements(blocks'))
  <2>1. IsFiniteSet(BytePositions(Elements(blocks))) BY <1>6, BytesFinite
  <2>2. Bytes(Elements(blocks) \cup {b}) = Bytes(Elements(blocks)) + Size[b.data]
    BY <1>2, <1>6, <1>7, <2>1, BytesAdd
  <2> QED BY <1>1, <1>3, <2>2 DEF QueueInv
<1>9. currentBytes' \in Nat
  <2>1. Size[b.data] \in Nat BY <1>2, PersistentQueueAssumption DEF QueuedBlock
  <2> QED BY <1>1, <2>1 DEF QueueInv, TypeOK
<1>10. Over(currentBytes') => Len(blocks') = 1
  <2> SUFFICES ASSUME Over(currentBytes') PROVE Len(blocks') = 1 OBVIOUS
  <2>1. blocks = <<>> BY <1>1 DEF TooMuch
  <2> QED BY <1>3, <2>1
<1>11. TypeOK' BY <1>1, <1>3, <1>9 DEF QueueInv, TypeOK
<1> QED BY <1>1, <1>3, <1>5, <1>8, <1>10, <1>11 DEF QueueInv

\* An open keeps it, whichever files it cannot read or remove.
LEMMA OpenKept ==
  ASSUME QueueInv, NEW bad \in SUBSET files, NEW stay \in SUBSET files, open(bad, stay)
  PROVE  QueueInv'
<1> DEFINE found == files \ bad
           surplus == Surplus(found)
           kept == found \ surplus
<1>1. /\ stay \subseteq surplus /\ files' = files \ (surplus \ stay) /\ blocks' = Replayed(kept)
      /\ currentBytes' = Bytes(kept) /\ nextIndex' = IndexAfter(found)
      /\ evicted' = evicted \cup {b.data : b \in surplus}
      /\ writer' = {} /\ status' = "open" /\ crashes' = crashes
      /\ faults' = faults + Cardinality(bad) + Cardinality(stay)
  BY DEF open
<1>2. Indexed(files) /\ IsFiniteSet(bad) /\ IsFiniteSet(stay) BY FS_Subset DEF QueueInv, Indexed
<1>3. Indexed(found) BY <1>2, IndexedPart
<1>4. surplus \in SUBSET found /\ ~Over(Bytes(kept)) BY <1>3, SurplusFits
<1> HIDE DEF found, surplus
<1>5. found \in SUBSET files BY DEF found
<1>6. Indexed(files') BY <1>1, <1>2, IndexedPart
<1>7. Indexed(kept) BY <1>3, IndexedPart
<1>8. blocks' = ByIndex(kept) BY <1>1 DEF Replayed
<1>9. Elements(blocks') = kept /\ blocks' \in Seq(QueuedBlock) /\ InOrder(blocks')
  <2>1. Elements(ByIndex(kept)) = kept /\ ByIndex(kept) \in Seq(QueuedBlock) /\ DOMAIN ByIndex(kept) = 1..Cardinality(kept)
    BY <1>7, ByIndexElements
  <2>2. \A i, j \in 1..Cardinality(kept) : i < j => ByIndex(kept)[i].index < ByIndex(kept)[j].index
    BY <1>7, ByIndexSorts
  <2> QED BY <1>8, <2>1, <2>2 DEF InOrder
<1>10. nextIndex' \in Nat /\ \A b \in found : b.index < nextIndex'
  <2>1. CASE found = {} BY <1>1, <2>1 DEF IndexAfter
  <2>2. CASE found # {}
    <3>1. LastOf(found) \in found /\ \A c \in found : c.index <= LastOf(found).index BY <1>3, <2>2, LastIsLast
    <3>2. \A c \in found : c.index \in Nat BY <1>3 DEF Indexed, QueuedBlock
    <3>3. nextIndex' = LastOf(found).index + 1 BY <1>1, <2>2 DEF IndexAfter
    <3> QED BY <3>1, <3>2, <3>3
  <2> QED BY <2>1, <2>2
<1>11. kept \subseteq files' BY <1>1, <1>5
<1>12. currentBytes' \in Nat BY <1>1, <1>7, BytesFinite
<1>13. faults' \in Nat
  <2>1. Cardinality(bad) \in Nat /\ Cardinality(stay) \in Nat BY <1>2, FS_CardinalityType
  <2> QED BY <1>1, <2>1 DEF QueueInv, TypeOK
<1>14. evicted' \subseteq Blocks
  <2>1. \A b \in surplus : b.data \in Blocks BY <1>3, <1>4 DEF Indexed, QueuedBlock
  <2> QED BY <1>1, <2>1 DEF QueueInv, TypeOK
<1>15. TypeOK' BY <1>1, <1>6, <1>9, <1>10, <1>12, <1>13, <1>14 DEF QueueInv, TypeOK, Indexed
<1>16. \A b \in Elements(blocks') : b.index < nextIndex' BY <1>9, <1>10
<1> QED BY <1>1, <1>4, <1>6, <1>9, <1>11, <1>15, <1>16 DEF QueueInv

\* Every step keeps the invariant, and so does one that changes nothing of the queue.
LEMMA QueueInvKept == QueueInv /\ [Next]_vars => QueueInv'
<1> SUFFICES ASSUME QueueInv, [Next]_vars PROVE QueueInv' OBVIOUS
<1>1. ASSUME UNCHANGED <<files, blocks, currentBytes, nextIndex, writer, evicted>>,
             status' \in {"open", "closed", "down"}, faults' \in Nat, crashes' \in Nat
      PROVE  QueueInv'
  BY <1>1 DEF QueueInv, TypeOK, InOrder, Elements, Indexed, Bytes, BytePositions
<1>2. status \in {"open", "closed", "down"} /\ faults \in Nat /\ crashes \in Nat BY DEF QueueInv, TypeOK
<1>3. CASE UNCHANGED vars BY <1>1, <1>2, <1>3 DEF vars
<1>4. ASSUME NEW d \in Blocks, write_block_file(d) PROVE QueueInv' BY <1>4, WriteKept
<1>5. ASSUME NEW d \in Blocks, PushFails(d) PROVE QueueInv' BY <1>1, <1>2, <1>5 DEF PushFails, Fault
<1>6. ASSUME NEW b \in writer, PushEvict(b) PROVE QueueInv' BY <1>6, EvictKept
<1>7. ASSUME NEW b \in writer, PushBack(b) PROVE QueueInv' BY <1>7, PushBackKept
<1>8. CASE pop BY <1>8, PopKept
<1>9. CASE PopNone BY <1>1, <1>2, <1>9 DEF PopNone, vars
<1>10. CASE close BY <1>1, <1>2, <1>10 DEF close
<1>11. CASE Crash BY <1>1, <1>2, <1>11 DEF Crash
<1>12. ASSUME NEW bad \in SUBSET files, NEW stay \in SUBSET files, open(bad, stay) PROVE QueueInv'
  BY <1>12, OpenKept
<1> QED BY <1>3, <1>4, <1>5, <1>6, <1>7, <1>8, <1>9, <1>10, <1>11, <1>12 DEF Next

\* The empty queue has it.
LEMMA QueueInvInit == Init => QueueInv
<1> SUFFICES ASSUME Init PROVE QueueInv OBVIOUS
<1>1. Elements(blocks) = {} BY DEF Init, Elements
<1>2. Bytes(Elements(blocks)) = 0 BY <1>1, BytesEmpty
<1>3. Indexed(files) BY FS_EmptySet DEF Init, Indexed
<1>4. TypeOK BY DEF Init, TypeOK
<1>5. ~Over(currentBytes) BY PersistentQueueAssumption DEF Init, Over
<1>6. InOrder(blocks) BY DEF Init, InOrder
<1> QED BY <1>1, <1>2, <1>3, <1>4, <1>5, <1>6 DEF Init, QueueInv

\* The invariant implies what is stated of the queue.
LEMMA QueueInvSound == QueueInv => QueueSound
<1> SUFFICES ASSUME QueueInv PROVE QueueSound OBVIOUS
<1>1. \A i \in DOMAIN blocks : blocks[i] \in Elements(blocks) BY DEF Elements
<1>2. QueueOnDisk BY <1>1 DEF QueueInv, QueueOnDisk, InOrder
<1>3. BytesAccounted BY DEF QueueInv, BytesAccounted
<1> QED BY <1>2, <1>3 DEF QueueInv, QueueSound

\* Though writes, removals and reads of files fail and the process dies anywhere, the byte count
\* is that of the queued blocks, the limit is kept but for a single block, and the queued blocks
\* have their files in the order of their indices (push, pop, open of PersistentQueue).
THEOREM QueueStaysSound == Spec => []QueueSound
<1>1. Spec => []QueueInv BY QueueInvInit, QueueInvKept, PTL DEF Spec
<1> QED BY <1>1, QueueInvSound, PTL

----------------------------------------------------------------------------
(* The durable FIFO, where only writes may fail.                           *)

\* The files are those of the queued blocks and of the push under way, also while the queue is
\* closed or the process is down.
DurableInv == QueueInv /\ files = Elements(blocks) \cup writer

\* What the files hold is a sequence of blocks, as long as there are files.
LEMMA FileOrderSeq ==
  ASSUME NEW S, Indexed(S)
  PROVE  /\ Cardinality(S) \in Nat /\ FileOrder(S) \in Seq(Blocks) /\ Len(FileOrder(S)) = Cardinality(S)
         /\ \A i \in 1..Cardinality(S) : FileOrder(S)[i] = ByIndex(S)[i].data
<1>1. Cardinality(S) \in Nat /\ \A i \in 1..Cardinality(S) : ByIndex(S)[i] \in S BY ByIndexSorts
<1>2. \A b \in S : b.data \in Blocks BY DEF Indexed, QueuedBlock
<1>3. \A i \in 1..Cardinality(S) : ByIndex(S)[i].data \in Blocks BY <1>1, <1>2
<1> QED BY <1>1, <1>3 DEF FileOrder

\* A new file with the last name adds its block at the end.
LEMMA FileOrderAdd ==
  ASSUME NEW S, Indexed(S), NEW b \in QueuedBlock, \A c \in S : c.index < b.index
  PROVE  FileOrder(S \cup {b}) = Append(FileOrder(S), b.data)
<1> DEFINE T == S \cup {b}
           n == Cardinality(S)
<1>1. /\ Indexed(T) /\ Cardinality(T) = n + 1 /\ ByIndex(T)[n + 1] = b
      /\ \A i \in 1..n : ByIndex(T)[i] = ByIndex(S)[i]
  BY ByIndexAdd
<1> HIDE DEF T
<1>2. n \in Nat /\ FileOrder(S) \in Seq(Blocks) /\ Len(FileOrder(S)) = n
      /\ \A i \in 1..n : FileOrder(S)[i] = ByIndex(S)[i].data
  BY FileOrderSeq
<1>3. FileOrder(T) \in Seq(Blocks) /\ Len(FileOrder(T)) = n + 1
      /\ \A i \in 1..(n + 1) : FileOrder(T)[i] = ByIndex(T)[i].data
  BY <1>1, FileOrderSeq
<1>4. b.data \in Blocks BY DEF QueuedBlock
<1> DEFINE q == Append(FileOrder(S), b.data)
<1>5. q \in Seq(Blocks) /\ Len(q) = n + 1 /\ q[n + 1] = b.data /\ \A i \in 1..n : q[i] = FileOrder(S)[i]
  BY <1>2, <1>4, AppendProperties
<1> HIDE DEF q, n
<1>6. \A i \in 1..(n + 1) : FileOrder(T)[i] = q[i]
  <2> SUFFICES ASSUME NEW i \in 1..(n + 1) PROVE FileOrder(T)[i] = q[i] OBVIOUS
  <2>1. i \in 1..n \/ i = n + 1 BY <1>2
  <2>2. FileOrder(T)[i] = ByIndex(T)[i].data BY <1>3
  <2>3. CASE i \in 1..n BY <1>1, <1>2, <1>5, <2>2, <2>3
  <2>4. CASE i = n + 1 BY <1>1, <1>5, <2>2, <2>4
  <2> QED BY <2>1, <2>3, <2>4
<1>7. FileOrder(T) = q BY <1>3, <1>5, <1>6, SeqEqual
<1> QED BY <1>7 DEF T, q

\* Without the oldest files it is without as many blocks at its head.
LEMMA FileOrderDrop ==
  ASSUME NEW S, Indexed(S), NEW D \in SUBSET S, \A b \in D, c \in S \ D : b.index < c.index
  PROVE  /\ FileOrder(S \ D) = SubSeq(FileOrder(S), Cardinality(D) + 1, Len(FileOrder(S)))
         /\ D # {} => Cardinality(D) \in 1..Len(FileOrder(S))
<1> DEFINE d == Cardinality(D)
           n == Cardinality(S)
           R == S \ D
           r == Cardinality(R)
<1>1. /\ d \in Nat /\ n \in Nat /\ d <= n /\ r = n - d
      /\ \A i \in 1..r : i + d \in 1..n /\ ByIndex(R)[i] = ByIndex(S)[i + d]
  BY ByIndexDrop
<1>2. FileOrder(S) \in Seq(Blocks) /\ Len(FileOrder(S)) = n
      /\ \A i \in 1..n : FileOrder(S)[i] = ByIndex(S)[i].data
  BY FileOrderSeq
<1>3. Indexed(R) BY IndexedPart
<1>4. r \in Nat /\ FileOrder(R) \in Seq(Blocks) /\ Len(FileOrder(R)) = r
      /\ \A i \in 1..r : FileOrder(R)[i] = ByIndex(R)[i].data
  BY <1>3, FileOrderSeq
<1>5. D # {} => d # 0 BY FS_Subset, FS_EmptySet DEF Indexed
<1> HIDE DEF d, n, R, r
<1> DEFINE q == FileOrder(S)
           t == SubSeq(q, d + 1, n)
<1> HIDE DEF q
<1>6. \A i \in d + 1 .. n : q[i] \in Blocks BY <1>1, <1>2 DEF q
<1>7. /\ t \in Seq(Blocks) /\ Len(t) = IF d + 1 <= n THEN n - (d + 1) + 1 ELSE 0
      /\ \A i \in 1..(n - (d + 1) + 1) : t[i] = q[(d + 1) + i - 1]
  BY <1>1, <1>6, SubSeqProperties
<1> HIDE DEF t
<1>8. Len(t) = r BY <1>1, <1>4, <1>7
<1>9. ASSUME NEW i \in 1..r PROVE FileOrder(R)[i] = t[i]
  <2>1. i \in 1..(n - (d + 1) + 1) /\ (d + 1) + i - 1 = i + d /\ i + d \in 1..n BY <1>1, <1>4
  <2>2. t[i] = q[i + d] BY <1>7, <2>1
  <2>3. q[i + d] = ByIndex(S)[i + d].data BY <1>2, <2>1 DEF q
  <2> QED BY <1>1, <1>4, <2>2, <2>3
<1>10. FileOrder(R) = t BY <1>4, <1>7, <1>8, <1>9, SeqEqual
<1>11. D # {} => d \in 1..n BY <1>1, <1>5
<1> QED BY <1>2, <1>10, <1>11 DEF t, q, R, d, n

\* The oldest file is removed: the others come after it.
LEMMA DropOldest ==
  ASSUME Faulty \subseteq {"write"}, DurableInv, blocks # <<>>, remove_block_file(Head(blocks)),
         blocks' = Tail(blocks), writer' = writer
  PROVE  /\ files' = files \ {Head(blocks)} /\ files' = Elements(blocks') \cup writer'
         /\ {Head(blocks)} \in SUBSET files
         /\ \A b \in {Head(blocks)}, c \in files \ {Head(blocks)} : b.index < c.index
<1> DEFINE old == Head(blocks)
<1>1. blocks \in Seq(QueuedBlock) /\ InOrder(blocks) BY DEF DurableInv, QueueInv, TypeOK
<1>2. /\ old \in QueuedBlock /\ old \in Elements(blocks)
      /\ Elements(blocks') = Elements(blocks) \ {old}
      /\ \A b \in Elements(blocks') : old.index < b.index
  BY <1>1, TailInOrder
<1>3. files' = files \ {old} BY DEF remove_block_file, Fault
<1> HIDE DEF old
<1>4. \A w \in writer : old.index < w.index BY <1>2 DEF DurableInv, QueueInv
<1>5. old.index \in Nat BY <1>2 DEF QueuedBlock
<1>6. old \notin writer BY <1>4, <1>5
<1>7. files' = Elements(blocks') \cup writer' BY <1>2, <1>3, <1>6 DEF DurableInv
<1>8. \A c \in files \ {old} : old.index < c.index BY <1>2, <1>4 DEF DurableInv
<1> QED BY <1>2, <1>3, <1>7, <1>8 DEF old, DurableInv

\* Every new file has the last name.
LEMMA WriteLast ==
  ASSUME DurableInv, NEW d \in Blocks, write_block_file(d)
  PROVE  LET b == [index |-> nextIndex, data |-> d]
         IN /\ b \in QueuedBlock /\ \A c \in files : c.index < b.index
            /\ files' = files \cup {b} /\ writer' = {b} /\ blocks' = blocks /\ writer = {}
<1> DEFINE b == [index |-> nextIndex, data |-> d]
<1>1. b \in QueuedBlock /\ b.index = nextIndex /\ nextIndex \in Nat
  BY DEF DurableInv, QueueInv, TypeOK, QueuedBlock
<1>2. files' = {f \in files : f.index # nextIndex} \cup {b} /\ writer' = {b} /\ writer = {} /\ blocks' = blocks
  BY DEF write_block_file
<1>3. \A c \in files : c.index < nextIndex /\ c.index \in Nat
  BY <1>2 DEF DurableInv, QueueInv, Indexed, QueuedBlock
<1>4. {f \in files : f.index # nextIndex} = files BY <1>1, <1>3
<1> QED BY <1>1, <1>2, <1>3, <1>4

\* An open drops the surplus and no other file.
LEMMA OpenDrops ==
  ASSUME Faulty \subseteq {"write"}, DurableInv, NEW bad \in SUBSET files, NEW stay \in SUBSET files,
         open(bad, stay)
  PROVE  /\ files' = files \ Surplus(files) /\ blocks' = ByIndex(files \ Surplus(files)) /\ writer' = {}
<1>1. bad = {} /\ stay = {} BY DEF open
<1>2. files \ bad = files BY <1>1
<1>3. files' = files \ (Surplus(files) \ stay) /\ blocks' = Replayed(files \ Surplus(files)) /\ writer' = {}
  BY <1>2 DEF open
<1> QED BY <1>1, <1>3 DEF Replayed

\* Every step keeps the files those of the queue and of the push under way.
LEMMA DurableInvKept ==
  ASSUME Faulty \subseteq {"write"}
  PROVE  DurableInv /\ [Next]_vars => DurableInv'
<1> SUFFICES ASSUME DurableInv, [Next]_vars PROVE DurableInv' OBVIOUS
<1>1. QueueInv' BY QueueInvKept DEF DurableInv
<1> SUFFICES files' = Elements(blocks') \cup writer'
  <2>1. (Elements(blocks))' = Elements(blocks') BY DEF Elements
  <2> QED BY <1>1, <2>1 DEF DurableInv
<1>2. ASSUME UNCHANGED <<files, blocks, writer>> PROVE files' = Elements(blocks') \cup writer'
  BY <1>2 DEF DurableInv
<1>3. CASE UNCHANGED vars BY <1>2, <1>3 DEF vars
<1>4. ASSUME NEW d \in Blocks, write_block_file(d) PROVE files' = Elements(blocks') \cup writer'
  BY <1>4, WriteLast DEF DurableInv
<1>5. ASSUME NEW d \in Blocks, PushFails(d) PROVE files' = Elements(blocks') \cup writer'
  BY <1>2, <1>5 DEF PushFails
<1>6. ASSUME NEW b \in writer, PushEvict(b) PROVE files' = Elements(blocks') \cup writer'
  BY <1>6, DropOldest DEF PushEvict
<1>7. ASSUME NEW b \in writer, PushBack(b) PROVE files' = Elements(blocks') \cup writer'
  <2>1. files' = files /\ blocks' = Append(blocks, b) /\ writer' = {} BY <1>7 DEF PushBack
  <2>2. blocks \in Seq(QueuedBlock) /\ InOrder(blocks) /\ b \in QueuedBlock
        /\ \A c \in Elements(blocks) : c.index < b.index
    BY DEF DurableInv, QueueInv, TypeOK
  <2>3. Elements(blocks') = Elements(blocks) \cup {b} BY <2>1, <2>2, AppendInOrder
  <2>4. writer = {b}
    <3>1. \A w \in writer : w \in files /\ w.index = b.index BY DEF DurableInv, QueueInv, TypeOK, QueuedBlock
    <3> QED BY <3>1 DEF DurableInv, QueueInv, Indexed
  <2> QED BY <2>1, <2>3, <2>4 DEF DurableInv
<1>8. CASE pop BY <1>8, DropOldest DEF pop
<1>9. CASE PopNone BY <1>2, <1>9 DEF PopNone, vars
<1>10. CASE close BY <1>2, <1>10 DEF close
<1>11. CASE Crash BY <1>2, <1>11 DEF Crash
<1>12. ASSUME NEW bad \in SUBSET files, NEW stay \in SUBSET files, open(bad, stay)
       PROVE  files' = Elements(blocks') \cup writer'
  <2>1. Indexed(files \ Surplus(files)) BY IndexedPart DEF DurableInv, QueueInv
  <2> QED BY <1>12, <2>1, OpenDrops, ByIndexElements
<1> QED BY <1>3, <1>4, <1>5, <1>6, <1>7, <1>8, <1>9, <1>10, <1>11, <1>12 DEF Next

\* A block more at the tail of what the files hold, some less at its head, or no change.
FifoMove ==
  \/ \E b \in Blocks : FileOrder(files)' = Append(FileOrder(files), b)
  \/ \E n \in 1..Len(FileOrder(files)) :
       FileOrder(files)' = SubSeq(FileOrder(files), n + 1, Len(FileOrder(files)))
  \/ UNCHANGED FileOrder(files)

\* Every step adds a block at the tail of the FIFO, takes some from its head, or leaves it.
LEMMA FifoStep ==
  ASSUME Faulty \subseteq {"write"}
  PROVE  DurableInv /\ [Next]_vars => FifoMove
<1> SUFFICES ASSUME DurableInv, [Next]_vars PROVE FifoMove OBVIOUS
<1>1. Indexed(files) BY DEF DurableInv, QueueInv
<1>2. ASSUME UNCHANGED files PROVE UNCHANGED FileOrder(files)
  BY <1>2 DEF FileOrder, ByIndex, UpTo
<1>3. ASSUME NEW D \in SUBSET files, files' = files \ D, \A b \in D, c \in files \ D : b.index < c.index
      PROVE  FifoMove
  <2>1. CASE D = {}
    <3>1. UNCHANGED files BY <1>3, <2>1
    <3> QED BY <1>2, <3>1 DEF FifoMove
  <2>2. CASE D # {}
    <3>1. /\ FileOrder(files \ D) = SubSeq(FileOrder(files), Cardinality(D) + 1, Len(FileOrder(files)))
          /\ Cardinality(D) \in 1..Len(FileOrder(files))
      BY <1>1, <1>3, <2>2, FileOrderDrop
    <3>2. FileOrder(files)' = FileOrder(files \ D) BY <1>3 DEF FileOrder, ByIndex, UpTo
    <3> QED BY <3>1, <3>2 DEF FifoMove
  <2> QED BY <2>1, <2>2
<1>4. CASE UNCHANGED vars BY <1>2, <1>4 DEF FifoMove, vars
<1>5. ASSUME NEW d \in Blocks, write_block_file(d) PROVE FifoMove
  <2> DEFINE b == [index |-> nextIndex, data |-> d]
  <2>1. b \in QueuedBlock /\ (\A c \in files : c.index < b.index) /\ files' = files \cup {b} BY <1>5, WriteLast
  <2>2. b.data = d OBVIOUS
  <2> HIDE DEF b
  <2>3. FileOrder(files \cup {b}) = Append(FileOrder(files), d) BY <1>1, <2>1, <2>2, FileOrderAdd
  <2>4. FileOrder(files)' = FileOrder(files \cup {b}) BY <2>1 DEF FileOrder, ByIndex, UpTo
  <2> QED BY <2>3, <2>4 DEF FifoMove
<1>6. ASSUME NEW d \in Blocks, PushFails(d) PROVE FifoMove
  BY <1>2, <1>6 DEF FifoMove, PushFails
<1>7. ASSUME NEW b \in writer, PushEvict(b) PROVE FifoMove
  BY <1>3, <1>7, DropOldest DEF PushEvict
<1>8. ASSUME NEW b \in writer, PushBack(b) PROVE FifoMove BY <1>2, <1>8 DEF FifoMove, PushBack
<1>9. CASE pop BY <1>3, <1>9, DropOldest DEF pop
<1>10. CASE PopNone BY <1>2, <1>10 DEF FifoMove, PopNone, vars
<1>11. CASE close BY <1>2, <1>11 DEF FifoMove, close
<1>12. CASE Crash BY <1>2, <1>12 DEF FifoMove, Crash
<1>13. ASSUME NEW bad \in SUBSET files, NEW stay \in SUBSET files, open(bad, stay)
       PROVE  FifoMove
  <2>1. files' = files \ Surplus(files) BY <1>13, OpenDrops
  <2>2. Surplus(files) \in SUBSET files /\ \A b \in Surplus(files), c \in files \ Surplus(files) : b.index < c.index
    BY <1>1, SurplusFits
  <2> QED BY <1>3, <2>1, <2>2
<1> QED BY <1>4, <1>5, <1>6, <1>7, <1>8, <1>9, <1>10, <1>11, <1>12, <1>13 DEF Next

\* No file has the name that a push renames its temporary file to.
LEMMA RenameStep ==
  DurableInv /\ [Next]_vars => (writer = {} /\ writer' # {} => \A f \in files : f.index # nextIndex)
<1> SUFFICES ASSUME DurableInv, writer = {} PROVE \A f \in files : f.index # nextIndex OBVIOUS
<1>1. \A c \in files : c.index < nextIndex /\ c.index \in Nat
  BY DEF DurableInv, QueueInv, Indexed, QueuedBlock
<1> QED BY <1>1

\* If every block fits, an open after a crash between two pushes finds nothing to drop.
LEMMA SurviveStep ==
  ASSUME Faulty \subseteq {"write"}
  PROVE  DurableInv /\ (\A b \in files : ~Over(Size[b.data])) /\ [Next]_vars =>
           (status = "down" /\ status' = "open" /\ writer = {} => files' = files)
<1> SUFFICES ASSUME DurableInv, \A b \in files : ~Over(Size[b.data]), [Next]_vars,
                    status = "down", status' = "open", writer = {}
             PROVE  files' = files
  OBVIOUS
<1>1. PICK bad \in SUBSET files : \E stay \in SUBSET files : open(bad, stay)
  BY DEF Next, vars, write_block_file, PushFails, PushEvict, PushBack, pop, PopNone, close, Crash
<1>2. files' = files \ Surplus(files) BY <1>1, OpenDrops
<1>3. Indexed(files) /\ files = Elements(blocks) /\ currentBytes = Bytes(files) /\ blocks \in Seq(QueuedBlock)
  BY DEF DurableInv, QueueInv, TypeOK
<1>4. ~Over(Bytes(files))
  <2> SUFFICES ASSUME Over(Bytes(files)) PROVE FALSE OBVIOUS
  <2>1. Len(blocks) = 1 BY <1>3 DEF DurableInv, QueueInv
  <2> DEFINE b == blocks[1]
  <2>2. DOMAIN blocks = {1} BY <1>3, <2>1
  <2>3. files = {b} BY <1>3, <2>2 DEF Elements
  <2> HIDE DEF b
  <2>4. Bytes(files) = Size[b.data]
    <3>1. files \ {b} = {} /\ b \in files BY <2>3
    <3> DEFINE n == Size[b.data]
    <3>2. Bytes({}) = Bytes(files) - n BY <1>3, <3>1, BytesRemove
    <3>3. n \in Nat BY <1>3, <3>1, PersistentQueueAssumption DEF Indexed, QueuedBlock
    <3> HIDE DEF n
    <3>4. Bytes(files) \in Nat BY <1>3, BytesFinite
    <3>5. Bytes(files) = n BY <3>2, <3>3, <3>4, BytesEmpty
    <3> QED BY <3>5 DEF n
  <2> QED BY <2>3, <2>4
<1>5. Surplus(files) = {} BY <1>3, <1>4, SurplusFits
<1> QED BY <1>2, <1>5

\* The empty queue has no file.
LEMMA DurableInvInit == Init => DurableInv
<1> SUFFICES ASSUME Init PROVE DurableInv OBVIOUS
<1>1. Elements(blocks) = {} BY DEF Init, Elements
<1> QED BY <1>1, QueueInvInit DEF Init, DurableInv

\* ... and is the empty FIFO.
LEMMA FifoInit == Init => FileOrder(files) = <<>>
<1> SUFFICES ASSUME Init PROVE FileOrder(files) = <<>> OBVIOUS
<1>1. Indexed(files) /\ Cardinality(files) = 0 BY QueueInvInit, FS_EmptySet DEF QueueInv, Init
<1>2. FileOrder(files) \in Seq(Blocks) /\ Len(FileOrder(files)) = 0 BY <1>1, FileOrderSeq
<1> HIDE DEF FileOrder
<1> QED BY <1>2

\* Where only writes fail, the block files are a FIFO through every push, pop, eviction, crash and
\* restart, a push never renames over a block file, and, if no block is longer than max_bytes, a
\* block whose push returned Ok is replayed by the open after a crash (push, pop, open).
THEOREM FilesAreDurableFifo ==
  ASSUME Faulty \subseteq {"write"}
  PROVE  /\ Spec => ImplementsDurableFifo
         /\ Spec => RenameTargetAbsent
         /\ (\A d \in Blocks : ~Over(Size[d])) => (Spec => PushSurvivesCrash)
<1>1. Spec => []DurableInv BY DurableInvInit, DurableInvKept, PTL DEF Spec
<1>2. Spec => ImplementsDurableFifo
  <2>1. Init => Fifo!Init BY FifoInit DEF Fifo!Init
  <2>2. DurableInv /\ [Next]_vars => [Fifo!Next]_(FileOrder(files))
    BY FifoStep DEF FifoMove, Fifo!Next, Fifo!Put, Fifo!Take
  <2> QED BY <1>1, <2>1, <2>2, PTL DEF Spec, ImplementsDurableFifo, Fifo!Spec
<1>3. Spec => RenameTargetAbsent
  BY <1>1, RenameStep, PTL DEF Spec, RenameTargetAbsent
<1>4. ASSUME \A d \in Blocks : ~Over(Size[d]) PROVE Spec => PushSurvivesCrash
  <2>1. DurableInv => \A b \in files : ~Over(Size[b.data])
    BY <1>4 DEF DurableInv, QueueInv, Indexed, QueuedBlock
  <2>2. DurableInv /\ [Next]_vars => (status = "down" /\ status' = "open" /\ writer = {} => files' = files)
    BY <2>1, SurviveStep
  <2> QED BY <1>1, <2>2, PTL DEF Spec, PushSurvivesCrash
<1> QED BY <1>2, <1>3, <1>4
=============================================================================
