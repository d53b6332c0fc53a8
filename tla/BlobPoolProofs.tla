--------------------------- MODULE BlobPoolProofs ---------------------------
(***************************************************************************)
(* BlobPool's reference counts and free lists are right for any number of  *)
(* blocks, classes, references and sweeping tasks.                         *)
(***************************************************************************)
EXTENDS BlobPool, FiniteSetTheorems, SequenceTheorems, TLAPS

\* A reference names a block exactly while it is somewhere in its life.
Named == \A r \in Refs : pc[r] = "none" <=> blk[r] = NoBlob

\* The inductive invariant.
IInv == TypeOK /\ Named /\ RefsCounted /\ OnePlace

-----------------------------------------------------------------------------
\* An enumeration of a finite set is a sequence without repetition of all of it.
LEMMA ListingProperties ==
  ASSUME NEW S, IsFiniteSet(S)
  PROVE  /\ Listing(S) \in Seq(S)
         /\ \A x \in S : \E i \in DOMAIN Listing(S) : Listing(S)[i] = x
         /\ \A i, j \in DOMAIN Listing(S) : Listing(S)[i] = Listing(S)[j] => i = j
<1> DEFINE n == Cardinality(S)
           L == Listing(S)
<1>1. n \in Nat /\ ExistsBijection(1..n, S)
  BY FS_CardinalityType
<1>2. \E q \in [1..n -> S] : \A x \in S : \E i \in DOMAIN q : q[i] = x
  BY <1>1 DEF ExistsBijection, Bijection, Surjection
<1>3. L \in [1..n -> S] /\ \A x \in S : \E i \in DOMAIN L : L[i] = x
  BY <1>2 DEF Listing
<1>4. L \in Surjection(1..n, S)
  BY <1>3 DEF Surjection
<1>5. IsFiniteSet(1..n) /\ Cardinality(1..n) = n
  BY <1>1, FS_Interval
<1>6. L \in Injection(1..n, S)
  BY <1>4, <1>5, FS_SurjSameCardinalityImpliesInj
<1>7. \A i, j \in 1..n : L[i] = L[j] => i = j
  BY <1>6 DEF Injection, IsInjective
<1>8. L \in Seq(S) /\ DOMAIN L = 1..n
  BY <1>1, <1>3
<1> HIDE DEF L
<1> QED  BY <1>3, <1>7, <1>8 DEF L

\* No reference exists yet and every block is on the list of its class.
LEMMA InitIInv == Init => IInv
<1> SUFFICES ASSUME Init PROVE IInv
  OBVIOUS
<1> USE PoolAssumption DEF Init
<1> DEFINE Members(c) == {b \in Blobs : ClassOf[b] = c}
<1>1. ASSUME NEW c \in Classes
      PROVE  /\ free[c] \in Seq(Blobs)
             /\ \A i \in DOMAIN free[c] : ClassOf[free[c][i]] = c
             /\ \A i, j \in DOMAIN free[c] : free[c][i] = free[c][j] => i = j
             /\ \A b \in Members(c) : \E i \in DOMAIN free[c] : free[c][i] = b
  <2>1. PICK M \in SUBSET Blobs : M = Members(c)
    OBVIOUS
  <2>2. IsFiniteSet(M)
    BY FS_Subset
  <2>3. free[c] = Listing(M)
    BY <2>1
  <2> HIDE DEF Init, Members
  <2>4. /\ free[c] \in Seq(M)
        /\ \A x \in M : \E i \in DOMAIN free[c] : free[c][i] = x
        /\ \A i, j \in DOMAIN free[c] : free[c][i] = free[c][j] => i = j
    BY <2>2, <2>3, ListingProperties
  <2>5. \A i \in DOMAIN free[c] : free[c][i] \in M
    BY <2>4
  <2>6. free[c] \in Seq(Blobs)
    BY <2>4, SeqMonotonic
  <2> QED  BY <2>1, <2>4, <2>5, <2>6 DEF Members
<1>2. TypeOK
  <2>1. free \in [Classes -> Seq(Blobs)]
    BY <1>1
  <2> QED  BY <2>1 DEF TypeOK, Step, NoSweep
<1>3. Named
  BY DEF Named
<1>4. \A b \in Blobs : Counting(b) = {} /\ Moving(b) = {}
  BY DEF Counting, Moving
<1>5. RefsCounted
  BY <1>4, FS_EmptySet DEF RefsCounted
<1>6. \A b \in Blobs : OnList(b)
  <2> TAKE b \in Blobs
  <2> HIDE DEF Init
  <2>1. ClassOf[b] \in Classes /\ b \in Members(ClassOf[b])
    OBVIOUS
  <2> HIDE DEF Members
  <2> QED  BY <1>1, <2>1 DEF OnList
<1>7. OnePlace
  BY <1>1, <1>4, <1>6 DEF OnePlace
<1> QED  BY <1>2, <1>3, <1>5, <1>7 DEF IInv

-----------------------------------------------------------------------------
\* A step that moves no reference and touches no list or count keeps the rest.
LEMMA FramedStep ==
  ASSUME IInv, TypeOK', UNCHANGED <<free, refs, pc, blk>>
  PROVE  IInv'
BY DEF IInv, Named, RefsCounted, OnePlace, Counting, Moving, OnList

LEMMA AllocPopStep ==
  ASSUME IInv, NEW r \in Refs, NEW c \in Classes, AllocPop(r, c)
  PROVE  IInv'
<1> USE PoolAssumption
<1>0. free[c] \in Seq(Blobs) /\ free[c] # <<>>
  BY DEF AllocPop, IInv, TypeOK
<1>a. PICK n \in Nat \ {0} : n = Len(free[c])
  BY <1>0
<1>b. PICK x \in Blobs : x = free[c][n]
  BY <1>0, <1>a
<1>1. x \in Blobs /\ ClassOf[x] = c /\ DOMAIN free[c] = 1..n
  BY <1>0, <1>a, <1>b DEF IInv, OnePlace
<1>2. /\ free'[c] \in Seq(Blobs)
      /\ DOMAIN free'[c] = 1..(n-1)
      /\ \A i \in 1..(n-1) : free'[c][i] = free[c][i]
  <2>1. free'[c] = SubSeq(free[c], 1, n - 1)
    BY <1>a DEF AllocPop, IInv, TypeOK
  <2>2. \A i \in 1..(n-1) : free[c][i] \in Blobs
    BY <1>0, <1>1
  <2> QED  BY <2>1, <2>2, SubSeqProperties, LenProperties
<1>3. \A d \in Classes : d # c => free'[d] = free[d]
  BY DEF AllocPop, IInv, TypeOK
<1>4. TypeOK'
  <2>1. free' \in [Classes -> Seq(Blobs)]
    BY <1>2, <1>3 DEF AllocPop, IInv, TypeOK
  <2> QED  BY <1>a, <1>b, <2>1 DEF AllocPop, IInv, TypeOK, Step
<1>5. blk'[r] = x /\ pc'[r] = "popped" /\ pc[r] = "none" /\ blk[r] = NoBlob
      /\ \A q \in Refs : q # r => blk'[q] = blk[q] /\ pc'[q] = pc[q]
  BY <1>a, <1>b DEF AllocPop, IInv, TypeOK, Named
<1>6. Named'
  BY <1>1, <1>5 DEF Named, IInv
<1>7. \A b \in Blobs : Counting(b)' = Counting(b)
  BY <1>5 DEF Counting
<1>8. RefsCounted'
  BY <1>7 DEF RefsCounted, AllocPop, IInv
<1>9. OnePlace'
  <2>1. OnList(x) /\ Moving(x) = {} /\ Counting(x) = {}
    BY <1>a, <1>b, <1>1 DEF IInv, OnePlace, OnList
  <2>2. Moving(x)' = {r}
    BY <1>1, <1>5, <2>1 DEF Moving
  <2>3. \A b \in Blobs : b # x => Moving(b)' = Moving(b)
    BY <1>1, <1>5 DEF Moving
  <2>4. ~OnList(x)'
    BY <1>a, <1>b, <1>1, <1>2 DEF OnList, IInv, OnePlace
  <2>5. \A b \in Blobs : b # x => (OnList(b)' <=> OnList(b))
    <3> TAKE b \in Blobs
    <3> HAVE b # x
    <3>1. CASE ClassOf[b] = c
      BY <1>b, <1>1, <1>2, <3>1 DEF OnList
    <3>2. CASE ClassOf[b] # c
      BY <1>3, <3>2 DEF OnList
    <3> QED  BY <3>1, <3>2
  <2>6. \A d \in Classes : /\ DOMAIN free'[d] \subseteq DOMAIN free[d]
                           /\ \A i \in DOMAIN free'[d] : free'[d][i] = free[d][i]
    BY <1>1, <1>2, <1>3
  <2> QED  BY <1>1, <1>7, <2>1, <2>2, <2>3, <2>4, <2>5, <2>6 DEF OnePlace, IInv
<1> QED  BY <1>4, <1>6, <1>8, <1>9 DEF IInv

\* Storing the first count turns a block in motion into a counted one.
LEMMA AllocStoreStep ==
  ASSUME IInv, NEW r \in Refs, AllocStore(r)
  PROVE  IInv'
<1> USE PoolAssumption
<1>0. PICK x \in Blobs : x = blk[r]
  BY DEF AllocStore, IInv, TypeOK, Named
<1>1. r \in Moving(x)
  BY <1>0 DEF AllocStore, IInv, TypeOK, Named, Moving
<1>2. TypeOK'
  BY <1>0, <1>1 DEF AllocStore, IInv, TypeOK, Step
<1>3. blk' = blk /\ free' = free /\ pc'[r] = "stored"
      /\ \A q \in Refs : q # r => pc'[q] = pc[q]
  BY DEF AllocStore, IInv, TypeOK
<1>4. Named'
  BY <1>0, <1>1, <1>3 DEF Named, IInv
<1>5. Moving(x) = {r} /\ Counting(x) = {} /\ ~OnList(x)
  BY <1>0, <1>1 DEF IInv, OnePlace
<1>6. Moving(x)' = {} /\ Counting(x)' = {r}
  BY <1>0, <1>1, <1>3, <1>5 DEF Moving, Counting
<1>7. \A b \in Blobs : b # x => Moving(b)' = Moving(b) /\ Counting(b)' = Counting(b)
  BY <1>0, <1>3 DEF Moving, Counting
<1>a. \A b \in Blobs : OnList(b)' <=> OnList(b)
  BY <1>3 DEF OnList
<1>8. RefsCounted'
  <2>1. refs'[x] = 1 /\ \A b \in Blobs : b # x => refs'[b] = refs[b]
    BY <1>0, <1>1 DEF AllocStore, IInv, TypeOK
  <2> QED  BY <1>6, <1>7, <2>1, FS_Singleton DEF RefsCounted, IInv
<1>9. OnePlace'
  BY <1>3, <1>5, <1>6, <1>7, <1>a DEF OnePlace, IInv
<1> QED  BY <1>2, <1>4, <1>8, <1>9 DEF IInv

LEMMA AllocStampStep ==
  ASSUME IInv, NEW r \in Refs, AllocStamp(r)
  PROVE  IInv'
<1> USE PoolAssumption
<1>1. TypeOK'
  <2>0. clock \in Nat /\ clock \in Int /\ stamp \in [Blobs -> Nat] /\ born \in [Blobs -> Int]
    BY DEF IInv, TypeOK
  <2>1. stamp' \in [Blobs -> Nat] /\ born' \in [Blobs -> Int]
    BY <2>0 DEF AllocStamp
  <2> QED  BY <2>1 DEF AllocStamp, IInv, TypeOK, Step
<1>2. blk' = blk /\ free' = free /\ refs' = refs /\ pc[r] = "stored" /\ pc'[r] = "held"
      /\ \A q \in Refs : q # r => pc'[q] = pc[q]
  BY DEF AllocStamp, IInv, TypeOK
<1>3. \A b \in Blobs : Moving(b)' = Moving(b) /\ Counting(b)' = Counting(b)
                       /\ (OnList(b)' <=> OnList(b))
  BY <1>2 DEF Moving, Counting, OnList
<1> QED  BY <1>1, <1>2, <1>3 DEF IInv, Named, RefsCounted, OnePlace

LEMMA RetainStep ==
  ASSUME IInv, NEW r \in Refs, NEW new \in Refs, Retain(r, new)
  PROVE  IInv'
<1> USE PoolAssumption
<1>0. PICK x \in Blobs : x = blk[r]
  BY DEF Retain, IInv, TypeOK, Named
<1>1. r \in Counting(x) /\ new \notin Counting(x)
  BY <1>0 DEF Retain, IInv, TypeOK, Named, Counting
<1>2. TypeOK'
  BY <1>0, <1>1 DEF Retain, IInv, TypeOK, Step
<1>3. /\ free' = free /\ pc[new] = "none" /\ pc'[new] = "held" /\ blk'[new] = x
      /\ blk[new] = NoBlob /\ \A q \in Refs : q # new => pc'[q] = pc[q] /\ blk'[q] = blk[q]
  BY <1>0 DEF Retain, IInv, TypeOK, Named
<1>4. Named'
  BY <1>0, <1>1, <1>3 DEF Named, IInv
<1>5. Counting(x)' = Counting(x) \cup {new}
  BY <1>0, <1>1, <1>3 DEF Counting
<1>6. \A b \in Blobs : /\ b # x => Counting(b)' = Counting(b)
                       /\ Moving(b)' = Moving(b)
                       /\ (OnList(b)' <=> OnList(b))
  BY <1>0, <1>1, <1>3 DEF Counting, Moving, OnList
<1>7. RefsCounted'
  <2>1. refs'[x] = refs[x] + 1 /\ \A b \in Blobs : b # x => refs'[b] = refs[b]
    BY <1>0, <1>1 DEF Retain, IInv, TypeOK
  <2>2. IsFiniteSet(Counting(x))
    BY FS_Subset DEF Counting
  <2>3. Cardinality(Counting(x) \cup {new}) = Cardinality(Counting(x)) + 1
    BY <1>0, <1>1, <2>2, FS_AddElement
  <2> QED  BY <1>0, <1>1, <1>5, <1>6, <2>1, <2>3 DEF RefsCounted, IInv
<1>8. OnePlace'
  BY <1>0, <1>1, <1>3, <1>5, <1>6 DEF OnePlace, IInv
<1> QED  BY <1>2, <1>4, <1>7, <1>8 DEF IInv

\* The decrement that reaches zero is the only reference left, and it alone
\* goes on to free the block.
LEMMA DecrementStep ==
  ASSUME IInv, NEW r \in Refs, Decrement(r)
  PROVE  IInv'
<1> USE PoolAssumption
<1>0. PICK x \in Blobs : x = blk[r]
  BY DEF Decrement, IInv, TypeOK, Named
<1>1. r \in Counting(x)
  BY <1>0 DEF Decrement, IInv, TypeOK, Named, Counting
<1>2. IsFiniteSet(Counting(x))
  BY FS_Subset DEF Counting
<1>3. /\ refs[x] = Cardinality(Counting(x)) /\ refs[x] \in Nat \ {0}
      /\ Cardinality(Counting(x) \ {r}) = refs[x] - 1
  <2>1. refs[x] = Cardinality(Counting(x))
    BY DEF RefsCounted, IInv
  <2>2. Cardinality(Counting(x)) \in Nat \ {0}
    BY <1>1, <1>2, FS_EmptySet, FS_CardinalityType
  <2>3. Cardinality(Counting(x) \ {r}) = Cardinality(Counting(x)) - 1
    BY <1>1, <1>2, FS_RemoveElement
  <2> QED  BY <2>1, <2>2, <2>3
<1>4. refs'[x] = refs[x] - 1 /\ \A b \in Blobs : b # x => refs'[b] = refs[b]
  BY <1>0, <1>1 DEF Decrement, IInv, TypeOK
<1>5. refs' \in [Blobs -> Nat] /\ free' = free
  BY <1>0, <1>1, <1>3, <1>4 DEF Decrement, IInv, TypeOK
<1>6. Moving(x) = {} /\ ~OnList(x)
  BY <1>0, <1>1 DEF OnePlace, IInv
<1>7. CASE refs'[x] = 0
  <2>1. pc'[r] = "clear" /\ blk' = blk /\ \A q \in Refs : q # r => pc'[q] = pc[q]
    BY <1>0, <1>7 DEF Decrement, IInv, TypeOK
  <2>2. TypeOK'
    <3>0. born \in [Blobs -> Int] /\ pc \in [Refs -> Step]
      BY DEF IInv, TypeOK
    <3>1. born' \in [Blobs -> Int]
      BY <1>0, <1>7, <3>0 DEF Decrement
    <3>2. pc' \in [Refs -> Step]
      BY <1>0, <1>7, <3>0 DEF Decrement, Step
    <3> QED  BY <1>5, <2>1, <3>1, <3>2 DEF Decrement, IInv, TypeOK
  <2>3. Named'
    BY <1>0, <1>1, <2>1 DEF Named, IInv
  <2>4. Counting(x) \ {r} = {}
    <3>1. IsFiniteSet(Counting(x) \ {r}) /\ Cardinality(Counting(x) \ {r}) = 0
      BY <1>2, <1>3, <1>4, <1>7, FS_RemoveElement
    <3> QED  BY <3>1, FS_EmptySet
  <2>5. Counting(x)' = {} /\ Moving(x)' = {r}
    BY <1>0, <1>1, <1>6, <2>1, <2>4 DEF Counting, Moving
  <2>6. \A b \in Blobs : b # x => Counting(b)' = Counting(b) /\ Moving(b)' = Moving(b)
    BY <1>0, <2>1 DEF Counting, Moving
  <2>9. \A b \in Blobs : OnList(b)' <=> OnList(b)
    BY <1>5 DEF OnList
  <2>7. RefsCounted'
    BY <1>4, <1>7, <2>5, <2>6, FS_EmptySet DEF RefsCounted, IInv
  <2>8. OnePlace'
    BY <1>5, <1>6, <2>5, <2>6, <2>9 DEF OnePlace, IInv
  <2> QED  BY <2>2, <2>3, <2>7, <2>8 DEF IInv
<1>8. CASE refs'[x] # 0
  <2>1. /\ pc'[r] = "none" /\ blk'[r] = NoBlob
        /\ \A q \in Refs : q # r => pc'[q] = pc[q] /\ blk'[q] = blk[q]
    BY <1>0, <1>8 DEF Decrement, IInv, TypeOK
  <2>2. TypeOK'
    BY <1>0, <1>1, <1>5, <1>8 DEF Decrement, IInv, TypeOK, Step
  <2>3. Named'
    BY <1>0, <1>1, <2>1 DEF Named, IInv
  <2>4. Counting(x)' = Counting(x) \ {r}
    BY <1>0, <1>1, <2>1 DEF Counting
  <2>5. \A b \in Blobs : /\ b # x => Counting(b)' = Counting(b)
                         /\ Moving(b)' = Moving(b)
                         /\ (OnList(b)' <=> OnList(b))
    BY <1>0, <1>1, <1>5, <2>1 DEF Counting, Moving, OnList, Decrement
  <2>6. Counting(x)' # {}
    BY <1>3, <1>4, <1>8, <2>4, FS_EmptySet
  <2>7. RefsCounted'
    BY <1>3, <1>4, <2>4, <2>5 DEF RefsCounted, IInv
  <2>8. OnePlace'
    BY <1>0, <1>1, <1>5, <1>6, <2>5, <2>6 DEF OnePlace, IInv
  <2> QED  BY <2>2, <2>3, <2>7, <2>8 DEF IInv
<1> QED  BY <1>7, <1>8

LEMMA ClearStampStep ==
  ASSUME IInv, NEW r \in Refs, ClearStamp(r)
  PROVE  IInv'
<1> USE PoolAssumption
<1>1. TypeOK'
  BY DEF ClearStamp, IInv, TypeOK, Step
<1>2. blk' = blk /\ free' = free /\ refs' = refs /\ pc[r] = "clear" /\ pc'[r] = "push"
      /\ \A q \in Refs : q # r => pc'[q] = pc[q]
  BY DEF ClearStamp, IInv, TypeOK
<1>3. \A b \in Blobs : Moving(b)' = Moving(b) /\ Counting(b)' = Counting(b)
                       /\ (OnList(b)' <=> OnList(b))
  BY <1>2 DEF Moving, Counting, OnList
<1> QED  BY <1>1, <1>2, <1>3 DEF IInv, Named, RefsCounted, OnePlace

LEMMA PushStep ==
  ASSUME IInv, NEW r \in Refs, Push(r)
  PROVE  IInv'
<1> USE PoolAssumption
<1>0. PICK x \in Blobs : x = blk[r]
  BY DEF Push, IInv, TypeOK, Named
<1>a. PICK c \in Classes : c = ClassOf[x]
  OBVIOUS
<1>1. r \in Moving(x)
  BY <1>0 DEF Push, Moving
<1>2. Moving(x) = {r} /\ Counting(x) = {} /\ ~OnList(x)
  BY <1>1 DEF IInv, OnePlace
<1>b. PICK n \in Nat : n = Len(free[c])
  BY DEF IInv, TypeOK
<1>3. free[c] \in Seq(Blobs) /\ DOMAIN free[c] = 1..n
  BY <1>b DEF IInv, TypeOK
<1>4. /\ free'[c] \in Seq(Blobs)
      /\ DOMAIN free'[c] = 1..(n+1)
      /\ free'[c][n+1] = x
      /\ \A i \in 1..n : free'[c][i] = free[c][i]
  <2>1. free'[c] = Append(free[c], x)
    BY <1>0, <1>a DEF Push, IInv, TypeOK
  <2> QED  BY <1>b, <1>3, <2>1, AppendProperties, LenProperties
<1>5. \A d \in Classes : d # c => free'[d] = free[d]
  BY <1>0, <1>a DEF Push, IInv, TypeOK
<1>6. /\ pc'[r] = "none" /\ blk'[r] = NoBlob /\ refs' = refs
      /\ \A q \in Refs : q # r => pc'[q] = pc[q] /\ blk'[q] = blk[q]
  BY DEF Push, IInv, TypeOK
<1>7. TypeOK'
  <2>1. free' \in [Classes -> Seq(Blobs)]
    BY <1>4, <1>5 DEF Push, IInv, TypeOK
  <2> QED  BY <1>1, <2>1 DEF Push, IInv, TypeOK, Step
<1>8. Named'
  BY <1>1, <1>6 DEF Named, IInv
<1>9. \A b \in Blobs : Counting(b)' = Counting(b)
  BY <1>6 DEF Counting, Push
<1>10. RefsCounted'
  BY <1>6, <1>9 DEF RefsCounted, IInv
<1>11. OnePlace'
  <2>1. Moving(x)' = {}
    BY <1>2, <1>6 DEF Moving
  <2>2. \A b \in Blobs : b # x => Moving(b)' = Moving(b)
    BY <1>0, <1>1, <1>6 DEF Moving
  <2>3. OnList(x)'
    BY <1>a, <1>3, <1>4 DEF OnList
  <2>4. \A b \in Blobs : b # x => (OnList(b)' <=> OnList(b))
    <3> TAKE b \in Blobs
    <3> HAVE b # x
    <3>1. CASE ClassOf[b] = c
      BY <1>3, <1>4, <3>1 DEF OnList
    <3>2. CASE ClassOf[b] # c
      BY <1>5, <3>2 DEF OnList
    <3> QED  BY <3>1, <3>2
  <2>5. \A i \in 1..n : free[c][i] # x
    BY <1>a, <1>2, <1>3 DEF OnList
  <2>6. \A d \in Classes : \A i \in DOMAIN free'[d] : ClassOf[free'[d][i]] = d
    BY <1>a, <1>3, <1>4, <1>5 DEF OnePlace, IInv
  <2>7. \A d \in Classes : \A i, j \in DOMAIN free'[d] : free'[d][i] = free'[d][j] => i = j
    <3> TAKE d \in Classes
    <3>1. CASE d = c
      BY <1>3, <1>4, <2>5, <3>1 DEF OnePlace, IInv
    <3>2. CASE d # c
      BY <1>5, <3>2 DEF OnePlace, IInv
    <3> QED  BY <3>1, <3>2
  <2> QED  BY <1>2, <1>9, <2>1, <2>2, <2>3, <2>4, <2>6, <2>7 DEF OnePlace, IInv
<1> QED  BY <1>7, <1>8, <1>10, <1>11 DEF IInv

\* The sweep and the clock write nothing but stamps and their own state.
LEMMA SweepStep ==
  ASSUME IInv,
         Tick \/ \E w \in Sweepers : \/ SweepBegin(w) \/ SweepLoad(w) \/ SweepCompare(w)
                                     \/ SweepMark(w) \/ SweepEnd(w)
  PROVE  IInv'
<1> DEFINE SweepState == [phase : {"idle", "scan", "compare", "mark"}, now : Nat, i : Nat]
<1>1. sweep \in [Sweepers -> SweepState] /\ clock \in Nat
  BY DEF IInv, TypeOK
<1>2. UNCHANGED <<free, refs, pc, blk, born>>
  BY DEF Tick, SweepBegin, SweepLoad, SweepCompare, SweepMark, SweepEnd, pool
<1>3. clock' \in Nat
  BY <1>1 DEF Tick, SweepBegin, SweepLoad, SweepCompare, SweepMark, SweepEnd
<1>4. stamp' \in [Blobs -> Nat]
  BY <1>1 DEF Tick, SweepBegin, SweepLoad, SweepCompare, SweepMark, SweepEnd, pool, IInv, TypeOK
<1>5. alarm' \in {"none", "true", "false"}
  BY DEF Tick, SweepBegin, SweepLoad, SweepCompare, SweepMark, SweepEnd, IInv, TypeOK
<1>6. ASSUME NEW w \in Sweepers PROVE NextDesc(w) \in [Sweepers -> SweepState]
  <2>1. sweep[w].i + 1 \in Nat
    BY <1>1
  <2> QED  BY <1>1, <2>1 DEF NextDesc
<1>7. ASSUME NEW w \in Sweepers,
             NEW ph \in {"idle", "scan", "compare", "mark"}
      PROVE  [sweep EXCEPT ![w].phase = ph] \in [Sweepers -> SweepState]
  BY <1>1
<1>8. sweep' \in [Sweepers -> SweepState]
  <2>1. CASE Tick
    BY <1>1, <2>1 DEF Tick
  <2>2. ASSUME NEW w \in Sweepers, SweepBegin(w) \/ SweepEnd(w)
        PROVE  sweep' \in [Sweepers -> SweepState]
    <3>1. \E st \in SweepState : sweep' = [sweep EXCEPT ![w] = st]
      <4>1. [phase |-> "scan", now |-> clock, i |-> 1] \in SweepState
        BY <1>1
      <4>2. NoSweep \in SweepState
        BY DEF NoSweep
      <4> HIDE DEF SweepState
      <4> QED  BY <2>2, <4>1, <4>2 DEF SweepBegin, SweepEnd
    <3> HIDE DEF SweepState
    <3> QED  BY <1>1, <3>1
  <2>3. ASSUME NEW w \in Sweepers, SweepLoad(w) \/ SweepCompare(w) \/ SweepMark(w)
        PROVE  sweep' = NextDesc(w)
                 \/ \E ph \in {"compare", "mark"} : sweep' = [sweep EXCEPT ![w].phase = ph]
    BY <2>3 DEF SweepLoad, SweepCompare, SweepMark
  <2>4. ASSUME NEW w \in Sweepers, SweepLoad(w) \/ SweepCompare(w) \/ SweepMark(w)
        PROVE  sweep' \in [Sweepers -> SweepState]
    <3>1. CASE sweep' = NextDesc(w)
      BY <1>6, <3>1
    <3>2. ASSUME NEW ph \in {"compare", "mark"}, sweep' = [sweep EXCEPT ![w].phase = ph]
          PROVE  sweep' \in [Sweepers -> SweepState]
      BY <1>7, <3>2
    <3> HIDE DEF SweepState
    <3> QED  BY <2>3, <2>4, <3>1, <3>2
  <2> HIDE DEF SweepState
  <2> QED  BY <2>1, <2>2, <2>4
<1>9. TypeOK'
  BY <1>2, <1>3, <1>4, <1>5, <1>8 DEF IInv, TypeOK
<1> QED  BY <1>2, <1>9, FramedStep

LEMMA NextIInv == IInv /\ [Next]_vars => IInv'
<1> SUFFICES ASSUME IInv, [Next]_vars PROVE IInv'
  OBVIOUS
<1>1. CASE UNCHANGED vars
  <2>1. TypeOK'
    BY <1>1 DEF vars, IInv, TypeOK
  <2> QED  BY <1>1, <2>1, FramedStep DEF vars
<1>2. CASE Next
  BY <1>2, AllocPopStep, AllocStoreStep, AllocStampStep, RetainStep, DecrementStep,
     ClearStampStep, PushStep, SweepStep DEF Next
<1> QED  BY <1>1, <1>2

-----------------------------------------------------------------------------
LEMMA SpecIInv == Spec => []IInv
<1> QED  BY InitIInv, NextIInv, PTL DEF Spec

\* A count, a stamp, a list and a sweep keep their types whatever the tasks and the
\* unlocked sweep interleave: no load finds a block outside its class.
THEOREM PoolTypeCorrect == Spec => []TypeOK
<1>1. IInv => TypeOK
  BY DEF IInv
<1> QED  BY <1>1, SpecIInv, PTL

\* Every blob's count is the number of references to it, at every instant between
\* the steps of nev_blob_retain and nev_blob_release.
THEOREM CountsAreExact == Spec => []RefsCounted
<1>1. IInv => RefsCounted
  BY DEF IInv
<1> QED  BY <1>1, SpecIInv, PTL

\* Every block is in exactly one place: none leaks, is freed twice or is handed out
\* twice, whatever the tasks and the sweep interleave.
THEOREM PoolIsSound == Spec => []OnePlace
<1>1. IInv => OnePlace
  BY DEF IInv
<1> QED  BY <1>1, SpecIInv, PTL
=============================================================================
