---------------------------- MODULE CacheProofs ----------------------------
(***************************************************************************)
(* Proofs about Cache, for every set of threads, keys, buffers and handles *)
(* and every value of the limits.                                          *)
(***************************************************************************)
EXTENDS Cache, FiniteSetTheorems, TLAPS

(* What the manager's data structures satisfy between any two steps. *)
StoreInv ==
    /\ HandlesPinBuffers
    /\ RefsCountHandles
    /\ IsFiniteSet(Cells(Live))
    /\ AccountingExact
    /\ WithinLimits
    /\ ChainsWellFormed

(* What the running CreateBuffer has established before its next step: it   *)
(* holds the mutex, once past the memory limit it stays below it, and it    *)
(* inserts only when both limits leave room.                                *)
FrameInv ==
    /\ ListedStayUnreferenced
    /\ frame.at # "out" => mutex \in Thread /\ pending[mutex] # None
    /\ frame.at = "out" => frame = Idle
    /\ frame.at \in {"count", "fill", "evict"} /\ frame.goal = "entries"
          => ~TooMuchMemory(pending[mutex].size)
    /\ frame.at = "insert" => ~TooMuchMemory(pending[mutex].size) /\ ~TooManyEntries

IInv == TypeOK /\ StoreInv /\ FrameInv

----------------------------------------------------------------------------
(* Facts about the operators.                                              *)

(* The cells of one buffer. *)
LEMMA BlockSize ==
    ASSUME NEW b, NEW n \in Nat
    PROVE  IsFiniteSet({b} \X (1 .. n)) /\ Cardinality({b} \X (1 .. n)) = n
<1> DEFINE S == {b}
           T == 1 .. n
<1>1. IsFiniteSet(S) /\ Cardinality(S) = 1
  BY FS_Singleton
<1>2. IsFiniteSet(T) /\ Cardinality(T) = n
  BY FS_Interval
<1> HIDE DEF S, T
<1>3. IsFiniteSet(S \X T) /\ Cardinality(S \X T) = Cardinality(S) * Cardinality(T)
  BY <1>1, <1>2, FS_Product
<1>4. Cardinality(S \X T) = n
  BY <1>1, <1>2, <1>3
<1> QED
  BY <1>3, <1>4 DEF S, T

(* A block that is not there yet adds its size. *)
LEMMA AddBlock ==
    ASSUME NEW C, IsFiniteSet(C), NEW b, NEW n \in Nat, \A c \in C : c[1] # b
    PROVE  /\ IsFiniteSet(C \cup ({b} \X (1 .. n)))
           /\ Cardinality(C \cup ({b} \X (1 .. n))) = Cardinality(C) + n
<1> DEFINE D == {b} \X (1 .. n)
<1>1. IsFiniteSet(D) /\ Cardinality(D) = n
  BY BlockSize
<1>2. C \cap D = {}
  OBVIOUS
<1>3. Cardinality(C \cap D) = 0
  BY <1>2, FS_EmptySet
<1>4. Cardinality(C) \in Nat
  BY FS_CardinalityType
<1> HIDE DEF D
<1>5. IsFiniteSet(C \cup D) /\ Cardinality(C \cup D) = Cardinality(C) + n - 0
  BY <1>1, <1>3, FS_Union
<1> QED
  BY <1>4, <1>5 DEF D

(* A block that is there and goes takes its size with it. *)
LEMMA RemoveBlock ==
    ASSUME NEW C, IsFiniteSet(C), NEW b, NEW n \in Nat, {b} \X (1 .. n) \subseteq C
    PROVE  /\ IsFiniteSet(C \ ({b} \X (1 .. n)))
           /\ Cardinality(C \ ({b} \X (1 .. n))) = Cardinality(C) - n
           /\ n <= Cardinality(C)
<1> DEFINE D == {b} \X (1 .. n)
<1>1. IsFiniteSet(D) /\ Cardinality(D) = n
  BY BlockSize
<1>2. C \cap D = D
  OBVIOUS
<1>3. D \in SUBSET C
  OBVIOUS
<1> HIDE DEF D
<1>4. IsFiniteSet(C \ D) /\ Cardinality(C \ D) = Cardinality(C) - n
  BY <1>1, <1>2, FS_Difference
<1>5. n <= Cardinality(C)
  BY <1>1, <1>3, FS_Subset
<1> QED
  BY <1>4, <1>5 DEF D

(* Unlinking the i-th node leaves every other node of the chain once.      *)
LEMMA WithoutKeeps ==
    ASSUME NEW c \in Seq(Buffer), NEW i \in DOMAIN c,
           \A p, q \in DOMAIN c : c[p] = c[q] => p = q
    PROVE  /\ Without(c, i) \in Seq(Buffer)
           /\ \A p \in DOMAIN Without(c, i) :
                Without(c, i)[p] # c[i] /\ \E q \in DOMAIN c : Without(c, i)[p] = c[q]
           /\ \A p, q \in DOMAIN Without(c, i) : Without(c, i)[p] = Without(c, i)[q] => p = q
           /\ \A q \in DOMAIN c : q # i => \E p \in DOMAIN Without(c, i) : Without(c, i)[p] = c[q]
<1> DEFINE w == Without(c, i)
<1>1. DOMAIN c = 1 .. Len(c) /\ Len(c) \in Nat /\ DOMAIN w = 1 .. Len(c) - 1
  BY DEF Without
<1>2. \A p \in DOMAIN w : w[p] = IF p < i THEN c[p] ELSE c[p + 1]
  BY <1>1 DEF Without
<1>3. w \in Seq(Buffer)
  BY <1>1, <1>2 DEF Without
<1>4. \A q \in DOMAIN c : q # i => \E p \in DOMAIN w : w[p] = c[q]
  <2> SUFFICES ASSUME NEW q \in DOMAIN c, q # i
               PROVE  \E p \in DOMAIN w : w[p] = c[q]
    OBVIOUS
  <2>1. CASE q < i
    BY <1>1, <1>2, <2>1
  <2>2. CASE q > i
    <3>1. q - 1 \in DOMAIN w /\ w[q - 1] = c[q]
      BY <1>1, <1>2, <2>2
    <3> QED
      BY <3>1
  <2> QED
    BY <1>1, <2>1, <2>2
<1> QED
  <2>1. \A p \in DOMAIN w : w[p] # c[i] /\ \E q \in DOMAIN c : w[p] = c[q]
    BY <1>1, <1>2
  <2>2. \A p, q \in DOMAIN w : w[p] = w[q] => p = q
    BY <1>1, <1>2
  <2> QED
    BY <1>3, <1>4, <2>1, <2>2

(* The locals CreateBuffer starts with are of their type. *)
LEMMA StartFrame ==
    ASSUME NEW at \in {"out", "count", "fill", "evict", "insert"},
           NEW goal \in {"memory", "entries"}, NEW B \in SUBSET Buffer
    PROVE  Start(at, goal, B) \in Frame
  BY DEF Start, Frame

----------------------------------------------------------------------------
(* The initial state. *)
LEMMA InitInv == Init => IInv
<1> SUFFICES ASSUME Init PROVE IInv
  OBVIOUS
<1> USE DEF Init
<1>1. TypeOK
  BY SizesAssumption, StartFrame DEF TypeOK, Idle, Slot, Time
<1>2. Live = {}
  BY DEF Live
<1>3. Cells(Live) = {} /\ IsFiniteSet(Cells(Live)) /\ Cardinality(Cells(Live)) = 0
  BY <1>2, FS_EmptySet DEF Cells
<1>4. Cardinality(Live) = 0
  BY <1>2, FS_EmptySet
<1>5. HandlesPinBuffers
  BY DEF HandlesPinBuffers
<1>6. RefsCountHandles
  BY <1>2 DEF RefsCountHandles
<1>7. AccountingExact /\ WithinLimits
  BY <1>3, <1>4, SizesAssumption DEF AccountingExact, WithinLimits, Bytes
<1>8. ChainsWellFormed
  BY <1>2, HashAssumption DEF ChainsWellFormed
<1>9. FrameInv
  BY DEF FrameInv, Idle, Start, ListedStayUnreferenced
<1> QED
  BY <1>1, <1>3, <1>5, <1>6, <1>7, <1>8, <1>9 DEF IInv, StoreInv

(* A step that leaves the table, the buffers and the handles alone. *)
LEMMA StoreUnchanged ==
    ASSUME StoreInv, UNCHANGED <<table, meta, usedMemory, entryCount, handle>>
    PROVE  StoreInv'
  BY DEF StoreInv, HandlesPinBuffers, RefsCountHandles, AccountingExact, WithinLimits,
         ChainsWellFormed, Live, Cells, Bytes

(* A step that changes nothing of a buffer but its count and its stamp.    *)
LEMMA CountsOnly ==
    ASSUME StoreInv, Live' = Live, UNCHANGED <<table, usedMemory, entryCount>>,
           \A b \in Live : meta'[b].key = meta[b].key /\ meta'[b].size = meta[b].size
    PROVE  /\ IsFiniteSet(Cells(Live))' /\ AccountingExact' /\ WithinLimits'
           /\ ChainsWellFormed'
<1>1. Cells(Live)' = Cells(Live)
  BY DEF Cells
<1>2. IsFiniteSet(Cells(Live))' /\ AccountingExact' /\ WithinLimits'
  BY <1>1 DEF StoreInv, AccountingExact, WithinLimits, Bytes
<1>3. ChainsWellFormed'
  <2>1. ChainsWellFormed
    BY DEF StoreInv
  <2> QED
    BY <2>1 DEF ChainsWellFormed
<1> QED
  BY <1>2, <1>3

(* _CreateReadBuffer and _CreateWriteBuffer, on a live buffer. *)
LEMMA PointInv ==
    ASSUME IInv, NEW h \in Handle, handle[h] = None, NEW b \in Live, Point(h, b),
           UNCHANGED <<mutex, table, usedMemory, entryCount, pending, frame, now>>
    PROVE  TypeOK' /\ StoreInv'
<1> USE DEF IInv
<1>1. b \in Buffer /\ meta[b] \in Meta
  BY DEF Live, TypeOK
<1>2. /\ \A c \in Buffer : c # b => meta'[c] = meta[c]
      /\ DOMAIN meta' = Buffer
      /\ meta'[b] = [key |-> meta[b].key, size |-> meta[b].size,
                     refs |-> meta[b].refs + 1, stamp |-> now]
  BY <1>1 DEF Point, Meta, TypeOK
<1>3. meta'[b] \in Meta
  BY <1>1, <1>2 DEF Meta, TypeOK
<1>4. meta' \in [Buffer -> Meta \cup {None}]
  BY <1>1, <1>2, <1>3 DEF TypeOK, Point
<1>5. handle' = [handle EXCEPT ![h] = b]
  BY DEF Point
<1>6. TypeOK'
  BY <1>1, <1>4, <1>5 DEF TypeOK
<1>7. Live' = Live
  BY <1>1, <1>2, <1>3, NoneAssumption DEF Live, TypeOK
<1>8. \A c \in Live : meta'[c].key = meta[c].key /\ meta'[c].size = meta[c].size
  BY <1>1, <1>2 DEF Live, TypeOK
<1>9. HandlesPinBuffers'
  BY <1>5, <1>7 DEF StoreInv, HandlesPinBuffers, TypeOK
<1>10. RefsCountHandles'
  <2> SUFFICES ASSUME NEW c \in Live
               PROVE  meta'[c].refs = Cardinality({g \in Handle : handle'[g] = c})
    BY <1>7 DEF RefsCountHandles
  <2>1. meta[c].refs = Cardinality({g \in Handle : handle[g] = c})
    BY DEF StoreInv, RefsCountHandles
  <2>2. CASE c = b
    <3> DEFINE H == {g \in Handle : handle[g] = b}
    <3>1. {g \in Handle : handle'[g] = b} = H \cup {h}
      BY <1>5 DEF TypeOK
    <3>2. h \notin H
      BY <1>1, NoneAssumption
    <3>3. IsFiniteSet(H)
      BY HeapAssumption, FS_Subset
    <3>4. Cardinality(H \cup {h}) = Cardinality(H) + 1
      BY <3>2, <3>3, FS_AddElement
    <3> QED
      BY <1>2, <2>1, <2>2, <3>1, <3>4
  <2>3. CASE c # b
    <3>1. {g \in Handle : handle'[g] = c} = {g \in Handle : handle[g] = c}
      BY <1>5, <2>3, NoneAssumption DEF TypeOK, Live
    <3>2. meta'[c] = meta[c]
      BY <1>2, <2>3 DEF Live, TypeOK
    <3> QED
      BY <2>1, <3>1, <3>2
  <2> QED
    BY <2>2, <2>3
<1>11. StoreInv'
  BY <1>7, <1>8, <1>9, <1>10, CountsOnly DEF StoreInv
<1> QED
  BY <1>6, <1>11

(* ReleaseBuffer and ReleaseWriteBuffer: the count is positive, so it does *)
(* not wrap.                                                               *)
LEMMA ReleaseInv ==
    ASSUME IInv, NEW h \in Handle, Release(h)
    PROVE  TypeOK' /\ StoreInv' /\ ListedStayUnreferenced'
<1> DEFINE b == handle[h]
<1> USE DEF IInv
<1>1. b \in Live /\ b \in Buffer /\ meta[b] \in Meta
  BY DEF Release, StoreInv, HandlesPinBuffers, Live, TypeOK
<1> DEFINE H == {g \in Handle : handle[g] = b}
<1>2. IsFiniteSet(H) /\ h \in H /\ Cardinality(H) \in Nat
  BY HeapAssumption, FS_Subset, FS_CardinalityType
<1> HIDE DEF H
<1>3. Cardinality(H \ {h}) = Cardinality(H) - 1 /\ Cardinality(H \ {h}) \in Nat
  BY <1>2, FS_RemoveElement, FS_CardinalityType
<1>4. meta[b].refs = Cardinality(H)
  BY <1>1 DEF StoreInv, RefsCountHandles, H
<1>5. handle' = [handle EXCEPT ![h] = None]
  BY DEF Release
<1>6. /\ \A c \in Buffer : c # b => meta'[c] = meta[c]
      /\ DOMAIN meta' = Buffer
      /\ meta'[b] = [key |-> meta[b].key, size |-> meta[b].size,
                     refs |-> meta[b].refs - 1, stamp |-> meta[b].stamp]
  BY <1>1 DEF Release, Meta, TypeOK
<1>7. meta'[b] \in Meta
  BY <1>1, <1>2, <1>3, <1>4, <1>6 DEF Meta
<1>8. TypeOK'
  BY <1>1, <1>5, <1>6, <1>7 DEF TypeOK, Release
<1>9. Live' = Live
  BY <1>1, <1>6, <1>7, NoneAssumption DEF Live, TypeOK
<1> HIDE DEF b
<1>10. \A c \in Live : meta'[c].key = meta[c].key /\ meta'[c].size = meta[c].size
  BY <1>1, <1>6 DEF Live, TypeOK
<1>11. HandlesPinBuffers'
  BY <1>5, <1>9 DEF StoreInv, HandlesPinBuffers, TypeOK
<1>12. RefsCountHandles'
  <2> SUFFICES ASSUME NEW c \in Live
               PROVE  meta'[c].refs = Cardinality({g \in Handle : handle'[g] = c})
    BY <1>9 DEF RefsCountHandles
  <2>1. CASE c = b
    <3>1. {g \in Handle : handle'[g] = c} = H \ {h}
      BY <1>1, <1>5, <2>1, NoneAssumption DEF TypeOK, H
    <3> QED
      BY <1>3, <1>4, <1>6, <2>1, <3>1
  <2>2. CASE c # b
    <3>1. {g \in Handle : handle'[g] = c} = {g \in Handle : handle[g] = c}
      BY <1>5, <2>2, NoneAssumption DEF TypeOK, Live, b
    <3>2. meta'[c] = meta[c]
      BY <1>6, <2>2 DEF Live, TypeOK
    <3> QED
      BY <3>1, <3>2 DEF StoreInv, RefsCountHandles
  <2> QED
    BY <2>1, <2>2
<1>13. StoreInv'
  BY <1>9, <1>10, <1>11, <1>12, CountsOnly DEF StoreInv, Release
<1>14. meta[b].refs # 0
  BY <1>2, <1>4, FS_EmptySet
<1>15. ListedStayUnreferenced'
  <2>1. UNCHANGED frame
    BY DEF Release
  <2> QED
    BY <1>6, <1>9, <1>14, <2>1 DEF FrameInv, ListedStayUnreferenced, Live
<1> QED
  BY <1>8, <1>13, <1>15

(* Evict's effect on the store: an unreferenced node leaves its chain and  *)
(* its buffer is destroyed.                                                *)
LEMMA UnlinkInv ==
    ASSUME IInv, NEW k \in Key, NEW i \in DOMAIN table[Hash[k]], Deletable(k, i),
           NEW b, b = table[Hash[k]][i],
           table' = [table EXCEPT ![Hash[k]] = Without(@, i)],
           meta' = [meta EXCEPT ![b] = None],
           usedMemory' = usedMemory - meta[b].size,
           entryCount' = entryCount - 1,
           UNCHANGED handle
    PROVE  /\ table' \in [Slot -> Seq(Buffer)] /\ meta' \in [Buffer -> Meta \cup {None}]
           /\ usedMemory' \in Nat /\ entryCount' \in Nat
           /\ usedMemory' <= usedMemory
           /\ StoreInv'
           /\ Live' = Live \ {b}
<1> USE DEF IInv
<1> DEFINE s == Hash[k]
           c == table[s]
           w == Without(c, i)
<1>1. s \in Slot /\ c \in Seq(Buffer)
  BY HashAssumption DEF TypeOK
<1>2. ChainsWellFormed
  BY DEF StoreInv
<1>3. b \in Live /\ b \in Buffer /\ meta[b] \in Meta /\ meta[b].key = k /\ meta[b].refs = 0
  BY <1>1, <1>2 DEF ChainsWellFormed, Live, TypeOK, Deletable, FirstAt
<1>4. \A p, q \in DOMAIN c : c[p] = c[q] => p = q
  BY <1>1, <1>2 DEF ChainsWellFormed
<1>5. /\ w \in Seq(Buffer)
      /\ \A p \in DOMAIN w : w[p] # b /\ \E q \in DOMAIN c : w[p] = c[q]
      /\ \A p, q \in DOMAIN w : w[p] = w[q] => p = q
      /\ \A q \in DOMAIN c : q # i => \E p \in DOMAIN w : w[p] = c[q]
  <2>1. i \in DOMAIN c /\ b = c[i]
    OBVIOUS
  <2> HIDE DEF c
  <2> QED
    BY <1>1, <1>4, <2>1, WithoutKeeps
<1>6. table'[s] = w /\ \A r \in Slot : r # s => table'[r] = table[r]
  BY <1>1 DEF TypeOK
<1>7. table' \in [Slot -> Seq(Buffer)]
  BY <1>1, <1>5 DEF TypeOK
<1>8. meta' \in [Buffer -> Meta \cup {None}]
  BY DEF TypeOK
<1>9. Live' = Live \ {b} /\ \A d \in Live' : meta'[d] = meta[d]
  BY <1>3 DEF Live, TypeOK
<1> HIDE DEF w, c, s
<1>10. ChainsWellFormed'
  <2>1. \A r \in Slot : \A j \in DOMAIN table'[r] :
          table'[r][j] \in Live' /\ Hash[meta'[table'[r][j]].key] = r
    <3> SUFFICES ASSUME NEW r \in Slot, NEW j \in DOMAIN table'[r]
                 PROVE  /\ table'[r][j] # b
                        /\ \E q \in DOMAIN table[r] : table'[r][j] = table[r][q]
      BY <1>2, <1>9 DEF ChainsWellFormed
    <3>1. CASE r = s
      BY <1>5, <1>6, <3>1 DEF c
    <3>2. CASE r # s
      <4>1. table'[r] = table[r]
        BY <1>6, <3>2
      <4>2. Hash[meta[table[r][j]].key] = r
        BY <1>2, <4>1 DEF ChainsWellFormed
      <4> QED
        BY <1>3, <3>2, <4>1, <4>2 DEF s
    <3> QED
      BY <3>1, <3>2
  <2>2. \A r \in Slot : \A p, q \in DOMAIN table'[r] : table'[r][p] = table'[r][q] => p = q
    BY <1>2, <1>5, <1>6 DEF ChainsWellFormed
  <2>3. \A d \in Live' : \E j \in DOMAIN table'[Hash[meta'[d].key]] :
          table'[Hash[meta'[d].key]][j] = d
    <3> SUFFICES ASSUME NEW d \in Live, d # b
                 PROVE  \E j \in DOMAIN table'[Hash[meta[d].key]] :
                          table'[Hash[meta[d].key]][j] = d
      BY <1>9
    <3>1. PICK q \in DOMAIN table[Hash[meta[d].key]] : table[Hash[meta[d].key]][q] = d
      BY <1>2 DEF ChainsWellFormed
    <3>2. Hash[meta[d].key] \in Slot
      BY HashAssumption DEF Live, TypeOK, Meta
    <3>3. CASE Hash[meta[d].key] = s
      BY <1>5, <1>6, <3>1, <3>3 DEF c, s
    <3>4. CASE Hash[meta[d].key] # s
      BY <1>6, <3>1, <3>2, <3>4
    <3> QED
      BY <3>3, <3>4
  <2> QED
    BY <2>1, <2>2, <2>3 DEF ChainsWellFormed
<1>11. HandlesPinBuffers'
  <2>1. \A h \in Handle : handle[h] # b
    <3>1. Cardinality({h \in Handle : handle[h] = b}) = 0
      BY <1>3 DEF StoreInv, RefsCountHandles
    <3>2. IsFiniteSet({h \in Handle : handle[h] = b})
      BY HeapAssumption, FS_Subset
    <3> QED
      BY <3>1, <3>2, FS_EmptySet
  <2> QED
    BY <1>9, <2>1 DEF StoreInv, HandlesPinBuffers
<1>12. RefsCountHandles'
  BY <1>9 DEF StoreInv, RefsCountHandles
<1>13. /\ IsFiniteSet(Cells(Live))' /\ AccountingExact'
       /\ usedMemory' \in Nat /\ entryCount' \in Nat
  <2> DEFINE C == Cells(Live)
             n == meta[b].size
  <2>1. Cells(Live)' = C \ ({b} \X (1 .. n))
    BY <1>9 DEF Cells
  <2>2. {b} \X (1 .. n) \subseteq C
    BY <1>3 DEF Cells
  <2>3. n \in Nat
    BY <1>3, SizesAssumption DEF Meta
  <2>4. IsFiniteSet(C) /\ usedMemory = Cardinality(C)
    BY DEF StoreInv, AccountingExact, Bytes
  <2> HIDE DEF C, n
  <2>5. /\ IsFiniteSet(C \ ({b} \X (1 .. n)))
        /\ Cardinality(C \ ({b} \X (1 .. n))) = usedMemory - n
        /\ n <= usedMemory
    BY <2>2, <2>3, <2>4, RemoveBlock
  <2>6. usedMemory' \in Nat /\ usedMemory' = Bytes(Live)'
    BY <2>1, <2>3, <2>5 DEF TypeOK, n, Bytes
  <2>7. IsFiniteSet(Live) /\ Cardinality(Live) \in Nat
    BY HeapAssumption, FS_Subset, FS_CardinalityType DEF Live
  <2>8. Cardinality(Live \ {b}) = entryCount - 1 /\ Cardinality(Live \ {b}) \in Nat
    BY <1>3, <2>7, FS_RemoveElement, FS_CardinalityType DEF StoreInv, AccountingExact
  <2> QED
    BY <1>9, <2>1, <2>5, <2>6, <2>8 DEF AccountingExact
<1>14. usedMemory' <= usedMemory /\ entryCount' <= entryCount
  <2>1. meta[b].size \in Nat
    BY <1>3, SizesAssumption DEF Meta
  <2> QED
    BY <2>1 DEF TypeOK
<1>15. WithinLimits'
  BY <1>13, <1>14, SizesAssumption DEF StoreInv, WithinLimits, TypeOK
<1> QED
  BY <1>7, <1>8, <1>9, <1>10, <1>11, <1>12, <1>13, <1>14, <1>15 DEF StoreInv

(* A new node at the tail of a chain. *)
LEMMA AppendKeeps ==
    ASSUME NEW c \in Seq(Buffer), NEW b \in Buffer
    PROVE  /\ Append(c, b) \in Seq(Buffer)
           /\ DOMAIN Append(c, b) = DOMAIN c \cup {Len(c) + 1} /\ Len(c) + 1 \notin DOMAIN c
           /\ Append(c, b)[Len(c) + 1] = b
           /\ \A p \in DOMAIN c : Append(c, b)[p] = c[p]
  OBVIOUS

(* The insertion: both limits leave room, which Enter or Settle has tested. *)
LEMMA InsertInv ==
    ASSUME IInv, NEW t \in Thread, Insert(t)
    PROVE  TypeOK' /\ StoreInv'
<1> USE DEF IInv
<1> DEFINE k == pending[t].key
           n == pending[t].size
           s == Hash[k]
           c == table[s]
<1>1. PICK b \in Buffer \ Live, g \in Time :
        /\ meta' = [meta EXCEPT ![b] = [key |-> k, size |-> n, refs |-> 0, stamp |-> g]]
        /\ table' = [table EXCEPT ![s] = Append(@, b)]
  BY DEF Insert
<1>2. /\ mutex = t /\ pending[t] \in Request /\ frame.at = "insert"
      /\ usedMemory + n <= MaxMemory /\ entryCount + 1 <= MaxEntries
  BY SizesAssumption DEF Insert, FrameInv, TypeOK, TooMuchMemory, TooManyEntries, Request
<1>3. k \in Key /\ n \in Nat /\ n \in Sizes /\ s \in Slot /\ c \in Seq(Buffer)
  BY <1>2, HashAssumption, SizesAssumption DEF Request, TypeOK
<1>4. UNCHANGED handle /\ usedMemory' = usedMemory + n /\ entryCount' = entryCount + 1
  BY DEF Insert
<1>5. meta'[b] = [key |-> k, size |-> n, refs |-> 0, stamp |-> g] /\ meta'[b] \in Meta
  BY <1>1, <1>3 DEF TypeOK, Meta
<1>6. \A d \in Buffer : d # b => meta'[d] = meta[d]
  BY <1>1 DEF TypeOK
<1>7. meta' \in [Buffer -> Meta \cup {None}]
  BY <1>1, <1>5, <1>6 DEF TypeOK
<1>8. Live' = Live \cup {b}
  BY <1>5, <1>6, NoneAssumption DEF Live
<1>9. table'[s] = Append(c, b) /\ \A r \in Slot : r # s => table'[r] = table[r]
  BY <1>1, <1>3 DEF TypeOK
<1>10. /\ Append(c, b) \in Seq(Buffer)
       /\ DOMAIN Append(c, b) = DOMAIN c \cup {Len(c) + 1} /\ Len(c) + 1 \notin DOMAIN c
       /\ Append(c, b)[Len(c) + 1] = b
       /\ \A p \in DOMAIN c : Append(c, b)[p] = c[p]
  BY <1>3, AppendKeeps
<1>11. TypeOK'
  <2>1. table' \in [Slot -> Seq(Buffer)]
    BY <1>1, <1>3, <1>10 DEF TypeOK
  <2>2. usedMemory' \in Nat /\ entryCount' \in Nat
    BY <1>3, <1>4 DEF TypeOK
  <2>3. /\ mutex' \in Thread \cup {None} /\ pending' \in [Thread -> Request \cup {None}]
        /\ now' \in Time /\ handle' \in [Handle -> Buffer \cup {None}]
    BY DEF Insert, Return, TypeOK
  <2>4. frame' = Idle
    BY DEF Insert, Return
  <2> QED
    BY <1>7, <2>1, <2>2, <2>3, <2>4, StartFrame DEF TypeOK, Idle
<1>12. ChainsWellFormed
  BY DEF StoreInv
<1>13. \A r \in Slot : \A p \in DOMAIN table[r] :
         table[r][p] \in Live /\ table[r][p] # b /\ meta'[table[r][p]] = meta[table[r][p]]
  BY <1>1, <1>6, <1>12 DEF ChainsWellFormed, Live
<1>14. \A d \in Live : d # b /\ meta'[d] = meta[d] /\ Hash[meta[d].key] \in Slot
  BY <1>1, <1>6, HashAssumption DEF Live, TypeOK, Meta
<1> HIDE DEF c
<1>15. ChainsWellFormed'
  <2>1. \A r \in Slot : \A j \in DOMAIN table'[r] :
          table'[r][j] \in Live' /\ Hash[meta'[table'[r][j]].key] = r
    <3> SUFFICES ASSUME NEW r \in Slot, NEW j \in DOMAIN table'[r]
                 PROVE  table'[r][j] \in Live' /\ Hash[meta'[table'[r][j]].key] = r
      OBVIOUS
    <3>1. CASE r = s /\ j = Len(c) + 1
      BY <1>5, <1>8, <1>9, <1>10, <3>1
    <3>2. CASE ~(r = s /\ j = Len(c) + 1)
      <4>1. j \in DOMAIN table[r] /\ table'[r][j] = table[r][j]
        BY <1>9, <1>10, <3>2 DEF c
      <4>2. Hash[meta[table[r][j]].key] = r
        BY <1>12, <4>1 DEF ChainsWellFormed
      <4> QED
        BY <1>8, <1>13, <4>1, <4>2
    <3> QED
      BY <3>1, <3>2
  <2>2. \A r \in Slot : \A p, q \in DOMAIN table'[r] : table'[r][p] = table'[r][q] => p = q
    <3> SUFFICES ASSUME NEW r \in Slot, NEW p \in DOMAIN table'[r], NEW q \in DOMAIN table'[r],
                        table'[r][p] = table'[r][q]
                 PROVE  p = q
      OBVIOUS
    <3>1. CASE r = s
      <4>1. \A x, y \in DOMAIN c : c[x] = c[y] => x = y
        BY <1>3, <1>12 DEF c, ChainsWellFormed
      <4>2. \A x \in DOMAIN c : c[x] # b
        BY <1>3, <1>13 DEF c
      <4> QED
        BY <1>9, <1>10, <3>1, <4>1, <4>2
    <3>2. CASE r # s
      BY <1>9, <1>12, <3>2 DEF ChainsWellFormed
    <3> QED
      BY <3>1, <3>2
  <2>3. \A d \in Live' : \E j \in DOMAIN table'[Hash[meta'[d].key]] :
          table'[Hash[meta'[d].key]][j] = d
    <3>1. \E j \in DOMAIN table'[s] : table'[s][j] = b
      BY <1>9, <1>10
    <3>2. ASSUME NEW d \in Live
          PROVE  \E j \in DOMAIN table'[Hash[meta[d].key]] :
                   table'[Hash[meta[d].key]][j] = d
      <4>1. PICK q \in DOMAIN table[Hash[meta[d].key]] : table[Hash[meta[d].key]][q] = d
        BY <1>12 DEF ChainsWellFormed
      <4>2. CASE Hash[meta[d].key] = s
        BY <1>9, <1>10, <4>1, <4>2 DEF c
      <4>3. CASE Hash[meta[d].key] # s
        BY <1>9, <1>14, <4>1, <4>3
      <4> QED
        BY <4>2, <4>3
    <3> QED
      BY <1>5, <1>8, <1>14, <3>1, <3>2
  <2> QED
    BY <2>1, <2>2, <2>3 DEF ChainsWellFormed
<1>16. HandlesPinBuffers'
  BY <1>4, <1>8 DEF StoreInv, HandlesPinBuffers
<1>17. RefsCountHandles'
  <2>1. {h \in Handle : handle[h] = b} = {}
    BY <1>1, NoneAssumption DEF StoreInv, HandlesPinBuffers, TypeOK
  <2>2. meta'[b].refs = Cardinality({h \in Handle : handle'[h] = b})
    BY <1>4, <1>5, <2>1, FS_EmptySet
  <2>3. \A d \in Live : meta'[d].refs = Cardinality({h \in Handle : handle'[h] = d})
    BY <1>4, <1>14 DEF StoreInv, RefsCountHandles
  <2> QED
    BY <1>8, <2>2, <2>3 DEF RefsCountHandles
<1>18. IsFiniteSet(Cells(Live))' /\ AccountingExact' /\ WithinLimits'
  <2> DEFINE C == Cells(Live)
  <2>1. Cells(Live)' = C \cup ({b} \X (1 .. n))
    <3>1. meta'[b].size = n
      BY <1>5
    <3> QED
      BY <1>8, <1>14, <3>1 DEF Cells
  <2>2. IsFiniteSet(C) /\ usedMemory = Cardinality(C)
    BY DEF StoreInv, AccountingExact, Bytes
  <2>3. \A x \in C : x[1] # b
    BY <1>14 DEF Cells
  <2> HIDE DEF C, n
  <2>4. /\ IsFiniteSet(C \cup ({b} \X (1 .. n)))
        /\ Cardinality(C \cup ({b} \X (1 .. n))) = usedMemory + n
    BY <1>3, <2>2, <2>3, AddBlock
  <2>5. IsFiniteSet(Live)
    BY HeapAssumption, FS_Subset DEF Live
  <2>6. Cardinality(Live \cup {b}) = Cardinality(Live) + 1
    BY <1>1, <2>5, FS_AddElement
  <2>7. Cardinality(Live)' = entryCount'
    BY <1>4, <1>8, <2>6 DEF StoreInv, AccountingExact
  <2> QED
    BY <1>2, <1>4, <2>1, <2>4, <2>7 DEF AccountingExact, Bytes, WithinLimits
<1> QED
  BY <1>11, <1>15, <1>16, <1>17, <1>18 DEF StoreInv

(* What a step that does not touch the buffers must show of its frame. *)
LEMMA FrameStep ==
    ASSUME IInv, UNCHANGED <<table, meta, usedMemory, entryCount, handle, now>>,
           mutex' \in Thread \cup {None},
           pending' \in [Thread -> Request \cup {None}],
           frame' \in Frame,
           FrameInv'
    PROVE  IInv'
<1>1. TypeOK'
  BY DEF IInv, TypeOK
<1>2. StoreInv'
  BY StoreUnchanged DEF IInv
<1> QED
  BY <1>1, <1>2 DEF IInv

(* Outside of a CreateBuffer the locals say nothing. *)
LEMMA IdleFrame ==
    ASSUME frame' = Idle
    PROVE  /\ FrameInv'
           /\ frame' \in Frame
  BY StartFrame DEF Idle, Start, FrameInv, ListedStayUnreferenced

(* The steps of CreateBuffer before anything is freed. *)
LEMMA ScanInv ==
    ASSUME IInv, NEW t \in Thread, mutex = t, NEW b,
           CountUnused(b) \/ AllocateLru \/ FillLru(b)
    PROVE  IInv'
<1> USE DEF IInv
<1>1. frame' \in Frame
  <2>1. CASE CountUnused(b)
    <3>1. frame \in Frame /\ frame.count \in Nat
      BY DEF TypeOK, Frame
    <3> DEFINE n == IF meta[b].refs = 0 THEN frame.count + 1 ELSE frame.count
    <3>2. n \in Nat
      BY <3>1
    <3>3. frame' = [frame EXCEPT !.unread = @ \ {b}, !.count = n]
      BY <2>1 DEF CountUnused
    <3> HIDE DEF n
    <3> QED
      BY <3>1, <3>2, <3>3 DEF Frame
  <2>2. CASE AllocateLru
    BY <2>2 DEF AllocateLru, TypeOK, Live, Frame
  <2>3. CASE FillLru(b)
    <3>1. frame'.lru \in Seq(Buffer)
      BY <2>3 DEF FillLru, TypeOK, Frame
    <3> QED
      BY <2>3, <3>1 DEF FillLru, TypeOK, Frame
  <2> QED
    BY <2>1, <2>2, <2>3
<1>2. /\ UNCHANGED <<mutex, table, meta, usedMemory, entryCount, handle, pending, now>>
      /\ frame.at \in {"count", "fill"} /\ frame'.at \in {"count", "fill"}
      /\ frame'.goal = frame.goal
  BY DEF CountUnused, AllocateLru, FillLru, TypeOK, Frame
<1>3. ListedStayUnreferenced'
  <2>1. CASE UNCHANGED frame.lru
    BY <1>2, <2>1 DEF FrameInv, ListedStayUnreferenced, Live
  <2>2. CASE frame'.lru = Append(frame.lru, b) /\ meta[b].refs = 0
    BY <1>2, <2>2 DEF FrameInv, ListedStayUnreferenced, Live, TypeOK
  <2> QED
    BY <2>1, <2>2 DEF CountUnused, AllocateLru, FillLru, TypeOK, Frame
<1>4. FrameInv'
  BY <1>2, <1>3 DEF FrameInv, TooMuchMemory
<1> QED
  BY <1>1, <1>2, <1>4, FrameStep DEF TypeOK

(* The lock and the first tests of CreateBuffer. *)
LEMMA EnterInv ==
    ASSUME IInv, NEW t \in Thread, Enter(t)
    PROVE  IInv'
<1> USE DEF IInv
<1> DEFINE n == pending[t].size
<1>1. UNCHANGED <<table, meta, usedMemory, entryCount, handle, now>>
  BY DEF Enter
<1>2. mutex = None /\ pending[t] # None
  BY DEF Enter
<1>3. frame = Idle
  BY <1>2, NoneAssumption DEF FrameInv
<1>4. CASE n > MaxBufferSize
  <2>1. pending' = [pending EXCEPT ![t] = None] /\ UNCHANGED <<mutex, frame>>
    BY <1>4, SizesAssumption DEF Enter, TypeOK, Request
  <2>2. pending' \in [Thread -> Request \cup {None}]
    BY <2>1 DEF TypeOK
  <2>3. FrameInv'
    BY <1>3, <2>1, IdleFrame
  <2> QED
    BY <1>1, <2>1, <2>2, <2>3, FrameStep DEF TypeOK
<1>5. CASE ~(n > MaxBufferSize)
  <2>1. /\ mutex' = t /\ pending' = pending
        /\ frame' = CASE TooMuchMemory(n) -> Scan("memory")
                      [] ~TooMuchMemory(n) /\ TooManyEntries -> Scan("entries")
                      [] OTHER -> Insertion
    BY <1>5 DEF Enter
  <2>2. \/ TooMuchMemory(n) /\ frame' = Scan("memory")
        \/ ~TooMuchMemory(n) /\ TooManyEntries /\ frame' = Scan("entries")
        \/ ~TooMuchMemory(n) /\ ~TooManyEntries /\ frame' = Insertion
    BY <2>1
  <2>3. frame' \in Frame
    BY <2>2, StartFrame DEF Scan, Insertion, Live
  <2>4. FrameInv'
    BY <1>1, <1>2, <2>1, <2>2
       DEF FrameInv, Scan, Insertion, Start, ListedStayUnreferenced, TooMuchMemory, TooManyEntries
  <2> QED
    BY <1>1, <2>1, <2>3, <2>4, FrameStep DEF TypeOK
<1> QED
  BY <1>4, <1>5

(* CreateBuffer gives up and returns. *)
LEMMA ReturnInv ==
    ASSUME IInv, NEW t \in Thread, Return(t),
           UNCHANGED <<table, meta, usedMemory, entryCount, handle, now>>
    PROVE  IInv'
<1>1. mutex' \in Thread \cup {None} /\ pending' \in [Thread -> Request \cup {None}]
  BY DEF Return, IInv, TypeOK
<1>2. frame' = Idle
  BY DEF Return
<1> QED
  BY <1>1, <1>2, IdleFrame, FrameStep

(* The end of the scans. *)
LEMMA SortInv ==
    ASSUME IInv, NEW t \in Thread, SortLru(t)
    PROVE  IInv'
<1>1. UNCHANGED <<table, meta, usedMemory, entryCount, handle, now>>
  BY DEF SortLru
<1>2. CASE Return(t)
  BY <1>1, <1>2, ReturnInv
<1>3. CASE ~Return(t)
  <2>1. PICK order \in Sorted, w \in 1 .. frame.count :
          /\ frame' = [frame EXCEPT !.at = "evict", !.lru = order, !.want = w]
          /\ UNCHANGED <<mutex, pending>>
    BY <1>3 DEF SortLru
  <2>2. /\ frame.count \in Nat /\ frame.lru \in Seq(Buffer)
        /\ frame.at = "fill" /\ mutex = t
    BY DEF IInv, TypeOK, SortLru, Frame
  <2>3. order \in [1 .. frame.count -> {frame.lru[i] : i \in (1 .. frame.count) \cap DOMAIN frame.lru}]
    BY DEF Sorted
  <2>4. order \in Seq(Buffer)
    <3>1. {frame.lru[i] : i \in (1 .. frame.count) \cap DOMAIN frame.lru} \subseteq Buffer
      BY <2>2
    <3>2. order \in [1 .. frame.count -> Buffer]
      BY <2>3, <3>1
    <3> QED
      BY <2>2, <3>2
  <2>5. \A i \in DOMAIN order : \E j \in DOMAIN frame.lru : order[i] = frame.lru[j]
    BY <2>2, <2>3
  <2>6. frame \in Frame /\ w \in Nat
    BY <2>2 DEF IInv, TypeOK
  <2>7. frame' \in Frame
    BY <2>1, <2>4, <2>6 DEF Frame
  <2>8. frame'.at = "evict" /\ frame'.goal = frame.goal /\ frame'.lru = order
    BY <2>1, <2>6 DEF Frame
  <2>9. ListedStayUnreferenced'
    BY <1>1, <2>5, <2>8 DEF IInv, FrameInv, ListedStayUnreferenced, Live
  <2>10. FrameInv'
    BY <1>1, <2>1, <2>2, <2>8, <2>9 DEF IInv, FrameInv, TooMuchMemory
  <2> QED
    BY <1>1, <2>1, <2>7, <2>10, FrameStep DEF IInv, TypeOK
<1> QED
  BY <1>2, <1>3

(* The locals after one turn of the loop that frees. *)
LEMMA TurnFrame ==
    ASSUME TypeOK, frame.lru # <<>>,
           \/ frame' = [frame EXCEPT !.lru = Tail(@), !.freed = @ + 1]
           \/ frame' = [frame EXCEPT !.lru = Tail(@)]
    PROVE  /\ frame' \in Frame /\ frame'.at = frame.at /\ frame'.goal = frame.goal
           /\ \A i \in DOMAIN frame'.lru : \E j \in DOMAIN frame.lru : frame'.lru[i] = frame.lru[j]
<1>1. frame \in Frame /\ frame.lru \in Seq(Buffer) /\ frame.freed + 1 \in Nat
  BY DEF TypeOK, Frame
<1>2. Tail(frame.lru) \in Seq(Buffer) /\ frame'.lru = Tail(frame.lru)
  <2>1. Tail(frame.lru) \in Seq(Buffer)
    BY <1>1
  <2> QED
    BY <1>1, <2>1 DEF Frame
<1>3. frame' \in Frame /\ frame'.at = frame.at /\ frame'.goal = frame.goal
  <2>1. CASE frame' = [frame EXCEPT !.lru = Tail(@), !.freed = @ + 1]
    BY <1>1, <1>2, <2>1 DEF Frame
  <2>2. CASE frame' = [frame EXCEPT !.lru = Tail(@)]
    BY <1>1, <1>2, <2>2 DEF Frame
  <2> QED
    BY <2>1, <2>2
<1>4. \A i \in DOMAIN Tail(frame.lru) :
        i + 1 \in DOMAIN frame.lru /\ Tail(frame.lru)[i] = frame.lru[i + 1]
  BY <1>1
<1> QED
  BY <1>2, <1>3, <1>4

(* One turn of the loop that frees. *)
LEMMA EvictInv ==
    ASSUME IInv, NEW t \in Thread, Evict(t)
    PROVE  IInv'
<1> USE DEF IInv
<1>1. UNCHANGED <<mutex, handle, pending, now>>
  BY DEF Evict
<1>2. mutex = t /\ frame.at = "evict" /\ frame.lru # <<>>
  BY DEF Evict
<1>3. \/ frame' = [frame EXCEPT !.lru = Tail(@), !.freed = @ + 1]
      \/ frame' = [frame EXCEPT !.lru = Tail(@)]
  BY DEF Evict, DeleteBuffer
<1>4. /\ frame' \in Frame /\ frame'.at = "evict" /\ frame'.goal = frame.goal
      /\ \A i \in DOMAIN frame'.lru : \E j \in DOMAIN frame.lru : frame'.lru[i] = frame.lru[j]
  BY <1>2, <1>3, TurnFrame
<1>5. SUFFICES /\ table' \in [Slot -> Seq(Buffer)] /\ meta' \in [Buffer -> Meta \cup {None}]
               /\ usedMemory' \in Nat /\ entryCount' \in Nat
               /\ usedMemory' <= usedMemory
               /\ StoreInv'
               /\ Live' \subseteq Live /\ \A d \in Live' : meta'[d] = meta[d]
  <2>1. TypeOK'
    BY <1>1, <1>4, <1>5 DEF TypeOK
  <2>2. ListedStayUnreferenced'
    BY <1>4, <1>5 DEF FrameInv, ListedStayUnreferenced
  <2>3. pending[t] \in Request /\ pending[t].size \in Nat
    BY <1>2, SizesAssumption DEF FrameInv, TypeOK, Request
  <2>4. ~TooMuchMemory(pending[t].size) => ~TooMuchMemory(pending[t].size)'
    BY <1>1, <1>5, <2>3, SizesAssumption DEF TooMuchMemory, TypeOK
  <2>5. FrameInv'
    BY <1>1, <1>2, <1>4, <2>2, <2>4 DEF FrameInv
  <2> QED
    BY <1>5, <2>1, <2>5
<1>6. CASE \E k \in Key : \E i \in DOMAIN table[Hash[k]] :
             LET b == table[Hash[k]][i] IN
             /\ Deletable(k, i)
             /\ table' = [table EXCEPT ![Hash[k]] = Without(@, i)]
             /\ meta' = [meta EXCEPT ![b] = None]
             /\ usedMemory' = usedMemory - meta[b].size
             /\ entryCount' = entryCount - 1
  <2>0. PICK k \in Key : \E i \in DOMAIN table[Hash[k]] :
             LET b == table[Hash[k]][i] IN
             /\ Deletable(k, i)
             /\ table' = [table EXCEPT ![Hash[k]] = Without(@, i)]
             /\ meta' = [meta EXCEPT ![b] = None]
             /\ usedMemory' = usedMemory - meta[b].size
             /\ entryCount' = entryCount - 1
    BY <1>6
  <2>1. PICK i \in DOMAIN table[Hash[k]] :
             LET b == table[Hash[k]][i] IN
             /\ Deletable(k, i)
             /\ table' = [table EXCEPT ![Hash[k]] = Without(@, i)]
             /\ meta' = [meta EXCEPT ![b] = None]
             /\ usedMemory' = usedMemory - meta[b].size
             /\ entryCount' = entryCount - 1
    BY <2>0
  <2> DEFINE b == table[Hash[k]][i]
  <2>2. /\ table' \in [Slot -> Seq(Buffer)] /\ meta' \in [Buffer -> Meta \cup {None}]
        /\ usedMemory' \in Nat /\ entryCount' \in Nat
        /\ usedMemory' <= usedMemory
        /\ StoreInv'
        /\ Live' = Live \ {b}
    BY <1>1, <2>1, UnlinkInv
  <2>3. \A d \in Live' : meta'[d] = meta[d]
    BY <2>1, <2>2 DEF Live, TypeOK
  <2> QED
    BY <2>2, <2>3
<1>7. CASE UNCHANGED <<table, meta, usedMemory, entryCount>>
  <2>1. StoreInv'
    BY <1>1, <1>7, StoreUnchanged
  <2> QED
    BY <1>7, <2>1 DEF TypeOK, Live
<1> QED
  <2>1. Head(frame.lru) \in Live => meta[Head(frame.lru)].key \in Key
    BY DEF Live, TypeOK, Meta
  <2>2. \/ \E k \in Key : DeleteBuffer(k)
        \/ UNCHANGED <<table, meta, usedMemory, entryCount>>
    BY <2>1 DEF Evict
  <2> QED
    BY <1>6, <1>7, <2>2 DEF DeleteBuffer

(* The end of that loop. *)
LEMMA SettleInv ==
    ASSUME IInv, NEW t \in Thread, Settle(t)
    PROVE  IInv'
<1> DEFINE n == pending[t].size
<1>1. UNCHANGED <<table, meta, usedMemory, entryCount, handle, now>>
  BY DEF Settle
<1>2. mutex = t /\ frame.at = "evict" /\ frame \in Frame
  BY DEF Settle, IInv, TypeOK
<1>3. CASE Return(t)
  BY <1>1, <1>3, ReturnInv
<1>4. CASE ~Return(t)
  <2>1. /\ IF frame.goal = "memory" THEN ~TooMuchMemory(n) ELSE ~TooManyEntries
        /\ frame' = IF frame.goal = "memory" /\ TooManyEntries THEN Scan("entries") ELSE Insertion
        /\ UNCHANGED <<mutex, pending>>
    BY <1>4 DEF Settle
  <2>2. ~TooMuchMemory(n)
    BY <1>2, <2>1 DEF IInv, FrameInv, Frame
  <2>3. \/ TooManyEntries /\ frame' = Scan("entries")
        \/ ~TooManyEntries /\ frame' = Insertion
    BY <2>1
  <2>4. frame' \in Frame
    BY <2>3, StartFrame DEF Scan, Insertion, Live
  <2>5. FrameInv'
    BY <1>1, <1>2, <2>1, <2>2, <2>3
       DEF IInv, FrameInv, Scan, Insertion, Start, ListedStayUnreferenced,
           TooMuchMemory, TooManyEntries
  <2> QED
    BY <1>1, <2>1, <2>4, <2>5, FrameStep DEF IInv, TypeOK
<1> QED
  BY <1>3, <1>4

(* A lookup that hits, while no CreateBuffer runs. *)
LEMMA HitInv ==
    ASSUME IInv, NEW t \in Thread, NEW k \in Key, NEW h \in Handle, Hit(t, k, h)
    PROVE  IInv'
<1>1. PICK i \in DOMAIN table[Hash[k]] : Point(h, table[Hash[k]][i])
  BY DEF Hit
<1>2. table[Hash[k]][i] \in Live
  BY HashAssumption DEF IInv, StoreInv, ChainsWellFormed
<1>3. /\ mutex = None /\ handle[h] = None
      /\ UNCHANGED <<mutex, table, usedMemory, entryCount, pending, frame, now>>
  BY DEF Hit
<1>4. TypeOK' /\ StoreInv'
  BY <1>1, <1>2, <1>3, PointInv
<1>5. frame = Idle
  BY <1>3, NoneAssumption DEF IInv, FrameInv
<1>6. FrameInv'
  BY <1>3, <1>5, IdleFrame
<1> QED
  BY <1>4, <1>6 DEF IInv

(* IInv is inductive: one step per action. *)
LEMMA NextInv == IInv /\ [Next]_vars => IInv'
<1> SUFFICES ASSUME IInv, [Next]_vars PROVE IInv'
  OBVIOUS
<1>1. ASSUME NEW t \in Thread, NEW k \in Key, NEW n \in Sizes, CallCreateBuffer(t, k, n)
      PROVE  IInv'
  <2>1. /\ UNCHANGED <<table, meta, usedMemory, entryCount, handle, now, mutex, frame>>
        /\ pending' = [pending EXCEPT ![t] = [key |-> k, size |-> n]]
        /\ pending[t] = None
    BY <1>1 DEF CallCreateBuffer
  <2>2. pending' \in [Thread -> Request \cup {None}]
    BY <2>1 DEF IInv, TypeOK, Request
  <2>3. frame.at # "out" => pending'[mutex] = pending[mutex]
    BY <2>1 DEF IInv, FrameInv, TypeOK
  <2>4. frame.at \in {"count", "fill", "evict"} => frame.at # "out"
    OBVIOUS
  <2>5. frame.at = "insert" => frame.at # "out"
    OBVIOUS
  <2>6. FrameInv'
    BY <2>1, <2>3, <2>4, <2>5
       DEF IInv, FrameInv, ListedStayUnreferenced, Live, TooMuchMemory, TooManyEntries
  <2> QED
    BY <2>1, <2>2, <2>6, FrameStep DEF IInv, TypeOK
<1>2. ASSUME NEW t \in Thread, Enter(t) PROVE IInv'
  BY <1>2, EnterInv
<1>3. ASSUME NEW t \in Thread, Step(t) PROVE IInv'
  <2>1. CASE Insert(t)
    <3>1. frame' = Idle
      BY <2>1 DEF Insert, Return
    <3> QED
      BY <2>1, <3>1, InsertInv, IdleFrame DEF IInv
  <2>2. CASE mutex = t /\ AllocateLru
    BY <2>2, ScanInv
  <2> QED
    BY <1>3, <2>1, <2>2, ScanInv, SortInv, EvictInv, SettleInv DEF Step
<1>4. ASSUME NEW t \in Thread, NEW k \in Key, NEW h \in Handle,
             GetBuffer(t, k, h) \/ GetWriteBuffer(t, k, h)
      PROVE  IInv'
  <2>1. CASE Hit(t, k, h)
    BY <2>1, HitInv
  <2>2. CASE /\ mutex = None /\ mutex' = t
             /\ UNCHANGED <<table, meta, usedMemory, entryCount, handle, pending, frame, now>>
    <3>1. frame = Idle
      BY <2>2, NoneAssumption DEF IInv, FrameInv
    <3>2. FrameInv' /\ frame' \in Frame
      BY <2>2, <3>1, IdleFrame
    <3> QED
      BY <2>2, <3>2, FrameStep DEF IInv, TypeOK
  <2> QED
    BY <1>4, <2>1, <2>2 DEF GetBuffer, GetWriteBuffer
<1>5. ASSUME NEW h \in Handle, Release(h) PROVE IInv'
  <2>1. TypeOK' /\ StoreInv' /\ ListedStayUnreferenced'
    BY <1>5, ReleaseInv
  <2>2. UNCHANGED <<mutex, usedMemory, entryCount, pending, frame>>
    BY <1>5 DEF Release
  <2>3. FrameInv'
    BY <2>1, <2>2 DEF IInv, FrameInv, TooMuchMemory, TooManyEntries
  <2> QED
    BY <2>1, <2>3 DEF IInv
<1>6. CASE Tick
  <2>1. TypeOK'
    BY <1>6, SizesAssumption DEF Tick, IInv, TypeOK, Time
  <2>2. StoreInv'
    BY <1>6, StoreUnchanged DEF Tick, IInv
  <2>3. FrameInv'
    BY <1>6 DEF Tick, IInv, FrameInv, ListedStayUnreferenced, Live, TooMuchMemory, TooManyEntries
  <2> QED
    BY <2>1, <2>2, <2>3 DEF IInv
<1>7. CASE UNCHANGED vars
  <2>1. TypeOK'
    BY <1>7 DEF vars, IInv, TypeOK
  <2>2. StoreInv'
    BY <1>7, StoreUnchanged DEF vars, IInv
  <2>3. FrameInv'
    BY <1>7 DEF vars, IInv, FrameInv, ListedStayUnreferenced, Live, TooMuchMemory, TooManyEntries
  <2> QED
    BY <2>1, <2>2, <2>3 DEF IInv
<1> QED
  BY <1>1, <1>2, <1>3, <1>4, <1>5, <1>6, <1>7 DEF Next

(* The inductive invariant holds in every reachable state of the cache. *)
THEOREM Invariance == Spec => []IInv
<1>1. Init => IInv
  BY InitInv
<1>2. IInv /\ [Next]_vars => IInv'
  BY NextInv
<1> QED
  BY <1>1, <1>2, PTL DEF Spec

(* TypeOK holds of every reachable state.                                  *)
THEOREM TypeCorrect == Spec => []TypeOK
<1>1. IInv => TypeOK
  BY DEF IInv
<1> QED
  BY <1>1, Invariance, PTL

(* No eviction and no failed call ever destroys a buffer that somebody     *)
(* holds a handle of.                                                      *)
THEOREM PinnedBuffersLive == Spec => []HandlesPinBuffers
<1>1. IInv => HandlesPinBuffers
  BY DEF IInv, StoreInv
<1> QED
  BY <1>1, Invariance, PTL

(* No handle is lost from the count of its buffer, and none is counted      *)
(* twice: what evictions rely on.                                          *)
THEOREM ReferencesExact == Spec => []RefsCountHandles
<1>1. IInv => RefsCountHandles
  BY DEF IInv, StoreInv
<1> QED
  BY <1>1, Invariance, PTL

(* The totals are those of the live buffers, ...                           *)
THEOREM TotalsExact == Spec => []AccountingExact
<1>1. IInv => AccountingExact
  BY DEF IInv, StoreInv
<1> QED
  BY <1>1, Invariance, PTL

(* ... and stay within the limits. *)
THEOREM MemoryBounded == Spec => []WithinLimits
<1>1. IInv => WithinLimits
  BY DEF IInv, StoreInv
<1> QED
  BY <1>1, Invariance, PTL

(* Every live buffer is in one place of the table, the chain of its key.   *)
THEOREM TableWellFormed == Spec => []ChainsWellFormed
<1>1. IInv => ChainsWellFormed
  BY DEF IInv, StoreInv
<1> QED
  BY <1>1, Invariance, PTL

(* The unlocked reads of the counts are never stale when they are used.    *)
THEOREM ScansNotStale == Spec => []ListedStayUnreferenced
<1>1. IInv => ListedStayUnreferenced
  BY DEF IInv, FrameInv
<1> QED
  BY <1>1, Invariance, PTL

----------------------------------------------------------------------------
(* The lookups.                                                            *)

Stable == \A k \in Key : \A i \in DOMAIN table[Hash[k]] :
            FirstAt(k, i) /\ meta[table[Hash[k]][i]].refs > 0
            => \E j \in DOMAIN table'[Hash[k]] :
                  FirstAt(k, j)' /\ table'[Hash[k]][j] = table[Hash[k]][i]

(* A lookup that finds the same keys up to the same place gives that place. *)
LEMMA FirstAtKept ==
    ASSUME NEW k \in Key, NEW i \in Int, NEW j \in Int, FirstAt(k, i), j \in DOMAIN table'[Hash[k]],
           meta'[table'[Hash[k]][j]].key = meta[table[Hash[k]][i]].key,
           \A p \in 1 .. j - 1 : \E q \in 1 .. i - 1 :
              meta'[table'[Hash[k]][p]].key = meta[table[Hash[k]][q]].key
    PROVE  FirstAt(k, j)'
  BY DEF FirstAt

(* While the table and the keys stay, so does every lookup. *)
LEMMA SameTable ==
    ASSUME IInv, UNCHANGED table, \A b \in Live : meta'[b].key = meta[b].key
    PROVE  Stable
<1>1. \A k \in Key : \A i \in DOMAIN table[Hash[k]] : table[Hash[k]][i] \in Live
  BY HashAssumption DEF IInv, StoreInv, ChainsWellFormed
<1>2. \A k \in Key : table[Hash[k]] \in Seq(Buffer)
  BY HashAssumption DEF IInv, TypeOK
<1>3. ASSUME NEW k \in Key, NEW i \in DOMAIN table[Hash[k]], FirstAt(k, i) PROVE FirstAt(k, i)'
  <2>1. \A j \in 1 .. i - 1 : j \in DOMAIN table[Hash[k]]
    BY <1>2
  <2> QED
    BY <1>1, <1>3, <2>1 DEF FirstAt
<1> QED
  BY <1>3 DEF Stable

(* An insertion links its node behind every other of the chain. *)
LEMMA InsertStable ==
    ASSUME IInv, NEW t \in Thread, Insert(t)
    PROVE  Stable
<1> DEFINE s == Hash[pending[t].key]
<1>1. PICK b \in Buffer \ Live :
        table' = [table EXCEPT ![s] = Append(@, b)] /\ \A d \in Buffer : d # b => meta'[d] = meta[d]
  BY DEF Insert, IInv, TypeOK
<1>2. ASSUME NEW k \in Key PROVE table[Hash[k]] \in Seq(Buffer) /\ Hash[k] \in Slot
  BY HashAssumption DEF IInv, TypeOK
<1>3. ASSUME NEW k \in Key, NEW i \in DOMAIN table[Hash[k]]
      PROVE  i \in DOMAIN table'[Hash[k]] /\ table'[Hash[k]][i] = table[Hash[k]][i]
  BY <1>1, <1>2, AppendKeeps DEF IInv, TypeOK
<1>4. \A k \in Key : \A i \in DOMAIN table[Hash[k]] :
        meta'[table[Hash[k]][i]] = meta[table[Hash[k]][i]]
  BY <1>1, HashAssumption DEF IInv, StoreInv, ChainsWellFormed, Live
<1>5. ASSUME NEW k \in Key, NEW i \in DOMAIN table[Hash[k]], FirstAt(k, i) PROVE FirstAt(k, i)'
  <2>1. i \in Int /\ \A j \in 1 .. i - 1 : j \in DOMAIN table[Hash[k]]
    BY <1>2
  <2>2. \A j \in 1 .. i - 1 : meta'[table'[Hash[k]][j]].key = meta[table[Hash[k]][j]].key
    BY <1>3, <1>4, <2>1
  <2>3. i \in DOMAIN table'[Hash[k]]
        /\ meta'[table'[Hash[k]][i]].key = meta[table[Hash[k]][i]].key
    BY <1>3, <1>4
  <2> QED
    BY <1>5, <2>1, <2>2, <2>3, FirstAtKept
<1> QED
  BY <1>3, <1>5 DEF Stable

(* An eviction unlinks an unreferenced node, so never the one that a lookup *)
(* gives while it is held.                                                 *)
LEMMA EvictStable ==
    ASSUME IInv, NEW k0 \in Key, NEW i0 \in DOMAIN table[Hash[k0]], Deletable(k0, i0),
           table' = [table EXCEPT ![Hash[k0]] = Without(@, i0)],
           meta' = [meta EXCEPT ![table[Hash[k0]][i0]] = None]
    PROVE  Stable
<1> SUFFICES ASSUME NEW k \in Key, NEW i \in DOMAIN table[Hash[k]],
                    FirstAt(k, i), meta[table[Hash[k]][i]].refs > 0
             PROVE  \E j \in DOMAIN table'[Hash[k]] :
                      FirstAt(k, j)' /\ table'[Hash[k]][j] = table[Hash[k]][i]
  BY DEF Stable
<1> DEFINE b == table[Hash[k0]][i0]
           c == table[Hash[k]]
           w == table'[Hash[k]]
<1>1. /\ c \in Seq(Buffer) /\ Hash[k] \in Slot /\ Hash[k0] \in Slot
      /\ table[Hash[k0]] \in Seq(Buffer)
  BY HashAssumption DEF IInv, TypeOK
<1>2. ChainsWellFormed
  BY DEF IInv, StoreInv
<1>3. b \in Live /\ meta[b].refs = 0
  BY <1>1, <1>2 DEF ChainsWellFormed, Deletable
<1>4. \A d \in Buffer : d # b => meta'[d] = meta[d]
  BY DEF IInv, TypeOK
<1>5. c[i] # b /\ \A j \in 1 .. i : j \in DOMAIN c
  BY <1>1, <1>3
<1>6. CASE Hash[k] # Hash[k0]
  <2>1. w = c
    BY <1>1, <1>6 DEF IInv, TypeOK
  <2>2. \A j \in DOMAIN c : c[j] \in Live /\ Hash[meta[c[j]].key] = Hash[k]
    BY <1>1, <1>2 DEF ChainsWellFormed
  <2>3. Hash[meta[b].key] = Hash[k0]
    BY <1>1, <1>2 DEF ChainsWellFormed
  <2>4. \A j \in DOMAIN c : c[j] # b
    BY <1>6, <2>2, <2>3
  <2>5. \A j \in DOMAIN c : meta'[c[j]] = meta[c[j]]
    BY <1>1, <1>4, <2>4
  <2>6. i \in Int /\ \A j \in 1 .. i - 1 : meta'[w[j]].key = meta[c[j]].key
    BY <1>1, <1>5, <2>1, <2>5
  <2>7. i \in DOMAIN w /\ meta'[w[i]].key = meta[c[i]].key
    BY <2>1, <2>5
  <2>8. FirstAt(k, i)'
    BY <2>6, <2>7, FirstAtKept
  <2> QED
    BY <2>1, <2>8
<1>7. CASE Hash[k] = Hash[k0]
  <2>1. /\ DOMAIN w = 1 .. Len(c) - 1 /\ DOMAIN c = 1 .. Len(c) /\ Len(c) \in Nat
        /\ \A j \in DOMAIN w : w[j] = IF j < i0 THEN c[j] ELSE c[j + 1]
    BY <1>1, <1>7 DEF IInv, TypeOK, Without
  <2>2. i0 \in DOMAIN c /\ c[i0] = b /\ i # i0
    BY <1>5, <1>7
  <2>3. \A p, q \in DOMAIN c : c[p] = c[q] => p = q
    BY <1>1, <1>2 DEF ChainsWellFormed
  <2>4. \A j \in DOMAIN c : j # i0 => meta'[c[j]] = meta[c[j]]
    BY <1>1, <1>4, <2>2, <2>3
  <2>5. CASE i < i0
    <3>1. i \in DOMAIN w /\ i \in Int /\ \A j \in 1 .. i : w[j] = c[j] /\ j # i0
      BY <2>1, <2>2, <2>5
    <3>2. w[i] = c[i] /\ meta'[w[i]].key = meta[c[i]].key
      BY <2>1, <2>2, <2>4, <3>1
    <3>3. \A j \in 1 .. i - 1 : meta'[w[j]].key = meta[c[j]].key
      BY <1>5, <2>1, <2>4, <3>1
    <3>4. FirstAt(k, i)'
      BY <3>1, <3>2, <3>3, FirstAtKept
    <3> QED
      BY <3>1, <3>2, <3>4
  <2>6. CASE i > i0
    <3>1. i - 1 \in DOMAIN w /\ w[i - 1] = c[i]
      BY <2>1, <2>2, <2>6
    <3>2. \A j \in 1 .. (i - 1) - 1 : \E p \in 1 .. i - 1 : p # i0 /\ p \in DOMAIN c /\ w[j] = c[p]
      <4> SUFFICES ASSUME NEW j \in 1 .. (i - 1) - 1
                   PROVE  \E p \in 1 .. i - 1 : p # i0 /\ p \in DOMAIN c /\ w[j] = c[p]
        OBVIOUS
      <4>1. CASE j < i0
        <5>1. j \in 1 .. i - 1 /\ j # i0 /\ j \in DOMAIN c /\ j \in DOMAIN w /\ w[j] = c[j]
          BY <2>1, <2>2, <2>6, <4>1
        <5> QED
          BY <5>1
      <4>2. CASE ~(j < i0)
        <5>1. j + 1 \in 1 .. i - 1 /\ j + 1 # i0 /\ j + 1 \in DOMAIN c /\ w[j] = c[j + 1]
          BY <2>1, <2>2, <2>6, <4>2
        <5> QED
          BY <5>1
      <4> QED
        BY <4>1, <4>2
    <3>3. \A p \in 1 .. i - 1 : meta[c[p]].key # k
      BY DEF FirstAt
    <3>4. \A j \in 1 .. (i - 1) - 1 : meta'[w[j]].key # k
      BY <2>4, <3>2, <3>3
    <3>5. meta'[w[i - 1]].key = k
      BY <2>2, <2>4, <3>1 DEF FirstAt
    <3>6. FirstAt(k, i - 1)'
      BY <3>1, <3>4, <3>5 DEF FirstAt
    <3> QED
      BY <3>1, <3>6
  <2> QED
    BY <2>1, <2>2, <2>5, <2>6
<1> QED
  BY <1>6, <1>7

(* While somebody holds the buffer that a lookup gives, every later lookup *)
(* of that key gives the same buffer.                                      *)
THEOREM LookupsStable == Spec => HeldLookupStable
<1>1. IInv /\ [Next]_vars => Stable \/ UNCHANGED vars
  <2> SUFFICES ASSUME IInv, Next PROVE Stable
    BY DEF vars
  <2>1. ASSUME UNCHANGED <<table, meta>> PROVE Stable
    BY <2>1, SameTable
  <2>2. ASSUME NEW t \in Thread, Step(t) PROVE Stable
    <3>1. CASE \E k \in Key : \E i \in DOMAIN table[Hash[k]] :
                 /\ Deletable(k, i)
                 /\ table' = [table EXCEPT ![Hash[k]] = Without(@, i)]
                 /\ meta' = [meta EXCEPT ![table[Hash[k]][i]] = None]
      BY <3>1, EvictStable
    <3>2. Head(frame.lru) \in Live => meta[Head(frame.lru)].key \in Key
      BY DEF Live, IInv, TypeOK, Meta
    <3>3. CASE Evict(t)
      BY <2>1, <3>1, <3>2, <3>3 DEF Evict, DeleteBuffer
    <3>4. CASE Insert(t)
      BY <3>4, InsertStable
    <3> QED
      BY <2>1, <2>2, <3>3, <3>4 DEF Step, CountUnused, FillLru, AllocateLru, SortLru, Settle
  <2>3. ASSUME NEW t \in Thread, NEW k \in Key, NEW h \in Handle, Hit(t, k, h) PROVE Stable
    <3>1. PICK i \in DOMAIN table[Hash[k]] : Point(h, table[Hash[k]][i])
      BY <2>3 DEF Hit
    <3> DEFINE b == table[Hash[k]][i]
    <3>2. b \in Live
      BY HashAssumption DEF IInv, StoreInv, ChainsWellFormed
    <3>3. \A d \in Live : meta'[d].key = meta[d].key
      BY <3>1, <3>2 DEF Point, Live, IInv, TypeOK, Meta
    <3> QED
      BY <2>3, <3>3, SameTable DEF Hit
  <2>4. ASSUME NEW h \in Handle, Release(h) PROVE Stable
    <3>1. \A d \in Live : meta'[d].key = meta[d].key
      BY <2>4 DEF Release, Live, IInv, TypeOK, Meta
    <3> QED
      BY <2>4, <3>1, SameTable DEF Release
  <2>5. ASSUME NEW t \in Thread, NEW k \in Key, NEW n \in Sizes, CallCreateBuffer(t, k, n)
        PROVE  Stable
    BY <2>1, <2>5 DEF CallCreateBuffer
  <2>6. ASSUME NEW t \in Thread, Enter(t) PROVE Stable
    BY <2>1, <2>6 DEF Enter
  <2>7. ASSUME NEW t \in Thread, NEW k \in Key, NEW h \in Handle,
               GetBuffer(t, k, h) \/ GetWriteBuffer(t, k, h)
        PROVE  Stable
    BY <2>1, <2>3, <2>7 DEF GetBuffer, GetWriteBuffer
  <2>8. ASSUME Tick PROVE Stable
    BY <2>1, <2>8 DEF Tick
  <2> QED
    BY <2>2, <2>4, <2>5, <2>6, <2>7, <2>8 DEF Next
<1>2. Stable \/ UNCHANGED vars <=> [Stable]_vars
  BY DEF vars
<1>3. IInv /\ [Next]_vars => [Stable]_vars
  BY <1>1, <1>2
<1>4. Spec => [][Stable]_vars
  BY <1>3, Invariance, PTL DEF Spec
<1> QED
  BY <1>4, PTL DEF HeldLookupStable, Stable

----------------------------------------------------------------------------
(* The order of the evictions.                                             *)

(* While the loop frees, what is left of the list is in the order of the    *)
(* stamps, as far as it is still there: releases leave the stamps alone, and *)
(* a lookup, which renews one, waits for the mutex.                         *)
LruSorted ==
    frame.at = "evict" =>
        \A i, j \in DOMAIN frame.lru :
            i < j /\ frame.lru[i] \in Live /\ frame.lru[j] \in Live
            => meta[frame.lru[i]].stamp <= meta[frame.lru[j]].stamp

(* One turn of the loop takes the head off the list, and what it leaves     *)
(* alive it leaves as it was.                                               *)
LEMMA EvictShrinks ==
    ASSUME IInv, NEW t \in Thread, Evict(t)
    PROVE  /\ frame.at = "evict" /\ frame.lru # <<>> /\ frame'.lru = Tail(frame.lru)
           /\ \A d \in Live' : d \in Live /\ meta'[d] = meta[d]
<1>1. frame \in Frame /\ frame.at = "evict" /\ frame.lru # <<>>
  BY DEF Evict, IInv, TypeOK
<1>2. \/ frame' = [frame EXCEPT !.lru = Tail(@), !.freed = @ + 1]
      \/ frame' = [frame EXCEPT !.lru = Tail(@)]
  BY DEF Evict, DeleteBuffer
<1>3. frame'.lru = Tail(frame.lru)
  <2>1. CASE frame' = [frame EXCEPT !.lru = Tail(@), !.freed = @ + 1]
    BY <1>1, <2>1 DEF Frame
  <2>2. CASE frame' = [frame EXCEPT !.lru = Tail(@)]
    BY <1>1, <2>2 DEF Frame
  <2> QED
    BY <1>2, <2>1, <2>2
<1>4. UNCHANGED meta \/ \E b : meta' = [meta EXCEPT ![b] = None]
  BY DEF Evict, DeleteBuffer
<1>5. \A d \in Live' : d \in Live /\ meta'[d] = meta[d]
  BY <1>4 DEF Live, IInv, TypeOK
<1> QED
  BY <1>1, <1>3, <1>5

(* qsort puts the list in order, a turn of the loop and a release leave it  *)
(* so, and everything else happens outside of the loop.                     *)
LEMMA LruStep == IInv /\ LruSorted /\ [Next]_vars => LruSorted'
<1> SUFFICES ASSUME IInv, LruSorted, [Next]_vars PROVE LruSorted'
  OBVIOUS
<1>1. frame \in Frame /\ frame.lru \in Seq(Buffer)
  BY DEF IInv, TypeOK, Frame
<1>2. ASSUME UNCHANGED frame, \A b \in Live' : b \in Live /\ meta'[b].stamp = meta[b].stamp
      PROVE  LruSorted'
  BY <1>2 DEF LruSorted
<1>3. ASSUME frame'.at # "evict" PROVE LruSorted'
  BY <1>3 DEF LruSorted
<1>4. ASSUME frame' = Idle PROVE LruSorted'
  BY <1>3, <1>4 DEF Idle, Start
<1>5. ASSUME UNCHANGED <<meta, frame>> PROVE LruSorted'
  BY <1>2, <1>5 DEF Live
<1>6. ASSUME NEW t \in Thread, Enter(t) PROVE LruSorted'
  <2>1. frame' \in {frame, Scan("memory"), Scan("entries"), Insertion}
    BY <1>6 DEF Enter
  <2>2. frame = Idle
    BY <1>6, NoneAssumption DEF IInv, FrameInv, Enter
  <2> QED
    BY <1>3, <2>1, <2>2 DEF Scan, Insertion, Idle, Start
<1>7. ASSUME NEW b, CountUnused(b) \/ AllocateLru \/ FillLru(b) PROVE LruSorted'
  <2>1. frame'.at # "evict"
    BY <1>1, <1>7 DEF CountUnused, AllocateLru, FillLru, Frame
  <2> QED
    BY <1>3, <2>1
<1>8. ASSUME NEW t \in Thread, SortLru(t) PROVE LruSorted'
  <2>1. CASE Return(t)
    BY <1>4, <2>1 DEF Return
  <2>2. CASE ~Return(t)
    <3>1. PICK order \in Sorted, w \in 1 .. frame.count :
            frame' = [frame EXCEPT !.at = "evict", !.lru = order, !.want = w]
      BY <1>8, <2>2 DEF SortLru
    <3>2. frame'.lru = order
      BY <1>1, <3>1 DEF Frame
    <3>3. DOMAIN order = 1 .. frame.count
      BY DEF Sorted
    <3>4. \A i, j \in 1 .. frame.count : i < j => meta[order[i]].stamp <= meta[order[j]].stamp
      BY DEF Sorted
    <3>5. UNCHANGED meta
      BY <1>8 DEF SortLru
    <3> QED
      BY <3>2, <3>3, <3>4, <3>5 DEF LruSorted
  <2> QED
    BY <2>1, <2>2
<1>9. ASSUME NEW t \in Thread, Evict(t) PROVE LruSorted'
  <2>1. /\ frame.at = "evict" /\ frame.lru # <<>> /\ frame'.lru = Tail(frame.lru)
        /\ \A d \in Live' : d \in Live /\ meta'[d] = meta[d]
    BY <1>9, EvictShrinks
  <2>2. \A i \in DOMAIN Tail(frame.lru) :
          i + 1 \in DOMAIN frame.lru /\ Tail(frame.lru)[i] = frame.lru[i + 1]
    BY <1>1, <2>1
  <2>3. SUFFICES ASSUME NEW i \in DOMAIN Tail(frame.lru), NEW j \in DOMAIN Tail(frame.lru), i < j,
                        frame.lru[i + 1] \in Live', frame.lru[j + 1] \in Live'
                 PROVE  meta[frame.lru[i + 1]].stamp <= meta[frame.lru[j + 1]].stamp
    BY <2>1, <2>2 DEF LruSorted
  <2>4. i \in Int /\ j \in Int /\ i + 1 < j + 1
    BY <1>1, <2>1, <2>3
  <2> QED
    BY <2>1, <2>2, <2>3, <2>4 DEF LruSorted
<1>10. ASSUME NEW t \in Thread, Settle(t) PROVE LruSorted'
  <2>1. frame' \in {Idle, Scan("entries"), Insertion}
    BY <1>10 DEF Settle, Return
  <2> QED
    BY <1>3, <2>1 DEF Idle, Scan, Insertion, Start
<1>11. ASSUME NEW t \in Thread, Step(t) PROVE LruSorted'
  <2>1. CASE Insert(t)
    BY <1>4, <2>1 DEF Insert, Return
  <2> QED
    BY <1>7, <1>8, <1>9, <1>10, <1>11, <2>1 DEF Step
<1>12. ASSUME NEW t \in Thread, NEW k \in Key, NEW h \in Handle,
              GetBuffer(t, k, h) \/ GetWriteBuffer(t, k, h)
       PROVE  LruSorted'
  <2>1. mutex = None /\ UNCHANGED frame
    BY <1>12 DEF GetBuffer, GetWriteBuffer, Hit
  <2>2. frame = Idle
    BY <2>1, NoneAssumption DEF IInv, FrameInv
  <2> QED
    BY <1>4, <2>1, <2>2
<1>13. ASSUME NEW h \in Handle, Release(h) PROVE LruSorted'
  <2>1. UNCHANGED frame
    BY <1>13 DEF Release
  <2>2. handle[h] \in Live
    BY <1>13 DEF Release, IInv, StoreInv, HandlesPinBuffers
  <2>3. \A b \in Live' : b \in Live /\ meta'[b].stamp = meta[b].stamp
    BY <1>13, <2>2 DEF Release, Live, IInv, TypeOK, Meta
  <2> QED
    BY <1>2, <2>1, <2>3
<1>14. CASE UNCHANGED vars
  BY <1>5, <1>14 DEF vars
<1>15. CASE Tick
  BY <1>5, <1>15 DEF Tick
<1>16. ASSUME NEW t \in Thread, NEW k \in Key, NEW n \in Sizes, CallCreateBuffer(t, k, n)
       PROVE  LruSorted'
  BY <1>5, <1>16 DEF CallCreateBuffer
<1> QED
  BY <1>6, <1>11, <1>12, <1>13, <1>14, <1>15, <1>16 DEF Next

(* The list stays in order for as long as the loop runs. *)
LEMMA LruStaysSorted == Spec => []LruSorted
<1>1. Init => LruSorted
  BY DEF Init, Idle, Start, LruSorted
<1> QED
  BY <1>1, LruStep, Invariance, PTL DEF Spec

(* The formula of EvictsOldest on one step. *)
OldestGoes ==
    \A b \in Live \ Live' :
        OnlyOfItsKey(b) /\ Head(frame.lru) \in Live =>
            \A i \in DOMAIN frame.lru :
                frame.lru[i] \in Live => meta[b].stamp <= meta[frame.lru[i]].stamp

(* A turn of the loop destroys a buffer with the key of the head.           *)
LEMMA EvictsItsKey ==
    ASSUME IInv, NEW t \in Thread, Evict(t), NEW b \in Live \ Live', Head(frame.lru) \in Live
    PROVE  meta[b].key = meta[Head(frame.lru)].key
<1> DEFINE k == meta[Head(frame.lru)].key
<1>1. k \in Key /\ table[Hash[k]] \in Seq(Buffer)
  BY HashAssumption DEF Live, IInv, TypeOK, Meta
<1>2. DeleteBuffer(k) \/ UNCHANGED meta
  BY DEF Evict
<1>3. DeleteBuffer(k)
  BY <1>2 DEF Live
<1>4. PICK i \in DOMAIN table[Hash[k]] :
        FirstAt(k, i) /\ meta' = [meta EXCEPT ![table[Hash[k]][i]] = None]
  BY <1>3 DEF DeleteBuffer, Deletable, Live
<1>5. b = table[Hash[k]][i]
  BY <1>4 DEF Live, IInv, TypeOK
<1> QED
  BY <1>4, <1>5 DEF FirstAt

(* The evictions follow the order of last use: what the loop frees is the   *)
(* least recently used of what is left of its list.                         *)
THEOREM EvictionInOrder == Spec => EvictsOldest
<1>1. IInv /\ LruSorted /\ [Next]_vars => [OldestGoes]_vars
  <2> SUFFICES ASSUME IInv, LruSorted, Next PROVE OldestGoes
    BY DEF vars
  <2>1. ASSUME Live \subseteq Live' PROVE OldestGoes
    BY <2>1 DEF OldestGoes
  <2>2. ASSUME UNCHANGED meta PROVE OldestGoes
    BY <2>1, <2>2 DEF Live
  <2>3. ASSUME NEW t \in Thread, Evict(t) PROVE OldestGoes
    <3>1. frame.at = "evict" /\ frame.lru # <<>> /\ frame.lru \in Seq(Buffer)
      BY <2>3 DEF Evict, IInv, TypeOK, Frame
    <3>2. Head(frame.lru) = frame.lru[1] /\ 1 \in DOMAIN frame.lru
      BY <3>1
    <3>3. SUFFICES ASSUME NEW b \in Live \ Live', OnlyOfItsKey(b), Head(frame.lru) \in Live,
                          NEW i \in DOMAIN frame.lru, frame.lru[i] \in Live
                   PROVE  meta[b].stamp <= meta[frame.lru[i]].stamp
      BY DEF OldestGoes
    <3>4. b = frame.lru[1]
      BY <2>3, <3>2, <3>3, EvictsItsKey DEF OnlyOfItsKey
    <3>5. CASE i = 1
      BY <3>3, <3>4, <3>5 DEF Live, IInv, TypeOK, Meta, Time
    <3>6. CASE i # 1
      <4>1. 1 < i
        BY <3>1, <3>6
      <4> QED
        BY <3>1, <3>2, <3>3, <3>4, <4>1 DEF LruSorted
    <3> QED
      BY <3>5, <3>6
  <2>4. ASSUME NEW b \in Buffer, NEW m, m # None, meta' = [meta EXCEPT ![b] = m] PROVE OldestGoes
    <3>1. Live \subseteq Live'
      BY <2>4 DEF Live, IInv, TypeOK
    <3> QED
      BY <2>1, <3>1
  <2>5. ASSUME NEW t \in Thread, Insert(t) PROVE OldestGoes
    <3>1. PICK b \in Buffer \ Live, garbage \in Time :
            meta' = [meta EXCEPT ![b] = [key |-> pending[t].key, size |-> pending[t].size,
                                         refs |-> 0, stamp |-> garbage]]
      BY <2>5 DEF Insert
    <3>2. Live \subseteq Live'
      BY <3>1 DEF Live, IInv, TypeOK
    <3> QED
      BY <2>1, <3>2
  <2>6. ASSUME NEW t \in Thread, Step(t) PROVE OldestGoes
    BY <2>2, <2>3, <2>5, <2>6 DEF Step, CountUnused, FillLru, AllocateLru, SortLru, Settle
  <2>7. ASSUME UNCHANGED table PROVE OldestGoes
    <3>1. IInv'
      BY NextInv
    <3>2. ASSUME NEW b \in Live PROVE b \in Live'
      <4> DEFINE s == Hash[meta[b].key]
      <4>1. s \in Slot
        BY HashAssumption DEF Live, IInv, TypeOK, Meta
      <4>2. PICK i \in DOMAIN table[s] : table[s][i] = b
        BY DEF IInv, StoreInv, ChainsWellFormed
      <4> QED
        BY <2>7, <3>1, <4>1, <4>2 DEF IInv, StoreInv, ChainsWellFormed
    <3> QED
      BY <2>1, <3>2
  <2> QED
    BY <2>2, <2>6, <2>7
       DEF Next, CallCreateBuffer, Enter, GetBuffer, GetWriteBuffer, Hit, Release, Tick
<1> QED
  BY <1>1, LruStaysSorted, Invariance, PTL DEF Spec, EvictsOldest, OldestGoes

----------------------------------------------------------------------------
(* The end of a CreateBuffer.                                              *)

(* A count of the scan is nearer to its end. *)
LEMMA ScanAdvances ==
    ASSUME IInv, NEW b \in frame.unread,
           frame.at \in {"count", "fill"}, frame'.at = frame.at, frame'.goal = frame.goal,
           frame'.unread = frame.unread \ {b}
    PROVE  PartsLeft(frame') = PartsLeft(frame) /\ WorkLeft(frame') < WorkLeft(frame)
<1> DEFINE U == frame.unread
<1>1. IsFiniteSet(U)
  BY HeapAssumption, FS_Subset DEF IInv, TypeOK, Frame
<1>2. Cardinality(U \ {b}) = Cardinality(U) - 1 /\ Cardinality(U) \in Nat
  BY <1>1, FS_RemoveElement, FS_CardinalityType
<1>3. WorkLeft(frame') = Cardinality(U \ {b}) /\ WorkLeft(frame) = Cardinality(U)
  BY DEF WorkLeft
<1>4. PartsLeft(frame') = PartsLeft(frame)
  BY DEF PartsLeft
<1> QED
  BY <1>2, <1>3, <1>4

(* The formula of HolderAdvances on one step. *)
Advance ==
    \/ mutex' = None
    \/ PartsLeft(frame') < PartsLeft(frame)
    \/ PartsLeft(frame') = PartsLeft(frame) /\ WorkLeft(frame') < WorkLeft(frame)

(* Each step of the call that holds the mutex advances. *)
LEMMA StepAdvances ==
    ASSUME IInv, NEW t \in Thread, Step(t)
    PROVE  Advance
<1>1. frame \in Frame /\ frame.lru \in Seq(Buffer)
  BY DEF IInv, TypeOK, Frame
<1>2. ASSUME NEW b, CountUnused(b) \/ FillLru(b) PROVE Advance
  <2>1. /\ frame.at \in {"count", "fill"} /\ b \in frame.unread
        /\ frame'.at = frame.at /\ frame'.goal = frame.goal
        /\ frame'.unread = frame.unread \ {b}
    BY <1>1, <1>2 DEF CountUnused, FillLru, Frame
  <2> QED
    BY <2>1, ScanAdvances DEF Advance
<1>3. ASSUME AllocateLru PROVE Advance
  <2>1. frame.at = "count" /\ frame'.at = "fill" /\ frame'.goal = frame.goal
    BY <1>1, <1>3 DEF AllocateLru, Frame
  <2> QED
    BY <2>1 DEF Advance, PartsLeft
<1>4. ASSUME SortLru(t) PROVE Advance
  <2>1. CASE Return(t)
    BY <2>1 DEF Return, Advance
  <2>2. CASE ~Return(t)
    <3>1. frame.at = "fill" /\ frame'.at = "evict" /\ frame'.goal = frame.goal
      BY <1>1, <1>4, <2>2 DEF SortLru, Frame
    <3> QED
      BY <3>1 DEF Advance, PartsLeft
  <2> QED
    BY <2>1, <2>2
<1>5. ASSUME Evict(t) PROVE Advance
  <2>1. frame.at = "evict" /\ frame.lru # <<>> /\ frame'.lru = Tail(frame.lru)
    BY <1>5, EvictShrinks
  <2>2. \/ frame' = [frame EXCEPT !.lru = Tail(@), !.freed = @ + 1]
        \/ frame' = [frame EXCEPT !.lru = Tail(@)]
    BY <1>5 DEF Evict, DeleteBuffer
  <2>3. frame'.at = "evict" /\ frame'.goal = frame.goal
    BY <2>1, <2>2, TurnFrame DEF IInv
  <2>4. Len(Tail(frame.lru)) < Len(frame.lru)
    BY <1>1, <2>1
  <2> QED
    BY <2>1, <2>3, <2>4 DEF Advance, PartsLeft, WorkLeft
<1>6. ASSUME Settle(t) PROVE Advance
  <2>1. frame.at = "evict"
    BY <1>6 DEF Settle
  <2>2. CASE Return(t)
    BY <2>2 DEF Return, Advance
  <2>3. CASE frame' = Insertion
    BY <2>1, <2>3 DEF Insertion, Start, Advance, PartsLeft
  <2>4. CASE frame.goal = "memory" /\ frame' = Scan("entries")
    BY <2>1, <2>4 DEF Scan, Start, Advance, PartsLeft
  <2> QED
    BY <1>6, <2>2, <2>3, <2>4 DEF Settle
<1>7. ASSUME Insert(t) PROVE Advance
  BY <1>7 DEF Insert, Return, Advance
<1> QED
  BY <1>2, <1>3, <1>4, <1>5, <1>6, <1>7 DEF Step

(* Whoever gets the mutex for a CreateBuffer gives it up after a number of  *)
(* its own steps that the number of buffers bounds, whatever else happens.  *)
THEOREM HolderComesThrough == Spec => HolderAdvances
<1> DEFINE A == frame.at # "out" =>
                  IF \E t \in Thread : Step(t) THEN Advance ELSE UNCHANGED <<mutex, frame>>
<1>1. IInv /\ [Next]_vars => [A]_vars
  <2> SUFFICES ASSUME IInv, Next, frame.at # "out", ~\E t \in Thread : Step(t)
               PROVE  UNCHANGED <<mutex, frame>>
    BY StepAdvances DEF vars
  <2>1. mutex # None
    BY NoneAssumption DEF IInv, FrameInv
  <2> QED
    BY <2>1 DEF Next, CallCreateBuffer, Enter, GetBuffer, GetWriteBuffer, Hit, Release, Tick
<1>2. Spec => [][A]_vars
  BY <1>1, Invariance, PTL DEF Spec
<1> QED
  BY <1>2, PTL DEF HolderAdvances, Advance
=============================================================================
