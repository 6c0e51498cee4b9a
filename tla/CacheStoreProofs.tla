-------------------------- MODULE CacheStoreProofs --------------------------
(***************************************************************************)
(* The proof that Cache implements BufferStore.                            *)
(***************************************************************************)
EXTENDS CacheProofs

(* Whoever holds a buffer of a key holds the one that a lookup gives. *)
Shared == \A h \in Handle : handle[h] # None => Lookup(meta[handle[h]].key) = handle[h]

SInv == IInv /\ Shared

----------------------------------------------------------------------------
(* The lookup of k in the chain c of buffers that m describes.             *)

First(c, m, k, i) ==
    /\ i \in DOMAIN c
    /\ m[c[i]].key = k
    /\ \A j \in 1 .. i - 1 : m[c[j]].key # k

Gives(c, m, k) ==
    IF \E i \in DOMAIN c : First(c, m, k, i)
    THEN c[CHOOSE i \in DOMAIN c : First(c, m, k, i)] ELSE None

LEMMA FirstGiven ==
    ASSUME NEW c \in Seq(Buffer), NEW m, NEW k, NEW i \in DOMAIN c, First(c, m, k, i)
    PROVE  Gives(c, m, k) = c[i]
<1> DEFINE n == CHOOSE j \in DOMAIN c : First(c, m, k, j)
<1>1. n \in DOMAIN c /\ First(c, m, k, n)
  OBVIOUS
<1> HIDE DEF n
<1>2. n = i
  BY <1>1 DEF First
<1>3. Gives(c, m, k) = c[n]
  BY DEF Gives, n
<1> QED
  BY <1>2, <1>3

LEMMA LookupGives ==
    ASSUME NEW k \in Key
    PROVE  /\ Lookup(k) = Gives(table[Hash[k]], meta, k)
           /\ Lookup(k)' = Gives(table'[Hash[k]], meta', k)
<1>1. Lookup(k) = Gives(table[Hash[k]], meta, k)
  BY DEF Lookup, Gives, Cached, FirstAt, First
<1>2. Lookup(k)' = Gives(table'[Hash[k]], meta', k)
  BY DEF Lookup, Gives, Cached, FirstAt, First
<1> QED
  BY <1>1, <1>2

LEMMA SameGives ==
    ASSUME NEW c \in Seq(Buffer), NEW w \in Seq(Buffer), NEW m, NEW n, NEW k,
           \A i \in DOMAIN c : First(c, m, k, i)
              => \E j \in DOMAIN w : First(w, n, k, j) /\ w[j] = c[i],
           \A j \in DOMAIN w : First(w, n, k, j) => \E i \in DOMAIN c : First(c, m, k, i)
    PROVE  Gives(w, n, k) = Gives(c, m, k)
<1>1. CASE \E i \in DOMAIN c : First(c, m, k, i)
  <2>1. PICK i \in DOMAIN c : First(c, m, k, i)
    BY <1>1
  <2>2. PICK j \in DOMAIN w : First(w, n, k, j) /\ w[j] = c[i]
    BY <2>1
  <2>3. Gives(c, m, k) = c[i]
    BY <2>1, FirstGiven
  <2>4. Gives(w, n, k) = w[j]
    BY <2>2, FirstGiven
  <2> QED
    BY <2>2, <2>3, <2>4
<1>2. CASE ~\E i \in DOMAIN c : First(c, m, k, i)
  <2>1. ~\E j \in DOMAIN w : First(w, n, k, j)
    BY <1>2
  <2> QED
    BY <1>2, <2>1 DEF Gives
<1> QED
  BY <1>1, <1>2

(* The keys of a chain decide. *)
LEMMA SameChain ==
    ASSUME NEW c \in Seq(Buffer), NEW m, NEW n, NEW k,
           \A i \in DOMAIN c : n[c[i]].key = m[c[i]].key
    PROVE  Gives(c, n, k) = Gives(c, m, k)
<1>1. \A i \in DOMAIN c : \A j \in 1 .. i - 1 : j \in DOMAIN c
  OBVIOUS
<1>2. \A i \in DOMAIN c : First(c, m, k, i) <=> First(c, n, k, i)
  BY <1>1 DEF First
<1> QED
  BY <1>2, SameGives

(* A node of another key does not matter: not one that is unlinked, ... *)
LEMMA OtherUnlinked ==
    ASSUME NEW c \in Seq(Buffer), NEW z \in DOMAIN c, NEW m, NEW k, m[c[z]].key # k
    PROVE  /\ Without(c, z) \in Seq(Buffer)
           /\ Gives(Without(c, z), m, k) = Gives(c, m, k)
<1> DEFINE w == Without(c, z)
<1>1. /\ w \in Seq(Buffer) /\ DOMAIN w = 1 .. Len(c) - 1
      /\ DOMAIN c = 1 .. Len(c) /\ Len(c) \in Nat /\ z \in 1 .. Len(c)
      /\ \A j \in DOMAIN w : w[j] = IF j < z THEN c[j] ELSE c[j + 1]
  BY DEF Without
<1> HIDE DEF w
<1>2. ASSUME NEW i \in DOMAIN c, First(c, m, k, i)
      PROVE  \E j \in DOMAIN w : First(w, m, k, j) /\ w[j] = c[i]
  <2>1. i # z
    BY <1>2 DEF First
  <2>2. CASE i < z
    <3>1. i \in DOMAIN w /\ w[i] = c[i]
      BY <1>1, <2>2
    <3>2. \A j \in 1 .. i - 1 : w[j] = c[j]
      BY <1>1, <2>2
    <3>3. First(w, m, k, i)
      BY <1>2, <3>1, <3>2 DEF First
    <3> QED
      BY <3>1, <3>3
  <2>3. CASE i > z
    <3>1. i - 1 \in DOMAIN w /\ w[i - 1] = c[i]
      BY <1>1, <2>3
    <3>2. ASSUME NEW j \in 1 .. (i - 1) - 1 PROVE m[w[j]].key # k
      <4>1. CASE j < z
        <5>1. j \in DOMAIN w /\ j \in 1 .. i - 1
          BY <1>1, <2>3
        <5>2. w[j] = c[j]
          BY <1>1, <4>1, <5>1
        <5> QED
          BY <1>2, <5>1, <5>2 DEF First
      <4>2. CASE ~(j < z)
        <5>1. j \in DOMAIN w /\ j + 1 \in 1 .. i - 1
          BY <1>1, <2>3
        <5>2. w[j] = c[j + 1]
          BY <1>1, <4>2, <5>1
        <5> QED
          BY <1>2, <5>1, <5>2 DEF First
      <4> QED
        BY <4>1, <4>2
    <3>3. First(w, m, k, i - 1)
      BY <1>2, <3>1, <3>2 DEF First
    <3> QED
      BY <3>1, <3>3
  <2> QED
    BY <1>1, <2>1, <2>2, <2>3
<1>3. ASSUME NEW j \in DOMAIN w, First(w, m, k, j)
      PROVE  \E i \in DOMAIN c : First(c, m, k, i)
  <2>1. \A p \in 1 .. j - 1 : p \in DOMAIN w /\ m[w[p]].key # k
    BY <1>1, <1>3 DEF First
  <2>2. CASE j < z
    <3>1. j \in DOMAIN c /\ w[j] = c[j] /\ \A p \in 1 .. j - 1 : w[p] = c[p]
      BY <1>1, <2>2
    <3>2. First(c, m, k, j)
      BY <1>3, <3>1 DEF First
    <3> QED
      BY <3>1, <3>2
  <2>3. CASE ~(j < z)
    <3>1. j + 1 \in DOMAIN c /\ w[j] = c[j + 1]
      BY <1>1, <2>3
    <3>2. ASSUME NEW p \in 1 .. (j + 1) - 1 PROVE m[c[p]].key # k
      <4>1. CASE p < z
        <5>1. p \in 1 .. j - 1 /\ w[p] = c[p]
          BY <1>1, <2>3, <4>1
        <5> QED
          BY <2>1, <5>1
      <4>2. CASE p = z
        BY <4>2
      <4>3. CASE p > z
        <5>1. p - 1 \in 1 .. j - 1 /\ p - 1 \in DOMAIN w /\ ~(p - 1 < z) /\ (p - 1) + 1 = p
          BY <1>1, <2>3, <4>3
        <5>2. w[p - 1] = c[p]
          BY <1>1, <5>1
        <5> QED
          BY <2>1, <5>1, <5>2
      <4> QED
        BY <1>1, <4>1, <4>2, <4>3
    <3>3. First(c, m, k, j + 1)
      BY <1>3, <3>1, <3>2 DEF First
    <3> QED
      BY <3>1, <3>3
  <2> QED
    BY <2>2, <2>3
<1>4. Gives(w, m, k) = Gives(c, m, k)
  <2>1. w \in Seq(Buffer)
    BY <1>1
  <2>2. \A i \in DOMAIN c : First(c, m, k, i)
           => \E j \in DOMAIN w : First(w, m, k, j) /\ w[j] = c[i]
    BY <1>2
  <2>3. \A j \in DOMAIN w : First(w, m, k, j) => \E i \in DOMAIN c : First(c, m, k, i)
    BY <1>3
  <2> QED
    BY <2>1, <2>2, <2>3, SameGives
<1> QED
  BY <1>1, <1>4 DEF w

(* ... and not one that is linked behind. *)
LEMMA LinkedBehind ==
    ASSUME NEW c \in Seq(Buffer), NEW b \in Buffer, NEW m, NEW k
    PROVE  /\ Append(c, b) \in Seq(Buffer)
           /\ Gives(Append(c, b), m, k) # Gives(c, m, k)
                 => /\ m[b].key = k
                    /\ Gives(c, m, k) = None
                    /\ Gives(Append(c, b), m, k) = b
<1> DEFINE w == Append(c, b)
<1>1. /\ w \in Seq(Buffer) /\ DOMAIN w = 1 .. Len(c) + 1
      /\ DOMAIN c = 1 .. Len(c) /\ Len(c) \in Nat
      /\ \A j \in DOMAIN c : w[j] = c[j]
      /\ w[Len(c) + 1] = b
  OBVIOUS
<1> HIDE DEF w
<1>2. ASSUME NEW i \in DOMAIN c, First(c, m, k, i) PROVE Gives(w, m, k) = Gives(c, m, k)
  <2>1. i \in DOMAIN w /\ w[i] = c[i] /\ \A j \in 1 .. i - 1 : w[j] = c[j]
    BY <1>1
  <2>2. First(w, m, k, i)
    BY <1>2, <2>1 DEF First
  <2>3. Gives(c, m, k) = c[i]
    BY <1>2, FirstGiven
  <2>4. Gives(w, m, k) = w[i]
    BY <1>1, <2>1, <2>2, FirstGiven
  <2> QED
    BY <2>1, <2>3, <2>4
<1>3. CASE ~\E i \in DOMAIN c : First(c, m, k, i)
  <2>1. Gives(c, m, k) = None
    BY <1>3 DEF Gives
  <2>2. ASSUME NEW j \in DOMAIN w, First(w, m, k, j) PROVE j = Len(c) + 1
    <3>1. SUFFICES ASSUME j \in DOMAIN c PROVE FALSE
      BY <1>1
    <3>2. \A p \in 1 .. j : w[p] = c[p]
      BY <1>1, <3>1
    <3>3. First(c, m, k, j)
      BY <1>1, <2>2, <3>1, <3>2 DEF First
    <3> QED
      BY <1>3, <3>1, <3>3
  <2>3. CASE \E j \in DOMAIN w : First(w, m, k, j)
    <3>1. PICK j \in DOMAIN w : First(w, m, k, j)
      BY <2>3
    <3>2. w[j] = b /\ m[b].key = k
      BY <1>1, <2>2, <3>1 DEF First
    <3>3. Gives(w, m, k) = b
      BY <1>1, <3>1, <3>2, FirstGiven
    <3> QED
      BY <1>1, <2>1, <3>2, <3>3 DEF w
  <2>4. CASE ~\E j \in DOMAIN w : First(w, m, k, j)
    <3>1. Gives(w, m, k) = None
      BY <2>4 DEF Gives
    <3> QED
      BY <1>1, <2>1, <3>1 DEF w
  <2> QED
    BY <2>3, <2>4
<1> QED
  BY <1>1, <1>2, <1>3 DEF w

----------------------------------------------------------------------------
(* What a lookup gives is a live buffer of that key. *)
LEMMA LookupLive ==
    ASSUME IInv, NEW k \in Key
    PROVE  /\ table[Hash[k]] \in Seq(Buffer) /\ Hash[k] \in Slot
           /\ \A i \in DOMAIN table[Hash[k]] : table[Hash[k]][i] \in Live
           /\ Lookup(k) \in Buffer \cup {None}
           /\ Lookup(k) # None => Lookup(k) \in Live /\ meta[Lookup(k)].key = k
<1> DEFINE c == table[Hash[k]]
<1>1. /\ c \in Seq(Buffer) /\ Hash[k] \in Slot
      /\ \A i \in DOMAIN c : c[i] \in Live
  BY HashAssumption DEF IInv, TypeOK, StoreInv, ChainsWellFormed
<1> HIDE DEF c
<1>2. CASE \E i \in DOMAIN c : First(c, meta, k, i)
  <2>1. PICK i \in DOMAIN c : First(c, meta, k, i)
    BY <1>2
  <2>2. Lookup(k) = c[i]
    BY <1>1, <2>1, FirstGiven, LookupGives DEF c
  <2>3. c[i] \in Buffer
    BY <1>1 DEF Live
  <2> QED
    BY <1>1, <2>1, <2>2, <2>3 DEF First, c
<1>3. CASE ~\E i \in DOMAIN c : First(c, meta, k, i)
  <2>1. Lookup(k) = None
    BY <1>3, LookupGives DEF Gives, c
  <2> QED
    BY <1>1, <2>1 DEF c
<1> QED
  BY <1>2, <1>3

(* While the table and the keys stay, so does every lookup. *)
LEMMA LookupsKept ==
    ASSUME IInv, UNCHANGED table, \A b \in Live : meta'[b].key = meta[b].key, NEW k \in Key
    PROVE  Lookup(k)' = Lookup(k)
<1>1. \A i \in DOMAIN table[Hash[k]] :
         meta'[table[Hash[k]][i]].key = meta[table[Hash[k]][i]].key
  BY LookupLive
<1>2. Gives(table[Hash[k]], meta', k) = Gives(table[Hash[k]], meta, k)
  BY <1>1, LookupLive, SameChain
<1> QED
  BY <1>2, LookupGives

LEMMA HeldKey ==
    ASSUME IInv, NEW h \in Handle, handle[h] # None
    PROVE  handle[h] \in Live /\ meta[handle[h]].key \in Key
BY DEF IInv, TypeOK, StoreInv, HandlesPinBuffers, Live, Meta

(* The handles stay, and the lookups of what they hold. *)
LEMMA SharedKept ==
    ASSUME SInv, UNCHANGED handle,
           \A h \in Handle : handle[h] # None => meta'[handle[h]].key = meta[handle[h]].key,
           \A k \in Key : Lookup(k) # None => Lookup(k)' = Lookup(k) \/ ~Store!Held(Lookup(k))
    PROVE  Shared'
<1> SUFFICES ASSUME NEW h \in Handle, handle'[h] # None
             PROVE  (Lookup(meta[handle[h]].key) = handle[h])'
  BY DEF Shared
<1>1. PICK k \in Key : k = meta[handle[h]].key
  BY HeldKey DEF SInv
<1>2. Lookup(k) = handle[h]
  BY <1>1 DEF SInv, Shared
<1>3. Lookup(k)' = Lookup(k)
  BY <1>2 DEF Store!Held
<1>4. meta'[handle'[h]].key = k
  BY <1>1
<1> QED
  BY <1>2, <1>3, <1>4

(* Steps of the store. *)
LEMMA NoStoreStep ==
    ASSUME \A k \in Key : Lookup(k)' = Lookup(k), UNCHANGED handle
    PROVE  [Store!Next]_<<Stored, handle>>
BY DEF Stored

LEMMA ReplaceStep ==
    ASSUME SInv, NEW k \in Key, UNCHANGED handle,
           \A j \in Key \ {k} : Lookup(j)' = Lookup(j),
           Lookup(k) # None => ~\E h \in Handle : handle[h] = Lookup(k),
           Lookup(k)' \in Buffer \cup {None},
           Lookup(k)' # None => /\ ~\E h \in Handle : handle[h] = Lookup(k)'
                                /\ \A j \in Key : Lookup(j) # Lookup(k)'
    PROVE  [Store!Next]_<<Stored, handle>>
<1>1. \A j \in Key : Stored[j] = Lookup(j) /\ Stored'[j] = Lookup(j)'
  BY DEF Stored
<1>2. \A j \in Key : /\ Stored[j] \in Buffer \cup {None}
                     /\ Stored[j] # None => meta[Stored[j]].key = j
  BY <1>1, LookupLive DEF SInv
<1>3. Stored' \in [Key -> Buffer \cup {None}]
  <2>1. \A j \in Key : Lookup(j)' \in Buffer \cup {None}
    BY <1>1, <1>2
  <2> QED
    BY <2>1 DEF Stored
<1>4. \A j \in Key : Stored'[j] # Stored[j] => ~Store!Held(Stored[j]) /\ ~Store!Held(Stored'[j])
  <2> SUFFICES ASSUME NEW j \in Key, Stored'[j] # Stored[j]
               PROVE  ~Store!Held(Stored[j]) /\ ~Store!Held(Stored'[j])
    OBVIOUS
  <2>1. j = k
    BY <1>1
  <2> QED
    BY <1>1, <2>1 DEF Store!Held
<1>5. \A i, j \in Key : Stored'[i] = Stored'[j] /\ Stored'[j] # None => i = j
  <2> SUFFICES ASSUME NEW i \in Key, NEW j \in Key, Stored'[i] = Stored'[j], Stored'[j] # None
               PROVE  i = j
    OBVIOUS
  <2>1. CASE i = k \/ j = k
    BY <1>1, <2>1
  <2>2. CASE i # k /\ j # k
    BY <1>1, <1>2, <2>2
  <2> QED
    BY <2>1, <2>2
<1>6. Store!Replace
  BY <1>3, <1>4, <1>5 DEF Store!Replace
<1> QED
  BY <1>6 DEF Store!Next

Refines == Shared' /\ [Store!Next]_<<Stored, handle>>

(* The table and the keys of its buffers stay. *)
LEMMA QuietRefines ==
    ASSUME SInv, UNCHANGED <<table, handle>>, \A b \in Live : meta'[b].key = meta[b].key
    PROVE  Refines
<1>1. \A k \in Key : Lookup(k)' = Lookup(k)
  BY LookupsKept DEF SInv
<1>2. Shared'
  BY <1>1, HeldKey, SharedKept DEF SInv
<1> QED
  BY <1>1, <1>2, NoStoreStep DEF Refines

LEMMA HitRefines ==
    ASSUME SInv, NEW t \in Thread, NEW k \in Key, NEW h \in Handle, Hit(t, k, h)
    PROVE  Refines
<1>1. PICK i \in DOMAIN table[Hash[k]] : FirstAt(k, i) /\ Point(h, table[Hash[k]][i])
  BY DEF Hit
<1> DEFINE b == table[Hash[k]][i]
<1>2. b \in Live /\ meta[b].key = k
  BY <1>1, LookupLive DEF SInv, FirstAt
<1>3. Lookup(k) = b
  BY <1>1, LookupLive, FirstGiven, LookupGives DEF SInv, FirstAt, First
<1>4. \A d \in Live : meta'[d].key = meta[d].key
  BY <1>1, <1>2 DEF Point, Live, SInv, IInv, TypeOK, Meta
<1>5. \A j \in Key : Lookup(j)' = Lookup(j)
  BY <1>4, LookupsKept DEF SInv, Hit
<1>6. handle[h] = None /\ handle' = [handle EXCEPT ![h] = b]
  BY <1>1 DEF Hit, Point
<1>7. b # None
  BY <1>2, NoneAssumption DEF Live
<1> HIDE DEF b
<1>8. Shared'
  <2> SUFFICES ASSUME NEW g \in Handle, handle'[g] # None
               PROVE  (Lookup(meta[handle[g]].key) = handle[g])'
    BY DEF Shared
  <2>1. CASE g = h
    <3>1. handle'[g] = b /\ meta'[b].key = k
      BY <1>2, <1>4, <1>6, <2>1 DEF SInv, IInv, TypeOK
    <3> QED
      BY <1>3, <1>5, <3>1
  <2>2. CASE g # h
    <3>1. handle'[g] = handle[g] /\ handle[g] # None
      BY <1>6, <2>2 DEF SInv, IInv, TypeOK
    <3>2. handle[g] \in Live /\ meta[handle[g]].key \in Key
      BY <3>1, HeldKey DEF SInv
    <3>3. meta'[handle[g]].key = meta[handle[g]].key
      BY <1>4, <3>2
    <3> QED
      BY <1>5, <3>1, <3>2, <3>3 DEF SInv, Shared
  <2> QED
    BY <2>1, <2>2
<1>9. Store!Get(k, h)
  <2>1. Stored[k] = b /\ UNCHANGED Stored
    BY <1>3, <1>5 DEF Stored
  <2> QED
    BY <1>6, <1>7, <2>1 DEF Store!Get
<1> QED
  BY <1>8, <1>9 DEF Refines, Store!Next

LEMMA ReleaseRefines ==
    ASSUME SInv, NEW h \in Handle, Release(h)
    PROVE  Refines
<1>1. handle[h] # None /\ handle' = [handle EXCEPT ![h] = None] /\ UNCHANGED table
  BY DEF Release
<1>2. \A d \in Live : meta'[d].key = meta[d].key
  BY DEF Release, Live, SInv, IInv, TypeOK, Meta
<1>3. \A j \in Key : Lookup(j)' = Lookup(j)
  BY <1>1, <1>2, LookupsKept DEF SInv
<1>4. Shared'
  <2> SUFFICES ASSUME NEW g \in Handle, handle'[g] # None
               PROVE  (Lookup(meta[handle[g]].key) = handle[g])'
    BY DEF Shared
  <2>1. handle'[g] = handle[g] /\ handle[g] # None
    BY <1>1 DEF SInv, IInv, TypeOK
  <2>2. handle[g] \in Live /\ meta[handle[g]].key \in Key
    BY <2>1, HeldKey DEF SInv
  <2>3. meta'[handle[g]].key = meta[handle[g]].key
    BY <1>2, <2>2
  <2> QED
    BY <1>3, <2>1, <2>2, <2>3 DEF SInv, Shared
<1>5. Store!Release(h)
  BY <1>1, <1>3 DEF Store!Release, Stored
<1> QED
  BY <1>4, <1>5 DEF Refines, Store!Next

(* A buffer that is linked is given if its key had none. *)
LEMMA InsertRefines ==
    ASSUME SInv, NEW t \in Thread, Insert(t)
    PROVE  Refines
<1>1. pending[t].key \in Key /\ UNCHANGED handle
  <2>1. pending[t] # None
    BY DEF Insert, SInv, IInv, FrameInv
  <2> QED
    BY <2>1 DEF Insert, SInv, IInv, TypeOK, Request
<1>2. PICK k \in Key : k = pending[t].key
  BY <1>1
<1> DEFINE c == table[Hash[k]]
<1>3. PICK b \in Buffer \ Live :
        /\ table' = [table EXCEPT ![Hash[k]] = Append(@, b)]
        /\ meta'[b].key = k
        /\ \A d \in Live : meta'[d] = meta[d]
  <2>1. PICK b \in Buffer \ Live, garbage \in Time :
          /\ meta' = [meta EXCEPT ![b] =
                         [key |-> k, size |-> pending[t].size, refs |-> 0, stamp |-> garbage]]
          /\ table' = [table EXCEPT ![Hash[k]] = Append(@, b)]
    BY <1>2 DEF Insert
  <2>2. meta'[b] = [key |-> k, size |-> pending[t].size, refs |-> 0, stamp |-> garbage]
    BY <2>1 DEF SInv, IInv, TypeOK
  <2>3. \A d \in Live : d \in Buffer /\ d # b
    BY DEF Live
  <2>4. \A d \in Live : meta'[d] = meta[d]
    BY <2>1, <2>3 DEF SInv, IInv, TypeOK
  <2>5. meta'[b].key = k
    BY <2>2
  <2> QED
    BY <2>1, <2>4, <2>5
<1>4. c \in Seq(Buffer) /\ Hash[k] \in Slot /\ b \in Buffer /\ b # None
  BY <1>1, LookupLive, NoneAssumption DEF SInv
<1>5. table'[Hash[k]] = Append(c, b)
  BY <1>3, <1>4 DEF SInv, IInv, TypeOK
<1>6. ASSUME NEW j \in Key
      PROVE  Gives(table[Hash[j]], meta', j) = Lookup(j)
  <2>1. \A i \in DOMAIN table[Hash[j]] :
           meta'[table[Hash[j]][i]].key = meta[table[Hash[j]][i]].key
    BY <1>3, LookupLive DEF SInv
  <2>2. Gives(table[Hash[j]], meta', j) = Gives(table[Hash[j]], meta, j)
    BY <2>1, LookupLive, SameChain DEF SInv
  <2> QED
    BY <2>2, LookupGives
<1>7. ASSUME NEW j \in Key
      PROVE  \/ Lookup(j)' = Lookup(j)
             \/ j = k /\ Lookup(j) = None /\ Lookup(j)' = b
  <2>1. CASE Hash[j] = Hash[k]
    <3>1. Lookup(j)' = Gives(Append(c, b), meta', j)
      BY <1>5, <2>1, LookupGives
    <3>2. Lookup(j) = Gives(c, meta', j)
      BY <1>6, <2>1
    <3> QED
      BY <1>3, <1>4, <3>1, <3>2, LinkedBehind
  <2>2. CASE Hash[j] # Hash[k]
    <3>1. table'[Hash[j]] = table[Hash[j]]
      BY <1>3, <1>4, <2>2, LookupLive DEF SInv, IInv, TypeOK
    <3> QED
      BY <1>6, <3>1, LookupGives
  <2> QED
    BY <2>1, <2>2
<1>8. ~\E h \in Handle : handle[h] = b
  BY <1>3, <1>4, HeldKey DEF SInv
<1>9. \A j \in Key : Lookup(j) # b
  BY <1>3, <1>4, LookupLive DEF SInv
<1>10. Shared'
  <2>1. \A h \in Handle : handle[h] # None => meta'[handle[h]].key = meta[handle[h]].key
    BY <1>3, HeldKey DEF SInv
  <2> QED
    BY <1>1, <1>7, <2>1, SharedKept
<1>11. [Store!Next]_<<Stored, handle>>
  <2>1. CASE \A j \in Key : Lookup(j)' = Lookup(j)
    BY <1>1, <2>1, NoStoreStep
  <2>2. CASE ~\A j \in Key : Lookup(j)' = Lookup(j)
    <3>1. Lookup(k) = None /\ Lookup(k)' = b /\ \A j \in Key \ {k} : Lookup(j)' = Lookup(j)
      BY <1>7, <2>2
    <3> QED
      BY <1>1, <1>4, <1>8, <1>9, <3>1, ReplaceStep
  <2> QED
    BY <2>1, <2>2
<1> QED
  BY <1>10, <1>11 DEF Refines

(* An eviction unlinks a buffer that nobody holds; the next of its key, if   *)
(* there is one, has never been given to anybody.                            *)
LEMMA EvictRefines ==
    ASSUME SInv, NEW k \in Key, NEW z \in DOMAIN table[Hash[k]], Deletable(k, z), UNCHANGED handle,
           table' = [table EXCEPT ![Hash[k]] = Without(@, z)],
           meta' = [meta EXCEPT ![table[Hash[k]][z]] = None],
           IInv'
    PROVE  Refines
<1> DEFINE c == table[Hash[k]]
<1>1. PICK b \in Live : b = c[z]
  BY LookupLive DEF SInv
<1>2. c \in Seq(Buffer) /\ Hash[k] \in Slot /\ b # None /\ b \in Buffer
  BY LookupLive, NoneAssumption DEF SInv, Live
<1>3. meta[b].key = k /\ meta[b].refs = 0
  BY <1>1 DEF Deletable, FirstAt
<1>4. Lookup(k) = b
  <2>1. First(c, meta, k, z) /\ z \in DOMAIN c
    BY DEF Deletable, FirstAt, First
  <2>2. Gives(c, meta, k) = c[z]
    BY <1>2, <2>1, FirstGiven
  <2> QED
    BY <1>1, <2>2, LookupGives
<1>5. table'[Hash[k]] = Without(c, z)
  BY <1>2 DEF SInv, IInv, TypeOK
<1>6. \A d \in Buffer : d # b => meta'[d] = meta[d]
  BY <1>1 DEF SInv, IInv, TypeOK
<1>7. ~\E h \in Handle : handle[h] = b
  <2>1. Cardinality({h \in Handle : handle[h] = b}) = 0
    BY <1>1, <1>3 DEF SInv, IInv, StoreInv, RefsCountHandles
  <2>2. IsFiniteSet({h \in Handle : handle[h] = b})
    BY HeapAssumption, FS_Subset
  <2> QED
    BY <2>1, <2>2, FS_EmptySet
<1>8. ASSUME NEW j \in Key \ {k} PROVE Lookup(j)' = Lookup(j)
  <2> DEFINE d == table[Hash[j]]
             w == table'[Hash[j]]
  <2>1. w \in Seq(Buffer) /\ \A i \in DOMAIN w : w[i] \in Buffer /\ w[i] # b
    <3>1. /\ HashAssumption /\ Hash[j] \in Slot /\ w \in Seq(Buffer)
          /\ \A i \in DOMAIN w : w[i] \in Buffer /\ meta'[w[i]] # None
      BY HashAssumption DEF IInv, TypeOK, StoreInv, ChainsWellFormed, Live
    <3>2. meta'[b] = None
      BY <1>1 DEF SInv, IInv, TypeOK
    <3> QED
      BY <3>1, <3>2
  <2>2. Gives(w, meta', j) = Gives(w, meta, j)
    <3>1. \A i \in DOMAIN w : meta'[w[i]].key = meta[w[i]].key
      BY <1>6, <2>1
    <3> HIDE DEF w
    <3> QED
      BY <2>1, <3>1, SameChain
  <2>3. Gives(w, meta, j) = Gives(d, meta, j)
    <3>1. CASE Hash[j] = Hash[k]
      <4>1. d = c /\ w = Without(c, z) /\ meta[c[z]].key # j
        BY <1>1, <1>3, <1>5, <3>1
      <4> QED
        BY <1>2, <4>1, OtherUnlinked
    <3>2. CASE Hash[j] # Hash[k]
      <4>1. w = d
        BY <1>2, <3>2, LookupLive DEF SInv, IInv, TypeOK
      <4> QED
        BY <4>1
    <3> QED
      BY <3>1, <3>2
  <2>4. Lookup(j) = Gives(d, meta, j) /\ Lookup(j)' = Gives(w, meta', j)
    BY LookupGives
  <2> QED
    BY <2>2, <2>3, <2>4
<1>9. /\ Lookup(k)' \in Buffer \cup {None}
      /\ Lookup(k)' # None =>
            Lookup(k)' # b /\ Lookup(k)' \in Live /\ meta[Lookup(k)'].key = k
  <2> DEFINE w == table'[Hash[k]]
             g == Gives(w, meta', k)
  <2>1. /\ w \in Seq(Buffer) /\ Hash[k] \in Slot
        /\ \A i \in DOMAIN w : w[i] \in Buffer /\ meta'[w[i]] # None
    BY HashAssumption DEF IInv, TypeOK, StoreInv, ChainsWellFormed, Live
  <2>2. meta'[b] = None
    BY <1>1 DEF SInv, IInv, TypeOK
  <2> HIDE DEF w
  <2>3. CASE \E i \in DOMAIN w : First(w, meta', k, i)
    <3>1. PICK i \in DOMAIN w : First(w, meta', k, i)
      BY <2>3
    <3>2. w \in Seq(Buffer)
      BY <2>1
    <3>3. g = w[i]
      BY <3>1, <3>2, FirstGiven
    <3>4. meta'[w[i]].key = k
      BY <3>1 DEF First
    <3>5. w[i] \in Buffer /\ w[i] # b /\ meta'[w[i]] # None
      BY <2>1, <2>2
    <3>6. meta[w[i]] = meta'[w[i]]
      BY <1>6, <3>5
    <3>7. g \in Buffer /\ g # b /\ g \in Live /\ meta[g].key = k
      BY <3>3, <3>4, <3>5, <3>6 DEF Live
    <3> QED
      BY <3>7, LookupGives DEF w
  <2>4. CASE ~\E i \in DOMAIN w : First(w, meta', k, i)
    <3>1. g = None
      BY <2>4 DEF Gives
    <3> QED
      BY <3>1, LookupGives DEF w
  <2> QED
    BY <2>3, <2>4
<1>10. Lookup(k)' # None => /\ ~\E h \in Handle : handle[h] = Lookup(k)'
                            /\ \A j \in Key : Lookup(j) # Lookup(k)'
  <2> SUFFICES ASSUME NEW d, d = Lookup(k)', d # None
               PROVE  /\ ~\E h \in Handle : handle[h] = d
                      /\ \A j \in Key : Lookup(j) # d
    OBVIOUS
  <2>1. d # b /\ d \in Live /\ meta[d].key = k
    BY <1>9
  <2>2. \A h \in Handle : handle[h] # d
    BY <1>4, <2>1 DEF SInv, Shared
  <2>3. \A j \in Key : Lookup(j) # d
    BY <1>4, <2>1, LookupLive DEF SInv
  <2> QED
    BY <2>2, <2>3
<1>11. Shared'
  <2>1. \A h \in Handle : handle[h] # None => meta'[handle[h]].key = meta[handle[h]].key
    BY <1>6, <1>7, HeldKey DEF SInv, Live
  <2>2. ~Store!Held(Lookup(k))
    BY <1>4, <1>7 DEF Store!Held
  <2> QED
    BY <1>8, <2>1, <2>2, SharedKept
<1>12. [Store!Next]_<<Stored, handle>>
  BY <1>4, <1>7, <1>8, <1>9, <1>10, ReplaceStep
<1> QED
  BY <1>11, <1>12 DEF Refines

(* Each step of the cache is a step of the store, or none. *)
LEMMA StepRefines ==
    ASSUME SInv, [Next]_vars
    PROVE  Refines
<1>0. IInv'
  BY NextInv DEF SInv
<1>1. ASSUME UNCHANGED <<table, meta, handle>> PROVE Refines
  BY <1>1, QuietRefines
<1>2. ASSUME NEW t \in Thread, Step(t) PROVE Refines
  <2>1. CASE Evict(t)
    <3>1. UNCHANGED handle /\ (Head(frame.lru) \in Live => meta[Head(frame.lru)].key \in Key)
      BY <2>1 DEF Evict, Live, SInv, IInv, TypeOK, Meta
    <3>2. CASE \E k \in Key : \E i \in DOMAIN table[Hash[k]] :
                 /\ Deletable(k, i)
                 /\ table' = [table EXCEPT ![Hash[k]] = Without(@, i)]
                 /\ meta' = [meta EXCEPT ![table[Hash[k]][i]] = None]
      BY <1>0, <3>1, <3>2, EvictRefines
    <3> QED
      BY <1>1, <2>1, <3>1, <3>2 DEF Evict, DeleteBuffer
  <2>2. CASE Insert(t)
    BY <2>2, InsertRefines
  <2> QED
    BY <1>1, <1>2, <2>1, <2>2 DEF Step, CountUnused, FillLru, AllocateLru, SortLru, Settle
<1>3. ASSUME NEW t \in Thread, NEW k \in Key, NEW h \in Handle,
             GetBuffer(t, k, h) \/ GetWriteBuffer(t, k, h)
      PROVE  Refines
  BY <1>1, <1>3, HitRefines DEF GetBuffer, GetWriteBuffer
<1>4. ASSUME NEW t \in Thread, NEW k \in Key, NEW n \in Sizes, CallCreateBuffer(t, k, n)
      PROVE  Refines
  BY <1>1, <1>4 DEF CallCreateBuffer
<1>5. ASSUME NEW t \in Thread, Enter(t) PROVE Refines
  BY <1>1, <1>5 DEF Enter
<1>6. ASSUME Tick PROVE Refines
  BY <1>1, <1>6 DEF Tick
<1>7. ASSUME UNCHANGED vars PROVE Refines
  BY <1>1, <1>7 DEF vars
<1> QED
  BY <1>2, <1>3, <1>4, <1>5, <1>6, <1>7, ReleaseRefines DEF Next

LEMMA StoreInit ==
    ASSUME Init
    PROVE  Shared /\ Store!Init
<1>1. ASSUME NEW k \in Key PROVE Lookup(k) = None
  <2>1. table[Hash[k]] = <<>>
    BY HashAssumption DEF Init
  <2> QED
    BY <2>1 DEF Lookup, Cached
<1> QED
  BY <1>1 DEF Init, Shared, Store!Init, Stored

(* The cache implements the store: what it may do with duplicates, with      *)
(* evictions and with releases that race is not seen through its handles.    *)
THEOREM StoreImplemented == Spec => ImplementsStore
<1>1. Init => SInv /\ Store!Init
  BY InitInv, StoreInit DEF SInv
<1>2. SInv /\ [Next]_vars => SInv' /\ [Store!Next]_<<Stored, handle>>
  BY NextInv, StepRefines DEF SInv, Refines
<1>3. Store!Spec <=> Store!Init /\ [][Store!Next]_<<Stored, handle>>
  BY DEF Store!Spec
<1> QED
  BY <1>1, <1>2, <1>3, PTL DEF Spec, ImplementsStore

(* Two that hold a buffer of the same key hold the same one. *)
THEOREM HoldersShare == Spec => []Shared
<1>1. Init => SInv
  BY InitInv, StoreInit DEF SInv
<1>2. SInv /\ [Next]_vars => SInv'
  BY NextInv, StepRefines DEF SInv, Refines
<1>3. SInv => Shared
  BY DEF SInv
<1> QED
  BY <1>1, <1>2, <1>3, PTL DEF Spec
=============================================================================
