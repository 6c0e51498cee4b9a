------------------------------- MODULE Cache -------------------------------
(***************************************************************************)
(* The buffer cache of src/cache/cache.c: a chained hash table of          *)
(* reference-counted buffers with a limit on the memory and a limit on the *)
(* number of buffers, evicted by last reference time.                      *)
(*                                                                         *)
(* manager->mutex covers the lookups and the whole of CreateBuffer.        *)
(* ReleaseBuffer takes only the mutex of the buffer it releases, so a      *)
(* release may fall between any two steps of a running CreateBuffer.  The  *)
(* two scans of _FindNotUsedLruEntries and the deletions that follow are   *)
(* therefore separate steps here; code between them that only touches      *)
(* what the mutex protects is part of the step before it.                  *)
(*                                                                         *)
(* Abstracted: the bytes of a buffer (what is stored belongs to the        *)
(* callers), and malloc, which always succeeds.  Keys are compared by      *)
(* value, buffers and handles are heap addresses.                          *)
(***************************************************************************)
EXTENDS Integers, Sequences, FiniteSets

CONSTANTS
    Thread,         \* the threads that call the cache
    Key,            \* the keys (file paths)
    Buffer,         \* the addresses malloc can give to a CacheBuffer
    Handle,         \* the addresses malloc can give to a ReadBuffer or WriteBuffer
    None,           \* NULL
    Hash,           \* hash(key, table_size), the chain of each key
    Sizes,          \* the buffer sizes the callers ask for
    MaxMemory, MaxEntries, MaxBufferSize,   \* struct CacheParams
    MaxTime         \* bound on the clock: time(NULL) \in 0..MaxTime

Slot == 0 .. MaxEntries - 1
Time == 0 .. MaxTime
Request == [key : Key, size : Sizes]
Meta == [key : Key, size : Sizes, refs : Nat, stamp : Time]

ASSUME SizesAssumption ==
    /\ Sizes \subseteq Nat
    /\ MaxMemory \in Nat /\ MaxEntries \in Nat \ {0} /\ MaxBufferSize \in Nat
    /\ MaxTime \in Nat
ASSUME HashAssumption == Hash \in [Key -> Slot]
ASSUME HeapAssumption == IsFiniteSet(Buffer) /\ IsFiniteSet(Handle)
ASSUME NoneAssumption ==
    None \notin Thread /\ None \notin Buffer /\ None \notin Request /\ None \notin Meta

VARIABLES
    mutex,          \* manager->mutex: the thread that holds it, or None
    table,          \* manager->hash_table: the chain of buffers of each slot
    meta,           \* key, size, reference count and stamp of each live buffer
    usedMemory,     \* manager->used_memory
    entryCount,     \* manager->entry_count
    handle,         \* the buffer each live handle points at
    pending,        \* the arguments of the CreateBuffer call a thread is in
    frame,          \* the locals of the CreateBuffer call that holds the mutex
    now             \* time(NULL)

vars == <<mutex, table, meta, usedMemory, entryCount, handle, pending, frame, now>>

Frame == [at : {"out", "count", "fill", "evict", "insert"}, goal : {"memory", "entries"},
          unread : SUBSET Buffer, count : Nat, lru : Seq(Buffer), want : Nat, freed : Nat]

(* The locals at the start of each part of CreateBuffer: outside of it,    *)
(* scanning the buffers of B to free for a goal, inserting.                *)
Start(at, goal, B) == [at |-> at, goal |-> goal, unread |-> B, count |-> 0,
                       lru |-> <<>>, want |-> 0, freed |-> 0]
Idle == Start("out", "memory", {})
Insertion == Start("insert", "memory", {})

Init ==
    /\ mutex = None
    /\ table = [s \in Slot |-> <<>>]
    /\ meta = [b \in Buffer |-> None]
    /\ usedMemory = 0 /\ entryCount = 0
    /\ handle = [h \in Handle |-> None]
    /\ pending = [t \in Thread |-> None]
    /\ frame = Idle
    /\ now = 0

----------------------------------------------------------------------------
Live == {b \in Buffer : meta[b] # None}

(* The bytes the live buffers of B own, and how many there are. *)
Cells(B) == UNION {{b} \X (1 .. meta[b].size) : b \in B}
Bytes(B) == Cardinality(Cells(B))

(* Mutant: the node behind the i-th is unlinked. *)
WithoutNext(chain, i) ==
    [j \in 1 .. Len(chain) - 1 |-> IF j <= i THEN chain[j] ELSE chain[j + 1]]

(* chain with its i-th node unlinked *)
Without(chain, i) ==
    [j \in 1 .. Len(chain) - 1 |-> IF j < i THEN chain[j] ELSE chain[j + 1]]

(* The lookup of every operation: walk the chain of k from its head and    *)
(* stop at the first node with that key.                                   *)
FirstAt(k, i) ==
    LET chain == table[Hash[k]] IN
    /\ i \in DOMAIN chain
    /\ meta[chain[i]].key = k
    /\ \A j \in 1 .. i - 1 : meta[chain[j]].key # k

Cached(k) == \E i \in DOMAIN table[Hash[k]] : FirstAt(k, i)

----------------------------------------------------------------------------
(* The handles: GetBuffer, GetWriteBuffer and their releases.              *)

(* _CreateReadBuffer and _CreateWriteBuffer: h points at b from now on. *)
Point(h, b) ==
    /\ handle' = [handle EXCEPT ![h] = b]
    /\ meta' = [meta EXCEPT ![b].refs = @ + 1, ![b].stamp = now]

(* Mutant: the lookup does not wait for the mutex. *)
HitWithoutMutex(t, k, h) ==
    /\ pending[t] = None /\ handle[h] = None
    /\ \E i \in DOMAIN table[Hash[k]] : FirstAt(k, i) /\ Point(h, table[Hash[k]][i])
    /\ UNCHANGED <<mutex, table, usedMemory, entryCount, pending, frame, now>>

Hit(t, k, h) ==
    /\ mutex = None /\ pending[t] = None /\ handle[h] = None
    /\ \E i \in DOMAIN table[Hash[k]] : FirstAt(k, i) /\ Point(h, table[Hash[k]][i])
    /\ UNCHANGED <<mutex, table, usedMemory, entryCount, pending, frame, now>>

(* GetBuffer: a miss gives NULL and changes nothing. *)
GetBuffer(t, k, h) == Hit(t, k, h)

(* GetWriteBuffer: a miss returns with the mutex still locked. *)
GetWriteBuffer(t, k, h) ==
    \/ Hit(t, k, h)
    \/ /\ mutex = None /\ pending[t] = None
       /\ ~Cached(k)
       /\ mutex' = t
       /\ UNCHANGED <<table, meta, usedMemory, entryCount, handle, pending, frame, now>>

(* Mutant: the handle can be released a second time. *)
ReleaseKeepsHandle(h) ==
    /\ handle[h] # None
    /\ meta' = [meta EXCEPT ![handle[h]].refs = @ - 1]
    /\ UNCHANGED <<mutex, table, usedMemory, entryCount, handle, pending, frame, now>>

(* Mutant: the handle is freed and the count is left alone. *)
ReleaseKeepsCount(h) ==
    /\ handle[h] # None
    /\ handle' = [handle EXCEPT ![h] = None]
    /\ UNCHANGED <<mutex, table, meta, usedMemory, entryCount, pending, frame, now>>

(* ReleaseBuffer and ReleaseWriteBuffer: under the mutex of the buffer only, *)
(* by whatever thread was given the handle.                                  *)
Release(h) ==
    /\ handle[h] # None
    /\ handle' = [handle EXCEPT ![h] = None]
    /\ meta' = [meta EXCEPT ![handle[h]].refs = @ - 1]
    /\ UNCHANGED <<mutex, table, usedMemory, entryCount, pending, frame, now>>

----------------------------------------------------------------------------
(* CreateBuffer.                                                           *)

CallCreateBuffer(t, k, n) ==
    /\ pending[t] = None
    /\ pending' = [pending EXCEPT ![t] = [key |-> k, size |-> n]]
    /\ UNCHANGED <<mutex, table, meta, usedMemory, entryCount, handle, frame, now>>

(* The call of t gives up the mutex and returns. *)
Return(t) ==
    /\ mutex' = None
    /\ pending' = [pending EXCEPT ![t] = None]
    /\ frame' = Idle

(* _FindNotUsedLruEntries starts its first scan, to free for goal. *)
Scan(goal) == Start("count", goal, Live)

TooMuchMemory(n) == usedMemory + n > MaxMemory

(* Mutant: off by one. *)
TooManyEntriesByOne == MaxEntries < entryCount
TooManyEntries == MaxEntries <= entryCount

(* The lock and the tests that decide whether something must be freed. *)
Enter(t) ==
    LET n == pending[t].size IN
    /\ mutex = None /\ pending[t] # None
    /\ \/ /\ n > MaxBufferSize
          /\ pending' = [pending EXCEPT ![t] = None]
          /\ UNCHANGED <<mutex, frame>>
       \/ /\ n <= MaxBufferSize
          /\ mutex' = t
          /\ frame' = CASE TooMuchMemory(n) -> Scan("memory")
                        [] ~TooMuchMemory(n) /\ TooManyEntries -> Scan("entries")
                        [] OTHER -> Insertion
          /\ UNCHANGED pending
    /\ UNCHANGED <<table, meta, usedMemory, entryCount, handle, now>>

(* First scan: count the unreferenced buffers.  The code walks the slots    *)
(* in order; the reads of distinct counts are independent, and releases     *)
(* may fall between them, so any order of reading sees the same results.    *)
CountUnused(b) ==
    /\ frame.at = "count" /\ b \in frame.unread
    /\ frame' = [frame EXCEPT !.unread = @ \ {b},
                              !.count = IF meta[b].refs = 0 THEN @ + 1 ELSE @]
    /\ UNCHANGED <<mutex, table, meta, usedMemory, entryCount, handle, pending, now>>

(* malloc of count entries, and the second scan begins. *)
AllocateLru ==
    /\ frame.at = "count" /\ frame.unread = {}
    /\ frame' = [frame EXCEPT !.at = "fill", !.unread = Live]
    /\ UNCHANGED <<mutex, table, meta, usedMemory, entryCount, handle, pending, now>>

(* Second scan: record the unreferenced buffers, past the end of the array  *)
(* when more are unreferenced now than were counted.                        *)
FillLru(b) ==
    /\ frame.at = "fill" /\ b \in frame.unread
    /\ frame' = [frame EXCEPT !.unread = @ \ {b},
                              !.lru = IF meta[b].refs = 0 THEN Append(@, b) ELSE @]
    /\ UNCHANGED <<mutex, table, meta, usedMemory, entryCount, handle, pending, now>>

(* What must go: the bytes, or the entries, above the limit. *)
Excess(t) == IF frame.goal = "memory"
             THEN pending[t].size - (MaxMemory - usedMemory)
             ELSE MaxEntries - entryCount + 1

(* The first w of the listed buffers are enough. *)
Enough(t, lru, w) ==
    IF frame.goal = "memory" THEN Bytes({lru[i] : i \in 1 .. w}) >= Excess(t)
                             ELSE w >= Excess(t)

(* Mutant: the comparison of the stamps is the other way round. *)
SortedBackwards ==
    {order \in [1 .. frame.count -> {frame.lru[i] : i \in (1 .. frame.count) \cap DOMAIN frame.lru}] :
        \A i, j \in 1 .. frame.count : i < j =>
            order[i] # order[j] /\ meta[order[i]].stamp >= meta[order[j]].stamp}

(* qsort of the count entries of the array: ascending stamps, ties in any  *)
(* order.  What was recorded past the array is lost.                       *)
Sorted ==
    {order \in [1 .. frame.count -> {frame.lru[i] : i \in (1 .. frame.count) \cap DOMAIN frame.lru}] :
        \A i, j \in 1 .. frame.count : i < j =>
            order[i] # order[j] /\ meta[order[i]].stamp <= meta[order[j]].stamp}

(* The end of _FindNotUsedLruEntries and the choice of how many to free:   *)
(* the shortest prefix that is enough.                                     *)
SortLru(t) ==
    /\ mutex = t /\ frame.at = "fill" /\ frame.unread = {}
    /\ \E order \in Sorted :
        \/ \E w \in 1 .. frame.count :
              /\ Enough(t, order, w) /\ \A v \in 1 .. w - 1 : ~Enough(t, order, v)
              /\ frame' = [frame EXCEPT !.at = "evict", !.lru = order, !.want = w]
              /\ UNCHANGED <<mutex, pending>>
        \/ /\ \A w \in 1 .. frame.count : ~Enough(t, order, w)
           /\ Return(t)
    /\ UNCHANGED <<table, meta, usedMemory, entryCount, handle, now>>

(* Mutant: the reference count is not tested again. *)
DeletableAnyway(k, i) == FirstAt(k, i)

(* _DeleteBuffer: the first node of the chain with key k, if there is one  *)
(* and nothing refers to it.                                               *)
Deletable(k, i) == FirstAt(k, i) /\ meta[table[Hash[k]][i]].refs = 0

(* Mutant: used_memory keeps what was destroyed. *)
DeleteBufferKeepsMemory(k) ==
    \E i \in DOMAIN table[Hash[k]] :
        /\ Deletable(k, i)
        /\ table' = [table EXCEPT ![Hash[k]] = Without(@, i)]
        /\ meta' = [meta EXCEPT ![table[Hash[k]][i]] = None]
        /\ entryCount' = entryCount - 1
        /\ frame' = [frame EXCEPT !.lru = Tail(@), !.freed = @ + 1]
        /\ UNCHANGED usedMemory

(* Mutant: a buffer that cannot be destroyed is tried again. *)
DeleteBufferRetries(k) ==
    \/ \E i \in DOMAIN table[Hash[k]] :
         LET b == table[Hash[k]][i] IN
         /\ Deletable(k, i)
         /\ table' = [table EXCEPT ![Hash[k]] = Without(@, i)]
         /\ meta' = [meta EXCEPT ![b] = None]
         /\ usedMemory' = usedMemory - meta[b].size
         /\ entryCount' = entryCount - 1
         /\ frame' = [frame EXCEPT !.lru = Tail(@), !.freed = @ + 1]
    \/ /\ ~\E i \in DOMAIN table[Hash[k]] : Deletable(k, i)
       /\ UNCHANGED <<table, meta, usedMemory, entryCount, frame>>

DeleteBuffer(k) ==
    \/ \E i \in DOMAIN table[Hash[k]] :
         LET b == table[Hash[k]][i] IN
         /\ Deletable(k, i)
         /\ table' = [table EXCEPT ![Hash[k]] = Without(@, i)]
         /\ meta' = [meta EXCEPT ![b] = None]
         /\ usedMemory' = usedMemory - meta[b].size
         /\ entryCount' = entryCount - 1
         /\ frame' = [frame EXCEPT !.lru = Tail(@), !.freed = @ + 1]
    \/ /\ ~\E i \in DOMAIN table[Hash[k]] : Deletable(k, i)
       /\ frame' = [frame EXCEPT !.lru = Tail(@)]
       /\ UNCHANGED <<table, meta, usedMemory, entryCount>>

(* One turn of the loop that frees.  The array keeps a pointer to the key   *)
(* of each buffer; when an earlier turn has destroyed that buffer the       *)
(* pointer dangles and what strcmp reads there is any key, or none.         *)
Evict(t) ==
    /\ mutex = t /\ frame.at = "evict"
    /\ frame.lru # <<>> /\ frame.freed < frame.want
    /\ \/ /\ Head(frame.lru) \in Live
          /\ DeleteBuffer(meta[Head(frame.lru)].key)
       \/ /\ Head(frame.lru) \notin Live
          /\ \/ \E k \in Key : DeleteBuffer(k)
             \/ /\ frame' = [frame EXCEPT !.lru = Tail(@)]
                /\ UNCHANGED <<table, meta, usedMemory, entryCount>>
    /\ UNCHANGED <<mutex, handle, pending, now>>

(* The end of that loop: CreateBuffer tests the limit again, and fails if   *)
(* too few were freed or it is still exceeded.                              *)
Settle(t) ==
    LET n == pending[t].size
        ok == /\ frame.freed = frame.want
              /\ IF frame.goal = "memory" THEN ~TooMuchMemory(n) ELSE ~TooManyEntries
    IN
    /\ mutex = t /\ frame.at = "evict"
    /\ frame.lru = <<>> \/ frame.freed = frame.want
    /\ \/ /\ ~ok
          /\ Return(t)
       \/ /\ ok
          /\ frame' = IF frame.goal = "memory" /\ TooManyEntries
                      THEN Scan("entries") ELSE Insertion
          /\ UNCHANGED <<mutex, pending>>
    /\ UNCHANGED <<table, meta, usedMemory, entryCount, handle, now>>

(* Mutant: the new buffer goes to the head of its chain. *)
InsertAtHead(t) ==
    LET k == pending[t].key
        n == pending[t].size
    IN
    /\ mutex = t /\ frame.at = "insert"
    /\ \E b \in Buffer \ Live, garbage \in Time :
        /\ meta' = [meta EXCEPT ![b] =
                       [key |-> k, size |-> n, refs |-> 0, stamp |-> garbage]]
        /\ table' = [table EXCEPT ![Hash[k]] = <<b>> \o @]
    /\ usedMemory' = usedMemory + n
    /\ entryCount' = entryCount + 1
    /\ Return(t)
    /\ UNCHANGED <<handle, now>>

(* The new buffer goes to the tail of its chain; nothing checks whether its *)
(* key is already there.  _CreateBufferMeta leaves the stamp uninitialised. *)
Insert(t) ==
    LET k == pending[t].key
        n == pending[t].size
    IN
    /\ mutex = t /\ frame.at = "insert"
    /\ \E b \in Buffer \ Live, garbage \in Time :
        /\ meta' = [meta EXCEPT ![b] =
                       [key |-> k, size |-> n, refs |-> 0, stamp |-> garbage]]
        /\ table' = [table EXCEPT ![Hash[k]] = Append(@, b)]
    /\ usedMemory' = usedMemory + n
    /\ entryCount' = entryCount + 1
    /\ Return(t)
    /\ UNCHANGED <<handle, now>>

Tick == /\ now < MaxTime /\ now' = now + 1
        /\ UNCHANGED <<mutex, table, meta, usedMemory, entryCount, handle, pending, frame>>

(* The next step of the CreateBuffer call that holds the mutex. *)
Step(t) ==
    \/ \E b \in Buffer : mutex = t /\ (CountUnused(b) \/ FillLru(b))
    \/ mutex = t /\ AllocateLru
    \/ SortLru(t) \/ Evict(t) \/ Settle(t) \/ Insert(t)

Next ==
    \/ \E t \in Thread, k \in Key, n \in Sizes : CallCreateBuffer(t, k, n)
    \/ \E t \in Thread : Enter(t) \/ Step(t)
    \/ \E t \in Thread, k \in Key, h \in Handle : GetBuffer(t, k, h) \/ GetWriteBuffer(t, k, h)
    \/ \E h \in Handle : Release(h)
    \/ Tick

Spec == Init /\ [][Next]_vars

(* The threads run, and none is passed over for ever at the mutex. *)
FairSpec == Spec /\ \A t \in Thread : WF_vars(Step(t)) /\ SF_vars(Enter(t))

----------------------------------------------------------------------------
TypeOK ==
    /\ mutex \in Thread \cup {None}
    /\ table \in [Slot -> Seq(Buffer)]
    /\ meta \in [Buffer -> Meta \cup {None}]
    /\ usedMemory \in Nat /\ entryCount \in Nat
    /\ handle \in [Handle -> Buffer \cup {None}]
    /\ pending \in [Thread -> Request \cup {None}]
    /\ frame \in Frame
    /\ now \in Time

(* A buffer somebody holds a handle of is never destroyed, whatever the     *)
(* evictions and releases that race (cache.c:199-239, 488-496).             *)
HandlesPinBuffers == \A h \in Handle : handle[h] # None => handle[h] \in Live

(* The reference count of a buffer is the number of its live handles: no   *)
(* acquire or release is lost (cache.c:440-462, 488-519, 545-552).          *)
RefsCountHandles ==
    \A b \in Live : meta[b].refs = Cardinality({h \in Handle : handle[h] = b})

(* The two totals of the manager are those of the buffers it has: every     *)
(* path that links or destroys a buffer keeps both (cache.c:211, 228, 433).  *)
AccountingExact == usedMemory = Bytes(Live) /\ entryCount = Cardinality(Live)

(* The limits the manager was created with hold between any two steps, the *)
(* evictions of a CreateBuffer included (cache.c:382-404).                  *)
WithinLimits == usedMemory <= MaxMemory /\ entryCount <= MaxEntries

(* Every node of the table is a live buffer in the chain of its key, and    *)
(* every live buffer is in exactly one place of the table.                  *)
ChainsWellFormed ==
    /\ \A s \in Slot : \A i \in DOMAIN table[s] :
          table[s][i] \in Live /\ Hash[meta[table[s][i]].key] = s
    /\ \A s \in Slot : \A i, j \in DOMAIN table[s] : table[s][i] = table[s][j] => i = j
    /\ \A b \in Live : \E i \in DOMAIN table[Hash[meta[b].key]] :
          table[Hash[meta[b].key]][i] = b

(* What the scans found unreferenced, without the buffers' mutexes, is still *)
(* unreferenced when the loop gets to it: references only go up under the   *)
(* mutex that the running CreateBuffer holds (cache.c:277-291, 312-321).    *)
ListedStayUnreferenced ==
    \A i \in DOMAIN frame.lru : frame.lru[i] \in Live => meta[frame.lru[i]].refs = 0

(* While somebody holds the buffer a lookup of k gives, every lookup of k   *)
(* gives that same buffer: duplicates are linked behind it and evictions do *)
(* not uncover another one (cache.c:423-431, test_cache.c:194).             *)
HeldLookupStable ==
    [][\A k \in Key : \A i \in DOMAIN table[Hash[k]] :
        FirstAt(k, i) /\ meta[table[Hash[k]][i]].refs > 0
        => \E j \in DOMAIN table'[Hash[k]] :
              FirstAt(k, j)' /\ table'[Hash[k]][j] = table[Hash[k]][i]]_vars

(* No other live buffer has the key of b. *)
OnlyOfItsKey(b) == \A c \in Live : meta[c].key = meta[b].key => c = b

(* A turn of the loop that frees a buffer frees the least recently used of  *)
(* what is left of the list, however long the loop has run and whatever was *)
(* released since the scans, as long as the listed buffer is still there and *)
(* alone with its key (cache.c:296, 323-333, 407-415).                      *)
EvictsOldest ==
    [][\A b \in Live \ Live' :
        OnlyOfItsKey(b) /\ Head(frame.lru) \in Live =>
            \A i \in DOMAIN frame.lru :
                frame.lru[i] \in Live => meta[b].stamp <= meta[frame.lru[i]].stamp]_vars

(* The parts of CreateBuffer that the frame f has before it, and what is    *)
(* left of the one it is in.                                                *)
PartsLeft(f) ==
    CASE f.at = "insert" -> 0
      [] f.at # "insert" -> (IF f.goal = "memory" THEN 3 ELSE 0)
                            + (IF f.at = "evict" THEN 1 ELSE IF f.at = "fill" THEN 2 ELSE 3)
WorkLeft(f) == IF f.at = "evict" THEN Len(f.lru) ELSE Cardinality(f.unread)

(* Each step of the CreateBuffer that has the mutex gives it up or brings   *)
(* its end nearer, and nobody else puts it back, by a release or otherwise: *)
(* the scans and the loop that frees are bounded by the number of buffers   *)
(* (cache.c:260-292, 323-333, 381-404).                                     *)
HolderAdvances ==
    [][frame.at # "out" =>
        IF \E t \in Thread : Step(t)
        THEN \/ mutex' = None
             \/ PartsLeft(frame') < PartsLeft(frame)
             \/ PartsLeft(frame') = PartsLeft(frame) /\ WorkLeft(frame') < WorkLeft(frame)
        ELSE UNCHANGED <<mutex, frame>>]_vars

(* What a lookup of k gives. *)
Lookup(k) ==
    IF Cached(k) THEN table[Hash[k]][CHOOSE i \in DOMAIN table[Hash[k]] : FirstAt(k, i)]
                 ELSE None

Stored == [k \in Key |-> Lookup(k)]

(* The cache is a BufferStore, for all that its table may have more than    *)
(* one buffer of a key and an eviction may uncover the next: whoever holds   *)
(* a buffer of a key holds the same one (cache.c:68-140, 199-239, 423-431).  *)
Store == INSTANCE BufferStore WITH stored <- Stored, held <- handle
ImplementsStore == Store!Spec

(* A CreateBuffer that got the mutex gives it up: neither the scans nor the *)
(* loop that frees can run for ever.                                        *)
HolderReleases == \A t \in Thread : (mutex = t /\ frame.at # "out") ~> (frame.at = "out")

(* "Return array of not used LRU [...] entries" (cache.c:256): what the      *)
(* second scan records fits the array that the first one sized.             *)
LruScansAgree == frame.at = "fill" => Len(frame.lru) <= frame.count

(* Each path of CreateBuffer "returns" (cache.c:370-373): no call of it      *)
(* waits for ever.                                                          *)
CreateReturns == \A t \in Thread : pending[t] # None ~> pending[t] = None

(* A CreateBuffer that cannot make room has not freed anything: "key2 and   *)
(* key3 should not be freed" (test_cache.c:169).                            *)
FailedCreateFreesNothing ==
    [][frame.at = "evict" /\ frame'.at = "out" => frame.freed = 0]_vars

(* "free <count> least recently used buffers" (cache.c:310): what a turn of *)
(* the loop destroys is the buffer it took from the sorted array.           *)
EvictsTheListed == [][\A b \in Live \ Live' : b = Head(frame.lru)]_vars
=============================================================================
