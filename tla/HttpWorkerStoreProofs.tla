----------------------- MODULE HttpWorkerStoreProofs -----------------------
(***************************************************************************)
(* The requests of any number of workers use the cache as a BufferStore.   *)
(***************************************************************************)
EXTENDS HttpWorkerProofs

(* What a request holds is the buffer that a lookup of its file gives. *)
HeldIsFirst ==
    \A c \in Conn : \A b \in {body[c], wb[c]} \ {None} : path[c] \in File /\ first[path[c]] = b

(* A buffer has one key. *)
FilesApart == \A f, g \in File : f # g => buffers[f] \cap buffers[g] = {}

(* A request that has not been processed holds nothing; while it is, what it *)
(* holds depends on how far its worker has come.                            *)
FreshAt(c) ==
    /\ state[c] \in {"NEW", "CONNECT"} => body[c] = None /\ wb[c] = None
    /\ state[c] = "READ" =>
          /\ \/ body[c] = None
             \/ \E w \in Worker : at[w] = c /\ pc[w] \in {"lock", "queue", "mark"}
          /\ \/ wb[c] = None
             \/ \E w \in Worker : at[w] = c /\ pc[w] \in {"getread", "lock", "queue", "mark"}

Fresh == \A c \in Conn : FreshAt(c)

SInv == IInv /\ HeldIsFirst /\ FilesApart /\ Fresh

USE DEF Processing, Visiting

Refines == /\ HeldIsFirst' /\ FilesApart' /\ Fresh'
           /\ [Store!Next]_<<first, Holding>>

----------------------------------------------------------------------------
(* The handles of the requests, taken one by one.                          *)

LEMMA HoldingIs ==
    ASSUME NEW c \in Conn
    PROVE  /\ Holding[<<c, "read">>] = body[c] /\ Holding[<<c, "write">>] = wb[c]
           /\ Holding'[<<c, "read">>] = body'[c] /\ Holding'[<<c, "write">>] = wb'[c]
<1>1. <<c, "read">> \in Conn \X {"read", "write"} /\ <<c, "write">> \in Conn \X {"read", "write"}
  OBVIOUS
<1> QED
  BY <1>1 DEF Holding

LEMMA ReadHandleMoves ==
    ASSUME TypeOK, NEW c \in Conn, NEW x, body' = [body EXCEPT ![c] = x], wb' = wb
    PROVE  Holding' = [Holding EXCEPT ![<<c, "read">>] = x]
<1>1. ASSUME NEW h \in Conn \X {"read", "write"}
      PROVE  Holding'[h] = IF h = <<c, "read">> THEN x ELSE Holding[h]
  <2>1. PICK d \in Conn, k \in {"read", "write"} : h = <<d, k>>
    OBVIOUS
  <2>2. body'[d] = IF d = c THEN x ELSE body[d]
    BY DEF TypeOK
  <2>3. h = <<c, "read">> <=> d = c /\ k = "read"
    BY <2>1
  <2>4. CASE k = "read"
    BY <2>1, <2>2, <2>3, <2>4, HoldingIs
  <2>5. CASE k = "write"
    BY <2>1, <2>2, <2>3, <2>5, HoldingIs
  <2> QED
    BY <2>4, <2>5
<1> QED
  BY <1>1 DEF Holding

LEMMA WriteHandleMoves ==
    ASSUME TypeOK, NEW c \in Conn, NEW x, wb' = [wb EXCEPT ![c] = x], body' = body
    PROVE  Holding' = [Holding EXCEPT ![<<c, "write">>] = x]
<1>1. ASSUME NEW h \in Conn \X {"read", "write"}
      PROVE  Holding'[h] = IF h = <<c, "write">> THEN x ELSE Holding[h]
  <2>1. PICK d \in Conn, k \in {"read", "write"} : h = <<d, k>>
    OBVIOUS
  <2>2. wb'[d] = IF d = c THEN x ELSE wb[d]
    BY DEF TypeOK
  <2>3. h = <<c, "write">> <=> d = c /\ k = "write"
    BY <2>1
  <2>4. CASE k = "read"
    BY <2>1, <2>2, <2>3, <2>4, HoldingIs
  <2>5. CASE k = "write"
    BY <2>1, <2>2, <2>3, <2>5, HoldingIs
  <2> QED
    BY <2>4, <2>5
<1> QED
  BY <1>1 DEF Holding

(* A buffer is held if and only if a request has it. *)
LEMMA HeldBy ==
    ASSUME NEW b
    PROVE  Store!Held(b) <=> b # None /\ \E c \in Conn : body[c] = b \/ wb[c] = b
<1>1. ASSUME b # None, NEW h \in Conn \X {"read", "write"}, Holding[h] = b
      PROVE  \E c \in Conn : body[c] = b \/ wb[c] = b
  <2>1. PICK d \in Conn, k \in {"read", "write"} : h = <<d, k>>
    OBVIOUS
  <2> QED
    BY <1>1, <2>1, HoldingIs
<1>2. ASSUME b # None, NEW c \in Conn, body[c] = b \/ wb[c] = b
      PROVE  Store!Held(b)
  <2>1. <<c, "read">> \in Conn \X {"read", "write"} /\ <<c, "write">> \in Conn \X {"read", "write"}
    OBVIOUS
  <2> QED
    BY <1>2, <2>1, HoldingIs DEF Store!Held
<1> QED
  BY <1>1, <1>2 DEF Store!Held

(* Steps of the store that come from one handle. *)
LEMMA TakesRead ==
    ASSUME TypeOK, NEW c \in Conn, NEW f \in File, first[f] # None, body[c] = None,
           body' = [body EXCEPT ![c] = first[f]], UNCHANGED <<wb, first>>
    PROVE  [Store!Next]_<<first, Holding>>
<1>1. <<c, "read">> \in Conn \X {"read", "write"}
  OBVIOUS
<1>2. Store!Get(f, <<c, "read">>)
  BY ReadHandleMoves, HoldingIs DEF Store!Get
<1> QED
  BY <1>1, <1>2 DEF Store!Next

LEMMA TakesWrite ==
    ASSUME TypeOK, NEW c \in Conn, NEW f \in File, first[f] # None, wb[c] = None,
           wb' = [wb EXCEPT ![c] = first[f]], UNCHANGED <<body, first>>
    PROVE  [Store!Next]_<<first, Holding>>
<1>1. <<c, "write">> \in Conn \X {"read", "write"}
  OBVIOUS
<1>2. Store!Get(f, <<c, "write">>)
  BY WriteHandleMoves, HoldingIs DEF Store!Get
<1> QED
  BY <1>1, <1>2 DEF Store!Next

LEMMA GivesReadBack ==
    ASSUME TypeOK, NEW c \in Conn,
           body' = [body EXCEPT ![c] = None], UNCHANGED <<wb, first>>
    PROVE  [Store!Next]_<<first, Holding>>
<1>1. <<c, "read">> \in Conn \X {"read", "write"}
  OBVIOUS
<1>2. CASE body[c] = None
  <2>1. body' = body
    BY <1>2 DEF TypeOK
  <2> QED
    BY <2>1 DEF Holding
<1>3. CASE body[c] # None
  <2>1. Store!Release(<<c, "read">>)
    BY <1>3, ReadHandleMoves, HoldingIs DEF Store!Release
  <2> QED
    BY <1>1, <2>1 DEF Store!Next
<1> QED
  BY <1>2, <1>3

LEMMA GivesWriteBack ==
    ASSUME TypeOK, NEW c \in Conn,
           wb' = [wb EXCEPT ![c] = None], UNCHANGED <<body, first>>
    PROVE  [Store!Next]_<<first, Holding>>
<1>1. <<c, "write">> \in Conn \X {"read", "write"}
  OBVIOUS
<1>2. CASE wb[c] = None
  <2>1. wb' = wb
    BY <1>2 DEF TypeOK
  <2> QED
    BY <2>1 DEF Holding
<1>3. CASE wb[c] # None
  <2>1. Store!Release(<<c, "write">>)
    BY <1>3, WriteHandleMoves, HoldingIs DEF Store!Release
  <2> QED
    BY <1>1, <2>1 DEF Store!Next
<1> QED
  BY <1>2, <1>3

----------------------------------------------------------------------------
(* How the invariant is kept.                                              *)

(* A step that concerns one request leaves the others as fresh as they were. *)
LEMMA FreshKept ==
    ASSUME Fresh, NEW c \in Conn,
           \A d \in Conn \ {c} : state'[d] = state[d] /\ body'[d] = body[d] /\ wb'[d] = wb[d],
           \A v \in Worker : \/ at'[v] = at[v] /\ pc'[v] = pc[v]
                             \/ at[v] = c
                             \/ pc[v] \notin {"getread", "lock", "queue", "mark"},
           FreshAt(c)'
    PROVE  Fresh'
<1> SUFFICES ASSUME NEW d \in Conn PROVE FreshAt(d)'
  BY DEF Fresh
<1>1. CASE d = c
  BY <1>1
<1>2. CASE d # c
  <2>1. FreshAt(d)
    BY DEF Fresh
  <2>2. state'[d] = state[d] /\ body'[d] = body[d] /\ wb'[d] = wb[d]
    BY <1>2
  <2>3. ASSUME NEW v \in Worker, at[v] = d, pc[v] \in {"getread", "lock", "queue", "mark"}
        PROVE  at'[v] = d /\ pc'[v] = pc[v]
    BY <1>2, <2>3
  <2> QED
    BY <2>1, <2>2, <2>3 DEF FreshAt
<1> QED
  BY <1>1, <1>2

(* What the requests hold only becomes less, and their files stay. *)
LEMMA HeldKept ==
    ASSUME HeldIsFirst, UNCHANGED first,
           \A c \in Conn : {body'[c], wb'[c]} \subseteq {body[c], wb[c], None},
           \A c \in Conn : path'[c] = path[c] \/ (body'[c] = None /\ wb'[c] = None)
    PROVE  HeldIsFirst'
<1> SUFFICES ASSUME NEW c \in Conn, NEW b \in {body'[c], wb'[c]} \ {None}
             PROVE  path'[c] \in File /\ first[path'[c]] = b
  BY DEF HeldIsFirst
<1>1. b \in {body[c], wb[c]} \ {None}
  OBVIOUS
<1>2. path'[c] = path[c]
  OBVIOUS
<1> QED
  BY <1>1, <1>2 DEF HeldIsFirst

(* A request that its worker processes holds what the worker took for it. *)
LEMMA HoldsInTurn ==
    ASSUME SInv, NEW w \in Worker, pc[w] \in {"lookup", "create", "getwrite", "getread"}
    PROVE  /\ at[w] \in Conn /\ state[at[w]] = "READ" /\ path[at[w]] \in File
           /\ body[at[w]] = None
           /\ pc[w] # "getread" => wb[at[w]] = None
<1>1. /\ at[w] \in Conn /\ \A v \in Worker \ {w} : pc[v] \in Visiting => at[v] # at[w]
      /\ state[at[w]] = "READ" /\ path[at[w]] \in File
  BY AtIsOwn DEF SInv, IInv, ProcessInv
<1>2. FreshAt(at[w])
  BY <1>1 DEF SInv, Fresh
<1>3. \A v \in Worker : at[v] = at[w] /\ pc[v] \in {"getread", "lock", "queue", "mark"} => v = w
  BY <1>1
<1> QED
  BY <1>1, <1>2, <1>3 DEF FreshAt

----------------------------------------------------------------------------
(* One lemma for each action, or for several that do the same.             *)

LEMMA FreshStays ==
    ASSUME Fresh, UNCHANGED <<body, wb>>,
           \A c \in Conn : \/ state'[c] = state[c]
                           \/ state'[c] \notin {"NEW", "CONNECT", "READ"}
                           \/ body[c] = None /\ wb[c] = None,
           \A v \in Worker : \/ at'[v] = at[v] /\ pc'[v] = pc[v]
                             \/ pc[v] \notin {"getread", "lock", "queue", "mark"}
    PROVE  Fresh'
<1> SUFFICES ASSUME NEW c \in Conn PROVE FreshAt(c)'
  BY DEF Fresh
<1>1. FreshAt(c)
  BY DEF Fresh
<1>2. ASSUME NEW v \in Worker, pc[v] \in {"getread", "lock", "queue", "mark"}
      PROVE  at'[v] = at[v] /\ pc'[v] = pc[v]
  BY <1>2
<1>3. CASE state'[c] = state[c]
  BY <1>1, <1>2, <1>3 DEF FreshAt
<1>4. CASE state'[c] \notin {"NEW", "CONNECT", "READ"} \/ (body[c] = None /\ wb[c] = None)
  BY <1>4 DEF FreshAt
<1> QED
  BY <1>3, <1>4

(* Nothing is taken and nothing given back. *)
LEMMA NoHandleMoves ==
    ASSUME SInv, UNCHANGED <<buffers, first, body, wb>>, Fresh',
           \A c \in Conn : path'[c] = path[c] \/ (body[c] = None /\ wb[c] = None)
    PROVE  Refines
<1>1. HeldIsFirst'
  BY HeldKept DEF SInv
<1>2. FilesApart'
  BY DEF SInv, FilesApart
<1>3. UNCHANGED <<first, Holding>>
  BY DEF Holding
<1> QED
  BY <1>1, <1>2, <1>3 DEF Refines

LEMMA AcceptRefines ==
    ASSUME SInv, NEW w \in Worker, NEW c \in Conn, AddRequest(w, c)
    PROVE  Refines
<1>1. body[c] = None /\ wb[c] = None
  BY DEF SInv, Fresh, FreshAt, AddRequest
<1>2. \A d \in Conn : state'[d] = state[d] \/ d = c
  BY DEF SInv, IInv, TypeOK, AddRequest
<1>3. \A v \in Worker : pc'[v] = pc[v] \/ pc[v] \notin {"getread", "lock", "queue", "mark"}
  BY DEF SInv, IInv, TypeOK, AddRequest, Unlocked
<1>4. UNCHANGED <<walkVars, answerVars, wb, buffers, first>>
  BY DEF AddRequest, cacheVars
<1>5. Fresh'
  BY <1>1, <1>2, <1>3, <1>4, FreshStays DEF SInv, walkVars, answerVars
<1> QED
  BY <1>4, <1>5, NoHandleMoves DEF answerVars

LEMMA LoopRefines ==
    ASSUME SInv, NEW w \in Worker,
           \/ Idle(w) \/ Leave(w) \/ Poll(w) \/ Select(w) \/ EndWalk(w)
           \/ SpuriousWakeup(w) \/ GracefullyShutdown(w)
    PROVE  Refines
<1> USE DEF Idle, Leave, Poll, Select, EndWalk, SpuriousWakeup, GracefullyShutdown, To
<1>1. UNCHANGED <<answerVars, wb, buffers, first, at>>
  BY DEF cacheVars, walkVars
<1>2. \A c \in Conn : state'[c] = state[c] \/ (body[c] = None /\ wb[c] = None)
  BY DEF SInv, IInv, TypeOK, Fresh, FreshAt
<1>3. \A v \in Worker : pc'[v] = pc[v] \/ pc[v] \notin {"getread", "lock", "queue", "mark"}
  BY DEF SInv, IInv, TypeOK, Unlocked
<1>4. Fresh'
  BY <1>1, <1>2, <1>3, FreshStays DEF SInv, answerVars
<1> QED
  BY <1>1, <1>4, NoHandleMoves DEF answerVars

(* A request that a read or a write is for: what comes of it, holds nothing  *)
(* more.                                                                   *)
LEMMA VisitRefines ==
    ASSUME SInv, NEW w \in Worker, NEW c \in Conn, Skip(w, c) \/ Read(w, c) \/ Write(w, c)
    PROVE  Refines
<1>1. Visit(w, c)
  BY DEF Skip, Read, ReadMore, ReadFails, AnswerPlain, Get,
         Write, Send, WouldBlock, WriteFails, EndOfAnswer, Writing
<1>2. /\ pc[w] = "walk" /\ c \in todo[w]
      /\ \A v \in Worker : pc[v] \in Visiting => at[v] # c
  BY <1>1, VisitIsOwn DEF SInv, Visit
<1>3. UNCHANGED <<body, wb, buffers, first>>
  BY DEF Skip, Read, ReadMore, ReadFails, AnswerPlain, Get, answerVars, cacheVars,
         Write, Send, WouldBlock, WriteFails, EndOfAnswer, Writing
<1>4. \A v \in Worker : (at'[v] = at[v] /\ pc'[v] = pc[v]) \/ v = w
  BY <1>1 DEF Skip, Read, ReadMore, ReadFails, AnswerPlain, Get, Visit, To, SInv, IInv, TypeOK,
         Write, Send, WouldBlock, WriteFails, EndOfAnswer, Writing
<1>5. \A d \in Conn \ {c} : state'[d] = state[d] /\ path'[d] = path[d]
  BY DEF Skip, Read, ReadMore, ReadFails, AnswerPlain, Get, answerVars, SInv, IInv, TypeOK,
         Write, Send, WouldBlock, WriteFails, EndOfAnswer, Writing
<1>6. ASSUME state[c] = "READ" PROVE body[c] = None /\ wb[c] = None
  <2>1. FreshAt(c)
    BY DEF SInv, Fresh
  <2> QED
    BY <1>2, <1>6, <2>1 DEF FreshAt
<1>7. \/ state[c] = "READ"
      \/ state'[c] \in {state[c], "WRITE", "DONE"} /\ path' = path
  <2>1. CASE Skip(w, c)
    BY <2>1 DEF Skip, answerVars
  <2>2. CASE Read(w, c)
    <3>1. c \in read_fds[w]
      BY <2>2 DEF Read, ReadMore, ReadFails, AnswerPlain, Get
    <3>2. state[c] = "READ"
      BY <1>2, <3>1 DEF SInv, IInv, DescriptorInv
    <3> QED
      BY <3>2
  <2>3. CASE Write(w, c)
    BY <2>3 DEF Write, Send, WouldBlock, WriteFails, EndOfAnswer, Writing, SInv, IInv, TypeOK
  <2> QED
    BY <2>1, <2>2, <2>3
<1>8. Fresh'
  BY <1>2, <1>3, <1>4, <1>5, <1>6, <1>7, FreshStays DEF SInv
<1> QED
  BY <1>3, <1>5, <1>6, <1>7, <1>8, NoHandleMoves

(* A request that is closed gives its ReadBuffer back. *)
LEMMA ReapRefines ==
    ASSUME SInv, NEW w \in Worker, Reap(w)
    PROVE  Refines
<1>1. pc[w] = "reap" /\ at[w] \in Conn
  BY AtIsOwn DEF Reap, SInv
<1>2. PICK c \in Conn : c = at[w]
  BY <1>1
<1>3. \A v \in Worker : (at'[v] = at[v] /\ pc'[v] = pc[v]) \/ v = w
  BY DEF Reap, To, SInv, IInv, TypeOK
<1>4. UNCHANGED <<path, wb, buffers, first>>
  BY DEF Reap, cacheVars
<1>5. CASE UNCHANGED <<state, body>>
  <2>1. Fresh'
    BY <1>1, <1>3, <1>4, <1>5, FreshStays DEF SInv
  <2> QED
    BY <1>4, <1>5, <2>1, NoHandleMoves
<1>6. CASE state' = [state EXCEPT ![c] = "CLOSED"] /\ body' = [body EXCEPT ![c] = None]
  <2>1. \A d \in Conn : body'[d] \in {body[d], None} /\ wb'[d] = wb[d]
    BY <1>4, <1>6 DEF SInv, IInv, TypeOK
  <2>2. FreshAt(c)'
    BY <1>6 DEF FreshAt, SInv, IInv, TypeOK
  <2>3. \A d \in Conn \ {c} : state'[d] = state[d] /\ body'[d] = body[d] /\ wb'[d] = wb[d]
    BY <1>4, <1>6 DEF SInv, IInv, TypeOK
  <2>4. Fresh'
    BY <1>1, <1>3, <2>2, <2>3, FreshKept DEF SInv
  <2>5. HeldIsFirst' /\ FilesApart'
    BY <1>4, <2>1, HeldKept DEF SInv, FilesApart
  <2>6. [Store!Next]_<<first, Holding>>
    BY <1>4, <1>6, GivesReadBack DEF SInv, IInv
  <2> QED
    BY <2>4, <2>5, <2>6 DEF Refines
<1> QED
  BY <1>2, <1>5, <1>6 DEF Reap

----------------------------------------------------------------------------
(* The steps of _ProcessRequest.  Those of one worker move its own request. *)

LEMMA OwnStep ==
    ASSUME SInv, NEW w \in Worker, NEW c \in Conn, c = at[w], pc[w] \in Visiting,
           NEW p, pc' = [pc EXCEPT ![w] = p], UNCHANGED at,
           \A d \in Conn \ {c} : state'[d] = state[d] /\ body'[d] = body[d] /\ wb'[d] = wb[d],
           FreshAt(c)'
    PROVE  Fresh'
<1>1. \A v \in Worker : v = w \/ pc'[v] = pc[v]
  BY DEF SInv, IInv, TypeOK
<1> QED
  BY <1>1, FreshKept DEF SInv

(* What is taken is what the lookup gives. *)
LEMMA TakenIsFirst ==
    ASSUME HeldIsFirst, NEW c \in Conn, path[c] \in File, UNCHANGED <<path, first>>,
           \A d \in Conn \ {c} : body'[d] = body[d] /\ wb'[d] = wb[d],
           {body'[c], wb'[c]} \subseteq {body[c], wb[c], first[path[c]]}
    PROVE  HeldIsFirst'
<1> SUFFICES ASSUME NEW d \in Conn, NEW b \in {body'[d], wb'[d]} \ {None}
             PROVE  path[d] \in File /\ first[path[d]] = b
  BY DEF HeldIsFirst
<1>1. CASE d = c /\ b = first[path[c]]
  BY <1>1
<1>2. CASE b \in {body[d], wb[d]}
  BY <1>2 DEF HeldIsFirst
<1> QED
  BY <1>1, <1>2

(* A hit takes a ReadBuffer. *)
LEMMA LookupRefines ==
    ASSUME SInv, NEW w \in Worker, Lookup(w)
    PROVE  Refines
<1>1. PICK c \in Conn : /\ c = at[w] /\ state[c] = "READ" /\ path[c] \in File
                        /\ body[c] = None /\ wb[c] = None
  BY HoldsInTurn DEF Lookup
<1>2. pc[w] = "lookup" /\ UNCHANGED <<at, path, wb, buffers, first>>
  BY DEF Lookup, walkVars, cacheVars
<1>3. CASE UNCHANGED <<body, state>> /\ To(w, "create")
  <2>1. \A v \in Worker : pc'[v] = pc[v] \/ v = w
    BY <1>3 DEF To, SInv, IInv, TypeOK
  <2>2. Fresh'
    BY <1>2, <1>3, <2>1, FreshStays DEF SInv
  <2> QED
    BY <1>2, <1>3, <2>2, NoHandleMoves
<1>4. CASE /\ first[path[c]] # None /\ body' = [body EXCEPT ![c] = first[path[c]]]
           /\ state' = [state EXCEPT ![c] = "WRITE"] /\ To(w, "reap")
  <2>1. FreshAt(c)'
    BY <1>4 DEF FreshAt, SInv, IInv, TypeOK
  <2>2. \A d \in Conn \ {c} : state'[d] = state[d] /\ body'[d] = body[d] /\ wb'[d] = wb[d]
    BY <1>2, <1>4 DEF SInv, IInv, TypeOK
  <2>3. Fresh'
    BY <1>1, <1>2, <1>4, <2>1, <2>2, OwnStep DEF To
  <2>4. HeldIsFirst' /\ FilesApart'
    <3>1. body'[c] = first[path[c]] /\ wb'[c] = wb[c]
      BY <1>2, <1>4 DEF SInv, IInv, TypeOK
    <3> QED
      BY <1>1, <1>2, <2>2, <3>1, TakenIsFirst DEF SInv, FilesApart
  <2>5. [Store!Next]_<<first, Holding>>
    BY <1>1, <1>2, <1>4, TakesRead DEF SInv, IInv
  <2> QED
    BY <2>3, <2>4, <2>5 DEF Refines
<1> QED
  BY <1>1, <1>3, <1>4 DEF Lookup

LEMMA TakeWriteRefines ==
    ASSUME SInv, NEW w \in Worker, TakeWriteBuffer(w)
    PROVE  Refines
<1>1. PICK c \in Conn : /\ c = at[w] /\ state[c] = "READ" /\ path[c] \in File
                        /\ body[c] = None /\ wb[c] = None
  BY HoldsInTurn DEF TakeWriteBuffer
<1>2. pc[w] = "getwrite" /\ UNCHANGED <<at, path, body, buffers, first>>
  BY DEF TakeWriteBuffer, walkVars, answerVars
<1>3. CASE UNCHANGED wb /\ state' = [state EXCEPT ![c] = "ERROR"] /\ To(w, "reap")
  <2>1. \A v \in Worker : pc'[v] = pc[v] \/ v = w
    BY <1>3 DEF To, SInv, IInv, TypeOK
  <2>2. \A d \in Conn : state'[d] = state[d] \/ d = c
    BY <1>3 DEF SInv, IInv, TypeOK
  <2>3. Fresh'
    BY <1>1, <1>2, <1>3, <2>1, <2>2, FreshStays DEF SInv
  <2> QED
    BY <1>2, <1>3, <2>3, NoHandleMoves
<1>4. CASE /\ first[path[c]] # None /\ wb' = [wb EXCEPT ![c] = first[path[c]]]
           /\ UNCHANGED state /\ To(w, "getread")
  <2>1. pc'[w] = "getread"
    BY <1>4 DEF To, SInv, IInv, TypeOK
  <2>2. FreshAt(c)'
    BY <1>1, <1>2, <1>4, <2>1 DEF FreshAt
  <2>3. \A d \in Conn \ {c} : state'[d] = state[d] /\ body'[d] = body[d] /\ wb'[d] = wb[d]
    BY <1>2, <1>4 DEF SInv, IInv, TypeOK
  <2>4. Fresh'
    BY <1>1, <1>2, <1>4, <2>2, <2>3, OwnStep DEF To
  <2>5. HeldIsFirst' /\ FilesApart'
    <3>1. wb'[c] = first[path[c]] /\ body'[c] = body[c]
      BY <1>2, <1>4 DEF SInv, IInv, TypeOK
    <3> QED
      BY <1>1, <1>2, <2>3, <3>1, TakenIsFirst DEF SInv, FilesApart
  <2>6. [Store!Next]_<<first, Holding>>
    BY <1>1, <1>2, <1>4, TakesWrite DEF SInv, IInv
  <2> QED
    BY <2>4, <2>5, <2>6 DEF Refines
<1> QED
  BY <1>1, <1>3, <1>4 DEF TakeWriteBuffer

(* The second lookup cannot miss. *)
LEMMA TakeReadRefines ==
    ASSUME SInv, NEW w \in Worker, TakeReadBuffer(w)
    PROVE  Refines
<1>1. PICK c \in Conn : c = at[w] /\ state[c] = "READ" /\ path[c] \in File /\ body[c] = None
  BY HoldsInTurn DEF TakeReadBuffer
<1>2. /\ pc[w] = "getread" /\ UNCHANGED <<at, path, state, wb, buffers, first>>
      /\ body' = [body EXCEPT ![c] = first[path[c]]] /\ pc' = [pc EXCEPT ![w] = "lock"]
  BY <1>1 DEF TakeReadBuffer, walkVars, cacheVars, To
<1>3. first[path[c]] # None
  BY <1>1, <1>2 DEF SInv, IInv, HandlesInCache
<1>4. pc'[w] = "lock"
  BY <1>2 DEF SInv, IInv, TypeOK
<1>5. FreshAt(c)'
  BY <1>1, <1>2, <1>4 DEF FreshAt
<1>6. \A d \in Conn \ {c} : state'[d] = state[d] /\ body'[d] = body[d] /\ wb'[d] = wb[d]
  BY <1>2 DEF SInv, IInv, TypeOK
<1>7. Fresh'
  BY <1>1, <1>2, <1>5, <1>6, OwnStep
<1>8. HeldIsFirst' /\ FilesApart'
  <2>1. body'[c] = first[path[c]] /\ wb'[c] = wb[c]
    BY <1>2 DEF SInv, IInv, TypeOK
  <2> QED
    BY <1>1, <1>2, <1>6, <2>1, TakenIsFirst DEF SInv, FilesApart
<1>9. [Store!Next]_<<first, Holding>>
  BY <1>1, <1>2, <1>3, TakesRead DEF SInv, IInv
<1> QED
  BY <1>7, <1>8, <1>9 DEF Refines

(* The WriteBuffer is kept, or given back when the request is through with it. *)
LEMMA WriteBufferRefines ==
    ASSUME SInv, NEW w \in Worker, NEW c \in Conn, c = at[w],
           pc[w] \in {"lock", "queue", "mark"},
           NEW p, pc' = [pc EXCEPT ![w] = p], UNCHANGED <<at, path, body, buffers, first>>,
           \/ UNCHANGED <<state, wb>> /\ p \in {"queue", "mark"}
           \/ /\ \E s \in {"WRITE", "ERROR", "WAITING_FOR_BODY"} : state' = [state EXCEPT ![c] = s]
              /\ wb' = wb \/ wb' = [wb EXCEPT ![c] = None]
    PROVE  Refines
<1>1. pc'[w] = p
  BY DEF SInv, IInv, TypeOK
<1>2. \A d \in Conn \ {c} : state'[d] = state[d] /\ body'[d] = body[d] /\ wb'[d] = wb[d]
  BY DEF SInv, IInv, TypeOK
<1>3. FreshAt(c)'
  <2>1. FreshAt(c)
    BY DEF SInv, Fresh
  <2>2. CASE UNCHANGED <<state, wb>> /\ p \in {"queue", "mark"}
    BY <1>1, <2>1, <2>2 DEF FreshAt
  <2>3. CASE state'[c] \in {"WRITE", "ERROR", "WAITING_FOR_BODY"}
    BY <2>3 DEF FreshAt
  <2> QED
    BY <2>2, <2>3 DEF SInv, IInv, TypeOK
<1>4. Fresh'
  BY <1>2, <1>3, OwnStep
<1>5. CASE wb' = wb
  BY <1>4, <1>5, NoHandleMoves
<1>6. CASE wb' = [wb EXCEPT ![c] = None]
  <2>1. \A d \in Conn : wb'[d] \in {wb[d], None}
    BY <1>6 DEF SInv, IInv, TypeOK
  <2>2. HeldIsFirst' /\ FilesApart'
    BY <2>1, HeldKept DEF SInv, FilesApart
  <2>3. [Store!Next]_<<first, Holding>>
    BY <1>6, GivesWriteBack DEF SInv, IInv
  <2> QED
    BY <1>4, <2>2, <2>3 DEF Refines
<1> QED
  BY <1>5, <1>6

LEMMA FillRefines ==
    ASSUME SInv, NEW w \in Worker, LockWrite(w) \/ Queue(w) \/ Mark(w)
    PROVE  Refines
<1>1. pc[w] \in {"lock", "queue", "mark"} /\ UNCHANGED <<at, path, body, buffers, first>>
  BY DEF LockWrite, Queue, Mark, walkVars, answerVars, cacheVars
<1>2. PICK c \in Conn : c = at[w]
  BY <1>1, AtIsOwn DEF SInv
<1>3. CASE LockWrite(w)
  BY <1>1, <1>2, <1>3, WriteBufferRefines DEF LockWrite, To
<1>4. CASE Queue(w)
  BY <1>1, <1>2, <1>4, WriteBufferRefines DEF Queue, To
<1>5. CASE Mark(w)
  BY <1>1, <1>2, <1>5, WriteBufferRefines DEF Mark, To
<1> QED
  BY <1>3, <1>4, <1>5

(* A callback gives the WriteBuffer back, or leaves it for ever. *)
LEMMA CallbackRefines ==
    ASSUME SInv, NEW c \in Conn, ReadFileCallback(c)
    PROVE  Refines
<1>1. UNCHANGED <<pc, at, path, body, buffers, first>> /\ state' = [state EXCEPT ![c] = "WRITE"]
  BY DEF ReadFileCallback, walkVars
<1>2. wb' = wb \/ wb' = [wb EXCEPT ![c] = None]
  BY DEF ReadFileCallback
<1>3. FreshAt(c)'
  BY <1>1 DEF FreshAt, SInv, IInv, TypeOK
<1>4. \A d \in Conn \ {c} : state'[d] = state[d] /\ body'[d] = body[d] /\ wb'[d] = wb[d]
  BY <1>1, <1>2 DEF SInv, IInv, TypeOK
<1>5. Fresh'
  BY <1>1, <1>3, <1>4, FreshKept DEF SInv
<1>6. CASE wb' = wb
  BY <1>1, <1>5, <1>6, NoHandleMoves
<1>7. CASE wb' = [wb EXCEPT ![c] = None]
  <2>1. \A d \in Conn : wb'[d] \in {wb[d], None}
    BY <1>7 DEF SInv, IInv, TypeOK
  <2>2. HeldIsFirst' /\ FilesApart'
    BY <1>1, <2>1, HeldKept DEF SInv, FilesApart
  <2>3. [Store!Next]_<<first, Holding>>
    BY <1>1, <1>7, GivesWriteBack DEF SInv, IInv
  <2> QED
    BY <1>5, <2>2, <2>3 DEF Refines
<1> QED
  BY <1>2, <1>6, <1>7

----------------------------------------------------------------------------
(* CreateBuffer.                                                           *)

(* An eviction of what nothing refers to and a new buffer of one file: no   *)
(* lookup that somebody depends on changes.                                 *)
LEMMA CacheChanges ==
    ASSUME SInv, NEW evicted \in SUBSET Unreferenced, NEW kept,
           kept = [f \in File |-> buffers[f] \ evicted],
           buffers' \in [File -> SUBSET Buffer],
           \A f \in File : kept[f] \subseteq buffers'[f],
           Relink(kept), FirstInv', FilesApart',
           UNCHANGED <<path, body, wb>>
    PROVE  HeldIsFirst' /\ [Store!Next]_<<first, Holding>>
<1>1. kept \in [File -> SUBSET Buffer]
  BY DEF SInv, IInv, TypeOK
<1>2. /\ first' \in [File -> Buffer \cup {None}]
      /\ \A f \in File : first[f] \in kept[f] => first'[f] = first[f]
  BY <1>1, RelinkGives DEF SInv
<1>3. ASSUME NEW c \in Conn, NEW b \in {body[c], wb[c]} \ {None}
      PROVE  /\ path[c] \in File /\ first[path[c]] = b /\ b \in kept[path[c]]
             /\ first'[path[c]] = b
  <2>1. path[c] \in File /\ first[path[c]] = b
    BY DEF SInv, HeldIsFirst
  <2>2. b \in buffers[path[c]]
    BY <2>1 DEF SInv, IInv, FirstInv
  <2>3. b \notin evicted
    BY DEF Unreferenced
  <2>4. b \in kept[path[c]]
    BY <2>1, <2>2, <2>3
  <2> QED
    BY <1>2, <2>1, <2>4
<1>4. HeldIsFirst'
  <2> SUFFICES ASSUME NEW c \in Conn, NEW b \in {body[c], wb[c]} \ {None}
               PROVE  path[c] \in File /\ first'[path[c]] = b
    BY DEF HeldIsFirst
  <2> QED
    BY <1>3
<1>5. ASSUME NEW f \in File, first'[f] # first[f] PROVE ~Store!Held(first[f])
  <2> SUFFICES ASSUME NEW c \in Conn, first[f] \in {body[c], wb[c]} \ {None} PROVE FALSE
    BY HeldBy
  <2>1. first[path[c]] = first[f] /\ path[c] \in File /\ first'[path[c]] = first[f]
    BY <1>3
  <2>2. first[f] \in buffers[f] /\ first[f] \in buffers[path[c]]
    BY <2>1 DEF SInv, IInv, FirstInv
  <2>3. path[c] = f
    BY <2>1, <2>2 DEF SInv, FilesApart
  <2> QED
    BY <1>5, <2>1, <2>3
<1>6. ASSUME NEW f \in File, first'[f] # first[f] PROVE ~Store!Held(first'[f])
  <2> SUFFICES ASSUME NEW c \in Conn, first'[f] \in {body[c], wb[c]} \ {None} PROVE FALSE
    BY HeldBy
  <2>1. /\ first[path[c]] = first'[f] /\ path[c] \in File /\ first'[path[c]] = first'[f]
        /\ first'[f] \in buffers'[path[c]]
    BY <1>3
  <2>2. first'[f] \in buffers'[f]
    BY <2>1 DEF FirstInv
  <2>3. path[c] = f
    BY <2>1, <2>2 DEF FilesApart
  <2> QED
    BY <1>6, <2>1, <2>3
<1>7. \A f, g \in File : first'[f] = first'[g] /\ first'[g] # None => f = g
  BY DEF FirstInv, FilesApart
<1>8. UNCHANGED Holding
  BY DEF Holding
<1>9. Store!Replace
  BY <1>2, <1>5, <1>6, <1>7, <1>8 DEF Store!Replace
<1> QED
  BY <1>4, <1>9 DEF Store!Next

LEMMA CreateRefines ==
    ASSUME SInv, NEW w \in Worker, Create(w)
    PROVE  Refines
<1>1. PICK c \in Conn : /\ c = at[w] /\ state[c] = "READ" /\ path[c] \in File
                        /\ body[c] = None /\ wb[c] = None
  BY HoldsInTurn DEF Create
<1>2. UNCHANGED <<at, path, body, wb>>
  BY DEF Create, walkVars, answerVars
<1>3. PICK evicted \in SUBSET Unreferenced :
        LET kept == [f \in File |-> buffers[f] \ evicted] IN
        /\ Relink(kept)
        /\ \/ /\ \E b \in (Buffer \ Live) \cup evicted :
                    buffers' = [kept EXCEPT ![path[c]] = @ \cup {b}]
              /\ To(w, "getwrite") /\ UNCHANGED state
           \/ /\ buffers' = kept
              /\ To(w, "reap") /\ state' = [state EXCEPT ![c] = "ERROR"]
  BY <1>1 DEF Create
<1> DEFINE kept == [f \in File |-> buffers[f] \ evicted]
<1>4. evicted \subseteq Live /\ Live \subseteq Buffer /\ kept \in [File -> SUBSET Buffer]
  BY DEF Unreferenced, Live, SInv, IInv, TypeOK
<1>5. \A f, g \in File : f # g => kept[f] \cap kept[g] = {}
  BY DEF SInv, FilesApart
<1>6. /\ buffers' \in [File -> SUBSET Buffer] /\ \A f \in File : kept[f] \subseteq buffers'[f]
      /\ FilesApart'
  <2>1. CASE buffers' = kept
    BY <1>4, <1>5, <2>1 DEF FilesApart
  <2>2. ASSUME NEW b \in (Buffer \ Live) \cup evicted,
               buffers' = [kept EXCEPT ![path[c]] = @ \cup {b}]
        PROVE  /\ buffers' \in [File -> SUBSET Buffer]
               /\ \A f \in File : kept[f] \subseteq buffers'[f]
               /\ FilesApart'
    <3>1. b \in Buffer /\ \A f \in File : b \notin kept[f]
      BY <1>4 DEF Live
    <3>2. \A f \in File : buffers'[f] = IF f = path[c] THEN kept[f] \cup {b} ELSE kept[f]
      BY <1>1, <2>2
    <3> QED
      BY <1>1, <1>4, <1>5, <2>2, <3>1, <3>2 DEF FilesApart
  <2> QED
    BY <1>3, <2>1, <2>2
<1>7. Relink(kept)
  BY <1>3
<1>8. FirstInv'
  BY <1>4, <1>6, <1>7, RelinkGives DEF SInv
<1>9. HeldIsFirst' /\ [Store!Next]_<<first, Holding>>
  BY <1>2, <1>6, <1>7, <1>8, CacheChanges
<1>10. Fresh'
  <2>1. pc[w] = "create" /\ \A v \in Worker : pc'[v] = pc[v] \/ v = w
    BY <1>3 DEF Create, To, SInv, IInv, TypeOK
  <2>2. \A d \in Conn : state'[d] = state[d] \/ d = c
    BY <1>3 DEF SInv, IInv, TypeOK
  <2> QED
    BY <1>1, <1>2, <2>1, <2>2, FreshStays DEF SInv
<1> QED
  BY <1>6, <1>9, <1>10 DEF Refines

----------------------------------------------------------------------------
LEMMA StepRefines ==
    ASSUME SInv, [Next]_vars
    PROVE  Refines
<1>1. CASE UNCHANGED vars
  <2>1. Fresh'
    BY <1>1, FreshStays DEF SInv, vars, answerVars, walkVars
  <2> QED
    BY <1>1, <2>1, NoHandleMoves DEF vars, answerVars, cacheVars
<1>2. ASSUME NEW w \in Worker, Work(w) PROVE Refines
  <2>1. CASE Reap(w)
    BY <2>1, ReapRefines
  <2>2. CASE Process(w)
    BY <2>2, LookupRefines, CreateRefines, TakeWriteRefines, TakeReadRefines, FillRefines
       DEF Process
  <2>3. CASE \E c \in Conn : Skip(w, c) \/ Read(w, c) \/ Write(w, c)
    BY <2>3, VisitRefines
  <2> QED
    BY <1>2, <2>1, <2>2, <2>3, LoopRefines DEF Work, Loop
<1>3. ASSUME NEW w \in Worker, SpuriousWakeup(w) \/ GracefullyShutdown(w) PROVE Refines
  BY <1>3, LoopRefines
<1> QED
  BY <1>1, <1>2, <1>3, AcceptRefines, CallbackRefines DEF Next

LEMMA StoreInit ==
    ASSUME Init
    PROVE  SInv /\ Store!Init
<1>1. HeldIsFirst /\ FilesApart /\ Fresh
  BY DEF Init, HeldIsFirst, FilesApart, Fresh, FreshAt
<1>2. Holding = [h \in Conn \X {"read", "write"} |-> None]
  <2>1. ASSUME NEW h \in Conn \X {"read", "write"} PROVE Holding[h] = None
    <3>1. PICK d \in Conn, k \in {"read", "write"} : h = <<d, k>>
      OBVIOUS
    <3> QED
      BY <3>1, HoldingIs DEF Init
  <2> QED
    BY <2>1 DEF Holding
<1> QED
  BY <1>1, <1>2, InitInv DEF SInv, Store!Init, Init

(* Whatever the workers look up, create, evict and give back, and whenever  *)
(* the callbacks of the readers come: all handles of a file are of the one   *)
(* buffer that a lookup of it gives, and the buffer stays that of its file   *)
(* until the last of them is given back (worker.c:529-612, 419-445).         *)
THEOREM WorkersShareBuffers == Spec => ImplementsStore
<1>1. Init => SInv /\ Store!Init
  BY StoreInit
<1>2. SInv /\ [Next]_vars => SInv' /\ [Store!Next]_<<first, Holding>>
  BY NextInv, StepRefines DEF SInv, Refines
<1>3. Store!Spec <=> Store!Init /\ [][Store!Next]_<<first, Holding>>
  BY DEF Store!Spec
<1> QED
  BY <1>1, <1>2, <1>3, PTL DEF Spec, ImplementsStore
=============================================================================
