------------------------- MODULE HttpWorkerProofs -------------------------
(***************************************************************************)
(* Proofs about HttpWorker, for any number of workers, connections, files  *)
(* and buffers.                                                            *)
(***************************************************************************)
EXTENDS HttpWorker, FiniteSetTheorems, TLAPS

Processing == {"lookup", "create", "getwrite", "getread", "lock", "queue"}
Visiting == Processing \cup {"reap", "mark"}

(* A walk is over entries of the worker's own list, each visited once. *)
WalkInv ==
    \A w \in Worker :
        /\ pc[w] \in Visiting \cup {"walk"} => todo[w] \subseteq requests[w]
        /\ pc[w] \in Visiting => at[w] \in requests[w] \ todo[w]

(* A descriptor set tells the state of what has not been visited: only the  *)
(* worker itself takes a request out of READ or WRITE.                      *)
DescriptorInv ==
    \A w \in Worker, c \in Conn :
        \/ pc[w] = "select" /\ c \in read_fds[w] \cup write_fds[w]
        \/ pc[w] \in Visiting \cup {"walk"} /\ c \in todo[w] \cap (read_fds[w] \cup write_fds[w])
        => /\ c \in requests[w]
           /\ c \in read_fds[w] => state[c] = "READ"
           /\ c \in write_fds[w] => state[c] = "WRITE"

(* The request that a worker processes. *)
ProcessInv ==
    \A w \in Worker :
        /\ pc[w] \in Processing => state[at[w]] = "READ"
        /\ pc[w] = "mark" => state[at[w]] \in {"READ", "WRITE"}
        /\ pc[w] \in {"lookup", "create", "getwrite", "getread"} => path[at[w]] \in File
        /\ pc[w] \in {"lock", "queue"} => wb[at[w]] \in Buffer /\ body[at[w]] = wb[at[w]]

(* A request in the pool waits for it, or is about to. *)
ReadingInv ==
    \A c \in reading :
        /\ \/ state[c] = "WAITING_FOR_BODY"
           \/ \E w \in Worker : at[w] = c /\ pc[w] = "mark" /\ state[c] = "READ"
        /\ wb[c] \in Buffer /\ body[c] = wb[c]

(* A lookup gives a buffer of the file, if there is one. *)
FirstInv ==
    \A f \in File : first[f] \in buffers[f] \/ (first[f] = None /\ buffers[f] = {})

IInv == /\ TypeOK /\ ListsCounted /\ NoLostWakeup /\ HandlesInCache
        /\ WalkInv /\ DescriptorInv /\ ProcessInv /\ ReadingInv /\ FirstInv

USE DEF Processing, Visiting

----------------------------------------------------------------------------
(* What the list of a worker counts. *)
LEMMA Counts ==
    ASSUME IInv, NEW w \in Worker
    PROVE  /\ IsFiniteSet(requests[w]) /\ current_requests[w] = Cardinality(requests[w])
           /\ current_requests[w] \in Nat
           /\ current_requests[w] = 0 <=> requests[w] = {}
<1>1. requests[w] \in SUBSET Conn
  BY DEF IInv, TypeOK
<1>2. IsFiniteSet(requests[w]) /\ Cardinality(requests[w]) \in Nat
  BY <1>1, WorkerAssumption, FS_Subset, FS_CardinalityType
<1> QED
  BY <1>2, FS_EmptySet DEF IInv, ListsCounted

(* No other worker has a request that one has listed. *)
LEMMA Own ==
    ASSUME IInv, NEW w \in Worker, NEW c \in requests[w]
    PROVE  /\ c \in Conn /\ state[c] \in Listed
           /\ \A v \in Worker \ {w} :
                 /\ c \notin requests[v]
                 /\ pc[v] \in Visiting \cup {"walk"} => c \notin todo[v]
                 /\ pc[v] \in Visiting => at[v] # c
<1>1. c \in Conn
  BY DEF IInv, TypeOK
<1> QED
  BY <1>1 DEF IInv, ListsCounted, WalkInv

(* The request a worker processes is its own, and not in the pool before it *)
(* has been queued.                                                        *)
LEMMA AtIsOwn ==
    ASSUME IInv, NEW w \in Worker, pc[w] \in Visiting
    PROVE  /\ at[w] \in requests[w] /\ at[w] \in Conn /\ at[w] \notin todo[w]
           /\ \A v \in Worker \ {w} :
                 /\ at[w] \notin requests[v]
                 /\ pc[v] \in Visiting \cup {"walk"} => at[w] \notin todo[v]
                 /\ pc[v] \in Visiting => at[v] # at[w]
           /\ at[w] \in reading => /\ pc[w] \in {"mark", "reap"}
                                   /\ state[at[w]] \in {"READ", "WAITING_FOR_BODY"}
<1>1. at[w] \in requests[w] /\ at[w] \notin todo[w]
  BY DEF IInv, WalkInv
<1>2. ASSUME at[w] \in reading
      PROVE  pc[w] \in {"mark", "reap"} /\ state[at[w]] \in {"READ", "WAITING_FOR_BODY"}
  BY <1>1, <1>2, Own DEF IInv, ReadingInv, ProcessInv
<1> QED
  BY <1>1, <1>2, Own

(* A descriptor found ready is that of a request of the worker, which is in *)
(* nobody's hands.                                                         *)
LEMMA VisitIsOwn ==
    ASSUME IInv, NEW w \in Worker, NEW c \in Conn, Visit(w, c)
    PROVE  /\ c \in requests[w] /\ pc[w] = "walk"
           /\ \A v \in Worker \ {w} :
                 /\ c \notin requests[v]
                 /\ pc[v] \in Visiting \cup {"walk"} => c \notin todo[v]
                 /\ pc[v] \in Visiting => at[v] # c
           /\ c \in read_fds[w] => state[c] = "READ"
           /\ c \in write_fds[w] => state[c] = "WRITE"
           /\ c \in read_fds[w] \cup write_fds[w] => c \notin reading
<1>1. c \in todo[w] /\ pc[w] = "walk"
  BY DEF Visit
<1>2. c \in requests[w]
  BY <1>1 DEF IInv, WalkInv
<1>3. (c \in read_fds[w] => state[c] = "READ") /\ (c \in write_fds[w] => state[c] = "WRITE")
  BY <1>1 DEF IInv, DescriptorInv
<1>4. ASSUME c \in reading, state[c] \in {"READ", "WRITE"} PROVE FALSE
  <2>1. PICK v \in Worker : at[v] = c /\ pc[v] = "mark"
    BY <1>4 DEF IInv, ReadingInv
  <2> QED
    BY <1>1, <1>2, <2>1, Own
<1> QED
  BY <1>1, <1>2, <1>3, <1>4, Own

(* The handles are safe in a step that creates and evicts nothing and gives *)
(* none but to buffers in the cache.                                       *)
LEMMA HandlesKept ==
    ASSUME IInv, UNCHANGED <<buffers, first>>,
           \A c \in Conn : /\ body'[c] = body[c] \/ body'[c] \in Live \cup {None}
                           /\ wb'[c] = wb[c] \/ wb'[c] \in Live \cup {None},
           \A w \in Worker : pc'[w] = "getread" => first[path'[at'[w]]] = wb'[at'[w]]
                                                   /\ wb'[at'[w]] # None
    PROVE  HandlesInCache'
<1>1. Live' = Live
  BY DEF Live
<1> QED
  BY <1>1 DEF IInv, HandlesInCache

----------------------------------------------------------------------------
(* The server has accepted nothing yet. *)
LEMMA InitInv == Init => IInv
<1> SUFFICES ASSUME Init PROVE IInv
  OBVIOUS
<1>1. TypeOK /\ NoLostWakeup /\ HandlesInCache
  BY DEF Init, TypeOK, NoLostWakeup, HandlesInCache, Live
<1>2. ListsCounted
  BY WorkerAssumption, FS_EmptySet DEF Init, ListsCounted, Listed
<1>3. WalkInv /\ DescriptorInv /\ ProcessInv /\ ReadingInv /\ FirstInv
  BY DEF Init, WalkInv, DescriptorInv, ProcessInv, ReadingInv, FirstInv
<1> QED
  BY <1>1, <1>2, <1>3 DEF IInv

(* AddRequest. *)
LEMMA AddRequestStep ==
    ASSUME IInv, NEW w \in Worker, NEW c \in Conn, AddRequest(w, c)
    PROVE  IInv'
<1>2. /\ IsFiniteSet(requests[w]) /\ current_requests[w] = Cardinality(requests[w])
      /\ current_requests[w] = 0 <=> requests[w] = {}
  BY Counts
<1>1. \A v \in Worker : c \notin requests[v]
  BY DEF IInv, ListsCounted, Listed, AddRequest
<1>13. \A v \in Worker : /\ current_requests[v] = Cardinality(requests[v])
                         /\ current_requests[v] <= MaxRequests
  BY DEF IInv, ListsCounted
<1>10. Cardinality(requests[w] \cup {c}) = current_requests[w] + 1
  BY <1>1, <1>2, FS_AddElement
<1> USE DEF IInv, AddRequest, Unlocked, walkVars, answerVars, cacheVars
<1>3. pc'[w] = "wait" => requests' = requests
  <2>1. pc[w] = "wait" => current_requests[w] = 0
    BY <1>2 DEF NoLostWakeup
  <2> QED
    BY <2>1 DEF TypeOK
<1>4. TypeOK'
  BY Counts DEF TypeOK, Listed
<1>5. ListsCounted'
  <2>1. ASSUME ~shutdown[w] /\ current_requests[w] < MaxRequests,
               requests' = [requests EXCEPT ![w] = @ \cup {c}],
               current_requests' = [current_requests EXCEPT ![w] = @ + 1],
               state' = [state EXCEPT ![c] = "CONNECT"]
        PROVE  ListsCounted'
    <3>3. /\ requests'[w] = requests[w] \cup {c}
          /\ current_requests'[w] = current_requests[w] + 1
          /\ \A v \in Worker \ {w} : /\ requests'[v] = requests[v]
                                     /\ current_requests'[v] = current_requests[v]
      BY <2>1 DEF TypeOK
    <3>4. current_requests[w] + 1 <= MaxRequests
      BY <2>1, WorkerAssumption DEF TypeOK
    <3>2. \A v \in Worker : current_requests'[v] = Cardinality(requests'[v])
                            /\ current_requests'[v] <= MaxRequests
      <4> TAKE v \in Worker
      <4>1. CASE v = w
        BY <1>10, <3>3, <3>4, <4>1
      <4>2. CASE v # w
        BY <1>13, <3>3, <4>2
      <4> QED
        BY <4>1, <4>2
    <3>5. /\ state'[c] = "CONNECT"
          /\ \A d \in Conn \ {c} : state'[d] = state[d]
      BY <2>1 DEF TypeOK
    <3>6. \A d \in Conn : state'[d] \in Listed <=> \E v \in Worker : d \in requests'[v]
      BY <3>3, <3>5 DEF ListsCounted, Listed
    <3>7. \A u, v \in Worker : u # v => requests'[u] \cap requests'[v] = {}
      BY <1>1, <3>3 DEF ListsCounted
    <3> QED
      BY <3>2, <3>6, <3>7 DEF ListsCounted
  <2>2. ASSUME UNCHANGED <<requests, current_requests>>, state' = [state EXCEPT ![c] = "CLOSED"]
        PROVE  ListsCounted'
    BY <1>1, <2>2 DEF TypeOK, ListsCounted, Listed
  <2> QED
    BY <2>1, <2>2
<1>6. NoLostWakeup'
  BY <1>3 DEF NoLostWakeup, TypeOK
<1>7. HandlesInCache'
  BY HandlesKept DEF HandlesInCache, TypeOK
<1>8. WalkInv'
  BY DEF WalkInv, TypeOK
<1>9. DescriptorInv'
  <2>1. \A v \in Worker : /\ pc'[v] = pc[v] \/ (pc[v] = "wait" /\ pc'[v] = "woken")
                          /\ requests[v] \subseteq requests'[v]
                          /\ \A d \in requests[v] : state'[d] = state[d]
    BY <1>1 DEF TypeOK
  <2> QED
    BY <2>1 DEF DescriptorInv
<1>11. ProcessInv'
  BY <1>1 DEF ProcessInv, WalkInv, TypeOK
<1>12. ReadingInv' /\ FirstInv'
  BY DEF ReadingInv, FirstInv, TypeOK
<1> QED
  BY <1>4, <1>5, <1>6, <1>7, <1>8, <1>9, <1>11, <1>12

(* The steps of the loop that touch no request. *)
LEMMA QuietStep ==
    ASSUME IInv, NEW w \in Worker,
           \/ Idle(w) \/ SpuriousWakeup(w) \/ Leave(w) \/ EndWalk(w) \/ GracefullyShutdown(w)
    PROVE  IInv'
<1>1. current_requests[w] = 0 <=> requests[w] = {}
  BY Counts
<1> USE DEF IInv, workerVars, walkVars, answerVars, cacheVars
<1>2. UNCHANGED <<requests, current_requests, walkVars, state, answerVars, wb, reading, cacheVars>>
  BY DEF Idle, SpuriousWakeup, Leave, EndWalk, GracefullyShutdown
<1>3. TypeOK'
  BY <1>2 DEF TypeOK, Idle, SpuriousWakeup, Leave, EndWalk, GracefullyShutdown, To
<1>4. /\ pc'[w] = pc[w] \/ (pc[w] \notin Visiting /\ pc'[w] \in {"loop", "wait", "woken", "exit"})
      /\ pc'[w] = "wait" => requests[w] = {} /\ ~shutdown'[w]
      /\ \A v \in Worker \ {w} : pc'[v] = pc[v] /\ shutdown'[v] = shutdown[v]
  BY <1>1 DEF Idle, SpuriousWakeup, Leave, EndWalk, GracefullyShutdown, To, Unlocked, TypeOK
<1>5. ListsCounted' /\ NoLostWakeup' /\ FirstInv'
  BY <1>2, <1>4 DEF ListsCounted, NoLostWakeup, FirstInv
<1>6. HandlesInCache'
  BY <1>2, <1>4, HandlesKept DEF HandlesInCache
<1>7. WalkInv' /\ DescriptorInv'
  BY <1>2, <1>4 DEF WalkInv, DescriptorInv
<1>8. ProcessInv' /\ ReadingInv'
  BY <1>2, <1>4 DEF ProcessInv, ReadingInv
<1> QED
  BY <1>3, <1>5, <1>6, <1>7, <1>8

(* The first walk builds the descriptor sets from the states. *)
LEMMA PollStep ==
    ASSUME IInv, NEW w \in Worker, Poll(w)
    PROVE  IInv'
<1> USE DEF IInv, Poll, To, workerVars, answerVars, cacheVars
<1>1. TypeOK'
  BY DEF TypeOK, Listed
<1>2. ListsCounted' /\ NoLostWakeup' /\ FirstInv'
  BY DEF TypeOK, ListsCounted, NoLostWakeup, FirstInv, Listed
<1>3. HandlesInCache'
  BY HandlesKept DEF HandlesInCache, TypeOK
<1>4. WalkInv'
  BY DEF WalkInv, TypeOK
<1>5. DescriptorInv'
  BY DEF DescriptorInv, TypeOK
<1>6. ProcessInv'
  BY DEF ProcessInv, WalkInv, TypeOK
<1>7. ReadingInv'
  BY DEF ReadingInv, TypeOK
<1> QED
  BY <1>1, <1>2, <1>3, <1>4, <1>5, <1>6, <1>7

(* pselect only takes descriptors out of the sets. *)
LEMMA SelectStep ==
    ASSUME IInv, NEW w \in Worker, Select(w)
    PROVE  IInv'
<1> USE DEF IInv, Select, To, workerVars, answerVars, cacheVars
<1>1. TypeOK'
  <2>1. read_fds' \in [Worker -> SUBSET Conn] /\ write_fds' \in [Worker -> SUBSET Conn]
    <3>1. read_fds[w] \in SUBSET Conn /\ write_fds[w] \in SUBSET Conn
      BY DEF TypeOK
    <3>2. CASE UNCHANGED <<read_fds, write_fds>>
      BY <3>2 DEF TypeOK
    <3>3. ASSUME NEW R \in SUBSET read_fds[w], read_fds' = [read_fds EXCEPT ![w] = R],
                 NEW W \in SUBSET write_fds[w], write_fds' = [write_fds EXCEPT ![w] = W]
          PROVE  read_fds' \in [Worker -> SUBSET Conn] /\ write_fds' \in [Worker -> SUBSET Conn]
      BY <3>1, <3>3 DEF TypeOK
    <3> QED
      BY <3>2, <3>3
  <2>2. todo' \in [Worker -> SUBSET Conn]
    BY DEF TypeOK
  <2>3. pc' = [pc EXCEPT ![w] = "walk"] \/ pc' = [pc EXCEPT ![w] = "loop"]
    OBVIOUS
  <2> QED
    BY <2>1, <2>2, <2>3 DEF TypeOK
<1>2. ListsCounted' /\ NoLostWakeup' /\ FirstInv'
  BY DEF TypeOK, ListsCounted, NoLostWakeup, FirstInv
<1>3. HandlesInCache'
  BY HandlesKept DEF HandlesInCache, TypeOK
<1>4. WalkInv'
  BY DEF WalkInv, TypeOK
<1>5. DescriptorInv'
  BY DEF DescriptorInv, TypeOK
<1>6. ProcessInv' /\ ReadingInv'
  BY DEF ProcessInv, ReadingInv, TypeOK
<1> QED
  BY <1>1, <1>2, <1>3, <1>4, <1>5, <1>6

(* A visit changes the state of the request it comes to, and leaves it to  *)
(* be reaped or looked up.                                                 *)
LEMMA VisitStep ==
    ASSUME IInv, NEW w \in Worker, NEW c \in Conn,
           Skip(w, c) \/ Read(w, c) \/ Write(w, c)
    PROVE  IInv'
<1>1. Visit(w, c)
  BY DEF Skip, Read, ReadMore, ReadFails, AnswerPlain, Get,
         Write, Send, WouldBlock, WriteFails, EndOfAnswer, Writing
<1>2. /\ c \in requests[w] /\ pc[w] = "walk"
      /\ \A v \in Worker \ {w} : /\ c \notin requests[v]
                                 /\ pc[v] \in Visiting \cup {"walk"} => c \notin todo[v]
                                 /\ pc[v] \in Visiting => at[v] # c
      /\ c \in read_fds[w] => state[c] = "READ"
      /\ c \in write_fds[w] => state[c] = "WRITE"
      /\ c \in read_fds[w] \cup write_fds[w] => c \notin reading
  BY <1>1, VisitIsOwn
<1>3. /\ UNCHANGED <<workerVars, wb, reading, buffers, first, leaked, read_fds, write_fds, body>>
      /\ at' = [at EXCEPT ![w] = c] /\ todo' = [todo EXCEPT ![w] = @ \ {c}]
  BY <1>1 DEF Visit, Skip, Read, ReadMore, ReadFails, AnswerPlain, Get, Write, Send, WouldBlock,
              WriteFails, EndOfAnswer, Writing, workerVars, answerVars, cacheVars
<1>4. CASE Skip(w, c)
  <2>1. pc' = [pc EXCEPT ![w] = "reap"] /\ UNCHANGED <<state, path, raw, sent, failed, used, writer>>
    BY <1>4 DEF Skip, To, answerVars, cacheVars
  <2>2. TypeOK'
    BY <1>3, <2>1 DEF IInv, TypeOK, workerVars
  <2>3. ListsCounted' /\ NoLostWakeup' /\ FirstInv'
    BY <1>3, <2>1 DEF IInv, TypeOK, ListsCounted, NoLostWakeup, FirstInv, workerVars
  <2>4. HandlesInCache'
    BY <1>3, <2>1, HandlesKept DEF IInv, HandlesInCache, TypeOK
  <2>5. WalkInv' /\ DescriptorInv'
    BY <1>2, <1>3, <2>1 DEF IInv, WalkInv, DescriptorInv, TypeOK, workerVars
  <2>6. ProcessInv' /\ ReadingInv'
    BY <1>2, <1>3, <2>1 DEF IInv, ProcessInv, ReadingInv, TypeOK
  <2> QED
    BY <2>2, <2>3, <2>4, <2>5, <2>6 DEF IInv
<1>5. ASSUME c \in read_fds[w] \cup write_fds[w],
             NEW p \in {"reap", "lookup"}, pc' = [pc EXCEPT ![w] = p],
             NEW s \in {"READ", "WRITE", "DONE", "ERROR"}, state' = [state EXCEPT ![c] = s],
             p = "lookup" => s = "READ" /\ path'[c] \in File,
             \A d \in Conn \ {c} : path'[d] = path[d],
             TypeOK'
      PROVE  IInv'
  <2>1. c \notin reading
    BY <1>2, <1>5
  <2>2. ListsCounted' /\ NoLostWakeup' /\ FirstInv'
    BY <1>2, <1>3, <1>5 DEF IInv, TypeOK, ListsCounted, NoLostWakeup, FirstInv, workerVars, Listed
  <2>3. HandlesInCache'
    <3>1. ASSUME NEW v \in Worker, pc'[v] = "getread"
          PROVE  /\ pc[v] = "getread" /\ at'[v] = at[v] /\ at[v] \in Conn
                 /\ path'[at[v]] = path[at[v]]
      BY <1>2, <1>3, <1>5, <3>1 DEF IInv, TypeOK, WalkInv
    <3> QED
      BY <1>3, <3>1, HandlesKept DEF IInv, HandlesInCache
  <2>4. WalkInv' /\ DescriptorInv'
    BY <1>2, <1>3, <1>5 DEF IInv, WalkInv, DescriptorInv, TypeOK, workerVars
  <2>5. ProcessInv'
    BY <1>2, <1>3, <1>5 DEF IInv, ProcessInv, WalkInv, TypeOK, workerVars
  <2>6. ReadingInv'
    BY <1>2, <1>3, <1>5, <2>1 DEF IInv, ReadingInv, TypeOK
  <2> QED
    BY <1>5, <2>2, <2>3, <2>4, <2>5, <2>6 DEF IInv
<1>6. CASE Read(w, c)
  <2>1. c \in read_fds[w]
    BY <1>6 DEF Read, ReadMore, ReadFails, AnswerPlain, Get
  <2>2. CASE ReadMore(w, c)
    <3>1. TypeOK'
      BY <1>3, <2>2 DEF IInv, TypeOK, ReadMore, To, workerVars, answerVars, cacheVars, Listed
    <3> QED
      BY <1>5, <2>1, <2>2, <3>1 DEF ReadMore, To, answerVars
  <2>3. CASE ReadFails(w, c)
    <3>1. TypeOK'
      BY <1>3, <2>3 DEF IInv, TypeOK, ReadFails, To, workerVars, answerVars, cacheVars, Listed
    <3> QED
      BY <1>5, <2>1, <2>3, <3>1 DEF ReadFails, To, answerVars
  <2>4. CASE AnswerPlain(w, c)
    <3>1. TypeOK'
      BY <1>3, <2>4 DEF IInv, TypeOK, AnswerPlain, To, workerVars, cacheVars, Listed
    <3> QED
      BY <1>5, <2>1, <2>4, <3>1 DEF AnswerPlain, To
  <2>5. ASSUME NEW f \in File, Get(w, c, f) PROVE IInv'
    <3>1. TypeOK'
      BY <1>3, <2>5 DEF IInv, TypeOK, Get, To, workerVars, cacheVars, Listed
    <3> QED
      BY <1>5, <2>1, <2>5, <3>1 DEF IInv, TypeOK, Get, To
  <2> QED
    BY <1>6, <2>2, <2>3, <2>4, <2>5 DEF Read
<1>7. CASE Write(w, c)
  <2>1. Writing(w, c) /\ c \in write_fds[w] /\ UNCHANGED path
    BY <1>7 DEF Write, Send, WouldBlock, WriteFails, EndOfAnswer, Writing
  <2>2. PICK s \in {"WRITE", "DONE"} : state' = [state EXCEPT ![c] = s]
    BY <1>7 DEF Write, Send, WouldBlock, WriteFails, EndOfAnswer
  <2>3. writer' \in [Buffer -> Worker \cup {None}]
    BY <2>1 DEF IInv, TypeOK, Writing, UnderReadLock
  <2>4. sent' \in [Conn -> {"nothing", "header", "body"}] /\ failed' \subseteq Conn
    BY <1>7 DEF IInv, TypeOK, Write, Send, WouldBlock, WriteFails, EndOfAnswer
  <2>5. TypeOK'
    BY <1>3, <2>1, <2>2, <2>3, <2>4 DEF IInv, TypeOK, Writing, To, workerVars, Listed
  <2> QED
    BY <1>5, <2>1, <2>2, <2>5 DEF Writing, To
<1> QED
  BY <1>4, <1>6, <1>7

(* A request that is through leaves the list and gives its buffer back. *)
LEMMA ReapStep ==
    ASSUME IInv, NEW w \in Worker, Reap(w)
    PROVE  IInv'
<1> DEFINE c == at[w]
<1>1. pc[w] = "reap" /\ c \in requests[w] /\ c \in Conn /\ c \notin todo[w]
  BY AtIsOwn DEF Reap
<1>2. /\ \A v \in Worker \ {w} : /\ c \notin requests[v]
                                 /\ pc[v] \in Visiting \cup {"walk"} => c \notin todo[v]
                                 /\ pc[v] \in Visiting => at[v] # c
      /\ c \in reading => state[c] \in {"READ", "WAITING_FOR_BODY"}
  BY <1>1, AtIsOwn
<1>3. /\ IsFiniteSet(requests[w]) /\ current_requests[w] = Cardinality(requests[w])
      /\ current_requests[w] \in Nat /\ current_requests[w] # 0
  BY <1>1, Counts
<1> HIDE DEF c
<1>4. Cardinality(requests[w] \ {c}) = current_requests[w] - 1 /\ current_requests[w] - 1 \in Nat
  <2>1. Cardinality(requests[w] \ {c}) = Cardinality(requests[w]) - 1
    BY <1>1, <1>3, FS_RemoveElement
  <2> QED
    BY <1>3, <2>1
<1>5. /\ at' = [at EXCEPT ![w] = None] /\ pc' = [pc EXCEPT ![w] = "walk"]
      /\ UNCHANGED <<shutdown, todo, read_fds, write_fds, path, failed, wb, reading, buffers,
                     first, used, writer, leaked>>
  BY DEF Reap, To, cacheVars
<1>8. \A v \in Worker \ {w} : at'[v] = at[v] /\ pc'[v] = pc[v]
  BY <1>5 DEF IInv, TypeOK
<1>6. CASE state[c] \notin {"DONE", "ERROR"}
  <2>1. UNCHANGED <<requests, current_requests, state, body, raw, sent>>
    BY <1>6 DEF Reap, c
  <2>2. TypeOK'
    BY <1>5, <2>1 DEF IInv, TypeOK
  <2>3. ListsCounted' /\ NoLostWakeup' /\ FirstInv'
    BY <1>5, <2>1 DEF IInv, TypeOK, ListsCounted, NoLostWakeup, FirstInv
  <2>4. HandlesInCache'
    BY <1>5, <2>1, HandlesKept DEF IInv, HandlesInCache, TypeOK
  <2>5. WalkInv' /\ DescriptorInv'
    BY <1>1, <1>5, <2>1 DEF IInv, WalkInv, DescriptorInv, TypeOK
  <2>6. ProcessInv' /\ ReadingInv'
    BY <1>1, <1>5, <2>1 DEF IInv, ProcessInv, ReadingInv, TypeOK
  <2> QED
    BY <2>2, <2>3, <2>4, <2>5, <2>6 DEF IInv
<1>7. CASE state[c] \in {"DONE", "ERROR"}
  <2>1. /\ requests' = [requests EXCEPT ![w] = @ \ {c}]
        /\ current_requests' = [current_requests EXCEPT ![w] = @ - 1]
        /\ state' = [state EXCEPT ![c] = "CLOSED"]
        /\ body' = [body EXCEPT ![c] = None]
        /\ raw' = [raw EXCEPT ![c] = "none"]
        /\ sent' = [sent EXCEPT ![c] = "nothing"]
    BY <1>7 DEF Reap, c
  <2>2. c \notin reading
    BY <1>2, <1>7
  <2>3. /\ requests'[w] = requests[w] \ {c} /\ current_requests'[w] = current_requests[w] - 1
        /\ \A v \in Worker \ {w} : /\ requests'[v] = requests[v]
                                   /\ current_requests'[v] = current_requests[v]
        /\ state'[c] = "CLOSED" /\ body'[c] = None
        /\ \A d \in Conn \ {c} : state'[d] = state[d] /\ body'[d] = body[d]
    BY <1>1, <2>1 DEF IInv, TypeOK
  <2>4. TypeOK'
    BY <1>1, <1>4, <1>5, <2>1 DEF IInv, TypeOK
  <2>5. ListsCounted'
    <3>1. \A v \in Worker : /\ current_requests'[v] = Cardinality(requests'[v])
                            /\ current_requests'[v] <= MaxRequests
      <4> TAKE v \in Worker
      <4>1. current_requests[v] = Cardinality(requests[v]) /\ current_requests[v] <= MaxRequests
        BY DEF IInv, ListsCounted
      <4>2. CASE v = w
        <5>1. current_requests[w] <= MaxRequests /\ MaxRequests \in Nat
          BY <4>1, <4>2, WorkerAssumption
        <5>2. current_requests'[w] <= MaxRequests
          BY <1>3, <2>3, <5>1
        <5>3. current_requests'[w] = Cardinality(requests'[w])
          BY <1>4, <2>3
        <5> QED
          BY <4>2, <5>2, <5>3
      <4>3. CASE v # w
        BY <2>3, <4>1, <4>3
      <4> QED
        BY <4>2, <4>3
    <3>2. \A d \in Conn : state'[d] \in Listed <=> \E v \in Worker : d \in requests'[v]
      BY <1>1, <1>2, <2>3 DEF IInv, ListsCounted, Listed
    <3>3. \A u, v \in Worker : u # v => requests'[u] \cap requests'[v] = {}
      BY <2>3 DEF IInv, ListsCounted
    <3> QED
      BY <3>1, <3>2, <3>3 DEF ListsCounted
  <2>6. NoLostWakeup' /\ FirstInv'
    BY <1>5, <2>3 DEF IInv, TypeOK, NoLostWakeup, FirstInv
  <2>7. HandlesInCache'
    BY <1>1, <1>2, <1>5, <2>3, HandlesKept DEF IInv, HandlesInCache, TypeOK
  <2>8. WalkInv'
    BY <1>1, <1>5, <2>3 DEF IInv, WalkInv, TypeOK
  <2>9. DescriptorInv'
    BY <1>1, <1>2, <1>5, <2>3 DEF IInv, DescriptorInv, TypeOK
  <2>10. ProcessInv'
    BY <1>1, <1>2, <1>5, <2>3 DEF IInv, ProcessInv, WalkInv, TypeOK
  <2>11. ReadingInv'
    <3>1. ASSUME NEW d \in reading
          PROVE  /\ d # c /\ d \in Conn /\ wb[d] \in Buffer /\ body[d] = wb[d]
                 /\ \/ state[d] = "WAITING_FOR_BODY"
                    \/ \E v \in Worker \ {w} : at[v] = d /\ pc[v] = "mark" /\ state[d] = "READ"
      BY <1>1, <2>2 DEF IInv, ReadingInv, TypeOK
    <3> QED
      BY <1>5, <1>8, <2>3, <3>1 DEF ReadingInv
  <2> QED
    BY <2>4, <2>5, <2>6, <2>7, <2>8, <2>9, <2>10, <2>11 DEF IInv
<1> QED
  BY <1>6, <1>7

----------------------------------------------------------------------------
(* The steps of the request processing share a shape: the worker goes on to *)
(* the place p with the request c it is at.                                *)
Advance(w, c, p) ==
    /\ c = at[w] /\ pc[w] \in Processing \cup {"mark"}
    /\ pc' = [pc EXCEPT ![w] = p]
    /\ UNCHANGED <<workerVars, walkVars, path, sent, failed>>
    /\ \A d \in Conn \ {c} : state'[d] = state[d] /\ body'[d] = body[d] /\ wb'[d] = wb[d]
    /\ state'[c] \in {"READ", "WRITE", "WAITING_FOR_BODY", "ERROR"}

(* What such a step cannot disturb. *)
LEMMA AdvanceStep ==
    ASSUME IInv, NEW w \in Worker, NEW c, NEW p \in Visiting, Advance(w, c, p)
    PROVE  ListsCounted' /\ NoLostWakeup' /\ WalkInv' /\ DescriptorInv'
<1>1. pc[w] \in Visiting
  BY DEF Advance
<1>2. /\ c \in requests[w] /\ c \in Conn /\ c \notin todo[w]
      /\ \A v \in Worker \ {w} : /\ c \notin requests[v]
                                 /\ pc[v] \in Visiting \cup {"walk"} => c \notin todo[v]
  BY <1>1, AtIsOwn DEF Advance
<1>3. state'[c] \in Listed /\ state[c] \in Listed
  BY <1>2, Own DEF Advance, Listed
<1>4. ListsCounted'
  BY <1>2, <1>3 DEF Advance, IInv, TypeOK, ListsCounted, workerVars
<1>5. NoLostWakeup'
  BY DEF Advance, IInv, TypeOK, NoLostWakeup, workerVars
<1>6. WalkInv'
  BY <1>1 DEF Advance, IInv, TypeOK, WalkInv, workerVars, walkVars
<1>7. DescriptorInv'
  BY <1>1, <1>2 DEF Advance, IInv, TypeOK, DescriptorInv, WalkInv, workerVars, walkVars
<1> QED
  BY <1>4, <1>5, <1>6, <1>7

(* The processing of the other workers goes on as before, and so does what *)
(* the pool reads, if this step keeps its own part.                        *)
LEMMA AdvanceOthers ==
    ASSUME IInv, NEW w \in Worker, NEW c, NEW p \in Visiting, Advance(w, c, p),
           p \in Processing => state'[c] = "READ",
           p = "mark" => state'[c] \in {"READ", "WRITE"},
           p \in {"lookup", "create", "getwrite", "getread"} => path[c] \in File,
           p \in {"lock", "queue"} => wb'[c] \in Buffer /\ body'[c] = wb'[c],
           reading' \ reading \subseteq {c},
           c \in reading' => /\ \/ state'[c] = "WAITING_FOR_BODY"
                                \/ p = "mark" /\ state'[c] = "READ"
                             /\ wb'[c] \in Buffer /\ body'[c] = wb'[c]
    PROVE  ProcessInv' /\ ReadingInv'
<1>1. pc[w] \in Visiting /\ c = at[w]
  BY DEF Advance
<1>2. /\ c \in Conn
      /\ \A v \in Worker \ {w} : pc[v] \in Visiting => at[v] # c /\ at[v] \in Conn
  BY <1>1, AtIsOwn
<1>3. /\ pc'[w] = p /\ at' = at /\ path' = path
      /\ \A v \in Worker \ {w} : pc'[v] = pc[v]
      /\ \A d \in Conn \ {c} : state'[d] = state[d] /\ body'[d] = body[d] /\ wb'[d] = wb[d]
  BY DEF Advance, IInv, TypeOK, walkVars
<1>4. ProcessInv'
  BY <1>1, <1>2, <1>3 DEF IInv, ProcessInv
<1>5. ASSUME NEW d \in reading'
      PROVE  /\ \/ state'[d] = "WAITING_FOR_BODY"
                \/ \E v \in Worker : at'[v] = d /\ pc'[v] = "mark" /\ state'[d] = "READ"
             /\ wb'[d] \in Buffer /\ body'[d] = wb'[d]
  <2>1. CASE d = c
    BY <1>1, <1>3, <2>1
  <2>2. CASE d # c
    <3>1. d \in reading /\ d \in Conn
      BY <2>2 DEF IInv, TypeOK
    <3>2. /\ state[d] = "WAITING_FOR_BODY"
             \/ \E v \in Worker \ {w} : at[v] = d /\ pc[v] = "mark" /\ state[d] = "READ"
          /\ wb[d] \in Buffer /\ body[d] = wb[d]
      BY <1>1, <2>2, <3>1 DEF IInv, ReadingInv
    <3> QED
      BY <1>3, <2>2, <3>1, <3>2
  <2> QED
    BY <2>1, <2>2
<1>6. ReadingInv'
  BY <1>5 DEF ReadingInv
<1> QED
  BY <1>4, <1>6

(* GetBuffer, the first lookup. *)
LEMMA LookupStep ==
    ASSUME IInv, NEW w \in Worker, Lookup(w)
    PROVE  IInv'
<1> DEFINE c == at[w]
<1>1. pc[w] = "lookup"
  BY DEF Lookup
<1>2. c \in Conn /\ c \notin reading /\ state[c] = "READ" /\ path[c] \in File
  BY <1>1, AtIsOwn DEF IInv, ProcessInv
<1>3. first[path[c]] \in Buffer \cup {None}
  BY <1>2 DEF IInv, TypeOK
<1>4. UNCHANGED <<workerVars, walkVars, path, sent, failed, wb, reading, cacheVars>>
  BY DEF Lookup
<1>5. CASE first[path[c]] # None
  <2>1. /\ body' = [body EXCEPT ![c] = first[path[c]]] /\ raw' = [raw EXCEPT ![c] = "body"]
        /\ state' = [state EXCEPT ![c] = "WRITE"] /\ pc' = [pc EXCEPT ![w] = "reap"]
    BY <1>5 DEF Lookup, To
  <2>2. Advance(w, c, "reap")
    BY <1>1, <1>2, <1>4, <2>1 DEF Advance, IInv, TypeOK
  <2>3. first[path[c]] \in Live
    BY <1>2, <1>5 DEF IInv, FirstInv, Live
  <2>4. TypeOK'
    BY <1>3, <1>4, <2>1 DEF IInv, TypeOK, workerVars, walkVars, cacheVars, Listed
  <2>5. HandlesInCache'
    BY <1>2, <1>4, <2>1, <2>3, HandlesKept DEF IInv, TypeOK, HandlesInCache, walkVars, cacheVars
  <2>6. FirstInv'
    BY <1>4 DEF IInv, FirstInv, cacheVars
  <2> QED
    BY <1>2, <1>4, <2>2, <2>4, <2>5, <2>6, AdvanceStep, AdvanceOthers DEF IInv
<1>6. CASE first[path[c]] = None
  <2>1. UNCHANGED <<state, body, raw>> /\ pc' = [pc EXCEPT ![w] = "create"]
    BY <1>6 DEF Lookup, To
  <2>2. Advance(w, c, "create")
    BY <1>1, <1>2, <1>4, <2>1 DEF Advance
  <2>3. TypeOK'
    BY <1>4, <2>1 DEF IInv, TypeOK, workerVars, walkVars, cacheVars
  <2>4. HandlesInCache'
    BY <1>4, <2>1, HandlesKept DEF IInv, TypeOK, HandlesInCache, walkVars, cacheVars
  <2>5. FirstInv'
    BY <1>4 DEF IInv, FirstInv, cacheVars
  <2> QED
    BY <1>2, <1>4, <2>1, <2>2, <2>3, <2>4, <2>5, AdvanceStep, AdvanceOthers DEF IInv
<1> QED
  BY <1>5, <1>6

(* What a lookup gives after a relinking. *)
LEMMA RelinkGives ==
    ASSUME IInv, NEW kept \in [File -> SUBSET Buffer],
           buffers' \in [File -> SUBSET Buffer],
           \A f \in File : kept[f] \subseteq buffers'[f],
           Relink(kept)
    PROVE  /\ first' \in [File -> Buffer \cup {None}]
           /\ FirstInv'
           /\ \A f \in File : first[f] \in kept[f] => first'[f] = first[f]
<1>1. first' \in [File -> Buffer \cup {None}]
  BY DEF Relink
<1>2. ASSUME NEW f \in File
      PROVE  /\ first'[f] \in buffers'[f] \/ (first'[f] = None /\ buffers'[f] = {})
             /\ first[f] \in kept[f] => first'[f] = first[f]
  <2>1. first'[f] \in Leaders(first[f], kept[f], buffers'[f])
    BY DEF Relink
  <2>2. kept[f] \subseteq buffers'[f]
    OBVIOUS
  <2>3. CASE first[f] \in kept[f]
    BY <2>1, <2>2, <2>3 DEF Leaders
  <2>4. CASE first[f] \notin kept[f] /\ kept[f] # {}
    BY <2>1, <2>2, <2>4 DEF Leaders
  <2>5. CASE kept[f] = {} /\ buffers'[f] # {}
    BY <2>1, <2>5 DEF Leaders
  <2>6. CASE kept[f] = {} /\ buffers'[f] = {}
    BY <2>1, <2>6 DEF Leaders
  <2> QED
    BY <2>3, <2>4, <2>5, <2>6
<1> QED
  BY <1>1, <1>2 DEF FirstInv

(* An eviction of what nothing refers to leaves every handle in the cache,  *)
(* and the buffer of a WriteBuffer where the next lookup finds it.          *)
LEMMA EvictionSafe ==
    ASSUME IInv, NEW evicted \in SUBSET Unreferenced, NEW kept,
           kept = [f \in File |-> buffers[f] \ evicted],
           buffers' \in [File -> SUBSET Buffer],
           \A f \in File : kept[f] \subseteq buffers'[f],
           Relink(kept),
           UNCHANGED <<at, path, body, wb>>,
           \A v \in Worker : pc'[v] = "getread" => pc[v] = "getread"
    PROVE  /\ first' \in [File -> Buffer \cup {None}]
           /\ FirstInv' /\ HandlesInCache'
<1>1. kept \in [File -> SUBSET Buffer]
  BY DEF IInv, TypeOK
<1>2. /\ first' \in [File -> Buffer \cup {None}] /\ FirstInv'
      /\ \A f \in File : first[f] \in kept[f] => first'[f] = first[f]
  BY <1>1, RelinkGives
<1>3. ASSUME NEW b \in Live, b \notin evicted PROVE b \in Live'
  BY <1>3 DEF Live
<1>4. \A c \in Conn : {body[c], wb[c]} \cap evicted = {}
  BY DEF Unreferenced
<1>5. \A c \in Conn : {body'[c], wb'[c]} \ {None} \subseteq Live'
  BY <1>3, <1>4 DEF IInv, HandlesInCache
<1>6. ASSUME NEW v \in Worker, pc[v] = "getread"
      PROVE  first'[path[at[v]]] = wb[at[v]] /\ wb[at[v]] # None
  <2>1. at[v] \in Conn /\ path[at[v]] \in File
    BY <1>6, AtIsOwn DEF IInv, ProcessInv
  <2>2. first[path[at[v]]] = wb[at[v]] /\ wb[at[v]] # None
    BY <1>6 DEF IInv, HandlesInCache
  <2>3. first[path[at[v]]] \in buffers[path[at[v]]]
    BY <2>1, <2>2 DEF IInv, FirstInv
  <2>4. first[path[at[v]]] \in kept[path[at[v]]]
    BY <1>4, <2>1, <2>2, <2>3
  <2> QED
    BY <1>2, <2>1, <2>2, <2>4
<1> QED
  BY <1>2, <1>5, <1>6 DEF HandlesInCache

(* CreateBuffer. *)
LEMMA CreateStep ==
    ASSUME IInv, NEW w \in Worker, Create(w)
    PROVE  IInv'
<1> DEFINE c == at[w]
<1>1. pc[w] = "create"
  BY DEF Create
<1>2. c \in Conn /\ c \notin reading /\ state[c] = "READ" /\ path[c] \in File
  BY <1>1, AtIsOwn DEF IInv, ProcessInv
<1>3. UNCHANGED <<workerVars, walkVars, answerVars, wb, reading, leaked>>
  BY DEF Create
<1>4. PICK evicted \in SUBSET Unreferenced :
        LET kept == [f \in File |-> buffers[f] \ evicted] IN
        \/ \E b \in (Buffer \ Live) \cup evicted :
              /\ buffers' = [kept EXCEPT ![path[c]] = @ \cup {b}]
              /\ Relink(kept)
              /\ used' = [used EXCEPT ![b] = 0]
              /\ writer' = [writer EXCEPT ![b] = None]
              /\ To(w, "getwrite")
              /\ UNCHANGED state
        \/ /\ buffers' = kept
           /\ Relink(kept)
           /\ state' = [state EXCEPT ![c] = "ERROR"]
           /\ To(w, "reap")
           /\ UNCHANGED <<used, writer>>
  BY DEF Create
<1> DEFINE kept == [f \in File |-> buffers[f] \ evicted]
<1>5. evicted \subseteq Buffer /\ kept \in [File -> SUBSET Buffer]
  BY DEF Unreferenced, Live, IInv, TypeOK
<1>6. ASSUME NEW b \in (Buffer \ Live) \cup evicted,
             buffers' = [kept EXCEPT ![path[c]] = @ \cup {b}],
             Relink(kept),
             used' = [used EXCEPT ![b] = 0],
             writer' = [writer EXCEPT ![b] = None],
             To(w, "getwrite"), UNCHANGED state
      PROVE  IInv'
  <2>1. b \in Buffer
    BY <1>5
  <2>2. buffers' \in [File -> SUBSET Buffer] /\ \A f \in File : kept[f] \subseteq buffers'[f]
    BY <1>2, <1>5, <1>6, <2>1
  <2>3. pc' = [pc EXCEPT ![w] = "getwrite"]
    BY <1>6 DEF To
  <2>4. Advance(w, c, "getwrite")
    BY <1>1, <1>2, <1>3, <1>6, <2>3 DEF Advance, answerVars
  <2>5. /\ first' \in [File -> Buffer \cup {None}]
        /\ FirstInv' /\ HandlesInCache'
    BY <1>3, <1>6, <2>2, <2>3, EvictionSafe DEF IInv, TypeOK, walkVars, answerVars
  <2>6. TypeOK'
    BY <1>3, <1>6, <2>1, <2>2, <2>3, <2>5 DEF IInv, TypeOK, workerVars, walkVars, answerVars
  <2> QED
    BY <1>2, <1>3, <1>6, <2>4, <2>5, <2>6, AdvanceStep, AdvanceOthers DEF IInv
<1>7. ASSUME buffers' = kept, Relink(kept),
             state' = [state EXCEPT ![c] = "ERROR"],
             To(w, "reap"), UNCHANGED <<used, writer>>
      PROVE  IInv'
  <2>1. pc' = [pc EXCEPT ![w] = "reap"]
    BY <1>7 DEF To
  <2>2. Advance(w, c, "reap")
    BY <1>1, <1>2, <1>3, <1>7, <2>1 DEF Advance, answerVars, IInv, TypeOK
  <2>3. /\ first' \in [File -> Buffer \cup {None}]
        /\ FirstInv' /\ HandlesInCache'
    BY <1>3, <1>5, <1>7, <2>1, EvictionSafe DEF IInv, TypeOK, walkVars, answerVars
  <2>4. TypeOK'
    BY <1>3, <1>5, <1>7, <2>1, <2>3 DEF IInv, TypeOK, workerVars, walkVars, answerVars, Listed
  <2> QED
    BY <1>2, <1>3, <2>2, <2>3, <2>4, AdvanceStep, AdvanceOthers DEF IInv
<1> QED
  BY <1>4, <1>6, <1>7

(* GetWriteBuffer. *)
LEMMA TakeWriteStep ==
    ASSUME IInv, NEW w \in Worker, TakeWriteBuffer(w)
    PROVE  IInv'
<1> DEFINE c == at[w]
<1> DEFINE b == first[path[c]]
<1>1. pc[w] = "getwrite"
  BY DEF TakeWriteBuffer
<1>2. c \in Conn /\ c \notin reading /\ state[c] = "READ" /\ path[c] \in File
  BY <1>1, AtIsOwn DEF IInv, ProcessInv
<1>3. UNCHANGED <<workerVars, walkVars, answerVars, reading, buffers, first, used, writer>>
  BY DEF TakeWriteBuffer
<1>4. FirstInv'
  BY <1>3 DEF IInv, FirstInv
<1>5. CASE b # None
  <2>1. wb' = [wb EXCEPT ![c] = b] /\ pc' = [pc EXCEPT ![w] = "getread"] /\ UNCHANGED <<state, leaked>>
    BY <1>5 DEF TakeWriteBuffer, To
  <2>2. b \in Buffer /\ b \in Live
    BY <1>2, <1>5 DEF IInv, FirstInv, TypeOK, Live
  <2>3. Advance(w, c, "getread")
    BY <1>1, <1>2, <1>3, <2>1 DEF Advance, IInv, TypeOK, answerVars
  <2>4. TypeOK'
    BY <1>2, <1>3, <2>1, <2>2 DEF IInv, TypeOK, workerVars, walkVars, answerVars
  <2>5. HandlesInCache'
    <3>1. \A d \in Conn : wb'[d] = wb[d] \/ wb'[d] \in Live
      BY <2>1, <2>2 DEF IInv, TypeOK
    <3>2. ASSUME NEW v \in Worker, pc'[v] = "getread"
          PROVE  first[path'[at'[v]]] = wb'[at'[v]] /\ wb'[at'[v]] # None
      <4>1. CASE v = w
        BY <1>2, <1>3, <1>5, <2>1, <4>1 DEF IInv, TypeOK, walkVars, answerVars
      <4>2. CASE v # w
        <5>1. pc[v] = "getread" /\ at[v] \in Conn /\ at[v] # c
          BY <1>1, <2>1, <3>2, <4>2, AtIsOwn DEF IInv, TypeOK
        <5>2. wb'[at[v]] = wb[at[v]]
          BY <2>1, <5>1 DEF IInv, TypeOK
        <5> QED
          BY <1>3, <5>1, <5>2 DEF IInv, HandlesInCache, walkVars, answerVars
      <4> QED
        BY <4>1, <4>2
    <3> QED
      BY <1>3, <3>1, <3>2, HandlesKept DEF answerVars
  <2> QED
    BY <1>2, <1>3, <1>4, <2>1, <2>3, <2>4, <2>5, AdvanceStep, AdvanceOthers DEF IInv
<1>6. CASE b = None
  <2>1. leaked' = TRUE /\ state' = [state EXCEPT ![c] = "ERROR"] /\ pc' = [pc EXCEPT ![w] = "reap"]
        /\ UNCHANGED wb
    BY <1>6 DEF TakeWriteBuffer, To
  <2>2. Advance(w, c, "reap")
    BY <1>1, <1>2, <1>3, <2>1 DEF Advance, IInv, TypeOK, answerVars
  <2>3. TypeOK'
    BY <1>3, <2>1 DEF IInv, TypeOK, workerVars, walkVars, answerVars, Listed
  <2>4. HandlesInCache'
    BY <1>3, <2>1, HandlesKept DEF IInv, TypeOK, HandlesInCache, walkVars, answerVars
  <2> QED
    BY <1>2, <1>3, <1>4, <2>1, <2>2, <2>3, <2>4, AdvanceStep, AdvanceOthers DEF IInv
<1> QED
  BY <1>5, <1>6

(* The second GetBuffer. *)
LEMMA TakeReadStep ==
    ASSUME IInv, NEW w \in Worker, TakeReadBuffer(w)
    PROVE  IInv'
<1> DEFINE c == at[w]
<1>1. pc[w] = "getread"
  BY DEF TakeReadBuffer
<1>2. /\ c \in Conn /\ c \notin reading /\ state[c] = "READ" /\ path[c] \in File
      /\ first[path[c]] = wb[c] /\ wb[c] # None /\ wb[c] \in Buffer
  BY <1>1, AtIsOwn DEF IInv, ProcessInv, HandlesInCache, TypeOK
<1>3. UNCHANGED <<workerVars, walkVars, state, path, raw, sent, failed, wb, reading, cacheVars>>
  BY DEF TakeReadBuffer
<1>4. body' = [body EXCEPT ![c] = wb[c]] /\ pc' = [pc EXCEPT ![w] = "lock"]
  BY <1>2 DEF TakeReadBuffer, To
<1>5. Advance(w, c, "lock")
  BY <1>1, <1>2, <1>3, <1>4 DEF Advance, IInv, TypeOK
<1>6. TypeOK'
  BY <1>2, <1>3, <1>4 DEF IInv, TypeOK, workerVars, walkVars, cacheVars
<1>7. HandlesInCache'
  <2>1. wb[c] \in Live
    BY <1>2 DEF IInv, HandlesInCache
  <2> QED
    BY <1>2, <1>3, <1>4, <2>1, HandlesKept DEF IInv, TypeOK, HandlesInCache, walkVars, cacheVars
<1>8. FirstInv'
  BY <1>3 DEF IInv, FirstInv, cacheVars
<1>9. wb'[c] \in Buffer /\ body'[c] = wb'[c]
  BY <1>2, <1>3, <1>4 DEF IInv, TypeOK
<1> QED
  BY <1>2, <1>3, <1>5, <1>6, <1>7, <1>8, <1>9, AdvanceStep, AdvanceOthers DEF IInv

(* A request that gives its WriteBuffer back leaves the others theirs. *)
LEMMA HandlesReleased ==
    ASSUME IInv, NEW w \in Worker, NEW c \in Conn, NEW p \in Visiting \ {"getread"},
           c = at[w], pc[w] \in Visiting, pc' = [pc EXCEPT ![w] = p],
           UNCHANGED <<buffers, first, at, path, body>>,
           wb' = wb \/ wb' = [wb EXCEPT ![c] = None]
    PROVE  HandlesInCache'
<1>1. \A d \in Conn : wb'[d] = wb[d] \/ wb'[d] = None
  BY DEF IInv, TypeOK
<1>2. ASSUME NEW v \in Worker, pc'[v] = "getread"
      PROVE  first[path'[at'[v]]] = wb'[at'[v]] /\ wb'[at'[v]] # None
  <2>1. v # w /\ pc[v] = "getread"
    BY <1>2 DEF IInv, TypeOK
  <2>2. at[v] \in Conn /\ at[v] # c
    BY <2>1, AtIsOwn
  <2>3. wb'[at[v]] = wb[at[v]]
    BY <2>2 DEF IInv, TypeOK
  <2> QED
    BY <2>1, <2>3 DEF IInv, HandlesInCache
<1> QED
  BY <1>1, <1>2, HandlesKept

(* LockWriteBuffer. *)
LEMMA LockWriteStep ==
    ASSUME IInv, NEW w \in Worker, LockWrite(w)
    PROVE  IInv'
<1> DEFINE c == at[w]
<1>1. pc[w] = "lock"
  BY DEF LockWrite
<1>2. /\ c \in Conn /\ c \notin reading /\ state[c] = "READ"
      /\ wb[c] \in Buffer /\ body[c] = wb[c]
  BY <1>1, AtIsOwn DEF IInv, ProcessInv
<1>3. UNCHANGED <<workerVars, walkVars, path, body, sent, failed, reading, buffers, first, used,
                  leaked>>
  BY DEF LockWrite
<1>4. FirstInv'
  BY <1>3 DEF IInv, FirstInv
<1>5. CASE used[wb[c]] = 1
  <2>1. /\ wb' = [wb EXCEPT ![c] = None] /\ raw' = [raw EXCEPT ![c] = "body"]
        /\ state' = [state EXCEPT ![c] = "WRITE"] /\ pc' = [pc EXCEPT ![w] = "reap"]
        /\ UNCHANGED writer
    BY <1>5 DEF LockWrite, To
  <2>2. Advance(w, c, "reap")
    BY <1>1, <1>2, <1>3, <2>1 DEF Advance, IInv, TypeOK
  <2>3. TypeOK'
    BY <1>3, <2>1 DEF IInv, TypeOK, workerVars, walkVars, Listed
  <2>4. HandlesInCache'
    BY <1>1, <1>2, <1>3, <2>1, HandlesReleased DEF walkVars
  <2> QED
    BY <1>2, <1>3, <1>4, <2>2, <2>3, <2>4, AdvanceStep, AdvanceOthers DEF IInv
<1>6. CASE used[wb[c]] # 1
  <2>1. /\ writer' = [writer EXCEPT ![wb[c]] = w] /\ pc' = [pc EXCEPT ![w] = "queue"]
        /\ UNCHANGED <<wb, raw, state>>
    BY <1>6 DEF LockWrite, To
  <2>2. Advance(w, c, "queue")
    BY <1>1, <1>2, <1>3, <2>1 DEF Advance
  <2>3. TypeOK'
    BY <1>2, <1>3, <2>1 DEF IInv, TypeOK, workerVars, walkVars
  <2>4. HandlesInCache'
    BY <1>1, <1>2, <1>3, <2>1, HandlesReleased DEF walkVars
  <2> QED
    BY <1>2, <1>3, <1>4, <2>1, <2>2, <2>3, <2>4, AdvanceStep, AdvanceOthers DEF IInv
<1> QED
  BY <1>5, <1>6

(* QueueFile. *)
LEMMA QueueStep ==
    ASSUME IInv, NEW w \in Worker, Queue(w)
    PROVE  IInv'
<1> DEFINE c == at[w]
<1>1. pc[w] = "queue"
  BY DEF Queue
<1>2. /\ c \in Conn /\ c \notin reading /\ state[c] = "READ"
      /\ wb[c] \in Buffer /\ body[c] = wb[c]
  BY <1>1, AtIsOwn DEF IInv, ProcessInv
<1>3. UNCHANGED <<workerVars, walkVars, answerVars, buffers, first, used, leaked>>
  BY DEF Queue
<1>4. FirstInv'
  BY <1>3 DEF IInv, FirstInv
<1>5. CASE /\ reading' = reading \cup {c} /\ To(w, "mark") /\ UNCHANGED <<writer, wb, state>>
  <2>1. pc' = [pc EXCEPT ![w] = "mark"]
    BY <1>5 DEF To
  <2>2. Advance(w, c, "mark")
    BY <1>1, <1>2, <1>3, <1>5, <2>1 DEF Advance, answerVars
  <2>3. TypeOK'
    BY <1>2, <1>3, <1>5, <2>1 DEF IInv, TypeOK, workerVars, walkVars, answerVars
  <2>4. HandlesInCache'
    BY <1>1, <1>2, <1>3, <1>5, <2>1, HandlesReleased DEF walkVars, answerVars
  <2>5. wb'[c] \in Buffer /\ body'[c] = wb'[c] /\ state'[c] = "READ"
    BY <1>2, <1>3, <1>5 DEF answerVars
  <2> QED
    BY <1>4, <1>5, <2>2, <2>3, <2>4, <2>5, AdvanceStep, AdvanceOthers DEF IInv
<1>6. CASE /\ writer' = [writer EXCEPT ![wb[c]] = None] /\ wb' = [wb EXCEPT ![c] = None]
           /\ state' = [state EXCEPT ![c] = "ERROR"] /\ To(w, "reap") /\ UNCHANGED reading
  <2>1. pc' = [pc EXCEPT ![w] = "reap"]
    BY <1>6 DEF To
  <2>2. Advance(w, c, "reap")
    BY <1>1, <1>2, <1>3, <1>6, <2>1 DEF Advance, answerVars, IInv, TypeOK
  <2>3. TypeOK'
    BY <1>2, <1>3, <1>6, <2>1 DEF IInv, TypeOK, workerVars, walkVars, answerVars, Listed
  <2>4. HandlesInCache'
    BY <1>1, <1>2, <1>3, <1>6, <2>1, HandlesReleased DEF walkVars, answerVars
  <2> QED
    BY <1>2, <1>4, <1>6, <2>2, <2>3, <2>4, AdvanceStep, AdvanceOthers DEF IInv
<1> QED
  BY <1>5, <1>6 DEF Queue

(* The state after QueueFile. *)
LEMMA MarkStep ==
    ASSUME IInv, NEW w \in Worker, Mark(w)
    PROVE  IInv'
<1> DEFINE c == at[w]
<1>1. pc[w] = "mark" /\ c \in Conn
  BY AtIsOwn DEF Mark
<1>2. /\ state' = [state EXCEPT ![c] = "WAITING_FOR_BODY"] /\ pc' = [pc EXCEPT ![w] = "reap"]
      /\ UNCHANGED <<workerVars, walkVars, answerVars, wb, reading, cacheVars>>
  BY DEF Mark, To
<1>3. Advance(w, c, "reap")
  BY <1>1, <1>2 DEF Advance, IInv, TypeOK, answerVars
<1>4. TypeOK' /\ FirstInv'
  BY <1>2 DEF IInv, TypeOK, FirstInv, workerVars, walkVars, answerVars, cacheVars, Listed
<1>5. HandlesInCache'
  BY <1>1, <1>2, HandlesReleased DEF walkVars, answerVars, cacheVars
<1>6. c \in reading' => /\ state'[c] = "WAITING_FOR_BODY"
                        /\ wb'[c] \in Buffer /\ body'[c] = wb'[c]
  BY <1>1, <1>2 DEF IInv, TypeOK, ReadingInv, answerVars
<1> QED
  BY <1>2, <1>3, <1>4, <1>5, <1>6, AdvanceStep, AdvanceOthers DEF IInv

(* The callback changes the request that it is about, and no other. *)
LEMMA CallbackStep ==
    ASSUME IInv, NEW c \in Conn, ReadFileCallback(c)
    PROVE  IInv'
<1>1. /\ c \in reading /\ reading' = reading \ {c}
      /\ state' = [state EXCEPT ![c] = "WRITE"]
      /\ UNCHANGED <<workerVars, pc, walkVars, path, body, sent, failed, buffers, first, leaked>>
  BY DEF ReadFileCallback
<1>2. wb' = wb \/ wb' = [wb EXCEPT ![c] = None]
  BY DEF ReadFileCallback
<1>3. /\ state[c] \in {"WAITING_FOR_BODY", "READ"} /\ wb[c] \in Buffer
      /\ \A w \in Worker : pc[w] \in Processing => at[w] # c
  BY <1>1, AtIsOwn DEF IInv, ReadingInv
<1>4. \A d \in Conn \ {c} : state'[d] = state[d] /\ wb'[d] = wb[d]
  BY <1>1, <1>2 DEF IInv, TypeOK
<1>5. \A w \in Worker : pc[w] \in Visiting => at[w] \in Conn
  BY AtIsOwn
<1>6. TypeOK'
  <2>1. used' \in [Buffer -> {0, 1}] /\ writer' \in [Buffer -> Worker \cup {None}]
    BY <1>3 DEF IInv, TypeOK, ReadFileCallback
  <2>2. wb' \in [Conn -> Buffer \cup {None}]
    BY <1>2 DEF IInv, TypeOK
  <2>3. raw' \in [Conn -> {"none", "plain", "body"}]
    BY DEF IInv, TypeOK, ReadFileCallback
  <2> QED
    BY <1>1, <2>1, <2>2, <2>3 DEF IInv, TypeOK, workerVars, walkVars, Listed
<1>7. ListsCounted'
  BY <1>1, <1>3, <1>4 DEF IInv, TypeOK, ListsCounted, Listed, workerVars
<1>8. NoLostWakeup' /\ WalkInv' /\ FirstInv'
  BY <1>1 DEF IInv, NoLostWakeup, WalkInv, FirstInv, workerVars, walkVars
<1>9. HandlesInCache'
  <2>1. \A d \in Conn : wb'[d] = wb[d] \/ wb'[d] = None
    BY <1>2 DEF IInv, TypeOK
  <2>2. ASSUME NEW w \in Worker, pc'[w] = "getread"
        PROVE  first[path'[at'[w]]] = wb'[at'[w]] /\ wb'[at'[w]] # None
    <3>1. pc[w] = "getread" /\ at[w] \in Conn \ {c}
      BY <1>1, <1>3, <1>5, <2>2
    <3> QED
      BY <1>1, <1>4, <3>1 DEF IInv, HandlesInCache, walkVars
  <2> QED
    BY <1>1, <2>1, <2>2, HandlesKept
<1>10. DescriptorInv'
  <2>1. ASSUME NEW w \in Worker,
               \/ pc[w] = "select" /\ c \in read_fds[w] \cup write_fds[w]
               \/ /\ pc[w] \in Visiting \cup {"walk"}
                  /\ c \in todo[w] \cap (read_fds[w] \cup write_fds[w])
        PROVE  FALSE
    <3>1. c \in requests[w] /\ state[c] \in {"READ", "WRITE"}
      BY <2>1 DEF IInv, DescriptorInv
    <3>2. PICK v \in Worker : at[v] = c /\ pc[v] = "mark"
      BY <1>1, <1>3, <3>1 DEF IInv, ReadingInv
    <3>3. v = w /\ c \notin todo[w]
      BY <3>1, <3>2, AtIsOwn
    <3> QED
      BY <2>1, <3>2, <3>3
  <2> QED
    BY <1>1, <1>4, <2>1 DEF IInv, DescriptorInv, workerVars, walkVars
<1>11. ProcessInv'
  <2>1. \A w \in Worker : pc[w] = "mark" => state'[at[w]] \in {"READ", "WRITE"}
    BY <1>1, <1>4, <1>5 DEF IInv, TypeOK, ProcessInv
  <2> QED
    BY <1>1, <1>3, <1>4, <1>5, <2>1 DEF IInv, ProcessInv, walkVars
<1>12. ReadingInv'
  BY <1>1, <1>4 DEF IInv, TypeOK, ReadingInv, walkVars
<1> QED
  BY <1>6, <1>7, <1>8, <1>9, <1>10, <1>11, <1>12 DEF IInv

----------------------------------------------------------------------------
(* Each step is one of the above. *)
LEMMA NextInv == IInv /\ [Next]_vars => IInv'
<1> SUFFICES ASSUME IInv, [Next]_vars PROVE IInv'
  OBVIOUS
<1>1. CASE UNCHANGED vars
  <2> USE <1>1 DEF IInv, vars, workerVars, walkVars, answerVars, cacheVars
  <2>1. TypeOK' /\ ListsCounted' /\ NoLostWakeup' /\ FirstInv'
    BY DEF TypeOK, ListsCounted, NoLostWakeup, FirstInv
  <2>2. HandlesInCache' /\ WalkInv' /\ DescriptorInv'
    BY DEF HandlesInCache, Live, WalkInv, DescriptorInv
  <2>3. ProcessInv' /\ ReadingInv'
    BY DEF ProcessInv, ReadingInv
  <2> QED
    BY <2>1, <2>2, <2>3
<1>2. ASSUME NEW w \in Worker, Work(w) PROVE IInv'
  <2>1. CASE Idle(w) \/ Leave(w) \/ EndWalk(w)
    BY <2>1, QuietStep
  <2>2. CASE Poll(w)
    BY <2>2, PollStep
  <2>3. CASE Select(w)
    BY <2>3, SelectStep
  <2>4. CASE Reap(w)
    BY <2>4, ReapStep
  <2>5. CASE Process(w)
    BY <2>5, LookupStep, CreateStep, TakeWriteStep, TakeReadStep, LockWriteStep, QueueStep,
       MarkStep DEF Process
  <2>6. CASE \E c \in Conn : Skip(w, c) \/ Read(w, c) \/ Write(w, c)
    BY <2>6, VisitStep
  <2> QED
    BY <1>2, <2>1, <2>2, <2>3, <2>4, <2>5, <2>6 DEF Work, Loop
<1>3. ASSUME NEW w \in Worker, SpuriousWakeup(w) \/ GracefullyShutdown(w) PROVE IInv'
  BY <1>3, QuietStep
<1>4. ASSUME NEW w \in Worker, NEW c \in Conn, AddRequest(w, c) PROVE IInv'
  BY <1>4, AddRequestStep
<1>5. ASSUME NEW c \in Conn, ReadFileCallback(c) PROVE IInv'
  BY <1>5, CallbackStep
<1> QED
  BY <1>1, <1>2, <1>3, <1>4, <1>5 DEF Next

(* The inductive invariant holds in every reachable state. *)
THEOREM Invariance == Spec => []IInv
  BY InitInv, NextInv, PTL DEF Spec

(* Every variable keeps its type; in particular the count of a worker never *)
(* goes below zero (worker.c:637).                                         *)
THEOREM TypeCorrect == Spec => []TypeOK
<1>1. IInv => TypeOK
  BY DEF IInv
<1> QED
  BY <1>1, Invariance, PTL

(* Each open connection is in one list, and each worker counts its own and *)
(* keeps to its limit, for any number of both (worker.c:224, 631-658).      *)
THEOREM ListsCorrect == Spec => []ListsCounted
<1>1. IInv => ListsCounted
  BY DEF IInv
<1> QED
  BY <1>1, Invariance, PTL

(* No worker sleeps over a request or a shutdown (worker.c:250-252, 297).   *)
THEOREM NoWorkerSleeps == Spec => []NoLostWakeup
<1>1. IInv => NoLostWakeup
  BY DEF IInv
<1> QED
  BY <1>1, Invariance, PTL

(* A buffer that an answer is sent from or a file is read into is in the    *)
(* cache, however many workers create and evict (worker.c:545-568).         *)
THEOREM HandlesSafe == Spec => []HandlesInCache
<1>1. IInv => HandlesInCache
  BY DEF IInv
<1> QED
  BY <1>1, Invariance, PTL

(* A callback finds its request alive and fills the very buffer that the   *)
(* answer will be sent from (worker.c:419-445).                            *)
THEOREM CallbacksSafe == Spec => []CallbackTargetsLive
<1>1. IInv => CallbackTargetsLive
  <2> SUFFICES ASSUME IInv, NEW c \in reading
               PROVE  /\ \E w \in Worker :
                            /\ c \in requests[w]
                            /\ state[c] = "WAITING_FOR_BODY" \/ (at[w] = c /\ pc[w] = "mark")
                      /\ wb[c] \in Live /\ body[c] = wb[c]
    BY DEF CallbackTargetsLive
  <2>1. c \in Conn
    BY DEF IInv, TypeOK
  <2>2. wb[c] \in Buffer /\ body[c] = wb[c] /\ wb[c] \in Live
    BY <2>1, NoneAssumption DEF IInv, ReadingInv, HandlesInCache
  <2>3. CASE state[c] = "WAITING_FOR_BODY"
    BY <2>1, <2>2, <2>3 DEF IInv, ListsCounted, Listed
  <2>4. CASE state[c] # "WAITING_FOR_BODY"
    <3>1. PICK w \in Worker : at[w] = c /\ pc[w] = "mark"
      BY <2>4 DEF IInv, ReadingInv
    <3> QED
      BY <2>2, <3>1, AtIsOwn
  <2> QED
    BY <2>3, <2>4
<1> QED
  BY <1>1, Invariance, PTL

----------------------------------------------------------------------------
(* The lifecycle of a connection. *)

(* A step that sets the state of one request moves one connection. *)
LEMMA OneMoves ==
    ASSUME TypeOK, NEW c \in Conn, NEW s \in Listed \cup {"NEW", "CLOSED"},
           state' = [state EXCEPT ![c] = s]
    PROVE  Stage' = [Stage EXCEPT ![c] = StageOf(s)] /\ Stage[c] = StageOf(state[c])
  BY DEF TypeOK, Stage

(* The moves that the states of a request allow. *)
Allowed(from, to) ==
    \/ from = "NEW" /\ to \in {"CONNECT", "CLOSED"}
    \/ from \in {"READ", "WAITING_FOR_BODY", "WRITE"} /\ to \in {"WRITE", "WAITING_FOR_BODY"}
    \/ from = "READ" /\ to \in {"READ", "ERROR"}
    \/ from = "WRITE" /\ to = "DONE"
    \/ from \in {"DONE", "ERROR"} /\ to = "CLOSED"

(* They are moves of Lifecycle, or none. *)
LEMMA AllowedMoves ==
    ASSUME TypeOK, NEW c \in Conn, NEW s \in Listed \cup {"NEW", "CLOSED"},
           state' = [state EXCEPT ![c] = s], Allowed(state[c], s)
    PROVE  LC!Next \/ UNCHANGED Stage
<1>1. Stage' = [Stage EXCEPT ![c] = StageOf(s)] /\ Stage[c] = StageOf(state[c])
  BY OneMoves
<1>2. CASE state[c] = "NEW"
  BY <1>1, <1>2 DEF Allowed, StageOf, LC!Next, LC!Accept, LC!TurnAway, LC!Move
<1>3. CASE state[c] \in {"READ", "WAITING_FOR_BODY", "WRITE"} /\ s \in {"WRITE", "WAITING_FOR_BODY"}
  <2>1. StageOf(s) = "answering" /\ StageOf(state[c]) \in {"reading", "answering"}
    BY <1>3 DEF StageOf
  <2>2. CASE StageOf(state[c]) = "reading"
    BY <1>1, <2>1, <2>2 DEF LC!Next, LC!Answer, LC!Move
  <2>3. CASE StageOf(state[c]) = "answering"
    BY <1>1, <2>1, <2>3 DEF Stage
  <2> QED
    BY <2>1, <2>2, <2>3
<1>4. CASE state[c] = "READ" /\ s = "READ"
  BY <1>1, <1>4 DEF Stage
<1>5. CASE (state[c] = "READ" /\ s = "ERROR") \/ (state[c] = "WRITE" /\ s = "DONE")
  BY <1>1, <1>5 DEF StageOf, LC!Next, LC!End, LC!Move
<1>6. CASE state[c] \in {"DONE", "ERROR"} /\ s = "CLOSED"
  BY <1>1, <1>6 DEF StageOf, LC!Next, LC!Close, LC!Move
<1>7. \/ state[c] = "NEW"
      \/ /\ state[c] \in {"READ", "WAITING_FOR_BODY", "WRITE"}
         /\ s \in {"WRITE", "WAITING_FOR_BODY"}
      \/ state[c] = "READ" /\ s = "READ"
      \/ (state[c] = "READ" /\ s = "ERROR") \/ (state[c] = "WRITE" /\ s = "DONE")
      \/ state[c] \in {"DONE", "ERROR"} /\ s = "CLOSED"
  BY DEF Allowed
<1> QED
  BY <1>2, <1>3, <1>4, <1>5, <1>6, <1>7

(* Each step of the workers is a step of Lifecycle, or leaves the stages. *)
LEMMA NextLifecycle == IInv /\ [Next]_vars => [LC!Next]_Stage
<1> SUFFICES ASSUME IInv, [Next]_vars PROVE LC!Next \/ UNCHANGED Stage
  OBVIOUS
<1>1. CASE UNCHANGED state
  BY <1>1 DEF Stage
<1>2. ASSUME NEW c \in Conn, NEW s \in Listed \cup {"NEW", "CLOSED"},
             state' = [state EXCEPT ![c] = s], Allowed(state[c], s)
      PROVE  LC!Next \/ UNCHANGED Stage
  BY <1>2, AllowedMoves DEF IInv
<1>3. ASSUME NEW w \in Worker, Poll(w) PROVE UNCHANGED Stage
  <2>1. \A c \in Conn : state'[c] = state[c] \/ (state[c] = "CONNECT" /\ state'[c] = "READ")
    BY <1>3 DEF Poll
  <2>2. \A c \in Conn : StageOf(state'[c]) = StageOf(state[c])
    BY <2>1 DEF StageOf
  <2> QED
    BY <2>2 DEF Stage
<1>4. ASSUME NEW w \in Worker, NEW c \in Conn, AddRequest(w, c) PROVE LC!Next \/ UNCHANGED Stage
  BY <1>2, <1>4 DEF AddRequest, Allowed, Listed
<1>5. ASSUME NEW w \in Worker, NEW c \in Conn, Read(w, c) PROVE LC!Next \/ UNCHANGED Stage
  <2>1. Visit(w, c) /\ c \in read_fds[w]
    BY <1>5 DEF Read, ReadMore, ReadFails, AnswerPlain, Get
  <2>2. state[c] = "READ"
    BY <2>1, VisitIsOwn
  <2>3. PICK s \in {"READ", "ERROR", "WRITE"} : state' = [state EXCEPT ![c] = s]
    BY <1>5 DEF Read, ReadMore, ReadFails, AnswerPlain, Get
  <2> QED
    BY <1>2, <2>2, <2>3 DEF Allowed, Listed
<1>6. ASSUME NEW w \in Worker, NEW c \in Conn, Write(w, c) PROVE LC!Next \/ UNCHANGED Stage
  <2>1. Visit(w, c) /\ c \in write_fds[w]
    BY <1>6 DEF Write, Send, WouldBlock, WriteFails, EndOfAnswer, Writing
  <2>2. state[c] = "WRITE"
    BY <2>1, VisitIsOwn
  <2>3. PICK s \in {"WRITE", "DONE"} : state' = [state EXCEPT ![c] = s]
    BY <1>6 DEF Write, Send, WouldBlock, WriteFails, EndOfAnswer
  <2> QED
    BY <1>2, <2>2, <2>3 DEF Allowed, Listed
<1>7. ASSUME NEW w \in Worker, Reap(w) PROVE LC!Next \/ UNCHANGED Stage
  <2>1. at[w] \in Conn
    BY <1>7, AtIsOwn DEF Reap
  <2> QED
    BY <1>1, <1>2, <1>7, <2>1 DEF Reap, Allowed
<1>8. ASSUME NEW w \in Worker, Process(w) PROVE LC!Next \/ UNCHANGED Stage
  <2>1. pc[w] \in Processing \cup {"mark"}
    BY <1>8 DEF Process, Lookup, Create, TakeWriteBuffer, TakeReadBuffer, LockWrite, Queue, Mark
  <2>2. at[w] \in Conn
    BY <2>1, AtIsOwn
  <2>3. CASE Mark(w)
    <3>1. state[at[w]] \in {"READ", "WRITE"} /\ state' = [state EXCEPT ![at[w]] = "WAITING_FOR_BODY"]
      BY <2>3 DEF Mark, IInv, ProcessInv
    <3> QED
      BY <1>2, <2>2, <3>1 DEF Allowed, Listed
  <2>4. CASE ~Mark(w)
    <3>1. pc[w] \in Processing
      BY <1>8, <2>4 DEF Process, Lookup, Create, TakeWriteBuffer, TakeReadBuffer, LockWrite, Queue
    <3>2. state[at[w]] = "READ"
      BY <3>1 DEF IInv, ProcessInv
    <3>3. \/ UNCHANGED state
          \/ \E s \in {"WRITE", "ERROR"} : state' = [state EXCEPT ![at[w]] = s]
      BY <1>8, <2>4 DEF Process, Lookup, Create, TakeWriteBuffer, TakeReadBuffer, LockWrite, Queue
    <3> QED
      BY <1>1, <1>2, <2>2, <3>2, <3>3 DEF Allowed, Listed
  <2> QED
    BY <2>3, <2>4
<1>9. ASSUME NEW c \in Conn, ReadFileCallback(c) PROVE LC!Next \/ UNCHANGED Stage
  <2>1. state[c] \in {"READ", "WAITING_FOR_BODY"}
    BY <1>9 DEF ReadFileCallback, IInv, ReadingInv
  <2> QED
    BY <1>2, <1>9, <2>1 DEF ReadFileCallback, Allowed, Listed
<1>10. ASSUME NEW w \in Worker, NEW c \in Conn, Skip(w, c) PROVE UNCHANGED state
  BY <1>10 DEF Skip
<1>11. ASSUME NEW w \in Worker,
              \/ Idle(w) \/ Leave(w) \/ Select(w) \/ EndWalk(w)
              \/ SpuriousWakeup(w) \/ GracefullyShutdown(w)
       PROVE  UNCHANGED state
  BY <1>11 DEF Idle, Leave, Select, EndWalk, SpuriousWakeup, GracefullyShutdown
<1>12. CASE UNCHANGED vars
  BY <1>1, <1>12 DEF vars
<1>13. ASSUME NEW w \in Worker, Work(w) PROVE LC!Next \/ UNCHANGED Stage
  BY <1>1, <1>3, <1>5, <1>6, <1>7, <1>8, <1>10, <1>11, <1>13 DEF Work, Loop
<1> QED
  BY <1>1, <1>4, <1>9, <1>11, <1>12, <1>13 DEF Next

(* A connection is read, answered at most once, ended and closed once: the *)
(* workers implement Lifecycle (worker.c:352-379).                         *)
THEOREM LifecycleCorrect == Spec => FollowsLifecycle
<1>1. Init => LC!Init
  BY DEF Init, LC!Init, Stage, StageOf
<1> QED
  BY <1>1, Invariance, NextLifecycle, PTL DEF Spec, FollowsLifecycle, LC!Spec
=============================================================================
