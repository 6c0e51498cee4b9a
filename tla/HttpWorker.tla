----------------------------- MODULE HttpWorker -----------------------------
(***************************************************************************)
(* The HTTP workers of src/server/worker.c and the requests they serve,    *)
(* src/server/request.c, over one cache and one pool of readers.           *)
(*                                                                         *)
(* A worker holds its own mutex for a whole walk over its list, but for    *)
(* pselect.  The steps of a walk that touch the cache or the pool interleave *)
(* with the other workers and with the callbacks of the readers, so each is *)
(* an action.  A callback takes no mutex of the worker.                     *)
(*                                                                         *)
(* The cache is what its callers can see of it: for each file the buffers  *)
(* with that key, and which of them a lookup gives; a buffer goes only while *)
(* nothing refers to it.  Which of those CreateBuffer evicts is left open,  *)
(* and so is which duplicate a lookup gives next (Cache has their order).   *)
(* The pool is the set of requests it has not answered.                     *)
(*                                                                         *)
(* Abstracted: the list is a set, walked in any order.  A file is one unit *)
(* of bytes, so a buffer has used 0 or all of it.  A write sends all of the *)
(* header or of the body.  malloc succeeds, pselect fails only with EINTR.  *)
(***************************************************************************)
EXTENDS Integers, FiniteSets

CONSTANTS
    Worker,         \* the workers, one thread each
    Conn,           \* the sockets the server accepts
    File,           \* the regular files clients ask for
    Buffer,         \* the addresses of cache buffers
    None,           \* NULL
    MaxRequests     \* worker->max_requests

ASSUME WorkerAssumption ==
    /\ MaxRequests \in Nat \ {0}
    /\ IsFiniteSet(Conn) /\ IsFiniteSet(Buffer)
ASSUME NoneAssumption ==
    None \notin Worker /\ None \notin Conn /\ None \notin File /\ None \notin Buffer

VARIABLES
    requests, current_requests, shutdown,   \* the fields of each Worker
    pc,             \* where each worker is in _WorkerLoop
    todo, at,       \* the entries its walk has yet to visit, and the one it is at
    read_fds, write_fds,    \* its locals of those names
    state,          \* request->state; NEW before AddRequest, CLOSED after the close
    path,           \* the file of a GET
    body,           \* the ReadBuffer of the response
    raw,            \* raw_response: none, without body, with body
    sent,           \* header_bytes_written and body_bytes_written
    failed,         \* the sockets on which a write has failed
    wb,             \* the WriteBuffer taken for a request and not released
    reading,        \* the requests whose file the pool reads
    buffers,        \* the buffers of each file in the cache
    first,          \* the one of them that a lookup gives, or None
    used,           \* *buffer->used: 0, or 1 for the whole file
    writer,         \* the worker that has the write lock of each buffer
    leaked          \* GetWriteBuffer has left the mutex of the cache locked

workerVars == <<requests, current_requests, shutdown>>
walkVars == <<todo, at, read_fds, write_fds>>
answerVars == <<path, body, raw, sent, failed>>
cacheVars == <<buffers, first, used, writer, leaked>>
vars == <<workerVars, pc, walkVars, state, answerVars, wb, reading, cacheVars>>

Listed == {"CONNECT", "READ", "WAITING_FOR_BODY", "WRITE", "DONE", "ERROR"}

Init ==
    /\ requests = [w \in Worker |-> {}]
    /\ current_requests = [w \in Worker |-> 0]
    /\ shutdown = [w \in Worker |-> FALSE]
    /\ pc = [w \in Worker |-> "loop"]
    /\ todo = [w \in Worker |-> {}]
    /\ at = [w \in Worker |-> None]
    /\ read_fds = [w \in Worker |-> {}]
    /\ write_fds = [w \in Worker |-> {}]
    /\ state = [c \in Conn |-> "NEW"]
    /\ path = [c \in Conn |-> None]
    /\ body = [c \in Conn |-> None]
    /\ raw = [c \in Conn |-> "none"]
    /\ sent = [c \in Conn |-> "nothing"]
    /\ failed = {}
    /\ wb = [c \in Conn |-> None]
    /\ reading = {}
    /\ buffers = [f \in File |-> {}]
    /\ first = [f \in File |-> None]
    /\ used = [b \in Buffer |-> 0]
    /\ writer = [b \in Buffer |-> None]
    /\ leaked = FALSE

Live == UNION {buffers[f] : f \in File}

(* Mutant: the WriteBuffers are not counted. *)
UnreferencedByReaders == {b \in Live : \A c \in Conn : body[c] # b}

(* What CreateBuffer may destroy. *)
Unreferenced == {b \in Live : \A c \in Conn : body[c] # b /\ wb[c] # b}

To(w, place) == pc' = [pc EXCEPT ![w] = place]

----------------------------------------------------------------------------
(* The accepting thread.                                                   *)

(* The mutex of a worker is free before its walk, and while it waits. *)
Unlocked(w) == pc[w] \in {"loop", "wait", "woken", "select", "exit"}

(* Mutant: off by one at the limit. *)
AddRequestByOne(w, c) ==
    /\ Unlocked(w) /\ state[c] = "NEW"
    /\ ~shutdown[w] /\ current_requests[w] <= MaxRequests
    /\ requests' = [requests EXCEPT ![w] = @ \cup {c}]
    /\ current_requests' = [current_requests EXCEPT ![w] = @ + 1]
    /\ state' = [state EXCEPT ![c] = "CONNECT"]
    /\ pc' = IF pc[w] = "wait" /\ current_requests[w] = 0
             THEN [pc EXCEPT ![w] = "woken"] ELSE pc
    /\ UNCHANGED <<shutdown, walkVars, answerVars, wb, reading, cacheVars>>

(* AddRequest.  It signals for the first request only.  The server closes   *)
(* the socket that is refused.                                             *)
AddRequest(w, c) ==
    /\ Unlocked(w) /\ state[c] = "NEW"
    /\ \/ /\ ~shutdown[w] /\ current_requests[w] < MaxRequests
          /\ requests' = [requests EXCEPT ![w] = @ \cup {c}]
          /\ current_requests' = [current_requests EXCEPT ![w] = @ + 1]
          /\ state' = [state EXCEPT ![c] = "CONNECT"]
          /\ pc' = IF pc[w] = "wait" /\ current_requests[w] = 0
                   THEN [pc EXCEPT ![w] = "woken"] ELSE pc
       \/ /\ shutdown[w] \/ current_requests[w] >= MaxRequests
          /\ state' = [state EXCEPT ![c] = "CLOSED"]
          /\ UNCHANGED <<requests, current_requests, pc>>
    /\ UNCHANGED <<shutdown, walkVars, answerVars, wb, reading, cacheVars>>

(* Mutant: the worker is not told. *)
GracefullyShutdownSilent(w) ==
    /\ Unlocked(w) /\ ~shutdown[w]
    /\ shutdown' = [shutdown EXCEPT ![w] = TRUE]
    /\ UNCHANGED <<requests, current_requests, pc, walkVars, state, answerVars, wb, reading,
                   cacheVars>>

(* GracefullyShutdownWorker up to the join; a second call changes nothing. *)
GracefullyShutdown(w) ==
    /\ Unlocked(w) /\ ~shutdown[w]
    /\ shutdown' = [shutdown EXCEPT ![w] = TRUE]
    /\ pc' = IF pc[w] = "wait" THEN [pc EXCEPT ![w] = "woken"] ELSE pc
    /\ UNCHANGED <<requests, current_requests, walkVars, state, answerVars, wb, reading, cacheVars>>

----------------------------------------------------------------------------
(* The loop of a worker.                                                   *)

(* Nothing listed: wait, or leave at a shutdown. *)
Idle(w) ==
    /\ pc[w] = "loop" /\ current_requests[w] = 0
    /\ To(w, IF shutdown[w] THEN "exit" ELSE "wait")
    /\ UNCHANGED <<workerVars, walkVars, state, answerVars, wb, reading, cacheVars>>

SpuriousWakeup(w) ==
    /\ pc[w] = "wait"
    /\ To(w, "woken")
    /\ UNCHANGED <<workerVars, walkVars, state, answerVars, wb, reading, cacheVars>>

Leave(w) ==
    /\ pc[w] = "woken" /\ shutdown[w] /\ current_requests[w] = 0
    /\ To(w, "exit")
    /\ UNCHANGED <<workerVars, walkVars, state, answerVars, wb, reading, cacheVars>>

(* Mutant: the descriptor sets are not cleared. *)
PollKeepsSets(w) ==
    /\ \/ pc[w] = "loop" /\ current_requests[w] # 0
       \/ pc[w] = "woken" /\ ~(shutdown[w] /\ current_requests[w] = 0)
    /\ state' = [c \in Conn |-> IF c \in requests[w] /\ state[c] = "CONNECT"
                                THEN "READ" ELSE state[c]]
    /\ read_fds' = [read_fds EXCEPT ![w] = @ \cup {c \in requests[w] : state[c] = "READ"}]
    /\ write_fds' = [write_fds EXCEPT ![w] = @ \cup {c \in requests[w] : state[c] = "WRITE"}]
    /\ To(w, "select")
    /\ UNCHANGED <<workerVars, todo, at, answerVars, wb, reading, cacheVars>>

(* The first walk: new requests become readable, the descriptor sets are    *)
(* built from nothing.  It is one step: a callback in the middle of it only *)
(* decides whether its request is seen in WRITE now or at the next turn.    *)
Poll(w) ==
    /\ \/ pc[w] = "loop" /\ current_requests[w] # 0
       \/ pc[w] = "woken" /\ ~(shutdown[w] /\ current_requests[w] = 0)
    /\ state' = [c \in Conn |-> IF c \in requests[w] /\ state[c] = "CONNECT"
                                THEN "READ" ELSE state[c]]
    /\ read_fds' = [read_fds EXCEPT ![w] = {c \in requests[w] : state[c] = "READ"}]
    /\ write_fds' = [write_fds EXCEPT ![w] = {c \in requests[w] : state[c] = "WRITE"}]
    /\ To(w, "select")
    /\ UNCHANGED <<workerVars, todo, at, answerVars, wb, reading, cacheVars>>

(* pselect leaves some of the descriptors in the sets, none at a timeout;  *)
(* then the mutex is taken and the second walk begins.                      *)
Select(w) ==
    /\ pc[w] = "select"
    /\ \/ /\ \E R \in SUBSET read_fds[w] : read_fds' = [read_fds EXCEPT ![w] = R]
          /\ \E W \in SUBSET write_fds[w] : write_fds' = [write_fds EXCEPT ![w] = W]
          /\ todo' = [todo EXCEPT ![w] = requests[w]]
          /\ To(w, "walk")
       \/ /\ To(w, "loop")      \* EINTR
          /\ UNCHANGED <<read_fds, write_fds, todo>>
    /\ UNCHANGED <<workerVars, at, state, answerVars, wb, reading, cacheVars>>

(* The walk comes to the entry of c. *)
Visit(w, c) ==
    /\ pc[w] = "walk" /\ c \in todo[w]
    /\ at' = [at EXCEPT ![w] = c]
    /\ todo' = [todo EXCEPT ![w] = @ \ {c}]
    /\ UNCHANGED <<read_fds, write_fds>>

Skip(w, c) ==
    /\ Visit(w, c)
    /\ c \notin read_fds[w] \cup write_fds[w]
    /\ To(w, "reap")
    /\ UNCHANGED <<workerVars, state, answerVars, wb, reading, cacheVars>>

(* Mutant: current_requests counts every visit. *)
ReapCountsAll(w) ==
    LET c == at[w] IN
    /\ pc[w] = "reap"
    /\ at' = [at EXCEPT ![w] = None]
    /\ To(w, "walk")
    /\ current_requests' = [current_requests EXCEPT ![w] = @ - 1]
    /\ IF state[c] \in {"DONE", "ERROR"}
       THEN /\ requests' = [requests EXCEPT ![w] = @ \ {c}]
            /\ state' = [state EXCEPT ![c] = "CLOSED"]
       ELSE UNCHANGED <<requests, state>>
    /\ UNCHANGED <<body, raw, sent, shutdown, todo, read_fds, write_fds, path, failed, wb,
                   reading, cacheVars>>

(* Mutant: current_requests is not counted down. *)
ReapKeepsCount(w) ==
    LET c == at[w] IN
    /\ pc[w] = "reap"
    /\ at' = [at EXCEPT ![w] = None]
    /\ To(w, "walk")
    /\ IF state[c] \in {"DONE", "ERROR"}
       THEN /\ requests' = [requests EXCEPT ![w] = @ \ {c}]
            /\ state' = [state EXCEPT ![c] = "CLOSED"]
       ELSE UNCHANGED <<requests, state>>
    /\ UNCHANGED <<current_requests, body, raw, sent, shutdown, todo, read_fds, write_fds, path,
                   failed, wb, reading, cacheVars>>

(* The end of a visit: a request that is through is closed and destroyed, *)
(* and gives its ReadBuffer back.                                          *)
Reap(w) ==
    LET c == at[w] IN
    /\ pc[w] = "reap"
    /\ at' = [at EXCEPT ![w] = None]
    /\ To(w, "walk")
    /\ \/ /\ state[c] \in {"DONE", "ERROR"}
          /\ requests' = [requests EXCEPT ![w] = @ \ {c}]
          /\ current_requests' = [current_requests EXCEPT ![w] = @ - 1]
          /\ state' = [state EXCEPT ![c] = "CLOSED"]
          /\ body' = [body EXCEPT ![c] = None]
          /\ raw' = [raw EXCEPT ![c] = "none"]
          /\ sent' = [sent EXCEPT ![c] = "nothing"]
       \/ /\ state[c] \notin {"DONE", "ERROR"}
          /\ UNCHANGED <<requests, current_requests, state, body, raw, sent>>
    /\ UNCHANGED <<shutdown, todo, read_fds, write_fds, path, failed, wb, reading, cacheVars>>

EndWalk(w) ==
    /\ pc[w] = "walk" /\ todo[w] = {}
    /\ To(w, "loop")
    /\ UNCHANGED <<workerVars, walkVars, state, answerVars, wb, reading, cacheVars>>

----------------------------------------------------------------------------
(* _ReadRequest and _ProcessRequest.                                       *)

(* A read that does not complete the header, or the end of the stream. *)
ReadMore(w, c) ==
    /\ Visit(w, c) /\ c \in read_fds[w]
    /\ state' = [state EXCEPT ![c] = "READ"]
    /\ To(w, "reap")
    /\ UNCHANGED <<workerVars, answerVars, wb, reading, cacheVars>>

(* The read fails, the header does not parse, or the path cannot be examined. *)
ReadFails(w, c) ==
    /\ Visit(w, c) /\ c \in read_fds[w]
    /\ state' = [state EXCEPT ![c] = "ERROR"]
    /\ To(w, "reap")
    /\ UNCHANGED <<workerVars, answerVars, wb, reading, cacheVars>>

(* An answer without a body: 405, 404, 403, or 200 to a HEAD. *)
AnswerPlain(w, c) ==
    /\ Visit(w, c) /\ c \in read_fds[w]
    /\ raw' = [raw EXCEPT ![c] = "plain"]
    /\ state' = [state EXCEPT ![c] = "WRITE"]
    /\ To(w, "reap")
    /\ UNCHANGED <<workerVars, path, body, sent, failed, wb, reading, cacheVars>>

(* A GET of a regular file. *)
Get(w, c, f) ==
    /\ Visit(w, c) /\ c \in read_fds[w]
    /\ state' = [state EXCEPT ![c] = "READ"]
    /\ path' = [path EXCEPT ![c] = f]
    /\ To(w, "lookup")
    /\ UNCHANGED <<workerVars, body, raw, sent, failed, wb, reading, cacheVars>>

(* GetBuffer: a hit is answered at once, loaded or not. *)
Lookup(w) ==
    LET c == at[w]
        b == first[path[c]]
    IN
    /\ pc[w] = "lookup" /\ ~leaked
    /\ \/ /\ b # None
          /\ body' = [body EXCEPT ![c] = b]
          /\ raw' = [raw EXCEPT ![c] = "body"]
          /\ state' = [state EXCEPT ![c] = "WRITE"]
          /\ To(w, "reap")
       \/ /\ b = None
          /\ To(w, "create")
          /\ UNCHANGED <<body, raw, state>>
    /\ UNCHANGED <<workerVars, walkVars, path, sent, failed, wb, reading, cacheVars>>

(* What a lookup may give once only kept is left of the buffers of a file   *)
(* and those added, now all of them, were linked behind: what it gave before *)
(* if that is still there.                                                  *)
Leaders(before, kept, now) ==
    CASE before \in kept -> {before}
      [] before \notin kept /\ kept # {} -> kept
      [] kept = {} /\ now # {} -> now
      [] OTHER -> {None}

Relink(kept) ==
    first' \in {F \in [File -> Buffer \cup {None}] :
                 \A f \in File : F[f] \in Leaders(first[f], kept[f], buffers'[f])}

(* Mutant: a lookup gives the new buffer. *)
CreateAtHead(w) ==
    LET c == at[w] IN
    /\ pc[w] = "create" /\ ~leaked
    /\ \E b \in Buffer \ Live :
        /\ buffers' = [buffers EXCEPT ![path[c]] = @ \cup {b}]
        /\ first' = [first EXCEPT ![path[c]] = b]
        /\ used' = [used EXCEPT ![b] = 0]
        /\ writer' = [writer EXCEPT ![b] = None]
    /\ To(w, "getwrite")
    /\ UNCHANGED <<workerVars, walkVars, state, answerVars, wb, reading, leaked>>

(* CreateBuffer: it may evict what nothing refers to, whether it succeeds   *)
(* or not.  Another worker may have cached the file since the lookup.       *)
Create(w) ==
    LET c == at[w] IN
    /\ pc[w] = "create" /\ ~leaked
    /\ \E evicted \in SUBSET Unreferenced :
        LET kept == [f \in File |-> buffers[f] \ evicted] IN
        \/ \E b \in (Buffer \ Live) \cup evicted :
              /\ buffers' = [kept EXCEPT ![path[c]] = @ \cup {b}]
              /\ Relink(kept)
              /\ used' = [used EXCEPT ![b] = 0]
              /\ writer' = [writer EXCEPT ![b] = None]
              /\ To(w, "getwrite")
              /\ UNCHANGED state
        \/ /\ buffers' = kept
           /\ Relink(kept)
           /\ state' = [state EXCEPT ![c] = "ERROR"]
           /\ To(w, "reap")
           /\ UNCHANGED <<used, writer>>
    /\ UNCHANGED <<workerVars, walkVars, answerVars, wb, reading, leaked>>

(* GetWriteBuffer, of a buffer that may have been evicted since. *)
TakeWriteBuffer(w) ==
    LET c == at[w]
        b == first[path[c]]
    IN
    /\ pc[w] = "getwrite" /\ ~leaked
    /\ \/ /\ b # None
          /\ wb' = [wb EXCEPT ![c] = b]
          /\ To(w, "getread")
          /\ UNCHANGED <<state, leaked>>
       \/ /\ b = None
          /\ leaked' = TRUE
          /\ state' = [state EXCEPT ![c] = "ERROR"]
          /\ To(w, "reap")
          /\ UNCHANGED wb
    /\ UNCHANGED <<workerVars, walkVars, answerVars, reading, buffers, first, used, writer>>

(* The second GetBuffer: the handle just taken keeps the buffer there. *)
TakeReadBuffer(w) ==
    LET c == at[w] IN
    /\ pc[w] = "getread" /\ ~leaked
    /\ body' = [body EXCEPT ![c] = first[path[c]]]
    /\ To(w, "lock")
    /\ UNCHANGED <<workerVars, walkVars, state, path, raw, sent, failed, wb, reading, cacheVars>>

(* LockWriteBuffer, and the test whether somebody has loaded the file. *)
LockWrite(w) ==
    LET c == at[w]
        b == wb[c]
    IN
    /\ pc[w] = "lock" /\ writer[b] = None
    /\ \/ /\ used[b] = 1
          /\ wb' = [wb EXCEPT ![c] = None]
          /\ raw' = [raw EXCEPT ![c] = "body"]
          /\ state' = [state EXCEPT ![c] = "WRITE"]
          /\ To(w, "reap")
          /\ UNCHANGED writer
       \/ /\ used[b] = 0
          /\ writer' = [writer EXCEPT ![b] = w]
          /\ To(w, "queue")
          /\ UNCHANGED <<wb, raw, state>>
    /\ UNCHANGED <<workerVars, walkVars, path, body, sent, failed, reading, buffers, first, used,
                   leaked>>

(* Mutant: a refusal of QueueFile gives the buffer back and keeps its lock. *)
QueueKeepsLock(w) ==
    LET c == at[w] IN
    /\ pc[w] = "queue"
    /\ \/ /\ reading' = reading \cup {c}
          /\ To(w, "mark")
          /\ UNCHANGED <<wb, state>>
       \/ /\ wb' = [wb EXCEPT ![c] = None]
          /\ state' = [state EXCEPT ![c] = "ERROR"]
          /\ To(w, "reap")
          /\ UNCHANGED reading
    /\ UNCHANGED <<workerVars, walkVars, answerVars, cacheVars>>

(* QueueFile.  The second LockWriteBuffer before it fails with EDEADLK. *)
Queue(w) ==
    LET c == at[w] IN
    /\ pc[w] = "queue"
    /\ \/ /\ reading' = reading \cup {c}
          /\ To(w, "mark")
          /\ UNCHANGED <<writer, wb, state>>
       \/ /\ writer' = [writer EXCEPT ![wb[c]] = None]
          /\ wb' = [wb EXCEPT ![c] = None]
          /\ state' = [state EXCEPT ![c] = "ERROR"]
          /\ To(w, "reap")
          /\ UNCHANGED reading
    /\ UNCHANGED <<workerVars, walkVars, answerVars, buffers, first, used, leaked>>

(* The state is set after QueueFile has returned, whatever it is by now. *)
Mark(w) ==
    /\ pc[w] = "mark"
    /\ state' = [state EXCEPT ![at[w]] = "WAITING_FOR_BODY"]
    /\ To(w, "reap")
    /\ UNCHANGED <<workerVars, walkVars, answerVars, wb, reading, cacheVars>>

(* _ReadFileCallback, on a thread of the pool.  It unlocks a lock it does   *)
(* not own, which is undefined: the lock is freed, or stays as it is.  After *)
(* an error the WriteBuffer is neither unlocked nor released.               *)
ReadFileCallback(c) ==
    LET b == wb[c] IN
    /\ c \in reading
    /\ reading' = reading \ {c}
    /\ state' = [state EXCEPT ![c] = "WRITE"]
    /\ \/ /\ used' = [used EXCEPT ![b] = 1]
          /\ writer' \in {writer, [writer EXCEPT ![b] = None]}
          /\ wb' = [wb EXCEPT ![c] = None]
          /\ raw' = [raw EXCEPT ![c] = "body"]
       \/ /\ raw' = [raw EXCEPT ![c] = "plain"]
          /\ UNCHANGED <<used, writer, wb>>
    /\ UNCHANGED <<workerVars, pc, walkVars, path, body, sent, failed, buffers, first, leaked>>

----------------------------------------------------------------------------
(* _WriteRequest and WriteRequest.                                         *)

(* There is something to write: the header, then what the buffer has. *)
Left(c) == \/ sent[c] = "nothing"
           \/ sent[c] = "header" /\ raw[c] = "body" /\ used[body[c]] = 1

(* The body is sent under the read lock of its buffer.  A worker that has   *)
(* the write lock does not get it (EDEADLK), and its unlock frees the write  *)
(* lock; a lock of another worker makes it wait.                            *)
UnderReadLock(w, c) ==
    IF sent[c] # "nothing" /\ raw[c] = "body"
    THEN /\ writer[body[c]] \in {None, w}
         /\ writer' = [writer EXCEPT ![body[c]] = None]
    ELSE UNCHANGED writer

Writing(w, c) ==
    /\ Visit(w, c)
    /\ c \in write_fds[w] \ read_fds[w]
    /\ UnderReadLock(w, c)
    /\ To(w, "reap")
    /\ UNCHANGED <<workerVars, path, body, raw, wb, reading, buffers, first, used, leaked>>

(* Mutant: header_bytes_written is not advanced. *)
SendForgets(w, c) ==
    /\ Writing(w, c)
    /\ Left(c) /\ c \notin failed
    /\ state' = [state EXCEPT ![c] = "WRITE"]
    /\ UNCHANGED <<sent, failed>>

Send(w, c) ==
    /\ Writing(w, c)
    /\ Left(c) /\ c \notin failed
    /\ sent' = [sent EXCEPT ![c] = IF @ = "nothing" THEN "header" ELSE "body"]
    /\ state' = [state EXCEPT ![c] = "WRITE"]
    /\ UNCHANGED failed

(* EAGAIN: ERR_RESPONSE_NONBLOCKED_ERROR has the value of                    *)
(* ERR_RESPONSE_WRITE_END, so the answer counts as sent.                     *)
WouldBlock(w, c) ==
    /\ Writing(w, c)
    /\ Left(c) /\ c \notin failed
    /\ state' = [state EXCEPT ![c] = "DONE"]
    /\ UNCHANGED <<sent, failed>>

(* Another error of write: _WriteRequest ignores it.  The next write to that *)
(* socket raises SIGPIPE, which ends the process, so there is none here.     *)
WriteFails(w, c) ==
    /\ Writing(w, c)
    /\ Left(c) /\ c \notin failed
    /\ failed' = failed \cup {c}
    /\ state' = [state EXCEPT ![c] = "WRITE"]
    /\ UNCHANGED sent

EndOfAnswer(w, c) ==
    /\ Writing(w, c)
    /\ ~Left(c)
    /\ state' = [state EXCEPT ![c] = "DONE"]
    /\ UNCHANGED <<sent, failed>>

----------------------------------------------------------------------------
Read(w, c) == ReadMore(w, c) \/ ReadFails(w, c) \/ AnswerPlain(w, c) \/ \E f \in File : Get(w, c, f)

Process(w) == \/ Lookup(w) \/ Create(w) \/ TakeWriteBuffer(w) \/ TakeReadBuffer(w)
              \/ LockWrite(w) \/ Queue(w) \/ Mark(w)

Write(w, c) == Send(w, c) \/ WouldBlock(w, c) \/ WriteFails(w, c) \/ EndOfAnswer(w, c)

Loop(w) == Idle(w) \/ Leave(w) \/ Poll(w) \/ Select(w) \/ Reap(w) \/ EndWalk(w)

Work(w) == Loop(w) \/ Process(w) \/ \E c \in Conn : Skip(w, c) \/ Read(w, c) \/ Write(w, c)

Next ==
    \/ \E w \in Worker : Work(w) \/ SpuriousWakeup(w) \/ GracefullyShutdown(w)
    \/ \E w \in Worker, c \in Conn : AddRequest(w, c)
    \/ \E c \in Conn : ReadFileCallback(c)

Spec == Init /\ [][Next]_vars

(* pselect with c among the writable. *)
SelectWritable(w, c) == Select(w) /\ pc'[w] = "walk" /\ c \in write_fds'[w]

(* Each thread runs, the pool answers what it accepted, and a client that   *)
(* reads makes its socket writable again and again.                         *)
FairSpec ==
    /\ Spec
    /\ \A w \in Worker : WF_vars(Work(w))
    /\ \A c \in Conn : /\ WF_vars(ReadFileCallback(c))
                       /\ SF_vars(\E w \in Worker : SelectWritable(w, c))

----------------------------------------------------------------------------
TypeOK ==
    /\ requests \in [Worker -> SUBSET Conn]
    /\ current_requests \in [Worker -> Nat]
    /\ shutdown \in [Worker -> BOOLEAN]
    /\ pc \in [Worker -> {"loop", "wait", "woken", "select", "walk", "reap", "lookup", "create",
                          "getwrite", "getread", "lock", "queue", "mark", "exit"}]
    /\ todo \in [Worker -> SUBSET Conn] /\ at \in [Worker -> Conn \cup {None}]
    /\ read_fds \in [Worker -> SUBSET Conn] /\ write_fds \in [Worker -> SUBSET Conn]
    /\ state \in [Conn -> Listed \cup {"NEW", "CLOSED"}]
    /\ path \in [Conn -> File \cup {None}]
    /\ body \in [Conn -> Buffer \cup {None}] /\ wb \in [Conn -> Buffer \cup {None}]
    /\ raw \in [Conn -> {"none", "plain", "body"}]
    /\ sent \in [Conn -> {"nothing", "header", "body"}]
    /\ failed \subseteq Conn /\ reading \subseteq Conn
    /\ buffers \in [File -> SUBSET Buffer] /\ first \in [File -> Buffer \cup {None}]
    /\ used \in [Buffer -> {0, 1}]
    /\ writer \in [Buffer -> Worker \cup {None}]
    /\ leaked \in BOOLEAN

(* Each open connection is in the list of one worker, and each worker      *)
(* counts its list and keeps to its limit (worker.c:225-246, 631-658).      *)
ListsCounted ==
    /\ \A w \in Worker : /\ current_requests[w] = Cardinality(requests[w])
                         /\ current_requests[w] <= MaxRequests
    /\ \A c \in Conn : state[c] \in Listed <=> \E w \in Worker : c \in requests[w]
    /\ \A v, w \in Worker : v # w => requests[v] \cap requests[w] = {}

(* No worker sleeps with a request listed or a shutdown asked for, although *)
(* AddRequest signals for the first request only (worker.c:250-252, 297).   *)
NoLostWakeup ==
    \A w \in Worker : pc[w] = "wait" => requests[w] = {} /\ ~shutdown[w]

(* The callback of a reader finds its request alive, its worker about to    *)
(* wait for it, and the buffer it fills in the cache and the very one that  *)
(* the answer will be sent from, although two lookups and the eviction of   *)
(* other workers lie between them (worker.c:419-445, 545-612).              *)
CallbackTargetsLive ==
    \A c \in reading :
        /\ \E w \in Worker : /\ c \in requests[w]
                             /\ state[c] = "WAITING_FOR_BODY" \/ (at[w] = c /\ pc[w] = "mark")
        /\ wb[c] \in Live /\ body[c] = wb[c]

(* A buffer a response is sent from, or a file is read into, stays in the   *)
(* cache, and a WriteBuffer of a worker is the buffer the second lookup      *)
(* finds: its miss (worker.c:561-566) cannot happen.                        *)
HandlesInCache ==
    /\ \A c \in Conn : {body[c], wb[c]} \ {None} \subseteq Live
    /\ \A w \in Worker : pc[w] = "getread" => first[path[at[w]]] = wb[at[w]] /\ wb[at[w]] # None

(* What the requests hold of the cache, by a ReadBuffer or a WriteBuffer.  *)
Holding == [h \in Conn \X {"read", "write"} |-> IF h[2] = "read" THEN body[h[1]] ELSE wb[h[1]]]

(* The requests use the cache as a BufferStore: from the first lookup over  *)
(* the creation, both handles and the callback of a reader to the end of    *)
(* the answer, every handle of a file is of the one buffer that a lookup of *)
(* it gives, whatever the other workers create and evict meanwhile          *)
(* (worker.c:529-612, 419-445, request.c:108-155).                          *)
Store == INSTANCE BufferStore WITH Key <- File, Handle <- Conn \X {"read", "write"},
                                   stored <- first, held <- Holding
ImplementsStore == Store!Spec

(* The phases of Lifecycle. *)
StageOf(s) == CASE s = "NEW" -> "new"
                [] s \in {"CONNECT", "READ"} -> "reading"
                [] s \in {"WAITING_FOR_BODY", "WRITE"} -> "answering"
                [] s \in {"DONE", "ERROR"} -> "ended"
                [] s = "CLOSED" -> "closed"
Stage == [c \in Conn |-> StageOf(state[c])]

(* A connection is served as Lifecycle says: it is never processed twice,   *)
(* not answered after its end, and closed once.                             *)
LC == INSTANCE Lifecycle WITH phase <- Stage
FollowsLifecycle == LC!Spec

(* A worker holds its own mutex during these places of its loop. *)
Walking(w) == pc[w] \in {"walk", "reap", "lookup", "create", "getwrite", "getread", "lock",
                         "queue", "mark"}

(* The lock of a buffer that worker w is waiting for, as the next step of   *)
(* its walk or as all that is left of it.                                   *)
Awaits(w, b) ==
    \/ pc[w] = "lock" /\ wb[at[w]] = b
    \/ pc[w] = "walk" /\ \E c \in todo[w] \cap write_fds[w] :
                            sent[c] # "nothing" /\ raw[c] = "body" /\ body[c] = b

(* A read of the buffer has ended and left its write lock with the thread   *)
(* that took it: the callback had an error, or its unlock had no effect.    *)
LeftLocked(b) ==
    /\ writer[b] # None
    /\ \A c \in reading : wb[c] # b
    /\ used[b] = 1 \/ \E c \in Conn : wb[c] = b /\ state[c] # "READ"

(* Worker w waits for a lock that a read has left with another worker. *)
Stranded(w) ==
    \E b \in Buffer : Awaits(w, b) /\ LeftLocked(b) /\ writer[b] # w

(* The walk of a worker over its connections, with its mutex held, comes to *)
(* an end again and again, although it waits in it for locks that other     *)
(* workers take and readers free (worker.c:312-353, 570, request.c:603).    *)
(* Three things are excepted: a walk that stays Stranded, a failed write,   *)
(* whose repetition ends the process, and a cache left locked (cache.c:532). *)
WalkEnds ==
    \A w \in Worker : \/ []<>~Walking(w)
                      \/ <>[]Stranded(w)
                      \/ <>[](failed # {} \/ leaked)

(* A request that is being answered does not stay so: it is sent and its    *)
(* connection closed (worker.c:312-353, 616-630), if its client reads.      *)
(* Excepted are the same three, and a state that WAITING_FOR_BODY           *)
(* overwrites (worker.c:612).                                               *)
AnswerIsSent ==
    \A c \in Conn : \/ []<>(state[c] \notin {"WRITE", "DONE", "ERROR"})
                    \/ \E w \in Worker : <>[](c \in requests[w] /\ Stranded(w))
                    \/ <>[](failed # {} \/ leaked)

(* "[multiplexing: each process or thread must serve several connections]"  *)
(* (README.md:9): the same with no walk Stranded: no worker stops another.  *)
WalkAlwaysEnds == \A w \in Worker : []<>~Walking(w) \/ <>[](failed # {} \/ leaked)

(* "waitbody --> write : [the file is read into the cache]"                 *)
(* (states.puml:17): a request that waits for its body does not wait for     *)
(* ever.                                                                    *)
WaitingIsAnswered == \A c \in Conn : state[c] = "WAITING_FOR_BODY" ~> state[c] # "WAITING_FOR_BODY"

(* "while ([the answer is sent completely]?) is ([no])" (writealgo.puml:7): *)
(* an answer that could be prepared is through only when nothing is left.   *)
DoneMeansSent == \A c \in Conn : state[c] = "DONE" => ~Left(c)

(* "read --> write : [GET, file in the cache ...]" (states.puml:15): an      *)
(* answer with a body is prepared from a buffer that has the file.          *)
AnsweredFromLoaded ==
    \A c \in Conn : state[c] = "WRITE" /\ raw[c] = "body" => used[body[c]] = 1

(* "write --> error : [error while writing the answer]" (states.puml:20):   *)
(* a connection on which a write failed is ended.                           *)
FailedWriteEnds == \A c \in failed : state[c] \in {"ERROR", "CLOSED"}
=============================================================================
