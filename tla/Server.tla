------------------------------- MODULE Server -------------------------------
(***************************************************************************)
(* The server of src/server/server.c and the signal handler of src/main.c: *)
(* start, the accept loop, graceful shutdown, destruction.                 *)
(*                                                                         *)
(* The main thread starts the workers and accepts.  A signal runs          *)
(* GracefullyShutdownServer on some thread in the middle of what it does,  *)
(* so a thread has a stack of handlers: only the innermost runs, and the   *)
(* thread itself goes on when all have returned.  A signal is blocked on a *)
(* thread while its own handler runs there.  Hosts are the threads the     *)
(* system may pick; Linux picks the main thread if it does not block the   *)
(* signal.                                                                 *)
(*                                                                         *)
(* A worker is what the server sees of HttpWorker: a list, a mutex it      *)
(* holds during a walk, an end.  A reader is what is seen of ReaderPool.   *)
(*                                                                         *)
(* Abstracted: the wait of 1 ms after EAGAIN.  pthread_create succeeds.    *)
(* A second join of a thread, which is undefined, returns at once.         *)
(***************************************************************************)
EXTENDS Integers, FiniteSets, Sequences

CONSTANTS
    WorkerCount,    \* server->worker_count
    Reader,         \* the threads of the pool
    Main,           \* the main thread
    Conn,           \* the clients
    MaxRequests,    \* worker->max_requests
    Signal,         \* the signals main installs a handler for
    Hosts,          \* the threads a signal may be delivered to
    MaxSignals,     \* bound: the signals that arrive
    None            \* nobody

Worker == 0 .. WorkerCount - 1
Thread == {Main} \cup Worker \cup Reader
Handler == Hosts \X Signal      \* a run of _SignalHandler

ASSUME ServerAssumption ==
    /\ WorkerCount \in Nat \ {0} /\ MaxRequests \in Nat \ {0} /\ MaxSignals \in Nat
    /\ IsFiniteSet(Conn)
    /\ Hosts \subseteq Thread
ASSUME DistinctAssumption ==
    /\ Main \notin Worker \cup Reader /\ Worker \cap Reader = {}
    /\ {"none", "idle", "exited"} \cap Conn = {}
    /\ None \notin {Main} \cup Handler \cup Conn \cup Signal
    /\ Main \notin Handler

VARIABLES
    pc,             \* where main is
    next,           \* its i in the loops over the workers
    client,         \* its clientfd
    mutex,          \* who has server->mutex: Main, a handler, or None
    listenfd,       \* none, open or closed
    running, shutdown, last_assigned_worker,
    stack,          \* the signals whose handlers run on each thread
    at, index,      \* where each handler is, and its i
    signals,        \* how many have arrived
    worker,         \* thread of each worker: none, running or exited
    told,           \* worker->shutdown
    walking,        \* the worker has its own mutex
    list,           \* worker->requests
    conn,           \* where each connection is
    reader,         \* idle, exited, or the connection a reader reads for
    draining,       \* pool->shutdown
    pool_mutex,     \* the reader that has pool->mutex, or None
    freed,          \* the workers that are destroyed
    stopped,        \* history: a handler has shut a started server down
    offers          \* history: the sockets each worker was offered

mainVars == <<pc, next, client, listenfd, running, last_assigned_worker, offers>>
handlerVars == <<stack, at, index, signals, shutdown, stopped>>
workerVars == <<worker, told, walking, list, conn>>
poolVars == <<reader, draining, pool_mutex>>
vars == <<mainVars, mutex, handlerVars, workerVars, poolVars, freed>>

Init ==
    /\ pc = "create" /\ next = 0 /\ client = None
    /\ mutex = None /\ listenfd = "none"
    /\ running = FALSE /\ shutdown = FALSE /\ last_assigned_worker = 0
    /\ stack = [t \in Hosts |-> <<>>]
    /\ at = [h \in Handler |-> "none"] /\ index = [h \in Handler |-> 0]
    /\ signals = 0
    /\ worker = [w \in Worker |-> "none"]
    /\ told = [w \in Worker |-> FALSE]
    /\ walking = [w \in Worker |-> FALSE]
    /\ list = [w \in Worker |-> {}]
    /\ conn = [c \in Conn |-> "new"]
    /\ reader = [r \in Reader |-> "none"] /\ draining = FALSE /\ pool_mutex = None
    /\ freed = {}
    /\ stopped = FALSE
    /\ offers = [w \in Worker |-> 0]

(* The cache, the pool and the server itself are freed. *)
Destroyed == pc \in {"return", "exit"}

(* The process is there, and thread t runs its own code. *)
Runs(t) == pc # "exit" /\ (t \in Hosts => stack[t] = <<>>)

----------------------------------------------------------------------------
(* The main thread.                                                        *)

Main_(from, to) == Runs(Main) /\ pc = from /\ pc' = to

(* CreateServer: the readers run from here on.  If a worker cannot be made  *)
(* main destroys what it has made, and returns.                             *)
CreateServer ==
    /\ Main_("create", "start") \/ Main_("create", "exit")
    /\ reader' = [r \in Reader |-> "idle"]
    /\ UNCHANGED <<next, client, mutex, listenfd, running, last_assigned_worker, offers,
                   handlerVars, workerVars, draining, pool_mutex, freed>>

StartServer ==
    /\ Main_("start", "bind")
    /\ mutex = None /\ mutex' = Main
    /\ UNCHANGED <<next, client, listenfd, running, last_assigned_worker, offers,
                   handlerVars, workerVars, poolVars, freed>>

(* socket, bind and listen.  After a failure main destroys the server.      *)
Bind ==
    /\ \/ /\ Main_("bind", "workers")
          /\ listenfd' = "open"
          /\ UNCHANGED mutex
       \/ /\ Main_("bind", "destroy")
          /\ listenfd' \in {"none", "open"}
          /\ mutex' = None
    /\ next' = 0
    /\ UNCHANGED <<client, running, last_assigned_worker, offers, handlerVars, workerVars,
                   poolVars, freed>>

(* Mutant: the loop goes one worker too far. *)
StartWorkerByOne ==
    /\ Main_("workers", "workers")
    /\ next <= WorkerCount
    /\ worker' = [w \in Worker |-> IF w = next THEN "running" ELSE worker[w]]
    /\ next' = next + 1
    /\ UNCHANGED <<client, mutex, listenfd, running, last_assigned_worker, offers, handlerVars,
                   told, walking, list, conn, poolVars, freed>>

StartWorker ==
    /\ Main_("workers", "workers")
    /\ next < WorkerCount
    /\ worker' = [worker EXCEPT ![next] = "running"]
    /\ next' = next + 1
    /\ UNCHANGED <<client, mutex, listenfd, running, last_assigned_worker, offers, handlerVars,
                   told, walking, list, conn, poolVars, freed>>

Started ==
    /\ Main_("workers", "loop")
    /\ next = WorkerCount
    /\ running' = TRUE
    /\ mutex' = None
    /\ UNCHANGED <<next, client, listenfd, last_assigned_worker, offers, handlerVars, workerVars,
                   poolVars, freed>>

(* The head of _ServerLoop. *)
LockLoop ==
    /\ Main_("loop", "check")
    /\ mutex = None /\ mutex' = Main
    /\ UNCHANGED <<next, client, listenfd, running, last_assigned_worker, offers,
                   handlerVars, workerVars, poolVars, freed>>

Check ==
    /\ \/ /\ shutdown
          /\ Main_("check", "destroy")
          /\ running' = FALSE
          /\ next' = 0
       \/ /\ ~shutdown
          /\ Main_("check", "accept")
          /\ UNCHANGED <<running, next>>
    /\ mutex' = None
    /\ UNCHANGED <<client, listenfd, last_assigned_worker, offers, handlerVars, workerVars,
                   poolVars, freed>>

(* accept without the mutex: a client, or EAGAIN and another turn. *)
Accept ==
    /\ listenfd = "open"
    /\ \/ \E c \in Conn :
             /\ conn[c] = "backlog"
             /\ Main_("accept", "assign")
             /\ client' = c
             /\ conn' = [conn EXCEPT ![c] = "accepted"]
       \/ /\ \A c \in Conn : conn[c] # "backlog"
          /\ Main_("accept", "loop")
          /\ UNCHANGED <<client, conn>>
    /\ UNCHANGED <<next, mutex, listenfd, running, last_assigned_worker, offers, handlerVars,
                   worker, told, walking, list, poolVars, freed>>

(* Any other error ends the loop, an aborted connection and a table of      *)
(* descriptors that is full as well as a socket that a handler closed.      *)
AcceptFails ==
    /\ Main_("accept", "destroy")
    /\ running' = FALSE
    /\ next' = 0
    /\ UNCHANGED <<client, mutex, listenfd, last_assigned_worker, offers, handlerVars, workerVars,
                   poolVars, freed>>

LockAssign ==
    /\ Main_("assign", "add")
    /\ mutex = None /\ mutex' = Main
    /\ UNCHANGED <<next, client, listenfd, running, last_assigned_worker, offers,
                   handlerVars, workerVars, poolVars, freed>>

(* Mutant: the turn moves on only when the worker has taken the socket. *)
NextTurnIfTaken(taken) ==
    /\ last_assigned_worker' = IF taken THEN (last_assigned_worker + 1) % WorkerCount
                                        ELSE last_assigned_worker
    /\ offers' = [offers EXCEPT ![last_assigned_worker] = @ + 1]

(* The turn moves on whether the worker takes the socket or not. *)
NextTurn(taken) ==
    /\ last_assigned_worker' = (last_assigned_worker + 1) % WorkerCount
    /\ offers' = [offers EXCEPT ![last_assigned_worker] = @ + 1]

(* AddRequest takes the socket; it does not look at worker->running. *)
Takes(w) == ~told[w] /\ Cardinality(list[w]) < MaxRequests

(* Mutant: after a refusal the loop goes on with server->mutex held. *)
AssignKeepsMutex ==
    LET w == last_assigned_worker IN
    /\ Main_("add", "loop")
    /\ ~walking[w]
    /\ NextTurn(Takes(w))
    /\ \/ /\ Takes(w)
          /\ list' = [list EXCEPT ![w] = @ \cup {client}]
          /\ conn' = [conn EXCEPT ![client] = "listed"]
          /\ mutex' = None
       \/ /\ ~Takes(w)
          /\ conn' = [conn EXCEPT ![client] = "refused"]
          /\ UNCHANGED <<list, mutex>>
    /\ client' = None
    /\ UNCHANGED <<next, listenfd, running, handlerVars, worker, told, walking, poolVars, freed>>

(* The round robin, AddRequest under the mutex of the worker, and the close *)
(* of a socket that it refuses.                                             *)
Assign ==
    LET w == last_assigned_worker IN
    /\ Main_("add", "loop")
    /\ ~walking[w]
    /\ NextTurn(Takes(w))
    /\ \/ /\ Takes(w)
          /\ list' = [list EXCEPT ![w] = @ \cup {client}]
          /\ conn' = [conn EXCEPT ![client] = "listed"]
       \/ /\ ~Takes(w)
          /\ conn' = [conn EXCEPT ![client] = "refused"]
          /\ UNCHANGED list
    /\ client' = None
    /\ mutex' = None
    /\ UNCHANGED <<next, listenfd, running, handlerVars, worker, told, walking, poolVars, freed>>

(* DestroyServer: DestroyWorker for each, then the cache, the pool, the     *)
(* server.  No thread is waited for.  What a thread does with memory that    *)
(* was freed under it is undefined and not followed further.                *)
DestroyWorker ==
    /\ Main_("destroy", "destroy")
    /\ next < WorkerCount
    /\ freed' = freed \cup {next}
    /\ next' = next + 1
    /\ UNCHANGED <<client, mutex, listenfd, running, last_assigned_worker, offers, handlerVars,
                   workerVars, poolVars>>

DestroyServer ==
    /\ Main_("destroy", "return")
    /\ next = WorkerCount
    /\ listenfd' = IF listenfd = "none" THEN "none" ELSE "closed"
    /\ UNCHANGED <<next, client, mutex, running, last_assigned_worker, offers, handlerVars,
                   workerVars, poolVars, freed>>

(* main returns, and every thread ends with the process. *)
Return ==
    /\ Main_("return", "exit")
    /\ UNCHANGED <<next, client, mutex, listenfd, running, last_assigned_worker, offers,
                   handlerVars, workerVars, poolVars, freed>>

----------------------------------------------------------------------------
(* _SignalHandler and GracefullyShutdownServer, on whatever thread.         *)

Alive(t) == \/ t = Main
            \/ t \in Worker /\ worker[t] = "running"
            \/ t \in Reader /\ reader[t] \notin {"none", "exited"}

Deliver(t, s) ==
    /\ pc \notin {"create", "exit"}
    /\ signals < MaxSignals
    /\ Alive(t)
    /\ at[<<t, s>>] = "none"
    /\ signals' = signals + 1
    /\ stack' = [stack EXCEPT ![t] = <<s>> \o @]
    /\ at' = [at EXCEPT ![<<t, s>>] = "lock"]
    /\ UNCHANGED <<mainVars, mutex, index, shutdown, stopped, workerVars, poolVars, freed>>

(* The handler of s on t is the innermost one there. *)
Handles(t, s, place) ==
    /\ pc # "exit"
    /\ stack[t] # <<>> /\ Head(stack[t]) = s
    /\ at[<<t, s>>] = place

(* pthread_mutex_lock of a mutex of the default kind: one that the          *)
(* interrupted thread has itself is waited for as well.                     *)
HandlerLock(t, s) ==
    /\ Handles(t, s, "lock")
    /\ ~Destroyed
    /\ mutex = None /\ mutex' = <<t, s>>
    /\ at' = [at EXCEPT ![<<t, s>>] = "pool"]
    /\ UNCHANGED <<mainVars, stack, index, signals, shutdown, stopped, workerVars, poolVars, freed>>

(* shutdown, the close of the socket, and the pool up to its joins.  A      *)
(* reader that was interrupted with the pool's mutex waits for itself.      *)
HandlerPool(t, s) ==
    /\ Handles(t, s, "pool")
    /\ pool_mutex = None
    /\ shutdown' = TRUE
    /\ listenfd' = IF listenfd = "open" THEN "closed" ELSE listenfd
    /\ draining' = TRUE
    /\ at' = [at EXCEPT ![<<t, s>>] = "readers"]
    /\ UNCHANGED <<pc, next, client, running, last_assigned_worker, offers, mutex, stack, index,
                   signals, stopped, workerVars, reader, pool_mutex, freed>>

(* Mutant: the handler goes on without the joins of the pool. *)
HandlerJoinReadersSkipped(t, s) ==
    /\ Handles(t, s, "readers")
    /\ at' = [at EXCEPT ![<<t, s>>] = "worker"]
    /\ index' = [index EXCEPT ![<<t, s>>] = 0]
    /\ UNCHANGED <<mainVars, mutex, stack, signals, shutdown, stopped, workerVars, poolVars, freed>>

(* pthread_join of each reader; the join of oneself fails with EDEADLK. *)
HandlerJoinReaders(t, s) ==
    /\ Handles(t, s, "readers")
    /\ \A r \in Reader \ {t} : reader[r] = "exited"
    /\ at' = [at EXCEPT ![<<t, s>>] = "worker"]
    /\ index' = [index EXCEPT ![<<t, s>>] = 0]
    /\ UNCHANGED <<mainVars, mutex, stack, signals, shutdown, stopped, workerVars, poolVars, freed>>

(* Mutant: the worker is joined and not told. *)
HandlerTellSilent(t, s) ==
    /\ Handles(t, s, "worker")
    /\ index[<<t, s>>] < WorkerCount /\ index[<<t, s>>] \notin freed
    /\ ~walking[index[<<t, s>>]]
    /\ at' = [at EXCEPT ![<<t, s>>] = "join"]
    /\ UNCHANGED <<mainVars, mutex, stack, index, signals, shutdown, stopped, workerVars,
                   poolVars, freed>>

(* GracefullyShutdownWorker: a worker that was not started is left as it is. *)
HandlerTell(t, s) ==
    LET w == index[<<t, s>>] IN
    /\ Handles(t, s, "worker")
    /\ w < WorkerCount /\ w \notin freed
    /\ ~walking[w]
    /\ \/ /\ worker[w] = "none"
          /\ index' = [index EXCEPT ![<<t, s>>] = w + 1]
          /\ UNCHANGED <<told, at>>
       \/ /\ worker[w] # "none"
          /\ told' = [told EXCEPT ![w] = TRUE]
          /\ at' = [at EXCEPT ![<<t, s>>] = "join"]
          /\ UNCHANGED index
    /\ UNCHANGED <<mainVars, mutex, stack, signals, shutdown, stopped, worker, walking, list, conn,
                   poolVars, freed>>

HandlerJoin(t, s) ==
    LET w == index[<<t, s>>] IN
    /\ Handles(t, s, "join")
    /\ worker[w] = "exited" \/ t = w
    /\ at' = [at EXCEPT ![<<t, s>>] = "worker"]
    /\ index' = [index EXCEPT ![<<t, s>>] = w + 1]
    /\ UNCHANGED <<mainVars, mutex, stack, signals, shutdown, stopped, workerVars, poolVars, freed>>

HandlerReturn(t, s) ==
    /\ Handles(t, s, "worker")
    /\ index[<<t, s>>] = WorkerCount
    /\ mutex' = None
    /\ stack' = [stack EXCEPT ![t] = Tail(@)]
    /\ at' = [at EXCEPT ![<<t, s>>] = "none"]
    /\ stopped' = (stopped \/ running)
    /\ UNCHANGED <<mainVars, index, signals, shutdown, workerVars, poolVars, freed>>

Handle(t, s) == \/ HandlerLock(t, s) \/ HandlerPool(t, s) \/ HandlerJoinReaders(t, s)
                \/ HandlerTell(t, s) \/ HandlerJoin(t, s) \/ HandlerReturn(t, s)

----------------------------------------------------------------------------
(* The workers, the readers, and the clients, as the server sees them.      *)

Working(w) == Runs(w) /\ worker[w] = "running" /\ w \notin freed

(* A worker takes its mutex for a walk, and gives it back. *)
Walk(w) ==
    /\ Working(w)
    /\ walking[w] \/ list[w] # {}
    /\ walking' = [walking EXCEPT ![w] = ~@]
    /\ UNCHANGED <<mainVars, mutex, handlerVars, worker, told, list, conn, poolVars, freed>>

(* Mutant: the entry of a closed connection stays in the list. *)
FinishKeepsEntry(w, c, how) == conn' = [conn EXCEPT ![c] = how] /\ UNCHANGED list

Finish(w, c, how) ==
    /\ list' = [list EXCEPT ![w] = @ \ {c}]
    /\ conn' = [conn EXCEPT ![c] = how]

(* An answer is sent, or the connection fails, and it is closed. *)
Answer(w, c) ==
    /\ Working(w) /\ walking[w] /\ c \in list[w]
    /\ conn[c] \in {"listed", "loaded"}
    /\ Finish(w, c, "answered")
    /\ UNCHANGED <<mainVars, mutex, handlerVars, worker, told, walking, poolVars, freed>>

(* pool->request_count has reached the pool's max_requests, the same number. *)
PoolFull == Cardinality({c \in Conn : conn[c] = "queued"}) >= MaxRequests

(* A miss: QueueFile takes the file, or refuses it after the shutdown of    *)
(* the pool or because the pool's list is full, and the connection is closed *)
(* without an answer.                                                        *)
Miss(w, c) ==
    /\ Working(w) /\ walking[w] /\ c \in list[w]
    /\ conn[c] = "listed"
    /\ pool_mutex = None
    /\ \/ ~draining /\ ~PoolFull /\ conn' = [conn EXCEPT ![c] = "queued"] /\ UNCHANGED list
       \/ (draining \/ PoolFull) /\ Finish(w, c, "dropped")
    /\ UNCHANGED <<mainVars, mutex, handlerVars, worker, told, walking, poolVars, freed>>

(* Mutant: a worker leaves at a shutdown whatever is listed. *)
LeaveAtOnce(w) ==
    /\ Working(w) /\ ~walking[w]
    /\ told[w]
    /\ worker' = [worker EXCEPT ![w] = "exited"]
    /\ UNCHANGED <<mainVars, mutex, handlerVars, told, walking, list, conn, poolVars, freed>>

Leave(w) ==
    /\ Working(w) /\ ~walking[w]
    /\ told[w] /\ list[w] = {}
    /\ worker' = [worker EXCEPT ![w] = "exited"]
    /\ UNCHANGED <<mainVars, mutex, handlerVars, told, walking, list, conn, poolVars, freed>>

(* A reader takes the pool's mutex when there is something to do, ... *)
Grab(r) ==
    /\ Runs(r) /\ ~Destroyed
    /\ pool_mutex = None /\ pool_mutex' = r
    /\ \/ reader[r] \in Conn
       \/ reader[r] = "idle" /\ (draining \/ \E c \in Conn : conn[c] = "queued")
    /\ UNCHANGED <<mainVars, mutex, handlerVars, workerVars, reader, draining, freed>>

HasPool(r) == Runs(r) /\ ~Destroyed /\ pool_mutex = r /\ pool_mutex' = None

(* ... extracts a request, ... *)
Take(r, c) ==
    /\ HasPool(r)
    /\ reader[r] = "idle" /\ conn[c] = "queued"
    /\ reader' = [reader EXCEPT ![r] = c]
    /\ conn' = [conn EXCEPT ![c] = "reading"]
    /\ UNCHANGED <<mainVars, mutex, handlerVars, worker, told, walking, list, draining, freed>>

(* ... reads the file without it and calls back with it, ... *)
Callback(r) ==
    /\ HasPool(r)
    /\ reader[r] \in Conn
    /\ reader' = [reader EXCEPT ![r] = "idle"]
    /\ conn' = [conn EXCEPT ![reader[r]] = "loaded"]
    /\ UNCHANGED <<mainVars, mutex, handlerVars, worker, told, walking, list, draining, freed>>

(* ... or leaves an empty list after a shutdown.  It may find the list      *)
(* empty without one, and wait again.                                       *)
LeavePool(r) ==
    /\ HasPool(r)
    /\ reader[r] = "idle" /\ \A c \in Conn : conn[c] # "queued"
    /\ reader' = IF draining THEN [reader EXCEPT ![r] = "exited"] ELSE reader
    /\ UNCHANGED <<mainVars, mutex, handlerVars, workerVars, draining, freed>>

Connect(c) ==
    /\ pc # "exit" /\ listenfd = "open" /\ conn[c] = "new"
    /\ conn' = [conn EXCEPT ![c] = "backlog"]
    /\ UNCHANGED <<mainVars, mutex, handlerVars, worker, told, walking, list, poolVars, freed>>

----------------------------------------------------------------------------
MainStep == \/ CreateServer \/ StartServer \/ Bind \/ StartWorker \/ Started
            \/ LockLoop \/ Check \/ Accept \/ AcceptFails \/ LockAssign \/ Assign
            \/ DestroyWorker \/ DestroyServer \/ Return

Work(w) == Walk(w) \/ Leave(w) \/ \E c \in Conn : Answer(w, c) \/ Miss(w, c)

Read(r) == Grab(r) \/ Callback(r) \/ LeavePool(r) \/ \E c \in Conn : Take(r, c)

Next ==
    \/ MainStep
    \/ \E t \in Hosts, s \in Signal : Deliver(t, s) \/ Handle(t, s)
    \/ \E w \in Worker : Work(w)
    \/ \E r \in Reader : Read(r)
    \/ \E c \in Conn : Connect(c)

Spec == Init /\ [][Next]_vars

(* Main, the handlers and the readers run, a file is read in the end, and   *)
(* whoever waits for a mutex that is free again and again gets it.  A worker *)
(* that may leave does.  Nothing says that a walk ends, or a connection.     *)
FairSpec ==
    /\ Spec
    /\ SF_vars(MainStep)
    /\ \A t \in Hosts, s \in Signal : SF_vars(Handle(t, s))
    /\ \A w \in Worker : WF_vars(Leave(w))
    /\ \A r \in Reader : SF_vars(Read(r))

----------------------------------------------------------------------------
TypeOK ==
    /\ pc \in {"create", "start", "bind", "workers", "loop", "check", "accept", "assign", "add",
               "destroy", "return", "exit"}
    /\ next \in 0 .. WorkerCount
    /\ client \in Conn \cup {None}
    /\ mutex \in {None, Main} \cup Handler
    /\ listenfd \in {"none", "open", "closed"}
    /\ running \in BOOLEAN /\ shutdown \in BOOLEAN /\ stopped \in BOOLEAN
    /\ last_assigned_worker \in Worker
    /\ stack \in [Hosts -> Seq(Signal)]
    /\ at \in [Handler -> {"none", "lock", "pool", "readers", "worker", "join"}]
    /\ index \in [Handler -> 0 .. WorkerCount]
    /\ signals \in 0 .. MaxSignals
    /\ worker \in [Worker -> {"none", "running", "exited"}]
    /\ told \in [Worker -> BOOLEAN] /\ walking \in [Worker -> BOOLEAN]
    /\ list \in [Worker -> SUBSET Conn]
    /\ conn \in [Conn -> {"new", "backlog", "accepted", "listed", "queued", "reading", "loaded",
                          "answered", "dropped", "refused"}]
    /\ reader \in [Reader -> {"none", "idle", "exited"} \cup Conn]
    /\ draining \in BOOLEAN /\ pool_mutex \in Reader \cup {None}
    /\ freed \subseteq Worker
    /\ offers \in [Worker -> Nat]

Listed == {"listed", "queued", "reading", "loaded"}

(* Once a handler has come back to a started server, every thread that does *)
(* not handle signals itself has left, and it stays so: nothing is left     *)
(* that DestroyServer could free under it (server.c:251-270, 139-159).      *)
StoppedMeansLeft ==
    stopped => /\ \A w \in Worker \ Hosts : worker[w] = "exited"
               /\ \A r \in Reader \ Hosts : reader[r] = "exited"

(* No connection is given to a worker that has left, although main may have *)
(* accepted it before the shutdown and assigns it after (server.c:285-306,  *)
(* worker.c:218, 279-290).                                                  *)
NoOrphans == \A w \in Worker : worker[w] = "exited" => list[w] = {}

(* Each connection is in one place: with main, in the list of one worker,   *)
(* or closed; and a reader reads for one that is still listed, a handler    *)
(* and a shutdown between them or not (server.c:285-314).                   *)
ConnectionsKept ==
    /\ \A c \in Conn : conn[c] = "accepted" <=> client = c
    /\ \A c \in Conn : conn[c] \in Listed <=> \E w \in Worker : c \in list[w]
    /\ \A v, w \in Worker : v # w => list[v] \cap list[w] = {}
    /\ \A c \in Conn : conn[c] = "reading" <=> \E r \in Reader : reader[r] = c
    /\ \A w \in Worker : Cardinality(list[w]) <= MaxRequests

(* The workers are offered connections in turn, whatever they refuse: after *)
(* any number of them, some refused by a full worker or by one that was     *)
(* told to stop, no two workers differ by more than one (server.c:301-314). *)
RoundRobin == \A v, w \in Worker : offers[v] <= offers[w] + 1

(* A handler waits for a mutex that the thread it interrupted has. *)
SelfLocked ==
    \E t \in Hosts, s \in Signal :
        /\ at[<<t, s>>] = "lock"
        /\ (mutex = Main /\ t = Main) \/ \E u \in Signal : mutex = <<t, u>>

(* A handler waits for a worker that does not leave or free its mutex: it    *)
(* has a connection left (worker.c:290), or is in the middle of a walk.      *)
HandlerWaits ==
    \E h \in Handler :
        \/ at[h] = "worker" /\ index[h] < WorkerCount /\ walking[index[h]]
        \/ at[h] = "join" /\ (list[index[h]] # {} \/ walking[index[h]])

(* Main waits, with server->mutex, for a worker in the middle of a walk.     *)
AssignWaits == pc = "add" /\ walking[last_assigned_worker]

(* A signal ends the server: the readers drain their list and leave, the    *)
(* workers leave, main sees the flag and destroys (main.c:20-42,            *)
(* server.c:251-318).  Excepted are a signal on a thread that has           *)
(* server->mutex, one while the server is being destroyed, and a handler    *)
(* that waits for ever for one worker: for a connection that does not end,  *)
(* as that of an idle client (in READ), of a lost WAITING_FOR_BODY          *)
(* (worker.c:612) or of a failed write (worker.c:621-628), or for a walk    *)
(* that does not, as after a lock that was not freed (worker.c:427-431,     *)
(* cache.c:532).                                                            *)
ShutdownEnds ==
    \/ <>[](signals = 0)
    \/ []<>(Destroyed \/ SelfLocked \/ freed # {})
    \/ <>[]HandlerWaits

(* Each client in the backlog is accepted and given to a worker or closed,  *)
(* unless the server is destroyed: each way through the accept loop gives   *)
(* back server->mutex (server.c:276-314).  Excepted are a signal on a thread *)
(* that has it, a handler that waits for ever as above, and AddRequest      *)
(* waiting for ever, with server->mutex, for the mutex of a worker whose    *)
(* walk does not end (server.c:306).                                        *)
BacklogServed ==
    \/ []<>\/ \A c \in Conn : conn[c] \notin {"backlog", "accepted"}
           \/ pc = "destroy" \/ Destroyed \/ SelfLocked
    \/ <>[]HandlerWaits
    \/ <>[]AssignWaits

(* "manages the life cycle of the components" (components.puml:7), and      *)
(* "creates/destroys the pool of worker threads": a signal ends the server. *)
SignalEndsServer == (\E t \in Hosts : stack[t] # <<>>) ~> pc = "exit"

(* The same line: a worker is destroyed after its thread has left. *)
DestroyedAfterLeft == \A w \in Worker \cap freed : worker[w] # "running"

(* "waitbody: asynchronous reading of the file" (states.puml): a connection *)
(* that was accepted is not dropped because the pool has gone first.        *)
NothingDropped == \A c \in Conn : conn[c] # "dropped"
=============================================================================
