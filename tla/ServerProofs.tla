---------------------------- MODULE ServerProofs ----------------------------
(***************************************************************************)
(* Proofs about Server, for every number of workers, readers, connections, *)
(* signals and threads that handle them.                                   *)
(***************************************************************************)
EXTENDS Server, FiniteSetTheorems, TLAPS

(* server->mutex is with main, or with the handler that is past its lock. *)
MutexInv ==
    /\ mutex = Main <=> pc \in {"bind", "workers", "check", "add"}
    /\ \A h \in Handler : mutex = h <=> at[h] \in {"pool", "readers", "worker", "join"}

(* What a handler has joined has left. *)
JoinInv ==
    \A h \in Handler : at[h] \in {"worker", "join"} =>
        /\ \A r \in Reader \ Hosts : reader[r] = "exited"
        /\ \A w \in Worker \ Hosts : w < index[h] => worker[w] # "running"
        /\ at[h] = "join" => index[h] < WorkerCount

(* A server runs when all its workers do; no handler comes back to it before. *)
StartInv ==
    /\ pc = "create" => /\ \A h \in Handler : at[h] = "none"
                        /\ \A r \in Reader : reader[r] = "none"
    /\ pc \in {"create", "start", "bind", "workers"} => ~running /\ ~stopped
    /\ pc = "workers" => \A w \in Worker : w < next => worker[w] # "none"
    /\ running => \A w \in Worker : worker[w] # "none"

LeftInv == \A w \in Worker : worker[w] = "exited" => told[w] /\ list[w] = {}

(* main has a connection between accept and Assign; a reader has its own. *)
ConnInv ==
    /\ client # None <=> pc \in {"assign", "add"}
    /\ \A q, r \in Reader : q # r /\ reader[r] \in Conn => reader[q] # reader[r]
    /\ ConnectionsKept

(* The workers before the next one in turn have been offered one more. *)
TurnInv ==
    \E k \in Nat : \A w \in Worker :
        offers[w] = IF w < last_assigned_worker THEN k + 1 ELSE k

IInv == /\ TypeOK /\ MutexInv /\ JoinInv /\ StartInv /\ StoppedMeansLeft /\ LeftInv
        /\ ConnInv /\ TurnInv

----------------------------------------------------------------------------
(* Only who has the mutex gives it back. *)
LEMMA MutexStep ==
    ASSUME IInv, [Next]_vars
    PROVE  MutexInv'
<1> USE DEF IInv, mainVars, handlerVars, workerVars, poolVars, Main_, Handles
<1> USE DistinctAssumption
<1>1. ASSUME CreateServer PROVE MutexInv'
  BY <1>1 DEF CreateServer, MutexInv, TypeOK, Handler
<1>2. ASSUME StartServer PROVE MutexInv'
  BY <1>2 DEF StartServer, MutexInv, TypeOK, Handler
<1>3. ASSUME Bind PROVE MutexInv'
  BY <1>3 DEF Bind, MutexInv, TypeOK, Handler
<1>4. ASSUME StartWorker PROVE MutexInv'
  BY <1>4 DEF StartWorker, MutexInv, TypeOK, Handler
<1>5. ASSUME Started PROVE MutexInv'
  BY <1>5 DEF Started, MutexInv, TypeOK, Handler
<1>6. ASSUME LockLoop PROVE MutexInv'
  BY <1>6 DEF LockLoop, MutexInv, TypeOK, Handler
<1>7. ASSUME Check PROVE MutexInv'
  BY <1>7 DEF Check, MutexInv, TypeOK, Handler
<1>8. ASSUME Accept PROVE MutexInv'
  BY <1>8 DEF Accept, MutexInv, TypeOK, Handler
<1>9. ASSUME AcceptFails PROVE MutexInv'
  BY <1>9 DEF AcceptFails, MutexInv, TypeOK, Handler
<1>10. ASSUME LockAssign PROVE MutexInv'
  BY <1>10 DEF LockAssign, MutexInv, TypeOK, Handler
<1>11. ASSUME Assign PROVE MutexInv'
  BY <1>11 DEF Assign, NextTurn, MutexInv, TypeOK, Handler
<1>12. ASSUME DestroyWorker PROVE MutexInv'
  BY <1>12 DEF DestroyWorker, MutexInv, TypeOK, Handler
<1>13. ASSUME DestroyServer PROVE MutexInv'
  BY <1>13 DEF DestroyServer, MutexInv, TypeOK, Handler
<1>14. ASSUME Return PROVE MutexInv'
  BY <1>14 DEF Return, MutexInv, TypeOK, Handler
<1>15. ASSUME NEW t \in Hosts, NEW s \in Signal, Deliver(t, s) PROVE MutexInv'
  BY <1>15 DEF Deliver, MutexInv, TypeOK, Handler
<1>16. ASSUME NEW t \in Hosts, NEW s \in Signal, HandlerLock(t, s) PROVE MutexInv'
  BY <1>16 DEF HandlerLock, MutexInv, TypeOK, Handler
<1>17. ASSUME NEW t \in Hosts, NEW s \in Signal, HandlerPool(t, s) PROVE MutexInv'
  BY <1>17 DEF HandlerPool, MutexInv, TypeOK, Handler
<1>18. ASSUME NEW t \in Hosts, NEW s \in Signal, HandlerJoinReaders(t, s) PROVE MutexInv'
  BY <1>18 DEF HandlerJoinReaders, MutexInv, TypeOK, Handler
<1>19. ASSUME NEW t \in Hosts, NEW s \in Signal, HandlerTell(t, s) PROVE MutexInv'
  BY <1>19 DEF HandlerTell, MutexInv, TypeOK, Handler
<1>20. ASSUME NEW t \in Hosts, NEW s \in Signal, HandlerJoin(t, s) PROVE MutexInv'
  BY <1>20 DEF HandlerJoin, MutexInv, TypeOK, Handler
<1>21. ASSUME NEW t \in Hosts, NEW s \in Signal, HandlerReturn(t, s) PROVE MutexInv'
  BY <1>21 DEF HandlerReturn, MutexInv, TypeOK, Handler
<1>22. ASSUME UNCHANGED <<pc, mutex, at>> PROVE MutexInv'
  BY <1>22 DEF MutexInv, TypeOK, Handler
<1>23. ASSUME \/ \E w \in Worker : Walk(w) \/ Leave(w)
              \/ \E w \in Worker, c \in Conn : Answer(w, c) \/ Miss(w, c)
              \/ \E r \in Reader : Grab(r) \/ Callback(r) \/ LeavePool(r)
              \/ \E r \in Reader, c \in Conn : Take(r, c)
              \/ \E c \in Conn : Connect(c)
       PROVE  UNCHANGED <<pc, mutex, at>>
   BY <1>23 DEF Walk, Leave, Answer, Miss, Grab, Take, Callback, LeavePool, Connect, Working,
     Finish, HasPool
<1> HIDE DEF IInv
<1> QED
   BY <1>1, <1>2, <1>3, <1>4, <1>5, <1>6, <1>7, <1>8, <1>9, <1>10, <1>11, <1>12, <1>13, <1>14,
     <1>15, <1>16, <1>17, <1>18, <1>19, <1>20, <1>21, <1>22, <1>23 DEF Next, MainStep, Handle,
     Work, Read, vars

(* A thread that left does not come back while a handler runs. *)
LEMMA JoinStep ==
    ASSUME IInv, [Next]_vars
    PROVE  JoinInv'
<1> USE DEF IInv, mainVars, handlerVars, workerVars, poolVars, Main_, Handles
<1> USE DistinctAssumption, ServerAssumption
<1>1. ASSUME CreateServer PROVE JoinInv'
  BY <1>1 DEF CreateServer, JoinInv, MutexInv, StartInv, TypeOK, Handler
<1>2. ASSUME StartWorker PROVE JoinInv'
  BY <1>2 DEF StartWorker, JoinInv, MutexInv, StartInv, TypeOK, Handler
<1>3. ASSUME NEW t \in Hosts, NEW s \in Signal, Deliver(t, s) PROVE JoinInv'
  BY <1>3 DEF Deliver, JoinInv, MutexInv, StartInv, TypeOK, Handler
<1>4. ASSUME NEW t \in Hosts, NEW s \in Signal, HandlerLock(t, s) PROVE JoinInv'
  BY <1>4 DEF HandlerLock, JoinInv, MutexInv, StartInv, TypeOK, Handler
<1>5. ASSUME NEW t \in Hosts, NEW s \in Signal, HandlerPool(t, s) PROVE JoinInv'
  BY <1>5 DEF HandlerPool, JoinInv, MutexInv, StartInv, TypeOK, Handler
<1>6. ASSUME NEW t \in Hosts, NEW s \in Signal, HandlerJoinReaders(t, s) PROVE JoinInv'
  <2>1. <<t, s>> \in Handler /\ mutex = <<t, s>> /\ at[<<t, s>>] = "readers"
    BY <1>6 DEF HandlerJoinReaders, MutexInv, Handler
  <2>2. ASSUME NEW g \in Handler, at'[g] \in {"worker", "join"} PROVE g = <<t, s>>
    BY <1>6, <2>1, <2>2 DEF HandlerJoinReaders, MutexInv, TypeOK
  <2>3. /\ \A r \in Reader \ Hosts : reader[r] = "exited"
       /\ index'[<<t, s>>] = 0 /\ at'[<<t, s>>] = "worker"
    BY <1>6, <2>1 DEF HandlerJoinReaders, JoinInv, TypeOK, Worker
  <2>4. UNCHANGED <<reader, worker>>
    BY <1>6 DEF HandlerJoinReaders
  <2>5. /\ \A w \in Worker \ Hosts : w < index'[<<t, s>>] => worker[w] # "running"
        /\ at'[<<t, s>>] = "join" => index'[<<t, s>>] < WorkerCount
    BY <2>3, ServerAssumption DEF Worker
  <2> QED
    BY <2>2, <2>3, <2>4, <2>5 DEF JoinInv
<1>7. ASSUME NEW t \in Hosts, NEW s \in Signal, HandlerTell(t, s) PROVE JoinInv'
  <2>1. <<t, s>> \in Handler /\ mutex = <<t, s>> /\ at[<<t, s>>] = "worker"
    BY <1>7 DEF HandlerTell, MutexInv, Handler
  <2>2. ASSUME NEW g \in Handler, at'[g] \in {"worker", "join"} PROVE g = <<t, s>>
    BY <1>7, <2>1, <2>2 DEF HandlerTell, MutexInv, TypeOK
  <2>3. /\ index[<<t, s>>] < WorkerCount
       /\ \/ index'[<<t, s>>] = index[<<t, s>>]
          \/ /\ worker[index[<<t, s>>]] = "none"
             /\ index'[<<t, s>>] = index[<<t, s>>] + 1
             /\ at'[<<t, s>>] = "worker"
    BY <1>7, <2>1 DEF HandlerTell, JoinInv, TypeOK, Worker
  <2>4. UNCHANGED <<reader, worker>>
    BY <1>7 DEF HandlerTell
  <2>5. /\ \A r \in Reader \ Hosts : reader[r] = "exited"
        /\ \A w \in Worker \ Hosts : w < index[<<t, s>>] => worker[w] # "running"
        /\ index[<<t, s>>] \in 0 .. WorkerCount
    BY <1>7, <2>1, <2>3 DEF JoinInv, TypeOK
  <2>6. /\ \A w \in Worker \ Hosts : w < index'[<<t, s>>] => worker[w] # "running"
        /\ at'[<<t, s>>] = "join" => index'[<<t, s>>] < WorkerCount
    BY <2>3, <2>5, ServerAssumption DEF Worker
  <2> QED
    BY <2>2, <2>4, <2>5, <2>6 DEF JoinInv
<1>8. ASSUME NEW t \in Hosts, NEW s \in Signal, HandlerJoin(t, s) PROVE JoinInv'
  <2>1. <<t, s>> \in Handler /\ mutex = <<t, s>> /\ at[<<t, s>>] = "join"
    BY <1>8 DEF HandlerJoin, MutexInv, Handler
  <2>2. ASSUME NEW g \in Handler, at'[g] \in {"worker", "join"} PROVE g = <<t, s>>
    BY <1>8, <2>1, <2>2 DEF HandlerJoin, MutexInv, TypeOK
  <2>3. /\ index[<<t, s>>] < WorkerCount /\ at'[<<t, s>>] = "worker"
       /\ index'[<<t, s>>] = index[<<t, s>>] + 1
       /\ (worker[index[<<t, s>>]] = "exited" \/ index[<<t, s>>] \in Hosts)
    BY <1>8, <2>1 DEF HandlerJoin, JoinInv, TypeOK, Worker
  <2>4. UNCHANGED <<reader, worker>>
    BY <1>8 DEF HandlerJoin
  <2>5. /\ \A r \in Reader \ Hosts : reader[r] = "exited"
        /\ \A w \in Worker \ Hosts : w < index[<<t, s>>] => worker[w] # "running"
        /\ index[<<t, s>>] \in 0 .. WorkerCount
    BY <1>8, <2>1, <2>3 DEF JoinInv, TypeOK
  <2>6. /\ \A w \in Worker \ Hosts : w < index'[<<t, s>>] => worker[w] # "running"
        /\ at'[<<t, s>>] = "join" => index'[<<t, s>>] < WorkerCount
    BY <2>3, <2>5, ServerAssumption DEF Worker
  <2> QED
    BY <2>2, <2>4, <2>5, <2>6 DEF JoinInv
<1>9. ASSUME NEW t \in Hosts, NEW s \in Signal, HandlerReturn(t, s) PROVE JoinInv'
  BY <1>9 DEF HandlerReturn, JoinInv, MutexInv, StartInv, TypeOK, Handler
<1>10. ASSUME NEW w \in Worker, Leave(w) PROVE JoinInv'
  BY <1>10 DEF Leave, Working, JoinInv, MutexInv, StartInv, TypeOK, Handler
<1>11. ASSUME NEW r \in Reader, NEW c \in Conn, Take(r, c) PROVE JoinInv'
  BY <1>11 DEF Take, HasPool, JoinInv, MutexInv, StartInv, TypeOK, Handler
<1>12. ASSUME NEW r \in Reader, Callback(r) PROVE JoinInv'
  BY <1>12 DEF Callback, HasPool, JoinInv, MutexInv, StartInv, TypeOK, Handler
<1>13. ASSUME NEW r \in Reader, LeavePool(r) PROVE JoinInv'
  BY <1>13 DEF LeavePool, HasPool, JoinInv, MutexInv, StartInv, TypeOK, Handler
<1>14. ASSUME UNCHANGED <<at, index, reader, worker>> PROVE JoinInv'
  BY <1>14 DEF JoinInv, MutexInv, StartInv, TypeOK, Handler
<1>15. ASSUME \/ StartServer \/ Bind \/ Started \/ LockLoop \/ Check \/ Accept
                 \/ AcceptFails \/ LockAssign \/ Assign \/ DestroyWorker \/ DestroyServer
                 \/ Return
       PROVE  UNCHANGED <<at, index, reader, worker>>
   BY <1>15 DEF StartServer, Bind, Started, LockLoop, Check, Accept, AcceptFails, LockAssign,
     Assign, DestroyWorker, DestroyServer, Return, NextTurn
<1>16. ASSUME \/ \E w \in Worker : Walk(w)
              \/ \E w \in Worker, c \in Conn : Answer(w, c) \/ Miss(w, c)
              \/ \E r \in Reader : Grab(r)
              \/ \E c \in Conn : Connect(c)
       PROVE  UNCHANGED <<at, index, reader, worker>>
  BY <1>16 DEF Walk, Answer, Miss, Grab, Connect, Working, Finish
<1> HIDE DEF IInv
<1> QED
   BY <1>1, <1>2, <1>3, <1>4, <1>5, <1>6, <1>7, <1>8, <1>9, <1>10, <1>11, <1>12, <1>13, <1>14,
     <1>15, <1>16 DEF Next, MainStep, Handle, Work, Read, vars

(* The workers are there before the server runs. *)
LEMMA StartStep ==
    ASSUME IInv, [Next]_vars
    PROVE  StartInv'
<1> USE DEF IInv, mainVars, handlerVars, workerVars, poolVars, Main_, Handles
<1> USE DistinctAssumption, ServerAssumption
<1>1. ASSUME CreateServer PROVE StartInv'
  BY <1>1 DEF CreateServer, StartInv, MutexInv, TypeOK, Handler, Worker
<1>2. ASSUME StartServer PROVE StartInv'
  BY <1>2 DEF StartServer, StartInv, MutexInv, TypeOK, Handler, Worker
<1>3. ASSUME Bind PROVE StartInv'
  BY <1>3 DEF Bind, StartInv, MutexInv, TypeOK, Handler, Worker
<1>4. ASSUME StartWorker PROVE StartInv'
  BY <1>4 DEF StartWorker, StartInv, MutexInv, TypeOK, Handler, Worker
<1>5. ASSUME Started PROVE StartInv'
  BY <1>5 DEF Started, StartInv, MutexInv, TypeOK, Handler, Worker
<1>6. ASSUME LockLoop PROVE StartInv'
  BY <1>6 DEF LockLoop, StartInv, MutexInv, TypeOK, Handler, Worker
<1>7. ASSUME Check PROVE StartInv'
  BY <1>7 DEF Check, StartInv, MutexInv, TypeOK, Handler, Worker
<1>8. ASSUME Accept PROVE StartInv'
  BY <1>8 DEF Accept, StartInv, MutexInv, TypeOK, Handler, Worker
<1>9. ASSUME AcceptFails PROVE StartInv'
  BY <1>9 DEF AcceptFails, StartInv, MutexInv, TypeOK, Handler, Worker
<1>10. ASSUME LockAssign PROVE StartInv'
  BY <1>10 DEF LockAssign, StartInv, MutexInv, TypeOK, Handler, Worker
<1>11. ASSUME Assign PROVE StartInv'
  BY <1>11 DEF Assign, NextTurn, StartInv, MutexInv, TypeOK, Handler, Worker
<1>12. ASSUME DestroyWorker PROVE StartInv'
  BY <1>12 DEF DestroyWorker, StartInv, MutexInv, TypeOK, Handler, Worker
<1>13. ASSUME DestroyServer PROVE StartInv'
  BY <1>13 DEF DestroyServer, StartInv, MutexInv, TypeOK, Handler, Worker
<1>14. ASSUME Return PROVE StartInv'
  BY <1>14 DEF Return, StartInv, MutexInv, TypeOK, Handler, Worker
<1>15. ASSUME NEW t \in Hosts, NEW s \in Signal, Deliver(t, s) PROVE StartInv'
  BY <1>15 DEF Deliver, StartInv, MutexInv, TypeOK, Handler, Worker
<1>16. ASSUME NEW t \in Hosts, NEW s \in Signal, HandlerLock(t, s) PROVE StartInv'
  BY <1>16 DEF HandlerLock, StartInv, MutexInv, TypeOK, Handler, Worker
<1>17. ASSUME NEW t \in Hosts, NEW s \in Signal, HandlerPool(t, s) PROVE StartInv'
  BY <1>17 DEF HandlerPool, StartInv, MutexInv, TypeOK, Handler, Worker
<1>18. ASSUME NEW t \in Hosts, NEW s \in Signal, HandlerJoinReaders(t, s) PROVE StartInv'
  BY <1>18 DEF HandlerJoinReaders, StartInv, MutexInv, TypeOK, Handler, Worker
<1>19. ASSUME NEW t \in Hosts, NEW s \in Signal, HandlerTell(t, s) PROVE StartInv'
  BY <1>19 DEF HandlerTell, StartInv, MutexInv, TypeOK, Handler, Worker
<1>20. ASSUME NEW t \in Hosts, NEW s \in Signal, HandlerJoin(t, s) PROVE StartInv'
  BY <1>20 DEF HandlerJoin, StartInv, MutexInv, TypeOK, Handler, Worker
<1>21. ASSUME NEW t \in Hosts, NEW s \in Signal, HandlerReturn(t, s) PROVE StartInv'
  BY <1>21 DEF HandlerReturn, StartInv, MutexInv, TypeOK, Handler, Worker
<1>22. ASSUME NEW w \in Worker, Leave(w) PROVE StartInv'
  BY <1>22 DEF Leave, Working, StartInv, MutexInv, TypeOK, Handler, Worker
<1>23. ASSUME NEW r \in Reader, NEW c \in Conn, Take(r, c) PROVE StartInv'
  BY <1>23 DEF Take, HasPool, StartInv, MutexInv, TypeOK, Handler, Worker
<1>24. ASSUME NEW r \in Reader, Callback(r) PROVE StartInv'
  BY <1>24 DEF Callback, HasPool, StartInv, MutexInv, TypeOK, Handler, Worker
<1>25. ASSUME NEW r \in Reader, LeavePool(r) PROVE StartInv'
  BY <1>25 DEF LeavePool, HasPool, StartInv, MutexInv, TypeOK, Handler, Worker
<1>26. ASSUME UNCHANGED <<pc, at, reader, running, stopped, next, worker>> PROVE StartInv'
  BY <1>26 DEF StartInv, MutexInv, TypeOK, Handler, Worker
<1>27. ASSUME \/ \E w \in Worker : Walk(w)
              \/ \E w \in Worker, c \in Conn : Answer(w, c) \/ Miss(w, c)
              \/ \E r \in Reader : Grab(r)
              \/ \E c \in Conn : Connect(c)
       PROVE  UNCHANGED <<pc, at, reader, running, stopped, next, worker>>
  BY <1>27 DEF Walk, Answer, Miss, Grab, Connect, Working, Finish
<1> HIDE DEF IInv
<1> QED
   BY <1>1, <1>2, <1>3, <1>4, <1>5, <1>6, <1>7, <1>8, <1>9, <1>10, <1>11, <1>12, <1>13, <1>14,
     <1>15, <1>16, <1>17, <1>18, <1>19, <1>20, <1>21, <1>22, <1>23, <1>24, <1>25, <1>26, <1>27
     DEF Next, MainStep, Handle, Work, Read, vars

(* What has left stays away. *)
LEMMA StoppedStep ==
    ASSUME IInv, [Next]_vars
    PROVE  StoppedMeansLeft'
<1> USE DEF IInv, mainVars, handlerVars, workerVars, poolVars, Main_, Handles
<1> USE DistinctAssumption, ServerAssumption
<1>1. ASSUME CreateServer PROVE StoppedMeansLeft'
  BY <1>1 DEF CreateServer, StoppedMeansLeft, StartInv, JoinInv, TypeOK, Handler, Worker
<1>2. ASSUME StartWorker PROVE StoppedMeansLeft'
  BY <1>2 DEF StartWorker, StoppedMeansLeft, StartInv, JoinInv, TypeOK, Handler, Worker
<1>3. ASSUME NEW t \in Hosts, NEW s \in Signal, HandlerReturn(t, s) PROVE StoppedMeansLeft'
  BY <1>3 DEF HandlerReturn, StoppedMeansLeft, StartInv, JoinInv, TypeOK, Handler, Worker
<1>4. ASSUME NEW w \in Worker, Leave(w) PROVE StoppedMeansLeft'
  BY <1>4 DEF Leave, Working, StoppedMeansLeft, StartInv, JoinInv, TypeOK, Handler, Worker
<1>5. ASSUME NEW r \in Reader, NEW c \in Conn, Take(r, c) PROVE StoppedMeansLeft'
  BY <1>5 DEF Take, HasPool, StoppedMeansLeft, StartInv, JoinInv, TypeOK, Handler, Worker
<1>6. ASSUME NEW r \in Reader, Callback(r) PROVE StoppedMeansLeft'
  BY <1>6 DEF Callback, HasPool, StoppedMeansLeft, StartInv, JoinInv, TypeOK, Handler, Worker
<1>7. ASSUME NEW r \in Reader, LeavePool(r) PROVE StoppedMeansLeft'
  BY <1>7 DEF LeavePool, HasPool, StoppedMeansLeft, StartInv, JoinInv, TypeOK, Handler, Worker
<1>8. ASSUME UNCHANGED <<stopped, worker, reader>> PROVE StoppedMeansLeft'
  BY <1>8 DEF StoppedMeansLeft, StartInv, JoinInv, TypeOK, Handler, Worker
<1>9. ASSUME \/ StartServer \/ Bind \/ Started \/ LockLoop \/ Check \/ Accept \/ AcceptFails
                \/ LockAssign \/ Assign \/ DestroyWorker \/ DestroyServer \/ Return
       PROVE  UNCHANGED <<stopped, worker, reader>>
   BY <1>9 DEF StartServer, Bind, Started, LockLoop, Check, Accept, AcceptFails, LockAssign,
     Assign, DestroyWorker, DestroyServer, Return, NextTurn
<1>10. ASSUME NEW t \in Hosts, NEW s \in Signal, Deliver(t, s) \/ HandlerLock(t, s)
                 \/ HandlerPool(t, s) \/ HandlerJoinReaders(t, s) \/ HandlerTell(t, s)
                 \/ HandlerJoin(t, s)
       PROVE  UNCHANGED <<stopped, worker, reader>>
  BY <1>10 DEF Deliver, HandlerLock, HandlerPool, HandlerJoinReaders, HandlerTell, HandlerJoin
<1>11. ASSUME \/ \E w \in Worker : Walk(w)
              \/ \E w \in Worker, c \in Conn : Answer(w, c) \/ Miss(w, c)
              \/ \E r \in Reader : Grab(r)
              \/ \E c \in Conn : Connect(c)
       PROVE  UNCHANGED <<stopped, worker, reader>>
  BY <1>11 DEF Walk, Answer, Miss, Grab, Connect, Working, Finish
<1> HIDE DEF IInv
<1> QED
   BY <1>1, <1>2, <1>3, <1>4, <1>5, <1>6, <1>7, <1>8, <1>9, <1>10, <1>11 DEF Next, MainStep,
     Handle, Work, Read, vars

(* Nothing is listed with a worker that was told and has left. *)
LEMMA LeftStep ==
    ASSUME IInv, [Next]_vars
    PROVE  LeftInv'
<1> USE DEF IInv, mainVars, handlerVars, workerVars, poolVars, Main_, Handles
<1>1. ASSUME StartWorker PROVE LeftInv'
  BY <1>1 DEF StartWorker, LeftInv, TypeOK, Takes
<1>2. ASSUME Assign PROVE LeftInv'
  BY <1>2 DEF Assign, NextTurn, LeftInv, TypeOK, Takes
<1>3. ASSUME NEW t \in Hosts, NEW s \in Signal, HandlerTell(t, s) PROVE LeftInv'
  BY <1>3 DEF HandlerTell, LeftInv, TypeOK, Takes
<1>4. ASSUME NEW w \in Worker, Leave(w) PROVE LeftInv'
  BY <1>4 DEF Leave, Working, LeftInv, TypeOK, Takes
<1>5. ASSUME NEW w \in Worker, NEW c \in Conn, Answer(w, c) PROVE LeftInv'
  BY <1>5 DEF Answer, Finish, Working, LeftInv, TypeOK, Takes
<1>6. ASSUME NEW w \in Worker, NEW c \in Conn, Miss(w, c) PROVE LeftInv'
  BY <1>6 DEF Miss, Finish, Working, LeftInv, TypeOK, Takes
<1>7. ASSUME UNCHANGED <<worker, told, list>> PROVE LeftInv'
  BY <1>7 DEF LeftInv, TypeOK, Takes
<1>8. ASSUME \/ CreateServer \/ StartServer \/ Bind \/ Started \/ LockLoop \/ Check
                \/ Accept \/ AcceptFails \/ LockAssign \/ DestroyWorker \/ DestroyServer
                \/ Return
       PROVE  UNCHANGED <<worker, told, list>>
   BY <1>8 DEF CreateServer, StartServer, Bind, Started, LockLoop, Check, Accept, AcceptFails,
     LockAssign, DestroyWorker, DestroyServer, Return
<1>9. ASSUME NEW t \in Hosts, NEW s \in Signal, Deliver(t, s) \/ HandlerLock(t, s)
                \/ HandlerPool(t, s) \/ HandlerJoinReaders(t, s) \/ HandlerJoin(t, s)
                \/ HandlerReturn(t, s)
       PROVE  UNCHANGED <<worker, told, list>>
  BY <1>9 DEF Deliver, HandlerLock, HandlerPool, HandlerJoinReaders, HandlerJoin, HandlerReturn
<1>10. ASSUME \/ \E w \in Worker : Walk(w)
              \/ \E r \in Reader : Grab(r) \/ Callback(r) \/ LeavePool(r)
              \/ \E r \in Reader, c \in Conn : Take(r, c)
              \/ \E c \in Conn : Connect(c)
       PROVE  UNCHANGED <<worker, told, list>>
  BY <1>10 DEF Walk, Grab, Take, Callback, LeavePool, Connect, Working, HasPool
<1> HIDE DEF IInv
<1> QED
   BY <1>1, <1>2, <1>3, <1>4, <1>5, <1>6, <1>7, <1>8, <1>9, <1>10 DEF Next, MainStep, Handle,
     Work, Read, vars

(* The turn comes round. *)
LEMMA TurnStep ==
    ASSUME IInv, [Next]_vars
    PROVE  TurnInv'
<1> USE DEF IInv, mainVars, handlerVars, workerVars, poolVars, Main_, Handles
<1>1. ASSUME Assign PROVE TurnInv'
  <2>1. /\ last_assigned_worker' = (last_assigned_worker + 1) % WorkerCount
        /\ offers' = [offers EXCEPT ![last_assigned_worker] = @ + 1]
    BY <1>1 DEF Assign, NextTurn
  <2>2. PICK k \in Nat : \A w \in Worker :
            offers[w] = IF w < last_assigned_worker THEN k + 1 ELSE k
    BY DEF TurnInv
  <2>3. last_assigned_worker \in Worker /\ WorkerCount \in Nat \ {0}
    BY ServerAssumption DEF TypeOK
  <2>4. CASE last_assigned_worker + 1 = WorkerCount
    <3>1. last_assigned_worker' = 0
      BY <2>1, <2>3, <2>4
    <3>2. \A w \in Worker : offers'[w] = IF w < 0 THEN k + 2 ELSE k + 1
      BY <2>1, <2>2, <2>3, <2>4 DEF TypeOK, Worker
    <3> QED
      BY <3>1, <3>2 DEF TurnInv
  <2>5. CASE last_assigned_worker + 1 < WorkerCount
    <3>1. last_assigned_worker' = last_assigned_worker + 1
      BY <2>1, <2>3, <2>5 DEF Worker
    <3>2. \A w \in Worker : offers'[w] = IF w < last_assigned_worker + 1 THEN k + 1 ELSE k
      BY <2>1, <2>2, <2>3 DEF TypeOK, Worker
    <3> QED
      BY <3>1, <3>2 DEF TurnInv
  <2> QED
    BY <2>3, <2>4, <2>5 DEF Worker
<1>2. ASSUME UNCHANGED <<last_assigned_worker, offers>> PROVE TurnInv'
  BY <1>2 DEF TurnInv
<1>3. ASSUME \/ CreateServer \/ StartServer \/ Bind \/ StartWorker \/ Started \/ LockLoop
                \/ Check \/ Accept \/ AcceptFails \/ LockAssign \/ DestroyWorker
                \/ DestroyServer \/ Return
       PROVE  UNCHANGED <<last_assigned_worker, offers>>
   BY <1>3 DEF CreateServer, StartServer, Bind, StartWorker, Started, LockLoop, Check, Accept,
     AcceptFails, LockAssign, DestroyWorker, DestroyServer, Return
<1>4. ASSUME NEW t \in Hosts, NEW s \in Signal, Deliver(t, s) \/ HandlerLock(t, s)
                \/ HandlerPool(t, s) \/ HandlerJoinReaders(t, s) \/ HandlerTell(t, s)
                \/ HandlerJoin(t, s) \/ HandlerReturn(t, s)
       PROVE  UNCHANGED <<last_assigned_worker, offers>>
   BY <1>4 DEF Deliver, HandlerLock, HandlerPool, HandlerJoinReaders, HandlerTell,
     HandlerJoin, HandlerReturn
<1>5. ASSUME \/ \E w \in Worker : Walk(w) \/ Leave(w)
             \/ \E w \in Worker, c \in Conn : Answer(w, c) \/ Miss(w, c)
             \/ \E r \in Reader : Grab(r) \/ Callback(r) \/ LeavePool(r)
             \/ \E r \in Reader, c \in Conn : Take(r, c)
             \/ \E c \in Conn : Connect(c)
       PROVE  UNCHANGED <<last_assigned_worker, offers>>
   BY <1>5 DEF Walk, Leave, Answer, Miss, Grab, Take, Callback, LeavePool, Connect, Working,
     Finish, HasPool
<1> HIDE DEF IInv
<1> QED
  BY <1>1, <1>2, <1>3, <1>4, <1>5 DEF Next, MainStep, Handle, Work, Read, vars

(* Types. *)
LEMMA TypeStep ==
    ASSUME IInv, [Next]_vars
    PROVE  TypeOK'
<1> USE DEF IInv, mainVars, handlerVars, workerVars, poolVars, Main_, Handles
<1> USE ServerAssumption, DistinctAssumption
<1>1. ASSUME CreateServer PROVE TypeOK'
  BY <1>1 DEF CreateServer, TypeOK, JoinInv, ConnInv, Handler, Worker
<1>2. ASSUME StartServer PROVE TypeOK'
  BY <1>2 DEF StartServer, TypeOK, JoinInv, ConnInv, Handler, Worker
<1>3. ASSUME Bind PROVE TypeOK'
  BY <1>3 DEF Bind, TypeOK, JoinInv, ConnInv, Handler, Worker
<1>4. ASSUME StartWorker PROVE TypeOK'
  BY <1>4 DEF StartWorker, TypeOK, JoinInv, ConnInv, Handler, Worker
<1>5. ASSUME Started PROVE TypeOK'
  BY <1>5 DEF Started, TypeOK, JoinInv, ConnInv, Handler, Worker
<1>6. ASSUME LockLoop PROVE TypeOK'
  BY <1>6 DEF LockLoop, TypeOK, JoinInv, ConnInv, Handler, Worker
<1>7. ASSUME Check PROVE TypeOK'
  <2>1. pc' \in {"create", "start", "bind", "workers", "loop", "check", "accept", "assign", "add",
                      "destroy", "return", "exit"}
    BY <1>7 DEF Check, TypeOK, ConnInv, Handler, Worker
  <2>2. next' \in 0 .. WorkerCount /\ client' \in Conn \cup {None}
    BY <1>7 DEF Check, TypeOK, ConnInv, Handler, Worker
  <2>3. mutex' \in {None, Main} \cup Handler /\ listenfd' \in {"none", "open", "closed"}
    BY <1>7 DEF Check, TypeOK, ConnInv, Handler, Worker
  <2>4. running' \in BOOLEAN /\ shutdown' \in BOOLEAN /\ stopped' \in BOOLEAN
    BY <1>7 DEF Check, TypeOK, ConnInv, Handler, Worker
  <2>5. last_assigned_worker' \in Worker /\ offers' \in [Worker -> Nat]
    BY <1>7 DEF Check, TypeOK, ConnInv, Handler, Worker
  <2>6. stack' \in [Hosts -> Seq(Signal)] /\ signals' \in 0 .. MaxSignals
    BY <1>7 DEF Check, TypeOK, ConnInv, Handler, Worker
  <2>7. at' \in [Handler -> {"none", "lock", "pool", "readers", "worker", "join"}]
    BY <1>7 DEF Check, TypeOK, ConnInv, Handler, Worker
  <2>8. index' \in [Handler -> 0 .. WorkerCount]
    BY <1>7 DEF Check, TypeOK, ConnInv, Handler, Worker
  <2>9. worker' \in [Worker -> {"none", "running", "exited"}]
    BY <1>7 DEF Check, TypeOK, ConnInv, Handler, Worker
  <2>10. told' \in [Worker -> BOOLEAN] /\ walking' \in [Worker -> BOOLEAN]
    BY <1>7 DEF Check, TypeOK, ConnInv, Handler, Worker
  <2>11. list' \in [Worker -> SUBSET Conn]
    BY <1>7 DEF Check, TypeOK, ConnInv, Handler, Worker
  <2>12. conn' \in [Conn -> {"new", "backlog", "accepted", "listed", "queued", "reading",
                               "loaded", "answered", "dropped", "refused"}]
    BY <1>7 DEF Check, TypeOK, ConnInv, Handler, Worker
  <2>13. reader' \in [Reader -> {"none", "idle", "exited"} \cup Conn]
    BY <1>7 DEF Check, TypeOK, ConnInv, Handler, Worker
  <2>14. draining' \in BOOLEAN /\ pool_mutex' \in Reader \cup {None} /\ freed' \subseteq Worker
    BY <1>7 DEF Check, TypeOK, ConnInv, Handler, Worker
  <2> QED
     BY <2>1, <2>2, <2>3, <2>4, <2>5, <2>6, <2>7, <2>8, <2>9, <2>10, <2>11, <2>12, <2>13,
       <2>14 DEF TypeOK
<1>8. ASSUME Accept PROVE TypeOK'
  <2>1. pc' \in {"create", "start", "bind", "workers", "loop", "check", "accept", "assign", "add",
                      "destroy", "return", "exit"}
    BY <1>8 DEF Accept, TypeOK, ConnInv, Handler, Worker
  <2>2. next' \in 0 .. WorkerCount /\ client' \in Conn \cup {None}
    BY <1>8 DEF Accept, TypeOK, ConnInv, Handler, Worker
  <2>3. mutex' \in {None, Main} \cup Handler /\ listenfd' \in {"none", "open", "closed"}
    BY <1>8 DEF Accept, TypeOK, ConnInv, Handler, Worker
  <2>4. running' \in BOOLEAN /\ shutdown' \in BOOLEAN /\ stopped' \in BOOLEAN
    BY <1>8 DEF Accept, TypeOK, ConnInv, Handler, Worker
  <2>5. last_assigned_worker' \in Worker /\ offers' \in [Worker -> Nat]
    BY <1>8 DEF Accept, TypeOK, ConnInv, Handler, Worker
  <2>6. stack' \in [Hosts -> Seq(Signal)] /\ signals' \in 0 .. MaxSignals
    BY <1>8 DEF Accept, TypeOK, ConnInv, Handler, Worker
  <2>7. at' \in [Handler -> {"none", "lock", "pool", "readers", "worker", "join"}]
    BY <1>8 DEF Accept, TypeOK, ConnInv, Handler, Worker
  <2>8. index' \in [Handler -> 0 .. WorkerCount]
    BY <1>8 DEF Accept, TypeOK, ConnInv, Handler, Worker
  <2>9. worker' \in [Worker -> {"none", "running", "exited"}]
    BY <1>8 DEF Accept, TypeOK, ConnInv, Handler, Worker
  <2>10. told' \in [Worker -> BOOLEAN] /\ walking' \in [Worker -> BOOLEAN]
    BY <1>8 DEF Accept, TypeOK, ConnInv, Handler, Worker
  <2>11. list' \in [Worker -> SUBSET Conn]
    BY <1>8 DEF Accept, TypeOK, ConnInv, Handler, Worker
  <2>12. conn' \in [Conn -> {"new", "backlog", "accepted", "listed", "queued", "reading",
                               "loaded", "answered", "dropped", "refused"}]
    BY <1>8 DEF Accept, TypeOK, ConnInv, Handler, Worker
  <2>13. reader' \in [Reader -> {"none", "idle", "exited"} \cup Conn]
    BY <1>8 DEF Accept, TypeOK, ConnInv, Handler, Worker
  <2>14. draining' \in BOOLEAN /\ pool_mutex' \in Reader \cup {None} /\ freed' \subseteq Worker
    BY <1>8 DEF Accept, TypeOK, ConnInv, Handler, Worker
  <2> QED
     BY <2>1, <2>2, <2>3, <2>4, <2>5, <2>6, <2>7, <2>8, <2>9, <2>10, <2>11, <2>12, <2>13,
       <2>14 DEF TypeOK
<1>9. ASSUME AcceptFails PROVE TypeOK'
  <2>1. pc' \in {"create", "start", "bind", "workers", "loop", "check", "accept", "assign", "add",
                      "destroy", "return", "exit"}
    BY <1>9 DEF AcceptFails, TypeOK, ConnInv, Handler, Worker
  <2>2. next' \in 0 .. WorkerCount /\ client' \in Conn \cup {None}
    BY <1>9 DEF AcceptFails, TypeOK, ConnInv, Handler, Worker
  <2>3. mutex' \in {None, Main} \cup Handler /\ listenfd' \in {"none", "open", "closed"}
    BY <1>9 DEF AcceptFails, TypeOK, ConnInv, Handler, Worker
  <2>4. running' \in BOOLEAN /\ shutdown' \in BOOLEAN /\ stopped' \in BOOLEAN
    BY <1>9 DEF AcceptFails, TypeOK, ConnInv, Handler, Worker
  <2>5. last_assigned_worker' \in Worker /\ offers' \in [Worker -> Nat]
    BY <1>9 DEF AcceptFails, TypeOK, ConnInv, Handler, Worker
  <2>6. stack' \in [Hosts -> Seq(Signal)] /\ signals' \in 0 .. MaxSignals
    BY <1>9 DEF AcceptFails, TypeOK, ConnInv, Handler, Worker
  <2>7. at' \in [Handler -> {"none", "lock", "pool", "readers", "worker", "join"}]
    BY <1>9 DEF AcceptFails, TypeOK, ConnInv, Handler, Worker
  <2>8. index' \in [Handler -> 0 .. WorkerCount]
    BY <1>9 DEF AcceptFails, TypeOK, ConnInv, Handler, Worker
  <2>9. worker' \in [Worker -> {"none", "running", "exited"}]
    BY <1>9 DEF AcceptFails, TypeOK, ConnInv, Handler, Worker
  <2>10. told' \in [Worker -> BOOLEAN] /\ walking' \in [Worker -> BOOLEAN]
    BY <1>9 DEF AcceptFails, TypeOK, ConnInv, Handler, Worker
  <2>11. list' \in [Worker -> SUBSET Conn]
    BY <1>9 DEF AcceptFails, TypeOK, ConnInv, Handler, Worker
  <2>12. conn' \in [Conn -> {"new", "backlog", "accepted", "listed", "queued", "reading",
                               "loaded", "answered", "dropped", "refused"}]
    BY <1>9 DEF AcceptFails, TypeOK, ConnInv, Handler, Worker
  <2>13. reader' \in [Reader -> {"none", "idle", "exited"} \cup Conn]
    BY <1>9 DEF AcceptFails, TypeOK, ConnInv, Handler, Worker
  <2>14. draining' \in BOOLEAN /\ pool_mutex' \in Reader \cup {None} /\ freed' \subseteq Worker
    BY <1>9 DEF AcceptFails, TypeOK, ConnInv, Handler, Worker
  <2> QED
     BY <2>1, <2>2, <2>3, <2>4, <2>5, <2>6, <2>7, <2>8, <2>9, <2>10, <2>11, <2>12, <2>13,
       <2>14 DEF TypeOK
<1>10. ASSUME LockAssign PROVE TypeOK'
  BY <1>10 DEF LockAssign, TypeOK, JoinInv, ConnInv, Handler, Worker
<1>11. ASSUME Assign PROVE TypeOK'
  <2>1. pc' \in {"create", "start", "bind", "workers", "loop", "check", "accept", "assign", "add",
                      "destroy", "return", "exit"}
    BY <1>11 DEF Assign, NextTurn, TypeOK, ConnInv, Handler, Worker
  <2>2. next' \in 0 .. WorkerCount /\ client' \in Conn \cup {None}
    BY <1>11 DEF Assign, NextTurn, TypeOK, ConnInv, Handler, Worker
  <2>3. mutex' \in {None, Main} \cup Handler /\ listenfd' \in {"none", "open", "closed"}
    BY <1>11 DEF Assign, NextTurn, TypeOK, ConnInv, Handler, Worker
  <2>4. running' \in BOOLEAN /\ shutdown' \in BOOLEAN /\ stopped' \in BOOLEAN
    BY <1>11 DEF Assign, NextTurn, TypeOK, ConnInv, Handler, Worker
  <2>5. last_assigned_worker' \in Worker /\ offers' \in [Worker -> Nat]
    BY <1>11 DEF Assign, NextTurn, TypeOK, ConnInv, Handler, Worker
  <2>6. stack' \in [Hosts -> Seq(Signal)] /\ signals' \in 0 .. MaxSignals
    BY <1>11 DEF Assign, NextTurn, TypeOK, ConnInv, Handler, Worker
  <2>7. at' \in [Handler -> {"none", "lock", "pool", "readers", "worker", "join"}]
    BY <1>11 DEF Assign, NextTurn, TypeOK, ConnInv, Handler, Worker
  <2>8. index' \in [Handler -> 0 .. WorkerCount]
    BY <1>11 DEF Assign, NextTurn, TypeOK, ConnInv, Handler, Worker
  <2>9. worker' \in [Worker -> {"none", "running", "exited"}]
    BY <1>11 DEF Assign, NextTurn, TypeOK, ConnInv, Handler, Worker
  <2>10. told' \in [Worker -> BOOLEAN] /\ walking' \in [Worker -> BOOLEAN]
    BY <1>11 DEF Assign, NextTurn, TypeOK, ConnInv, Handler, Worker
  <2>11. list' \in [Worker -> SUBSET Conn]
    BY <1>11 DEF Assign, NextTurn, TypeOK, ConnInv, Handler, Worker
  <2>12. conn' \in [Conn -> {"new", "backlog", "accepted", "listed", "queued", "reading",
                               "loaded", "answered", "dropped", "refused"}]
    BY <1>11 DEF Assign, NextTurn, TypeOK, ConnInv, Handler, Worker
  <2>13. reader' \in [Reader -> {"none", "idle", "exited"} \cup Conn]
    BY <1>11 DEF Assign, NextTurn, TypeOK, ConnInv, Handler, Worker
  <2>14. draining' \in BOOLEAN /\ pool_mutex' \in Reader \cup {None} /\ freed' \subseteq Worker
    BY <1>11 DEF Assign, NextTurn, TypeOK, ConnInv, Handler, Worker
  <2> QED
     BY <2>1, <2>2, <2>3, <2>4, <2>5, <2>6, <2>7, <2>8, <2>9, <2>10, <2>11, <2>12, <2>13,
       <2>14 DEF TypeOK
<1>12. ASSUME DestroyWorker PROVE TypeOK'
  BY <1>12 DEF DestroyWorker, TypeOK, JoinInv, ConnInv, Handler, Worker
<1>13. ASSUME DestroyServer PROVE TypeOK'
  BY <1>13 DEF DestroyServer, TypeOK, JoinInv, ConnInv, Handler, Worker
<1>14. ASSUME Return PROVE TypeOK'
  BY <1>14 DEF Return, TypeOK, JoinInv, ConnInv, Handler, Worker
<1>15. ASSUME NEW t \in Hosts, NEW s \in Signal, Deliver(t, s) PROVE TypeOK'
  BY <1>15 DEF Deliver, TypeOK, JoinInv, ConnInv, Handler, Worker
<1>16. ASSUME NEW t \in Hosts, NEW s \in Signal, HandlerLock(t, s) PROVE TypeOK'
  BY <1>16 DEF HandlerLock, TypeOK, JoinInv, ConnInv, Handler, Worker
<1>17. ASSUME NEW t \in Hosts, NEW s \in Signal, HandlerPool(t, s) PROVE TypeOK'
  BY <1>17 DEF HandlerPool, TypeOK, JoinInv, ConnInv, Handler, Worker
<1>18. ASSUME NEW t \in Hosts, NEW s \in Signal, HandlerJoinReaders(t, s) PROVE TypeOK'
  BY <1>18 DEF HandlerJoinReaders, TypeOK, JoinInv, ConnInv, Handler, Worker
<1>19. ASSUME NEW t \in Hosts, NEW s \in Signal, HandlerTell(t, s) PROVE TypeOK'
  <2>a. <<t, s>> \in Handler
    BY DEF Handler
  <2>1. pc' \in {"create", "start", "bind", "workers", "loop", "check", "accept", "assign", "add",
                      "destroy", "return", "exit"}
    BY <1>19 DEF HandlerTell, TypeOK, ConnInv, Handler, Worker
  <2>2. next' \in 0 .. WorkerCount /\ client' \in Conn \cup {None}
    BY <1>19 DEF HandlerTell, TypeOK, ConnInv, Handler, Worker
  <2>3. mutex' \in {None, Main} \cup Handler /\ listenfd' \in {"none", "open", "closed"}
    BY <1>19 DEF HandlerTell, TypeOK, ConnInv, Handler, Worker
  <2>4. running' \in BOOLEAN /\ shutdown' \in BOOLEAN /\ stopped' \in BOOLEAN
    BY <1>19 DEF HandlerTell, TypeOK, ConnInv, Handler, Worker
  <2>5. last_assigned_worker' \in Worker /\ offers' \in [Worker -> Nat]
    BY <1>19 DEF HandlerTell, TypeOK, ConnInv, Handler, Worker
  <2>6. stack' \in [Hosts -> Seq(Signal)] /\ signals' \in 0 .. MaxSignals
    BY <1>19 DEF HandlerTell, TypeOK, ConnInv, Handler, Worker
  <2>7. at' \in [Handler -> {"none", "lock", "pool", "readers", "worker", "join"}]
    BY <1>19, <2>a DEF HandlerTell, TypeOK
  <2>8. index' \in [Handler -> 0 .. WorkerCount]
    <3>1. index[<<t, s>>] \in 0 .. WorkerCount /\ index[<<t, s>>] < WorkerCount
      BY <1>19, <2>a DEF HandlerTell, TypeOK
    <3>2. \/ index' = index
          \/ index' = [index EXCEPT ![<<t, s>>] = index[<<t, s>>] + 1]
      BY <1>19 DEF HandlerTell
    <3>3. index[<<t, s>>] + 1 \in 0 .. WorkerCount
      BY <3>1, ServerAssumption
    <3> QED
      BY <2>a, <3>2, <3>3 DEF TypeOK
  <2>9. worker' \in [Worker -> {"none", "running", "exited"}]
    BY <1>19 DEF HandlerTell, TypeOK, ConnInv, Handler, Worker
  <2>10. told' \in [Worker -> BOOLEAN] /\ walking' \in [Worker -> BOOLEAN]
    BY <1>19 DEF HandlerTell, TypeOK, ConnInv, Handler, Worker
  <2>11. list' \in [Worker -> SUBSET Conn]
    BY <1>19 DEF HandlerTell, TypeOK, ConnInv, Handler, Worker
  <2>12. conn' \in [Conn -> {"new", "backlog", "accepted", "listed", "queued", "reading",
                               "loaded", "answered", "dropped", "refused"}]
    BY <1>19 DEF HandlerTell, TypeOK, ConnInv, Handler, Worker
  <2>13. reader' \in [Reader -> {"none", "idle", "exited"} \cup Conn]
    BY <1>19 DEF HandlerTell, TypeOK, ConnInv, Handler, Worker
  <2>14. draining' \in BOOLEAN /\ pool_mutex' \in Reader \cup {None} /\ freed' \subseteq Worker
    BY <1>19 DEF HandlerTell, TypeOK, ConnInv, Handler, Worker
  <2> QED
     BY <2>1, <2>2, <2>3, <2>4, <2>5, <2>6, <2>7, <2>8, <2>9, <2>10, <2>11, <2>12, <2>13,
       <2>14 DEF TypeOK
<1>20. ASSUME NEW t \in Hosts, NEW s \in Signal, HandlerJoin(t, s) PROVE TypeOK'
  <2>1. <<t, s>> \in Handler /\ at[<<t, s>>] = "join"
    BY <1>20 DEF HandlerJoin, Handler
  <2>2. index[<<t, s>>] + 1 \in 0 .. WorkerCount
    BY <2>1 DEF TypeOK, JoinInv
  <2>3. at' = [at EXCEPT ![<<t, s>>] = "worker"]
        /\ index' = [index EXCEPT ![<<t, s>>] = index[<<t, s>>] + 1]
    BY <1>20 DEF HandlerJoin
  <2>4. /\ at' \in [Handler -> {"none", "lock", "pool", "readers", "worker", "join"}]
        /\ index' \in [Handler -> 0 .. WorkerCount]
    BY <2>1, <2>2, <2>3 DEF TypeOK
  <2>5. UNCHANGED <<mainVars, mutex, stack, signals, shutdown, stopped, workerVars, poolVars, freed>>
    BY <1>20 DEF HandlerJoin
  <2> QED
    BY <2>4, <2>5 DEF TypeOK
<1>21. ASSUME NEW t \in Hosts, NEW s \in Signal, HandlerReturn(t, s) PROVE TypeOK'
  BY <1>21 DEF HandlerReturn, TypeOK, JoinInv, ConnInv, Handler, Worker
<1>22. ASSUME NEW w \in Worker, Walk(w) PROVE TypeOK'
  BY <1>22 DEF Walk, Working, TypeOK, JoinInv, ConnInv, Handler, Worker
<1>23. ASSUME NEW w \in Worker, Leave(w) PROVE TypeOK'
  BY <1>23 DEF Leave, Working, TypeOK, JoinInv, ConnInv, Handler, Worker
<1>24. ASSUME NEW w \in Worker, NEW c \in Conn, Answer(w, c) PROVE TypeOK'
  BY <1>24 DEF Answer, Finish, Working, TypeOK, JoinInv, ConnInv, Handler, Worker
<1>25. ASSUME NEW w \in Worker, NEW c \in Conn, Miss(w, c) PROVE TypeOK'
  <2>1. pc' \in {"create", "start", "bind", "workers", "loop", "check", "accept", "assign", "add",
                      "destroy", "return", "exit"}
    BY <1>25 DEF Miss, Finish, Working, TypeOK, ConnInv, Handler, Worker
  <2>2. next' \in 0 .. WorkerCount /\ client' \in Conn \cup {None}
    BY <1>25 DEF Miss, Finish, Working, TypeOK, ConnInv, Handler, Worker
  <2>3. mutex' \in {None, Main} \cup Handler /\ listenfd' \in {"none", "open", "closed"}
    BY <1>25 DEF Miss, Finish, Working, TypeOK, ConnInv, Handler, Worker
  <2>4. running' \in BOOLEAN /\ shutdown' \in BOOLEAN /\ stopped' \in BOOLEAN
    BY <1>25 DEF Miss, Finish, Working, TypeOK, ConnInv, Handler, Worker
  <2>5. last_assigned_worker' \in Worker /\ offers' \in [Worker -> Nat]
    BY <1>25 DEF Miss, Finish, Working, TypeOK, ConnInv, Handler, Worker
  <2>6. stack' \in [Hosts -> Seq(Signal)] /\ signals' \in 0 .. MaxSignals
    BY <1>25 DEF Miss, Finish, Working, TypeOK, ConnInv, Handler, Worker
  <2>7. at' \in [Handler -> {"none", "lock", "pool", "readers", "worker", "join"}]
    BY <1>25 DEF Miss, Finish, Working, TypeOK, ConnInv, Handler, Worker
  <2>8. index' \in [Handler -> 0 .. WorkerCount]
    BY <1>25 DEF Miss, Finish, Working, TypeOK, ConnInv, Handler, Worker
  <2>9. worker' \in [Worker -> {"none", "running", "exited"}]
    BY <1>25 DEF Miss, Finish, Working, TypeOK, ConnInv, Handler, Worker
  <2>10. told' \in [Worker -> BOOLEAN] /\ walking' \in [Worker -> BOOLEAN]
    BY <1>25 DEF Miss, Finish, Working, TypeOK, ConnInv, Handler, Worker
  <2>11. list' \in [Worker -> SUBSET Conn]
    <3>1. list' = list \/ list' = [list EXCEPT ![w] = @ \ {c}]
      BY <1>25 DEF Miss, Finish
    <3>2. list \in [Worker -> SUBSET Conn]
      BY DEF TypeOK
    <3> HIDE DEF IInv
    <3>3. CASE list' = list
      BY <3>2, <3>3
    <3>4. CASE list' = [list EXCEPT ![w] = @ \ {c}]
      <4>1. list[w] \ {c} \in SUBSET Conn
        BY <3>2
      <4> QED
        BY <3>2, <3>4, <4>1
    <3> QED
      BY <3>1, <3>3, <3>4
  <2>12. conn' \in [Conn -> {"new", "backlog", "accepted", "listed", "queued", "reading",
                               "loaded", "answered", "dropped", "refused"}]
    BY <1>25 DEF Miss, Finish, Working, TypeOK, ConnInv, Handler, Worker
  <2>13. reader' \in [Reader -> {"none", "idle", "exited"} \cup Conn]
    BY <1>25 DEF Miss, Finish, Working, TypeOK, ConnInv, Handler, Worker
  <2>14. draining' \in BOOLEAN /\ pool_mutex' \in Reader \cup {None} /\ freed' \subseteq Worker
    BY <1>25 DEF Miss, Finish, Working, TypeOK, ConnInv, Handler, Worker
  <2> QED
     BY <2>1, <2>2, <2>3, <2>4, <2>5, <2>6, <2>7, <2>8, <2>9, <2>10, <2>11, <2>12, <2>13,
       <2>14 DEF TypeOK
<1>26. ASSUME NEW r \in Reader, Grab(r) PROVE TypeOK'
  BY <1>26 DEF Grab, TypeOK, JoinInv, ConnInv, Handler, Worker
<1>27. ASSUME NEW r \in Reader, NEW c \in Conn, Take(r, c) PROVE TypeOK'
  BY <1>27 DEF Take, HasPool, TypeOK, JoinInv, ConnInv, Handler, Worker
<1>28. ASSUME NEW r \in Reader, Callback(r) PROVE TypeOK'
  BY <1>28 DEF Callback, HasPool, TypeOK, JoinInv, ConnInv, Handler, Worker
<1>29. ASSUME NEW r \in Reader, LeavePool(r) PROVE TypeOK'
  BY <1>29 DEF LeavePool, HasPool, TypeOK, JoinInv, ConnInv, Handler, Worker
<1>30. ASSUME NEW c \in Conn, Connect(c) PROVE TypeOK'
  BY <1>30 DEF Connect, TypeOK, JoinInv, ConnInv, Handler, Worker
<1>31. ASSUME UNCHANGED vars PROVE TypeOK'
  BY <1>31 DEF TypeOK, JoinInv, ConnInv, Handler, Worker, vars
<1> HIDE DEF IInv
<1> QED
   BY <1>1, <1>2, <1>3, <1>4, <1>5, <1>6, <1>7, <1>8, <1>9, <1>10, <1>11, <1>12, <1>13, <1>14,
     <1>15, <1>16, <1>17, <1>18, <1>19, <1>20, <1>21, <1>22, <1>23, <1>24, <1>25, <1>26,
     <1>27, <1>28, <1>29, <1>30, <1>31 DEF Next, MainStep, Handle, Work, Read, vars

(* The size of a list with one connection more or less. *)
LEMMA ListSize ==
    ASSUME TypeOK, NEW v \in Worker, NEW c \in Conn
    PROVE  /\ Cardinality(list[v]) \in Nat
           /\ Cardinality(list[v] \ {c}) \in Nat /\ Cardinality(list[v] \ {c}) <= Cardinality(list[v])
           /\ c \notin list[v] => Cardinality(list[v] \cup {c}) = Cardinality(list[v]) + 1
<1>1. list[v] \subseteq Conn /\ IsFiniteSet(Conn)
  BY ServerAssumption DEF TypeOK
<1>2. IsFiniteSet(list[v])
  BY <1>1, FS_Subset
<1> QED
  BY <1>2, FS_CardinalityType, FS_Subset, FS_AddElement

(* A connection moves from one place to the next. *)
LEMMA ConnStep ==
    ASSUME IInv, [Next]_vars
    PROVE  ConnInv'
<1> USE DEF IInv, mainVars, handlerVars, workerVars, poolVars, Main_, Handles
<1> USE ServerAssumption, DistinctAssumption
<1>1. ASSUME CreateServer PROVE ConnInv'
  BY <1>1 DEF CreateServer, ConnInv, ConnectionsKept, StartInv, Listed, TypeOK, Takes
<1>2. ASSUME StartServer PROVE ConnInv'
  BY <1>2 DEF StartServer, ConnInv, ConnectionsKept, StartInv, Listed, TypeOK, Takes
<1>3. ASSUME Bind PROVE ConnInv'
  BY <1>3 DEF Bind, ConnInv, ConnectionsKept, StartInv, Listed, TypeOK, Takes
<1>4. ASSUME StartWorker PROVE ConnInv'
  BY <1>4 DEF StartWorker, ConnInv, ConnectionsKept, StartInv, Listed, TypeOK, Takes
<1>5. ASSUME Started PROVE ConnInv'
  BY <1>5 DEF Started, ConnInv, ConnectionsKept, StartInv, Listed, TypeOK, Takes
<1>6. ASSUME LockLoop PROVE ConnInv'
  BY <1>6 DEF LockLoop, ConnInv, ConnectionsKept, StartInv, Listed, TypeOK, Takes
<1>7. ASSUME Check PROVE ConnInv'
  BY <1>7 DEF Check, ConnInv, ConnectionsKept, StartInv, Listed, TypeOK, Takes
<1>8. ASSUME Accept PROVE ConnInv'
  <2>1. client' # None <=> pc' \in {"assign", "add"}
    BY <1>8 DEF Accept, TypeOK, ConnInv, ConnectionsKept, Listed
  <2>2. \A p, q \in Reader : p # q /\ reader'[p] \in Conn => reader'[q] # reader'[p]
    BY <1>8 DEF Accept, TypeOK, ConnInv, ConnectionsKept, Listed
  <2>3. \A b \in Conn : conn'[b] = "accepted" <=> client' = b
    BY <1>8 DEF Accept, TypeOK, ConnInv, ConnectionsKept, Listed
  <2>4. \A b \in Conn : conn'[b] \in Listed <=> \E v \in Worker : b \in list'[v]
    BY <1>8 DEF Accept, TypeOK, ConnInv, ConnectionsKept, Listed
  <2>5. \A u, v \in Worker : u # v => list'[u] \cap list'[v] = {}
    BY <1>8 DEF Accept, TypeOK, ConnInv, ConnectionsKept, Listed
  <2>6. \A b \in Conn : conn'[b] = "reading" <=> \E q \in Reader : reader'[q] = b
    BY <1>8 DEF Accept, TypeOK, ConnInv, ConnectionsKept, Listed
  <2>7. \A v \in Worker : Cardinality(list'[v]) <= MaxRequests
    BY <1>8 DEF Accept, TypeOK, ConnInv, ConnectionsKept, Listed
  <2> QED
    BY <2>1, <2>2, <2>3, <2>4, <2>5, <2>6, <2>7 DEF ConnInv, ConnectionsKept
<1>9. ASSUME AcceptFails PROVE ConnInv'
  BY <1>9 DEF AcceptFails, ConnInv, ConnectionsKept, StartInv, Listed, TypeOK, Takes
<1>10. ASSUME LockAssign PROVE ConnInv'
  BY <1>10 DEF LockAssign, ConnInv, ConnectionsKept, StartInv, Listed, TypeOK, Takes
<1>11. ASSUME Assign PROVE ConnInv'
  <2> DEFINE u == last_assigned_worker
  <2>1. /\ client \in Conn /\ conn[client] = "accepted" /\ u \in Worker
        /\ client' = None /\ pc' = "loop" /\ UNCHANGED reader
    BY <1>11 DEF Assign, ConnInv, ConnectionsKept, TypeOK
  <2>2. /\ \A b \in Conn \ {client} : conn'[b] = conn[b] /\ conn[b] # "accepted"
        /\ conn'[client] \in {"listed", "refused"}
        /\ \A v \in Worker \ {u} : list'[v] = list[v]
        /\ \/ conn'[client] = "listed" /\ list'[u] = list[u] \cup {client}
              /\ Cardinality(list[u]) < MaxRequests
           \/ conn'[client] = "refused" /\ list'[u] = list[u]
    BY <1>11, <2>1 DEF Assign, Takes, TypeOK, ConnInv, ConnectionsKept
  <2>3. \A v \in Worker : client \notin list[v]
    BY <2>1 DEF ConnInv, ConnectionsKept, Listed
  <2>4. \A v \in Worker : Cardinality(list[v]) \in Nat /\ Cardinality(list[v]) <= MaxRequests
    BY <2>1, ListSize DEF ConnInv, ConnectionsKept
  <2>5. Cardinality(list[u] \cup {client}) = Cardinality(list[u]) + 1
    BY <2>1, <2>3, ListSize
  <2> HIDE DEF u
  <2>6. \A v \in Worker : Cardinality(list'[v]) <= MaxRequests
    <3>1. Cardinality(list'[u]) <= MaxRequests
      <4>1. CASE list'[u] = list[u]
        BY <2>1, <2>4, <4>1
      <4>2. CASE list'[u] = list[u] \cup {client} /\ Cardinality(list[u]) < MaxRequests
        <5>1. Cardinality(list'[u]) = Cardinality(list[u]) + 1
          BY <2>5, <4>2
        <5> QED
          BY <2>1, <2>4, <4>2, <5>1
      <4> QED
        BY <2>2, <4>1, <4>2
    <3>2. \A v \in Worker \ {u} : Cardinality(list'[v]) <= MaxRequests
      BY <2>2, <2>4
    <3> QED
      BY <3>1, <3>2
  <2>7. \A b \in Conn : conn'[b] = "accepted" <=> client' = b
    BY <2>1, <2>2
  <2>8. \A b \in Conn : conn'[b] \in Listed <=> \E v \in Worker : b \in list'[v]
    <3>1. ASSUME NEW b \in Conn \ {client}
          PROVE  \A v \in Worker : b \in list'[v] <=> b \in list[v]
      BY <2>2
    <3>2. conn'[client] \in Listed <=> \E v \in Worker : client \in list'[v]
      BY <2>1, <2>2, <2>3 DEF Listed
    <3> QED
      BY <2>2, <3>1, <3>2 DEF ConnInv, ConnectionsKept
  <2>9. \A v, w \in Worker : v # w => list'[v] \cap list'[w] = {}
    <3>1. \A v, w \in Worker : v # w => list[v] \cap list[w] = {}
      BY DEF ConnInv, ConnectionsKept
    <3> QED
      BY <2>1, <2>2, <2>3, <3>1
  <2>10. \A b \in Conn : conn'[b] = "reading" <=> \E q \in Reader : reader'[q] = b
    BY <2>1, <2>2 DEF ConnInv, ConnectionsKept
  <2>11. \A q, r \in Reader : q # r /\ reader'[r] \in Conn => reader'[q] # reader'[r]
    BY <2>1 DEF ConnInv
  <2> QED
    BY <2>1, <2>6, <2>7, <2>8, <2>9, <2>10, <2>11 DEF ConnInv, ConnectionsKept
<1>12. ASSUME DestroyWorker PROVE ConnInv'
  BY <1>12 DEF DestroyWorker, ConnInv, ConnectionsKept, StartInv, Listed, TypeOK, Takes
<1>13. ASSUME DestroyServer PROVE ConnInv'
  BY <1>13 DEF DestroyServer, ConnInv, ConnectionsKept, StartInv, Listed, TypeOK, Takes
<1>14. ASSUME Return PROVE ConnInv'
  BY <1>14 DEF Return, ConnInv, ConnectionsKept, StartInv, Listed, TypeOK, Takes
<1>15. ASSUME NEW w \in Worker, NEW c \in Conn, Answer(w, c) PROVE ConnInv'
  <2>1. /\ conn[c] \in {"listed", "loaded"} /\ c \in list[w]
        /\ UNCHANGED <<client, pc, reader>>
    BY <1>15 DEF Answer
  <2>2. /\ \A b \in Conn \ {c} : conn'[b] = conn[b]
        /\ \A v \in Worker \ {w} : list'[v] = list[v]
        /\ conn'[c] = "answered" /\ list'[w] = list[w] \ {c}
    BY <1>15 DEF Answer, Finish, TypeOK
  <2>3. \A v \in Worker \ {w} : c \notin list[v]
    BY <2>1 DEF ConnInv, ConnectionsKept
  <2>4. /\ \A v \in Worker : Cardinality(list[v]) \in Nat /\ Cardinality(list[v]) <= MaxRequests
        /\ Cardinality(list[w] \ {c}) \in Nat /\ Cardinality(list[w] \ {c}) <= Cardinality(list[w])
    BY ListSize DEF ConnInv, ConnectionsKept
  <2>5. \A v \in Worker : Cardinality(list'[v]) <= MaxRequests
    <3>1. Cardinality(list'[w]) <= MaxRequests
      BY <2>2, <2>4
    <3>2. \A v \in Worker \ {w} : Cardinality(list'[v]) <= MaxRequests
      BY <2>2, <2>4
    <3> QED
      BY <3>1, <3>2
  <2>6. \A b \in Conn : conn'[b] = "accepted" <=> client' = b
    BY <2>1, <2>2 DEF ConnInv, ConnectionsKept
  <2>7. \A b \in Conn : conn'[b] \in Listed <=> \E v \in Worker : b \in list'[v]
    <3>1. ASSUME NEW b \in Conn \ {c}
          PROVE  \A v \in Worker : b \in list'[v] <=> b \in list[v]
      BY <2>2
    <3>2. conn'[c] \in Listed <=> \E v \in Worker : c \in list'[v]
      BY <2>1, <2>2, <2>3 DEF Listed
    <3> QED
      BY <2>2, <3>1, <3>2 DEF ConnInv, ConnectionsKept
  <2>8. \A u, v \in Worker : u # v => list'[u] \cap list'[v] = {}
    <3>1. \A u, v \in Worker : u # v => list[u] \cap list[v] = {}
      BY DEF ConnInv, ConnectionsKept
    <3> QED
      BY <2>2, <3>1
  <2>9. \A b \in Conn : conn'[b] = "reading" <=> \E q \in Reader : reader'[q] = b
    BY <2>1, <2>2 DEF ConnInv, ConnectionsKept
  <2>10. \A q, r \in Reader : q # r /\ reader'[r] \in Conn => reader'[q] # reader'[r]
    BY <2>1 DEF ConnInv
  <2> QED
    BY <2>1, <2>5, <2>6, <2>7, <2>8, <2>9, <2>10 DEF ConnInv, ConnectionsKept
<1>16. ASSUME NEW w \in Worker, NEW c \in Conn, Miss(w, c) PROVE ConnInv'
  <2>1. /\ conn[c] \in {"listed"} /\ c \in list[w]
        /\ UNCHANGED <<client, pc, reader>>
    BY <1>16 DEF Miss
  <2>2. /\ \A b \in Conn \ {c} : conn'[b] = conn[b]
        /\ \A v \in Worker \ {w} : list'[v] = list[v]
        /\ \/ conn'[c] = "queued" /\ list'[w] = list[w]
           \/ conn'[c] = "dropped" /\ list'[w] = list[w] \ {c}
    BY <1>16 DEF Miss, Finish, TypeOK
  <2>3. \A v \in Worker \ {w} : c \notin list[v]
    BY <2>1 DEF ConnInv, ConnectionsKept
  <2>4. /\ \A v \in Worker : Cardinality(list[v]) \in Nat /\ Cardinality(list[v]) <= MaxRequests
        /\ Cardinality(list[w] \ {c}) \in Nat /\ Cardinality(list[w] \ {c}) <= Cardinality(list[w])
    BY ListSize DEF ConnInv, ConnectionsKept
  <2>5. \A v \in Worker : Cardinality(list'[v]) <= MaxRequests
    <3>1. Cardinality(list'[w]) <= MaxRequests
      <4>1. CASE list'[w] = list[w]
        BY <2>4, <4>1
      <4>2. CASE list'[w] = list[w] \ {c}
        <5>1. Cardinality(list'[w]) = Cardinality(list[w] \ {c})
          BY <4>2
        <5> QED
          BY <2>4, <5>1
      <4> QED
        BY <2>2, <4>1, <4>2
    <3>2. \A v \in Worker \ {w} : Cardinality(list'[v]) <= MaxRequests
      BY <2>2, <2>4
    <3> QED
      BY <3>1, <3>2
  <2>6. \A b \in Conn : conn'[b] = "accepted" <=> client' = b
    BY <2>1, <2>2 DEF ConnInv, ConnectionsKept
  <2>7. \A b \in Conn : conn'[b] \in Listed <=> \E v \in Worker : b \in list'[v]
    <3>1. ASSUME NEW b \in Conn \ {c}
          PROVE  \A v \in Worker : b \in list'[v] <=> b \in list[v]
      BY <2>2
    <3>2. conn'[c] \in Listed <=> \E v \in Worker : c \in list'[v]
      BY <2>1, <2>2, <2>3 DEF Listed
    <3> QED
      BY <2>2, <3>1, <3>2 DEF ConnInv, ConnectionsKept
  <2>8. \A u, v \in Worker : u # v => list'[u] \cap list'[v] = {}
    <3>1. \A u, v \in Worker : u # v => list[u] \cap list[v] = {}
      BY DEF ConnInv, ConnectionsKept
    <3> QED
      BY <2>2, <3>1
  <2>9. \A b \in Conn : conn'[b] = "reading" <=> \E q \in Reader : reader'[q] = b
    BY <2>1, <2>2 DEF ConnInv, ConnectionsKept
  <2>10. \A q, r \in Reader : q # r /\ reader'[r] \in Conn => reader'[q] # reader'[r]
    BY <2>1 DEF ConnInv
  <2> QED
    BY <2>1, <2>5, <2>6, <2>7, <2>8, <2>9, <2>10 DEF ConnInv, ConnectionsKept
<1>17. ASSUME NEW r \in Reader, NEW c \in Conn, Take(r, c) PROVE ConnInv'
  <2>1. client' # None <=> pc' \in {"assign", "add"}
    BY <1>17 DEF Take, HasPool, TypeOK, ConnInv, ConnectionsKept, Listed
  <2>2. \A p, q \in Reader : p # q /\ reader'[p] \in Conn => reader'[q] # reader'[p]
    BY <1>17 DEF Take, HasPool, TypeOK, ConnInv, ConnectionsKept, Listed
  <2>3. \A b \in Conn : conn'[b] = "accepted" <=> client' = b
    BY <1>17 DEF Take, HasPool, TypeOK, ConnInv, ConnectionsKept, Listed
  <2>4. \A b \in Conn : conn'[b] \in Listed <=> \E v \in Worker : b \in list'[v]
    BY <1>17 DEF Take, HasPool, TypeOK, ConnInv, ConnectionsKept, Listed
  <2>5. \A u, v \in Worker : u # v => list'[u] \cap list'[v] = {}
    BY <1>17 DEF Take, HasPool, TypeOK, ConnInv, ConnectionsKept, Listed
  <2>6. \A b \in Conn : conn'[b] = "reading" <=> \E q \in Reader : reader'[q] = b
    BY <1>17 DEF Take, HasPool, TypeOK, ConnInv, ConnectionsKept, Listed
  <2>7. \A v \in Worker : Cardinality(list'[v]) <= MaxRequests
    BY <1>17 DEF Take, HasPool, TypeOK, ConnInv, ConnectionsKept, Listed
  <2> QED
    BY <2>1, <2>2, <2>3, <2>4, <2>5, <2>6, <2>7 DEF ConnInv, ConnectionsKept
<1>18. ASSUME NEW r \in Reader, Callback(r) PROVE ConnInv'
  BY <1>18 DEF Callback, HasPool, ConnInv, ConnectionsKept, StartInv, Listed, TypeOK, Takes
<1>19. ASSUME NEW r \in Reader, LeavePool(r) PROVE ConnInv'
  BY <1>19 DEF LeavePool, HasPool, ConnInv, ConnectionsKept, StartInv, Listed, TypeOK, Takes
<1>20. ASSUME NEW c \in Conn, Connect(c) PROVE ConnInv'
  BY <1>20 DEF Connect, ConnInv, ConnectionsKept, StartInv, Listed, TypeOK, Takes
<1>21. ASSUME UNCHANGED <<pc, client, reader, conn, list>> PROVE ConnInv'
  BY <1>21 DEF ConnInv, ConnectionsKept, StartInv, Listed, TypeOK, Takes
<1>22. ASSUME NEW t \in Hosts, NEW s \in Signal, Deliver(t, s) \/ HandlerLock(t, s)
                 \/ HandlerPool(t, s) \/ HandlerJoinReaders(t, s) \/ HandlerTell(t, s)
                 \/ HandlerJoin(t, s) \/ HandlerReturn(t, s)
       PROVE  UNCHANGED <<pc, client, reader, conn, list>>
   BY <1>22 DEF Deliver, HandlerLock, HandlerPool, HandlerJoinReaders, HandlerTell,
     HandlerJoin, HandlerReturn
<1>23. ASSUME \/ \E w \in Worker : Walk(w) \/ Leave(w)
              \/ \E r \in Reader : Grab(r)
       PROVE  UNCHANGED <<pc, client, reader, conn, list>>
  BY <1>23 DEF Walk, Leave, Grab, Working
<1> HIDE DEF IInv
<1> QED
   BY <1>1, <1>2, <1>3, <1>4, <1>5, <1>6, <1>7, <1>8, <1>9, <1>10, <1>11, <1>12, <1>13, <1>14,
     <1>15, <1>16, <1>17, <1>18, <1>19, <1>20, <1>21, <1>22, <1>23 DEF Next, MainStep, Handle,
     Work, Read, vars

----------------------------------------------------------------------------
(* CreateServer has not begun. *)
LEMMA InitInv == Init => IInv
<1> SUFFICES ASSUME Init PROVE IInv
  OBVIOUS
<1> USE DEF Init
<1>1. TypeOK
  <2>1. stack \in [Hosts -> Seq(Signal)]
    OBVIOUS
  <2>2. 0 \in Worker /\ 0 \in 0 .. WorkerCount /\ 0 \in 0 .. MaxSignals
    BY ServerAssumption DEF Worker
  <2> QED
    BY <2>1, <2>2 DEF TypeOK
<1>2. MutexInv /\ JoinInv /\ StartInv /\ StoppedMeansLeft /\ LeftInv
  BY DistinctAssumption DEF MutexInv, JoinInv, StartInv, StoppedMeansLeft, LeftInv
<1>3. ConnInv
  <2>1. \A w \in Worker : Cardinality(list[w]) <= MaxRequests
    BY FS_EmptySet, ServerAssumption
  <2> QED
    BY <2>1, DistinctAssumption DEF ConnInv, ConnectionsKept, Listed
<1>4. TurnInv
  <2>1. \A w \in Worker : offers[w] = IF w < 0 THEN 0 + 1 ELSE 0
    BY DEF Worker
  <2> QED
    BY <2>1 DEF TurnInv
<1> QED
  BY <1>1, <1>2, <1>3, <1>4 DEF IInv

(* The inductive invariant of the server holds in every reachable state. *)
THEOREM Invariance == Spec => []IInv
<1>1. IInv /\ [Next]_vars => IInv'
   BY TypeStep, MutexStep, JoinStep, StartStep, StoppedStep, LeftStep, ConnStep, TurnStep DEF
     IInv
<1> QED
  BY <1>1, InitInv, PTL DEF Spec

(* Every variable of the server keeps its type (server.c, main.c). *)
THEOREM TypeCorrect == Spec => []TypeOK
<1>1. IInv => TypeOK
  BY DEF IInv
<1> QED
  BY <1>1, Invariance, PTL

(* When a handler has come back to a started server, no worker and no reader *)
(* that takes no signals runs any more (server.c:251-270).                    *)
THEOREM ShutdownComplete == Spec => []StoppedMeansLeft
<1>1. IInv => StoppedMeansLeft
  BY DEF IInv
<1> QED
  BY <1>1, Invariance, PTL

(* No connection is given to a worker that has left (worker.c:218).         *)
THEOREM NoneOrphaned == Spec => []NoOrphans
<1>1. IInv => NoOrphans
  BY DEF IInv, LeftInv, NoOrphans
<1> QED
  BY <1>1, Invariance, PTL

(* Each connection is in one place, a shutdown in between or not, for any    *)
(* number of workers, readers and clients (server.c:285-314).               *)
THEOREM ConnectionsSafe == Spec => []ConnectionsKept
<1>1. IInv => ConnectionsKept
  BY DEF IInv, ConnInv
<1> QED
  BY <1>1, Invariance, PTL

(* The round robin is fair, for any number of workers (server.c:301-304).   *)
THEOREM TurnsFair == Spec => []RoundRobin
<1>1. IInv => RoundRobin
  BY DEF IInv, TurnInv, RoundRobin
<1> QED
  BY <1>1, Invariance, PTL
=============================================================================
