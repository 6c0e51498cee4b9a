---------------------------- MODULE ReaderPool ----------------------------
(***************************************************************************)
(* The pool of file readers of src/reader/reader.c: a list of requests,    *)
(* worker threads that take them, read the file and answer by a callback,  *)
(* cancellation, and two kinds of shutdown.                                *)
(*                                                                         *)
(* pool->mutex covers every step but three: fstat and read run without it, *)
(* and so does the wait on not_empty.  A locked section is one action.     *)
(* The callback runs inside the locked section, so an answer is part of    *)
(* it.                                                                     *)
(*                                                                         *)
(* Descriptor numbers are kept, because a number that was closed is given  *)
(* out again by the next open while the first reader may still use it.     *)
(* Abstracted: the bytes (a read gives the start of its own file, or       *)
(* something else) and malloc, which always succeeds.                      *)
(***************************************************************************)
EXTENDS Integers, Sequences, FiniteSets

CONSTANTS
    Worker,         \* the threads of the pool
    Request,        \* the identifiers uuid_generate can give
    Fd,             \* the descriptor numbers open can give
    None,           \* NULL, or -1 for a descriptor
    MaxRequests,    \* params->max_requests
    MaxAnswers      \* bound: repeated cancels stop when a request has this many answers

ASSUME PoolAssumption ==
    /\ MaxRequests \in Nat \ {0} /\ MaxAnswers \in Nat
    /\ IsFiniteSet(Worker) /\ IsFiniteSet(Request) /\ Worker # {}
    \* worker_requests has max_requests entries, one for each worker
    /\ Cardinality(Worker) <= MaxRequests
ASSUME PoolNoneAssumption == None \notin Request /\ None \notin Fd /\ None \notin Worker

VARIABLES
    requests,       \* pool->requests, from its head
    request_count, pending_tasks,   \* the fields of those names
    stats,          \* completed_, failed_, canceled_ and total_requests
    shutdown,       \* pool->shutdown
    pc,             \* where each worker is
    job,            \* the request of the PendingFile a worker works on
    worker_requests,    \* pool->worker_requests: the request each slot points at
    fd, is_canceled,    \* the fields of the PendingFile of each request
    result,         \* what fstat or read gave the worker
    file,           \* open file of each descriptor: whose, and if it is at its start
    issued,         \* the identifiers given out by QueueFile
    asked,          \* the requests whose cancel succeeded, or that a shutdown cancelled
    answers,        \* the error codes of the callbacks of each request
    closer          \* the thread that shuts the pool down

vars == <<requests, request_count, pending_tasks, stats, shutdown, pc, job, worker_requests,
          fd, is_canceled, result, file, issued, asked, answers, closer>>
pendingVars == <<fd, is_canceled, file>>
clientVars == <<issued, asked, closer>>

Code == {"OK", "OK_OTHER_BYTES", "CANCELED", "FILE_NOT_FOUND", "READING_FILE", "REFUSED"}
Stats == [completed : Nat, failed : Nat, canceled : Nat, total : Nat]
Open == [of : Request, fresh : BOOLEAN]

Init ==
    /\ requests = <<>> /\ request_count = 0 /\ pending_tasks = 0
    /\ stats = [completed |-> 0, failed |-> 0, canceled |-> 0, total |-> 0]
    /\ shutdown = FALSE
    /\ pc = [w \in Worker |-> "loop"]
    /\ job = [w \in Worker |-> None]
    /\ worker_requests = [w \in Worker |-> None]
    /\ fd = [r \in Request |-> None]
    /\ is_canceled = [r \in Request |-> FALSE]
    /\ result = [w \in Worker |-> None]
    /\ file = [f \in Fd |-> None]
    /\ issued = {} /\ asked = {}
    /\ answers = [r \in Request |-> <<>>]
    /\ closer = "out"

Queued == {requests[i] : i \in DOMAIN requests}
InFlight == {r \in Request : \E w \in Worker : job[w] = r}
Slotted == {r \in Request : \E w \in Worker : worker_requests[w] = r}

(* pthread_cond_broadcast(&pool->not_empty) *)
Awake == [w \in Worker |-> IF pc[w] = "wait" THEN "loop" ELSE pc[w]]

(* _SendDone, _SendError, _SendCancel *)
Answer(r, code) == answers' = [answers EXCEPT ![r] = Append(@, code)]

----------------------------------------------------------------------------
(* The clients.                                                            *)

(* Mutant: the new request wakes one worker instead of all. *)
QueueFileSignals(r) ==
    /\ ~shutdown /\ request_count < MaxRequests
    /\ r \notin issued
    /\ requests' = <<r>> \o requests
    /\ request_count' = request_count + 1
    /\ pending_tasks' = pending_tasks + 1
    /\ stats' = [stats EXCEPT !.total = @ + 1]
    /\ \/ requests = <<>> /\ \E w \in Worker : pc[w] = "wait" /\ pc' = [pc EXCEPT ![w] = "loop"]
       \/ /\ requests # <<>> \/ \A w \in Worker : pc[w] # "wait"
          /\ pc' = pc
    /\ issued' = issued \cup {r}
    /\ UNCHANGED <<shutdown, job, worker_requests, pendingVars, result, asked, answers, closer>>

(* Mutant: the new request wakes nobody. *)
QueueFileSilent(r) ==
    /\ ~shutdown /\ request_count < MaxRequests
    /\ r \notin issued
    /\ requests' = <<r>> \o requests
    /\ request_count' = request_count + 1
    /\ pending_tasks' = pending_tasks + 1
    /\ stats' = [stats EXCEPT !.total = @ + 1]
    /\ issued' = issued \cup {r}
    /\ UNCHANGED <<shutdown, pc, job, worker_requests, pendingVars, result, asked, answers, closer>>

(* Mutant: the new request is not counted as pending. *)
QueueFileUncounted(r) ==
    /\ ~shutdown /\ request_count < MaxRequests
    /\ r \notin issued
    /\ requests' = <<r>> \o requests
    /\ request_count' = request_count + 1
    /\ stats' = [stats EXCEPT !.total = @ + 1]
    /\ pc' = IF requests = <<>> THEN Awake ELSE pc
    /\ issued' = issued \cup {r}
    /\ UNCHANGED <<pending_tasks, shutdown, job, worker_requests, pendingVars, result, asked,
                   answers, closer>>

(* QueueFile: the request goes to the head of the list, and the workers are *)
(* woken only if the list was empty.  Refusals change nothing.              *)
QueueFile(r) ==
    /\ ~shutdown /\ request_count < MaxRequests
    /\ r \notin issued
    /\ requests' = <<r>> \o requests
    /\ request_count' = request_count + 1
    /\ pending_tasks' = pending_tasks + 1
    /\ stats' = [stats EXCEPT !.total = @ + 1]
    /\ pc' = IF requests = <<>> THEN Awake ELSE pc
    /\ issued' = issued \cup {r}
    /\ UNCHANGED <<shutdown, job, worker_requests, pendingVars, result, asked, answers, closer>>

(* _CancelFile: the request stays in the list.  Its test of _SendCancel's   *)
(* result is inverted, and it returns before it unlinks or counts anything. *)
CancelQueued(r) ==
    /\ r \in Queued
    /\ Answer(r, "CANCELED")
    /\ UNCHANGED pendingVars

(* _CancelPendingFile: the descriptor number of the PendingFile is closed,  *)
(* whatever it stands for by now.                                           *)
CancelPending(R) ==
    /\ file' = [f \in Fd |-> IF \E r \in R : fd[r] = f THEN None ELSE file[f]]
    /\ is_canceled' = [r \in Request |-> is_canceled[r] \/ r \in R]
    /\ UNCHANGED fd

(* CancelFile, where it finds the request. *)
CancelFile(r) ==
    /\ ~shutdown /\ r \in issued
    /\ Len(answers[r]) < MaxAnswers
    /\ \/ CancelQueued(r)
       \/ /\ r \notin Queued /\ r \in Slotted
          /\ CancelPending({r})
          /\ UNCHANGED answers
    /\ asked' = asked \cup {r}
    /\ UNCHANGED <<requests, request_count, pending_tasks, stats, shutdown, pc, job,
                   worker_requests, result, issued, closer>>

(* Mutant: the sleeping workers are not told. *)
GracefullyShutdownSilent ==
    /\ closer = "out"
    /\ closer' = "joining"
    /\ shutdown' = TRUE
    /\ UNCHANGED <<requests, request_count, pending_tasks, stats, pc, job, worker_requests,
                   pendingVars, result, issued, asked, answers>>

(* GracefullyShutdownFileReaderPool up to the joins. *)
GracefullyShutdown ==
    /\ closer = "out"
    /\ closer' = "joining"
    /\ shutdown' = TRUE
    /\ pc' = Awake
    /\ UNCHANGED <<requests, request_count, pending_tasks, stats, job, worker_requests,
                   pendingVars, result, issued, asked, answers>>

(* ShutdownFileReaderPool up to the joins: every listed request and every  *)
(* one a worker has registered is cancelled.                                *)
Shutdown ==
    /\ closer = "out"
    /\ closer' = "joining"
    /\ shutdown' = TRUE
    /\ pc' = Awake
    /\ answers' = [r \in Request |->
                     IF r \in Queued THEN Append(answers[r], "CANCELED") ELSE answers[r]]
    /\ CancelPending(Slotted)
    /\ asked' = asked \cup Queued \cup Slotted
    /\ UNCHANGED <<requests, request_count, pending_tasks, stats, job, worker_requests,
                   result, issued>>

(* The last pthread_join returns. *)
Join ==
    /\ closer = "joining" /\ \A w \in Worker : pc[w] = "exit"
    /\ closer' = "joined"
    /\ UNCHANGED <<requests, request_count, pending_tasks, stats, shutdown, pc, job,
                   worker_requests, pendingVars, result, issued, asked, answers>>

----------------------------------------------------------------------------
(* The workers.                                                            *)

(* Mutant: a worker leaves at the shutdown, whatever is still in the list. *)
IdleLeavesAtOnce(w) ==
    /\ pc[w] = "loop" /\ (request_count = 0 \/ shutdown)
    /\ pc' = [pc EXCEPT ![w] = IF shutdown THEN "exit" ELSE "wait"]
    /\ UNCHANGED <<requests, request_count, pending_tasks, stats, shutdown, job,
                   worker_requests, pendingVars, result, answers, clientVars>>

(* Nothing to take: wait, or leave if the pool shuts down. *)
Idle(w) ==
    /\ pc[w] = "loop" /\ request_count = 0
    /\ pc' = [pc EXCEPT ![w] = IF shutdown THEN "exit" ELSE "wait"]
    /\ UNCHANGED <<requests, request_count, pending_tasks, stats, shutdown, job,
                   worker_requests, pendingVars, result, answers, clientVars>>

(* A wakeup from pthread_cond_wait that nobody asked for. *)
SpuriousWakeup(w) ==
    /\ pc[w] = "wait"
    /\ pc' = [pc EXCEPT ![w] = "loop"]
    /\ UNCHANGED <<requests, request_count, pending_tasks, stats, shutdown, job,
                   worker_requests, pendingVars, result, answers, clientVars>>

(* Mutant: a request whose file cannot be opened is answered and stays. *)
ExtractKeepsFailed(w) ==
    /\ pc[w] = "loop" /\ request_count # 0 /\ requests # <<>>
    /\ Answer(Head(requests), "FILE_NOT_FOUND")
    /\ stats' = [stats EXCEPT !.failed = @ + 1]
    /\ UNCHANGED <<requests, request_count, pending_tasks, shutdown, pc, job, worker_requests,
                   pendingVars, result, clientVars>>

(* Mutant: the worker does not register the request. *)
ExtractUnregistered(w) ==
    LET r == Head(requests) IN
    /\ pc[w] = "loop" /\ request_count # 0 /\ requests # <<>>
    /\ requests' = Tail(requests)
    /\ request_count' = request_count - 1
    /\ \E f \in Fd :
            /\ file[f] = None
            /\ file' = [file EXCEPT ![f] = [of |-> r, fresh |-> TRUE]]
            /\ fd' = [fd EXCEPT ![r] = f]
    /\ job' = [job EXCEPT ![w] = r]
    /\ pc' = [pc EXCEPT ![w] = "stat"]
    /\ UNCHANGED <<pending_tasks, stats, answers, is_canceled, worker_requests, shutdown, result,
                   clientVars>>

(* Take the request at the head and open its file, under the mutex. *)
Extract(w) ==
    LET r == Head(requests) IN
    /\ pc[w] = "loop" /\ request_count # 0 /\ requests # <<>>
    /\ requests' = Tail(requests)
    /\ request_count' = request_count - 1
    /\ \/ \E f \in Fd :
            /\ file[f] = None
            /\ file' = [file EXCEPT ![f] = [of |-> r, fresh |-> TRUE]]
            /\ fd' = [fd EXCEPT ![r] = f]
            /\ is_canceled' = [is_canceled EXCEPT ![r] = FALSE]
            /\ job' = [job EXCEPT ![w] = r]
            /\ worker_requests' = [worker_requests EXCEPT ![w] = r]
            /\ pc' = [pc EXCEPT ![w] = "stat"]
            /\ UNCHANGED <<pending_tasks, stats, answers>>
       \/ /\ Answer(r, "FILE_NOT_FOUND")
          /\ stats' = [stats EXCEPT !.failed = @ + 1]
          /\ pending_tasks' = pending_tasks - 1
          /\ UNCHANGED <<pc, job, worker_requests, pendingVars>>
    /\ UNCHANGED <<shutdown, result, clientVars>>

(* GetFileStatFd, without the mutex: of whatever has that number now. *)
Stat(w) ==
    /\ pc[w] = "stat"
    /\ \/ /\ file[fd[job[w]]] # None
          /\ pc' = [pc EXCEPT ![w] = "read"]
          /\ UNCHANGED result
       \/ /\ pc' = [pc EXCEPT ![w] = "refuse"]
          /\ \/ result' = [result EXCEPT ![w] = "READING_FILE"]
             \/ /\ file[fd[job[w]]] # None       \* a directory, or too large
                /\ result' = [result EXCEPT ![w] = "REFUSED"]
    /\ UNCHANGED <<requests, request_count, pending_tasks, stats, shutdown, job,
                   worker_requests, pendingVars, answers, clientVars>>

(* Mutant: an error after fstat is not answered. *)
RefuseSilently(w) ==
    /\ pc[w] = "refuse"
    /\ stats' = [stats EXCEPT !.failed = @ + 1]
    /\ pending_tasks' = pending_tasks - 1
    /\ pc' = [pc EXCEPT ![w] = "loop"]
    /\ job' = [job EXCEPT ![w] = None]
    /\ result' = [result EXCEPT ![w] = None]
    /\ UNCHANGED <<requests, request_count, shutdown, worker_requests, pendingVars, answers,
                   clientVars>>

(* Mutant: an error after fstat leaves the request pending. *)
RefuseKeepsTask(w) ==
    /\ pc[w] = "refuse"
    /\ Answer(job[w], result[w])
    /\ stats' = [stats EXCEPT !.failed = @ + 1]
    /\ pc' = [pc EXCEPT ![w] = "loop"]
    /\ job' = [job EXCEPT ![w] = None]
    /\ result' = [result EXCEPT ![w] = None]
    /\ UNCHANGED <<requests, request_count, pending_tasks, shutdown, worker_requests, pendingVars,
                   clientVars>>

(* The three error paths after fstat: neither the slot nor the PendingFile  *)
(* is given back.                                                          *)
Refuse(w) ==
    /\ pc[w] = "refuse"
    /\ Answer(job[w], result[w])
    /\ stats' = [stats EXCEPT !.failed = @ + 1]
    /\ pending_tasks' = pending_tasks - 1
    /\ pc' = [pc EXCEPT ![w] = "loop"]
    /\ job' = [job EXCEPT ![w] = None]
    /\ result' = [result EXCEPT ![w] = None]
    /\ UNCHANGED <<requests, request_count, shutdown, worker_requests, pendingVars, clientVars>>

(* read, without the mutex: it moves the offset of whatever file has that   *)
(* number now.                                                              *)
Read(w) ==
    LET f == fd[job[w]] IN
    /\ pc[w] = "read"
    /\ pc' = [pc EXCEPT ![w] = "finish"]
    /\ \/ /\ file[f] = None
          /\ result' = [result EXCEPT ![w] = "CANCELED"]        \* EBADF
          /\ UNCHANGED file
       \/ /\ file[f] # None
          /\ file' = [file EXCEPT ![f].fresh = FALSE]
          /\ result' = [result EXCEPT ![w] =
                IF file[f] = [of |-> job[w], fresh |-> TRUE] THEN "OK" ELSE "OK_OTHER_BYTES"]
       \/ /\ file[f] # None
          /\ result' = [result EXCEPT ![w] = "READING_FILE"]    \* EIO
          /\ UNCHANGED file
    /\ UNCHANGED <<requests, request_count, pending_tasks, stats, shutdown, job,
                   worker_requests, fd, is_canceled, answers, clientVars>>

(* The locked end of a request that was read.  Its descriptor is not closed. *)
Finish(w) ==
    LET r == job[w]
        code == IF is_canceled[r] /\ result[w] # "READING_FILE" THEN "CANCELED" ELSE result[w]
    IN
    /\ pc[w] = "finish"
    /\ Answer(r, code)
    /\ stats' = CASE code = "CANCELED" -> [stats EXCEPT !.canceled = @ + 1]
                  [] code = "READING_FILE" -> [stats EXCEPT !.failed = @ + 1]
                  [] OTHER -> [stats EXCEPT !.completed = @ + 1]
    /\ pending_tasks' = pending_tasks - 1
    /\ worker_requests' = [worker_requests EXCEPT ![w] = None]
    /\ job' = [job EXCEPT ![w] = None]
    /\ result' = [result EXCEPT ![w] = None]
    /\ pc' = [pc EXCEPT ![w] = "loop"]
    /\ UNCHANGED <<requests, request_count, shutdown, pendingVars, clientVars>>

Work(w) == Idle(w) \/ Extract(w) \/ Stat(w) \/ Refuse(w) \/ Read(w) \/ Finish(w)

Next ==
    \/ \E r \in Request : QueueFile(r) \/ CancelFile(r)
    \/ GracefullyShutdown \/ Shutdown \/ Join
    \/ \E w \in Worker : Work(w) \/ SpuriousWakeup(w)

Spec == Init /\ [][Next]_vars

(* Every worker thread runs, and gets the mutex in the end; joins return.  *)
FairSpec == Spec /\ WF_vars(Join) /\ \A w \in Worker : WF_vars(Work(w))

----------------------------------------------------------------------------
TypeOK ==
    /\ requests \in Seq(Request) /\ request_count \in Nat /\ pending_tasks \in Nat
    /\ stats \in Stats
    /\ shutdown \in BOOLEAN
    /\ pc \in [Worker -> {"loop", "wait", "stat", "refuse", "read", "finish", "exit"}]
    /\ job \in [Worker -> Request \cup {None}]
    /\ worker_requests \in [Worker -> Request \cup {None}]
    /\ fd \in [Request -> Fd \cup {None}]
    /\ is_canceled \in [Request -> BOOLEAN]
    /\ result \in [Worker -> Code \cup {None}]
    /\ file \in [Fd -> Open \cup {None}]
    /\ issued \subseteq Request /\ asked \subseteq Request
    /\ answers \in [Request -> Seq(Code)]
    /\ closer \in {"out", "joining", "joined"}

(* The counters agree with the list and the workers, and the totals of     *)
(* GetReaderPoolStats add up: every path of a worker settles all of them    *)
(* (reader.c:307-310, 418-435, 443-510).                                    *)
CountersAgree ==
    /\ request_count = Len(requests) /\ request_count <= MaxRequests
    /\ pending_tasks = Len(requests) + Cardinality({w \in Worker : job[w] # None})
    /\ stats.total = stats.completed + stats.failed + stats.canceled + pending_tasks

(* No worker sleeps while there is something to do, although QueueFile only *)
(* wakes them when the list was empty (reader.c:312-315, 401-403, 132-133). *)
NoLostWakeup == requests # <<>> \/ shutdown => \A w \in Worker : pc[w] # "wait"

(* A request given to QueueFile is in one place: once in the list, with one *)
(* worker, or answered; nothing is lost or taken twice.                     *)
EachRequestInOnePlace ==
    /\ Queued \cup InFlight \subseteq issued /\ Queued \cap InFlight = {}
    /\ \A i, j \in DOMAIN requests : requests[i] = requests[j] => i = j
    /\ \A v, w \in Worker : job[v] = job[w] /\ job[v] # None => v = w
    /\ \A r \in issued \ (Queued \cup InFlight) : answers[r] # <<>>

(* A request nobody cancelled has its one answer when a worker is through  *)
(* with it, and none before (reader.c:418-510).                             *)
UncancelledAnsweredOnce ==
    \A r \in issued \ asked :
        Len(answers[r]) = IF r \in Queued \cup InFlight THEN 0 ELSE 1

(* A request whose file a worker has open is registered in the slot of that *)
(* worker, so a cancel or a shutdown finds it (reader.c:438, 240-253).      *)
InFlightRegistered ==
    \A w \in Worker : job[w] # None => worker_requests[w] = job[w] /\ fd[job[w]] # None

(* When the shutdown has joined the workers every accepted request has been *)
(* answered and none is left in the list (reader.c:160-163, 172-175, 398).  *)
JoinedMeansAnswered ==
    closer = "joined" => requests = <<>> /\ \A r \in issued : answers[r] # <<>>

(* The most steps that are left for a worker with what it has, the last one *)
(* to leave, and those of all workers; a request of the list costs four.     *)
StepsOf(place) == CASE place = "stat" -> 4
                    [] place = "read" -> 3
                    [] place \in {"refuse", "finish"} -> 2
                    [] place = "loop" -> 1
                    [] OTHER -> 0
Ahead == {u \in Worker \X (1 .. 4) : u[2] <= StepsOf(pc[u[1]])}
StepsToDo == 4 * Len(requests) + Cardinality(Ahead)

(* Once the pool shuts down, each step of a worker brings it nearer to the  *)
(* joins, on every path through a request, and nobody adds work, neither by *)
(* a queued file nor by a wakeup or a second shutdown: what is drained is   *)
(* bounded by the list and the workers (reader.c:160-175, 243, 398-510).    *)
DrainAdvances ==
    [][shutdown =>
        IF \E w \in Worker : Work(w) THEN StepsToDo' < StepsToDo
                                     ELSE UNCHANGED <<requests, pc>>]_vars

(* To whoever queues a file the pool is a PoolContract: however QueueFile,  *)
(* cancels, the workers and either shutdown meet, each request it took has  *)
(* its callback, once unless it was cancelled, before the joins return and  *)
(* not after (reader.c:160-175, 243-253, 293-315, 398-510).                 *)
Phase == [out |-> "open", joining |-> "closing", joined |-> "closed"][closer]
Replies == [r \in Request |-> Len(answers[r])]
Contract == INSTANCE PoolContract WITH accepted <- issued, cancelled <- asked,
                                       replies <- Replies, phase <- Phase
ImplementsContract == Contract!Spec

(* Both shutdowns come to the end of their joins: every worker drains the  *)
(* list and leaves.                                                        *)
ShutdownReturns == closer = "joining" ~> closer = "joined"

(* Once no more requests arrive, every accepted one gets an answer.        *)
AcceptedAnswered == \A r \in Request : r \in issued ~> answers[r] # <<>>

(* A request whose cancel succeeded is answered ERR_REQUEST_CANCELED        *)
(* (test_reader.c:517-523).                                                 *)
CancelHonoured == \A r \in asked : \A i \in DOMAIN answers[r] : answers[r][i] = "CANCELED"

(* "Try to cancel completed request": ERR_REQUEST_NOT_FOUND                 *)
(* (test_reader.c:590-592), so no cancel succeeds after the answer.         *)
CompletedNotCancelled == [][\A r \in asked' \ asked : answers[r] = <<>>]_vars

(* After a shutdown has begun the requests it finds are answered "OK or      *)
(* CANCELED" when their files can be read (test_reader.c:849-850): the      *)
(* shutdown itself makes no read fail.                                      *)
ShutdownAnswers ==
    [][\A w \in Worker : pc[w] = "stat" /\ pc'[w] = "refuse" =>
        file[fd[job[w]]] # None]_vars

(* A request that nobody cancelled is not answered ERR_REQUEST_CANCELED:    *)
(* five reads beside each other are all ERR_OK (test_reader.c:803-807).     *)
OnlyAskedAreCanceled ==
    \A r \in issued \ asked : \A i \in DOMAIN answers[r] : answers[r][i] # "CANCELED"

(* A read answered ERR_OK has delivered the file it was asked for           *)
(* (test_reader.c:204-207).                                                 *)
ReadsOwnFile == \A r \in issued : \A i \in DOMAIN answers[r] : answers[r][i] # "OK_OTHER_BYTES"
=============================================================================
