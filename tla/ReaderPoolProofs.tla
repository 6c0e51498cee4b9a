------------------------- MODULE ReaderPoolProofs -------------------------
(***************************************************************************)
(* Proofs about ReaderPool, for every number of workers and requests.      *)
(***************************************************************************)
EXTENDS ReaderPool, FiniteSetTheorems, TLAPS

Busy == {w \in Worker : job[w] # None}

(* A worker has a request exactly between Extract and its answer, and the   *)
(* error it will answer with when fstat or read has given one.              *)
WorkerInv ==
    /\ \A w \in Worker : job[w] # None <=> pc[w] \in {"stat", "refuse", "read", "finish"}
    /\ \A w \in Worker : pc[w] \in {"refuse", "finish"} => result[w] \in Code

(* Only a shutdown lets a worker leave, and only from an empty list, which  *)
(* stays empty since QueueFile refuses.                                    *)
ClosingInv ==
    /\ closer # "out" => shutdown
    /\ \A w \in Worker : pc[w] = "exit" => shutdown /\ requests = <<>>
    /\ closer = "joined" => \A w \in Worker : pc[w] = "exit"

(* Answers go to identifiers that were given out, cancels too. *)
AnswerInv == asked \cup Slotted \subseteq issued /\ UncancelledAnsweredOnce

IInv == /\ TypeOK /\ CountersAgree /\ WorkerInv /\ InFlightRegistered
        /\ NoLostWakeup /\ EachRequestInOnePlace /\ AnswerInv /\ ClosingInv
        /\ \A r \in Request \ issued : answers[r] = <<>>

----------------------------------------------------------------------------
(* The list. *)
LEMMA Push ==
    ASSUME NEW s \in Seq(Request), NEW r \in Request
    PROVE  /\ <<r>> \o s \in Seq(Request) /\ Len(<<r>> \o s) = Len(s) + 1
           /\ (<<r>> \o s)[1] = r
           /\ \A i \in DOMAIN s : (<<r>> \o s)[i + 1] = s[i]
           /\ \A i \in DOMAIN (<<r>> \o s) : i = 1 \/ i - 1 \in DOMAIN s
  OBVIOUS

(* Taking the head of the list moves every other request up by one. *)
LEMMA Pop ==
    ASSUME NEW s \in Seq(Request), s # <<>>
    PROVE  /\ Tail(s) \in Seq(Request) /\ Len(Tail(s)) = Len(s) - 1
           /\ Head(s) = s[1] /\ 1 \in DOMAIN s /\ Head(s) \in Request
           /\ \A i \in DOMAIN Tail(s) : Tail(s)[i] = s[i + 1] /\ i + 1 \in DOMAIN s
           /\ \A i \in DOMAIN s : i = 1 \/ i - 1 \in DOMAIN Tail(s)
  OBVIOUS

(* One more answer. *)
LEMMA AppendAnswer ==
    ASSUME NEW s \in Seq(Code), NEW c \in Code
    PROVE  /\ Append(s, c) \in Seq(Code) /\ Append(s, c) # <<>>
           /\ Len(s) \in Nat /\ Len(Append(s, c)) = Len(s) + 1
  OBVIOUS

(* Taking and giving back a request, in the number of busy workers. *)
LEMMA BusyCount ==
    ASSUME TypeOK, NEW w \in Worker, NEW r \in Request \cup {None},
           job' = [job EXCEPT ![w] = r]
    PROVE  /\ IsFiniteSet(Busy) /\ Cardinality(Busy) \in Nat
           /\ job[w] = None /\ r # None => Cardinality(Busy') = Cardinality(Busy) + 1
           /\ job[w] # None /\ r = None => Cardinality(Busy') = Cardinality(Busy) - 1
<1>1. IsFiniteSet(Busy) /\ Cardinality(Busy) \in Nat
  BY PoolAssumption, FS_Subset, FS_CardinalityType DEF Busy
<1>2. ASSUME job[w] = None, r # None PROVE Cardinality(Busy') = Cardinality(Busy) + 1
  <2>1. Busy' = Busy \cup {w} /\ w \notin Busy
    BY <1>2 DEF Busy, TypeOK
  <2> QED
    BY <1>1, <2>1, FS_AddElement
<1>3. ASSUME job[w] # None, r = None PROVE Cardinality(Busy') = Cardinality(Busy) - 1
  <2>1. Busy' = Busy \ {w} /\ w \in Busy
    BY <1>3 DEF Busy, TypeOK
  <2> QED
    BY <1>1, <2>1, FS_RemoveElement
<1> QED
  BY <1>1, <1>2, <1>3

----------------------------------------------------------------------------
(* The pool as CreateFileReaderPool returns it. *)
LEMMA InitInv == Init => IInv
<1> SUFFICES ASSUME Init PROVE IInv
  OBVIOUS
<1> USE DEF Init
<1>1. TypeOK
  <2>1. stats \in Stats
    BY DEF Stats
  <2>2. answers \in [Request -> Seq(Code)]
    OBVIOUS
  <2>3. requests \in Seq(Request) /\ request_count \in Nat /\ pending_tasks \in Nat
    OBVIOUS
  <2>4. /\ pc \in [Worker -> {"loop", "wait", "stat", "refuse", "read", "finish", "exit"}]
        /\ job \in [Worker -> Request \cup {None}]
        /\ worker_requests \in [Worker -> Request \cup {None}]
        /\ result \in [Worker -> Code \cup {None}]
    OBVIOUS
  <2>5. /\ fd \in [Request -> Fd \cup {None}] /\ is_canceled \in [Request -> BOOLEAN]
        /\ file \in [Fd -> Open \cup {None}]
    OBVIOUS
  <2> QED
    BY <2>1, <2>2, <2>3, <2>4, <2>5 DEF TypeOK
<1>2. {w \in Worker : job[w] # None} = {}
  OBVIOUS
<1>3. CountersAgree
  <2>1. Cardinality({w \in Worker : job[w] # None}) = 0
    BY <1>2, FS_EmptySet
  <2> QED
    BY <2>1, PoolAssumption DEF CountersAgree
<1>4. Queued = {} /\ InFlight = {} /\ Slotted = {}
  BY PoolNoneAssumption DEF Queued, InFlight, Slotted
<1>5. EachRequestInOnePlace /\ AnswerInv
  BY <1>4 DEF EachRequestInOnePlace, AnswerInv, UncancelledAnsweredOnce
<1>6. WorkerInv /\ InFlightRegistered /\ NoLostWakeup /\ ClosingInv
  BY DEF WorkerInv, InFlightRegistered, NoLostWakeup, ClosingInv
<1> QED
  BY <1>1, <1>3, <1>5, <1>6 DEF IInv

(* QueueFile: the broadcast is needed only for an empty list, since nobody *)
(* sleeps while it is not.                                                 *)
LEMMA QueueFileInv ==
    ASSUME IInv, NEW r \in Request, QueueFile(r)
    PROVE  IInv'
<1> USE DEF IInv
<1>1. /\ requests \in Seq(Request) /\ r \notin issued /\ ~shutdown
      /\ requests' = <<r>> \o requests /\ issued' = issued \cup {r}
      /\ UNCHANGED <<shutdown, job, worker_requests, fd, is_canceled, file, result,
                     asked, answers, closer>>
  BY DEF QueueFile, TypeOK, pendingVars
<1>2. /\ requests' \in Seq(Request) /\ Len(requests') = Len(requests) + 1
      /\ requests'[1] = r /\ 1 \in DOMAIN requests'
      /\ \A i \in DOMAIN requests : requests'[i + 1] = requests[i] /\ i + 1 \in DOMAIN requests'
      /\ \A i \in DOMAIN requests' : i = 1 \/ (i - 1 \in DOMAIN requests /\ requests'[i] = requests[i - 1])
  BY <1>1, Push
<1>3. /\ pc' \in [Worker -> {"loop", "wait", "stat", "refuse", "read", "finish", "exit"}]
      /\ \A w \in Worker : pc'[w] = pc[w] \/ (pc[w] = "wait" /\ pc'[w] = "loop")
  BY DEF QueueFile, Awake, TypeOK
<1>4. TypeOK'
  <2>1. request_count' \in Nat /\ pending_tasks' \in Nat
    BY DEF QueueFile, TypeOK
  <2>2. stats' \in Stats
    <3>1. stats \in Stats /\ stats' = [stats EXCEPT !.total = @ + 1]
      BY DEF QueueFile, TypeOK
    <3> QED
      BY <3>1 DEF Stats
  <2> QED
    BY <1>1, <1>2, <1>3, <2>1, <2>2 DEF TypeOK
<1>5. CountersAgree'
  <2>1. Cardinality({w \in Worker : job[w] # None}) \in Nat
    BY PoolAssumption, FS_Subset, FS_CardinalityType
  <2>2. /\ request_count' = request_count + 1 /\ pending_tasks' = pending_tasks + 1
        /\ request_count < MaxRequests
    BY DEF QueueFile
  <2>3. /\ stats'.total = stats.total + 1 /\ stats'.completed = stats.completed
        /\ stats'.failed = stats.failed /\ stats'.canceled = stats.canceled
        /\ stats.total \in Nat /\ stats.completed \in Nat /\ stats.failed \in Nat
        /\ stats.canceled \in Nat
    <3>1. stats \in Stats /\ stats' = [stats EXCEPT !.total = @ + 1]
      BY DEF QueueFile, TypeOK
    <3> QED
      BY <3>1 DEF Stats
  <2>4. /\ request_count \in Nat /\ Len(requests) \in Nat /\ pending_tasks \in Nat
        /\ job' = job /\ Len(requests') = Len(requests) + 1
    BY <1>1, <1>2 DEF TypeOK
  <2>5. request_count + 1 <= MaxRequests
    BY <2>2, <2>4, PoolAssumption
  <2>6. /\ request_count = Len(requests)
        /\ pending_tasks = Len(requests) + Cardinality({w \in Worker : job[w] # None})
        /\ stats.total = stats.completed + stats.failed + stats.canceled + pending_tasks
    BY DEF CountersAgree
  <2>7. stats'.total = stats'.completed + stats'.failed + stats'.canceled + pending_tasks'
    BY <2>2, <2>3, <2>4, <2>6
  <2> QED
    BY <2>1, <2>2, <2>4, <2>5, <2>6, <2>7 DEF CountersAgree
<1>6. WorkerInv' /\ InFlightRegistered'
  BY <1>1, <1>3 DEF WorkerInv, InFlightRegistered
<1>7. NoLostWakeup'
  <2>1. CASE requests = <<>>
    BY <2>1 DEF QueueFile, Awake, TypeOK, NoLostWakeup
  <2>2. CASE requests # <<>>
    BY <2>2 DEF QueueFile, NoLostWakeup
  <2> QED
    BY <2>1, <2>2
<1>8. Queued' = Queued \cup {r} /\ InFlight' = InFlight /\ r \notin Queued \cup InFlight
  <2>1. Queued' \subseteq Queued \cup {r}
    BY <1>2 DEF Queued
  <2>2. Queued \cup {r} \subseteq Queued'
    BY <1>2 DEF Queued
  <2> QED
    BY <1>1, <2>1, <2>2 DEF InFlight, EachRequestInOnePlace
<1>9. EachRequestInOnePlace'
  <2>1. \A i, j \in DOMAIN requests' : requests'[i] = requests'[j] => i = j
    <3>1. \A i \in DOMAIN requests : requests[i] # r
      BY <1>8 DEF Queued
    <3> QED
      BY <1>1, <1>2, <3>1 DEF EachRequestInOnePlace
  <2> QED
    BY <1>1, <1>8, <2>1 DEF EachRequestInOnePlace
<1>10. AnswerInv'
  BY <1>1, <1>8 DEF AnswerInv, UncancelledAnsweredOnce, Slotted
<1>11. ClosingInv'
  BY <1>1, <1>3 DEF ClosingInv
<1> QED
  BY <1>1, <1>4, <1>5, <1>6, <1>7, <1>9, <1>10, <1>11

PcType == pc \in [Worker -> {"loop", "wait", "stat", "refuse", "read", "finish", "exit"}]

(* A step that moves no request. *)
LEMMA QuietStep ==
    ASSUME IInv,
           UNCHANGED <<requests, request_count, pending_tasks, stats, job, worker_requests,
                       fd, issued, asked, answers>>,
           PcType', shutdown' \in BOOLEAN, closer' \in {"out", "joining", "joined"},
           is_canceled' \in [Request -> BOOLEAN], result' \in [Worker -> Code \cup {None}],
           file' \in [Fd -> Open \cup {None}],
           WorkerInv', NoLostWakeup', ClosingInv'
    PROVE  IInv'
<1> USE DEF IInv
<1>1. TypeOK'
  BY DEF TypeOK, PcType
<1>2. CountersAgree' /\ InFlightRegistered' /\ EachRequestInOnePlace'
  BY DEF CountersAgree, InFlightRegistered, EachRequestInOnePlace, Queued, InFlight
<1>3. AnswerInv'
  BY DEF AnswerInv, UncancelledAnsweredOnce, Queued, InFlight, Slotted
<1> QED
  BY <1>1, <1>2, <1>3

(* After a broadcast nobody sleeps, and nothing else has moved. *)
LEMMA AwakeFacts ==
    ASSUME TypeOK, pc' = Awake
    PROVE  /\ PcType'
           /\ \A w \in Worker : pc'[w] # "wait"
           /\ \A w \in Worker : pc'[w] = pc[w] \/ (pc[w] = "wait" /\ pc'[w] = "loop")
  BY DEF TypeOK, PcType, Awake

(* GracefullyShutdownFileReaderPool keeps the invariant: it wakes everybody. *)
LEMMA GracefullyShutdownInv == ASSUME IInv, GracefullyShutdown PROVE IInv'
<1>1. /\ UNCHANGED <<requests, request_count, pending_tasks, stats, job, worker_requests,
                     fd, is_canceled, file, result, issued, asked, answers>>
      /\ closer = "out" /\ closer' = "joining" /\ shutdown' = TRUE /\ pc' = Awake
  BY DEF GracefullyShutdown, pendingVars
<1>2. /\ PcType' /\ \A w \in Worker : pc'[w] # "wait"
      /\ \A w \in Worker : pc'[w] = pc[w] \/ (pc[w] = "wait" /\ pc'[w] = "loop")
  BY <1>1, AwakeFacts DEF IInv
<1>3. WorkerInv' /\ NoLostWakeup' /\ ClosingInv'
  BY <1>1, <1>2 DEF IInv, WorkerInv, NoLostWakeup, ClosingInv
<1>4. /\ is_canceled' \in [Request -> BOOLEAN] /\ result' \in [Worker -> Code \cup {None}]
      /\ file' \in [Fd -> Open \cup {None}] /\ shutdown' \in BOOLEAN
      /\ closer' \in {"out", "joining", "joined"}
  BY <1>1 DEF IInv, TypeOK
<1> QED
  BY <1>1, <1>2, <1>3, <1>4, QuietStep

(* The join waits until every worker has left, so none has a request. *)
LEMMA JoinInv == ASSUME IInv, Join PROVE IInv'
<1>1. /\ UNCHANGED <<requests, request_count, pending_tasks, stats, shutdown, pc, job,
                     worker_requests, fd, is_canceled, file, result, issued, asked, answers>>
      /\ closer = "joining" /\ closer' = "joined" /\ \A w \in Worker : pc[w] = "exit"
  BY DEF Join, pendingVars
<1>2. PcType' /\ WorkerInv' /\ NoLostWakeup' /\ ClosingInv'
  BY <1>1 DEF IInv, TypeOK, PcType, WorkerInv, NoLostWakeup, ClosingInv
<1>4. /\ is_canceled' \in [Request -> BOOLEAN] /\ result' \in [Worker -> Code \cup {None}]
      /\ file' \in [Fd -> Open \cup {None}] /\ shutdown' \in BOOLEAN
      /\ closer' \in {"out", "joining", "joined"}
  BY <1>1 DEF IInv, TypeOK
<1> QED
  BY <1>1, <1>2, <1>4, QuietStep

(* The steps of a worker that take or answer no request. *)
LEMMA LocalStepInv ==
    ASSUME IInv, NEW w \in Worker, Idle(w) \/ SpuriousWakeup(w) \/ Stat(w) \/ Read(w)
    PROVE  IInv'
<1> USE DEF IInv
<1>1. /\ UNCHANGED <<requests, request_count, pending_tasks, stats, shutdown, job,
                     worker_requests, fd, is_canceled, issued, asked, answers, closer>>
  BY DEF Idle, SpuriousWakeup, Stat, Read, pendingVars, clientVars
<1>2. PICK at \in {"loop", "wait", "exit", "refuse", "read", "finish"} :
        pc' = [pc EXCEPT ![w] = at]
  BY DEF Idle, SpuriousWakeup, Stat, Read
<1>3. PcType' /\ pc'[w] = at /\ \A v \in Worker : v # w => pc'[v] = pc[v]
  BY <1>2 DEF TypeOK, PcType
<1>4. /\ result' \in [Worker -> Code \cup {None}]
      /\ \A v \in Worker : v # w => result'[v] = result[v]
      /\ at \in {"refuse", "finish"} => result'[w] \in Code
  <2>1. CASE Idle(w) \/ SpuriousWakeup(w)
    BY <1>3, <2>1 DEF Idle, SpuriousWakeup, TypeOK
  <2>2. CASE Stat(w)
    BY <1>3, <2>2 DEF Stat, TypeOK, Code
  <2>3. CASE Read(w)
    BY <1>3, <2>3 DEF Read, TypeOK, Code
  <2> QED
    BY <2>1, <2>2, <2>3
<1>5. file' \in [Fd -> Open \cup {None}]
  <2>1. CASE UNCHANGED file
    BY <2>1 DEF TypeOK
  <2>2. ASSUME NEW f \in Fd, file[f] # None, file' = [file EXCEPT ![f].fresh = FALSE]
        PROVE  file' \in [Fd -> Open \cup {None}]
    <3>1. file \in [Fd -> Open \cup {None}] /\ file[f] \in Open
      BY <2>2 DEF TypeOK
    <3>2. [file[f] EXCEPT !.fresh = FALSE] \in Open
      BY <3>1 DEF Open
    <3> QED
      BY <2>2, <3>1, <3>2
  <2>3. CASE Read(w)
    <3>1. fd[job[w]] \in Fd
      BY <2>3 DEF Read, WorkerInv, InFlightRegistered, TypeOK
    <3> QED
      BY <2>1, <2>2, <2>3, <3>1 DEF Read
  <2> QED
    BY <2>1, <2>3 DEF Idle, SpuriousWakeup, Stat, pendingVars
<1>6. WorkerInv'
  <2>1. job[w] # None <=> at \in {"stat", "refuse", "read", "finish"}
    BY <1>3 DEF WorkerInv, Idle, SpuriousWakeup, Stat, Read, TypeOK
  <2> QED
    BY <1>1, <1>3, <1>4, <2>1 DEF WorkerInv
<1>7. NoLostWakeup' /\ ClosingInv'
  <2>1. at \in {"wait", "exit"} => requests = <<>> /\ (at = "exit" <=> shutdown)
    BY <1>3 DEF CountersAgree, Idle, SpuriousWakeup, Stat, Read, TypeOK
  <2>2. pc[w] # "exit"
    BY DEF Idle, SpuriousWakeup, Stat, Read
  <2> QED
    BY <1>1, <1>3, <2>1, <2>2 DEF NoLostWakeup, ClosingInv
<1>8. is_canceled' \in [Request -> BOOLEAN] /\ shutdown' \in BOOLEAN
      /\ closer' \in {"out", "joining", "joined"}
  BY <1>1 DEF TypeOK
<1> QED
  BY <1>1, <1>3, <1>4, <1>5, <1>6, <1>7, <1>8, QuietStep

(* A step that cancels the requests of R, all of them given out: those in  *)
(* the list are answered, the others have their descriptors closed.        *)
LEMMA CancelStep ==
    ASSUME IInv, NEW R \in SUBSET issued,
           UNCHANGED <<requests, request_count, pending_tasks, stats, job, worker_requests,
                       fd, result, issued>>,
           asked' = asked \cup R,
           answers' \in [Request -> Seq(Code)],
           \A r \in Request : answers'[r] = answers[r] \/ (r \in R /\ answers'[r] # <<>>),
           PcType', shutdown' \in BOOLEAN, closer' \in {"out", "joining", "joined"},
           is_canceled' \in [Request -> BOOLEAN], file' \in [Fd -> Open \cup {None}],
           WorkerInv', NoLostWakeup', ClosingInv'
    PROVE  IInv'
<1> USE DEF IInv
<1>1. TypeOK'
  BY DEF TypeOK, PcType
<1>2. Queued' = Queued /\ InFlight' = InFlight /\ Slotted' = Slotted
  BY DEF Queued, InFlight, Slotted
<1>3. CountersAgree' /\ InFlightRegistered'
  BY DEF CountersAgree, InFlightRegistered
<1>4. EachRequestInOnePlace'
  BY <1>2 DEF EachRequestInOnePlace, TypeOK
<1>5. AnswerInv'
  BY <1>2 DEF AnswerInv, UncancelledAnsweredOnce, TypeOK
<1> QED
  BY <1>1, <1>3, <1>4, <1>5

(* Closing the descriptors of some PendingFiles leaves a table of open files. *)
LEMMA CloseType ==
    ASSUME TypeOK, NEW R \in SUBSET Request, CancelPending(R)
    PROVE  /\ is_canceled' \in [Request -> BOOLEAN]
           /\ file' \in [Fd -> Open \cup {None}] /\ UNCHANGED fd
<1>1. is_canceled' \in [Request -> BOOLEAN] /\ UNCHANGED fd
  BY DEF CancelPending, TypeOK
<1>2. file' \in [Fd -> Open \cup {None}]
  BY DEF CancelPending, TypeOK
<1> QED
  BY <1>1, <1>2

(* CancelFile keeps the invariant, in the list and with a worker. *)
LEMMA CancelFileInv == ASSUME IInv, NEW r \in Request, CancelFile(r) PROVE IInv'
<1> USE DEF IInv
<1>1. /\ UNCHANGED <<requests, request_count, pending_tasks, stats, shutdown, pc, job,
                     worker_requests, result, issued, closer>>
      /\ asked' = asked \cup {r} /\ r \in issued
  BY DEF CancelFile
<1>2. /\ answers' \in [Request -> Seq(Code)] /\ UNCHANGED fd
      /\ is_canceled' \in [Request -> BOOLEAN] /\ file' \in [Fd -> Open \cup {None}]
      /\ \A q \in Request : answers'[q] = answers[q] \/ (q \in {r} /\ answers'[q] # <<>>)
  <2>1. CASE CancelQueued(r)
    <3>1. Append(answers[r], "CANCELED") \in Seq(Code) /\ Append(answers[r], "CANCELED") # <<>>
      <4>1. answers[r] \in Seq(Code) /\ "CANCELED" \in Code
        BY DEF TypeOK, Code
      <4> QED
        BY <4>1, AppendAnswer
    <3> QED
      BY <2>1, <3>1 DEF CancelQueued, Answer, TypeOK, pendingVars
  <2>2. CASE CancelPending({r}) /\ UNCHANGED answers
    <3>1. {r} \in SUBSET Request
      OBVIOUS
    <3> QED
      BY <2>2, <3>1, CloseType DEF TypeOK
  <2> QED
    BY <2>1, <2>2 DEF CancelFile
<1>3. PcType' /\ WorkerInv' /\ NoLostWakeup' /\ ClosingInv'
  BY <1>1 DEF TypeOK, PcType, WorkerInv, NoLostWakeup, ClosingInv
<1>4. shutdown' \in BOOLEAN /\ closer' \in {"out", "joining", "joined"} /\ {r} \in SUBSET issued
  BY <1>1 DEF TypeOK
<1> QED
  BY <1>1, <1>2, <1>3, <1>4, CancelStep

(* ShutdownFileReaderPool keeps the invariant: all it cancels was given out. *)
LEMMA ShutdownInv == ASSUME IInv, Shutdown PROVE IInv'
<1> USE DEF IInv
<1> DEFINE R == Queued \cup Slotted
<1>1. /\ UNCHANGED <<requests, request_count, pending_tasks, stats, job, worker_requests,
                     result, issued>>
      /\ closer = "out" /\ closer' = "joining" /\ shutdown' = TRUE /\ pc' = Awake
      /\ asked' = asked \cup R
  BY DEF Shutdown
<1>2. R \in SUBSET issued /\ Slotted \in SUBSET Request
  BY DEF AnswerInv, EachRequestInOnePlace, Slotted
<1>3. /\ is_canceled' \in [Request -> BOOLEAN] /\ file' \in [Fd -> Open \cup {None}]
      /\ UNCHANGED fd
  BY <1>2, CloseType DEF Shutdown
<1>4. answers' = [r \in Request |->
                    IF r \in Queued THEN Append(answers[r], "CANCELED") ELSE answers[r]]
  BY DEF Shutdown
<1>5. \A r \in Request : /\ Append(answers[r], "CANCELED") \in Seq(Code)
                         /\ Append(answers[r], "CANCELED") # <<>>
  <2>1. (\A r \in Request : answers[r] \in Seq(Code)) /\ "CANCELED" \in Code
    BY DEF TypeOK, Code
  <2> QED
    BY <2>1, AppendAnswer
<1>6. answers' \in [Request -> Seq(Code)]
  BY <1>4, <1>5 DEF TypeOK
<1>7. \A r \in Request : answers'[r] = answers[r] \/ (r \in R /\ answers'[r] # <<>>)
  BY <1>4, <1>5
<1>8. /\ PcType' /\ \A w \in Worker : pc'[w] # "wait"
      /\ \A w \in Worker : pc'[w] = pc[w] \/ (pc[w] = "wait" /\ pc'[w] = "loop")
  BY <1>1, AwakeFacts
<1>9. WorkerInv' /\ NoLostWakeup' /\ ClosingInv'
  BY <1>1, <1>8 DEF WorkerInv, NoLostWakeup, ClosingInv
<1>10. shutdown' \in BOOLEAN /\ closer' \in {"out", "joining", "joined"}
  BY <1>1
<1> HIDE DEF R
<1> QED
  BY <1>1, <1>2, <1>3, <1>6, <1>7, <1>8, <1>9, <1>10, CancelStep

----------------------------------------------------------------------------
(* What taking the head leaves. *)
LEMMA PopQueued ==
    ASSUME IInv, requests # <<>>, requests' = Tail(requests)
    PROVE  /\ requests \in Seq(Request) /\ requests' \in Seq(Request)
           /\ Len(requests') = Len(requests) - 1 /\ Len(requests') \in Nat
           /\ Head(requests) \in Request /\ Head(requests) \in Queued
           /\ Queued' = Queued \ {Head(requests)}
           /\ \A i, j \in DOMAIN requests' : requests'[i] = requests'[j] => i = j
<1>1. /\ requests \in Seq(Request)
      /\ \A i, j \in DOMAIN requests : requests[i] = requests[j] => i = j
  BY DEF IInv, TypeOK, EachRequestInOnePlace
<1>2. /\ requests' \in Seq(Request) /\ Len(requests') = Len(requests) - 1
      /\ Head(requests) = requests[1] /\ 1 \in DOMAIN requests /\ Head(requests) \in Request
      /\ \A i \in DOMAIN requests' : requests'[i] = requests[i + 1] /\ i + 1 \in DOMAIN requests
      /\ \A i \in DOMAIN requests : i = 1 \/ i - 1 \in DOMAIN requests'
  BY <1>1, Pop
<1>3. \A i \in DOMAIN requests' : i \in Nat /\ i + 1 # 1
  BY <1>2
<1>4. Queued' \subseteq Queued \ {Head(requests)}
  BY <1>1, <1>2, <1>3 DEF Queued
<1>5. ASSUME NEW i \in DOMAIN requests, requests[i] # Head(requests)
      PROVE  requests[i] \in Queued'
  <2>1. i \in Nat /\ i # 1 /\ i - 1 \in DOMAIN requests'
    BY <1>1, <1>2, <1>5
  <2>2. requests'[i - 1] = requests[i]
    BY <1>2, <2>1
  <2> QED
    BY <2>1, <2>2 DEF Queued
<1>6. Queued' = Queued \ {Head(requests)}
  BY <1>4, <1>5 DEF Queued
<1>7. \A i, j \in DOMAIN requests' : requests'[i] = requests'[j] => i = j
  BY <1>1, <1>2, <1>3
<1> QED
  BY <1>1, <1>2, <1>6, <1>7 DEF Queued

(* Extract, when the open succeeds: the head goes from the list to the      *)
(* worker and its slot.                                                    *)
LEMMA TakeInv ==
    ASSUME IInv, NEW w \in Worker, NEW f \in Fd, NEW r \in Request,
           pc[w] = "loop", requests # <<>>, r = Head(requests),
           requests' = Tail(requests), request_count' = request_count - 1,
           file' = [file EXCEPT ![f] = [of |-> r, fresh |-> TRUE]],
           fd' = [fd EXCEPT ![r] = f],
           is_canceled' = [is_canceled EXCEPT ![r] = FALSE],
           job' = [job EXCEPT ![w] = r],
           worker_requests' = [worker_requests EXCEPT ![w] = r],
           pc' = [pc EXCEPT ![w] = "stat"],
           UNCHANGED <<pending_tasks, stats, answers, shutdown, result, issued, asked, closer>>
    PROVE  IInv'
<1> USE DEF IInv
<1>1. /\ requests' \in Seq(Request) /\ Len(requests') = Len(requests) - 1
      /\ Len(requests') \in Nat /\ r \in Queued /\ Queued' = Queued \ {r}
      /\ \A i, j \in DOMAIN requests' : requests'[i] = requests'[j] => i = j
  BY PopQueued
<1>2. /\ job'[w] = r /\ \A v \in Worker : v # w => job'[v] = job[v]
      /\ worker_requests'[w] = r
      /\ \A v \in Worker : v # w => worker_requests'[v] = worker_requests[v]
      /\ pc'[w] = "stat" /\ \A v \in Worker : v # w => pc'[v] = pc[v]
      /\ fd'[r] = f /\ \A q \in Request : q # r => fd'[q] = fd[q]
      /\ job[w] = None /\ r # None /\ f # None
  BY PoolNoneAssumption DEF TypeOK, WorkerInv
<1>3. TypeOK'
  <2>1. [of |-> r, fresh |-> TRUE] \in Open
    BY DEF Open
  <2>2. file' \in [Fd -> Open \cup {None}]
    BY <2>1 DEF TypeOK
  <2>3. request_count' \in Nat
    BY <1>1 DEF CountersAgree
  <2>4. /\ fd' \in [Request -> Fd \cup {None}] /\ is_canceled' \in [Request -> BOOLEAN]
        /\ job' \in [Worker -> Request \cup {None}]
        /\ worker_requests' \in [Worker -> Request \cup {None}]
    BY DEF TypeOK
  <2>5. PcType'
    <3>1. PcType
      BY DEF TypeOK, PcType
    <3> QED
      BY <3>1, pc' = [pc EXCEPT ![w] = "stat"] DEF PcType
  <2> QED
    BY <1>1, <2>2, <2>3, <2>4, <2>5 DEF TypeOK, PcType
<1>4. CountersAgree'
  <2>1. /\ Cardinality(Busy) \in Nat /\ Cardinality(Busy') = Cardinality(Busy) + 1
    BY <1>2, BusyCount
  <2>2. /\ request_count = Len(requests) /\ request_count <= MaxRequests
        /\ pending_tasks = Len(requests) + Cardinality(Busy)
        /\ stats.total = stats.completed + stats.failed + stats.canceled + pending_tasks
    BY DEF CountersAgree, Busy
  <2>3. Len(requests) \in Nat
    BY DEF TypeOK
  <2>4. /\ request_count' = Len(requests') /\ request_count' <= MaxRequests
        /\ pending_tasks' = Len(requests') + Cardinality(Busy')
    <3>1. pending_tasks' = pending_tasks /\ request_count' = request_count - 1
      OBVIOUS
    <3>2. pending_tasks' = Len(requests') + Cardinality(Busy')
      BY <1>1, <2>1, <2>2, <2>3, <3>1
    <3> QED
      BY <1>1, <2>2, <2>3, <3>1, <3>2, PoolAssumption
  <2> QED
    BY <2>2, <2>4 DEF CountersAgree, Busy
<1>5. InFlight' = InFlight \cup {r} /\ r \notin InFlight /\ r \in issued
  <2>1. r \notin InFlight /\ r \in issued
    BY <1>1 DEF EachRequestInOnePlace
  <2>2. InFlight' \subseteq InFlight \cup {r}
    BY <1>2 DEF InFlight
  <2>3. InFlight \cup {r} \subseteq InFlight'
    BY <1>2, PoolNoneAssumption DEF InFlight
  <2> QED
    BY <2>1, <2>2, <2>3
<1>6. EachRequestInOnePlace'
  <2>1. Queued' \cup InFlight' = Queued \cup InFlight /\ Queued' \cap InFlight' = {}
    BY <1>1, <1>5 DEF EachRequestInOnePlace
  <2>2. \A v, u \in Worker : job'[v] = job'[u] /\ job'[v] # None => v = u
    BY <1>2, <1>5 DEF EachRequestInOnePlace, InFlight
  <2> QED
    BY <1>1, <2>1, <2>2 DEF EachRequestInOnePlace
<1>7. AnswerInv'
  <2>1. Slotted' \subseteq Slotted \cup {r}
    BY <1>2 DEF Slotted
  <2>2. Queued' \cup InFlight' = Queued \cup InFlight
    BY <1>1, <1>5
  <2> QED
    BY <1>5, <2>1, <2>2 DEF AnswerInv, UncancelledAnsweredOnce
<1>8. InFlightRegistered'
  <2>1. \A v \in Worker : v # w => job[v] # r
    BY <1>5 DEF InFlight
  <2> QED
    BY <1>2, <2>1 DEF InFlightRegistered, TypeOK
<1>9. WorkerInv' /\ NoLostWakeup' /\ ClosingInv'
  BY <1>2 DEF WorkerInv, NoLostWakeup, ClosingInv
<1> QED
  BY <1>3, <1>4, <1>6, <1>7, <1>8, <1>9

(* A worker that settles a request counts it once as completed, failed or   *)
(* cancelled.                                                              *)
LEMMA SettleStats ==
    ASSUME stats \in Stats, pending_tasks \in Nat, pending_tasks' = pending_tasks - 1,
           stats.total = stats.completed + stats.failed + stats.canceled + pending_tasks,
           \/ stats' = [stats EXCEPT !.completed = @ + 1]
           \/ stats' = [stats EXCEPT !.failed = @ + 1]
           \/ stats' = [stats EXCEPT !.canceled = @ + 1]
    PROVE  /\ stats' \in Stats
           /\ stats'.total = stats'.completed + stats'.failed + stats'.canceled + pending_tasks'
<1>1. CASE stats' = [stats EXCEPT !.completed = @ + 1]
  BY <1>1 DEF Stats
<1>2. CASE stats' = [stats EXCEPT !.failed = @ + 1]
  BY <1>2 DEF Stats
<1>3. CASE stats' = [stats EXCEPT !.canceled = @ + 1]
  BY <1>3 DEF Stats
<1> QED
  BY <1>1, <1>2, <1>3

(* Extract, when the open fails: the head is answered at once. *)
LEMMA OpenFailsInv ==
    ASSUME IInv, NEW w \in Worker, NEW r \in Request,
           pc[w] = "loop", requests # <<>>, r = Head(requests),
           requests' = Tail(requests), request_count' = request_count - 1,
           Answer(r, "FILE_NOT_FOUND"), stats' = [stats EXCEPT !.failed = @ + 1],
           pending_tasks' = pending_tasks - 1,
           UNCHANGED <<pc, job, worker_requests, fd, is_canceled, file, shutdown, result,
                       issued, asked, closer>>
    PROVE  IInv'
<1> USE DEF IInv
<1>1. /\ requests' \in Seq(Request) /\ Len(requests') = Len(requests) - 1
      /\ Len(requests') \in Nat /\ r \in Queued /\ Queued' = Queued \ {r}
      /\ \A i, j \in DOMAIN requests' : requests'[i] = requests'[j] => i = j
  BY PopQueued
<1>2. r \in issued /\ r \notin InFlight /\ InFlight' = InFlight /\ Slotted' = Slotted
  BY <1>1 DEF EachRequestInOnePlace, InFlight, Slotted
<1>3. /\ answers' \in [Request -> Seq(Code)] /\ answers'[r] # <<>>
      /\ Len(answers[r]) \in Nat /\ Len(answers'[r]) = Len(answers[r]) + 1
      /\ \A q \in Request : q # r => answers'[q] = answers[q]
  <2>1. answers \in [Request -> Seq(Code)] /\ answers[r] \in Seq(Code) /\ "FILE_NOT_FOUND" \in Code
    BY DEF TypeOK, Code
  <2>2. /\ Append(answers[r], "FILE_NOT_FOUND") \in Seq(Code)
        /\ Append(answers[r], "FILE_NOT_FOUND") # <<>>
        /\ Len(answers[r]) \in Nat
        /\ Len(Append(answers[r], "FILE_NOT_FOUND")) = Len(answers[r]) + 1
    BY <2>1, AppendAnswer
  <2>3. answers' = [answers EXCEPT ![r] = Append(answers[r], "FILE_NOT_FOUND")]
    BY DEF Answer
  <2> QED
    BY <2>1, <2>2, <2>3
<1>4. /\ Cardinality(Busy) \in Nat /\ Busy' = Busy
      /\ pending_tasks = Len(requests) + Cardinality(Busy)
      /\ Len(requests) \in Nat /\ request_count = Len(requests) /\ request_count <= MaxRequests
      /\ stats.total = stats.completed + stats.failed + stats.canceled + pending_tasks
  <2>1. Cardinality(Busy) \in Nat
    BY PoolAssumption, FS_Subset, FS_CardinalityType DEF Busy
  <2> QED
    BY <2>1 DEF CountersAgree, Busy, TypeOK
<1>5. pending_tasks' \in Nat /\ request_count' \in Nat
  BY <1>1, <1>4
<1>6. /\ stats' \in Stats
      /\ stats'.total = stats'.completed + stats'.failed + stats'.canceled + pending_tasks'
  BY <1>4, SettleStats DEF TypeOK
<1>7. TypeOK'
  BY <1>1, <1>3, <1>5, <1>6 DEF TypeOK
<1>8. CountersAgree'
  <2>1. /\ request_count' = Len(requests') /\ request_count' <= MaxRequests
        /\ pending_tasks' = Len(requests') + Cardinality(Busy')
    BY <1>1, <1>4, PoolAssumption
  <2> QED
    BY <1>6, <2>1 DEF CountersAgree, Busy
<1>9. EachRequestInOnePlace'
  BY <1>1, <1>2, <1>3 DEF EachRequestInOnePlace, TypeOK
<1>10. AnswerInv'
  BY <1>1, <1>2, <1>3 DEF AnswerInv, UncancelledAnsweredOnce, TypeOK
<1>11. InFlightRegistered' /\ WorkerInv'
  BY DEF InFlightRegistered, WorkerInv
<1>12. NoLostWakeup' /\ ClosingInv'
  BY DEF NoLostWakeup, ClosingInv
<1>13. \A q \in Request \ issued' : answers'[q] = <<>>
  BY <1>2, <1>3
<1> QED
  BY <1>7, <1>8, <1>9, <1>10, <1>11, <1>12, <1>13

(* The end of a request, read or refused: it leaves the worker answered and *)
(* counted; the slot may keep pointing at it.                               *)
LEMMA AnswerInvStep ==
    ASSUME IInv, NEW w \in Worker, NEW code \in Code,
           pc[w] \in {"refuse", "finish"}, Answer(job[w], code),
           \/ stats' = [stats EXCEPT !.completed = @ + 1]
           \/ stats' = [stats EXCEPT !.failed = @ + 1]
           \/ stats' = [stats EXCEPT !.canceled = @ + 1],
           pending_tasks' = pending_tasks - 1,
           worker_requests' \in {worker_requests, [worker_requests EXCEPT ![w] = None]},
           job' = [job EXCEPT ![w] = None], result' = [result EXCEPT ![w] = None],
           pc' = [pc EXCEPT ![w] = "loop"],
           UNCHANGED <<requests, request_count, fd, is_canceled, file, shutdown,
                       issued, asked, closer>>
    PROVE  IInv'
<1> USE DEF IInv
<1> DEFINE r == job[w]
<1>1. /\ r \in Request /\ r # None /\ r \in InFlight /\ r \in issued /\ r \notin Queued
  <2>1. r \in Request /\ r # None
    BY PoolNoneAssumption DEF WorkerInv, TypeOK
  <2>2. r \in InFlight
    BY <2>1 DEF InFlight
  <2> QED
    BY <2>1, <2>2 DEF EachRequestInOnePlace
<1>2. /\ job'[w] = None /\ \A v \in Worker : v # w => job'[v] = job[v]
      /\ \A v \in Worker : v # w => worker_requests'[v] = worker_requests[v]
      /\ pc'[w] = "loop" /\ \A v \in Worker : v # w => pc'[v] = pc[v]
      /\ \A v \in Worker : v # w => result'[v] = result[v]
  BY DEF TypeOK
<1>3. InFlight' = InFlight \ {r}
  <2>1. ASSUME NEW v \in Worker, job[v] = r PROVE v = w
    BY <1>1, <2>1 DEF EachRequestInOnePlace
  <2>2. InFlight' \subseteq InFlight \ {r}
    BY <1>2, <2>1, PoolNoneAssumption DEF InFlight
  <2>3. InFlight \ {r} \subseteq InFlight'
    BY <1>2 DEF InFlight
  <2> QED
    BY <2>2, <2>3
<1>4. /\ answers' \in [Request -> Seq(Code)] /\ answers'[r] # <<>>
      /\ Len(answers[r]) \in Nat /\ Len(answers'[r]) = Len(answers[r]) + 1
      /\ \A q \in Request : q # r => answers'[q] = answers[q]
  <2>1. answers \in [Request -> Seq(Code)] /\ answers[r] \in Seq(Code)
    BY <1>1 DEF TypeOK
  <2>2. /\ Append(answers[r], code) \in Seq(Code) /\ Append(answers[r], code) # <<>>
        /\ Len(answers[r]) \in Nat /\ Len(Append(answers[r], code)) = Len(answers[r]) + 1
    BY <2>1, AppendAnswer
  <2>3. answers' = [answers EXCEPT ![r] = Append(answers[r], code)]
    BY DEF Answer
  <2> QED
    BY <1>1, <2>1, <2>2, <2>3
<1>5. /\ Cardinality(Busy) \in Nat /\ Cardinality(Busy') = Cardinality(Busy) - 1
      /\ pending_tasks = Len(requests) + Cardinality(Busy)
      /\ Len(requests) \in Nat /\ Cardinality(Busy') \in Nat
  <2>1. Cardinality(Busy) \in Nat /\ Cardinality(Busy') = Cardinality(Busy) - 1
    BY <1>1, BusyCount
  <2>2. IsFiniteSet(Busy') /\ Cardinality(Busy') \in Nat
    BY PoolAssumption, FS_Subset, FS_CardinalityType DEF Busy
  <2> QED
    BY <2>1, <2>2 DEF CountersAgree, Busy, TypeOK
<1>6. pending_tasks' = Len(requests) + Cardinality(Busy') /\ pending_tasks' \in Nat
  BY <1>5
<1>7. /\ stats' \in Stats
      /\ stats'.total = stats'.completed + stats'.failed + stats'.canceled + pending_tasks'
  BY SettleStats DEF TypeOK, CountersAgree
<1>8. TypeOK'
  <2>1. PcType'
    <3>1. PcType
      BY DEF TypeOK, PcType
    <3> QED
      BY <3>1, pc' = [pc EXCEPT ![w] = "loop"] DEF PcType
  <2>2. /\ job' \in [Worker -> Request \cup {None}] /\ result' \in [Worker -> Code \cup {None}]
        /\ worker_requests' \in [Worker -> Request \cup {None}]
    BY DEF TypeOK
  <2> QED
    BY <1>4, <1>6, <1>7, <2>1, <2>2 DEF TypeOK, PcType
<1>9. CountersAgree'
  BY <1>6, <1>7 DEF CountersAgree, Busy
<1>10. EachRequestInOnePlace'
  <2>1. Queued' = Queued
    BY DEF Queued
  <2>2. \A v, u \in Worker : job'[v] = job'[u] /\ job'[v] # None => v = u
    BY <1>2 DEF EachRequestInOnePlace
  <2>3. /\ Queued' \cup InFlight' \subseteq issued' /\ Queued' \cap InFlight' = {}
        /\ \A q \in issued' \ (Queued' \cup InFlight') : answers'[q] # <<>>
    BY <1>3, <1>4, <2>1 DEF EachRequestInOnePlace, TypeOK
  <2> QED
    BY <2>2, <2>3 DEF EachRequestInOnePlace
<1>11. AnswerInv'
  <2>1. Slotted' \subseteq Slotted
    <3>1. \A v \in Worker : worker_requests'[v] \in {worker_requests[v], None}
      BY DEF TypeOK
    <3> QED
      BY <3>1, PoolNoneAssumption DEF Slotted
  <2>2. Queued' = Queued
    BY DEF Queued
  <2> QED
    BY <1>1, <1>3, <1>4, <2>1, <2>2 DEF AnswerInv, UncancelledAnsweredOnce, TypeOK
<1>12. InFlightRegistered' /\ WorkerInv'
  BY <1>2 DEF InFlightRegistered, WorkerInv
<1>13. NoLostWakeup' /\ ClosingInv'
  BY <1>2 DEF NoLostWakeup, ClosingInv
<1>14. \A q \in Request \ issued' : answers'[q] = <<>>
  BY <1>1, <1>4
<1> QED
  BY <1>8, <1>9, <1>10, <1>11, <1>12, <1>13, <1>14

(* Extract keeps the invariant, whether the file opens or not. *)
LEMMA ExtractInv == ASSUME IInv, NEW w \in Worker, Extract(w) PROVE IInv'
<1>1. requests # <<>> /\ requests' = Tail(requests)
  BY DEF Extract
<1>2. Head(requests) \in Request
  BY <1>1, PopQueued
<1> DEFINE r == Head(requests)
<1>3. /\ pc[w] = "loop" /\ request_count' = request_count - 1
      /\ UNCHANGED <<shutdown, result, issued, asked, closer>>
  BY DEF Extract, clientVars
<1>4. CASE \E f \in Fd :
        /\ file[f] = None
        /\ file' = [file EXCEPT ![f] = [of |-> r, fresh |-> TRUE]]
        /\ fd' = [fd EXCEPT ![r] = f]
        /\ is_canceled' = [is_canceled EXCEPT ![r] = FALSE]
        /\ job' = [job EXCEPT ![w] = r]
        /\ worker_requests' = [worker_requests EXCEPT ![w] = r]
        /\ pc' = [pc EXCEPT ![w] = "stat"]
        /\ UNCHANGED <<pending_tasks, stats, answers>>
  BY <1>1, <1>2, <1>3, <1>4, TakeInv
<1>5. CASE /\ Answer(r, "FILE_NOT_FOUND")
           /\ stats' = [stats EXCEPT !.failed = @ + 1]
           /\ pending_tasks' = pending_tasks - 1
           /\ UNCHANGED <<pc, job, worker_requests, pendingVars>>
  BY <1>1, <1>2, <1>3, <1>5, OpenFailsInv DEF pendingVars
<1> QED
  BY <1>4, <1>5 DEF Extract

(* The error paths after fstat settle the request. *)
LEMMA RefuseInv == ASSUME IInv, NEW w \in Worker, Refuse(w) PROVE IInv'
<1>1. result[w] \in Code
  BY DEF IInv, WorkerInv, Refuse
<1> QED
  BY <1>1, AnswerInvStep DEF Refuse, pendingVars, clientVars

(* The locked end of a read settles the request, whatever its code. *)
LEMMA FinishInv == ASSUME IInv, NEW w \in Worker, Finish(w) PROVE IInv'
<1> DEFINE code == IF is_canceled[job[w]] /\ result[w] # "READING_FILE"
                     THEN "CANCELED" ELSE result[w]
<1>1. code \in Code
  BY DEF IInv, WorkerInv, Finish, Code
<1>2. /\ pc[w] = "finish" /\ Answer(job[w], code)
      /\ pending_tasks' = pending_tasks - 1
      /\ worker_requests' = [worker_requests EXCEPT ![w] = None]
      /\ job' = [job EXCEPT ![w] = None] /\ result' = [result EXCEPT ![w] = None]
      /\ pc' = [pc EXCEPT ![w] = "loop"]
      /\ UNCHANGED <<requests, request_count, fd, is_canceled, file, shutdown,
                     issued, asked, closer>>
  BY DEF Finish, pendingVars, clientVars
<1>3. \/ stats' = [stats EXCEPT !.completed = @ + 1]
      \/ stats' = [stats EXCEPT !.failed = @ + 1]
      \/ stats' = [stats EXCEPT !.canceled = @ + 1]
  <2>1. stats' = CASE code = "CANCELED" -> [stats EXCEPT !.canceled = @ + 1]
                   [] code = "READING_FILE" -> [stats EXCEPT !.failed = @ + 1]
                   [] OTHER -> [stats EXCEPT !.completed = @ + 1]
    BY DEF Finish
  <2> QED
    BY <2>1
<1> HIDE DEF code
<1> QED
  BY <1>1, <1>2, <1>3, AnswerInvStep

(* Every step keeps the inductive invariant. *)
LEMMA NextInv == ASSUME IInv, [Next]_vars PROVE IInv'
<1>1. ASSUME NEW r \in Request, QueueFile(r) PROVE IInv'
  BY <1>1, QueueFileInv
<1>2. ASSUME NEW r \in Request, CancelFile(r) PROVE IInv'
  BY <1>2, CancelFileInv
<1>3. CASE GracefullyShutdown \/ Shutdown \/ Join
  BY <1>3, GracefullyShutdownInv, ShutdownInv, JoinInv
<1>4. ASSUME NEW w \in Worker, Idle(w) \/ SpuriousWakeup(w) \/ Stat(w) \/ Read(w) PROVE IInv'
  BY <1>4, LocalStepInv
<1>5. ASSUME NEW w \in Worker, Extract(w) \/ Refuse(w) \/ Finish(w) PROVE IInv'
  BY <1>5, ExtractInv, RefuseInv, FinishInv
<1>6. CASE UNCHANGED vars
  <2>1. UNCHANGED <<requests, request_count, pending_tasks, stats, shutdown, pc, job,
                    worker_requests, fd, is_canceled, result, file, issued, asked, answers, closer>>
    BY <1>6 DEF vars
  <2>2. PcType' /\ WorkerInv' /\ NoLostWakeup' /\ ClosingInv'
    BY <2>1 DEF IInv, TypeOK, PcType, WorkerInv, NoLostWakeup, ClosingInv
  <2>3. /\ is_canceled' \in [Request -> BOOLEAN] /\ result' \in [Worker -> Code \cup {None}]
        /\ file' \in [Fd -> Open \cup {None}] /\ shutdown' \in BOOLEAN
        /\ closer' \in {"out", "joining", "joined"}
    BY <2>1 DEF IInv, TypeOK
  <2> QED
    BY <2>1, <2>2, <2>3, QuietStep
<1> QED
  BY <1>1, <1>2, <1>3, <1>4, <1>5, <1>6 DEF Next, Work

----------------------------------------------------------------------------
(* The inductive invariant holds in every reachable state. *)
THEOREM Invariance == Spec => []IInv
<1>1. Init => IInv
  BY InitInv
<1>2. IInv /\ [Next]_vars => IInv'
  BY NextInv
<1> QED
  BY <1>1, <1>2, PTL DEF Spec

(* Every variable of the pool keeps its type. *)
THEOREM TypeCorrect == Spec => []TypeOK
<1>1. IInv => TypeOK
  BY DEF IInv
<1> QED
  BY <1>1, Invariance, PTL

(* The counters of the pool and of GetReaderPoolStats agree with the list   *)
(* and the workers.                                                        *)
THEOREM CountersCorrect == Spec => []CountersAgree
<1>1. IInv => CountersAgree
  BY DEF IInv
<1> QED
  BY <1>1, Invariance, PTL

(* No worker sleeps on not_empty while there is a request or a shutdown,    *)
(* although QueueFile broadcasts only when the list was empty.             *)
THEOREM NoWorkerSleeps == Spec => []NoLostWakeup
<1>1. IInv => NoLostWakeup
  BY DEF IInv
<1> QED
  BY <1>1, Invariance, PTL

(* No request is lost or taken twice. *)
THEOREM NothingLost == Spec => []EachRequestInOnePlace
<1>1. IInv => EachRequestInOnePlace
  BY DEF IInv
<1> QED
  BY <1>1, Invariance, PTL

(* No request that nobody cancelled is answered twice, a shutdown that finds *)
(* it open with a worker included.                                         *)
THEOREM AnsweredOnce == Spec => []UncancelledAnsweredOnce
<1>1. IInv => UncancelledAnsweredOnce
  BY DEF IInv, AnswerInv
<1> QED
  BY <1>1, Invariance, PTL

(* A cancel or a shutdown finds every request a worker has open. *)
THEOREM OpenFilesRegistered == Spec => []InFlightRegistered
<1>1. IInv => InFlightRegistered
  BY DEF IInv
<1> QED
  BY <1>1, Invariance, PTL

(* When the workers are joined every accepted request has been answered: a  *)
(* worker leaves only from an empty list, and nothing is queued after that. *)
THEOREM DrainedWhenJoined == Spec => []JoinedMeansAnswered
<1>1. IInv => JoinedMeansAnswered
  <2> SUFFICES ASSUME IInv, closer = "joined"
               PROVE  requests = <<>> /\ \A r \in issued : answers[r] # <<>>
    BY DEF JoinedMeansAnswered
  <2>1. \A w \in Worker : pc[w] = "exit"
    BY DEF IInv, ClosingInv
  <2>2. requests = <<>>
    BY <2>1, PoolAssumption DEF IInv, ClosingInv
  <2>3. Queued = {}
    BY <2>2 DEF Queued
  <2>4. InFlight = {}
    BY <2>1, PoolNoneAssumption DEF IInv, WorkerInv, InFlight
  <2> QED
    BY <2>2, <2>3, <2>4 DEF IInv, EachRequestInOnePlace
<1> QED
  BY <1>1, Invariance, PTL

----------------------------------------------------------------------------
(* The way to the joins. *)
LEMMA AheadFinite ==
    ASSUME TypeOK
    PROVE  /\ IsFiniteSet(Ahead) /\ Cardinality(Ahead) \in Nat
           /\ Len(requests) \in Nat /\ StepsToDo \in Nat
<1>1. IsFiniteSet(1 .. 4)
  <2>1. 1 \in Int /\ 4 \in Int
    OBVIOUS
  <2> QED
    BY <2>1, FS_Interval
<1>2. IsFiniteSet(Worker \X (1 .. 4))
  BY <1>1, FS_Product, PoolAssumption
<1>3. IsFiniteSet(Ahead)
  BY <1>2, FS_Subset DEF Ahead
<1> QED
  BY <1>3, FS_CardinalityType DEF TypeOK, StepsToDo

LEMMA OneMore ==
    ASSUME NEW S, IsFiniteSet(S), Cardinality(S) \in Nat, NEW x
    PROVE  /\ IsFiniteSet(S \cup {x}) /\ Cardinality(S \cup {x}) \in Nat
           /\ Cardinality(S \cup {x}) <= Cardinality(S) + 1
<1>1. Cardinality(S \cup {x}) = IF x \in S THEN Cardinality(S) ELSE Cardinality(S) + 1
  BY FS_AddElement
<1> QED
  BY <1>1, FS_AddElement

(* A worker that goes on to a place with fewer steps left. *)
LEMMA FewerAhead ==
    ASSUME TypeOK, NEW w \in Worker,
           NEW p \in {"loop", "read", "refuse", "finish", "exit"},
           pc' = [pc EXCEPT ![w] = p], StepsOf(p) < StepsOf(pc[w]), UNCHANGED requests
    PROVE  StepsToDo' < StepsToDo
<1>0. StepsOf(p) \in 0 .. 4 /\ StepsOf(pc[w]) \in 0 .. 4
  BY DEF StepsOf
<1>1. IsFiniteSet(Ahead) /\ Cardinality(Ahead) \in Nat /\ Len(requests) \in Nat
  BY AheadFinite
<1>2. \A v \in Worker : pc'[v] = IF v = w THEN p ELSE pc[v]
  BY DEF TypeOK
<1> DEFINE x == <<w, StepsOf(pc[w])>>
<1>3. x \in Ahead /\ x \notin Ahead'
  BY <1>0, <1>2 DEF Ahead
<1>4. Ahead' \subseteq Ahead
  <2> SUFFICES ASSUME NEW v \in Worker, NEW i \in 1 .. 4, i <= StepsOf(pc'[v])
               PROVE  i <= StepsOf(pc[v])
    BY DEF Ahead
  <2>1. CASE v = w
    BY <1>0, <1>2, <2>1
  <2>2. CASE v # w
    BY <1>2, <2>2
  <2> QED
    BY <2>1, <2>2
<1>5. Ahead' \in SUBSET Ahead /\ Ahead' # Ahead
  BY <1>3, <1>4
<1> HIDE DEF x
<1>6. Cardinality(Ahead') <= Cardinality(Ahead) /\ Cardinality(Ahead') # Cardinality(Ahead)
      /\ Cardinality(Ahead') \in Nat
  BY <1>1, <1>5, FS_Subset, FS_CardinalityType
<1> QED
  BY <1>1, <1>6 DEF StepsToDo

(* A worker that takes a request has three steps more, and the list four less. *)
LEMMA FewerListed ==
    ASSUME TypeOK, NEW w \in Worker, requests # <<>>, requests' = Tail(requests), pc[w] = "loop",
           pc' = pc \/ pc' = [pc EXCEPT ![w] = "stat"]
    PROVE  StepsToDo' < StepsToDo
<1>1. IsFiniteSet(Ahead) /\ Cardinality(Ahead) \in Nat /\ Len(requests) \in Nat
  BY AheadFinite
<1>2. Len(requests') = Len(requests) - 1
  BY Pop DEF TypeOK
<1>3. CASE pc' = pc
  <2>1. Ahead' = Ahead
    BY <1>3 DEF Ahead
  <2> QED
    BY <1>1, <1>2, <2>1 DEF StepsToDo
<1>4. CASE pc' = [pc EXCEPT ![w] = "stat"]
  <2>1. \A v \in Worker : pc'[v] = IF v = w THEN "stat" ELSE pc[v]
    BY <1>4 DEF TypeOK
  <2>2. StepsOf("stat") = 4 /\ StepsOf("loop") = 1
    BY DEF StepsOf
  <2> DEFINE two == Ahead \cup {<<w, 2>>}
             three == two \cup {<<w, 3>>}
             four == three \cup {<<w, 4>>}
  <2>3. Ahead' = four
    <3>1. ASSUME NEW v \in Worker, NEW i \in 1 .. 4
          PROVE  i <= StepsOf(pc'[v]) <=> i <= StepsOf(pc[v]) \/ (v = w /\ i \in {2, 3, 4})
      <4>1. CASE v = w
        BY <2>1, <2>2, <4>1
      <4>2. CASE v # w
        BY <2>1, <4>2
      <4> QED
        BY <4>1, <4>2
    <3> QED
      BY <3>1 DEF Ahead
  <2>4. IsFiniteSet(two) /\ Cardinality(two) \in Nat /\ Cardinality(two) <= Cardinality(Ahead) + 1
    BY <1>1, OneMore
  <2> HIDE DEF two
  <2>5. /\ IsFiniteSet(three) /\ Cardinality(three) \in Nat
        /\ Cardinality(three) <= Cardinality(two) + 1
    BY <2>4, OneMore
  <2> HIDE DEF three
  <2>6. Cardinality(four) \in Nat /\ Cardinality(four) <= Cardinality(three) + 1
    BY <2>5, OneMore
  <2> HIDE DEF four
  <2> QED
    BY <1>1, <1>2, <2>3, <2>4, <2>5, <2>6 DEF StepsToDo
<1> QED
  BY <1>3, <1>4

LEMMA WorkAdvances ==
    ASSUME IInv, NEW w \in Worker, Work(w), shutdown
    PROVE  StepsToDo' < StepsToDo
<1>1. TypeOK
  BY DEF IInv
<1>2. CASE Idle(w)
  <2>1. pc[w] = "loop" /\ pc' = [pc EXCEPT ![w] = "exit"] /\ UNCHANGED requests
    BY <1>2 DEF Idle
  <2>2. StepsOf("exit") < StepsOf(pc[w])
    BY <2>1 DEF StepsOf
  <2> QED
    BY <1>1, <2>1, <2>2, FewerAhead
<1>3. CASE Extract(w)
  BY <1>1, <1>3, FewerListed DEF Extract
<1>4. CASE Stat(w)
  <2>1. PICK p \in {"read", "refuse"} : pc' = [pc EXCEPT ![w] = p]
    BY <1>4 DEF Stat
  <2>2. StepsOf(p) < StepsOf(pc[w]) /\ UNCHANGED requests
    BY <1>4 DEF StepsOf, Stat
  <2> QED
    BY <1>1, <2>1, <2>2, FewerAhead
<1>5. CASE Read(w)
  <2>1. pc[w] = "read" /\ pc' = [pc EXCEPT ![w] = "finish"] /\ UNCHANGED requests
    BY <1>5 DEF Read
  <2>2. StepsOf("finish") < StepsOf(pc[w])
    BY <2>1 DEF StepsOf
  <2> QED
    BY <1>1, <2>1, <2>2, FewerAhead
<1>6. CASE Refuse(w) \/ Finish(w)
  <2>1. /\ pc[w] \in {"refuse", "finish"} /\ pc' = [pc EXCEPT ![w] = "loop"]
        /\ UNCHANGED requests
    BY <1>6 DEF Refuse, Finish
  <2>2. StepsOf("loop") < StepsOf(pc[w])
    BY <2>1 DEF StepsOf
  <2> QED
    BY <1>1, <2>1, <2>2, FewerAhead
<1> QED
  BY <1>2, <1>3, <1>4, <1>5, <1>6 DEF Work

(* Whoever else moves after the shutdown, finds nobody asleep and may not   *)
(* queue.                                                                  *)
LEMMA OthersAddNothing ==
    ASSUME IInv, [Next]_vars, shutdown, ~\E w \in Worker : Work(w)
    PROVE  UNCHANGED <<requests, pc>>
<1>1. \A w \in Worker : pc[w] # "wait"
  BY DEF IInv, NoLostWakeup
<1>2. Awake = pc
  BY <1>1 DEF Awake, IInv, TypeOK
<1> QED
  BY <1>1, <1>2 DEF Next, QueueFile, CancelFile, GracefullyShutdown, Shutdown, Join,
     SpuriousWakeup, vars

(* After a shutdown the pool has a bounded number of steps to make before   *)
(* its workers have left, whatever the sizes of files, the errors and the    *)
(* cancels are, and no wakeup or client makes them more (reader.c:160-175,   *)
(* 398-510): with running workers the joins return.                         *)
THEOREM DrainBounded == Spec => DrainAdvances
<1>1. IInv /\ [Next]_vars => [shutdown =>
        IF \E w \in Worker : Work(w) THEN StepsToDo' < StepsToDo
                                     ELSE UNCHANGED <<requests, pc>>]_vars
  BY WorkAdvances, OthersAddNothing
<1> QED
  BY <1>1, Invariance, PTL DEF Spec, DrainAdvances
=============================================================================
