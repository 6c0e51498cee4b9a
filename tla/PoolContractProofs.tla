------------------------- MODULE PoolContractProofs -------------------------
(***************************************************************************)
(* The proof that ReaderPool implements PoolContract.                      *)
(***************************************************************************)
EXTENDS ReaderPoolProofs

(* What a client sees of the pool. *)
Seen == <<issued, asked, Replies, Phase>>
Refines == [Contract!Next]_Seen

(* One more answer for each request of S. *)
Told(S) == [r \in Request |-> IF r \in S THEN Replies[r] + 1 ELSE Replies[r]]

(* A step that gives no identifier out, cancels and answers nothing, and    *)
(* leaves the shutdown where it is.                                        *)
LEMMA Unseen == ASSUME UNCHANGED <<issued, asked, answers, closer>> PROVE Refines
  BY DEF Refines, Seen, Replies, Phase

(* QueueFile is the acceptance. *)
LEMMA QueueFileRefines == ASSUME IInv, NEW r \in Request, QueueFile(r) PROVE Refines
<1>1. /\ r \notin issued /\ issued' = issued \cup {r} /\ ~shutdown
      /\ UNCHANGED <<asked, answers, closer>>
  BY DEF QueueFile
<1>2. closer = "out"
  BY <1>1 DEF IInv, ClosingInv
<1>3. Phase = "open" /\ UNCHANGED <<Replies, Phase>>
  BY <1>1, <1>2 DEF Phase, Replies
<1>4. Contract!Accept(r)
  BY <1>1, <1>3 DEF Contract!Accept
<1> QED
  BY <1>4 DEF Refines, Contract!Next

(* The requests of R get one answer each, and no other does. *)
LEMMA OneMoreEach ==
    ASSUME TypeOK, NEW R \in SUBSET Request, NEW code \in Code,
           answers' = [r \in Request |-> IF r \in R THEN Append(answers[r], code) ELSE answers[r]]
    PROVE  Replies' = Told(R)
<1>1. ASSUME NEW r \in Request PROVE Len(Append(answers[r], code)) = Len(answers[r]) + 1
  <2>1. answers[r] \in Seq(Code)
    BY DEF TypeOK
  <2> QED
    BY <2>1, AppendAnswer
<1> QED
  BY <1>1 DEF Replies, Told

(* A cancel: the listed request is answered, the one that a worker has is   *)
(* left to the worker.                                                     *)
LEMMA CancelFileRefines == ASSUME IInv, NEW r \in Request, CancelFile(r) PROVE Refines
<1>1. /\ r \in issued /\ ~shutdown /\ asked' = asked \cup {r} /\ UNCHANGED <<issued, closer>>
  BY DEF CancelFile
<1>2. closer = "out"
  BY <1>1 DEF IInv, ClosingInv
<1>3. Phase = "open" /\ UNCHANGED Phase
  BY <1>1, <1>2 DEF Phase
<1>4. \E told \in SUBSET {r} : Replies' = Told(told)
  <2>1. CASE UNCHANGED answers
    <3>1. Replies' = Told({})
      BY <2>1 DEF Replies, Told
    <3> QED
      BY <3>1
  <2>2. CASE Answer(r, "CANCELED")
    <3>1. answers' = [q \in Request |->
                        IF q \in {r} THEN Append(answers[q], "CANCELED") ELSE answers[q]]
      BY <2>2 DEF Answer, IInv, TypeOK
    <3>2. Replies' = Told({r})
      BY <3>1, OneMoreEach DEF IInv, Code
    <3>3. {r} \in SUBSET {r}
      OBVIOUS
    <3> QED
      BY <3>2, <3>3
  <2> QED
    BY <2>1, <2>2 DEF CancelFile, CancelQueued
<1>5. Contract!Cancel(r)
  BY <1>1, <1>3, <1>4 DEF Contract!Cancel, Contract!CancelAll, Told
<1> QED
  BY <1>1, <1>5 DEF Refines, Contract!Next

(* The two shutdowns begin to close; the graceful one cancels nothing. *)
LEMMA ShutdownRefines == ASSUME IInv, GracefullyShutdown \/ Shutdown PROVE Refines
<1>1. closer = "out" /\ closer' = "joining" /\ UNCHANGED issued
  BY DEF GracefullyShutdown, Shutdown
<1>2. Phase = "open" /\ Phase' = "closing"
  BY <1>1 DEF Phase
<1>3. \E R \in SUBSET issued :
        /\ asked' = asked \cup R
        /\ \E told \in SUBSET R : Replies' = Told(told)
  <2>1. CASE GracefullyShutdown
    <3>1. Replies' = Told({})
      BY <2>1 DEF GracefullyShutdown, Replies, Told
    <3>2. asked' = asked \cup {}
      BY <2>1 DEF GracefullyShutdown
    <3> QED
      BY <3>1, <3>2
  <2>2. CASE Shutdown
    <3>1. Queued \cup Slotted \subseteq issued /\ issued \subseteq Request
      BY DEF IInv, AnswerInv, EachRequestInOnePlace, TypeOK
    <3>2. Replies' = Told(Queued)
      BY <2>2, <3>1, OneMoreEach DEF Shutdown, IInv, Code
    <3>3. asked' = asked \cup (Queued \cup Slotted)
      BY <2>2 DEF Shutdown
    <3> DEFINE R == Queued \cup Slotted
    <3>4. R \in SUBSET issued /\ Queued \in SUBSET R
      BY <3>1
    <3> HIDE DEF R
    <3>5. \E told \in SUBSET R : Replies' = Told(told)
      BY <3>2, <3>4
    <3>6. asked' = asked \cup R
      BY <3>3 DEF R
    <3> QED
      BY <3>4, <3>5, <3>6
  <2> QED
    BY <2>1, <2>2
<1>4. PICK R \in SUBSET issued : Contract!BeginClose(R)
  BY <1>1, <1>2, <1>3 DEF Contract!BeginClose, Contract!CancelAll, Told
<1> QED
  BY <1>4 DEF Refines, Contract!Next

(* The joins return when every accepted request has its answer. *)
LEMMA JoinRefines == ASSUME IInv, Join PROVE Refines
<1>1. /\ closer = "joining" /\ closer' = "joined" /\ \A w \in Worker : pc[w] = "exit"
      /\ UNCHANGED <<issued, asked, answers>>
  BY DEF Join
<1>2. requests = <<>> /\ Queued = {}
  BY <1>1, PoolAssumption DEF IInv, ClosingInv, Queued
<1>3. InFlight = {}
  BY <1>1, PoolNoneAssumption DEF IInv, WorkerInv, InFlight
<1>4. \A r \in issued : answers[r] # <<>> /\ answers[r] \in Seq(Code)
  BY <1>2, <1>3 DEF IInv, EachRequestInOnePlace, TypeOK
<1>5. \A r \in issued : Len(answers[r]) > 0
  <2> SUFFICES ASSUME NEW s \in Seq(Code), s # <<>> PROVE Len(s) > 0
    BY <1>4
  <2> QED
    OBVIOUS
<1>6. \A r \in issued : Replies[r] > 0
  BY <1>5 DEF Replies, IInv, TypeOK
<1>7. Phase = "closing" /\ Phase' = "closed" /\ UNCHANGED Replies
  BY <1>1 DEF Phase, Replies
<1>8. Contract!Close
  BY <1>1, <1>6, <1>7 DEF Contract!Close
<1> QED
  BY <1>8 DEF Refines, Contract!Next

(* A worker answers a request that it has, or that it takes off the list:   *)
(* its first answer, or somebody cancelled it; and the joins still wait for *)
(* this worker.                                                            *)
LEMMA AnswerRefines ==
    ASSUME IInv, NEW w \in Worker, pc[w] # "exit", NEW r \in Queued \cup InFlight,
           NEW code \in Code, Answer(r, code), UNCHANGED <<issued, asked, closer>>
    PROVE  Refines
<1>1. r \in issued /\ r \in Request
  BY DEF IInv, EachRequestInOnePlace, TypeOK
<1>2. closer # "joined" /\ closer \in {"out", "joining", "joined"}
  BY DEF IInv, ClosingInv, TypeOK
<1>3. Phase # "closed" /\ UNCHANGED Phase
  BY <1>2 DEF Phase
<1>4. r \notin asked => Replies[r] = 0
  BY <1>1 DEF IInv, AnswerInv, UncancelledAnsweredOnce, Replies
<1>5. Replies' = [Replies EXCEPT ![r] = @ + 1]
  <2>1. answers' = [q \in Request |-> IF q \in {r} THEN Append(answers[q], code) ELSE answers[q]]
    BY <1>1 DEF Answer, IInv, TypeOK
  <2>2. Replies' = Told({r})
    BY <1>1, <2>1, OneMoreEach DEF IInv
  <2> QED
    BY <1>1, <2>2 DEF Replies, Told
<1>6. Contract!Reply(r)
  BY <1>3, <1>4, <1>5 DEF Contract!Reply
<1> QED
  BY <1>1, <1>6 DEF Refines, Contract!Next

(* The steps of a worker: at most one answer in each. *)
LEMMA WorkRefines == ASSUME IInv, NEW w \in Worker, Work(w) \/ SpuriousWakeup(w) PROVE Refines
<1>1. pc[w] # "exit" /\ UNCHANGED <<issued, asked, closer>>
  BY DEF Work, Idle, Extract, Stat, Refuse, Read, Finish, SpuriousWakeup, clientVars
<1>2. CASE UNCHANGED answers
  BY <1>1, <1>2, Unseen
<1>3. CASE Refuse(w) \/ Finish(w)
  <2>1. job[w] \in InFlight
    BY <1>3, PoolNoneAssumption DEF IInv, TypeOK, WorkerInv, InFlight, Refuse, Finish
  <2>2. result[w] \in Code /\ "CANCELED" \in Code
    BY <1>3 DEF IInv, WorkerInv, Refuse, Finish, Code
  <2>3. Answer(job[w], result[w]) \/ Answer(job[w], "CANCELED")
    BY <1>3 DEF Refuse, Finish
  <2> QED
    BY <1>1, <2>1, <2>2, <2>3, AnswerRefines
<1>4. CASE Extract(w)
  <2>1. requests # <<>> /\ requests' = Tail(requests)
    BY <1>4 DEF Extract
  <2>2. Head(requests) \in Queued
    BY <2>1, PopQueued
  <2>3. UNCHANGED answers \/ Answer(Head(requests), "FILE_NOT_FOUND")
    BY <1>4 DEF Extract
  <2> QED
    BY <1>1, <1>2, <2>2, <2>3, AnswerRefines DEF Code
<1> QED
  BY <1>2, <1>3, <1>4 DEF Work, Idle, Stat, Read, SpuriousWakeup

(* The pool implements its contract, for any number of workers and          *)
(* requests: whoever is answered, and how often, is what the contract says. *)
THEOREM ContractImplemented == Spec => ImplementsContract
<1>1. Init => Contract!Init
  <2> SUFFICES ASSUME Init PROVE Contract!Init
    OBVIOUS
  <2>1. Phase = "open" /\ Replies = [r \in Request |-> 0]
    BY DEF Init, Phase, Replies
  <2> QED
    BY <2>1 DEF Init, Contract!Init
<1>2. IInv /\ [Next]_vars => [Contract!Next]_Seen
  <2> SUFFICES ASSUME IInv, [Next]_vars PROVE Refines
    BY DEF Refines
  <2>1. CASE UNCHANGED vars
    BY <2>1, Unseen DEF vars
  <2> QED
    BY <2>1, QueueFileRefines, CancelFileRefines, ShutdownRefines, JoinRefines, WorkRefines
       DEF Next
<1>3. Contract!Spec <=> Contract!Init /\ [][Contract!Next]_Seen
  BY DEF Contract!Spec, Seen
<1> QED
  BY <1>1, <1>2, <1>3, Invariance, PTL DEF Spec, ImplementsContract
=============================================================================
