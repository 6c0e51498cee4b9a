---------------------------- MODULE PoolContract ----------------------------
(***************************************************************************)
(* What the pool of readers promises whoever gives it a request: the       *)
(* callback of an accepted request is called once, or any number of times  *)
(* when somebody cancelled it; a shutdown comes back only when every       *)
(* accepted request has had its callback, and after that none is called.   *)
(***************************************************************************)
EXTENDS Naturals

CONSTANT Request
VARIABLES
    accepted,   \* the requests that were taken
    cancelled,  \* those of them that somebody cancelled
    replies,    \* how often the callback of each was called
    phase       \* whether the pool takes requests, shuts down, or has shut down

Init ==
    /\ accepted = {} /\ cancelled = {}
    /\ replies = [r \in Request |-> 0]
    /\ phase = "open"

Accept(r) ==
    /\ phase = "open" /\ r \notin accepted
    /\ accepted' = accepted \cup {r}
    /\ UNCHANGED <<cancelled, replies, phase>>

(* Those of R are cancelled, and some of them told so at once. *)
CancelAll(R) ==
    /\ cancelled' = cancelled \cup R
    /\ \E told \in SUBSET R :
          replies' = [r \in Request |-> IF r \in told THEN replies[r] + 1 ELSE replies[r]]
    /\ UNCHANGED accepted

Cancel(r) == phase = "open" /\ CancelAll({r}) /\ UNCHANGED phase

Reply(r) ==
    /\ phase # "closed"
    /\ r \notin cancelled => replies[r] = 0
    /\ replies' = [replies EXCEPT ![r] = @ + 1]
    /\ UNCHANGED <<accepted, cancelled, phase>>

(* A shutdown begins, and cancels what is in R. *)
BeginClose(R) == phase = "open" /\ phase' = "closing" /\ CancelAll(R)

Close ==
    /\ phase = "closing" /\ \A r \in accepted : replies[r] > 0
    /\ phase' = "closed"
    /\ UNCHANGED <<accepted, cancelled, replies>>

Next ==
    \/ \E r \in Request : Accept(r)
    \/ \E r \in accepted : Cancel(r) \/ Reply(r)
    \/ \E R \in SUBSET accepted : BeginClose(R)
    \/ Close

Spec == Init /\ [][Next]_<<accepted, cancelled, replies, phase>>
=============================================================================
