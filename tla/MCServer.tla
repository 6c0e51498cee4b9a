------------------------------ MODULE MCServer ------------------------------
(* Instances of Server for TLC. *)
EXTENDS Server, TLC

CONSTANTS r1, r2, c1, c2, c3, c4, sigint, sigterm

(* Linux delivers a signal to the main thread if that does not block it. *)
MainOnly == {Main}
(* One thread of each kind, so that of each kind another one is left. *)
OneOfEach == {Main, 0, r1}

OneReader == {r1}
TwoReaders == {r1, r2}
OneConn == {c1}
TwoConns == {c1, c2}
ThreeConns == {c1, c2, c3}
FourConns == {c1, c2, c3, c4}
Order == <<c1, c2, c3, c4>>
OneSignal == {sigint}
TwoSignals == {sigint, sigterm}

(* Clients differ in their names only, so they may be named in the order in  *)
(* which they are accepted: a symmetry that liveness properties allow.      *)
AcceptedInOrder ==
    \A i, j \in DOMAIN Order :
        i < j /\ conn[Order[j]] \notin {"new", "backlog"} => conn[Order[i]] \notin {"new", "backlog"}

Symmetric == Permutations(Conn) \cup Permutations(Signal)
=============================================================================
