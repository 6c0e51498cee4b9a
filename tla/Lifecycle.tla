----------------------------- MODULE Lifecycle -----------------------------
(***************************************************************************)
(* What the server promises of a connection: it is read, answered at most  *)
(* once, ended, and closed once; or it is turned away.  No step goes back. *)
(***************************************************************************)
CONSTANT Conn
VARIABLE phase

Phase == {"new", "reading", "answering", "ended", "closed"}

Init == phase = [c \in Conn |-> "new"]

Move(c, from, to) == phase[c] \in from /\ phase' = [phase EXCEPT ![c] = to]

Accept(c) == Move(c, {"new"}, "reading")
TurnAway(c) == Move(c, {"new"}, "closed")
Answer(c) == Move(c, {"reading"}, "answering")
End(c) == Move(c, {"reading", "answering"}, "ended")
Close(c) == Move(c, {"ended"}, "closed")

Next == \E c \in Conn : Accept(c) \/ TurnAway(c) \/ Answer(c) \/ End(c) \/ Close(c)

Spec == Init /\ [][Next]_phase
=============================================================================
