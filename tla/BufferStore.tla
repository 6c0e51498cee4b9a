---------------------------- MODULE BufferStore ----------------------------
(***************************************************************************)
(* What the cache promises its callers: a key has one buffer at a time,    *)
(* everybody who gets a buffer of that key gets that one, and it stays the *)
(* buffer of its key until the last of them has released it.               *)
(***************************************************************************)
CONSTANTS Key, Buffer, Handle, None
VARIABLES
    stored,     \* the buffer that a lookup of each key gives, or None
    held        \* the buffer each handle points at, or None

Init ==
    /\ stored = [k \in Key |-> None]
    /\ held = [h \in Handle |-> None]

Held(b) == b # None /\ \E h \in Handle : held[h] = b

Get(k, h) ==
    /\ stored[k] # None /\ held[h] = None
    /\ held' = [held EXCEPT ![h] = stored[k]]
    /\ UNCHANGED stored

Release(h) ==
    /\ held[h] # None
    /\ held' = [held EXCEPT ![h] = None]
    /\ UNCHANGED stored

(* Buffers that nobody holds go, and others come, each for one key.  What   *)
(* somebody holds stays where it is.                                       *)
Replace ==
    /\ stored' \in [Key -> Buffer \cup {None}]
    /\ \A k \in Key : stored'[k] # stored[k] => ~Held(stored[k]) /\ ~Held(stored'[k])
    /\ \A j, k \in Key : stored'[j] = stored'[k] /\ stored'[k] # None => j = k
    /\ UNCHANGED held

Next ==
    \/ \E k \in Key, h \in Handle : Get(k, h)
    \/ \E h \in Handle : Release(h)
    \/ Replace

Spec == Init /\ [][Next]_<<stored, held>>
=============================================================================
