------------------------------ MODULE MCCache ------------------------------
(* Instances of Cache for TLC. *)
EXTENDS Cache, TLC

CONSTANTS k1, k2

(* Both keys in one chain. *)
HashCollide == (k1 :> 0) @@ (k2 :> 0)

Symmetry == Permutations(Thread) \cup Permutations(Buffer) \cup Permutations(Handle)
CollidingSymmetry == Symmetry \cup Permutations(Key)
=============================================================================
