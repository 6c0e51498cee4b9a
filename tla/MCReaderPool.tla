---------------------------- MODULE MCReaderPool ----------------------------
(* Instances of ReaderPool for TLC. *)
EXTENDS ReaderPool, TLC

Symmetry == Permutations(Worker) \cup Permutations(Request) \cup Permutations(Fd)
=============================================================================
