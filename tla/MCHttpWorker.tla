---------------------------- MODULE MCHttpWorker ----------------------------
(* Instances of HttpWorker for TLC. *)
EXTENDS HttpWorker, TLC

Symmetry == Permutations(Worker) \cup Permutations(Conn) \cup Permutations(File)
            \cup Permutations(Buffer)
=============================================================================
