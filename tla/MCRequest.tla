----------------------------- MODULE MCRequest -----------------------------
(* Instances of Request for TLC. *)
EXTENDS Request

CONSTANTS cr, lf, nul

(* NUL stands for the bytes that are not of the end of a header. *)
ThreeBytes == {cr, lf, nul}

(* A path that is "/", and one longer than its buffer. *)
TwoPaths == {1, 4}
TwoSizes == {0, 2}
=============================================================================
