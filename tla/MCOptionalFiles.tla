-------------------------- MODULE MCOptionalFiles ---------------------------
(***************************************************************************)
(* Instances of OptionalFiles: two directories of one file each.           *)
(***************************************************************************)
EXTENDS OptionalFiles

CONSTANTS f1, f2, d1, d2

Held == [d \in {d1, d2} |-> IF d = d1 THEN {f1} ELSE {f2}]
=============================================================================
