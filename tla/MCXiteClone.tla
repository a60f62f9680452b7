---------------------------- MODULE MCXiteClone -----------------------------
(***************************************************************************)
(* Instances of XiteClone: two files, of which one changes in the second   *)
(* version.                                                                *)
(***************************************************************************)
EXTENDS XiteClone

CONSTANTS f1, f2

Declared == [v \in 1 .. 2 |-> [f \in {f1, f2} |-> IF f = f1 THEN v ELSE 1]]
=============================================================================
