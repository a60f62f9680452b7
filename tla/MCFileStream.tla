---------------------------- MODULE MCFileStream ----------------------------
(***************************************************************************)
(* A file of three groups declared at two paths: the player and the single *)
(* download ask for one, a batch for the other.                            *)
(***************************************************************************)
EXTENDS FileStream, TLC

CONSTANTS path1, path2

Ranges == {1 .. 1, 2 .. 3}

Asking == [read |-> {path1}, batch |-> {path2}, file |-> {path1}]

Overlap == (TRUE  :> [read |-> 1, batch |-> 1, file |-> 0]) @@
           (FALSE :> [read |-> 2, batch |-> 0, file |-> 1])
=============================================================================
