---------------------------- MODULE MCXiteUpdate ----------------------------
(***************************************************************************)
(* Instances of XiteUpdate: version 2 changes both files of the xite,      *)
(* version 3 changes one of them again.                                    *)
(***************************************************************************)
EXTENDS XiteUpdate

MCFiles == {"f", "g"}

MCManifest ==
    [v \in 1 .. MaxVersion |->
        [x \in MCFiles |-> IF x = "f" THEN v ELSE IF v = 1 THEN 1 ELSE 2]]

MCLimits == {Versions, Versions \ {2}}
=============================================================================
