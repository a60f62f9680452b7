------------------------------- MODULE Replicas -------------------------------
(***************************************************************************)
(* The nodes that keep one xite, and the one of them that signs it: what   *)
(* the models of its root content (XiteUpdate) and of a user's directory   *)
(* below it (UserContent) have in common.                                  *)
(***************************************************************************)
CONSTANTS
    Nodes,        \* the nodes that serve the xite
    Owner         \* the node that signs it
=============================================================================
