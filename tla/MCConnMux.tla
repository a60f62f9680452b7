----------------------------- MODULE MCConnMux ------------------------------
(***************************************************************************)
(* Instances of ConnMux for TLC.                                           *)
(***************************************************************************)
EXTENDS ConnMux

\* A reply of two frames beside one-frame replies.
OneLongReply == [s \in Streams |-> IF s = 1 THEN 2 ELSE 1]
=============================================================================
