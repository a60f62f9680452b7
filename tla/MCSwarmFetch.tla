---------------------------- MODULE MCSwarmFetch ----------------------------
(***************************************************************************)
(* Instances of SwarmFetch for TLC.                                        *)
(***************************************************************************)
EXTENDS SwarmFetch

MCClasses == {"clearnet", "overlay"}
MCReqSize == [c \in MCClasses |-> IF c = "clearnet" THEN 2 ELSE 1]
MCDepth   == [c \in MCClasses |-> IF c = "clearnet" THEN 1 ELSE 2]

\* Slot 1 is a clearnet peer, the others overlay ones.
MixedClass == [p \in Peers |-> IF p = 1 THEN "clearnet" ELSE "overlay"]
OwnLabel == [p \in Peers |-> p]

\* The two slots share group 1 only, so that a run cut across them has to be
\* split, and the joiner brings a group nobody held.
Staggered == {[p \in Peers |-> IF p = 1 THEN {0, 1} ELSE {1, 2}]}
=============================================================================
