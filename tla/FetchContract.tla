--------------------------- MODULE FetchContract ----------------------------
(***************************************************************************)
(* What one fetch of an object promises its caller (the doc comment of     *)
(* Swarm::fetch and of FetchReport, crates/epix-edx/src/sched.rs): a group *)
(* is accounted for only once its verified bytes are in the store, what is *)
(* stored is never lost, the fetch completes exactly when nothing is       *)
(* missing, and once it has returned nothing of it changes.                *)
(***************************************************************************)
EXTENDS Integers

CONSTANT Wanted    \* the groups the caller asked for

VARIABLES missing, stored, status

vars == <<missing, stored, status>>

StatusOf(m) == IF m = {} THEN "complete" ELSE "running"

Init ==
    /\ missing = Wanted
    /\ stored = {}
    /\ status = StatusOf(Wanted)

\* Bytes reach the store, and some of what is stored is accounted for.
Deliver ==
    /\ status = "running"
    /\ stored \subseteq stored' /\ stored' \subseteq Wanted
    /\ missing' \subseteq missing
    /\ missing \ missing' \subseteq stored'
    /\ status' = StatusOf(missing')

\* Nothing more can be had.
GiveUp ==
    /\ status = "running" /\ missing # {}
    /\ status' = "gaveup"
    /\ UNCHANGED <<missing, stored>>

Next == Deliver \/ GiveUp

Spec == Init /\ [][Next]_vars
=============================================================================
