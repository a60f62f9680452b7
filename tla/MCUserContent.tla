--------------------------- MODULE MCUserContent ---------------------------
(***************************************************************************)
(* Instances of UserContent for TLC.                                       *)
(***************************************************************************)
EXTENDS UserContent, TLC

CONSTANTS a, b, r1, r2, x

\* Timestamps of user versions and, between them, the cutoffs of the parent. A
\* cutoff equal to a timestamp is kept where the version is stored (strictly older
\* is deleted) and refused everywhere else (<= is archived): nodes never agree.
Stamps == [v \in UserV |-> 2 * v]
Cutoffs == [p \in UsersV |-> IF p = 1 THEN 0 ELSE 3]

\* Device a writes everything but r2.
MCWriter == [r \in Records |-> IF r = r2 THEN b ELSE a]
=============================================================================
