----------------------------- MODULE MCRetention -----------------------------
(***************************************************************************)
(* Instances of Retention: one chain over three months, of which retention *)
(* keeps the last.                                                         *)
(***************************************************************************)
EXTENDS Retention

CONSTANTS w1, job, job2, ck, tab, e1, e2, e3, e4

MCDays == {1, 2, 3}
MCKeyOf == [e \in Events |-> ck]
MCParent == [x \in Keys |-> tab]
MCRank == [x \in Keys |-> 0]
MCTableRank == [x \in Tables |-> 0]

\* e1 and e4 belong to the first month, e2 to the second, e3 to the third.
MCDayOf == [e \in Events |-> IF e = e2 THEN 2 ELSE IF e = e3 THEN 3 ELSE 1]

NewChain == {NoHash}
\* A partition of the second month that holds no row.
EmptyPart == {<<tab, 2>>}

JobSymmetry == Permutations(Jobs)
=============================================================================
