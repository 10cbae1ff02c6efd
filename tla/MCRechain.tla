------------------------------ MODULE MCRechain ------------------------------
(***************************************************************************)
(* One chain over three months with a writer, a retention job and an       *)
(* operator who repairs it.                                                *)
(***************************************************************************)
EXTENDS Rechain

CONSTANTS w1, job, op, ck, tab, e1, e2, e3, mark, forged

MCDays == {1, 2, 3}
MCKeyOf == [e \in Events |-> ck]
MCParent == [x \in Keys |-> tab]
MCRank == [x \in Keys |-> 0]
MCTableRank == [x \in Tables |-> 0]

\* e1 and its altered form belong to the first month, e2 to the second.
MCDayOf == [e \in Events |-> IF e \in {e1, forged} THEN 1 ELSE IF e = e2 THEN 2 ELSE 3]
MCMarker == [x \in Tables |-> mark]
MCForged == [e \in Events |-> IF e = e1 THEN forged ELSE e]

NewChain == {NoHash}
AllParts == Tables \X Days
=============================================================================
