------------------------ MODULE MCAccountabilityDrain ------------------------
(***************************************************************************)
(* Instances of AccountabilityDrain: the global chain and a tenant's, a    *)
(* handful of records and up to three queue messages.                      *)
(***************************************************************************)
EXTENDS AccountabilityDrain

CONSTANTS g, a         \* the global chain and a tenant's

OrderGA == <<g, a>>

NoArchive == [k \in Keys |-> 0]
ArchivedA == [k \in Keys |-> IF k = a THEN 1 ELSE 0]

\* Records per chain.
Recs2 == [k \in Keys |-> IF k = a THEN 2 ELSE 0]
RecsEach == [k \in Keys |-> 1]
RecsArchived == [k \in Keys |-> IF k = a THEN 3 ELSE 1]

\* Messages per chain.
ToTenant == [m \in 1..MaxMsgs |-> a]
ToBoth == [m \in 1..MaxMsgs |-> IF m = 1 THEN a ELSE g]
=============================================================================
