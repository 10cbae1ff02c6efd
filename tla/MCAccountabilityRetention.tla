---------------------- MODULE MCAccountabilityRetention ----------------------
(***************************************************************************)
(* Instances of AccountabilityRetention: the consumer and the poller drain *)
(* one chain of the core while overlapping retention runs archive it.      *)
(***************************************************************************)
EXTENDS AccountabilityRetention

CONSTANTS consumer, poller, j1, j2
=============================================================================
