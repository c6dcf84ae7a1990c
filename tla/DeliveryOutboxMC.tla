-------------------------- MODULE DeliveryOutboxMC --------------------------
(* Small instances of DeliveryOutbox for TLC. *)
EXTENDS DeliveryOutbox, TLC

CONSTANTS t1, e1, e2, v1, v2

MCTelegrams == {t1}
MCEmails == {e1, e2}
MCDispatchers == {v1, v2}
MCRank == e1 :> 1 @@ e2 :> 2
=============================================================================
