------------------------ MODULE MCMultiPaxosDelivery ------------------------
(***************************************************************************)
(* One replica that leads from the start, one client value, proposals up   *)
(* to slot 2, no leader change: the smallest setting in which a request is *)
(* queued, proposed, decided and committed.                                *)
(***************************************************************************)
EXTENDS MultiPaxos

CONSTANT V1

MCValues == {V1}

=============================================================================
