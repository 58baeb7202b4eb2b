--------------------------- MODULE MCMultiPaxos ----------------------------
(***************************************************************************)
(* Three replicas, two client values, leaders that may change at any time. *)
(* Proposals go to slot 2 (MaxSlot 2; slot 1 is prepared but never        *)
(* proposed), rounds 0, 1 and 2 are the replicas' first rounds and replica *)
(* 0 may lead again in round 3 (MaxRound 3), so up to four successive      *)
(* leaderships can each carry or lose the votes of the one before.         *)
(***************************************************************************)
EXTENDS MultiPaxos

CONSTANTS V1, V2

MCValues == {V1, V2}

\* The two values are interchangeable: no definition names either one.
ValueSymmetry == Permutations(MCValues)

\* A client value is queued by at most one replica.  The client's quorum
\* call reaches every replica, but only one that believes it leads queues
\* it; two leaders queueing the same value is the case of two values.
OneReplicaPerValue ==
    \A v \in MCValues : Cardinality({rv \in requested : rv[2] = v}) <= 1

=============================================================================
