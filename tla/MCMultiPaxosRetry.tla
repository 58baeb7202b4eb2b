------------------------- MODULE MCMultiPaxosRetry --------------------------
(***************************************************************************)
(* Phase one under timeouts.  Three replicas, one client value and one     *)
(* slot; no replica can move to a later round (MaxRound 2 is the last      *)
(* initial round), so replica 2, the initial leader, keeps its round for   *)
(* as long as it leads and every retry of its Prepare is in that round.    *)
(***************************************************************************)
EXTENDS MultiPaxos

CONSTANTS V1

MCValues == {V1}

(***************************************************************************)
(* A leader that has not finished phase one finishes it, or stops leading, *)
(* once its quorum calls stop timing out: a Prepare that timed out is a    *)
(* retryable error (runMultiPaxos runs phase one again while               *)
(* phaseOneDone is false), and the retry must be able to succeed.          *)
(***************************************************************************)
PhaseOneCompletes ==
    (<>[][\A r \in Replicas : ~CallTimeout(r)]_vars) =>
        \A r \in Replicas :
            (leader[r] = r /\ ~phaseOneDone[r]) ~> (phaseOneDone[r] \/ leader[r] # r)

=============================================================================
