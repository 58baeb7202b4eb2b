------------------------------ MODULE Acceptor ------------------------------
(***************************************************************************)
(* The Multi-Paxos acceptor of lab5/gorumspaxos/acceptor.go: its state is *)
(* rnd, the highest round promised or accepted in (NoRound at start), and  *)
(* accepted, its vote per slot (a function from the slots it voted in to   *)
(* the PValue of its last vote there).  The two handlers are written as    *)
(* operators over that state, so that a module with many acceptors can     *)
(* apply them to the state of one of them.                                 *)
(***************************************************************************)
EXTENDS PaxosQSpec

\* NewAcceptor: no round, no votes.
InitRnd      == NoRound
InitAccepted == [s \in {} |-> NoOp]

(***************************************************************************)
(* handlePrepare.  A prepare for a round above rnd is promised: rnd takes  *)
(* the prepare's round and the promise carries every vote for a slot at or *)
(* after the prepared one.  Any other prepare is ignored (nil promise).    *)
(***************************************************************************)
PrepareIgnored(rnd, prepare) == prepare.crnd <= rnd

PromiseForNoVotes(accepted, prepare) == [rnd |-> prepare.crnd, accepted |-> {}]

PromiseFor(accepted, prepare) ==
    [rnd      |-> prepare.crnd,
     accepted |-> {accepted[s] : s \in {t \in DOMAIN accepted : t >= prepare.slot}}]

(***************************************************************************)
(* handleAccept.  An accept for a round at or above rnd is accepted: rnd   *)
(* takes its round, the slot's vote is overwritten, and a learn for the    *)
(* same slot, round and value is returned.  A lower round is ignored.      *)
(***************************************************************************)
AcceptIgnored(rnd, accept) == accept.rnd < rnd

VoteFor(accepted, accept) ==
    [s \in DOMAIN accepted \cup {accept.slot} |->
        IF s = accept.slot
        THEN [slot |-> accept.slot, vrnd |-> accept.rnd, vval |-> accept.val]
        ELSE accepted[s]]

LearnFor(accept) == [slot |-> accept.slot, rnd |-> accept.rnd, val |-> accept.val]

=============================================================================
