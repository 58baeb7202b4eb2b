---------------------------- MODULE MCPaxosQSpec ----------------------------
(***************************************************************************)
(* Checks PrepareQF of PaxosQSpec against a reference definition, over    *)
(* every set of promises a quorum call can have collected: replies arrive  *)
(* one node at a time, as gorums calls the quorum function again on each   *)
(* new reply, and the function must be right after each arrival.           *)
(***************************************************************************)
EXTENDS PaxosQSpec

CONSTANTS V1, V2,     \* two client values
          Nodes,      \* ids of the nodes of the configuration
          Prepare,    \* the prepare message of the call
          Slots,      \* slots the acceptors may report votes for
          VoteRounds  \* rounds in which the acceptors may have voted

VARIABLE replies      \* node id -> the promise it returned

\* The value voted in a round; fixed per round, as Paxos guarantees, so two
\* votes of equal round for a slot are equal pvalues.
RoundValue(r) == IF r % 2 = 0 THEN V1 ELSE V2

\* An acceptor's reply: its round and at most one vote per slot.
PromiseOf(rnd, vote) ==
    [rnd      |-> rnd,
     accepted |-> {[slot |-> s, vrnd |-> vote[s], vval |-> RoundValue(vote[s])] :
                       s \in {t \in Slots : vote[t] # NoRound}}]
Promises ==
    {PromiseOf(rnd, vote) : rnd  \in {Prepare.crnd, Prepare.crnd - 1},
                            vote \in [Slots -> VoteRounds \cup {NoRound}]}

Init == replies = [n \in {} |-> NoPromise]

\* The next node's reply arrives.
Arrive == \E n \in Nodes \ DOMAIN replies, p \in Promises :
              replies' = [m \in DOMAIN replies \cup {n} |->
                             IF m = n THEN p ELSE replies[m]]

Spec == Init /\ [][Arrive]_replies

Quorum == QuorumSize(Cardinality(Nodes))

MCValues  == {V1, V2}
MCPrepare == [slot |-> 1, crnd |-> 2]

(***************************************************************************)
(* Reference: with a quorum of valid promises, the combined promise is for *)
(* the prepare's round and lists, in slot order, every slot from the one   *)
(* after the prepared slot to the highest slot reported; the entry of a    *)
(* slot is a reported vote of maximal round there, or a no-op at the       *)
(* prepare's round.  Without a quorum there is no promise.                 *)
(***************************************************************************)
PrepareQFReference(quorum, prepare, replies_) ==
    LET valid    == {n \in DOMAIN replies_ : PromiseIsValid(prepare, replies_[n])}
        reported == {pv \in UNION {replies_[n].accepted : n \in valid} :
                         pv.slot > prepare.slot}
        slots    == {pv.slot : pv \in reported}
        last     == IF slots = {} THEN prepare.slot
                    ELSE CHOOSE s \in slots : \A t \in slots : t <= s
        entry(s) == IF s \notin slots
                    THEN [slot |-> s, vrnd |-> prepare.crnd, vval |-> NoOp]
                    ELSE CHOOSE pv \in reported :
                             /\ pv.slot = s
                             /\ \A q \in reported : q.slot = s => q.vrnd <= pv.vrnd
    IN  IF Cardinality(valid) * 2 <= Cardinality(Nodes)
        THEN <<NoPromise, FALSE>>
        ELSE <<[rnd |-> prepare.crnd,
                accepted |-> [i \in 1..(last - prepare.slot) |-> entry(prepare.slot + i)]],
               TRUE>>

(***************************************************************************)
(* PrepareQF combines the promises gathered so far exactly as the qspec    *)
(* tests require: the highest-round vote of each slot is kept, gaps become *)
(* no-ops, and no result is returned before a majority of valid promises.  *)
(***************************************************************************)
PrepareQFCorrect ==
    PrepareQF(Quorum, Prepare, replies) = PrepareQFReference(Quorum, Prepare, replies)

=============================================================================
