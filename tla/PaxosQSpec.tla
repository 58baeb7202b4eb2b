----------------------------- MODULE PaxosQSpec -----------------------------
(***************************************************************************)
(* The quorum functions of lab5/gorumspaxos/qspecs.go and the message     *)
(* checks of lab5/gorumspaxos/proto/validation.go that they rely on.       *)
(*                                                                         *)
(* Data is abstracted to what the quorum functions tell apart:             *)
(*   PValue  [slot, vrnd, vval]    Prepare [slot, crnd]                     *)
(*   Promise [rnd, accepted]       (accepted: a set of PValues; the Go     *)
(*                                  slice is compared after sorting)       *)
(*   Accept / Learn [slot, rnd, val]                                       *)
(* A client Value is a model value; NoOp is the no-op value                *)
(* (pb.Value{IsNoop: true}) and NilValue a nil *pb.Value.                  *)
(* The replies of a quorum call are a function from the replying node ids  *)
(* to their reply, as the map[uint32]*Msg the Go functions receive.        *)
(***************************************************************************)
EXTENDS Integers, FiniteSets, FiniteSetsExt, Sequences

CONSTANTS Values,     \* client values
          NoOp,       \* the no-op value used to fill gaps
          NilValue    \* a nil value pointer

NoRound == -1
NoSlot  == 0

\* The result a quorum function returns together with false.
NoPromise == [rnd |-> NoRound, accepted |-> <<>>]
NoLearn   == [slot |-> NoSlot, rnd |-> NoRound, val |-> NilValue]

(***************************************************************************)
(* NewPaxosQSpec(n): the quorum size of a configuration of n nodes, a      *)
(* strict majority.                                                        *)
(***************************************************************************)
QuorumSizeHalf(n) == n \div 2

QuorumSize(n) == (n \div 2) + 1

(***************************************************************************)
(* PValue.IsValid: a pvalue reported in a promise is usable only if the    *)
(* prepare is set, the pvalue has a slot and a round, it is not for a      *)
(* slot below the prepared one, it carries a value, and its round is not   *)
(* above the prepare's round.                                              *)
(***************************************************************************)
PValueIsValid(pval, prepare) ==
    /\ prepare.slot # NoSlot
    /\ prepare.crnd # NoRound
    /\ pval.slot # NoSlot
    /\ pval.vrnd # NoRound
    /\ pval.slot >= prepare.slot
    /\ pval.vval # NilValue
    /\ pval.vrnd <= prepare.crnd

\* PrepareMsg.IsValid: every pvalue is valid and the promise is for the
\* prepare's round.
PromiseIsValid(prepare, promise) ==
    /\ \A pval \in promise.accepted : PValueIsValid(pval, prepare)
    /\ prepare.crnd = promise.rnd

\* AcceptMsg.Match: the learn is for the accept's slot, round and value.
AcceptMatch(accept, learn) ==
    /\ accept.slot = learn.slot
    /\ accept.rnd = learn.rnd
    /\ accept.val = learn.val

\* Value.Match: the response carries the request's client id, sequence
\* number and command, i.e. the same value.
ValueMatch(request, response) == request = response.val

(***************************************************************************)
(* PrepareQF.                                                              *)
(* The valid promises are combined into one promise for the prepare's     *)
(* round.  For every slot after the prepared one, up to the highest slot   *)
(* any valid promise reports, the combined promise holds the reported      *)
(* pvalue of the highest round, or a no-op at the prepare's round where no *)
(* promise reports the slot.  The qspec tests fix that a pvalue for the    *)
(* prepared slot itself is not carried over.                               *)
(***************************************************************************)
ValidRepliers(prepare, replies) ==
    {n \in DOMAIN replies : PromiseIsValid(prepare, replies[n])}

MergePValueOverwrite(pval, best) ==
    [s \in DOMAIN best \cup {pval.slot} |-> IF s = pval.slot THEN pval ELSE best[s]]

\* One step of the merge loop: a pvalue replaces the entry of its slot only
\* if there is none yet or the entry's round is lower.
MergePValue(pval, best) ==
    IF pval.slot \in DOMAIN best /\ best[pval.slot].vrnd >= pval.vrnd
    THEN best
    ELSE [s \in DOMAIN best \cup {pval.slot} |->
              IF s = pval.slot THEN pval ELSE best[s]]

\* The per-slot table after merging every pvalue of the valid promises
\* that is for a slot after the prepared one.
BestPValues(prepare, replies) ==
    FoldSet(MergePValue, [s \in {} |-> NoOp],
            {pval \in UNION {replies[n].accepted : n \in ValidRepliers(prepare, replies)} :
                 pval.slot > prepare.slot})

NoOpPValue(slot, crnd) == [slot |-> slot, vrnd |-> crnd, vval |-> NoOp]

PrepareQF(quorum, prepare, replies) ==
    IF Cardinality(ValidRepliers(prepare, replies)) < quorum
    THEN <<NoPromise, FALSE>>
    ELSE LET best == BestPValues(prepare, replies)
             top  == IF DOMAIN best = {} THEN prepare.slot ELSE Max(DOMAIN best)
         IN  <<[rnd      |-> prepare.crnd,
                accepted |-> [i \in 1..(top - prepare.slot) |->
                                 IF prepare.slot + i \in DOMAIN best
                                 THEN best[prepare.slot + i]
                                 ELSE NoOpPValue(prepare.slot + i, prepare.crnd)]],
               TRUE>>

(***************************************************************************)
(* AcceptQF: a learn is decided when a quorum of distinct senders replied  *)
(* with a learn matching the accept.                                       *)
(***************************************************************************)
AcceptQFOneShort(quorum, accept, replies) ==
    LET matching == {n \in DOMAIN replies : AcceptMatch(accept, replies[n])}
    IN  IF Cardinality(matching) >= quorum - 1
        THEN <<replies[CHOOSE n \in matching : TRUE], TRUE>>
        ELSE <<NoLearn, FALSE>>

AcceptQF(quorum, accept, replies) ==
    LET matching == {n \in DOMAIN replies : AcceptMatch(accept, replies[n])}
    IN  IF Cardinality(matching) >= quorum
        THEN <<replies[CHOOSE n \in matching : TRUE], TRUE>>
        ELSE <<NoLearn, FALSE>>

(***************************************************************************)
(* ClientHandleQF: the client gets a response when a quorum of replicas    *)
(* replied with a response matching its request.                          *)
(***************************************************************************)
ClientHandleQF(quorum, request, replies) ==
    LET matching == {n \in DOMAIN replies : ValueMatch(request, replies[n])}
    IN  IF Cardinality(matching) >= quorum
        THEN <<replies[CHOOSE n \in matching : TRUE], TRUE>>
        ELSE <<[val |-> NilValue], FALSE>>

=============================================================================
