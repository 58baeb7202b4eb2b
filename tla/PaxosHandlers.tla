--------------------------- MODULE PaxosHandlers ----------------------------
(***************************************************************************)
(* The message-at-a-time Multi-Paxos of lab4/multipaxos: the proposer's    *)
(* handlePromise, which stores one promise per node and counts them, and  *)
(* the learner's handleLearn, which counts learns per slot, together with  *)
(* the acceptor handlers of module Acceptor (lab4 has only the acceptor's *)
(* tests, with the same contract as lab5/gorumspaxos/acceptor.go).         *)
(*                                                                         *)
(* Every node runs a proposer, an acceptor and a learner.  Proposer p has *)
(* the fixed round crnd = p (NewProposer) and all proposers start at the   *)
(* same adu.  Messages go into the set msgs and stay there: a handler may  *)
(* take any message any number of times or never, so messages are lost,   *)
(* duplicated and reordered.                                               *)
(***************************************************************************)
EXTENDS Acceptor, TLC

CONSTANTS Nodes,      \* node ids 0..n-1
          Proposers,  \* the nodes whose proposer runs (crnd = its id)
          Learners,   \* the nodes whose learner is modelled
          Adu,        \* the adu every proposer is created with
          MaxSlot     \* the highest slot proposed

N      == Cardinality(Nodes)
Quorum == QuorumSize(N)
Slots  == (Adu + 1)..MaxSlot

\* An empty entry of the proposer's promises slice (a nil *Promise).
NoPromiseYet == [rnd |-> NoRound, accepted |-> {}]

\* The learner's record of a slot: the highest round it heard learns for,
\* their senders and value, and the value it decided (NilValue: none).
InitSlotLearner == [rnd |-> NoRound, senders |-> {}, val |-> NilValue, decided |-> NilValue]

VARIABLES rnd, accepted,              \* acceptor of each node
          promises, promiseCount,     \* proposer of each node
          learner,                    \* learner -> slot -> record
          msgs

vars == <<rnd, accepted, promises, promiseCount, learner, msgs>>

Init ==
    /\ rnd          = [a \in Nodes |-> InitRnd]
    /\ accepted     = [a \in Nodes |-> InitAccepted]
    /\ promises     = [p \in Nodes |-> [n \in Nodes |-> NoPromiseYet]]
    /\ promiseCount = [p \in Nodes |-> 0]
    /\ learner      = [l \in Learners |-> [s \in Slots |-> InitSlotLearner]]
    /\ msgs         = {}

\* Proposer p asks every acceptor for a promise for its round, from the
\* first slot not yet decided on.
SendPrepare(p) ==
    /\ [type |-> "prepare", from |-> p, slot |-> Adu + 1, crnd |-> p] \notin msgs
    /\ msgs' = msgs \cup {[type |-> "prepare", from |-> p, slot |-> Adu + 1, crnd |-> p]}
    /\ UNCHANGED <<rnd, accepted, promises, promiseCount, learner>>

\* handlePrepare at acceptor a; the promise goes back to the prepare's sender.
Prepare(a) ==
    \E m \in msgs :
        /\ m.type = "prepare"
        /\ ~PrepareIgnored(rnd[a], m)
        /\ rnd' = [rnd EXCEPT ![a] = m.crnd]
        /\ msgs' = msgs \cup {[type |-> "promise", to |-> m.from, from |-> a]
                                  @@ PromiseFor(accepted[a], m)}
        /\ UNCHANGED <<accepted, promises, promiseCount, learner>>

\* handleAccept at acceptor a; its learn goes to every learner.
Accept(a) ==
    \E m \in msgs :
        /\ m.type = "accept"
        /\ ~AcceptIgnored(rnd[a], m)
        /\ rnd'      = [rnd EXCEPT ![a] = m.rnd]
        /\ accepted' = [accepted EXCEPT ![a] = VoteFor(@, m)]
        /\ msgs'     = msgs \cup {[type |-> "learn", from |-> a] @@ LearnFor(m)}
        /\ UNCHANGED <<promises, promiseCount, learner>>

(***************************************************************************)
(* handlePromise.  A promise for another round than crnd, or a second     *)
(* promise from the same node, is ignored.  Otherwise it is stored and    *)
(* counted; the promise that makes the count reach the quorum returns the *)
(* accepts: for every slot after adu up to the highest slot reported, the *)
(* value of the highest-round vote reported there, or the zero value      *)
(* where no vote was reported.  A zero-valued accept, and every slot past *)
(* the last one returned, is unconstrained: the caller picks any value.   *)
(***************************************************************************)
PromiseIgnoredRoundOnly(p, prm) == prm.rnd # p

PromiseIgnored(p, prm) == prm.rnd # p \/ promises[p][prm.from] # NoPromiseYet

\* The slot -> highest-round vote table of the stored promises.
ReportedVotes(p, proms) ==
    FoldSet(MergePValue, [s \in {} |-> NoOp],
            {pv \in UNION {pr.accepted : pr \in proms} : pv.slot > Adu})

\* The accepts handlePromise returns, as slot -> value, for the stored
\* promises: every slot after adu up to the highest one reported.
ReturnedAccepts(p, proms) ==
    LET best == ReportedVotes(p, proms)
        top  == IF DOMAIN best = {} THEN Adu ELSE Max(DOMAIN best)
    IN  [s \in (Adu + 1)..top |-> IF s \in DOMAIN best THEN best[s].vval ELSE NoOp]

(***************************************************************************)
(* The caller sends an accept for every slot, as the handlePromise comment *)
(* tells it: past the returned slots, and where the returned accept has   *)
(* the zero value, the value is unconstrained and the caller picks any     *)
(* (free[s]); elsewhere it keeps the returned value.  The zero Value is    *)
(* the no-op (defs.go), so a no-op a quorum voted for is unconstrained    *)
(* too: the comment does not tell a reported no-op vote from no vote.     *)
(***************************************************************************)
ProposedValue(returned, free, s) ==
    IF s \notin DOMAIN returned \/ returned[s] = NoOp THEN free[s] ELSE returned[s]

HandlePromise(p) ==
    \E m \in msgs :
        /\ m.type = "promise" /\ m.to = p
        /\ ~PromiseIgnored(p, m)
        /\ promises'     = [promises EXCEPT ![p][m.from] = [rnd |-> m.rnd, accepted |-> m.accepted]]
        /\ promiseCount' = [promiseCount EXCEPT ![p] = @ + 1]
        /\ IF promiseCount'[p] = Quorum
           THEN LET returned == ReturnedAccepts(p, {promises'[p][n] : n \in Nodes})
                IN  \E free \in [Slots -> Values \cup {NoOp}] :
                        msgs' = msgs \cup
                            {[type |-> "accept", from |-> p, slot |-> s, rnd |-> p,
                              val |-> ProposedValue(returned, free, s)] : s \in Slots}
           ELSE UNCHANGED msgs
        /\ UNCHANGED <<rnd, accepted, learner>>

(***************************************************************************)
(* handleLearn at learner l.  A slot already decided, or a learn of a     *)
(* lower round than the one the slot is counting, is ignored; a higher    *)
(* round starts the count again.  The learn whose distinct senders reach  *)
(* the quorum decides the slot, and the value is returned once.           *)
(***************************************************************************)
LearnIgnored(rec, learn) == rec.decided # NilValue \/ learn.rnd < rec.rnd

CountLearnKeepSenders(rec, learn) ==
    [rec EXCEPT !.rnd = learn.rnd, !.senders = @ \cup {learn.from}, !.val = learn.val]

CountLearn(rec, learn) ==
    IF learn.rnd > rec.rnd
    THEN [rec EXCEPT !.rnd = learn.rnd, !.senders = {learn.from}, !.val = learn.val]
    ELSE [rec EXCEPT !.senders = @ \cup {learn.from}]

DecideIfQuorum(rec) ==
    IF Cardinality(rec.senders) >= Quorum THEN [rec EXCEPT !.decided = rec.val] ELSE rec

HandleLearn(l) ==
    \E m \in msgs :
        /\ m.type = "learn"
        /\ ~LearnIgnored(learner[l][m.slot], m)
        /\ learner' = [learner EXCEPT ![l][m.slot] = DecideIfQuorum(CountLearn(@, m))]
        /\ UNCHANGED <<rnd, accepted, promises, promiseCount, msgs>>

Next ==
    \/ \E p \in Proposers : SendPrepare(p) \/ HandlePromise(p)
    \/ \E a \in Nodes : Prepare(a) \/ Accept(a)
    \/ \E l \in Learners : HandleLearn(l)

Spec == Init /\ [][Next]_vars

-----------------------------------------------------------------------------
Message ==
         [type : {"prepare"}, from : Nodes, slot : Slots, crnd : Nodes]
    \cup [type : {"promise"}, to : Nodes, from : Nodes, rnd : Nodes,
          accepted : SUBSET [slot : Slots, vrnd : Nodes, vval : Values \cup {NoOp}]]
    \cup [type : {"accept", "learn"}, from : Nodes, slot : Slots, rnd : Nodes,
          val : Values \cup {NoOp}]

TypeOK ==
    /\ msgs \subseteq Message
    /\ \A a \in Nodes : DOMAIN accepted[a] \subseteq Slots
    /\ promiseCount \in [Nodes -> 0..N]
    /\ \A l \in Learners, s \in Slots : learner[l][s].senders \subseteq Nodes

\* v is chosen for slot s in round r: a quorum of acceptors sent its learn.
ChosenIn(s, r, v) ==
    Cardinality({a \in Nodes :
        [type |-> "learn", from |-> a, slot |-> s, rnd |-> r, val |-> v] \in msgs}) >= Quorum

(***************************************************************************)
(* At most one value is ever chosen for a slot, across all rounds (the    *)
(* Paxos guarantee spec.md requires of the log): the accepts a new        *)
(* proposer sends after handlePromise must carry the value a quorum voted *)
(* for in an earlier round, the no-op included.                            *)
(***************************************************************************)
ChosenUnique ==
    \A s \in Slots, r1, r2 \in Proposers, v1, v2 \in Values \cup {NoOp} :
        ChosenIn(s, r1, v1) /\ ChosenIn(s, r2, v2) => v1 = v2

(***************************************************************************)
(* A learner decides only a chosen value: handleLearn's count for a slot   *)
(* must only ever hold senders of learns for one round and value.          *)
(***************************************************************************)
DecidedIsChosen ==
    \A l \in Learners, s \in Slots :
        learner[l][s].decided # NilValue =>
            \E r \in Proposers : ChosenIn(s, r, learner[l][s].decided)

=============================================================================
