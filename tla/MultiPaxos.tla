----------------------------- MODULE MultiPaxos -----------------------------
(***************************************************************************)
(* The Multi-Paxos replicas of lab5/gorumspaxos: each PaxosReplica        *)
(* (replica.go) composes an Acceptor (acceptor.go), a Proposer             *)
(* (proposer.go) and the decided log learntVal; the replicas talk through  *)
(* gorums quorum calls combined by the quorum functions of qspecs.go.      *)
(*                                                                         *)
(* Messages are kept in a set: a message may be delivered late, more than  *)
(* once, or never, and in any order.  A quorum call is the set of replies  *)
(* addressed to its caller; it returns as soon as the quorum function is   *)
(* satisfied by the replies that have arrived.  The leader detector is the *)
(* environment: it may announce any leader to any replica at any time.     *)
(***************************************************************************)
EXTENDS Acceptor, Sequences, TLC

CONSTANTS Replicas,   \* node ids of the configuration (the nodeMap values)
          MaxRound,   \* bound on the rounds a proposer may move to
          MaxSlot     \* bound on the slots a proposer may assign

UnknownID == -1
N         == Cardinality(Replicas)
Quorum    == QuorumSize(N)
Slots     == 1..MaxSlot

\* myIndex: the position of id among the sorted node ids.
MyIndex(id) == Cardinality({q \in Replicas : q < id})

\* MonLeaderDetector.Leader() before any suspicion: the highest id.
InitialLeader == Max(Replicas)

(***************************************************************************)
(* The quorum call a proposer's loop is blocked in, if any.  late holds    *)
(* the acceptors whose reply to a call with the same message went to an    *)
(* earlier call: gorums hands a call only the replies to its own request.  *)
(***************************************************************************)
Idle == [kind |-> "none", slot |-> NoSlot, rnd |-> NoRound, val |-> NilValue, late |-> {}]

VARIABLES
    rnd, accepted,                 \* Acceptor, per replica
    leader, crnd, adu, nextSlot,   \* Proposer, per replica
    phaseOneDone, acceptMsgQueue, clientRequestQueue,
    call,                          \* the Proposer's outstanding quorum call
    learntVal,                     \* PaxosReplica: slot -> decided learn
    msgs,                          \* every message sent so far
    requested                      \* <<replica, value>>: requests queued by ClientHandle

acceptorVars == <<rnd, accepted>>
proposerVars == <<leader, crnd, adu, nextSlot, phaseOneDone, acceptMsgQueue,
                  clientRequestQueue, call>>
vars == <<acceptorVars, proposerVars, learntVal, msgs, requested>>

Init ==
    /\ rnd                = [a \in Replicas |-> InitRnd]
    /\ accepted           = [a \in Replicas |-> InitAccepted]
    /\ leader             = [r \in Replicas |-> InitialLeader]
    /\ crnd               = [r \in Replicas |-> MyIndex(r)]
    /\ adu                = [r \in Replicas |-> NoSlot]
    /\ nextSlot           = [r \in Replicas |-> NoSlot]
    /\ phaseOneDone       = [r \in Replicas |-> FALSE]
    /\ acceptMsgQueue     = [r \in Replicas |-> <<>>]
    /\ clientRequestQueue = [r \in Replicas |-> <<>>]
    /\ call               = [r \in Replicas |-> Idle]
    /\ learntVal          = [r \in Replicas |-> [s \in {} |-> NilValue]]
    /\ msgs               = {}
    /\ requested          = {}

-----------------------------------------------------------------------------
\* AddRequestToQ: the request is queued only if r believes it is the
\* leader; otherwise it is dropped.  requested records the queued requests.
AddRequestToQ(r, v) ==
    IF leader[r] = r
    THEN /\ clientRequestQueue' = [clientRequestQueue EXCEPT ![r] = Append(@, v)]
         /\ requested' = requested \cup {<<r, v>>}
    ELSE UNCHANGED <<clientRequestQueue, requested>>

(***************************************************************************)
(* ClientHandle: a client's request reaches replica r, which hands it to   *)
(* AddRequestToQ; the response to the client is not modelled.  isLeader    *)
(* is read outside the lock that guards the append, but a leader change in *)
(* between reaches the same state as one right after the append.           *)
(***************************************************************************)
ClientHandle(r, v) ==
    /\ <<r, v>> \notin requested
    /\ AddRequestToQ(r, v)
    /\ UNCHANGED <<acceptorVars, leader, crnd, adu, nextSlot, phaseOneDone,
                   acceptMsgQueue, call, learntVal, msgs>>

(***************************************************************************)
(* The run loop hands a trust message of the leader detector to newLeader: *)
(* phase one must be redone, a replica that becomes leader moves to its    *)
(* next round (rounds of replica i are i, i+N, i+2N, ...), and the quorum  *)
(* call in progress is abandoned.                                          *)
(* Only announcements that make r gain or lose the leadership are taken:  *)
(* r reads leader only through isLeader, so a change from one other leader *)
(* (or UnknownID) to another leaves every behaviour of r as it was.        *)
(***************************************************************************)
NewLeader(r, l) ==
    /\ (l = r) # (leader[r] = r)
    /\ l = r => crnd[r] + N <= MaxRound
    /\ leader'       = [leader EXCEPT ![r] = l]
    /\ crnd'         = IF l = r THEN [crnd EXCEPT ![r] = @ + N] ELSE crnd
    /\ phaseOneDone' = [phaseOneDone EXCEPT ![r] = FALSE]
    /\ call'         = [call EXCEPT ![r] = Idle]
    /\ UNCHANGED <<acceptorVars, adu, nextSlot, acceptMsgQueue,
                   clientRequestQueue, learntVal, msgs, requested>>

(***************************************************************************)
(* runPhaseOne, steps 1-2: the leader sends Prepare{Slot: adu+1, Crnd:     *)
(* crnd} to all replicas and blocks in the quorum call.                    *)
(***************************************************************************)
PrepareForAduSlot(r) == [slot |-> adu[r], crnd |-> crnd[r]]

\* runPhaseOne, step 1: the prepare for the current round and slot adu+1.
PrepareFor(r) == [slot |-> adu[r] + 1, crnd |-> crnd[r]]

\* The acceptors that already sent r a reply of the given type for the
\* slot and round: a new call with that message hears nothing more from them.
RepliedTo(r, type, slot, rnd_) ==
    {m.from : m \in {x \in msgs : /\ x.type = type /\ x.to = r /\ x.slot = slot
                                /\ (IF type = "promise" THEN x.crnd ELSE x.rnd) = rnd_}}

SendPrepare(r) ==
    /\ leader[r] = r
    /\ ~phaseOneDone[r]
    /\ call[r] = Idle
    /\ msgs' = msgs \cup {[type |-> "prepare", from |-> r] @@ PrepareFor(r)}
    /\ call' = [call EXCEPT ![r] = [kind |-> "prepare", slot |-> PrepareFor(r).slot,
                                    rnd |-> PrepareFor(r).crnd, val |-> NilValue,
                                    late |-> RepliedTo(r, "promise", PrepareFor(r).slot,
                                                      PrepareFor(r).crnd)]]
    /\ UNCHANGED <<acceptorVars, leader, crnd, adu, nextSlot, phaseOneDone,
                   acceptMsgQueue, clientRequestQueue, learntVal, requested>>

\* PaxosReplica.Prepare -> handlePrepare on acceptor a.
Prepare(a) ==
    \E m \in msgs :
        /\ m.type = "prepare"
        /\ ~PrepareIgnored(rnd[a], m)
        /\ rnd'  = [rnd EXCEPT ![a] = m.crnd]
        /\ msgs' = msgs \cup {[type |-> "promise", from |-> a, to |-> m.from,
                               slot |-> m.slot, crnd |-> m.crnd]
                              @@ PromiseFor(accepted[a], m)}
        /\ UNCHANGED <<accepted, proposerVars, learntVal, requested>>

(***************************************************************************)
(* gorums calls the quorum function again on every reply and returns at    *)
(* the first one that satisfies it: the replies R, one from each of        *)
(* distinct nodes, are where a call returns if they are in done (the reply *)
(* sets the quorum function accepts) and some arrival order reaches them   *)
(* without being in done one reply earlier.                                *)
(***************************************************************************)
ReturnsAt(R, done) ==
    /\ Cardinality({m.from : m \in R}) = Cardinality(R)
    /\ R \in done
    /\ \E m \in R : R \ {m} \notin done

\* The replies of a quorum call as the map handed to the quorum function.
ReplyMap(R, fields) ==
    [n \in {m.from : m \in R} |->
        LET m == CHOOSE x \in R : x.from = n
        IN  [f \in fields |-> m[f]]]

(***************************************************************************)
(* runPhaseOne, steps 3-6: the Prepare call returns once PrepareQF accepts *)
(* the promises received; every pvalue of the combined promise becomes a   *)
(* pending accept at the current round, nextSlot is set to adu+1 and phase *)
(* one is done.                                                            *)
(***************************************************************************)
PhaseOneDone(r) ==
    /\ call[r].kind = "prepare"
    /\ LET prepare  == [slot |-> call[r].slot, crnd |-> call[r].rnd]
           promises == {m \in msgs : /\ m.type = "promise" /\ m.to = r /\ m.from \notin call[r].late
                                     /\ m.slot = prepare.slot /\ m.crnd = prepare.crnd}
           qf(R)    == PrepareQF(Quorum, prepare, ReplyMap(R, {"rnd", "accepted"}))
           done     == {Q \in SUBSET promises : qf(Q)[2]}
       IN  \E R \in done :
              /\ ReturnsAt(R, done)
              /\ acceptMsgQueue' = [acceptMsgQueue EXCEPT ![r] =
                     [i \in DOMAIN qf(R)[1].accepted |->
                         [rnd |-> crnd[r], val |-> qf(R)[1].accepted[i].vval]]]
    /\ nextSlot'     = [nextSlot EXCEPT ![r] = adu[r] + 1]
    /\ phaseOneDone' = [phaseOneDone EXCEPT ![r] = TRUE]
    /\ call'         = [call EXCEPT ![r] = Idle]
    /\ UNCHANGED <<acceptorVars, leader, crnd, adu, clientRequestQueue,
                   learntVal, msgs, requested>>

(***************************************************************************)
(* runMultiPaxos -> performAccept: with phase one done, the leader takes   *)
(* the head of the accept queue, or else of the client request queue,      *)
(* increments nextSlot and sends Accept{Slot: nextSlot, Rnd: crnd} to all  *)
(* replicas, blocking in the quorum call.  With both queues empty it only  *)
(* waits, which changes nothing.                                           *)
(***************************************************************************)
SendAccept(r, val) ==
    /\ leader[r] = r
    /\ phaseOneDone[r]
    /\ call[r] = Idle
    /\ nextSlot[r] < MaxSlot
    /\ nextSlot' = [nextSlot EXCEPT ![r] = @ + 1]
    /\ msgs' = msgs \cup {[type |-> "accept", from |-> r, slot |-> nextSlot[r] + 1,
                           rnd |-> crnd[r], val |-> val]}
    /\ call' = [call EXCEPT ![r] = [kind |-> "accept", slot |-> nextSlot[r] + 1,
                                    rnd |-> crnd[r], val |-> val,
                                    late |-> RepliedTo(r, "learn", nextSlot[r] + 1, crnd[r])]]

ProposeQueuedAccept(r) ==
    /\ acceptMsgQueue[r] # <<>>
    /\ SendAccept(r, Head(acceptMsgQueue[r]).val)
    /\ acceptMsgQueue' = [acceptMsgQueue EXCEPT ![r] = Tail(@)]
    /\ UNCHANGED <<acceptorVars, leader, crnd, adu, phaseOneDone,
                   clientRequestQueue, learntVal, requested>>

ProposeClientRequest(r) ==
    /\ acceptMsgQueue[r] = <<>>
    /\ clientRequestQueue[r] # <<>>
    /\ SendAccept(r, Head(clientRequestQueue[r]))
    /\ clientRequestQueue' = [clientRequestQueue EXCEPT ![r] = Tail(@)]
    /\ UNCHANGED <<acceptorVars, leader, crnd, adu, phaseOneDone,
                   acceptMsgQueue, learntVal, requested>>

\* PaxosReplica.Accept -> handleAccept on acceptor a.
Accept(a) ==
    \E m \in msgs :
        /\ m.type = "accept"
        /\ ~AcceptIgnored(rnd[a], m)
        /\ rnd'      = [rnd EXCEPT ![a] = m.rnd]
        /\ accepted' = [accepted EXCEPT ![a] = VoteFor(@, m)]
        /\ msgs'     = msgs \cup {[type |-> "learn", from |-> a, to |-> m.from]
                                  @@ LearnFor(m)}
        /\ UNCHANGED <<proposerVars, learntVal, requested>>

(***************************************************************************)
(* performAccept returns once AcceptQF finds a quorum of matching learns;  *)
(* performCommit then multicasts the decided learn to every replica.       *)
(***************************************************************************)
CommitDecided(r) ==
    /\ call[r].kind = "accept"
    /\ LET accept == [slot |-> call[r].slot, rnd |-> call[r].rnd, val |-> call[r].val]
           learns == {m \in msgs : /\ m.type = "learn" /\ m.to = r /\ m.from \notin call[r].late
                                   /\ m.slot = accept.slot /\ m.rnd = accept.rnd}
           qf(R)  == AcceptQF(Quorum, accept, ReplyMap(R, {"slot", "rnd", "val"}))
           done   == {Q \in SUBSET learns : qf(Q)[2]}
       IN  \E R \in done :
              /\ ReturnsAt(R, done)
              /\ msgs' = msgs \cup {[type |-> "commit"] @@ qf(R)[1]}
    /\ call' = [call EXCEPT ![r] = Idle]
    /\ UNCHANGED <<acceptorVars, leader, crnd, adu, nextSlot, phaseOneDone,
                   acceptMsgQueue, clientRequestQueue, learntVal, requested>>

(***************************************************************************)
(* promiseTimeout / learnTimeout: the quorum call's context expires before  *)
(* the quorum function is satisfied, late replies or not.  The call returns *)
(* an error and runMultiPaxos returns: after a Prepare phase one is still  *)
(* not done, so the next pass prepares again in the same round and slot;   *)
(* after an Accept the request already taken from its queue and the slot   *)
(* already taken by nextSlot are not given back.                            *)
(***************************************************************************)
CallTimeout(r) ==
    /\ call[r] # Idle
    /\ call' = [call EXCEPT ![r] = Idle]
    /\ UNCHANGED <<acceptorVars, leader, crnd, adu, nextSlot, phaseOneDone,
                   acceptMsgQueue, clientRequestQueue, learntVal, msgs, requested>>

\* The highest slot from which every slot down to 1 is in the decided log.
RECURSIVE DecidedUpTo(_, _)
DecidedUpTo(log, s) == IF s + 1 \in DOMAIN log THEN DecidedUpTo(log, s + 1) ELSE s

(***************************************************************************)
(* PaxosReplica.Commit: the first learn received for a slot is stored;     *)
(* adu then advances over every slot that is now decided without a gap.   *)
(***************************************************************************)
Commit(r) ==
    \E m \in msgs :
        /\ m.type = "commit"
        /\ m.slot \notin DOMAIN learntVal[r]
        /\ LET log == learntVal[r] @@ (m.slot :> [slot |-> m.slot, rnd |-> m.rnd, val |-> m.val])
           IN  /\ learntVal' = [learntVal EXCEPT ![r] = log]
               /\ adu' = [adu EXCEPT ![r] = DecidedUpTo(log, @)]
        /\ UNCHANGED <<acceptorVars, leader, crnd, nextSlot, phaseOneDone,
                       acceptMsgQueue, clientRequestQueue, call, msgs, requested>>

-----------------------------------------------------------------------------
Next ==
    \/ \E r \in Replicas, v \in Values : ClientHandle(r, v)
    \/ \E r, l \in Replicas : NewLeader(r, l)
    \/ \E r \in Replicas :
          \/ SendPrepare(r)
          \/ PhaseOneDone(r)
          \/ ProposeQueuedAccept(r)
          \/ ProposeClientRequest(r)
          \/ CommitDecided(r)
          \/ CallTimeout(r)
          \/ Commit(r)
    \/ \E a \in Replicas : Prepare(a) \/ Accept(a)

Spec == Init /\ [][Next]_vars

-----------------------------------------------------------------------------
\* Every variable holds what the Go fields can hold.
TypeOK ==
    /\ rnd \in [Replicas -> {NoRound} \cup 0..MaxRound]
    /\ \A a \in Replicas : \A s \in DOMAIN accepted[a] :
           accepted[a][s] \in [slot: {s}, vrnd: 0..MaxRound, vval: Values \cup {NoOp}]
    /\ leader \in [Replicas -> Replicas \cup {UnknownID}]
    /\ crnd \in [Replicas -> 0..MaxRound]
    /\ adu \in [Replicas -> 0..MaxSlot]
    /\ nextSlot \in [Replicas -> 0..MaxSlot]
    /\ phaseOneDone \in [Replicas -> BOOLEAN]
    /\ acceptMsgQueue \in [Replicas -> Seq([rnd: 0..MaxRound, val: Values \cup {NoOp}])]
    /\ clientRequestQueue \in [Replicas -> Seq(Values)]
    /\ call \in [Replicas -> {Idle} \cup
                  [kind: {"prepare", "accept"}, slot: Slots, rnd: 0..MaxRound,
                   val: Values \cup {NoOp, NilValue}, late: SUBSET Replicas]]
    /\ \A m \in msgs :
           \/ /\ m.type \in {"prepare", "promise"}
              /\ m.slot \in Slots /\ m.crnd \in 0..MaxRound
           \/ /\ m.type \in {"accept", "learn", "commit"}
              /\ m.slot \in Slots /\ m.rnd \in 0..MaxRound /\ m.val \in Values \cup {NoOp}
    /\ requested \subseteq Replicas \X Values

\* A learn for the given accept was sent by a quorum of acceptors.
Chosen(accept) ==
    Cardinality({m.from : m \in {l \in msgs : /\ l.type = "learn"
                                             /\ l.slot = accept.slot
                                             /\ l.rnd = accept.rnd
                                             /\ l.val = accept.val}}) >= Quorum

(***************************************************************************)
(* Once a quorum of acceptors has accepted a value for a slot, no leader   *)
(* of a later round proposes another value for that slot: phase one of     *)
(* every later leader (handlePrepare's promises, PrepareQF's merge and     *)
(* runPhaseOne's accept queue) must carry the chosen value forward, even   *)
(* across leader changes and calls abandoned halfway.                      *)
(***************************************************************************)
ChosenValueLocked ==
    LET accepts == {m \in msgs : m.type = "accept"}
    IN  \A c \in {a \in accepts : Chosen(a)}, m \in accepts :
            (c.slot = m.slot /\ c.rnd < m.rnd) => m.val = c.val

\* The values committed for slot s by performCommit.
CommittedIn(s) == {m.val : m \in {c \in msgs : c.type = "commit" /\ c.slot = s}}

Abstract == INSTANCE Consensus WITH
                decided   <- [s \in Slots |-> CommittedIn(s)],
                submitted <- {rv[2] : rv \in requested}

(***************************************************************************)
(* The replicas implement the replicated log: the learns multicast by      *)
(* performCommit decide each slot at most once, never change a decision,   *)
(* and only decide values that ClientHandle received or the no-op.         *)
(***************************************************************************)
ImplementsConsensus == Abstract!Spec

-----------------------------------------------------------------------------
(***************************************************************************)
(* The run loop and the gRPC handlers are goroutines that keep running, so *)
(* a step that stays enabled is eventually taken.  Leader announcements    *)
(* and client requests come from the environment and are not assumed.     *)
(***************************************************************************)
Fairness ==
    /\ \A r \in Replicas :
          /\ WF_vars(SendPrepare(r)) /\ WF_vars(PhaseOneDone(r))
          /\ WF_vars(ProposeQueuedAccept(r)) /\ WF_vars(ProposeClientRequest(r))
          /\ WF_vars(CommitDecided(r)) /\ WF_vars(Commit(r))
    /\ \A a \in Replicas : WF_vars(Prepare(a)) /\ WF_vars(Accept(a))

FairSpec == Spec /\ Fairness

(***************************************************************************)
(* Commit's comment: a learn for a slot beyond the next one is buffered    *)
(* and delivered once the slots before it are, and ClientHandle answers a  *)
(* request only once it is delivered.  So every slot a replica has learnt  *)
(* is eventually delivered: its adu reaches that slot.                     *)
(***************************************************************************)
LearntSlotsDelivered ==
    \A r \in Replicas, s \in Slots :
        s \in DOMAIN learntVal[r] ~> adu[r] >= s

=============================================================================
