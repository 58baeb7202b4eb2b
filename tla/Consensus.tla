------------------------------ MODULE Consensus ------------------------------
(***************************************************************************)
(* What the replicated log of lab5/gorumspaxos promises its clients, with  *)
(* no rounds, acceptors or messages: a slot is decided at most once, a     *)
(* decision is never revoked, and what is decided is a value some client   *)
(* submitted or the no-op that fills a gap.                                *)
(***************************************************************************)
CONSTANTS Slots, Values, NoOp

VARIABLES decided,    \* slot -> the set of values decided there (at most one)
          submitted   \* values clients have handed to some replica

Init ==
    /\ decided   = [s \in Slots |-> {}]
    /\ submitted = {}

Submit(v) ==
    /\ submitted' = submitted \cup {v}
    /\ UNCHANGED decided

Decide(s, v) ==
    /\ decided[s] = {}
    /\ v \in submitted \cup {NoOp}
    /\ decided'   = [decided EXCEPT ![s] = {v}]
    /\ UNCHANGED submitted

Next == \/ \E v \in Values : Submit(v)
        \/ \E s \in Slots, v \in Values \cup {NoOp} : Decide(s, v)

Spec == Init /\ [][Next]_<<decided, submitted>>

=============================================================================
