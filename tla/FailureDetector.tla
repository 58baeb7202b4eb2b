--------------------------- MODULE FailureDetector --------------------------
(***************************************************************************)
(* The eventually perfect failure detector of                             *)
(* lab3/failuredetector/failuredetector.go (EvtFailureDetector) at node    *)
(* Self, feeding its SuspectRestorer, the leader detector.                 *)
(*                                                                         *)
(* Time is counted in ticks; delay is a multiple of delta (delta = 1).     *)
(* The run loop's ticker fires every delay ticks and runs timeout, which   *)
(* sends a heartbeat request to every node, Self included.  A node that    *)
(* has not crashed answers, and its reply reaches Self latency[p] ticks    *)
(* after the request; Deliver then marks the sender alive.  Nodes crash    *)
(* and never recover; latencies are unknown but fixed, which is the        *)
(* partial synchrony the adaptive delay is meant for.                      *)
(***************************************************************************)
EXTENDS LeaderDetector

CONSTANTS Self,        \* id of the node running the detector
          MaxLatency   \* bound on the round-trip time of a heartbeat

Nodes == NodeIDs

VARIABLES alive, suspected, delay,   \* EvtFailureDetector fields
          elapsed,                   \* ticks since the ticker last fired
          inflight,                  \* node -> ticks left for its replies
          latency, crashed,          \* the environment
          ld                         \* the leader detector (sr)

vars == <<alive, suspected, delay, elapsed, inflight, latency, crashed, ld>>

(***************************************************************************)
(* NewEvtFailureDetector and Start: every node alive, none suspected, the  *)
(* delay at delta and no heartbeat sent yet.                               *)
(***************************************************************************)
Init ==
    /\ alive     = Nodes
    /\ suspected = {}
    /\ delay     = 1
    /\ elapsed   = 0
    /\ inflight  = [p \in Nodes |-> {}]
    /\ latency   \in [Nodes -> 1..MaxLatency]
    /\ crashed   = {}
    /\ ld        = InitLD

\* Variants of the delay adjustment after a timeout that restored the nodes
\* restored: per node, never, or shrinking after a quiet period.
DelayIncreaseNever(restored) == 0
DelayIncreaseOrShrink(restored) == IF restored = {} THEN -1 ELSE 1

\* timeout, step 4: delay grows by delta once if any node was restored.
DelayIncrease(restored) == IF restored = {} THEN 0 ELSE 1

ClearAliveNever(alive_) == alive_

\* timeout, step 2: nodes neither alive nor suspected become suspects.
NewSuspects(alive_, suspected_) ==
    {p \in Nodes : p \notin alive_ /\ p \notin suspected_}

RestoredAllSuspected(alive_, suspected_) == suspected_

\* timeout, step 3: nodes both alive and suspected are restored.
Restored(alive_, suspected_) == {p \in Nodes : p \in alive_ /\ p \in suspected_}

\* timeout, step 5: the alive set starts empty for the next period.
ClearAlive(alive_) == {}

(***************************************************************************)
(* timeout, run when the ticker fires: nodes neither alive nor suspected   *)
(* are suspected and reported with Suspect; nodes both alive and suspected *)
(* are restored with Restore and the delay grows; alive is cleared and a   *)
(* heartbeat request goes to every node, the timer restarting with the     *)
(* (possibly larger) delay.                                                *)
(***************************************************************************)
Timeout ==
    /\ elapsed = delay
    /\ LET newSuspects == NewSuspects(alive, suspected)
           restored    == Restored(alive, suspected)
       IN  /\ suspected' = (suspected \cup newSuspects) \ restored
           /\ delay'     = delay + DelayIncrease(restored)
           /\ ld'        = FoldSet(LAMBDA p, l : RestoreLD(l, p),
                                   FoldSet(LAMBDA p, l : SuspectLD(l, p), ld, newSuspects),
                                   restored)
    /\ alive'    = ClearAlive(alive)
    /\ elapsed'  = 0
    /\ inflight' = [p \in Nodes |-> IF p \in crashed THEN inflight[p]
                                    ELSE inflight[p] \cup {latency[p]}]
    /\ UNCHANGED <<latency, crashed>>

\* One tick passes; a reply that is due, or the ticker, goes first.
Tick ==
    /\ elapsed < delay
    /\ \A p \in Nodes : 0 \notin inflight[p]
    /\ elapsed'  = elapsed + 1
    /\ inflight' = [p \in Nodes |-> {t - 1 : t \in inflight[p]}]
    /\ UNCHANGED <<alive, suspected, delay, latency, crashed, ld>>

(***************************************************************************)
(* Deliver of a heartbeat reply from p, taken by the run loop's hbRecv     *)
(* case: p is alive in the current period.                                 *)
(***************************************************************************)
DeliverReply(p) ==
    /\ 0 \in inflight[p]
    /\ alive'    = alive \cup {p}
    /\ inflight' = [inflight EXCEPT ![p] = @ \ {0}]
    /\ UNCHANGED <<suspected, delay, elapsed, latency, crashed, ld>>

\* A node other than Self crashes for good; replies already on their way
\* still arrive.
Crash(p) ==
    /\ p # Self
    /\ p \notin crashed
    /\ crashed' = crashed \cup {p}
    /\ UNCHANGED <<alive, suspected, delay, elapsed, inflight, latency, ld>>

Next ==
    \/ Timeout
    \/ Tick
    \/ \E p \in Nodes : DeliverReply(p) \/ Crash(p)

(***************************************************************************)
(* The run loop is a goroutine that keeps selecting, the ticker keeps      *)
(* firing and a reply on its way is delivered: all three are weakly fair.  *)
(* Crashes are up to the environment.                                      *)
(***************************************************************************)
Fairness == WF_vars(Timeout) /\ WF_vars(Tick) /\ \A p \in Nodes : WF_vars(DeliverReply(p))

Spec == Init /\ [][Next]_vars /\ Fairness

-----------------------------------------------------------------------------
TypeOK ==
    /\ alive \subseteq Nodes
    /\ suspected \subseteq Nodes
    /\ delay \in Nat /\ elapsed \in 0..delay
    /\ inflight \in [Nodes -> SUBSET (0..MaxLatency)]
    /\ crashed \subseteq Nodes \ {Self}
    /\ ld.suspected \subseteq Nodes

Correct == Nodes \ crashed

(***************************************************************************)
(* The adaptive timeout settles: timeout raises delay only after a false   *)
(* suspicion, and a correct node is falsely suspected only while delay is  *)
(* at most its latency.  The run loop's select may take the ticker before  *)
(* a reply due at the same instant, and that reply then restores its node  *)
(* one period later, after another restore may already have raised delay:  *)
(* so delay may pass the largest latency by two deltas, never by more.     *)
(* A timeout that restored nodes that did not answer would overshoot.     *)
(***************************************************************************)
DelayBounded == delay <= MaxLatency + 2

(***************************************************************************)
(* Strong completeness: a crashed node is eventually suspected for good,   *)
(* because timeout clears alive and a crashed node never answers again.    *)
(***************************************************************************)
StrongCompleteness == \A p \in Nodes : p \in crashed ~> [](p \in suspected)

(***************************************************************************)
(* Eventual strong accuracy: from some point on no correct node is         *)
(* suspected, because each false suspicion raises delay.                   *)
(***************************************************************************)
EventualStrongAccuracy == <>[](suspected \cap Correct = {})

(***************************************************************************)
(* The leader detector fed by the failure detector eventually and forever  *)
(* publishes the highest correct node as leader, which is what the        *)
(* replicas' run loops hand to newLeader.                                  *)
(***************************************************************************)
EventualLeader == <>[](ld.published = LeaderOf(Nodes \ Correct))

=============================================================================
