-------------------------- MODULE ReplicaLifecycle --------------------------
(***************************************************************************)
(* Starting and stopping a lab5 PaxosReplica (gorumspaxos/replica.go).    *)
(* NewPaxosReplica calls run, which starts two goroutines: the run loop,   *)
(* blocked in a receive on the unbuffered stop channel, and a goroutine    *)
(* that creates the failure detector's configuration (returning if that  *)
(* fails) and then calls failureDetector.Start.  Stop checks and sets the *)
(* unsynchronised stopped flag, stops the failure detector, sends on stop  *)
(* and closes the managers and the server.  Each statement of Stop is a    *)
(* step of its own, so concurrent Stop callers interleave between them.    *)
(*                                                                         *)
(* The gorumsfd detector is taken at its documented contract               *)
(* (gorumsfd/failuredetector.go): Start runs a loop that sends heartbeats  *)
(* until it is told to stop; Stop ends that loop, or returns at once if    *)
(* it is not running.                                                      *)
(***************************************************************************)
CONSTANTS Callers,        \* goroutines that call Stop once each
          Serialized,     \* does each Stop call start after the last returned?
          ConfigMayFail   \* may fdManager.NewConfiguration fail?

VARIABLES stopped,   \* the replica's stopped field
          pc,        \* Stop caller -> its next statement, or "idle" / "returned"
          loop,      \* the run loop goroutine: "waiting" on stop, or "exited"
          fdg,       \* the detector goroutine: "configure", "start" or "done"
          fdLoop,    \* the detector's loop: "new", "running" or "stopped"
          closed     \* managers closed and server stopped

vars == <<stopped, pc, loop, fdg, fdLoop, closed>>

\* NewPaxosReplica, which ends by calling run: both goroutines started.
Init ==
    /\ stopped = FALSE
    /\ pc      = [c \in Callers |-> "idle"]
    /\ loop    = "waiting"
    /\ fdg     = "configure"
    /\ fdLoop  = "new"
    /\ closed  = FALSE

\* A caller invokes Stop; serialized callers wait for the previous call.
CallStop(c) ==
    /\ pc[c] = "idle"
    /\ Serialized => \A d \in Callers \ {c} : pc[d] \in {"idle", "returned"}
    /\ pc' = [pc EXCEPT ![c] = "check"]
    /\ UNCHANGED <<stopped, loop, fdg, fdLoop, closed>>

\* if r.stopped { return }
AlreadyStopped == stopped

StopCheck(c) ==
    /\ pc[c] = "check"
    /\ pc' = [pc EXCEPT ![c] = IF AlreadyStopped THEN "returned" ELSE "set"]
    /\ UNCHANGED <<stopped, loop, fdg, fdLoop, closed>>

\* r.stopped = true
StopSet(c) ==
    /\ pc[c] = "set"
    /\ stopped' = TRUE
    /\ pc' = [pc EXCEPT ![c] = "fdStop"]
    /\ UNCHANGED <<loop, fdg, fdLoop, closed>>

\* r.failureDetector.Stop(): ends the detector's loop if it runs.
StopDetector(c) ==
    /\ pc[c] = "fdStop"
    /\ fdLoop' = IF fdLoop = "running" THEN "stopped" ELSE fdLoop
    /\ pc' = [pc EXCEPT ![c] = "send"]
    /\ UNCHANGED <<stopped, loop, fdg, closed>>

\* r.stop <- struct{}{}: completes only together with the run loop's receive.
StopSend(c) ==
    /\ pc[c] = "send"
    /\ loop = "waiting"
    /\ loop' = "exited"
    /\ pc' = [pc EXCEPT ![c] = "close"]
    /\ UNCHANGED <<stopped, fdg, fdLoop, closed>>

\* fdManager.Close, paxosManager.Close and srv.Stop.
StopClose(c) ==
    /\ pc[c] = "close"
    /\ closed' = TRUE
    /\ pc' = [pc EXCEPT ![c] = "returned"]
    /\ UNCHANGED <<stopped, loop, fdg, fdLoop>>

\* run's second goroutine: NewConfiguration, returning on an error.
FDConfigure ==
    /\ fdg = "configure"
    /\ fdg' \in IF ConfigMayFail THEN {"start", "done"} ELSE {"start"}
    /\ UNCHANGED <<stopped, pc, loop, fdLoop, closed>>

\* r.failureDetector.Start(hbSender), whatever Stop has done meanwhile.
FDStart ==
    /\ fdg = "start"
    /\ fdg' = "done"
    /\ fdLoop' = "running"
    /\ UNCHANGED <<stopped, pc, loop, closed>>

Next ==
    \/ FDConfigure \/ FDStart
    \/ \E c \in Callers :
          CallStop(c) \/ StopCheck(c) \/ StopSet(c) \/ StopDetector(c)
          \/ StopSend(c) \/ StopClose(c)

(***************************************************************************)
(* Every goroutine that can take a step eventually does: the statements of *)
(* a Stop call in progress, the stop rendezvous and the detector          *)
(* goroutine are weakly fair.  Calling Stop is up to the environment.     *)
(***************************************************************************)
Fairness ==
    /\ WF_vars(FDConfigure) /\ WF_vars(FDStart)
    /\ \A c \in Callers :
          /\ WF_vars(StopCheck(c)) /\ WF_vars(StopSet(c))
          /\ WF_vars(StopDetector(c)) /\ WF_vars(StopSend(c))
          /\ WF_vars(StopClose(c))

Spec == Init /\ [][Next]_vars /\ Fairness

-----------------------------------------------------------------------------
(***************************************************************************)
(* Every Stop call returns.  The stopped flag is meant to turn a second    *)
(* Stop into a no-op; a second caller that gets past the check sends on    *)
(* the unbuffered stop channel after the run loop has exited.              *)
(***************************************************************************)
StopReturns == \A c \in Callers : pc[c] # "idle" ~> pc[c] = "returned"

(***************************************************************************)
(* Once a Stop call has returned, the failure detector is not running: the *)
(* Stop comment says it stops the failure detector, and its loop would     *)
(* otherwise keep sending heartbeats through the closed manager.           *)
(***************************************************************************)
DetectorStoppedWithReplica ==
    (\E c \in Callers : pc[c] = "returned") => fdLoop # "running"

=============================================================================
