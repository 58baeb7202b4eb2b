----------------------------- MODULE FDChannels -----------------------------
(***************************************************************************)
(* The goroutines and channels of lab3/failuredetector/failuredetector.go: *)
(* the run loop Start launches, which selects on hbRecv, the ticker and    *)
(* stop; Deliver, which sends into hbRecv (capacity 8); the heartbeats the *)
(* loop sends into hbSend (capacity 16) and a reader drains through        *)
(* Heartbeats(); and Stop, which sends on the unbuffered stop channel.     *)
(*                                                                         *)
(* A heartbeat is reduced to its type (hbRequest or hbReply): a request is *)
(* answered with a reply into hbSend, a reply only marks its sender alive. *)
(* hbRecv is kept as the number of requests and replies in it; the loop    *)
(* may take either first, which over-approximates the FIFO order.          *)
(***************************************************************************)
EXTENDS Naturals, FiniteSets

CONSTANTS NodeIDs,          \* the nodes timeout sends a heartbeat request to
          StopCallers       \* goroutines that call Stop once each

HbRecvCap == 8
HbSendCap == 16

VARIABLES loop,      \* "select", "sendRequests", "sendReply" or "exited"
          pending,   \* heartbeat requests timeout has still to send
          recvReq, recvRep,   \* requests and replies buffered in hbRecv
          sendLen,   \* heartbeats buffered in hbSend
          tick,      \* the ticker's channel holds a tick (capacity 1)
          deliver,   \* the transport: "idle" or the type it is delivering
          stopper    \* Stop caller -> "idle", "sending" or "returned"

vars == <<loop, pending, recvReq, recvRep, sendLen, tick, deliver, stopper>>

\* NewEvtFailureDetector and Start: empty channels, the loop selecting.
Init ==
    /\ loop = "select" /\ pending = 0
    /\ recvReq = 0 /\ recvRep = 0 /\ sendLen = 0
    /\ tick = FALSE
    /\ deliver = "idle"
    /\ stopper = [c \in StopCallers |-> "idle"]

Stopped == \E c \in StopCallers : stopper[c] # "idle"

\* The time.Ticker fires; a tick nobody has taken yet is dropped.
Tick ==
    /\ tick' = TRUE
    /\ UNCHANGED <<loop, pending, recvReq, recvRep, sendLen, deliver, stopper>>

\* The select's timeout case runs timeout(): one request per node.
TimeoutRequestsOneExtra == Cardinality(NodeIDs) + 1

TimeoutRequests == Cardinality(NodeIDs)

RecvTick ==
    /\ loop = "select" /\ tick
    /\ tick' = FALSE
    /\ loop' = "sendRequests" /\ pending' = TimeoutRequests
    /\ UNCHANGED <<recvReq, recvRep, sendLen, deliver, stopper>>

\* timeout's sends into hbSend block while the buffer is full.
SendRequest ==
    /\ loop = "sendRequests" /\ sendLen < HbSendCap
    /\ sendLen' = sendLen + 1
    /\ pending' = pending - 1
    /\ loop' = IF pending = 1 THEN "select" ELSE "sendRequests"
    /\ UNCHANGED <<recvReq, recvRep, tick, deliver, stopper>>

\* The select's hbRecv case: a request is answered, a reply is noted.
RecvRequest ==
    /\ loop = "select" /\ recvReq > 0
    /\ recvReq' = recvReq - 1
    /\ loop' = "sendReply"
    /\ UNCHANGED <<pending, recvRep, sendLen, tick, deliver, stopper>>

RecvReply ==
    /\ loop = "select" /\ recvRep > 0
    /\ recvRep' = recvRep - 1
    /\ UNCHANGED <<loop, pending, recvReq, sendLen, tick, deliver, stopper>>

SendReply ==
    /\ loop = "sendReply" /\ sendLen < HbSendCap
    /\ sendLen' = sendLen + 1
    /\ loop' = "select"
    /\ UNCHANGED <<pending, recvReq, recvRep, tick, deliver, stopper>>

\* Stop: the send on the unbuffered stop channel completes only when the
\* loop's select takes it; the loop then returns.
CallStop(c) ==
    /\ stopper[c] = "idle"
    /\ stopper' = [stopper EXCEPT ![c] = "sending"]
    /\ UNCHANGED <<loop, pending, recvReq, recvRep, sendLen, tick, deliver>>

SelectTakesStopWhenIdle(c) ==
    /\ loop = "select" /\ stopper[c] = "sending"
    /\ recvReq + recvRep = 0 /\ ~tick

SelectTakesStop(c) == loop = "select" /\ stopper[c] = "sending"

RecvStop(c) ==
    /\ SelectTakesStop(c)
    /\ loop' = "exited"
    /\ stopper' = [stopper EXCEPT ![c] = "returned"]
    /\ UNCHANGED <<pending, recvReq, recvRep, sendLen, tick, deliver>>

\* The transport hands a heartbeat to Deliver, which blocks while hbRecv
\* is full; it makes no new call once Stop has been called.
CallDeliver(type) ==
    /\ deliver = "idle"
    /\ ~Stopped
    /\ deliver' = type
    /\ UNCHANGED <<loop, pending, recvReq, recvRep, sendLen, tick, stopper>>

Deliver ==
    /\ deliver # "idle" /\ recvReq + recvRep < HbRecvCap
    /\ recvReq' = IF deliver = "request" THEN recvReq + 1 ELSE recvReq
    /\ recvRep' = IF deliver = "reply" THEN recvRep + 1 ELSE recvRep
    /\ deliver' = "idle"
    /\ UNCHANGED <<loop, pending, sendLen, tick, stopper>>

\* The reader of Heartbeats() takes one heartbeat to the network.
ReadHeartbeat ==
    /\ sendLen > 0
    /\ sendLen' = sendLen - 1
    /\ UNCHANGED <<loop, pending, recvReq, recvRep, tick, deliver, stopper>>

Next ==
    \/ Tick \/ RecvTick \/ SendRequest \/ RecvRequest \/ RecvReply \/ SendReply
    \/ Deliver \/ ReadHeartbeat
    \/ \E t \in {"request", "reply"} : CallDeliver(t)
    \/ \E c \in StopCallers : CallStop(c) \/ RecvStop(c)

(***************************************************************************)
(* A goroutine that can run eventually runs: the loop's sends, a blocked  *)
(* Deliver and the reader are weakly fair.  Go's select picks uniformly at *)
(* random among its ready cases, so a case ready again and again is taken *)
(* with probability one: the select's cases are strongly fair, and a stop *)
(* is not starved by a ticker that fires whenever the loop comes back.     *)
(* Ticks, new Deliver calls and Stop calls are up to the environment.      *)
(***************************************************************************)
Fairness ==
    /\ SF_vars(RecvTick) /\ SF_vars(RecvRequest) /\ SF_vars(RecvReply)
    /\ WF_vars(SendRequest) /\ WF_vars(SendReply) /\ WF_vars(Deliver)
    /\ WF_vars(ReadHeartbeat)
    /\ \A c \in StopCallers : SF_vars(RecvStop(c))

Spec == Init /\ [][Next]_vars /\ Fairness

-----------------------------------------------------------------------------
TypeOK ==
    /\ loop \in {"select", "sendRequests", "sendReply", "exited"}
    /\ pending \in 0..Cardinality(NodeIDs)
    /\ recvReq + recvRep \in 0..HbRecvCap
    /\ sendLen \in 0..HbSendCap
    /\ deliver \in {"idle", "request", "reply"}
    /\ stopper \in [StopCallers -> {"idle", "sending", "returned"}]

(***************************************************************************)
(* Every Stop call returns: the loop gets back to its select even when     *)
(* hbSend is full and Deliver keeps hbRecv busy, and takes the stop.       *)
(***************************************************************************)
StopReturns ==
    \A c \in StopCallers : stopper[c] = "sending" ~> stopper[c] = "returned"

(***************************************************************************)
(* Every Deliver call returns: the loop keeps draining hbRecv, and a       *)
(* Deliver that races with Stop does not block for good (the Deliver       *)
(* comment says a Deliver after Stop panics, never that it hangs).         *)
(***************************************************************************)
DeliverReturns == deliver # "idle" ~> deliver = "idle"

=============================================================================
