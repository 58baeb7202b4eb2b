# TLA+ models of the distributed-systems labs

This directory holds TLA+ models of the labs in `src/assignments-main`:

- the gorums Multi-Paxos replicated log (`lab5/gorumspaxos`);
- its message-passing predecessor (`lab4/multipaxos`);
- the failure and leader detectors (`lab3`);
- the poll (`lab2/poll`): the poll master's quorum call, the participant
  command, and the poll master command composed with both.

Most algorithm bodies in the repository are `TODO(student)` stubs. The
behaviour they must have is fixed by four sources:

- the doc comments of the stubbed functions;
- the test tables;
- the parts that are implemented:
  - `proto/validation.go`
  - `PaxosReplica.Commit` (the first-writer-wins store)
  - `PaxosReplica.Stop` and `run`
  - `AddRequestToQ`, `myIndex`, `NewProposer`
  - the failure detector's `Start`, `Stop`, `Deliver` and channels
- `spec.md`.

Every definition is written from those lines, and `PROJECT.json` "map" names
them. Where comments, tests and `spec.md` disagree, the model follows the
code's comments and tests, and the disagreement is recorded as a finding.

## The system

| Part | Source | What it does |
|------|--------|--------------|
| Acceptor | `lab5/gorumspaxos/acceptor.go` | `rnd` and the votes (one PValue per slot). It answers Prepare with a Promise and Accept with a Learn. |
| Proposer | `lab5/gorumspaxos/proposer.go` | `crnd`, `adu`, `nextSlot`, `phaseOneDone` and two queues. Phase one and phase two run only while it believes it leads. |
| Quorum functions | `lab5/gorumspaxos/qspecs.go`, `proto/validation.go` | `PrepareQF` merges promises, `AcceptQF` detects a decision, `ClientHandleQF` matches answers. gorums re-runs each one on every reply. |
| Replica | `lab5/gorumspaxos/replica.go` | Embeds an Acceptor and a Proposer, and serves `Prepare`, `Accept`, `Commit` and `ClientHandle`. `run` starts the run loop and the failure detector. `Stop` tears everything down. |
| lab4 handlers | `lab4/multipaxos` | Message-at-a-time `handlePromise` (counts promises, returns accepts) and `handleLearn` (counts learns per slot). |
| Leader detector | `lab3/leaderdetector` (tests only) | The leader is the highest id that is not suspected. It publishes each change to its subscribers. |
| Eventually perfect FD | `lab3/failuredetector` | A run loop selects over `hbRecv` (capacity 8), a ticker and `stop`. `timeout` suspects and restores nodes, grows `delay`, and sends requests into `hbSend` (capacity 16). |
| Gorums FD | `lab3/gorumsfd` | Same algorithm over gorums multicast. Everything is a stub except its documented Start/Stop contract. |
| Poll | `lab2/poll` | The master asks every participant a question. `SendQuestionQF` picks the majority answer. |
| Poll master command | `lab2/poll/cmd/pollmaster/main.go` | Reads a question and at least two options from stdin, numbers it with `questionId`, calls `HandleQuestion` and prints nil, `InconclusiveAnswer` or the chosen option. |
| Participant command | `lab2/poll/cmd/participant/main.go` | Four goroutines over unbuffered channels: `ReadFromCmd` sends stdin lines on `cmdChan`; `main` turns them into answers on `answerChan` or, on "exit", closes both channels and deregisters; `writeQuestion` prints what arrives on `qChan`; `HandleQuestion` shows the question and selects between `answerChan` and a `QuestionTimeout` timer. |

How the Paxos parts interact:

1. The failure detector feeds `Suspect`/`Restore` to the leader detector.
2. The leader detector publishes leaders to the replica's run loop, which
   resets the proposer.
3. The proposer issues quorum calls (`Prepare`, `Accept`, then the `Commit`
   multicast) to every node.
4. Clients issue a `ClientHandle` quorum call to all replicas.

## Modules

| Module | Models | State | Actions / operators |
|--------|--------|-------|---------------------|
| `PaxosQSpec` | `qspecs.go`, `proto/validation.go` | none (pure) | `PValueIsValid`, `PromiseIsValid`, `AcceptMatch`, `ValueMatch`, `MergePValue`, `BestPValues`, `PrepareQF`, `AcceptQF`, `ClientHandleQF`, `QuorumSize` |
| `MCPaxosQSpec` | one `PrepareQF` quorum call | `replies` | `Arrive`: one more promise, and the quorum function runs again |
| `Acceptor` | `acceptor.go` | operators over `rnd`/`accepted` | `PrepareIgnored`, `PromiseFor`, `AcceptIgnored`, `VoteFor`, `LearnFor` |
| `MultiPaxos` | `proposer.go`, `replica.go`, with `Acceptor` and `PaxosQSpec` | per replica: acceptor, proposer and `learntVal`; shared `msgs` | `ClientHandle` (with `AddRequestToQ`), `NewLeader`, `SendPrepare`, `Prepare`, `PhaseOneDone`, `ProposeQueuedAccept`, `ProposeClientRequest`, `Accept`, `CommitDecided`, `CallTimeout`, `Commit` |
| `Consensus` | what the replicated log promises (`spec.md` §1, §4.6) | `decided`, `submitted` | `Submit`, `Decide` |
| `PaxosHandlers`, `MCPaxosHandlers` | `lab4/multipaxos` `handlePromise`, `handleLearn`, with `Acceptor` | `rnd`, `accepted`, `promises`, `promiseCount`, `learner`, `msgs` | `SendPrepare`, `Prepare`, `Accept`, `HandlePromise`, `HandleLearn` |
| `LeaderDetector` | `leaderdetector_test.go`, the `Suspecter`/`Restorer` interfaces | operators over `[suspected, published]` | `LeaderOf`, `SuspectLD`, `RestoreLD`, `Publish` |
| `FailureDetector` | `failuredetector.go` timing: `timeout`, ticker, `Deliver` of replies | `alive`, `suspected`, `delay`, `elapsed`, `inflight`, `latency`, `crashed`, `ld` | `Timeout`, `Tick`, `DeliverReply`, `Crash` |
| `FDChannels` | `failuredetector.go` goroutines and channels | `loop`, `pending`, `recvReq`/`recvRep` (hbRecv), `sendLen` (hbSend), `tick`, `deliver`, `stopper` | `Tick`, `RecvTick`, `SendRequest`, `RecvRequest`, `RecvReply`, `SendReply`, `CallDeliver`, `Deliver`, `ReadHeartbeat`, `CallStop`, `RecvStop` |
| `ReplicaLifecycle` | `replica.go` `NewPaxosReplica`, `run`, `Stop`; the gorumsfd Start/Stop contract | `stopped`, `pc` per Stop caller, `loop`, `fdg`, `fdLoop`, `closed` | `CallStop`, `StopCheck`, `StopSet`, `StopDetector`, `StopSend`, `StopClose`, `FDConfigure`, `FDStart` |
| `PollQF` | `poll_master.go` `HandleQuestion`/`SendQuestionQF` comments, `defs.go` | `replies`, `status`, `answer` | `ArriveAt` (a reply to question `id` from a configuration), `Arrive`, `Timeout` |
| `ParticipantCmd` | `cmd/participant/main.go` | `line` (reader), `mainPc`, `held`, `cmdClosed`, `ansClosed`, `registered`, `shown`, `hq`, `q`, `asked`, `results`, `panicked` | `ReadLine`, `RecvExit`, `RecvJunk`, `RecvAnswer`, `CloseCmd`, `CloseAns`, `Deregister`, `MainBreak`, `ReaderPanics`, `Ask`, `ShowQuestion`, `AnswerRendezvous`, `AnswerChanClosed`, `QuestionTimeout` |
| `PollSystem` | `cmd/pollmaster/main.go` with `PollQF` (named instance `Poll`) and `ParticipantCmd` (extended) | `ParticipantCmd`'s state; `mpc`, `questionId`, `callees`, `replies`, `status`, `answer`, `inbox`, `tally` | `AskQuestion`, `CloseService`, `PrintResponse`, `OtherReplies`, `MasterTimeout`, `DeliverQuestion`, `CmdQuestionTimeout`, `CmdReplies`, `CmdStep` |

### How the models correspond to the code

- **Messages** (`MultiPaxos`, `PaxosHandlers`). The network is the set of
  every message sent. A handler may take any message of its type at any
  time, so messages are late, duplicated or lost.
- **Quorum calls** (`MultiPaxos`, `MCPaxosQSpec`, `PollQF`). A gorums call
  re-runs its quorum function on each new reply set. It returns at the first
  set the function accepts (`ReturnsAt`).
- **Phase one and two** (`MultiPaxos`). `SendPrepare`/`PhaseOneDone` are
  steps 1-2 and 3-6 of `runPhaseOne`. `ProposeQueuedAccept` and
  `ProposeClientRequest` are `nextAcceptMsg` followed by `performAccept`,
  which increments `nextSlot` before using it.
- **Timeouts** (`MultiPaxos`). `CallTimeout` is a Prepare or Accept call
  whose `promiseTimeout`/`learnTimeout` expires: the call returns an error
  and `runMultiPaxos` returns. Phase one stays undone, so the next pass
  prepares again with the same `crnd`; a request already taken from its
  queue is not put back. Each call records in `late` the acceptors whose
  reply to the same message went to an earlier call (`RepliedTo`): gorums
  discards replies to a call that has returned, and an acceptor answers a
  round only once.
- **Leader changes** (`MultiPaxos`). `NewLeader` is the run loop handing a
  trust message to `newLeader`. The leader detector is the environment here.
- **lab4 handlers** (`PaxosHandlers`).
  - Proposer `p` has the fixed round `crnd = p`.
  - `HandlePromise` ignores a promise of another round or a second one from
    the same node, stores and counts the rest, and at the quorum sends
    accepts built from the highest-round votes reported.
  - The caller fills with any value the slots handlePromise leaves
    unconstrained: those past the returned accepts, and, as its comment
    says, those whose returned value is the zero value, which is the no-op.
  - `HandleLearn` keeps, per slot, the highest round and its distinct
    senders, and decides at the quorum.
- **Detector timing** (`FailureDetector`).
  - Time is counted in ticks, and `delay` is a multiple of `delta` (= 1).
  - Each node has a fixed but unknown round-trip latency in
    `1..MaxLatency`. Crashed nodes never answer again.
  - `Timeout` is the whole of `timeout()`: suspect, restore (calling the
    leader detector), grow `delay`, clear `alive`, send requests.
- **Detector goroutines** (`FDChannels`).
  - Each case of the run loop's select is an action.
  - A blocked channel send (`Deliver` into a full `hbRecv`, `timeout` into a
    full `hbSend`) is a goroutine state that waits for room.
  - Stop's send on the unbuffered `stop` channel completes only together
    with the loop's receive.
- **Participant command** (`ParticipantCmd`). A send on an unbuffered
  channel is one step together with its receive (`RecvAnswer`,
  `AnswerRendezvous`). Each line read remembers the question on screen at
  that moment, which is the question its author answers. The user types a
  number only while `HandleQuestion` waits for one. The exit path is its
  three statements, and a send on the closed `cmdChan` is a panic that
  ends the process.
- **The poll as a whole** (`PollSystem`).
  - The master's call goes to the configuration at call time: the other
    participants, and the participant command until it deregisters.
  - A question for the participant command waits in its server (`inbox`)
    until the previous `HandleQuestion` has returned; `Ask` starts the next.
  - Both sides wait for the same `QuestionTimeout`, and the participant's
    timer starts later. So `CmdQuestionTimeout` fires only after the master
    stopped waiting for that question. The master's deadline does not pass
    while a question sits at an idle participant: network delay is far
    shorter than the timeout.
  - `tally` is a history variable: the participant's responses the master
    counted, each with the question its number was typed for.
- **Replica Stop** (`ReplicaLifecycle`). Each statement of `Stop` is its own
  step. The read and the write of the unsynchronised `stopped` flag are
  therefore separate, which is what a data race allows.

## Runs

| Run | Module / cfg | Expect | What it shows |
|-----|--------------|--------|---------------|
| `qspec_prepare_qf` | `MCPaxosQSpec` | pass | `PrepareQF` matches a declarative reference on every set of promises a call can have collected as replies arrive, over every mix of rounds and votes. Within one set the replies are merged in TLC's set order, which the model does not vary. |
| `multipaxos_safety` | `MCMultiPaxos` | pass | With leader changes and an unreliable network, a chosen value is never replaced (`ChosenValueLocked`). The commits refine `Consensus` (`ImplementsConsensus`). |
| `delivery_gap` | `MCMultiPaxosDelivery` | violation | A learnt slot is never delivered, because slot `adu+1` is never proposed. |
| `multipaxos_phase_one_retry` | `MCMultiPaxosRetry` | violation | After one Prepare times out, the retry in the same round never gathers a quorum, so a leader that keeps leading never finishes phase one (`PhaseOneCompletes`). |
| `handlers_decided_is_chosen` | `MCPaxosHandlers` | pass | Whatever is duplicated, lost or reordered, lab4 `handleLearn` decides only what a quorum voted for in one round (`DecidedIsChosen`), and `handlePromise` never counts a promise twice (`TypeOK`'s bound on `promiseCount`). |
| `handlers_noop_replaced` | `MCPaxosHandlers` / `MCPaxosHandlersNoOp.cfg` | violation | A caller that treats a zero-valued accept as unconstrained, as the `handlePromise` comment says, replaces a chosen no-op, so a slot gets two chosen values (`ChosenUnique`). |
| `fd_eventually_perfect` | `FailureDetector` | pass | `delay` stays within `MaxLatency + 2` (`DelayBounded`), with strong completeness, eventual strong accuracy, and the leader detector settling on the highest correct node (`EventualLeader`). |
| `fd_channels_stop` | `FDChannels` | pass | A Stop always returns: full buffers and a busy ticker never keep the loop from taking it. |
| `fd_channels_deliver_race` | `FDChannels` / `FDChannelsDeliver.cfg` | violation | A Deliver blocked on a full `hbRecv` when the loop takes a Stop never returns. |
| `replica_stop_concurrent` | `ReplicaLifecycle` / `ReplicaLifecycleConcurrent.cfg` | violation | Two concurrent Stops both pass the `stopped` check, and the second blocks forever. |
| `replica_detector_after_stop` | `ReplicaLifecycle` / `ReplicaLifecycleDetector.cfg` | violation | `run`'s goroutine can start the failure detector after Stop returned. |
| `participant_stale_answer` | `PollSystem` / `MCPollSystem.cfg` | violation | The poll master gives up on question 0 and asks question 1; the number the participant's user typed for question 0 is counted as that participant's vote on question 1 (`CountedAnswerTypedForQuestion`). |

Every property of a passing run has a mutant in `PROJECT.json`. A mutant is
a plausible bug in a mapped definition: a dropped guard, a missing reset, a
swapped priority, or an off-by-one. TLC finds the property violated once the
mutant replaces the definition.

### Bounds

- `MCPaxosQSpec`: nodes {0,1,2}, slots {1,2,3}, vote rounds {0,1,3} around
  a prepare for round 2. Round 3 exercises the rejection of a vote from a
  higher round.
- `MCMultiPaxos`:
  - three replicas, with a quorum of 2;
  - `MaxRound` 3: rounds 0, 1 and 2 are the replicas' first rounds, and
    replica 0 may lead again in round 3;
  - `MaxSlot` 2;
  - two values, under value symmetry;
  - any call may time out, any number of times.

  Two successive leaders are the least needed for a chosen value to be carried to, or
  lost by, a new leader.
- `MCPaxosHandlers`:
  - three acceptors, one slot and one value besides the no-op;
  - proposers 1 and 2, so there are two rounds;
  - one learner.

  Both handler runs use these bounds. Two rounds and one slot are the least
  for a no-op chosen in one round to be replaced in the next.

  A run with three rounds and a learner took over 10 minutes. The
  highest-round merge that three rounds would exercise is checked in
  `qspec_prepare_qf`. So is the no-op filling of a gap between slots,
  which needs two slots here: a two-slot run passed four million
  distinct states within five minutes without finishing.
- `FailureDetector`: nodes {0,1,2} at Self 0, with latencies 1..3. Every
  assignment of latencies is an initial state, so a slow node, a fast node
  and a crashed node appear together.
- `FDChannels`:
  - the real capacities, 8 and 16;
  - three nodes, so each timeout sends 3 requests.

  With a slow reader, `hbSend` does fill up.
- `MCMultiPaxosRetry`: three replicas, one value, one slot and `MaxRound` 2,
  so that no replica can take a later round and the initial leader keeps
  round 2. One timeout after two promises is enough for the livelock.
- `ReplicaLifecycle`: two concurrent Stop callers, or one, in the violation
  runs.
- `MCPollSystem`: the participant command and one other participant, two
  questions of two options, and two numbers to type. Two questions are the
  least for an answer to cross from one to the next.

### Fairness

- **Processing steps are weakly fair.** This covers the proposer, acceptor,
  commit and learner steps, the failure detector's `Timeout`, `Tick` and
  reply delivery, a blocked channel send, the heartbeat reader, and the
  statements of a Stop call in progress. These are goroutines that keep
  running, so a step that stays enabled is taken.
- **The cases of the FD run loop's `select` are strongly fair.** Go picks
  uniformly at random among ready cases. A stop that is ready each time the
  loop comes back is therefore taken with probability 1, even when a tick is
  also ready every time. Under weak fairness, a ticker that always refires
  starves the stop, which Go's scheduling rules out.
- **Environment events carry no fairness.** These are client requests,
  leader announcements, crashes, quorum-call timeouts, new `Deliver` calls
  and calls to `Stop`. `PhaseOneCompletes` asks for progress only once
  timeouts stop (`<>[][~CallTimeout]`): a network that is slow forever is
  not the code's fault.

## Findings

1. **Slot `adu+1` is never proposed** (`delivery_gap`,
   `lab5/.../proposer.go:111`). `runPhaseOne` prepares slot `adu+1` and sets
   `nextSlot = adu+1`. `performAccept` increments `nextSlot` before using it,
   as its comment says. The descriptions of the `performAccept` tests say
   the same, though those tests check only the mocked learn. The first proposal
   goes to `adu+2`, and `Commit` buffers every later slot forever.
2. **A Deliver racing Stop hangs** (`fd_channels_deliver_race`,
   `lab3/failuredetector/failuredetector.go:97`). The send into `hbRecv` has
   no stop case. Once the loop exits, a Deliver waiting for room waits
   forever.
3. **Concurrent `PaxosReplica.Stop` deadlocks** (`replica_stop_concurrent`,
   `replica.go:93`). `stopped` is read and written without `r.mu`. Both
   callers send on the unbuffered `r.stop`, which is received once.
4. **The detector can start after Stop** (`replica_detector_after_stop`,
   `replica.go:142`). `run`'s goroutine calls `failureDetector.Start`
   without looking at `stopped`.
5. **A chosen no-op is replaced** (`handlers_noop_replaced`,
   `lab4/multipaxos/proposer.go:50`). The `handlePromise` comment says an
   accept whose value is the zero value is unconstrained and can be set to
   any value. But the no-op is that same zero value
   (`lab4/multipaxos/defs.go:30`). A no-op chosen in round 1 comes back to
   the round 2 proposer as a zero-valued accept. The caller replaces it
   with a client value, a quorum accepts that, and the slot has two chosen
   values. `ProposedValue` follows the comment; the passing handlers run
   checks only what does not depend on it.
6. **A timed-out Prepare is retried in the same round**
   (`multipaxos_phase_one_retry`, `lab5/.../proposer.go:12`). `crnd` moves
   only in `newLeader`, so after `promiseTimeout` the run loop prepares again
   with the same round. Acceptors that already promised it ignore the new
   Prepare, and their promises went to the call that timed out. A stable
   leader therefore never finishes phase one. `spec.md` §7 says a
   QuorumTimeout is retried with a higher round or waits for renewed
   leadership; while the leader stays, the code does neither. The model lets an acceptor
   that had not yet answered the first Prepare answer the retry; over
   gorums' ordered streams it would answer the first, so the real code is
   stuck even more surely.
7. **A stale answer crosses to the next question**
   (`participant_stale_answer`, `lab2/poll/cmd/participant/main.go:61`).
   The poll master's call for question 0 times out, and it asks question
   1. The participant's own timer for question 0 fires later, and its
   `HandleQuestion` stops listening on `answerChan`. But `main` still sends
   the number typed for question 0 on that unbuffered channel. The send
   waits for question 1's `select`, which returns the number with question
   1's ID, and the poll master counts it as the participant's vote on
   question 1.

The `SendQuestionQF` comment (`lab2/poll/poll_master.go:47`) takes an
answer given by at least half of the participants as the majority, while
`poll_test.go` expects `InconclusiveAnswer` for two answers of four.
`PollQF` states the comment's rule and the property
`AnswerHasStrictMajority`, which TLC finds violated. No run checks it: the
test case is itself the counterexample.

## Hazards and where they are checked

`PROJECT.json` "hazards" lists each hazard at the line where it bites, with
the properties that catch it. Those not yet covered carry a note:

- a request lost with an abandoned or timed-out Accept call, which
  `spec.md` §7 forbids; the safety run shows it leaves the log consistent;
- `ClientHandle` returning one client's response to another (a stub with
  no state to model);
- the stale ticker channel captured by `Start`: with fixed latencies the
  pipelined heartbeat replies keep correct nodes alive even at the old
  delay, so only latency jitter, which the model lacks, would show it;
- the port-to-id masking in `cmd/replica/main.go`;
- lab3 `Replica.Stop`, which does not close the manager its comment says
  it closes, and which the test relies on leaving open;
- an empty `-addrs` flag: `strings.Split` returns one empty string, so the
  `len(addrs) == 0` checks never fire; the lab3 command then panics on
  `[1]`, and `paxosserver` adds `""` as a phantom node that raises the
  quorum size;
- the poll majority rule of the `SendQuestionQF` comment (see above);
- a participant whose slow reply turns a poll into a timeout, and the
  participant command's own `QuestionTimeout`, which always fires after the
  master's call failed, so its inconclusive reply is never counted;
- the poll master's options loop, which at end of input appends empty
  options forever;
- the Paxos client command, which exits on the first `ClientHandle` call
  that outlasts its 5 s deadline, leaving its later requests unsent;
- the lab2 key/value server's `Insert`, which writes its map without a lock
  while gRPC runs calls concurrently;
- the participant's `main` blocked sending a number no question takes,
  so that "exit" is not acted on;
- a line typed after "exit", whose send on the closed `cmdChan` panics
  the participant before it deregisters;
- a second Stop of the lab3 detector. This is the same unbuffered-channel
  pattern as finding 3.

`isLeader` read outside the lock in `AddRequestToQ` is covered by
`ChosenValueLocked` and `ImplementsConsensus`: a leader change between the
check and the append reaches the same states as one right after the
append, which the safety run explores.

## Not modelled, and why

- **`ClientHandle` waiters, `remainingResponses`, `responseIDs`.** The
  bodies are stubs. `ClientHandleQF` is defined but no run checks it yet.
- **gorumsfd `timeout` and `Heartbeat`.** They are empty stubs. Only the
  Start/Stop contract is used.
- **lab4 single-decree Paxos.** The package has no message types and does
  not compile. Its handlers are the one-slot case of `PaxosHandlers`.
- **The master's Register/Deregister RPCs and `NewPollMaster`.** They are
  stubs; `PollSystem` takes the configuration to be the registered
  participants.
- **Reading stdin in the poll master.** A question and its options are one
  step, so end of input is outside the model.
- **The lab3 replica command.** It wires the gorums failure detector,
  whose `timeout` and `Heartbeat` are stubs, to a leader detector that has
  no implementation in the repository, through gorums manager and
  configuration code whose source is not available here. Its hazards are
  listed above.
- **Restart of a replica.** Acceptor state is not persisted, and
  `spec.md` lists durability across restart as a non-goal, so replicas are
  crash-stop in every model.
- **The lab2 key/value server, the Paxos commands, gRPC/gorums transport,
  logging, protobuf.** These are I/O, wiring or generated code.

## Plan (most important first)

1. Requests dropped with an abandoned Accept (`spec.md` §7, LeadershipLost).
2. `ClientHandle` response matching (`ClientHandleQF`, `Value.Match`): every
   client gets the response to its own request, never another's.
3. Compose `FailureDetector` with `MultiPaxos` through the leader detector,
   so that leader changes come from suspicions rather than the environment.
4. The stale ticker of `Start` as state in `FDChannels`.
5. A passing run of `PollSystem` (answers in range, every call returns),
   which needs a run slot.
