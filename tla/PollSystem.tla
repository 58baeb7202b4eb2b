----------------------------- MODULE PollSystem -----------------------------
(***************************************************************************)
(* The lab2 poll as a whole: the poll master command                      *)
(* (cmd/pollmaster/main.go) asks questions read from its stdin through     *)
(* HandleQuestion, whose quorum call (PollQF) goes to every participant of *)
(* the configuration; one participant is the participant command           *)
(* (ParticipantCmd), the others are taken by their replies alone.          *)
(*                                                                         *)
(* The quorum call and the participant's select wait for the same         *)
(* poll.QuestionTimeout (defs.go).  The participant's timer starts once    *)
(* the question has reached it, after the master's deadline started, so it *)
(* fires only after the master has stopped waiting for that question.      *)
(***************************************************************************)
EXTENDS ParticipantCmd, Sequences

CONSTANTS Cmd,          \* the participant command in the configuration
          Others,       \* the other participants
          NumOptions    \* options of each question, at least two

VARIABLES mpc,          \* poll master main: "read", "call" or "done"
          questionId,   \* main's questionId: IDs given out so far
          callees,      \* the configuration when HandleQuestion was called
          replies,      \* participant -> its response to the current call
          status,       \* the call: "none", "wait", "answered", "noParticipants", "timeout"
          answer,       \* the Answer of the call's response
          inbox,        \* questions queued at the participant command's server
          tally         \* the participant command's responses the master counted

sysVars == <<vars, mpc, questionId, callees, replies, status, answer, inbox, tally>>

\* PollQF's own call is not used: its actions are taken for the current
\* call through ArriveAt and Timeout.
Poll == INSTANCE PollQF WITH Participants <- Others \cup {Cmd}, QuestionID <- 0,
                             OtherID <- 1

\* The participants the master's configuration holds: the participant
\* command until its Deregister.
Configuration == Others \cup (IF registered THEN {Cmd} ELSE {})

SysInit ==
    /\ Init
    /\ mpc        = "read"
    /\ questionId = 0
    /\ callees    = {}
    /\ replies    = [p \in {} |-> InconclusiveAnswer]
    /\ status     = "none"
    /\ answer     = InconclusiveAnswer
    /\ inbox      = <<>>
    /\ tally      = {}

-----------------------------------------------------------------------------
(***************************************************************************)
(* main reads a question and its options (at least two), builds            *)
(* Question{ID: questionId}, increments questionId and calls              *)
(* HandleQuestion, which sends it to the configuration: with no           *)
(* participant the call fails at once (errNoParticipants).                 *)
(***************************************************************************)
AskQuestion ==
    /\ mpc = "read"
    /\ questionId < MaxQuestions
    /\ questionId' = questionId + 1
    /\ callees'    = Configuration
    /\ replies'    = [p \in {} |-> InconclusiveAnswer]
    /\ status'     = IF Configuration = {} THEN "noParticipants" ELSE "wait"
    /\ answer'     = InconclusiveAnswer
    /\ inbox'      = IF Cmd \in Configuration THEN Append(inbox, questionId) ELSE inbox
    /\ mpc'        = "call"
    /\ UNCHANGED <<vars, tally>>

\* An empty question line: "Closing service", and main returns.
CloseService ==
    /\ mpc = "read"
    /\ mpc' = "done"
    /\ UNCHANGED <<vars, questionId, callees, replies, status, answer, inbox, tally>>

\* HandleQuestion has returned: main prints nil, InconclusiveAnswer or
\* q.Options[resp.Answer] and reads the next question.
PrintResponse ==
    /\ mpc = "call"
    /\ status # "wait"
    /\ mpc' = "read"
    /\ UNCHANGED <<vars, questionId, callees, replies, status, answer, inbox, tally>>

\* Another participant's response to the question reaches the call.
OtherReplies(p, a) ==
    /\ Poll!ArriveAt(questionId - 1, callees, p, [id |-> questionId - 1, answer |-> a])
    /\ UNCHANGED <<vars, mpc, questionId, callees, inbox, tally>>

\* A question waits at an idle participant command: the gorums server
\* starts its HandleQuestion within a network delay, long before any
\* QuestionTimeout can pass.
QuestionAtIdleCmd == inbox # <<>> /\ Running /\ registered /\ hq = "idle"

\* The poll master's deadline passes while it waits.
MasterTimeout ==
    /\ ~QuestionAtIdleCmd
    /\ Poll!Timeout
    /\ UNCHANGED <<vars, mpc, questionId, callees, inbox, tally>>

-----------------------------------------------------------------------------
\* The participant's gorums server starts HandleQuestion for the oldest
\* queued question once the previous call has returned.
DeliverQuestion ==
    /\ inbox # <<>>
    /\ Ask(Head(inbox))
    /\ inbox' = Tail(inbox)
    /\ UNCHANGED <<mpc, questionId, callees, replies, status, answer, tally>>

\* The master is still waiting for question id.
MasterWaitsFor(id) == status = "wait" /\ questionId - 1 = id

\* The participant's time.After(QuestionTimeout) for q.
CmdQuestionTimeout ==
    /\ ~MasterWaitsFor(q)
    /\ QuestionTimeout
    /\ UNCHANGED <<mpc, questionId, callees, replies, status, answer, inbox, tally>>

(***************************************************************************)
(* HandleQuestion of the participant command returned Response{ID: q.ID,  *)
(* Answer: answer} without error; the call of that question takes it if   *)
(* it still waits.  tally remembers which question the number was typed   *)
(* for.                                                                    *)
(***************************************************************************)
CmdReplies ==
    \E r \in results :
        /\ ~r.err
        /\ r.q = questionId - 1
        /\ Poll!ArriveAt(r.q, callees, Cmd, [id |-> r.q, answer |-> r.answer])
        /\ tally' = tally \cup {[q |-> r.q, answer |-> r.answer, typedFor |-> r.typedFor]}
        /\ UNCHANGED <<vars, mpc, questionId, callees, inbox>>

\* A step of the participant command that does not involve the master.
CmdStep ==
    /\ \/ \E in \in Inputs : ReadLine(in)
       \/ RecvExit \/ RecvJunk \/ RecvAnswer
       \/ CloseCmd \/ CloseAns \/ Deregister \/ MainBreak \/ ReaderPanics
       \/ ShowQuestion \/ AnswerRendezvous \/ AnswerChanClosed
    /\ UNCHANGED <<mpc, questionId, callees, replies, status, answer, inbox, tally>>

SysNext ==
    \/ AskQuestion \/ CloseService \/ PrintResponse \/ MasterTimeout
    \/ \E p \in Others, a \in Answers \cup {InconclusiveAnswer} : OtherReplies(p, a)
    \/ DeliverQuestion \/ CmdQuestionTimeout \/ CmdReplies \/ CmdStep

SysSpec == SysInit /\ [][SysNext]_sysVars

-----------------------------------------------------------------------------
(***************************************************************************)
(* A number the participant command's user typed counts, at the poll      *)
(* master, only for the question it was typed for: the master tallies the *)
(* participant's Response for question k as its answer to question k.     *)
(***************************************************************************)
CountedAnswerTypedForQuestion ==
    \A t \in tally : t.answer \in Poll!Options => t.typedFor = t.q

=============================================================================
