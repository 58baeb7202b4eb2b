------------------------------- MODULE PollQF -------------------------------
(***************************************************************************)
(* The poll master's question quorum call of lab2/poll: HandleQuestion     *)
(* sends the question to every participant of the configuration and the   *)
(* quorum function SendQuestionQF is applied to the responses gathered so *)
(* far each time one arrives.  The repository has the method and the      *)
(* quorum function as numbered steps in comments (poll_master.go); the     *)
(* constants and types are those of defs.go.                               *)
(*                                                                         *)
(* A response is its question ID and answer index; the answers a          *)
(* participant may give include indexes outside the options and the       *)
(* responses may carry another question's ID, as in poll_test.go.          *)
(***************************************************************************)
EXTENDS Integers, FiniteSets, TLC

CONSTANTS Participants,   \* the participants in the configuration
          QuestionID,     \* ID of the question asked
          OtherID,        \* ID of some other question
          NumOptions      \* len(Options)

InconclusiveAnswer == -1

Options == 0..(NumOptions - 1)

\* Response{ID, Answer}: answers in range, one below and one above it.
Response == [id : {QuestionID, OtherID}, answer : -2..NumOptions]

VARIABLES replies,   \* participant -> its response, for those that replied
          status,    \* "wait", "answered", "noParticipants" or "timeout"
          answer     \* the Answer of the response HandleQuestion returns

vars == <<replies, status, answer>>

\* A valid answer: a response to question id naming one of its options.
ValidAnswer(id, r) == r.id = id /\ r.answer \in Options

Votes(id, a, reps) ==
    Cardinality({p \in DOMAIN reps : ValidAnswer(id, reps[p]) /\ reps[p].answer = a})

\* Step 2: the majority answer is the valid answer answered by at least
\* half of the participants of the configuration.
IsMajority(id, parts, a, reps) == 2 * Votes(id, a, reps) >= Cardinality(parts)

(***************************************************************************)
(* SendQuestionQF over the responses of all participants: the majority    *)
(* answer if one exists (step 1), InconclusiveAnswer otherwise (step 3).   *)
(* Until every participant has answered the call keeps waiting (step 4).  *)
(***************************************************************************)
SendQuestionQF(id, parts, reps) ==
    IF \E a \in Options : IsMajority(id, parts, a, reps)
    THEN CHOOSE a \in Options : IsMajority(id, parts, a, reps)
    ELSE InconclusiveAnswer

\* HandleQuestion: with no participants it fails with errNoParticipants
\* (TestRegisterReceiveQuestions); otherwise the question goes out.
Init ==
    /\ replies = [p \in {} |-> InconclusiveAnswer]
    /\ status  = IF Participants = {} THEN "noParticipants" ELSE "wait"
    /\ answer  = InconclusiveAnswer

\* The response of participant p to the call of question id, sent to the
\* participants parts, arrives; once all have, the quorum function gives
\* the response the call returns.
ArriveAt(id, parts, p, r) ==
    /\ status = "wait"
    /\ p \notin DOMAIN replies
    /\ replies' = replies @@ (p :> r)
    /\ IF DOMAIN replies' = parts
       THEN status' = "answered" /\ answer' = SendQuestionQF(id, parts, replies')
       ELSE UNCHANGED <<status, answer>>

Arrive(p, r) == ArriveAt(QuestionID, Participants, p, r)

\* QuestionTimeout passes before every participant answered: the call
\* returns a gorums.QuorumCallError and no response (TestTimeout).
Timeout ==
    /\ status = "wait"
    /\ status' = "timeout"
    /\ UNCHANGED <<replies, answer>>

Next ==
    \/ \E p \in Participants, r \in Response : Arrive(p, r)
    \/ Timeout

Spec == Init /\ [][Next]_vars

-----------------------------------------------------------------------------
(***************************************************************************)
(* The answer HandleQuestion returns was given by more than half of the   *)
(* participants: poll_test.go expects InconclusiveAnswer when two of four *)
(* participants pick the same option ("All participants respond, no       *)
(* majority answer", and case 8), while the quorum function's comment     *)
(* takes an answer of at least half.                                       *)
(***************************************************************************)
AnswerHasStrictMajority ==
    status = "answered" /\ answer \in Options =>
        2 * Votes(QuestionID, answer, replies) > Cardinality(Participants)

=============================================================================
