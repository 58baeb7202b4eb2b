--------------------------- MODULE ParticipantCmd ---------------------------
(***************************************************************************)
(* The poll participant command, lab2/poll/cmd/participant/main.go.  Four  *)
(* goroutines share unbuffered channels:                                   *)
(*   - ReadFromCmd reads lines from stdin and sends each on cmdChan;       *)
(*   - main receives from cmdChan: "exit" closes cmdChan and answerChan    *)
(*     and deregisters, a number is sent on answerChan, anything else is   *)
(*     skipped;                                                            *)
(*   - writeQuestion receives questions on qChan and prints them;          *)
(*   - HandleQuestion, called for each question the poll master sends,     *)
(*     sends the question on qChan and then selects between answerChan     *)
(*     and a QuestionTimeout timer.                                        *)
(* An unbuffered send is a rendezvous: it is one step together with the    *)
(* receive.  writeQuestion is always back at its receive, so showing a     *)
(* question is one step.  A line is remembered with the question on screen *)
(* when it was read, which is the question its author was answering.       *)
(* The gorums server hands this participant one question at a time.        *)
(***************************************************************************)
EXTENDS Integers

CONSTANTS Answers,       \* numbers the user may type
          MaxQuestions   \* questions the poll master asks

InconclusiveAnswer == -1

\* Question IDs start at 0 (pollmaster's questionId), so no question is -1.
NoQuestion == -1

(***************************************************************************)
(* A line of stdin: "exit", a number, or text strconv.Atoi rejects.  num   *)
(* is what Atoi returns for a number.                                      *)
(***************************************************************************)
Inputs == [kind : {"exit", "junk"}, num : {InconclusiveAnswer}]
              \cup [kind : {"number"}, num : Answers]

NoLine == [kind |-> "none", num |-> InconclusiveAnswer, seen |-> NoQuestion]

VARIABLES line,       \* ReadFromCmd: the line it is sending on cmdChan, if any
          mainPc,     \* main: "recv", "send", "closeCmd", "closeAns", "dereg", "done"
          held,       \* main: the answer it is sending on answerChan
          cmdClosed,  \* close(cmdChan) done
          ansClosed,  \* close(answerChan) done
          registered, \* the participant is in the poll master's configuration
          shown,      \* the question writeQuestion printed last
          hq,         \* HandleQuestion: "idle", "show" (on qChan) or "wait" (in select)
          q,          \* the question HandleQuestion is serving
          asked,      \* questions the poll master has sent so far
          results,    \* what each HandleQuestion call returned
          panicked    \* a goroutine panicked, which ends the process

vars == <<line, mainPc, held, cmdClosed, ansClosed, registered, shown, hq, q,
          asked, results, panicked>>

\* The process runs until main returns or a goroutine panics.
Running == mainPc # "done" /\ ~panicked

\* main after NewParticipant and a successful Register, with ReadFromCmd
\* and writeQuestion started.
Init ==
    /\ line       = NoLine
    /\ mainPc     = "recv"
    /\ held       = NoLine
    /\ cmdClosed  = FALSE
    /\ ansClosed  = FALSE
    /\ registered = TRUE
    /\ shown      = NoQuestion
    /\ hq         = "idle"
    /\ q          = NoQuestion
    /\ asked      = 0
    /\ results    = {}
    /\ panicked   = FALSE

-----------------------------------------------------------------------------
(***************************************************************************)
(* ReadFromCmd: reader.ReadString('\n') returns the next line.  The user   *)
(* types a number only while HandleQuestion is waiting for one.            *)
(***************************************************************************)
ReadLine(in) ==
    /\ Running
    /\ line = NoLine
    /\ in.kind = "number" => hq = "wait"
    /\ line' = [kind |-> in.kind, num |-> in.num, seen |-> shown]
    /\ UNCHANGED <<mainPc, held, cmdClosed, ansClosed, registered, shown, hq, q,
                   asked, results, panicked>>

\* outChan <- response meets main's <-cmdChan.
CmdRendezvous ==
    /\ Running
    /\ line # NoLine
    /\ ~cmdClosed
    /\ mainPc = "recv"
    /\ line' = NoLine

\* case "exit": the first of main's steps to shut the participant down.
RecvExit ==
    /\ CmdRendezvous
    /\ line.kind = "exit"
    /\ mainPc' = "closeCmd"
    /\ UNCHANGED <<held, cmdClosed, ansClosed, registered, shown, hq, q, asked,
                   results, panicked>>

\* default: strconv.Atoi fails, so main prints the error and continues.
RecvJunk ==
    /\ CmdRendezvous
    /\ line.kind = "junk"
    /\ UNCHANGED <<mainPc, held, cmdClosed, ansClosed, registered, shown, hq, q,
                   asked, results, panicked>>

\* default: a number, which main goes on to send on answerChan.
RecvAnswer ==
    /\ CmdRendezvous
    /\ line.kind = "number"
    /\ mainPc' = "send"
    /\ held'   = line
    /\ UNCHANGED <<cmdClosed, ansClosed, registered, shown, hq, q, asked,
                   results, panicked>>

\* close(cmdChan), close(answerChan), pp.Deregister(), in that order.
CloseCmd ==
    /\ Running /\ mainPc = "closeCmd"
    /\ cmdClosed' = TRUE
    /\ mainPc'    = "closeAns"
    /\ UNCHANGED <<line, held, ansClosed, registered, shown, hq, q, asked, results, panicked>>

CloseAns ==
    /\ Running /\ mainPc = "closeAns"
    /\ ansClosed' = TRUE
    /\ mainPc'    = "dereg"
    /\ UNCHANGED <<line, held, cmdClosed, registered, shown, hq, q, asked, results, panicked>>

Deregister ==
    /\ Running /\ mainPc = "dereg"
    /\ registered' = FALSE
    /\ mainPc'     = "recv"
    /\ UNCHANGED <<line, held, cmdClosed, ansClosed, shown, hq, q, asked, results, panicked>>

\* <-cmdChan on the closed channel: ok is false, the loop breaks and main
\* returns, ending the process.
MainBreak ==
    /\ Running /\ mainPc = "recv" /\ cmdClosed
    /\ mainPc' = "done"
    /\ UNCHANGED <<line, held, cmdClosed, ansClosed, registered, shown, hq, q, asked,
                   results, panicked>>

\* ReadFromCmd's send on cmdChan after main closed it panics.
ReaderPanics ==
    /\ Running /\ line # NoLine /\ cmdClosed
    /\ panicked' = TRUE
    /\ UNCHANGED <<line, mainPc, held, cmdClosed, ansClosed, registered, shown, hq, q,
                   asked, results>>

-----------------------------------------------------------------------------
\* The gorums server calls HandleQuestion with question id, once the call
\* before it has returned.
Ask(id) ==
    /\ Running /\ registered
    /\ hq = "idle"
    /\ asked < MaxQuestions
    /\ asked' = asked + 1
    /\ q'     = id
    /\ hq'    = "show"
    /\ UNCHANGED <<line, mainPc, held, cmdClosed, ansClosed, registered, shown,
                   results, panicked>>

\* cmd.qChan <- q meets writeQuestion's receive, which prints it.
ShowQuestion ==
    /\ Running /\ hq = "show"
    /\ shown' = q
    /\ hq'    = "wait"
    /\ UNCHANGED <<line, mainPc, held, cmdClosed, ansClosed, registered, q, asked,
                   results, panicked>>

\* The select's first case: main's answerChan <- answer; the response
\* carries the question's ID and the number main held.
AnswerRendezvous ==
    /\ Running /\ hq = "wait" /\ mainPc = "send"
    /\ results' = results \cup {[q |-> q, err |-> FALSE, answer |-> held.num, typedFor |-> held.seen]}
    /\ hq'      = "idle"
    /\ mainPc'  = "recv"
    /\ held'    = NoLine
    /\ UNCHANGED <<line, cmdClosed, ansClosed, registered, shown, q, asked, panicked>>

\* The select's first case on the closed answerChan: "closing participant".
AnswerChanClosed ==
    /\ Running /\ hq = "wait" /\ ansClosed
    /\ results' = results \cup {[q |-> q, err |-> TRUE, answer |-> InconclusiveAnswer, typedFor |-> NoQuestion]}
    /\ hq'      = "idle"
    /\ UNCHANGED <<line, mainPc, held, cmdClosed, ansClosed, registered, shown, q, asked,
                   panicked>>

\* The select's second case: time.After(QuestionTimeout) fires first and
\* the response carries InconclusiveAnswer.
QuestionTimeout ==
    /\ Running /\ hq = "wait"
    /\ results' = results \cup {[q |-> q, err |-> FALSE, answer |-> InconclusiveAnswer, typedFor |-> q]}
    /\ hq'      = "idle"
    /\ UNCHANGED <<line, mainPc, held, cmdClosed, ansClosed, registered, shown, q, asked,
                   panicked>>

Next ==
    \/ \E in \in Inputs : ReadLine(in)
    \/ RecvExit \/ RecvJunk \/ RecvAnswer
    \/ CloseCmd \/ CloseAns \/ Deregister \/ MainBreak \/ ReaderPanics
    \/ Ask(asked) \/ ShowQuestion \/ AnswerRendezvous \/ AnswerChanClosed \/ QuestionTimeout

Spec == Init /\ [][Next]_vars

=============================================================================
