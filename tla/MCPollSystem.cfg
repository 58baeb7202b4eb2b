CONSTANTS
    Answers = {0, 1}
    MaxQuestions = 2
    Cmd = Cmd
    Others = {p1}
    NumOptions = 2

SPECIFICATION SysSpec

INVARIANT CountedAnswerTypedForQuestion

\* The poll master returns on an empty question line and the participant
\* exits on "exit": both processes may stop.
CHECK_DEADLOCK FALSE
