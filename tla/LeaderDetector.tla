--------------------------- MODULE LeaderDetector ---------------------------
(***************************************************************************)
(* The monarchical leader detector of lab3/leaderdetector, which the       *)
(* repository has only as tests (leaderdetector_test.go) and as the users  *)
(* NewMonLeaderDetector, Leader, Subscribe in lab5/gorumspaxos/replica.go. *)
(* Its state is the set of suspected ids and the leader last published to *)
(* the subscribers; Suspect and Restore are operators over that state so   *)
(* that a failure detector can call them within its own step.              *)
(***************************************************************************)
EXTENDS Integers, FiniteSets, FiniteSetsExt

CONSTANT NodeIDs     \* the ids given to NewMonLeaderDetector

UnknownID == -1

\* Leader(): the highest non-negative id that is not suspected.
LeaderOf(suspected) ==
    LET candidates == {n \in NodeIDs : n >= 0 /\ n \notin suspected}
    IN  IF candidates = {} THEN UnknownID ELSE Max(candidates)

\* NewMonLeaderDetector: nothing suspected, the initial leader known.
InitLD == [suspected |-> {}, published |-> LeaderOf({})]

PublishOnSuspectOnly(ld, suspected) ==
    [suspected |-> suspected,
     published |-> IF ld.suspected \subseteq suspected THEN LeaderOf(suspected)
                   ELSE ld.published]

\* After a change of suspected, the new leader is published to every
\* subscriber if, and only if, it differs from the last one published.
Publish(ld, suspected) ==
    [suspected |-> suspected, published |-> LeaderOf(suspected)]

\* Suspect(id) and Restore(id); ids the detector does not know change no
\* leader (test ThreeR122_S42_R14_S0).
SuspectLD(ld, id) == Publish(ld, ld.suspected \cup {id})
RestoreLD(ld, id) == Publish(ld, ld.suspected \ {id})

=============================================================================
