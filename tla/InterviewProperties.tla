------------------------ MODULE InterviewProperties -------------------------
(***************************************************************************)
(* What the Interview model is checked for.                                *)
(***************************************************************************)
EXTENDS Interview

(* The shape of every variable.                                            *)
TypeOK ==
    /\ state \in InterviewStates /\ index \in 0..(Target + 1)
    /\ reason \in EndedReasons \cup {NoReason}
    /\ ended \in BOOLEAN /\ gone \in {"no", "owner", "listing"}
    /\ batches \subseteq {"hr", "tech"}
    /\ said \subseteq Questions /\ words \subseteq Questions
    /\ turns \in [Questions -> Nat] /\ total \in Nat
    /\ moved \in [Questions -> Nat] /\ stayed \in [Questions -> Nat]
    /\ queued \in BOOLEAN /\ spent \in BOOLEAN
    /\ pc \in [Requests -> Steps]
    /\ copy \in [Requests -> Copies]
    /\ plan \in [Requests -> Plans]

(* The technical interviewer never asks an HR question: in `tech_round`    *)
(* the index is past the HR block.  The index and the state are written by *)
(* separate commits (handover, advance, resume).                           *)
TechRoundPastHr == state = "tech_round" => index > HrCount

(* What the candidate said is never dropped: a question they spoke on that *)
(* the interview moved past, or ended at the interviewer's word, has an    *)
(* answer row for the report to read, whichever way it was left.           *)
WordsKept ==
    \A q \in words :
        q < index \/ reason \in {"completed", "cut_short"} => q \in Answered

(* An interview said to have ended as completed has no question left: the  *)
(* guard looked at a copy of the index, the ending is written later.       *)
CompletedHasNoneLeft == reason = "completed" => index >= Target

(* The HR round is not cut short before its floor, whatever the model asks *)
(* for: the index leaves the HR block from its last question or from past  *)
(* the floor.                                                              *)
HandOverPastFloor ==
    [][(0 < index /\ index < HrCount /\ index' > HrCount) => index - 1 >= HandOverFloor]_vars

(* The row moves only as the lifecycle allows.                             *)
Lifecycle == INSTANCE InterviewLifecycle
FollowsLifecycle == Lifecycle!Spec

InFlight == {r \in Requests : pc[r] # "idle"}

(* The room keeps submitting turns (its silence timer does when nobody     *)
(* speaks) and handlers run to their end.                                  *)
Fairness ==
    /\ \A r \in Requests : WF_vars(Proceed(r))
    /\ WF_vars(\E r \in Requests : SubmitTurn(r, "silence"))

FairSpec == Spec /\ Fairness

(* However the interviewer answers, an interview that keeps getting turns  *)
(* leaves its rounds (unless it is deleted meanwhile): every turn counts   *)
(* toward a ceiling, silence too.                                          *)
InRound == state \in RoundStates /\ gone = "no"
RoundsEnd == InRound ~> ~InRound
-----------------------------------------------------------------------------
(* What comments in the code say, and the model does not.                  *)

(* answers.ts: a losing duplicate never adds a second answer row for the   *)
(* same question.                                                          *)
OneAnswerRow == \A q \in Questions : moved[q] + stayed[q] <= 1

(* resume.ts: the round the interview is sitting in is the round that can  *)
(* be missing its batch.  Here: a quiet interview in a round that has no   *)
(* current question, and questions left, is one POST /resume repairs.      *)
ResumeRecovers ==
    InFlight = {} /\ state \in RoundStates /\ index \in Questions
        => QuestionAt(index) \/ Stranded
=============================================================================
