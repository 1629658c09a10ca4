--------------------------- MODULE MCInterviewRoom --------------------------
(***************************************************************************)
(* The whole handler set, with processes that die between any two commits. *)
(***************************************************************************)
EXTENDS MCInterview

VARIABLE died  \* when processes have died: between the rounds, elsewhere

RoomInit == Init /\ died = {}

(* The index has left the HR block and the state has not: two commits of   *)
(* an answer, a handover or a resume.                                      *)
BetweenRounds == state = "hr_round" /\ PastHr(index)

Dies(r) ==
    /\ Crash(r)
    /\ died' = died \cup {IF BetweenRounds THEN "between" ELSE "elsewhere"}

RoomNext ==
    \/ \E r \in Requests : Dies(r)
    \/ \E r \in Requests : (Arrive(r) \/ Proceed(r)) /\ UNCHANGED died
    \/ (DeleteInterview \/ ExhaustBudget) /\ UNCHANGED died

RoomSpec == RoomInit /\ [][RoomNext]_<<vars, died>>

(* A question is answered by one advance, and once it is, it is behind the *)
(* index: no later turn can land on it, whichever handlers died midway,    *)
(* but for one that died between the rounds: the HR interviewer goes on    *)
(* into the technical block and may then hand over to its first question.  *)
(* Until one dies no question has a second answer row either (answers.ts); *)
(* the closing answer of a run that died before its transition has a       *)
(* successor.                                                              *)
AnsweredOnce ==
    \A q \in Questions :
        /\ "between" \in died \/ moved[q] <= 1
        /\ "between" \in died \/ moved[q] = 0 \/ q < index
        /\ died # {} \/ moved[q] + stayed[q] <= 1

(* The index never goes back: no answered question becomes current again,  *)
(* with the same exception.                                                *)
IndexNeverBack == [][index' >= index \/ "between" \in died]_vars

(* Nobody in a round is out of moves: when no handler is in flight, the    *)
(* interview's current question is there to be answered or POST /resume    *)
(* recognises a round to regenerate (resume.ts), unless a process died.    *)
NeverStranded ==
    InFlight = {} /\ state \in RoundStates /\ died = {} =>
        QuestionAt(index) \/ Stranded

(* An interview in `evaluating` has its report job, or the handler that    *)
(* won the move there is about to enqueue it (machine.ts applyTransition); *)
(* nobody else ever will, so a process that died there leaves it without.  *)
ReportAskedFor ==
    state = "evaluating" /\ died = {} =>
        queued \/ \E r \in Requests : pc[r] = "enqueue"
=============================================================================
