--------------------------- MODULE ConductorRules ---------------------------
(***************************************************************************)
(* The guards the server puts between the interviewer model's answer and   *)
(* the interview (`conductor.ts`): whatever the model asks for, `Clamp`    *)
(* says what the server does.  Pure: a question is its global index.       *)
(***************************************************************************)
EXTENDS Integers, InterviewMachine

CONSTANTS HrCount,         \* interviews.hr_question_count
          Target,          \* interviews.target_question_count
          MaxPerQuestion   \* CONDUCTOR_MAX_TURNS_PER_QUESTION

(* Both counts are at least one; only the automatic split of the smallest  *)
(* target leaves no technical question (`shape` and `split` in setup.ts).  *)
ASSUME ShapeAssumption ==
    /\ HrCount \in Nat \ {0}
    /\ Target \in Nat
    /\ HrCount < Target \/ (HrCount = 2 /\ Target = 2)
    /\ MaxPerQuestion \in Nat \ {0}

Questions == 1..Target

RoundOf(q) == IF q <= HrCount THEN "hr" ELSE "tech"

RoundCount(round) == IF round = "hr" THEN HrCount ELSE Target - HrCount

(* What the model may ask for.  `show_widget` without a widget is refused  *)
(* to `continue`, and with one differs from it only in what is rendered;   *)
(* an end without a valid reason is refused to `continue` too.             *)
Requested == { "continue", "next_question", "handover", "end_completed", "end_cut_short" }

(* What the server performs.                                               *)
Performed == Requested \cup {"drift"}

CeilHalf(n) == (n + 1) \div 2

HandOverFloor == IF CeilHalf(HrCount) > 1 THEN CeilHalf(HrCount) ELSE 1

HandOverAnyTime(st, q) == st = "hr_round"

MayHandOver(st, q) == st = "hr_round" /\ q - 1 >= HandOverFloor

MayEnd(q, turnsOnQuestion) == q > 1 \/ turnsOnQuestion >= 3

QuestionsLeft(q) == IF Target > q THEN Target - q ELSE 0

CompleteAnyTime(q) == TRUE

MayComplete(q) == QuestionsLeft(q) = 0

TurnsLeft(turnsOnQuestion) ==
    IF MaxPerQuestion > turnsOnQuestion THEN MaxPerQuestion - turnsOnQuestion ELSE 0

MayProbe(turnsOnQuestion) == TurnsLeft(turnsOnQuestion) > 1

Refused(wanted, st, q, turnsOnQuestion) ==
    \/ wanted = "handover" /\ ~MayHandOver(st, q)
    \/ wanted \in {"end_completed", "end_cut_short"} /\ ~MayEnd(q, turnsOnQuestion)
    \/ wanted = "end_completed" /\ ~MayComplete(q)

Moves == {"next_question", "handover", "end_completed", "end_cut_short"}

Clamp(wanted, st, q, turnsOnQuestion) ==
    LET allowed == IF Refused(wanted, st, q, turnsOnQuestion) THEN "continue" ELSE wanted
    IN  IF ~MayProbe(turnsOnQuestion) /\ allowed \notin Moves THEN "drift" ELSE allowed
=============================================================================
