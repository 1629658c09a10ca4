--------------------------- MODULE InterviewProofs --------------------------
(***************************************************************************)
(* Theorems about the Interview model, for every number of requests, shape *)
(* of interview, ceiling, fault and entry point.                           *)
(***************************************************************************)
EXTENDS InterviewProperties, TLAPS

(* The steps in which a handler is conducting a question it has looked up. *)
OnQuestion == {"speak", "ask", "say", "record", "closing"}

(* Typing alone is not inductive: an advance stays within one past the     *)
(* target because it starts on a question of the interview, and a handover *)
(* because there is a technical question to hand over to.                  *)
OnAQuestion ==
    \A r \in Requests :
        /\ pc[r] \in OnQuestion => copy[r].index \in Questions
        /\ pc[r] = "record" /\ plan[r].act = "handover" => HrCount + 1 <= Target

HandlersOK ==
    /\ pc \in [Requests -> Steps]
    /\ copy \in [Requests -> Copies]
    /\ plan \in [Requests -> Plans]
    /\ OnAQuestion

RowOK ==
    /\ state \in InterviewStates /\ index \in 0..(Target + 1)
    /\ reason \in EndedReasons \cup {NoReason}
    /\ ended \in BOOLEAN /\ gone \in {"no", "owner", "listing"}

ChatOK ==
    /\ said \subseteq Questions /\ words \subseteq Questions
    /\ turns \in [Questions -> Nat] /\ total \in Nat

AnswersOK == moved \in [Questions -> Nat] /\ stayed \in [Questions -> Nat]

RestOK == batches \subseteq {"hr", "tech"} /\ queued \in BOOLEAN /\ spent \in BOOLEAN

TypeInv == RowOK /\ ChatOK /\ AnswersOK /\ RestOK /\ HandlersOK
-----------------------------------------------------------------------------
(* How the helpers that move a handler on keep the handlers typed.         *)

(* A handler that returned holds nothing.                                  *)
LEMMA FinishTyped ==
    ASSUME HandlersOK, NEW r \in Requests, Finish(r)
    PROVE  HandlersOK'
<1>1. "idle" \in Steps /\ Blank \in Copies /\ NoPlan \in Plans
  BY ShapeAssumption DEF Steps, Blank, Copies, NoPlan, Plans, Inputs, Acts, InterviewStates
<1>2. pc' \in [Requests -> Steps] /\ copy' \in [Requests -> Copies] /\ plan' \in [Requests -> Plans]
  BY <1>1 DEF Finish, HandlersOK
<1>3. OnAQuestion'
  BY DEF Finish, HandlersOK, OnAQuestion, OnQuestion
<1> QED BY <1>2, <1>3 DEF HandlersOK

(* A handler goes on to a step that conducts a question only when it has   *)
(* one.                                                                    *)
LEMMA GotoTyped ==
    ASSUME HandlersOK, NEW r \in Requests, NEW step \in Steps, NEW p \in Plans,
           Goto(r, step, p),
           step \in OnQuestion => copy[r].index \in Questions,
           step = "record" /\ p.act = "handover" => HrCount + 1 <= Target
    PROVE  HandlersOK'
<1>1. pc' \in [Requests -> Steps] /\ copy' \in [Requests -> Copies] /\ plan' \in [Requests -> Plans]
  BY DEF Goto, HandlersOK
<1>2. OnAQuestion'
  BY DEF Goto, HandlersOK, OnAQuestion
<1> QED BY <1>1, <1>2 DEF HandlersOK

(* The same for a helper that finishes when it is given no further step.   *)
LEMMA ContinueTyped ==
    ASSUME HandlersOK, NEW r \in Requests, NEW step \in Steps \ OnQuestion, Continue(r, step)
    PROVE  HandlersOK'
<1>1. CASE step = "idle"
  BY <1>1, FinishTyped DEF Continue
<1>2. CASE step # "idle"
  <2>1. Goto(r, step, plan[r]) BY <1>2 DEF Continue
  <2>2. plan[r] \in Plans BY DEF HandlersOK
  <2> QED BY <2>1, <2>2, GotoTyped DEF OnQuestion
<1> QED BY <1>1, <1>2

(* A request that arrives changes nothing but its own handler.             *)
LEMMA EnterTyped ==
    ASSUME TypeInv, NEW r \in Requests, NEW step \in Steps, NEW p \in Plans,
           Enter(r, step, p),
           step \in OnQuestion => index \in Questions,
           p.act # "handover"
    PROVE  TypeInv'
<1>1. [state |-> state, index |-> index] \in Copies
  BY DEF TypeInv, RowOK, Copies
<1>2. pc' \in [Requests -> Steps] /\ copy' \in [Requests -> Copies] /\ plan' \in [Requests -> Plans]
  BY <1>1 DEF Enter, TypeInv, HandlersOK
<1>3. OnAQuestion'
  BY DEF Enter, TypeInv, HandlersOK, OnAQuestion
<1> QED BY <1>2, <1>3 DEF Enter, TypeInv, HandlersOK, RowOK, ChatOK, AnswersOK, RestOK,
                          row, chat, answers

(* `applyTransition` keeps the row and the handler typed, won or lost.     *)
LEMMA ApplyTransitionTyped ==
    ASSUME TypeInv, NEW r \in Requests, NEW to \in InterviewStates,
           NEW why \in EndedReasons \cup {NoReason},
           NEW won \in Steps \ OnQuestion, NEW lost \in Steps \ OnQuestion,
           ApplyTransition(r, to, why, won, lost)
    PROVE  TypeInv'
<1>1. ChatOK' /\ AnswersOK' /\ RestOK'
  BY DEF ApplyTransition, TypeInv, ChatOK, AnswersOK, RestOK, chat, answers
<1>2. CASE TransitionAllowed(r, to) /\ WriteState(to, why)
           /\ AfterWrite(to, won) = "idle" /\ Finish(r)
  <2>1. HandlersOK' BY <1>2, FinishTyped DEF TypeInv
  <2>2. RowOK' BY <1>2 DEF WriteState, TypeInv, RowOK
  <2> QED BY <1>1, <2>1, <2>2 DEF TypeInv
<1>3. CASE /\ WriteState(to, why)
           /\ pc' = [pc EXCEPT ![r] = AfterWrite(to, won)]
           /\ copy' = [copy EXCEPT ![r].state = to]
           /\ UNCHANGED plan
  <2>1. RowOK' BY <1>3 DEF WriteState, TypeInv, RowOK
  <2>2. AfterWrite(to, won) \in Steps \ OnQuestion
    BY DEF AfterWrite, Steps, OnQuestion
  <2>3. pc' \in [Requests -> Steps] /\ plan' \in [Requests -> Plans]
    BY <1>3, <2>2 DEF TypeInv, HandlersOK
  <2>4. copy' \in [Requests -> Copies] BY <1>3 DEF TypeInv, HandlersOK, Copies
  <2>5. OnAQuestion'
    BY <1>3, <2>2 DEF TypeInv, HandlersOK, OnAQuestion, OnQuestion, Copies
  <2> QED BY <1>1, <2>1, <2>3, <2>4, <2>5 DEF TypeInv, HandlersOK
<1>4. CASE Continue(r, lost) /\ UNCHANGED row
  <2>1. HandlersOK' BY <1>4, ContinueTyped DEF TypeInv
  <2>2. RowOK' BY <1>4 DEF TypeInv, RowOK, row
  <2> QED BY <1>1, <2>1, <2>2 DEF TypeInv
<1> QED BY <1>2, <1>3, <1>4 DEF ApplyTransition

(* `generateRound` too, whether it fills the round, fails, or finds the    *)
(* budget gone.                                                            *)
LEMMA GenerateRoundTyped ==
    ASSUME TypeInv, NEW r \in Requests, NEW round \in {"hr", "tech"},
           NEW done \in Steps \ OnQuestion, NEW failed \in {"idle", "move"},
           GenerateRound(r, round, done, failed)
    PROVE  TypeInv'
<1>1. RowOK' /\ ChatOK' /\ AnswersOK' /\ queued' \in BOOLEAN /\ spent' \in BOOLEAN
  BY DEF GenerateRound, TypeInv, RowOK, ChatOK, AnswersOK, RestOK, row, chat, answers
<1>2. batches' \subseteq {"hr", "tech"}
  BY DEF GenerateRound, TypeInv, RestOK
<1>3. plan[r] \in Plans BY DEF TypeInv, HandlersOK
<1>4. CASE Goto(r, "end", [plan[r] EXCEPT !.why = "budget_exhausted"])
  <2>1. [plan[r] EXCEPT !.why = "budget_exhausted"] \in Plans
    BY <1>3 DEF Plans, EndedReasons
  <2>2. HandlersOK' BY <1>4, <2>1, GotoTyped DEF TypeInv, Steps, OnQuestion
  <2> QED BY <1>1, <1>2, <2>2 DEF TypeInv, RestOK
<1>5. CASE Goto(r, "pause", [plan[r] EXCEPT !.after = failed])
  <2>1. [plan[r] EXCEPT !.after = failed] \in Plans
    BY <1>3 DEF Plans
  <2>2. HandlersOK' BY <1>5, <2>1, GotoTyped DEF TypeInv, Steps, OnQuestion
  <2> QED BY <1>1, <1>2, <2>2 DEF TypeInv, RestOK
<1>6. CASE Continue(r, done) \/ Continue(r, failed)
  <2>1. failed \in Steps \ OnQuestion BY DEF Steps, OnQuestion
  <2>2. HandlersOK' BY <1>6, <2>1, ContinueTyped DEF TypeInv
  <2> QED BY <1>1, <1>2, <2>2 DEF TypeInv, RestOK
<1> QED BY <1>4, <1>5, <1>6 DEF GenerateRound
-----------------------------------------------------------------------------
(* Arriving requests and handlers that only move themselves on.            *)

(* Every way in leaves the row as it is and types the new handler.         *)
LEMMA ArriveTyped ==
    ASSUME TypeInv, NEW r \in Requests, Arrive(r)
    PROVE  TypeInv'
<1> DEFINE Typed(p) == p \in Plans /\ p.act # "handover"
<1>1. CASE SubmitProfile(r) \/ ResumeBeforeStart(r)
  <2>1. Typed(OpeningPlan)
    BY DEF OpeningPlan, NoPlan, Plans, Inputs, Acts, EndedReasons
  <2> QED BY <1>1, <2>1, EnterTyped DEF SubmitProfile, ResumeBeforeStart, Steps, OnQuestion
<1>2. CASE SubmitAnswer(r)
  <2>1. Typed([NoPlan EXCEPT !.act = "answer"])
    BY DEF NoPlan, Plans, Inputs, Acts, EndedReasons
  <2> QED BY <1>2, <2>1, EnterTyped DEF SubmitAnswer, Steps, OnQuestion, QuestionAt
<1>3. ASSUME NEW input \in {"utterance", "silence"}, SubmitTurn(r, input) PROVE TypeInv'
  <2>1. Typed([NoPlan EXCEPT !.input = input])
    BY <1>3 DEF NoPlan, Plans, Inputs, Acts, EndedReasons
  <2> QED BY <1>3, <2>1, EnterTyped DEF SubmitTurn, Steps, OnQuestion
<1>4. CASE SpeechCeiling(r)
  <2>1. PICK why \in EndedReasons : Enter(r, "end", [NoPlan EXCEPT !.why = why])
    BY <1>4 DEF SpeechCeiling, EndedReasons
  <2>2. Typed([NoPlan EXCEPT !.why = why])
    BY DEF NoPlan, Plans, Inputs, Acts, EndedReasons
  <2> QED BY <2>1, <2>2, EnterTyped DEF Steps, OnQuestion
<1>5. CASE ResumeStranded(r) \/ ResumePaused(r)
  <2>1. Typed([NoPlan EXCEPT !.act = "resume"])
    BY DEF NoPlan, Plans, Inputs, Acts, EndedReasons
  <2> QED BY <1>5, <2>1, EnterTyped DEF ResumeStranded, ResumePaused, Steps, OnQuestion
<1>6. CASE AbandonInterview(r)
  <2>1. Typed([NoPlan EXCEPT !.act = "leave", !.why = "abandoned"])
    BY DEF NoPlan, Plans, Inputs, Acts, EndedReasons
  <2>2. PICK step \in {"end", "quit"} :
            Enter(r, step, [NoPlan EXCEPT !.act = "leave", !.why = "abandoned"])
    BY <1>6 DEF AbandonInterview
  <2> QED BY <2>1, <2>2, EnterTyped DEF Steps, OnQuestion
<1>7. CASE SweepAbandoned(r)
  <2>1. Typed([NoPlan EXCEPT !.act = "sweep", !.why = "abandoned"])
    BY DEF NoPlan, Plans, Inputs, Acts, EndedReasons
  <2> QED BY <1>7, <2>1, EnterTyped DEF SweepAbandoned, Steps, OnQuestion
<1> QED BY <1>1, <1>2, <1>3, <1>4, <1>5, <1>6, <1>7 DEF Arrive

(* Every write of `interviews.state` by a handler goes through             *)
(* `applyTransition`, or is the handover's own.                            *)
LEMMA TransitionStepsTyped ==
    ASSUME TypeInv, NEW r \in Requests,
           \/ OpenProfiling(r) \/ ClaimProfiling(r) \/ StartHrRound(r) \/ Pause(r)
           \/ MoveRound(r) \/ HandOver(r) \/ EndInterview(r) \/ Unpause(r)
           \/ RejoinTechRound(r) \/ Abandon(r)
    PROVE  TypeInv'
<1> USE DEF Steps, OnQuestion
<1>p. plan[r] \in Plans BY DEF TypeInv, HandlersOK
<1>1. CASE OpenProfiling(r) \/ ClaimProfiling(r) \/ StartHrRound(r)
  BY <1>1, ApplyTransitionTyped DEF OpenProfiling, ClaimProfiling, StartHrRound, InterviewStates
<1>2. CASE Pause(r)
  <2>1. plan[r].after \in Steps \ OnQuestion BY <1>p DEF Plans
  <2> QED BY <1>2, <2>1, ApplyTransitionTyped DEF Pause, InterviewStates
<1>3. CASE MoveRound(r)
  <2>1. AfterMove(r) \in Steps \ OnQuestion BY DEF AfterMove
  <2>2. CASE ApplyTransition(r, "evaluating", NoReason, "idle", "idle")
    BY <2>2, ApplyTransitionTyped DEF InterviewStates
  <2>3. CASE ApplyTransition(r, "tech_round", NoReason, AfterMove(r), "idle")
    BY <2>1, <2>3, ApplyTransitionTyped DEF InterviewStates
  <2>4. CASE /\ Continue(r, AfterMove(r))
             /\ UNCHANGED <<row, batches, chat, answers, queued, spent>>
    <3>1. HandlersOK' BY <2>1, <2>4, ContinueTyped DEF TypeInv
    <3> QED BY <2>4, <3>1 DEF TypeInv, RowOK, ChatOK, AnswersOK, RestOK, row, chat, answers
  <2> QED BY <1>3, <2>2, <2>3, <2>4 DEF MoveRound
<1>4. CASE HandOver(r)
  <2>1. RowOK' BY <1>4 DEF HandOver, WriteState, TypeInv, RowOK, row, InterviewStates
  <2>2. ChatOK' /\ AnswersOK' /\ RestOK'
    BY <1>4 DEF HandOver, TypeInv, ChatOK, AnswersOK, RestOK, chat, answers
  <2>3. CASE Finish(r)
    BY <2>1, <2>2, <2>3, FinishTyped DEF TypeInv
  <2>4. CASE /\ pc' = [pc EXCEPT ![r] = "load"]
             /\ copy' = [copy EXCEPT ![r].state = "tech_round"]
             /\ plan' = [plan EXCEPT ![r] = OpeningPlan]
    <3>1. OpeningPlan \in Plans
      BY DEF OpeningPlan, NoPlan, Plans, Inputs, Acts, EndedReasons
    <3>2. pc' \in [Requests -> Steps] /\ plan' \in [Requests -> Plans]
      BY <2>4, <3>1 DEF TypeInv, HandlersOK
    <3>3. copy' \in [Requests -> Copies]
      BY <2>4 DEF TypeInv, HandlersOK, Copies, InterviewStates
    <3>4. OnAQuestion'
      BY <2>4 DEF TypeInv, HandlersOK, OnAQuestion, Copies
    <3> QED BY <2>1, <2>2, <3>2, <3>3, <3>4 DEF TypeInv, HandlersOK
  <2> QED BY <1>4, <2>3, <2>4 DEF HandOver
<1>5. CASE EndInterview(r)
  <2>1. plan[r].why \in EndedReasons \cup {NoReason} BY <1>p DEF Plans
  <2> QED BY <1>5, <2>1, ApplyTransitionTyped DEF EndInterview, InterviewStates
<1>6. CASE Unpause(r) \/ RejoinTechRound(r)
  BY <1>6, ApplyTransitionTyped DEF Unpause, RejoinTechRound, InterviewStates
<1>7. CASE Abandon(r)
  BY <1>7, ApplyTransitionTyped DEF Abandon, InterviewStates, EndedReasons
<1> QED BY <1>1, <1>2, <1>3, <1>4, <1>5, <1>6, <1>7

(* The four callers of `generateRound`.                                    *)
LEMMA GenerationStepsTyped ==
    ASSUME TypeInv, NEW r \in Requests,
           \/ GenerateHrBatch(r) \/ EnsureTechBatch(r) \/ RegenerateRound(r) \/ RefillRound(r)
    PROVE  TypeInv'
<1> USE DEF Steps, OnQuestion
<1>1. CASE GenerateHrBatch(r) \/ EnsureTechBatch(r)
  BY <1>1, GenerateRoundTyped DEF GenerateHrBatch, EnsureTechBatch
<1>2. CASE RegenerateRound(r)
  BY <1>2, GenerateRoundTyped DEF RegenerateRound
<1>3. CASE RefillRound(r)
  BY <1>3, GenerateRoundTyped DEF RefillRound
<1> QED BY <1>1, <1>2, <1>3

(* What a turn does before it decides: read, store the words, ask.         *)
LEMMA ConductingStepsTyped ==
    ASSUME TypeInv, NEW r \in Requests,
           LoadConversation(r) \/ Speak(r) \/ AskConductor(r) \/ Say(r)
    PROVE  TypeInv'
<1> USE DEF Steps, OnQuestion
<1>p. plan[r] \in Plans BY DEF TypeInv, HandlersOK
<1>1. CASE LoadConversation(r)
  <2> DEFINE q == copy[r].index
             p == [plan[r] EXCEPT !.asked = q \in said,
                                  !.onQuestion = turns[q],
                                  !.total = total]
             step == IF Opening(r) THEN "ask" ELSE "speak"
  <2>1. RowOK' /\ ChatOK' /\ AnswersOK' /\ RestOK'
    BY <1>1 DEF LoadConversation, TypeInv, RowOK, ChatOK, AnswersOK, RestOK, row, chat, answers
  <2>2. CASE Finish(r)
    BY <2>1, <2>2, FinishTyped DEF TypeInv
  <2>3. CASE QuestionAt(q) /\ Goto(r, step, p)
    <3>1. q \in Questions BY <2>3 DEF QuestionAt
    <3>2. turns[q] \in Nat /\ total \in Nat BY <3>1 DEF TypeInv, ChatOK
    <3>3. (q \in said) \in BOOLEAN OBVIOUS
    <3>4. p \in Plans BY <1>p, <3>2, <3>3 DEF Plans
    <3>5. step \in {"ask", "speak"} OBVIOUS
    <3> HIDE DEF p, step
    <3>6. HandlersOK' BY <2>3, <3>1, <3>4, <3>5, GotoTyped DEF TypeInv
    <3> QED BY <2>1, <3>6 DEF TypeInv
  <2> QED BY <1>1, <2>2, <2>3 DEF LoadConversation
<1>2. CASE Speak(r)
  <2> DEFINE p == [plan[r] EXCEPT !.onQuestion = @ + 1, !.total = @ + 1]
  <2>1. p \in Plans
    <3>1. plan[r].onQuestion + 1 \in Nat /\ plan[r].total + 1 \in Nat BY <1>p DEF Plans
    <3>2. p = [plan[r] EXCEPT !.onQuestion = plan[r].onQuestion + 1,
                              !.total = plan[r].total + 1]
      BY <1>p DEF Plans
    <3> QED BY <1>p, <3>1, <3>2 DEF Plans
  <2>2. copy[r].index \in Questions BY <1>2 DEF Speak, TypeInv, HandlersOK, OnAQuestion
  <2>3. ChatOK' BY <1>2, <2>2 DEF Speak, CountTurn, TypeInv, ChatOK
  <2>4. RowOK' /\ AnswersOK' /\ RestOK'
    BY <1>2 DEF Speak, TypeInv, RowOK, AnswersOK, RestOK, row, answers
  <2>5. Goto(r, "ask", p) BY <1>2 DEF Speak
  <2> HIDE DEF p
  <2>6. HandlersOK' BY <2>1, <2>2, <2>5, GotoTyped DEF TypeInv
  <2> QED BY <2>3, <2>4, <2>6 DEF TypeInv
<1>3. CASE AskConductor(r)
  <2>1. RowOK' /\ ChatOK' /\ AnswersOK' /\ RestOK'
    BY <1>3 DEF AskConductor, TypeInv, RowOK, ChatOK, AnswersOK, RestOK, row, chat, answers
  <2>2. copy[r].index \in Questions BY <1>3 DEF AskConductor, TypeInv, HandlersOK, OnAQuestion
  <2>3. ASSUME NEW why \in EndedReasons, EndWith(r, why) PROVE HandlersOK'
    <3>1. [plan[r] EXCEPT !.why = why] \in Plans BY <1>p DEF Plans
    <3> QED BY <2>2, <2>3, <3>1, GotoTyped DEF EndWith, TypeInv
  <2>4. ASSUME NEW act \in {"next_question", "handover"}, RecordAs(r, act),
               act = "handover" => HrCount + 1 <= Target
        PROVE HandlersOK'
    <3> DEFINE p == [plan[r] EXCEPT !.act = act]
    <3>1. p \in Plans /\ p.act = act BY <1>p DEF Plans, Acts
    <3>2. Goto(r, "record", p) BY <2>4 DEF RecordAs
    <3> HIDE DEF p
    <3> QED BY <2>2, <2>4, <3>1, <3>2, GotoTyped DEF TypeInv
  <2>5. ASSUME Goto(r, "say", plan[r]) PROVE HandlersOK'
    BY <1>p, <2>2, <2>5, GotoTyped DEF TypeInv
  <2>6. ASSUME NEW action, Perform(r, action) PROVE HandlersOK'
    <3>1. CASE Goto(r, "say", plan[r]) BY <2>5, <3>1
    <3>2. CASE RecordAs(r, "next_question") BY <2>4, <3>2
    <3>3. CASE EndWith(r, "completed") BY <2>3, <3>3 DEF EndedReasons
    <3>4. CASE HrCount + 1 <= Target /\ RecordAs(r, "handover") BY <2>4, <3>4
    <3>5. CASE EndWith(r, "cut_short") BY <2>3, <3>5 DEF EndedReasons
    <3> QED BY <2>6, <3>1, <3>2, <3>3, <3>4, <3>5 DEF Perform
  <2>7. HandlersOK'
    BY <1>3, <2>3, <2>5, <2>6 DEF AskConductor, EndedReasons
  <2> QED BY <2>1, <2>7 DEF TypeInv
<1>4. CASE Say(r)
  <2>1. copy[r].index \in Questions BY <1>4 DEF Say, TypeInv, HandlersOK, OnAQuestion
  <2>2. HandlersOK' BY <1>4, FinishTyped DEF Say, TypeInv
  <2> QED BY <1>4, <2>1, <2>2 DEF Say, TypeInv, RowOK, ChatOK, AnswersOK, RestOK, row, answers
<1> QED BY <1>1, <1>2, <1>3, <1>4

(* The answer writes.                                                      *)
LEMMA RecordingStepsTyped ==
    ASSUME TypeInv, NEW r \in Requests,
           RecordAnswer(r) \/ RecordClosing(r) \/ AskNext(r)
    PROVE  TypeInv'
<1> USE DEF Steps, OnQuestion
<1>p. plan[r] \in Plans BY DEF TypeInv, HandlersOK
<1>s. ShapeAssumption BY ShapeAssumption
<1>1. CASE RecordAnswer(r)
  <2>1. copy[r].index \in Questions BY <1>1 DEF RecordAnswer, TypeInv, HandlersOK, OnAQuestion
  <2>2. IndexAfter(r) \in 0..(Target + 1)
    BY <1>s, <2>1, <1>1
       DEF IndexAfter, RecordAnswer, Questions, TypeInv, HandlersOK, OnAQuestion, ShapeAssumption
  <2>3. CASE ~IndexUnmoved(r)
    <3>1. Finish(r) /\ UNCHANGED <<row, moved, words, turns, total>>
      BY <1>1, <2>3 DEF RecordAnswer
    <3>2. HandlersOK' BY <3>1, FinishTyped DEF TypeInv
    <3> QED BY <1>1, <3>1, <3>2
            DEF RecordAnswer, TypeInv, RowOK, ChatOK, AnswersOK, RestOK, row
  <2>4. CASE IndexUnmoved(r)
    <3>1. RowOK' BY <1>1, <2>2, <2>4 DEF RecordAnswer, TypeInv, RowOK
    <3>2. ChatOK' BY <1>1, <2>1, <2>4 DEF RecordAnswer, CountTurn, TypeInv, ChatOK
    <3>3. AnswersOK' /\ RestOK'
      BY <1>1, <2>1, <2>4 DEF RecordAnswer, TypeInv, AnswersOK, RestOK
    <3>4. copy' \in [Requests -> Copies]
      BY <1>1, <2>2, <2>4 DEF RecordAnswer, TypeInv, HandlersOK, Copies
    <3>5. PICK next \in {"hand", "batch", "move"} : pc' = [pc EXCEPT ![r] = next]
      BY <1>1, <2>4 DEF RecordAnswer
    <3>6. plan' = plan BY <1>1, <2>4 DEF RecordAnswer
    <3>7. copy' = [copy EXCEPT ![r].index = IndexAfter(r)]
      BY <1>1, <2>4 DEF RecordAnswer
    <3>8. OnAQuestion'
      BY <3>5, <3>6, <3>7 DEF TypeInv, HandlersOK, OnAQuestion
    <3>9. HandlersOK' BY <3>4, <3>5, <3>6, <3>8 DEF TypeInv, HandlersOK
    <3> QED BY <3>1, <3>2, <3>3, <3>9 DEF TypeInv
  <2> QED BY <2>3, <2>4
<1>2. CASE RecordClosing(r)
  <2>1. copy[r].index \in Questions BY <1>2 DEF RecordClosing, TypeInv, HandlersOK, OnAQuestion
  <2>2. RowOK' /\ ChatOK' /\ AnswersOK' /\ RestOK'
    BY <1>2, <2>1 DEF RecordClosing, TypeInv, RowOK, ChatOK, AnswersOK, RestOK, row, chat
  <2>3. CASE Goto(r, "end", plan[r])
    <3>1. HandlersOK' BY <1>p, <2>3, GotoTyped DEF TypeInv
    <3> QED BY <2>2, <3>1 DEF TypeInv
  <2>4. CASE Finish(r)
    BY <2>2, <2>4, FinishTyped DEF TypeInv
  <2> QED BY <1>2, <2>3, <2>4 DEF RecordClosing
<1>3. CASE AskNext(r)
  <2>1. HandlersOK' BY <1>3, FinishTyped DEF AskNext, TypeInv
  <2>2. said' \subseteq Questions BY <1>3 DEF AskNext, QuestionAt, TypeInv, ChatOK
  <2> QED BY <1>3, <2>1, <2>2 DEF AskNext, TypeInv, RowOK, ChatOK, AnswersOK, RestOK, row, answers
<1> QED BY <1>1, <1>2, <1>3

(* The remaining steps, and the environment's.                             *)
LEMMA OtherStepsTyped ==
    ASSUME TypeInv, NEW r \in Requests,
           \/ CheckListing(r) \/ SeedIndex(r) \/ Enqueue(r) \/ Crash(r)
           \/ DeleteInterview \/ ExhaustBudget
    PROVE  TypeInv'
<1> USE DEF Steps, OnQuestion
<1>1. CASE CheckListing(r)
  <2>1. NoPlan \in Plans BY DEF NoPlan, Plans, Inputs, Acts
  <2>2. HandlersOK' BY <1>1, <2>1, FinishTyped, GotoTyped DEF CheckListing, TypeInv
  <2> QED BY <1>1, <2>2
          DEF CheckListing, TypeInv, RowOK, ChatOK, AnswersOK, RestOK, row, chat, answers
<1>2. CASE SeedIndex(r)
  <2>1. 1 \in 0..(Target + 1) BY ShapeAssumption DEF ShapeAssumption
  <2>2. HandlersOK'
    BY <1>2, <2>1 DEF SeedIndex, TypeInv, HandlersOK, OnAQuestion, Copies, RowOK
  <2> QED BY <1>2, <2>1, <2>2
          DEF SeedIndex, TypeInv, RowOK, ChatOK, AnswersOK, RestOK, chat, answers
<1>3. CASE Enqueue(r) \/ Crash(r)
  <2>1. HandlersOK' BY <1>3, FinishTyped DEF Enqueue, Crash, TypeInv
  <2> QED BY <1>3, <2>1
          DEF Enqueue, Crash, TypeInv, RowOK, ChatOK, AnswersOK, RestOK, row, chat, answers
<1>4. CASE DeleteInterview \/ ExhaustBudget
  <2>1. HandlersOK'
    BY <1>4 DEF DeleteInterview, ExhaustBudget, handlers, TypeInv, HandlersOK, OnAQuestion
  <2> QED BY <1>4, <2>1
          DEF DeleteInterview, ExhaustBudget, TypeInv, RowOK, ChatOK, AnswersOK, RestOK, row, chat, answers
<1> QED BY <1>1, <1>2, <1>3, <1>4
-----------------------------------------------------------------------------
LEMMA InitTyped == Init => TypeInv
<1> SUFFICES ASSUME Init PROVE TypeInv OBVIOUS
<1>1. Blank \in Copies BY ShapeAssumption DEF Blank, Copies, InterviewStates, ShapeAssumption
<1>2. NoPlan \in Plans BY DEF NoPlan, Plans, Inputs, Acts
<1>3. HandlersOK BY <1>1, <1>2 DEF Init, HandlersOK, OnAQuestion, OnQuestion, Steps
<1>4. RowOK
  <2>1. 0 \in 0..(Target + 1) BY ShapeAssumption DEF ShapeAssumption
  <2>2. "created" \in InterviewStates BY DEF InterviewStates
  <2> QED BY <2>1, <2>2 DEF Init, RowOK
<1>5. ChatOK /\ AnswersOK /\ RestOK BY DEF Init, ChatOK, AnswersOK, RestOK
<1> QED BY <1>3, <1>4, <1>5 DEF TypeInv

LEMMA NextTyped == TypeInv /\ [Next]_vars => TypeInv'
<1> SUFFICES ASSUME TypeInv, [Next]_vars PROVE TypeInv' OBVIOUS
<1>1. ASSUME NEW r \in Requests, Arrive(r) PROVE TypeInv'
  BY <1>1, ArriveTyped
<1>2. ASSUME NEW r \in Requests, Proceed(r) PROVE TypeInv'
  BY <1>2, TransitionStepsTyped, GenerationStepsTyped, ConductingStepsTyped,
     RecordingStepsTyped, OtherStepsTyped DEF Proceed
<1>3. ASSUME NEW r \in Requests, Crash(r) PROVE TypeInv'
  BY <1>3, OtherStepsTyped
<1>4. CASE DeleteInterview \/ ExhaustBudget
  BY <1>4, OtherStepsTyped, InterviewAssumption DEF InterviewAssumption
<1>5. CASE UNCHANGED vars
  BY <1>5 DEF vars, row, chat, answers, handlers, TypeInv, RowOK, ChatOK, AnswersOK, RestOK,
              HandlersOK, OnAQuestion
<1> QED BY <1>1, <1>2, <1>3, <1>4, <1>5 DEF Next

(* Every reachable state is typed: in particular an advance never takes    *)
(* `current_index` more than one past the target, and no turn or answer    *)
(* is written against a question the interview does not have.              *)
THEOREM TypeCorrect == Spec => []TypeOK
<1>1. TypeInv => TypeOK
  BY DEF TypeInv, TypeOK, RowOK, ChatOK, AnswersOK, RestOK, HandlersOK
<1> QED BY <1>1, InitTyped, NextTyped, PTL DEF Spec
-----------------------------------------------------------------------------
(* The lifecycle.                                                          *)

(* A reason is written with the state that ends the candidate's part, and  *)
(* this side of the report nothing leaves that state: so it is written     *)
(* once.                                                                   *)
ReasonEnds == reason # NoReason => state \in {"evaluating", "abandoned"}

(* The states the API and the sweep write; the report worker has the others. *)
Targets == {"profiling", "hr_round", "tech_round", "paused", "evaluating", "abandoned"}

(* What any write of the row does to the columns the lifecycle is about.   *)
StateMove ==
    \E to \in Targets, why \in EndedReasons \cup {NoReason} :
        /\ CanTransition(state, to)
        /\ WriteState(to, why)
        /\ why # NoReason => to \in {"evaluating", "abandoned"}
        /\ to = "abandoned" => why = "abandoned"

NoStateMove == UNCHANGED <<state, reason, ended>>

LEMMA ApplyTransitionMoves ==
    ASSUME TypeInv, NEW r \in Requests, NEW to \in Targets,
           NEW why \in EndedReasons \cup {NoReason},
           NEW won, NEW lost,
           why # NoReason => to \in {"evaluating", "abandoned"},
           to = "abandoned" => why = "abandoned",
           ApplyTransition(r, to, why, won, lost)
    PROVE  StateMove \/ NoStateMove
BY DEF ApplyTransition, TransitionAllowed, StateMove, NoStateMove, row

LEMMA StepMoves ==
    ASSUME TypeInv, [Next]_vars
    PROVE  StateMove \/ NoStateMove
<1> USE DEF NoStateMove, Targets
<1>1. ASSUME NEW r \in Requests, Arrive(r) PROVE NoStateMove
  BY <1>1 DEF Arrive, SubmitProfile, ResumeBeforeStart, SubmitAnswer, SubmitTurn, SpeechCeiling,
              ResumeStranded, ResumePaused, AbandonInterview, SweepAbandoned, Enter, row
<1>2. ASSUME NEW r \in Requests, Proceed(r) PROVE StateMove \/ NoStateMove
  <2>1. CASE OpenProfiling(r) \/ ClaimProfiling(r) \/ StartHrRound(r)
    BY <2>1, ApplyTransitionMoves
       DEF OpenProfiling, ClaimProfiling, StartHrRound, InterviewStates, NoReason
  <2>2. CASE Pause(r) \/ Unpause(r) \/ RejoinTechRound(r)
    BY <2>2, ApplyTransitionMoves DEF Pause, Unpause, RejoinTechRound, InterviewStates, NoReason
  <2>3. CASE EndInterview(r)
    <3>1. plan[r].why \in EndedReasons \cup {NoReason} BY DEF TypeInv, HandlersOK, Plans
    <3> QED BY <2>3, <3>1, ApplyTransitionMoves DEF EndInterview, InterviewStates
  <2>4. CASE Abandon(r)
    BY <2>4, ApplyTransitionMoves DEF Abandon, InterviewStates, EndedReasons
  <2>5. CASE MoveRound(r)
    <3>1. CASE ApplyTransition(r, "evaluating", NoReason, "idle", "idle")
      BY <3>1, ApplyTransitionMoves DEF InterviewStates, NoReason
    <3>2. CASE ApplyTransition(r, "tech_round", NoReason, AfterMove(r), "idle")
      BY <3>2, ApplyTransitionMoves DEF InterviewStates, NoReason
    <3>3. CASE UNCHANGED row BY <3>3 DEF row
    <3> QED BY <2>5, <3>1, <3>2, <3>3 DEF MoveRound
  <2>6. CASE HandOver(r)
    BY <2>6 DEF HandOver, TransitionAllowed, StateMove, InterviewStates, NoReason, row
  <2>7. CASE GenerateHrBatch(r) \/ EnsureTechBatch(r) \/ RegenerateRound(r) \/ RefillRound(r)
    BY <2>7 DEF GenerateHrBatch, EnsureTechBatch, RegenerateRound, RefillRound, GenerateRound, row
  <2>8. CASE LoadConversation(r) \/ Speak(r) \/ AskConductor(r) \/ Say(r) \/ AskNext(r)
    BY <2>8 DEF LoadConversation, Speak, AskConductor, Say, AskNext, row
  <2>9. CASE RecordAnswer(r) \/ RecordClosing(r)
    BY <2>9 DEF RecordAnswer, RecordClosing, row
  <2>10. CASE CheckListing(r) \/ SeedIndex(r) \/ Enqueue(r)
    BY <2>10 DEF CheckListing, SeedIndex, Enqueue, row
  <2> QED BY <1>2, <2>1, <2>2, <2>3, <2>4, <2>5, <2>6, <2>7, <2>8, <2>9, <2>10 DEF Proceed
<1>3. ASSUME NEW r \in Requests, Crash(r) PROVE NoStateMove
  BY <1>3 DEF Crash, row
<1>4. CASE DeleteInterview \/ ExhaustBudget
  BY <1>4 DEF DeleteInterview, ExhaustBudget, row
<1>5. CASE UNCHANGED vars
  BY <1>5 DEF vars, row
<1> QED BY <1>1, <1>2, <1>3, <1>4, <1>5 DEF Next

(* A move is one of the abstract ones, given that a reason already written *)
(* is followed by no further move.                                         *)
LEMMA MoveRefines ==
    ASSUME TypeInv, ReasonEnds, StateMove
    PROVE  Lifecycle!Next /\ ReasonEnds'
<1>1. PICK to \in Targets, why \in EndedReasons \cup {NoReason} :
        /\ CanTransition(state, to)
        /\ WriteState(to, why)
        /\ why # NoReason => to \in {"evaluating", "abandoned"}
        /\ to = "abandoned" => why = "abandoned"
  BY DEF StateMove
<1>2. Lifecycle!CanTransition(state, to)
  BY <1>1 DEF CanTransition, TRANSITIONS, Lifecycle!CanTransition, Lifecycle!TRANSITIONS
<1>3. CASE state \notin {"evaluating", "abandoned"}
  <2>1. reason = NoReason BY <1>3 DEF ReasonEnds
  <2>2. reason' = why BY <1>1, <2>1 DEF WriteState
  <2>3. Lifecycle!MayCarry(to, why)
    BY <1>1, <2>1 DEF Lifecycle!MayCarry, NoReason, EndedReasons, Lifecycle!NoReason, Lifecycle!EndedReasons
  <2>4. Lifecycle!Move(to, why)
    BY <1>1, <1>2, <2>2, <2>3 DEF Lifecycle!Move, WriteState, TERMINAL, Lifecycle!TERMINAL
  <2>5. ReasonEnds' BY <1>1, <2>2 DEF ReasonEnds, WriteState
  <2> QED BY <2>4, <2>5
          DEF Lifecycle!Next, Targets, Lifecycle!InterviewStates,
              EndedReasons, Lifecycle!EndedReasons, NoReason, Lifecycle!NoReason
<1>4. CASE state \in {"evaluating", "abandoned"}
  BY <1>1, <1>4 DEF CanTransition, TRANSITIONS, Targets
<1> QED BY <1>3, <1>4

(* The detailed interview implements the abstract lifecycle, for any number *)
(* of overlapping requests and any faults: the row moves along the edges of *)
(* machine.ts only, an ending is stamped with the state that is one, and    *)
(* `ended_reason` is written once, with the move it explains.               *)
THEOREM ImplementsLifecycle == Spec => FollowsLifecycle
<1>1. Init => ReasonEnds /\ Lifecycle!Init
  BY DEF Init, ReasonEnds, Lifecycle!Init, Lifecycle!NoReason, NoReason
<1>2. ASSUME TypeInv, ReasonEnds, [Next]_vars
      PROVE  ReasonEnds' /\ [Lifecycle!Next]_(Lifecycle!row)
  <2>1. CASE StateMove BY <1>2, <2>1, MoveRefines
  <2>2. CASE NoStateMove BY <1>2, <2>2 DEF NoStateMove, ReasonEnds, Lifecycle!row
  <2> QED BY <1>2, <2>1, <2>2, StepMoves
<1> QED BY <1>1, <1>2, InitTyped, NextTyped, PTL DEF Spec, FollowsLifecycle, Lifecycle!Spec
-----------------------------------------------------------------------------
(* The floor of the HR round.                                              *)

(* A handover on its way to the write was allowed on the question the      *)
(* handler holds.                                                          *)
HandOverAllowed ==
    \A r \in Requests :
        pc[r] = "record" /\ plan[r].act = "handover"
            => MayHandOver(copy[r].state, copy[r].index)

(* Only these two writes touch `current_index`.                            *)
LEMMA IndexWrites ==
    ASSUME [Next]_vars
    PROVE  \/ UNCHANGED index
           \/ \E r \in Requests : SeedIndex(r) \/ (RecordAnswer(r) /\ IndexUnmoved(r))
<1>1. ASSUME NEW r \in Requests, Arrive(r) PROVE UNCHANGED index
  BY <1>1 DEF Arrive, SubmitProfile, ResumeBeforeStart, SubmitAnswer, SubmitTurn, SpeechCeiling,
              ResumeStranded, ResumePaused, AbandonInterview, SweepAbandoned, Enter, row
<1>2. ASSUME NEW r \in Requests, Proceed(r)
      PROVE  UNCHANGED index \/ SeedIndex(r) \/ (RecordAnswer(r) /\ IndexUnmoved(r))
  <2> USE DEF row, ApplyTransition, WriteState
  <2>1. CASE OpenProfiling(r) \/ ClaimProfiling(r) \/ StartHrRound(r) \/ Pause(r) \/ EndInterview(r)
    BY <2>1 DEF OpenProfiling, ClaimProfiling, StartHrRound, Pause, EndInterview
  <2>2. CASE MoveRound(r) \/ HandOver(r) \/ Unpause(r) \/ RejoinTechRound(r) \/ Abandon(r)
    BY <2>2 DEF MoveRound, HandOver, Unpause, RejoinTechRound, Abandon
  <2>3. CASE GenerateHrBatch(r) \/ EnsureTechBatch(r) \/ RegenerateRound(r) \/ RefillRound(r)
    BY <2>3 DEF GenerateHrBatch, EnsureTechBatch, RegenerateRound, RefillRound, GenerateRound
  <2>4. CASE LoadConversation(r) \/ Speak(r) \/ AskConductor(r) \/ Say(r) \/ AskNext(r)
    BY <2>4 DEF LoadConversation, Speak, AskConductor, Say, AskNext
  <2>5. CASE CheckListing(r) \/ RecordClosing(r) \/ Enqueue(r)
    BY <2>5 DEF CheckListing, RecordClosing, Enqueue
  <2>6. CASE RecordAnswer(r)
    BY <2>6 DEF RecordAnswer
  <2> QED BY <1>2, <2>1, <2>2, <2>3, <2>4, <2>5, <2>6 DEF Proceed
<1>3. CASE (\E r \in Requests : Crash(r)) \/ DeleteInterview \/ ExhaustBudget \/ UNCHANGED vars
  BY <1>3 DEF Crash, DeleteInterview, ExhaustBudget, vars, row
<1> QED BY <1>1, <1>2, <1>3 DEF Next

(* Every way to a handover's write passes the guard of `conductor.ts`.     *)
LEMMA NextHandOverAllowed ==
    ASSUME TypeInv, HandOverAllowed, [Next]_vars
    PROVE  HandOverAllowed'
<1> USE DEF TypeInv, HandlersOK
<1> DEFINE Fine(r) == pc'[r] = "record" /\ plan'[r].act = "handover"
                          => MayHandOver(copy'[r].state, copy'[r].index)
<1>1. ASSUME NEW r \in Requests, Fine(r),
             \A s \in Requests \ {r} : /\ pc'[s] = pc[s] /\ copy'[s] = copy[s]
                                       /\ plan'[s] = plan[s]
      PROVE  HandOverAllowed'
  BY <1>1 DEF HandOverAllowed, MayHandOver
<1>2. ASSUME NEW r \in Requests, Finish(r) PROVE HandOverAllowed'
  BY <1>1, <1>2 DEF Finish
<1>3. ASSUME NEW r \in Requests, NEW step, NEW p, Goto(r, step, p) \/ Enter(r, step, p),
             step # "record" \/ p.act # "handover"
      PROVE  HandOverAllowed'
  BY <1>1, <1>3 DEF Goto, Enter
<1>4. ASSUME NEW r \in Requests, NEW step, Continue(r, step), step # "record" PROVE HandOverAllowed'
  BY <1>2, <1>3, <1>4 DEF Continue
<1>5. ASSUME NEW r \in Requests, NEW to, NEW why, NEW won, NEW lost,
             won # "record", lost # "record", ApplyTransition(r, to, why, won, lost)
      PROVE  HandOverAllowed'
  <2>1. CASE Finish(r) \/ Continue(r, lost) BY <1>2, <1>4, <1>5, <2>1
  <2>2. CASE /\ pc' = [pc EXCEPT ![r] = AfterWrite(to, won)]
             /\ copy' = [copy EXCEPT ![r].state = to]
             /\ UNCHANGED plan
    <3>1. pc'[r] # "record" BY <1>5, <2>2 DEF AfterWrite
    <3> QED BY <1>1, <2>2, <3>1
  <2> QED BY <1>5, <2>1, <2>2, Zenon DEF ApplyTransition
<1>6. ASSUME NEW r \in Requests, Arrive(r) PROVE HandOverAllowed'
  <2>1. CASE SubmitAnswer(r)
    BY <1>3, <2>1 DEF SubmitAnswer, NoPlan
  <2>2. CASE SubmitProfile(r) \/ ResumeBeforeStart(r) \/ SpeechCeiling(r)
    BY <1>3, <2>2 DEF SubmitProfile, ResumeBeforeStart, SpeechCeiling
  <2>5. CASE ResumeStranded(r) \/ ResumePaused(r) \/ SweepAbandoned(r)
    BY <1>3, <2>5 DEF ResumeStranded, ResumePaused, SweepAbandoned
  <2>3. ASSUME NEW input, SubmitTurn(r, input) PROVE HandOverAllowed'
    BY <1>3, <2>3 DEF SubmitTurn
  <2>4. CASE AbandonInterview(r)
    <3>1. PICK p : Enter(r, "end", p) \/ Enter(r, "quit", p)
      BY <2>4, Zenon DEF AbandonInterview
    <3> QED BY <1>3, <3>1
  <2> QED BY <1>6, <2>1, <2>2, <2>3, <2>4, <2>5 DEF Arrive
<1>7. ASSUME NEW r \in Requests, Proceed(r) PROVE HandOverAllowed'
  <2>1. CASE OpenProfiling(r) \/ ClaimProfiling(r) \/ StartHrRound(r) \/ EndInterview(r)
    BY <1>5, <2>1 DEF OpenProfiling, ClaimProfiling, StartHrRound, EndInterview
  <2>2. CASE Unpause(r) \/ RejoinTechRound(r) \/ Abandon(r)
    BY <1>5, <2>2 DEF Unpause, RejoinTechRound, Abandon
  <2>3. CASE Pause(r)
    <3>1. plan[r].after # "record" BY DEF Plans
    <3> QED BY <1>5, <2>3, <3>1 DEF Pause
  <2>4. CASE MoveRound(r)
    <3>1. AfterMove(r) # "record" BY DEF AfterMove
    <3> QED BY <1>4, <1>5, <2>4, <3>1 DEF MoveRound
  <2>5. CASE HandOver(r)
    <3>1. CASE pc' = [pc EXCEPT ![r] = "load"] /\ copy' = [copy EXCEPT ![r].state = "tech_round"]
               /\ plan' = [plan EXCEPT ![r] = OpeningPlan]
      BY <1>1, <3>1
    <3> QED BY <1>2, <2>5, <3>1 DEF HandOver
  <2>6. ASSUME NEW round, NEW done, done # "record", NEW failed, failed # "record",
               GenerateRound(r, round, done, failed)
        PROVE  HandOverAllowed'
    BY <1>3, <1>4, <2>6 DEF GenerateRound
  <2>7. CASE GenerateHrBatch(r) \/ EnsureTechBatch(r) \/ RegenerateRound(r) \/ RefillRound(r)
    BY <2>6, <2>7 DEF GenerateHrBatch, EnsureTechBatch, RegenerateRound, RefillRound
  <2>8. CASE LoadConversation(r) \/ Speak(r)
    BY <1>2, <1>3, <2>8 DEF LoadConversation, Speak
  <2>9. CASE AskConductor(r)
    <3>1. ASSUME NEW step, NEW p, Goto(r, step, p), step # "record" PROVE HandOverAllowed'
      BY <1>3, <3>1
    <3>2. ASSUME NEW wanted \in Requested,
                 Perform(r, Clamp(wanted, copy[r].state, copy[r].index, plan[r].onQuestion))
          PROVE  HandOverAllowed'
      <4> DEFINE action == Clamp(wanted, copy[r].state, copy[r].index, plan[r].onQuestion)
      <4>1. action = "handover" => MayHandOver(copy[r].state, copy[r].index)
        BY <3>2, Zenon DEF Clamp, Refused, Moves
      <4>2. CASE RecordAs(r, "handover") /\ action = "handover"
        <5>1. pc' = [pc EXCEPT ![r] = "record"] /\ UNCHANGED copy
              /\ plan' = [plan EXCEPT ![r] = [plan[r] EXCEPT !.act = "handover"]]
          BY <4>2 DEF RecordAs, Goto
        <5> QED BY <1>1, <4>1, <4>2, <5>1
      <4>3. CASE RecordAs(r, "next_question")
        <5>1. plan[r] \in Plans OBVIOUS
        <5>2. [plan[r] EXCEPT !.act = "next_question"].act # "handover"
          BY <5>1 DEF Plans
        <5> QED BY <1>3, <4>3, <5>2 DEF RecordAs
      <4>4. CASE Goto(r, "say", plan[r]) \/ EndWith(r, "completed") \/ EndWith(r, "cut_short")
        BY <3>1, <4>4 DEF EndWith
      <4> HIDE DEF action
      <4> QED BY <3>2, <4>2, <4>3, <4>4 DEF Perform, action
    <3> QED BY <2>9, <3>1, <3>2 DEF AskConductor, EndWith
  <2>10. CASE CheckListing(r) \/ Say(r) \/ AskNext(r) \/ Enqueue(r)
    BY <1>2, <1>3, <2>10 DEF CheckListing, Say, AskNext, Enqueue
  <2>11. CASE RecordClosing(r)
    BY <1>2, <1>3, <2>11 DEF RecordClosing
  <2>12. CASE SeedIndex(r)
    BY <1>1, <2>12 DEF SeedIndex
  <2>13. CASE RecordAnswer(r)
    <3>1. CASE Finish(r) BY <1>2, <3>1
    <3>2. CASE IndexUnmoved(r)
      <4>1. PICK next \in {"hand", "batch", "move"} :
                /\ pc' = [pc EXCEPT ![r] = next] /\ UNCHANGED plan
                /\ copy' = [copy EXCEPT ![r].index = IndexAfter(r)]
        BY <2>13, <3>2 DEF RecordAnswer
      <4> QED BY <1>1, <4>1
    <3> QED BY <2>13, <3>1, <3>2 DEF RecordAnswer
  <2> QED BY <1>7, <2>1, <2>2, <2>3, <2>4, <2>5, <2>7, <2>8, <2>9, <2>10, <2>11, <2>12, <2>13
          DEF Proceed
<1>8. ASSUME NEW r \in Requests, Crash(r) PROVE HandOverAllowed'
  BY <1>2, <1>8 DEF Crash
<1>9. CASE DeleteInterview \/ ExhaustBudget \/ UNCHANGED vars
  BY <1>9 DEF DeleteInterview, ExhaustBudget, vars, handlers, HandOverAllowed, MayHandOver
<1> QED BY <1>6, <1>7, <1>8, <1>9 DEF Next

(* Whatever the interviewer model asks for, however requests overlap and   *)
(* whatever fails, the index leaves the HR block only from its last        *)
(* question or from past the floor of conductor.ts: the guard looked at a  *)
(* copy, and the write that follows succeeds on that copy's index only.    *)
THEOREM HrRoundHasAFloor == Spec => HandOverPastFloor
<1>1. Init => HandOverAllowed
  BY DEF Init, HandOverAllowed
<1>2. ASSUME TypeInv, HandOverAllowed, [Next]_vars
      PROVE  0 < index /\ index < HrCount /\ index' > HrCount => index - 1 >= HandOverFloor
  <2>1. CASE UNCHANGED index
    BY <1>2, <2>1, ShapeAssumption DEF TypeInv, RowOK, ShapeAssumption
  <2>2. ASSUME NEW r \in Requests, SeedIndex(r) PROVE index' <= HrCount
    BY <2>2, ShapeAssumption DEF SeedIndex, ShapeAssumption
  <2>3. ASSUME NEW r \in Requests, RecordAnswer(r), IndexUnmoved(r)
        PROVE  index < HrCount /\ index' > HrCount => index - 1 >= HandOverFloor
    <3>1. index' = IndexAfter(r) /\ pc[r] = "record" /\ copy[r].index = index
      BY <2>3 DEF RecordAnswer, IndexUnmoved
    <3>2. plan[r].act = "handover" => index - 1 >= HandOverFloor
      BY <1>2, <3>1 DEF HandOverAllowed, MayHandOver
    <3>3. plan[r].act # "handover" => index' = index + 1
      BY <3>1 DEF IndexAfter
    <3> QED BY <1>2, <3>2, <3>3, ShapeAssumption DEF TypeInv, RowOK, ShapeAssumption
  <2>4. index \in Nat /\ index' \in Nat /\ HrCount \in Nat
    <3>1. TypeInv' BY <1>2, NextTyped
    <3> QED BY <1>2, <3>1, ShapeAssumption DEF TypeInv, RowOK, ShapeAssumption
  <2> QED BY <1>2, <2>1, <2>2, <2>3, <2>4, IndexWrites
<1>3. TypeInv /\ HandOverAllowed /\ [Next]_vars => HandOverAllowed'
  BY NextHandOverAllowed
<1> QED BY <1>1, <1>2, <1>3, InitTyped, NextTyped, PTL DEF Spec, HandOverPastFloor
=============================================================================
