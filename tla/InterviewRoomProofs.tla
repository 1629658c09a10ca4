------------------------- MODULE InterviewRoomProofs -------------------------
(***************************************************************************)
(* What holds of an interview whose question-moving requests come one at a *)
(* time, as the room sends them, while leaving, speech ceilings, the sweep *)
(* and the deletion overlap with them and processes die between any two    *)
(* commits.  The argument is that the one mover's copy stays current: so   *)
(* its late writes are about the question it looked at.                    *)
(***************************************************************************)
EXTENDS MCInterviewRoom, InterviewTechRoundProofs

(* Every step of a handler is of one of a few kinds; the invariants are    *)
(* shown to survive each kind.                                             *)

OverStates == {"evaluating", "abandoned"}

Kept == <<state, index, reason, words, moved, stayed>>

(* Nothing is left to write: the round is where the copy says, or another  *)
(* writer was faster.                                                      *)
NothingToMove(r) ==
    \/ copy[r].state \notin RoundStates \/ state # copy[r].state
    \/ ~PastTarget(copy[r].index) /\ (copy[r].state = "hr_round" => ~PastHr(copy[r].index))

(* When a handler that owes the interview a write may return without it.   *)
GivesUp(r) ==
    /\ pc[r] # "batch"
    /\ pc[r] = "refill" => "internal" \in Faults \/ ~PastHr(copy[r].index)
    /\ pc[r] = "pause" => ~TransitionAllowed(r, "paused")
    /\ pc[r] \in {"hand", "rejoin"} => ~TransitionAllowed(r, "tech_round")
    /\ pc[r] = "end" => ~TransitionAllowed(r, "evaluating")
    /\ pc[r] = "move" => NothingToMove(r)

Returns(r) == Finish(r) /\ UNCHANGED Kept

(* The steps that follow one another without a write of the row.           *)
Follows(r, step) ==
    \/ pc[r] = "generate"   /\ step \in {"load", "end", "pause"}
    \/ pc[r] = "load"       /\ step \in {"ask", "speak"}
    \/ pc[r] = "ask"        /\ step \in {"say", "record", "closing"}
    \/ pc[r] = "closing"    /\ step = "end"
    \/ pc[r] = "batch"      /\ step \in {"move", "end", "pause"}
    \/ pc[r] = "regenerate" /\ step \in {"end", "pause"}
    \/ pc[r] = "refill"     /\ step \in {"rejoin", "end", "pause"}
    \/ pc[r] = "move"       /\ step = "greet" /\ NothingToMove(r)
    \/ pc[r] = "pause"      /\ step = "move" /\ ~TransitionAllowed(r, "paused")

(* What the handler then knows.                                            *)
Decides(r, step, p) ==
    /\ p.input = plan[r].input
    /\ p.act = plan[r].act \/ (step = "record" /\ p.act \in {"next_question", "handover"})
    /\ step = "record" /\ p.act = "handover" => MayHandOver(copy[r].state, copy[r].index)
    /\ step = "closing" /\ p.why = "completed" => copy[r].index >= Target
    /\ step = "end" =>
        \/ pc[r] # "closing" /\ p.why = "budget_exhausted"
        \/ pc[r] = "closing" /\ p = plan[r] /\ copy[r].index \notin words

GoesOn(r, step, p) ==
    /\ Goto(r, step, p) /\ UNCHANGED Kept
    /\ Follows(r, step) /\ Decides(r, step, p)

(* The writes of `interviews.state`, with the step that follows each.      *)
Wins(r, to, step) ==
    \/ pc[r] = "setup"   /\ to = "profiling"  /\ step = "idle"
    \/ pc[r] = "claim"   /\ to = "profiling"  /\ step = "seed"
    \/ pc[r] = "start"   /\ to = "hr_round"   /\ step = "generate"
    \/ pc[r] = "pause"   /\ to = "paused"     /\ step \in {"idle", "move"}
    \/ pc[r] = "move"    /\ to = "evaluating" /\ step = "enqueue"
    \/ pc[r] = "move"    /\ to = "tech_round" /\ step \in {"idle", "greet"}
                         /\ ~PastTarget(copy[r].index)
    \/ pc[r] = "hand"    /\ to = "tech_round" /\ step = "load"
    \/ pc[r] = "end"     /\ to = "evaluating" /\ step = "enqueue"
    \/ pc[r] = "unpause" /\ to = "hr_round"   /\ step = "refill"
    \/ pc[r] = "rejoin"  /\ to = "tech_round" /\ step = "idle"
    \/ pc[r] = "quit"    /\ to = "abandoned"  /\ step = "idle"

WhyOf(r) == IF pc[r] = "end" THEN plan[r].why
            ELSE IF pc[r] = "quit" THEN "abandoned" ELSE NoReason

Writes(r, to, step) ==
    /\ TransitionAllowed(r, to) /\ WriteState(to, WhyOf(r))
    /\ Wins(r, to, step)
    /\ \/ step = "idle" /\ Finish(r)
       \/ /\ step # "idle"
          /\ pc' = [pc EXCEPT ![r] = step]
          /\ copy' = [copy EXCEPT ![r].state = to]
          /\ plan' = [plan EXCEPT ![r] = IF pc[r] = "hand" THEN OpeningPlan ELSE plan[r]]
    /\ UNCHANGED <<words, moved, stayed>>

Advances(r) == RecordAnswer(r) /\ IndexUnmoved(r)

Closes(r) ==
    /\ pc[r] = "closing" /\ copy[r].index \in words /\ IndexUnmoved(r)
    /\ stayed' = [stayed EXCEPT ![copy[r].index] = @ + 1]
    /\ Goto(r, "end", plan[r])
    /\ UNCHANGED <<state, index, reason, words, moved>>

Lists(r) == pc[r] = "listing" /\ Goto(r, "setup", NoPlan) /\ UNCHANGED Kept

Kind(r) ==
    \/ Returns(r) /\ GivesUp(r)
    \/ \E step \in Steps, p \in Plans : GoesOn(r, step, p)
    \/ \E to \in Targets, step \in Steps : Writes(r, to, step)
    \/ Lists(r) \/ SeedIndex(r) \/ Speak(r) \/ Advances(r) \/ Closes(r)
-----------------------------------------------------------------------------
LEMMA TransitionKind ==
    ASSUME TypeInv, NEW r \in Requests, NEW to \in Targets, NEW why,
           NEW won \in Steps, NEW lost \in Steps,
           ApplyTransition(r, to, why, won, lost),
           why = WhyOf(r), pc[r] # "hand",
           Wins(r, to, AfterWrite(to, won)),
           lost = "idle" /\ ~TransitionAllowed(r, to) => GivesUp(r),
           lost # "idle" => lost = "move" /\ pc[r] = "pause" /\ to = "paused"
    PROVE  Kind(r)
<1> USE DEF TypeInv, HandlersOK
<1>1. UNCHANGED <<words, moved, stayed>> BY DEF ApplyTransition, chat, answers
<1>2. CASE /\ TransitionAllowed(r, to) /\ WriteState(to, why)
           /\ LET next == AfterWrite(to, won)
              IN  IF next = "idle" THEN Finish(r)
                  ELSE /\ pc' = [pc EXCEPT ![r] = next]
                       /\ copy' = [copy EXCEPT ![r].state = to]
                       /\ UNCHANGED plan
  <2> DEFINE next == AfterWrite(to, won)
  <2>1. next \in Steps BY DEF AfterWrite, Steps
  <2>2. plan' = plan => plan' = [plan EXCEPT ![r] = IF pc[r] = "hand" THEN OpeningPlan ELSE plan[r]]
    OBVIOUS
  <2>3. Writes(r, to, next) BY <1>1, <1>2, <2>2 DEF Writes
  <2> QED BY <2>1, <2>3 DEF Kind
<1>3. CASE ~TransitionAllowed(r, to) /\ Continue(r, lost) /\ UNCHANGED row
  <2>1. UNCHANGED Kept BY <1>1, <1>3 DEF Kept, row
  <2>2. CASE lost = "idle"
    BY <1>3, <2>1, <2>2 DEF Continue, Kind, Returns
  <2>3. CASE lost # "idle"
    <3>1. Goto(r, "move", plan[r]) /\ pc[r] = "pause" /\ ~TransitionAllowed(r, "paused")
      BY <1>3, <2>3 DEF Continue
    <3>2. GoesOn(r, "move", plan[r])
      BY <2>1, <3>1 DEF GoesOn, Follows, Decides
    <3>3. "move" \in Steps /\ plan[r] \in Plans BY DEF Steps
    <3> QED BY <3>2, <3>3 DEF Kind
  <2> QED BY <2>2, <2>3
<1> QED BY <1>2, <1>3 DEF ApplyTransition

LEMMA GenerateKind ==
    ASSUME TypeInv, NEW r \in Requests, NEW round, NEW done \in Steps, NEW failed \in {"idle", "move"},
           GenerateRound(r, round, done, failed),
           Follows(r, "end") /\ Follows(r, "pause") /\ pc[r] # "closing",
           done = "idle" => GivesUp(r),
           done # "idle" => Follows(r, done) /\ done \notin {"record", "closing", "end"},
           failed = "idle" => GivesUp(r) \/ "internal" \notin Faults,
           failed = "move" => pc[r] = "batch"
    PROVE  Kind(r)
<1> USE DEF TypeInv, HandlersOK
<1>0. plan[r] \in Plans OBVIOUS
<1>1. UNCHANGED Kept BY DEF GenerateRound, Kept, row, chat, answers
<1>2. CASE Goto(r, "end", [plan[r] EXCEPT !.why = "budget_exhausted"])
  <2> DEFINE p == [plan[r] EXCEPT !.why = "budget_exhausted"]
  <2>1. p \in Plans /\ p.why = "budget_exhausted" /\ p.input = plan[r].input /\ p.act = plan[r].act
    BY <1>0 DEF Plans, EndedReasons
  <2>2. "end" \in Steps BY DEF Steps
  <2> HIDE DEF p
  <2>3. GoesOn(r, "end", p) BY <1>1, <1>2, <2>1 DEF GoesOn, Decides, p
  <2> QED BY <2>1, <2>2, <2>3 DEF Kind
<1>3. CASE Goto(r, "pause", [plan[r] EXCEPT !.after = failed])
  <2> DEFINE p == [plan[r] EXCEPT !.after = failed]
  <2>1. p \in Plans /\ p.input = plan[r].input /\ p.act = plan[r].act
    BY <1>0 DEF Plans
  <2>2. "pause" \in Steps BY DEF Steps
  <2> HIDE DEF p
  <2>3. GoesOn(r, "pause", p) BY <1>1, <1>3, <2>1 DEF GoesOn, Decides, p
  <2> QED BY <2>1, <2>2, <2>3 DEF Kind
<1>4. CASE Continue(r, done)
  <2>1. CASE done = "idle"
    BY <1>1, <1>4, <2>1 DEF Continue, Kind, Returns
  <2>2. CASE done # "idle"
    <3>1. Goto(r, done, plan[r]) BY <1>4, <2>2 DEF Continue
    <3>2. GoesOn(r, done, plan[r]) BY <1>1, <2>2, <3>1 DEF GoesOn, Decides
    <3> QED BY <1>0, <3>2 DEF Kind
  <2> QED BY <2>1, <2>2
<1>5. CASE "internal" \in Faults /\ Continue(r, failed)
  <2>1. CASE failed = "idle"
    BY <1>1, <1>5, <2>1 DEF Continue, Kind, Returns
  <2>2. CASE failed = "move"
    <3>1. Goto(r, "move", plan[r]) BY <1>5, <2>2 DEF Continue
    <3>2. GoesOn(r, "move", plan[r]) BY <1>1, <2>2, <3>1 DEF GoesOn, Decides, Follows
    <3>3. "move" \in Steps BY DEF Steps
    <3> QED BY <1>0, <3>2, <3>3 DEF Kind
  <2> QED BY <2>1, <2>2
<1> QED BY <1>2, <1>3, <1>4, <1>5 DEF GenerateRound

(* Each handler's steps, sorted.                                           *)
LEMMA TransitionKinds ==
    ASSUME TypeInv, NEW r \in Requests,
           \/ OpenProfiling(r) \/ ClaimProfiling(r) \/ StartHrRound(r) \/ Pause(r)
           \/ MoveRound(r) \/ HandOver(r) \/ EndInterview(r) \/ Unpause(r)
           \/ RejoinTechRound(r) \/ Abandon(r)
    PROVE  Kind(r)
<1> USE DEF Steps, Targets
<1>1. CASE OpenProfiling(r) \/ ClaimProfiling(r) \/ StartHrRound(r)
  BY <1>1, TransitionKind
     DEF OpenProfiling, ClaimProfiling, StartHrRound, WhyOf, Wins, AfterWrite, GivesUp
<1>2. CASE Pause(r)
  <2>1. plan[r].after \in {"idle", "move"} BY DEF TypeInv, HandlersOK, Plans
  <2> QED BY <1>2, <2>1, TransitionKind DEF Pause, WhyOf, Wins, AfterWrite, GivesUp
<1>3. CASE MoveRound(r)
  <2>1. pc[r] = "move" /\ AfterMove(r) \in {"idle", "greet"} BY <1>3 DEF MoveRound, AfterMove
  <2>2. CASE ApplyTransition(r, "evaluating", NoReason, "idle", "idle")
             /\ copy[r].state \in RoundStates
    <3>1. CanTransition(copy[r].state, "evaluating")
      BY <2>2 DEF RoundStates, CanTransition, TRANSITIONS
    <3>2. AfterWrite("evaluating", "idle") = "enqueue" BY DEF AfterWrite
    <3>3. WhyOf(r) = NoReason /\ Wins(r, "evaluating", "enqueue") BY <2>1 DEF WhyOf, Wins
    <3>4. ~TransitionAllowed(r, "evaluating") => GivesUp(r)
      BY <2>1, <2>2, <3>1 DEF GivesUp, NothingToMove, TransitionAllowed
    <3> QED BY <2>1, <2>2, <3>2, <3>3, <3>4, TransitionKind
  <2>3. CASE /\ copy[r].state = "hr_round" /\ ~PastTarget(copy[r].index)
             /\ ApplyTransition(r, "tech_round", NoReason, AfterMove(r), "idle")
    <3>1. CanTransition("hr_round", "tech_round") BY DEF CanTransition, TRANSITIONS
    <3>2. AfterWrite("tech_round", AfterMove(r)) = AfterMove(r) BY DEF AfterWrite
    <3>3. WhyOf(r) = NoReason /\ Wins(r, "tech_round", AfterMove(r))
      BY <2>1, <2>3 DEF WhyOf, Wins
    <3>4. ~TransitionAllowed(r, "tech_round") => GivesUp(r)
      BY <2>1, <2>3, <3>1 DEF GivesUp, NothingToMove, TransitionAllowed
    <3>5. AfterMove(r) \in Steps BY <2>1
    <3> QED BY <2>1, <2>3, <3>2, <3>3, <3>4, <3>5, TransitionKind
  <2>4. CASE /\ NothingToMove(r) /\ Continue(r, AfterMove(r))
             /\ UNCHANGED <<row, batches, chat, answers, queued, spent>>
    <3>1. UNCHANGED Kept BY <2>4 DEF Kept, row, chat, answers
    <3>2. CASE Finish(r)
      BY <2>1, <2>4, <3>1, <3>2 DEF Kind, Returns, GivesUp
    <3>3. CASE Goto(r, "greet", plan[r])
      <4>1. GoesOn(r, "greet", plan[r]) BY <2>1, <2>4, <3>1, <3>3 DEF GoesOn, Follows, Decides
      <4>2. plan[r] \in Plans BY DEF TypeInv, HandlersOK
      <4> QED BY <4>1, <4>2 DEF Kind
    <3> QED BY <2>1, <2>4, <3>2, <3>3 DEF Continue
  <2> QED BY <1>3, <2>2, <2>3, <2>4 DEF MoveRound, NothingToMove
<1>4. CASE HandOver(r)
  <2>1. pc[r] = "hand" /\ UNCHANGED <<words, moved, stayed>> BY <1>4 DEF HandOver, chat, answers
  <2>2. CASE ~TransitionAllowed(r, "tech_round") /\ Finish(r) /\ UNCHANGED row
    BY <2>1, <2>2 DEF Kind, Returns, GivesUp, Kept, row
  <2>3. CASE /\ TransitionAllowed(r, "tech_round")
             /\ WriteState("tech_round", NoReason)
             /\ pc' = [pc EXCEPT ![r] = "load"]
             /\ copy' = [copy EXCEPT ![r].state = "tech_round"]
             /\ plan' = [plan EXCEPT ![r] = OpeningPlan]
    <3>1. Writes(r, "tech_round", "load") BY <2>1, <2>3 DEF Writes, Wins, WhyOf
    <3> QED BY <3>1 DEF Kind
  <2> QED BY <1>4, <2>2, <2>3 DEF HandOver
<1>5. CASE EndInterview(r) \/ Unpause(r)
  BY <1>5, TransitionKind DEF EndInterview, Unpause, WhyOf, Wins, AfterWrite, GivesUp
<1>6. CASE RejoinTechRound(r) \/ Abandon(r)
  BY <1>6, TransitionKind DEF RejoinTechRound, Abandon, WhyOf, Wins, AfterWrite, GivesUp
<1> QED BY <1>1, <1>2, <1>3, <1>4, <1>5, <1>6

LEMMA GenerationKinds ==
    ASSUME TypeInv, NEW r \in Requests,
           \/ GenerateHrBatch(r) \/ EnsureTechBatch(r) \/ RegenerateRound(r) \/ RefillRound(r)
    PROVE  Kind(r)
<1> USE DEF Steps
<1>1. CASE GenerateHrBatch(r)
  BY <1>1, GenerateKind DEF GenerateHrBatch, Follows, GivesUp
<1>2. CASE EnsureTechBatch(r)
  BY <1>2, GenerateKind DEF EnsureTechBatch, Follows, GivesUp
<1>3. CASE RegenerateRound(r)
  BY <1>3, GenerateKind DEF RegenerateRound, Follows, GivesUp
<1>4. CASE RefillRound(r)
  <2>1. pc[r] = "refill" BY <1>4 DEF RefillRound
  <2>2. CASE WaitsOnTech(r) /\ GenerateRound(r, "tech", "rejoin", "idle")
    BY <2>1, <2>2, GenerateKind DEF Follows, GivesUp
  <2>3. CASE ~WaitsOnTech(r) /\ GenerateRound(r, "hr", "idle", "idle")
    BY <2>1, <2>3, GenerateKind DEF Follows, GivesUp, WaitsOnTech
  <2> QED BY <1>4, <2>2, <2>3 DEF RefillRound
<1> QED BY <1>1, <1>2, <1>3, <1>4

(* The clamp lets the interview end as completed, and the interviewer hand *)
(* over, only where the guards of conductor.ts say so.                     *)
LEMMA ClampGuards ==
    ASSUME NEW wanted \in Requested, NEW st, NEW q \in Nat, NEW n
    PROVE  LET action == Clamp(wanted, st, q, n)
           IN  /\ action = "handover" => MayHandOver(st, q)
               /\ action = "end_completed" => q >= Target
<1> DEFINE action == Clamp(wanted, st, q, n)
<1>1. action \in {"handover", "end_completed"} => ~Refused(action, st, q, n)
  BY DEF Clamp, Refused
<1>2. MayComplete(q) => q >= Target
  BY ShapeAssumption DEF MayComplete, QuestionsLeft, ShapeAssumption
<1> QED BY <1>1, <1>2 DEF Refused

(* A handover with no technical question to go to is past its floor only   *)
(* on the last question.                                                   *)
LEMMA HandOverToNothing ==
    ASSUME NEW st, NEW q \in Nat, MayHandOver(st, q), HrCount + 1 > Target
    PROVE  q >= Target
<1>1. HrCount = 2 /\ Target = 2 BY ShapeAssumption DEF ShapeAssumption
<1>2. HandOverFloor = 1 BY <1>1 DEF HandOverFloor, CeilHalf
<1> QED BY <1>1, <1>2 DEF MayHandOver

LEMMA AskKind ==
    ASSUME TypeInv, NEW r \in Requests, AskConductor(r)
    PROVE  Kind(r)
<1> USE DEF TypeInv, HandlersOK
<1>0. pc[r] = "ask" /\ UNCHANGED Kept BY DEF AskConductor, Kept, row, chat, answers
<1>1. plan[r] \in Plans /\ copy[r].index \in Nat
  BY ShapeAssumption DEF Copies, ShapeAssumption
<1>2. ASSUME Goto(r, "say", plan[r]) PROVE Kind(r)
  <2>1. GoesOn(r, "say", plan[r]) BY <1>0, <1>2 DEF GoesOn, Follows, Decides
  <2>2. "say" \in Steps BY DEF Steps
  <2> QED BY <1>1, <2>1, <2>2 DEF Kind
<1>3. ASSUME NEW why \in EndedReasons, EndWith(r, why),
             why = "completed" => copy[r].index >= Target
      PROVE  Kind(r)
  <2> DEFINE p == [plan[r] EXCEPT !.why = why]
  <2>1. p \in Plans /\ p.why = why /\ p.input = plan[r].input /\ p.act = plan[r].act
    BY <1>1 DEF Plans
  <2>2. "closing" \in Steps BY DEF Steps
  <2> HIDE DEF p
  <2>3. GoesOn(r, "closing", p) BY <1>0, <1>3, <2>1 DEF GoesOn, Follows, Decides, EndWith, p
  <2> QED BY <2>1, <2>2, <2>3 DEF Kind
<1>4. ASSUME NEW act \in {"next_question", "handover"}, RecordAs(r, act),
             act = "handover" => MayHandOver(copy[r].state, copy[r].index)
      PROVE  Kind(r)
  <2> DEFINE p == [plan[r] EXCEPT !.act = act]
  <2>1. p \in Plans /\ p.act = act /\ p.input = plan[r].input
    BY <1>1 DEF Plans, Acts
  <2>2. "record" \in Steps BY DEF Steps
  <2> HIDE DEF p
  <2>3. GoesOn(r, "record", p) BY <1>0, <1>4, <2>1 DEF GoesOn, Follows, Decides, RecordAs, p
  <2> QED BY <2>1, <2>2, <2>3 DEF Kind
<1>5. ASSUME NEW wanted \in Requested,
             Perform(r, Clamp(wanted, copy[r].state, copy[r].index, plan[r].onQuestion))
      PROVE  Kind(r)
  <2> DEFINE action == Clamp(wanted, copy[r].state, copy[r].index, plan[r].onQuestion)
  <2>1. /\ action = "handover" => MayHandOver(copy[r].state, copy[r].index)
        /\ action = "end_completed" => copy[r].index >= Target
    BY <1>1, ClampGuards
  <2>2. action = "handover" /\ HrCount + 1 > Target => copy[r].index >= Target
    BY <1>1, <2>1, HandOverToNothing
  <2> HIDE DEF action
  <2>3. Perform(r, action) BY <1>5 DEF action
  <2>4. CASE action = "continue" /\ Goto(r, "say", plan[r]) BY <1>2, <2>4
  <2>5. CASE RecordAs(r, "next_question") BY <1>4, <2>5
  <2>6. CASE action = "handover" /\ HrCount + 1 > Target /\ EndWith(r, "completed")
    BY <1>3, <2>2, <2>6 DEF EndedReasons
  <2>7. CASE action = "handover" /\ RecordAs(r, "handover") BY <1>4, <2>1, <2>7
  <2>8. CASE action = "end_completed" /\ EndWith(r, "completed")
    BY <1>3, <2>1, <2>8 DEF EndedReasons
  <2>9. CASE EndWith(r, "cut_short") BY <1>3, <2>9 DEF EndedReasons
  <2> QED BY <2>3, <2>4, <2>5, <2>6, <2>7, <2>8, <2>9 DEF Perform
<1>6. EndWith(r, "cut_short") \/ EndWith(r, "budget_exhausted") => Kind(r)
  BY <1>3 DEF EndedReasons
<1> QED BY <1>2, <1>5, <1>6 DEF AskConductor

LEMMA ProceedKinds ==
    ASSUME TypeInv, NEW r \in Requests, Proceed(r)
    PROVE  Kind(r)
<1> USE DEF Steps
<1>p. plan[r] \in Plans BY DEF TypeInv, HandlersOK
<1>1. CASE LoadConversation(r)
  <2> DEFINE q == copy[r].index
             p == [plan[r] EXCEPT !.asked = q \in said,
                                  !.onQuestion = turns[q],
                                  !.total = total]
             step == IF Opening(r) THEN "ask" ELSE "speak"
  <2>1. pc[r] = "load" /\ UNCHANGED Kept BY <1>1 DEF LoadConversation, Kept, row, chat, answers
  <2>2. CASE Finish(r)
    BY <2>1, <2>2 DEF Kind, Returns, GivesUp
  <2>3. CASE QuestionAt(q) /\ Goto(r, step, p)
    <3>1. turns[q] \in Nat /\ total \in Nat /\ (q \in said) \in BOOLEAN
      BY <2>3 DEF QuestionAt, TypeInv, ChatOK
    <3>2. p \in Plans /\ p.input = plan[r].input /\ p.act = plan[r].act
      BY <1>p, <3>1 DEF Plans
    <3>3. step \in {"ask", "speak"} OBVIOUS
    <3> HIDE DEF p, step
    <3>4. GoesOn(r, step, p) BY <2>1, <2>3, <3>2, <3>3 DEF GoesOn, Follows, Decides
    <3> QED BY <3>2, <3>3, <3>4 DEF Kind
  <2> QED BY <1>1, <2>2, <2>3 DEF LoadConversation
<1>2. CASE Say(r) \/ AskNext(r) \/ Enqueue(r)
  <2>1. pc[r] \in {"say", "greet", "enqueue"} /\ Finish(r) /\ UNCHANGED Kept
    BY <1>2 DEF Say, AskNext, Enqueue, Kept, row, chat, answers
  <2> QED BY <2>1 DEF Kind, Returns, GivesUp
<1>3. CASE CheckListing(r)
  <2>1. pc[r] = "listing" /\ UNCHANGED Kept BY <1>3 DEF CheckListing, Kept, row, chat, answers
  <2>2. Finish(r) \/ Goto(r, "setup", NoPlan) BY <1>3 DEF CheckListing
  <2> QED BY <2>1, <2>2 DEF Kind, Returns, GivesUp, Lists
<1>4. CASE RecordAnswer(r)
  <2>1. CASE IndexUnmoved(r) BY <1>4, <2>1 DEF Kind, Advances
  <2>2. CASE ~IndexUnmoved(r)
    <3>1. pc[r] = "record" /\ Finish(r) /\ UNCHANGED Kept
      BY <1>4, <2>2 DEF RecordAnswer, Kept, row
    <3> QED BY <3>1 DEF Kind, Returns, GivesUp
  <2> QED BY <2>1, <2>2
<1>5. CASE RecordClosing(r)
  <2>1. pc[r] = "closing" /\ UNCHANGED <<state, index, reason, words, moved>>
    BY <1>5 DEF RecordClosing, row, chat
  <2>2. CASE copy[r].index \notin words /\ Goto(r, "end", plan[r]) /\ UNCHANGED stayed
    <3>1. GoesOn(r, "end", plan[r]) BY <2>1, <2>2 DEF GoesOn, Follows, Decides, Kept
    <3> QED BY <1>p, <3>1 DEF Kind
  <2>3. CASE /\ copy[r].index \in words /\ IndexUnmoved(r)
             /\ stayed' = [stayed EXCEPT ![copy[r].index] = @ + 1]
             /\ Goto(r, "end", plan[r])
    BY <2>1, <2>3 DEF Kind, Closes
  <2>4. CASE Finish(r) /\ UNCHANGED stayed
    BY <2>1, <2>4 DEF Kind, Returns, GivesUp, Kept
  <2> QED BY <1>5, <2>2, <2>3, <2>4 DEF RecordClosing
<1> QED BY <1>1, <1>2, <1>3, <1>4, <1>5, TransitionKinds, GenerationKinds, AskKind
        DEF Proceed, Kind
-----------------------------------------------------------------------------
(* The requests that arrive, when the room sends them one at a time.       *)

OneAtATime == "starts" \notin Overlaps /\ "moves" \notin Overlaps

IsMover(p) == p.act \in {"answer", "resume"} \/ p.input # "none"

(* The endings the interviewer decides.                                    *)
AtItsWord == {"completed", "cut_short"}

Starts(r, step, p) ==
    /\ step \in {"claim", "seed"} /\ p = OpeningPlan
    /\ state \in NotBegun /\ Starting = {}

MovesOn(r, step, p) ==
    /\ step \in {"record", "load", "regenerate", "unpause"}
    /\ step \in {"record", "load", "regenerate"} => state \in RoundStates
    /\ step = "unpause" => state = "paused"
    /\ Moving = {}
    /\ IsMover(p) /\ p.act # "handover" /\ (step = "load" => p.input # "none")

Leaves(r, step, p) ==
    /\ step = "quit" \/ (step = "end" /\ state \in RoundStates)
    /\ ~IsMover(p) /\ p.why \notin AtItsWord

Arrives(r, step, p) ==
    /\ Enter(r, step, p)
    /\ Starts(r, step, p) \/ MovesOn(r, step, p) \/ Leaves(r, step, p)

LEMMA ArriveKinds ==
    ASSUME OneAtATime, NEW r \in Requests, Arrive(r)
    PROVE  \E step \in Steps, p \in Plans : Arrives(r, step, p)
<1> USE DEF Steps, OneAtATime
<1>1. CASE SubmitProfile(r) \/ ResumeBeforeStart(r)
  <2>1. OpeningPlan \in Plans BY DEF OpeningPlan, NoPlan, Plans, Inputs, Acts
  <2>2. PICK step \in {"claim", "seed"} : Enter(r, step, OpeningPlan)
    BY <1>1 DEF SubmitProfile, ResumeBeforeStart
  <2>3. Starting = {} /\ state \in NotBegun
    BY <1>1 DEF SubmitProfile, ResumeBeforeStart, MayStart, Startable, NotBegun
  <2> QED BY <2>1, <2>2, <2>3 DEF Arrives, Starts
<1>2. CASE SubmitAnswer(r)
  <2> DEFINE p == [NoPlan EXCEPT !.act = "answer"]
  <2>1. p \in Plans /\ IsMover(p) /\ p.act # "handover"
    BY DEF NoPlan, Plans, Inputs, Acts, IsMover
  <2> HIDE DEF p
  <2> QED BY <1>2, <2>1 DEF SubmitAnswer, MayMove, Arrives, MovesOn, p
<1>3. ASSUME NEW input \in {"utterance", "silence"}, SubmitTurn(r, input)
      PROVE  \E step \in Steps, p \in Plans : Arrives(r, step, p)
  <2> DEFINE p == [NoPlan EXCEPT !.input = input]
  <2>1. p \in Plans /\ IsMover(p) /\ p.act # "handover" /\ p.input # "none"
    BY DEF NoPlan, Plans, Inputs, Acts, IsMover
  <2> HIDE DEF p
  <2> QED BY <1>3, <2>1 DEF SubmitTurn, MayMove, Arrives, MovesOn, p
<1>4. CASE ResumeStranded(r) \/ ResumePaused(r)
  <2> DEFINE p == [NoPlan EXCEPT !.act = "resume"]
  <2>1. p \in Plans /\ IsMover(p) /\ p.act # "handover"
    BY DEF NoPlan, Plans, Inputs, Acts, IsMover
  <2>2. \/ Enter(r, "regenerate", p) /\ state \in RoundStates /\ Moving = {}
        \/ Enter(r, "unpause", p) /\ state = "paused" /\ Moving = {}
    BY <1>4 DEF ResumeStranded, ResumePaused, MayMove, Stranded
  <2> HIDE DEF p
  <2> QED BY <2>1, <2>2 DEF Arrives, MovesOn
<1>5. CASE SpeechCeiling(r)
  <2>1. PICK why \in {"time_exhausted", "budget_exhausted"} :
            Enter(r, "end", [NoPlan EXCEPT !.why = why]) /\ state \in RoundStates
    BY <1>5 DEF SpeechCeiling
  <2> DEFINE p == [NoPlan EXCEPT !.why = why]
  <2>2. p \in Plans /\ ~IsMover(p) /\ p.why \notin AtItsWord
    BY DEF NoPlan, Plans, Inputs, Acts, EndedReasons, IsMover, AtItsWord
  <2> HIDE DEF p
  <2> QED BY <2>1, <2>2 DEF Arrives, Leaves, p
<1>6. CASE AbandonInterview(r)
  <2> DEFINE p == [NoPlan EXCEPT !.act = "leave", !.why = "abandoned"]
  <2>1. p \in Plans /\ ~IsMover(p) /\ p.why \notin AtItsWord
    BY DEF NoPlan, Plans, Inputs, Acts, EndedReasons, IsMover, AtItsWord
  <2>2. Enter(r, "quit", p) \/ (Enter(r, "end", p) /\ state \in RoundStates)
    BY <1>6 DEF AbandonInterview
  <2> HIDE DEF p
  <2> QED BY <2>1, <2>2 DEF Arrives, Leaves
<1>7. CASE SweepAbandoned(r)
  <2> DEFINE p == [NoPlan EXCEPT !.act = "sweep", !.why = "abandoned"]
  <2>1. p \in Plans /\ ~IsMover(p) /\ p.why \notin AtItsWord
    BY DEF NoPlan, Plans, Inputs, Acts, EndedReasons, IsMover, AtItsWord
  <2>2. Enter(r, "quit", p) BY <1>7 DEF SweepAbandoned
  <2> HIDE DEF p
  <2> QED BY <2>1, <2>2 DEF Arrives, Leaves
<1> QED BY <1>1, <1>2, <1>3, <1>4, <1>5, <1>6, <1>7 DEF Arrive
-----------------------------------------------------------------------------
(* The one mover.                                                          *)

(* The steps of a turn, and of the start that opens the first one.         *)
TurnSteps == StartSteps \cup {"generate", "load", "speak", "ask"}

(* The steps only a mover takes; any handler may come to `end` and then to *)
(* the enqueue.                                                            *)
MoverSteps == StartSteps \cup (Late \ {"end", "enqueue"})

(* The steps in which a question is being conducted.                       *)
ConductSteps == {"load"} \cup OnQuestion

(* What a handler's step says of its copy and its plan.                    *)
Fits(step, c, p) ==
    /\ IsMover(p) => step \in StartSteps \cup Late
    /\ step \in MoverSteps => IsMover(p)
    /\ step \in TurnSteps => p.input # "none"
    /\ step = "end" /\ p.why \in AtItsWord => IsMover(p)
    /\ step \in {"start", "generate"} => c.index = 1
    /\ step \in {"generate", "batch", "refill"} => c.state = "hr_round"
    /\ step \in ConductSteps => c.state \in RoundStates
    /\ step = "record" /\ p.act = "handover" => MayHandOver(c.state, c.index)

AllFit == \A r \in Requests : Fits(pc[r], copy[r], plan[r])

OneMover == \A r, s \in Moving : r = s

(* Nobody moves the index under the mover, and if another handler wrote    *)
(* the state, the interview is over.                                       *)
MoverIsCurrent ==
    \A r \in Moving :
        /\ pc[r] \in Late \cup {"start"} => copy[r].index = index
        /\ pc[r] \in Late => copy[r].state = state \/ state \in OverStates

MoverInv == AllFit /\ OneMover /\ MoverIsCurrent

(* A handler's step keeps the invariant when what it holds afterwards fits *)
(* and, if it moves the interview, is the row's.                           *)
LEMMA OwnStepMoves ==
    ASSUME TypeInv, MoverInv, NEW r \in Requests,
           NEW step, NEW c, NEW p,
           pc' = [pc EXCEPT ![r] = step],
           copy' = [copy EXCEPT ![r] = c],
           plan' = [plan EXCEPT ![r] = p],
           Fits(step, c, p),
           IsMover(p) => r \in Moving \/ Moving = {},
           IsMover(p) /\ step \in Late \cup {"start"} => c.index = index',
           IsMover(p) /\ step \in Late => c.state = state' \/ state' \in OverStates,
           index' = index \/ Moving \subseteq {r},
           \/ state' = state \/ state' \in OverStates
           \/ \A s \in Moving : s # r => pc[s] \notin Late
    PROVE  MoverInv'
<1> USE DEF TypeInv, HandlersOK
<1>1. \A s \in Requests : s # r => pc'[s] = pc[s] /\ copy'[s] = copy[s] /\ plan'[s] = plan[s]
  OBVIOUS
<1>2. pc'[r] = step /\ copy'[r] = c /\ plan'[r] = p
  OBVIOUS
<1>3. AllFit' BY <1>1, <1>2 DEF MoverInv, AllFit, Fits, MayHandOver, IsMover
<1>4. \A s \in Requests : s # r => (s \in Moving' <=> s \in Moving)
  BY <1>1 DEF Moving
<1>5. r \in Moving' <=> IsMover(p)
  BY <1>2 DEF Moving, IsMover
<1>6. Moving' \subseteq Requests BY DEF Moving
<1>7. OneMover' BY <1>4, <1>5, <1>6 DEF MoverInv, OneMover
<1>8. MoverIsCurrent'
  <2> SUFFICES ASSUME NEW s \in Moving'
               PROVE  /\ pc'[s] \in Late \cup {"start"} => copy'[s].index = index'
                      /\ pc'[s] \in Late => copy'[s].state = state' \/ state' \in OverStates
    BY DEF MoverIsCurrent
  <2>1. CASE s = r BY <1>2, <1>5, <2>1
  <2>2. CASE s # r
    <3>1. s \in Moving /\ s \in Requests BY <1>4, <1>6, <2>2
    <3>2. index' = index BY <2>2, <3>1
    <3>3. pc[s] \in Late => state' = state \/ state' \in OverStates BY <2>2, <3>1
    <3> QED BY <1>1, <2>2, <3>1, <3>2, <3>3 DEF MoverInv, MoverIsCurrent
  <2> QED BY <2>1, <2>2
<1> QED BY <1>3, <1>7, <1>8 DEF MoverInv

(* A mover is the only one, and what fits a step of its own makes it one.  *)
LEMMA SoleMover ==
    ASSUME MoverInv, NEW r \in Requests, pc[r] \in MoverSteps \/ r \in Moving
    PROVE  r \in Moving /\ IsMover(plan[r]) /\ Moving \subseteq {r}
<1>1. r \in Moving <=> IsMover(plan[r]) BY DEF Moving, IsMover
<1>2. r \in Moving BY <1>1 DEF MoverInv, AllFit, Fits
<1> QED BY <1>1, <1>2 DEF MoverInv, OneMover

LEMMA ReturnMoves ==
    ASSUME TypeInv, MoverInv, NEW r \in Requests, Finish(r), UNCHANGED index,
           \/ state' = state \/ state' \in OverStates
           \/ \A s \in Moving : s # r => pc[s] \notin Late
    PROVE  MoverInv'
<1>1. Fits("idle", Blank, NoPlan) /\ ~IsMover(NoPlan)
  BY DEF Fits, NoPlan, IsMover, StartSteps, Late, EarlySteps, MoverSteps, TurnSteps,
         ConductSteps, OnQuestion
<1> QED BY <1>1, OwnStepMoves DEF Finish

LEMMA GoOnMoves ==
    ASSUME TypeInv, MoverInv, NEW r \in Requests, NEW step \in Steps, NEW p \in Plans,
           GoesOn(r, step, p)
    PROVE  MoverInv'
<1> USE DEF TypeInv, HandlersOK
<1>1. UNCHANGED <<state, index>> BY DEF GoesOn, Kept
<1>2. Follows(r, step) /\ Decides(r, step, p) BY DEF GoesOn
<1>3. pc[r] \in MoverSteps /\ pc[r] \in Late /\ step \in Late
  BY <1>2 DEF Follows, MoverSteps, StartSteps, Late, EarlySteps, Steps
<1>4. r \in Moving /\ IsMover(plan[r]) /\ Moving \subseteq {r} BY <1>3, SoleMover
<1>5. Fits(pc[r], copy[r], plan[r]) BY DEF MoverInv, AllFit
<1>6. p.input = plan[r].input /\ (p.act = plan[r].act \/ step = "record")
  BY <1>2 DEF Decides
<1>7. step = "record" => pc[r] = "ask" BY <1>2 DEF Follows
<1>8. pc[r] = "ask" => plan[r].input # "none" BY <1>5 DEF Fits, TurnSteps
<1>9. IsMover(p) BY <1>4, <1>6, <1>7, <1>8 DEF IsMover
<1>10. Fits(step, copy[r], p)
  <2>1. step \in TurnSteps => p.input # "none"
    BY <1>2, <1>5, <1>6 DEF Follows, Fits, TurnSteps, StartSteps
  <2>2. step \notin {"start", "generate", "batch", "refill"} BY <1>2 DEF Follows
  <2>3. step \in ConductSteps => pc[r] = "generate" \/ pc[r] \in ConductSteps
    BY <1>2 DEF Follows, ConductSteps, OnQuestion
  <2>4. step \in ConductSteps => copy[r].state \in RoundStates
    BY <1>5, <2>3 DEF Fits, RoundStates
  <2>5. step = "record" /\ p.act = "handover" => MayHandOver(copy[r].state, copy[r].index)
    BY <1>2 DEF Decides
  <2> QED BY <1>3, <1>9, <2>1, <2>2, <2>4, <2>5 DEF Fits
<1>11. copy' = [copy EXCEPT ![r] = copy[r]] /\ pc' = [pc EXCEPT ![r] = step]
       /\ plan' = [plan EXCEPT ![r] = p]
  BY DEF GoesOn, Goto
<1>12. copy[r].index = index /\ (copy[r].state = state \/ state \in OverStates)
  BY <1>3, <1>4 DEF MoverInv, MoverIsCurrent
<1> QED BY <1>1, <1>4, <1>10, <1>11, <1>12, OwnStepMoves

LEMMA WriteMoves ==
    ASSUME TypeInv, SafeInv, MoverInv, NEW r \in Requests, NEW to \in Targets, NEW step \in Steps,
           Writes(r, to, step)
    PROVE  MoverInv'
<1> USE DEF TypeInv, HandlersOK
<1>1. state' = to /\ index' = index /\ Wins(r, to, step) BY DEF Writes, WriteState
<1>2. Fits(pc[r], copy[r], plan[r]) BY DEF MoverInv, AllFit
<1>3. to \in OverStates \/ \A s \in Moving : s # r => pc[s] \notin Late
  <2>1. CASE pc[r] \in MoverSteps BY <2>1, SoleMover
  <2>2. CASE pc[r] \in {"end", "quit"} BY <1>1, <2>2 DEF Wins, OverStates
  <2>3. CASE pc[r] = "setup"
    <3>1. state = "created"
      BY <1>1, <2>3 DEF Writes, Wins, TransitionAllowed, CanTransition, TRANSITIONS, RowOK, InterviewStates
    <3>2. \A s \in Requests : pc[s] \notin Late
      BY <3>1 DEF SafeInv, LateHasBegun, BegunForGood, NotBegun
    <3> QED BY <3>2 DEF Moving
  <2>4. pc[r] \in MoverSteps \cup {"end", "quit", "setup"}
    BY <1>1 DEF Wins, MoverSteps, StartSteps, Late, EarlySteps, Steps
  <2> QED BY <2>1, <2>2, <2>3, <2>4
<1>4. CASE step = "idle"
  BY <1>1, <1>3, <1>4, ReturnMoves DEF Writes
<1>5. CASE step # "idle"
  <2> DEFINE c == [copy[r] EXCEPT !.state = to]
             p == IF pc[r] = "hand" THEN OpeningPlan ELSE plan[r]
  <2>1. /\ pc' = [pc EXCEPT ![r] = step]
        /\ copy' = [copy EXCEPT ![r] = c]
        /\ plan' = [plan EXCEPT ![r] = p]
    BY <1>5 DEF Writes, Finish
  <2>2. c.state = to /\ c.index = copy[r].index BY DEF Copies
  <2>3. (pc[r] = "hand" /\ p.input = "opening") \/ (pc[r] # "hand" /\ p = plan[r])
    BY DEF OpeningPlan, NoPlan
  <2>4. IsMover(p) <=> IsMover(plan[r]) \/ pc[r] = "hand"
    BY DEF IsMover, OpeningPlan, NoPlan
  <2>5. IsMover(p) <=> r \in Moving
    BY <2>4, SoleMover DEF Moving, IsMover, MoverSteps, Late, EarlySteps, Steps
  <2>6. Fits(step, c, p)
    <3> HIDE DEF c, p
    <3>1. step \in Late \/ (step = "seed" /\ pc[r] = "claim")
      BY <1>1, <1>5 DEF Wins, Late, EarlySteps, Steps
    <3>2. step \in MoverSteps => pc[r] \in MoverSteps
      BY <1>1, <1>5 DEF Wins, MoverSteps, StartSteps, Late, EarlySteps, Steps
    <3>3. step \in MoverSteps => IsMover(p)
      BY <2>5, <3>2, SoleMover
    <3>4. step \in TurnSteps => p.input # "none"
      BY <1>1, <1>2, <1>5, <2>3 DEF Wins, Fits, TurnSteps, StartSteps
    <3>5. step = "generate" => c.index = 1 /\ c.state = "hr_round"
      BY <1>1, <1>2, <2>2 DEF Wins, Fits
    <3>6. step \in ConductSteps => step = "load" /\ c.state \in RoundStates
      BY <1>1, <1>5, <2>2 DEF Wins, ConductSteps, OnQuestion, RoundStates
    <3>7. step \notin {"start", "end", "record", "batch"} BY <1>1, <1>5 DEF Wins
    <3>8. step = "refill" => c.state = "hr_round" BY <1>1, <2>2 DEF Wins
    <3> QED BY <3>1, <3>3, <3>4, <3>5, <3>6, <3>7, <3>8 DEF Fits, StartSteps
  <2>7. step \in Late /\ r \in Moving => pc[r] \in Late \cup {"start"}
    BY <1>1, <1>5 DEF Wins, Late, EarlySteps, Steps, MoverInv, AllFit, Fits
  <2>8. step # "start" BY <1>1, <1>5 DEF Wins
  <2>9. step \in Late /\ r \in Moving => c.index = index
    BY <2>2, <2>7 DEF MoverInv, MoverIsCurrent
  <2> HIDE DEF c, p
  <2> QED BY <1>1, <1>3, <2>1, <2>2, <2>5, <2>6, <2>8, <2>9, OwnStepMoves
<1> QED BY <1>4, <1>5

LEMMA SeedMoves ==
    ASSUME TypeInv, SafeInv, MoverInv, NEW r \in Requests, SeedIndex(r)
    PROVE  MoverInv'
<1>1. pc[r] = "seed" /\ r \in Starting BY DEF SeedIndex, Starting
<1>2. r \in Moving /\ IsMover(plan[r]) /\ Moving \subseteq {r}
  BY <1>1, SoleMover DEF MoverSteps, StartSteps
<1>3. Fits("seed", copy[r], plan[r]) BY <1>1 DEF MoverInv, AllFit
<1>4. Fits("start", [state |-> state, index |-> 1], plan[r])
  BY <1>2, <1>3 DEF Fits, StartSteps, TurnSteps, ConductSteps, OnQuestion
<1>5. "start" \notin Late BY DEF Late, EarlySteps
<1>6. plan' = [plan EXCEPT ![r] = plan[r]] BY DEF SeedIndex, TypeInv, HandlersOK
<1> QED BY <1>2, <1>4, <1>5, <1>6, OwnStepMoves DEF SeedIndex

LEMMA SpeakMoves ==
    ASSUME TypeInv, MoverInv, NEW r \in Requests, Speak(r)
    PROVE  MoverInv'
<1> USE DEF TypeInv, HandlersOK
<1> DEFINE p == [plan[r] EXCEPT !.onQuestion = @ + 1, !.total = @ + 1]
<1>1. pc[r] = "speak" /\ UNCHANGED <<state, index>> BY DEF Speak, row
<1>2. r \in Moving /\ IsMover(plan[r]) /\ Moving \subseteq {r}
  BY <1>1, SoleMover DEF MoverSteps, Late, EarlySteps, Steps
<1>3. p.input = plan[r].input /\ p.act = plan[r].act BY DEF Plans
<1>4. Goto(r, "ask", p) BY DEF Speak
<1> HIDE DEF p
<1>5. Fits("speak", copy[r], plan[r]) BY <1>1 DEF MoverInv, AllFit
<1>6. IsMover(p) BY <1>2, <1>3 DEF IsMover
<1>7. Fits("ask", copy[r], p)
  BY <1>3, <1>5, <1>6 DEF Fits, TurnSteps, ConductSteps, OnQuestion, Late, EarlySteps, Steps
<1>8. copy' = [copy EXCEPT ![r] = copy[r]] /\ pc' = [pc EXCEPT ![r] = "ask"]
      /\ plan' = [plan EXCEPT ![r] = p]
  BY <1>4 DEF Goto
<1>9. copy[r].index = index /\ (copy[r].state = state \/ state \in OverStates)
  BY <1>1, <1>2 DEF MoverInv, MoverIsCurrent, Late, EarlySteps, Steps
<1> QED BY <1>1, <1>2, <1>7, <1>8, <1>9, OwnStepMoves

LEMMA AdvanceMoves ==
    ASSUME TypeInv, MoverInv, NEW r \in Requests, Advances(r)
    PROVE  MoverInv'
<1> USE DEF TypeInv, HandlersOK
<1>1. pc[r] = "record" /\ state' = state /\ index' = IndexAfter(r)
  BY DEF Advances, RecordAnswer
<1>2. r \in Moving /\ IsMover(plan[r]) /\ Moving \subseteq {r}
  BY <1>1, SoleMover DEF MoverSteps, Late, EarlySteps, Steps
<1>3. PICK next \in {"hand", "batch", "move"} :
          /\ pc' = [pc EXCEPT ![r] = next] /\ UNCHANGED plan
          /\ copy' = [copy EXCEPT ![r].index = IndexAfter(r)]
          /\ next = "batch" => copy[r].state = "hr_round"
  BY DEF Advances, RecordAnswer
<1> DEFINE c == [copy[r] EXCEPT !.index = IndexAfter(r)]
<1>4. c.index = index' /\ c.state = copy[r].state /\ copy' = [copy EXCEPT ![r] = c]
  BY <1>1, <1>3 DEF Copies
<1>5. plan' = [plan EXCEPT ![r] = plan[r]] BY <1>3
<1>6. copy[r].state = state \/ state \in OverStates
  BY <1>1, <1>2 DEF MoverInv, MoverIsCurrent, Late, EarlySteps, Steps
<1> HIDE DEF c
<1>7. Fits(next, c, plan[r])
  BY <1>2, <1>3, <1>4 DEF Fits, TurnSteps, StartSteps, ConductSteps, OnQuestion, Late, EarlySteps, Steps
<1> QED BY <1>1, <1>2, <1>3, <1>4, <1>5, <1>6, <1>7, OwnStepMoves

LEMMA CloseMoves ==
    ASSUME TypeInv, MoverInv, NEW r \in Requests, Closes(r)
    PROVE  MoverInv'
<1> USE DEF TypeInv, HandlersOK
<1>1. pc[r] = "closing" /\ UNCHANGED <<state, index>> BY DEF Closes
<1>2. r \in Moving /\ IsMover(plan[r]) /\ Moving \subseteq {r}
  BY <1>1, SoleMover DEF MoverSteps, Late, EarlySteps, Steps
<1>3. Fits("end", copy[r], plan[r])
  BY <1>2 DEF Fits, TurnSteps, StartSteps, ConductSteps, OnQuestion, Late, EarlySteps, Steps
<1>4. copy' = [copy EXCEPT ![r] = copy[r]] /\ pc' = [pc EXCEPT ![r] = "end"]
      /\ plan' = [plan EXCEPT ![r] = plan[r]]
  BY DEF Closes, Goto
<1>5. copy[r].index = index /\ (copy[r].state = state \/ state \in OverStates)
  BY <1>1, <1>2 DEF MoverInv, MoverIsCurrent, Late, EarlySteps, Steps
<1> QED BY <1>1, <1>2, <1>3, <1>4, <1>5, OwnStepMoves

LEMMA ListMoves ==
    ASSUME TypeInv, MoverInv, NEW r \in Requests, Lists(r)
    PROVE  MoverInv'
<1>1. Fits("setup", copy[r], NoPlan) /\ ~IsMover(NoPlan)
  BY DEF Fits, NoPlan, IsMover, StartSteps, Late, EarlySteps, MoverSteps, TurnSteps,
         ConductSteps, OnQuestion
<1>2. copy' = [copy EXCEPT ![r] = copy[r]] BY DEF Lists, Goto, TypeInv, HandlersOK
<1> QED BY <1>1, <1>2, OwnStepMoves DEF Lists, Goto, Kept

(* A request that moves the interview arrives only when nobody else does:  *)
(* a start finds an interview that has not begun, where nobody is further. *)
LEMMA ArriveMoves ==
    ASSUME TypeInv, SafeInv, MoverInv, NEW r \in Requests, NEW step \in Steps, NEW p \in Plans,
           Arrives(r, step, p)
    PROVE  MoverInv'
<1> USE DEF TypeInv, HandlersOK
<1> DEFINE c == [state |-> state, index |-> index]
<1>1. /\ pc' = [pc EXCEPT ![r] = step] /\ copy' = [copy EXCEPT ![r] = c]
      /\ plan' = [plan EXCEPT ![r] = p] /\ UNCHANGED <<state, index>>
  BY DEF Arrives, Enter, row
<1>2. c.state = state /\ c.index = index OBVIOUS
<1> HIDE DEF c
<1>3. IsMover(p) => Moving = {}
  <2>1. CASE Starts(r, step, p)
    <3>1. \A s \in Requests : pc[s] \notin StartSteps \cup Late
      BY <2>1 DEF Starts, Starting, StartSteps, SafeInv, LateHasBegun, BegunForGood
    <3>2. \A s \in Requests : ~IsMover(plan[s])
      BY <3>1 DEF MoverInv, AllFit, Fits
    <3> QED BY <3>2 DEF Moving, IsMover
  <2> QED BY <2>1 DEF Arrives, MovesOn, Leaves
<1>4. Fits(step, c, p)
  <2>1. CASE Starts(r, step, p)
    BY <2>1 DEF Starts, Fits, OpeningPlan, NoPlan, IsMover, StartSteps, TurnSteps, ConductSteps, OnQuestion
  <2>2. CASE MovesOn(r, step, p)
    BY <1>2, <2>2 DEF MovesOn, Fits, StartSteps, TurnSteps, ConductSteps, OnQuestion,
                      Late, EarlySteps, Steps
  <2>3. CASE Leaves(r, step, p)
    BY <2>3 DEF Leaves, Fits, StartSteps, TurnSteps, MoverSteps, ConductSteps, OnQuestion,
                Late, EarlySteps, Steps
  <2> QED BY <2>1, <2>2, <2>3 DEF Arrives
<1> QED BY <1>1, <1>2, <1>3, <1>4, OwnStepMoves

LEMMA InitMoves == Init => MoverInv
<1> SUFFICES ASSUME Init PROVE MoverInv OBVIOUS
<1>1. \A r \in Requests : ~IsMover(plan[r]) BY DEF Init, NoPlan, IsMover
<1>2. Moving = {} BY <1>1 DEF Moving, IsMover
<1>3. OneMover /\ MoverIsCurrent BY <1>2 DEF OneMover, MoverIsCurrent
<1>4. \A r \in Requests : pc[r] \in {"listing", "idle"} BY DEF Init
<1>5. AllFit
  BY <1>1, <1>4 DEF AllFit, Fits, StartSteps, Late, EarlySteps, MoverSteps, TurnSteps,
                    ConductSteps, OnQuestion
<1> QED BY <1>3, <1>5 DEF MoverInv

(* One step: somebody arrives, dies or goes on, or the environment moves.  *)
LEMMA StepKinds ==
    ASSUME OneAtATime, TypeInv, [Next]_vars
    PROVE  \/ \E r \in Requests : \/ \E step \in Steps, p \in Plans : Arrives(r, step, p)
                                \/ Kind(r) \/ Crash(r)
           \/ UNCHANGED <<Kept, handlers>>
BY ArriveKinds, ProceedKinds
   DEF Next, DeleteInterview, ExhaustBudget, vars, Kept, row, chat, answers, handlers

LEMMA NextMoves ==
    ASSUME OneAtATime, TypeInv, SafeInv, MoverInv, [Next]_vars
    PROVE  MoverInv'
<1>1. ASSUME NEW r \in Requests, NEW step \in Steps, NEW p \in Plans, Arrives(r, step, p)
      PROVE  MoverInv'
  BY <1>1, ArriveMoves
<1>2. ASSUME NEW r \in Requests, Kind(r) PROVE MoverInv'
  <2>1. CASE Returns(r) BY <2>1, ReturnMoves DEF Returns, Kept
  <2> QED BY <1>2, <2>1, GoOnMoves, WriteMoves, SeedMoves, SpeakMoves, AdvanceMoves, CloseMoves,
             ListMoves DEF Kind
<1>3. ASSUME NEW r \in Requests, Crash(r) PROVE MoverInv'
  BY <1>3, ReturnMoves DEF Crash, row
<1>4. CASE UNCHANGED <<Kept, handlers>>
  BY <1>4 DEF Kept, handlers, MoverInv, AllFit, OneMover, MoverIsCurrent, Moving, Fits, MayHandOver
<1> QED BY <1>1, <1>2, <1>3, <1>4, StepKinds
-----------------------------------------------------------------------------
(* No words are lost.                                                      *)

(* What was said on any question but the current one has its answer.       *)
WordsBehind == \A q \in words : q # index => q \in Answered

(* A handler about to end the interview at the interviewer's word has      *)
(* stored the closing answer.                                              *)
ClosingStored ==
    \A r \in Requests :
        pc[r] = "end" /\ plan[r].why \in AtItsWord => (index \in words => index \in Answered)

(* After such an ending nobody is left to say anything.                    *)
EndedAtItsWord ==
    reason \in AtItsWord =>
        /\ state = "evaluating"
        /\ words \subseteq Answered
        /\ \A r \in Moving : pc[r] = "enqueue"

WordsInv == WordsBehind /\ ClosingStored /\ EndedAtItsWord

(* While someone is moving the interview it has not ended at the           *)
(* interviewer's word, and no other handler is closing it.                 *)
LEMMA MoverNotEnded ==
    ASSUME MoverInv, WordsInv, NEW r \in Requests, pc[r] \in MoverSteps
    PROVE  /\ reason \notin AtItsWord
           /\ \A s \in Requests : s # r => ~(pc[s] = "end" /\ plan[s].why \in AtItsWord)
<1>1. r \in Moving /\ Moving \subseteq {r} BY SoleMover
<1>2. pc[r] # "enqueue" BY DEF MoverSteps, StartSteps
<1>3. \A s \in Requests : pc[s] = "end" /\ plan[s].why \in AtItsWord => s \in Moving
  BY DEF MoverInv, AllFit, Fits, Moving, IsMover
<1> QED BY <1>1, <1>2, <1>3 DEF WordsInv, EndedAtItsWord

(* A step of a handler that leaves the row, the words and the answers.     *)
LEMMA QuietStepWords ==
    ASSUME TypeInv, WordsInv, NEW r \in Requests, NEW step, NEW p,
           UNCHANGED Kept,
           pc' = [pc EXCEPT ![r] = step], plan' = [plan EXCEPT ![r] = p],
           step = "end" /\ p.why \in AtItsWord => index \notin words,
           IsMover(p) => reason \notin AtItsWord
    PROVE  WordsInv'
<1> USE DEF TypeInv, HandlersOK, Kept
<1>1. \A s \in Requests : s # r => pc'[s] = pc[s] /\ plan'[s] = plan[s]
  OBVIOUS
<1>2. pc'[r] = step /\ plan'[r] = p
  OBVIOUS
<1>3. Answered' = Answered BY DEF Answered
<1>4. WordsBehind' BY <1>3 DEF WordsInv, WordsBehind
<1>5. ClosingStored' BY <1>1, <1>2, <1>3 DEF WordsInv, ClosingStored
<1>6. \A s \in Requests : s # r => (s \in Moving' <=> s \in Moving)
  BY <1>1 DEF Moving
<1>7. r \in Moving' <=> IsMover(p) BY <1>2 DEF Moving, IsMover
<1>8. Moving' \subseteq Requests BY DEF Moving
<1>9. EndedAtItsWord' BY <1>1, <1>3, <1>6, <1>7, <1>8 DEF WordsInv, EndedAtItsWord
<1> QED BY <1>4, <1>5, <1>9 DEF WordsInv

LEMMA FinishWords ==
    ASSUME TypeInv, WordsInv, NEW r \in Requests, Finish(r), UNCHANGED Kept
    PROVE  WordsInv'
<1>1. ~IsMover(NoPlan) BY DEF IsMover, NoPlan
<1> QED BY <1>1, QuietStepWords DEF Finish

LEMMA GoOnWords ==
    ASSUME TypeInv, MoverInv, WordsInv, NEW r \in Requests, NEW step \in Steps, NEW p \in Plans,
           GoesOn(r, step, p)
    PROVE  WordsInv'
<1>1. pc[r] \in MoverSteps /\ pc[r] \in Late
  BY DEF GoesOn, Follows, MoverSteps, StartSteps, Late, EarlySteps, Steps
<1>2. reason \notin AtItsWord BY <1>1, MoverNotEnded
<1>3. copy[r].index = index BY <1>1, SoleMover DEF MoverInv, MoverIsCurrent
<1>4. step = "end" /\ p.why \in AtItsWord => index \notin words
  BY <1>3 DEF GoesOn, Decides, AtItsWord
<1> QED BY <1>2, <1>4, QuietStepWords DEF GoesOn, Goto

(* Nothing this side of the report leaves an ended interview.              *)
LEMMA OverIsOver ==
    ASSUME NEW r \in Requests, NEW to \in Targets, TransitionAllowed(r, to)
    PROVE  state \notin OverStates
BY DEF TransitionAllowed, CanTransition, TRANSITIONS, Targets, OverStates

LEMMA WriteWords ==
    ASSUME TypeInv, MoverInv, WordsInv, NEW r \in Requests, NEW to \in Targets, NEW step \in Steps,
           Writes(r, to, step)
    PROVE  WordsInv'
<1> USE DEF TypeInv, HandlersOK
<1>1. /\ UNCHANGED <<index, words, moved, stayed>> /\ state' = to
      /\ reason' = IF WhyOf(r) = NoReason THEN reason ELSE WhyOf(r)
  BY DEF Writes, WriteState
<1>2. Answered' = Answered BY <1>1 DEF Answered
<1>3. reason \notin AtItsWord
  BY OverIsOver DEF Writes, WordsInv, EndedAtItsWord, OverStates
<1>4. \A s \in Requests : s # r => pc'[s] = pc[s] /\ plan'[s] = plan[s]
  BY DEF Writes, Finish
<1>5. pc'[r] = step /\ step # "end" BY DEF Writes, Wins, Finish
<1>6. WordsBehind' BY <1>1, <1>2 DEF WordsInv, WordsBehind
<1>7. ClosingStored' BY <1>1, <1>2, <1>4, <1>5 DEF WordsInv, ClosingStored
<1>8. EndedAtItsWord'
  <2> SUFFICES ASSUME reason' \in AtItsWord
               PROVE  /\ to = "evaluating" /\ words \subseteq Answered
                      /\ \A s \in Moving' : pc'[s] = "enqueue"
    BY <1>1, <1>2 DEF EndedAtItsWord
  <2>1. pc[r] = "end" /\ plan[r].why \in AtItsWord
    BY <1>1, <1>3 DEF WhyOf, AtItsWord
  <2>2. to = "evaluating" /\ step = "enqueue" BY <2>1 DEF Writes, Wins
  <2>3. r \in Moving BY <2>1 DEF MoverInv, AllFit, Fits, Moving, IsMover
  <2>4. Moving \subseteq {r} BY <2>3, SoleMover
  <2>5. Moving' \subseteq {r} BY <1>4, <2>4 DEF Moving
  <2>6. index \in words => index \in Answered BY <2>1 DEF WordsInv, ClosingStored
  <2>7. words \subseteq Answered BY <2>6 DEF WordsInv, WordsBehind
  <2> QED BY <1>5, <2>2, <2>5, <2>7
<1> QED BY <1>6, <1>7, <1>8 DEF WordsInv

LEMMA SeedWords ==
    ASSUME TypeInv, SafeInv, MoverInv, WordsInv, NEW r \in Requests, SeedIndex(r)
    PROVE  WordsInv'
<1> USE DEF TypeInv, HandlersOK
<1>1. r \in Starting BY DEF SeedIndex, Starting
<1>2. state \in NotBegun \cup {"abandoned"} /\ index <= 1 /\ \A s \in Requests : pc[s] \notin Late
  BY <1>1 DEF SafeInv, StartIsAlone
<1>3. index' = 1 /\ UNCHANGED <<reason, words, moved, stayed, plan>> /\ pc' = [pc EXCEPT ![r] = "start"]
  BY DEF SeedIndex, chat, answers
<1>4. reason \notin AtItsWord BY <1>2 DEF WordsInv, EndedAtItsWord, NotBegun
<1>5. Answered' = Answered BY <1>3 DEF Answered
<1>6. WordsBehind'
  <2> SUFFICES ASSUME NEW q \in words, q # 1 PROVE q \in Answered
    BY <1>3, <1>5 DEF WordsBehind
  <2>1. q \in Questions /\ index \in Nat BY ShapeAssumption DEF ChatOK, RowOK, ShapeAssumption
  <2>2. q # index BY <1>2, <2>1, ShapeAssumption DEF Questions, ShapeAssumption
  <2> QED BY <2>2 DEF WordsInv, WordsBehind
<1>7. ClosingStored'
  <2>1. \A s \in Requests : pc'[s] # "end" BY <1>2, <1>3 DEF Late, EarlySteps, Steps
  <2> QED BY <2>1 DEF ClosingStored
<1>8. EndedAtItsWord' BY <1>3, <1>4 DEF EndedAtItsWord
<1> QED BY <1>6, <1>7, <1>8 DEF WordsInv

(* A step of the mover that writes words or answers.                       *)
LEMMA MoverStepWords ==
    ASSUME TypeInv, MoverInv, WordsInv, NEW r \in Requests, pc[r] \in MoverSteps,
           NEW step, pc' = [pc EXCEPT ![r] = step], NEW p, plan' = [plan EXCEPT ![r] = p],
           UNCHANGED reason,
           WordsBehind',
           step = "end" => (index' \in words' => index' \in Answered')
    PROVE  WordsInv'
<1> USE DEF TypeInv, HandlersOK
<1>1. /\ reason \notin AtItsWord
      /\ \A s \in Requests : s # r => ~(pc[s] = "end" /\ plan[s].why \in AtItsWord)
  BY MoverNotEnded
<1>2. ClosingStored' BY <1>1 DEF ClosingStored
<1>3. EndedAtItsWord' BY <1>1 DEF EndedAtItsWord
<1> QED BY <1>2, <1>3 DEF WordsInv

LEMMA SpeakWords ==
    ASSUME TypeInv, MoverInv, WordsInv, NEW r \in Requests, Speak(r)
    PROVE  WordsInv'
<1>1. pc[r] \in MoverSteps /\ pc[r] \in Late
  BY DEF Speak, MoverSteps, Late, EarlySteps, Steps
<1>2. copy[r].index = index BY <1>1, SoleMover DEF MoverInv, MoverIsCurrent
<1>3. UNCHANGED <<index, reason, moved, stayed>> /\ words' \subseteq words \cup {index}
  BY <1>2 DEF Speak, row, answers
<1>4. Answered' = Answered BY <1>3 DEF Answered
<1>5. WordsBehind' BY <1>3, <1>4 DEF WordsInv, WordsBehind
<1>6. PICK p : pc' = [pc EXCEPT ![r] = "ask"] /\ plan' = [plan EXCEPT ![r] = p]
  BY DEF Speak, Goto
<1>7. UNCHANGED reason /\ "ask" # "end" BY <1>3
<1> QED BY <1>1, <1>5, <1>6, <1>7, MoverStepWords

LEMMA AdvanceWords ==
    ASSUME TypeInv, MoverInv, WordsInv, NEW r \in Requests, Advances(r)
    PROVE  WordsInv'
<1> USE DEF TypeInv, HandlersOK, AnswersOK
<1>1. pc[r] = "record" /\ pc[r] \in MoverSteps
  BY DEF Advances, RecordAnswer, MoverSteps, Late, EarlySteps, Steps
<1>2. copy[r].index = index /\ copy[r].index \in Questions
  BY <1>1 DEF Advances, IndexUnmoved, OnAQuestion, OnQuestion
<1>3. /\ moved' = IF StoresAnswer(r) THEN [moved EXCEPT ![index] = @ + 1] ELSE moved
      /\ UNCHANGED <<stayed, reason>>
      /\ words' = IF plan[r].act = "answer" THEN words \cup {index} ELSE words
  BY <1>2 DEF Advances, RecordAnswer
<1>4. Answered \subseteq Answered' BY <1>2, <1>3 DEF Answered
<1>5. StoresAnswer(r) => index \in Answered' BY <1>2, <1>3 DEF Answered
<1>6. index \in words' => StoresAnswer(r) BY <1>2, <1>3 DEF StoresAnswer
<1>7. WordsBehind' BY <1>3, <1>4, <1>5, <1>6 DEF WordsInv, WordsBehind
<1>8. PICK next \in {"hand", "batch", "move"} : pc' = [pc EXCEPT ![r] = next]
  BY DEF Advances, RecordAnswer
<1>9. plan' = [plan EXCEPT ![r] = plan[r]] BY DEF Advances, RecordAnswer
<1> QED BY <1>1, <1>3, <1>7, <1>8, <1>9, MoverStepWords

LEMMA CloseWords ==
    ASSUME TypeInv, MoverInv, WordsInv, NEW r \in Requests, Closes(r)
    PROVE  WordsInv'
<1> USE DEF TypeInv, HandlersOK, AnswersOK
<1>1. pc[r] = "closing" /\ pc[r] \in MoverSteps
  BY DEF Closes, MoverSteps, Late, EarlySteps, Steps
<1>2. copy[r].index = index /\ copy[r].index \in Questions
  BY <1>1 DEF Closes, IndexUnmoved, OnAQuestion, OnQuestion
<1>3. stayed' = [stayed EXCEPT ![index] = @ + 1] /\ UNCHANGED <<index, reason, words, moved>>
  BY <1>2 DEF Closes
<1>4. Answered \subseteq Answered' /\ index \in Answered' BY <1>2, <1>3 DEF Answered
<1>5. WordsBehind' BY <1>3, <1>4 DEF WordsInv, WordsBehind
<1> QED BY <1>1, <1>3, <1>4, <1>5, MoverStepWords DEF Closes, Goto

LEMMA NextWords ==
    ASSUME OneAtATime, TypeInv, SafeInv, MoverInv, WordsInv, [Next]_vars
    PROVE  WordsInv'
<1>1. ASSUME NEW r \in Requests, NEW step \in Steps, NEW p \in Plans, Arrives(r, step, p)
      PROVE  WordsInv'
  <2>1. UNCHANGED Kept BY <1>1 DEF Arrives, Enter, Kept, row, chat, answers
  <2>2. IsMover(p) => reason \notin AtItsWord
    BY <1>1 DEF Arrives, Starts, MovesOn, Leaves, NotBegun, RoundStates, WordsInv, EndedAtItsWord
  <2>3. ~(step = "end" /\ p.why \in AtItsWord)
    BY <1>1 DEF Arrives, Starts, MovesOn, Leaves
  <2> QED BY <1>1, <2>1, <2>2, <2>3, QuietStepWords DEF Arrives, Enter
<1>2. ASSUME NEW r \in Requests, Kind(r) PROVE WordsInv'
  <2>1. CASE Returns(r) BY <2>1, FinishWords DEF Returns
  <2>2. CASE Lists(r)
    <3>1. ~IsMover(NoPlan) BY DEF IsMover, NoPlan
    <3> QED BY <2>2, <3>1, QuietStepWords DEF Lists, Goto
  <2> QED BY <1>2, <2>1, <2>2, GoOnWords, WriteWords, SeedWords, SpeakWords, AdvanceWords, CloseWords
          DEF Kind
<1>3. ASSUME NEW r \in Requests, Crash(r) PROVE WordsInv'
  BY <1>3, FinishWords DEF Crash, Kept, row, chat, answers
<1>4. CASE UNCHANGED <<Kept, handlers>>
  BY <1>4 DEF Kept, handlers, WordsInv, WordsBehind, ClosingStored, EndedAtItsWord, Answered, Moving
<1> QED BY <1>1, <1>2, <1>3, <1>4, StepKinds

(* When question-moving requests come one at a time, nothing the candidate *)
(* said is dropped, whoever leaves, whatever fails and whichever process   *)
(* dies: a question with words that was left behind, or that the           *)
(* interviewer ended on, has an answer row.                                *)
THEOREM NoWordsLost ==
    ASSUME OneAtATime
    PROVE  Spec => []WordsKept
<1>1. Init => WordsInv
  <2> SUFFICES ASSUME Init PROVE WordsInv OBVIOUS
  <2>1. words = {} /\ reason = NoReason /\ \A r \in Requests : pc[r] # "end" BY DEF Init
  <2> QED BY <2>1 DEF WordsInv, WordsBehind, ClosingStored, EndedAtItsWord, AtItsWord, NoReason
<1>2. TypeInv /\ WordsInv => WordsKept
  <2> SUFFICES ASSUME TypeInv, WordsInv, NEW q \in words, q < index \/ reason \in AtItsWord
               PROVE  q \in Answered
    BY DEF WordsKept, AtItsWord
  <2>1. q \in Int /\ index \in Int
    BY ShapeAssumption DEF TypeInv, ChatOK, RowOK, Questions, ShapeAssumption
  <2> QED BY <2>1 DEF WordsInv, WordsBehind, EndedAtItsWord
<1>3. /\ TypeInv /\ SafeInv /\ MoverInv /\ WordsInv /\ [Next]_vars
      => TypeInv' /\ SafeInv' /\ MoverInv' /\ WordsInv'
  BY NextTyped, NextSafe, NextMoves, NextWords DEF OneAtATime
<1> QED BY <1>1, <1>2, <1>3, InitTyped, InitSafe, InitMoves, PTL DEF Spec
-----------------------------------------------------------------------------
(* Completed means that no question is left.                               *)

(* The handler that ends the interview as completed looked at its last     *)
(* question, or at a later index.                                          *)
ClosingComplete ==
    \A r \in Requests :
        pc[r] \in {"closing", "end"} /\ plan[r].why = "completed" => copy[r].index >= Target

CompletedInv == ClosingComplete /\ CompletedHasNoneLeft

(* A step that leaves the index and the reason.                            *)
LEMMA OwnStepCompleted ==
    ASSUME TypeInv, CompletedInv, NEW r \in Requests, NEW step, NEW c, NEW p,
           pc' = [pc EXCEPT ![r] = step],
           copy' = [copy EXCEPT ![r] = c],
           plan' = [plan EXCEPT ![r] = p],
           step \in {"closing", "end"} /\ p.why = "completed" => c.index >= Target,
           CompletedHasNoneLeft'
    PROVE  CompletedInv'
<1>1. ClosingComplete'
  BY DEF CompletedInv, ClosingComplete, TypeInv, HandlersOK
<1> QED BY <1>1 DEF CompletedInv

LEMMA KindCompleted ==
    ASSUME TypeInv, SafeInv, MoverInv, WordsInv, CompletedInv, NEW r \in Requests, Kind(r)
    PROVE  CompletedInv'
<1> USE DEF TypeInv, HandlersOK
<1>1. UNCHANGED <<index, reason>> => CompletedHasNoneLeft'
  BY DEF CompletedInv, CompletedHasNoneLeft
<1>2. CASE Finish(r) /\ CompletedHasNoneLeft'
  BY <1>2, OwnStepCompleted DEF Finish
<1>3. CASE Returns(r)
  BY <1>1, <1>2, <1>3 DEF Returns, Kept
<1>4. ASSUME NEW step \in Steps, NEW p \in Plans, GoesOn(r, step, p) PROVE CompletedInv'
  <2>1. CompletedHasNoneLeft' BY <1>1, <1>4 DEF GoesOn, Kept
  <2>2. copy' = [copy EXCEPT ![r] = copy[r]] BY <1>4 DEF GoesOn, Goto
  <2>3. step \in {"closing", "end"} /\ p.why = "completed" => copy[r].index >= Target
    BY <1>4 DEF GoesOn, Decides, CompletedInv, ClosingComplete
  <2> QED BY <1>4, <2>1, <2>2, <2>3, OwnStepCompleted DEF GoesOn, Goto
<1>5. ASSUME NEW to \in Targets, NEW step \in Steps, Writes(r, to, step) PROVE CompletedInv'
  <2>1. index' = index /\ reason' = IF WhyOf(r) = NoReason THEN reason ELSE WhyOf(r)
    BY <1>5 DEF Writes, WriteState
  <2>2. CompletedHasNoneLeft'
    <3>1. CASE WhyOf(r) = "completed"
      <4>1. pc[r] = "end" /\ plan[r].why = "completed"
        BY <3>1 DEF WhyOf, NoReason
      <4>2. r \in Moving BY <4>1 DEF MoverInv, AllFit, Fits, Moving, IsMover, AtItsWord
      <4>3. copy[r].index = index
        BY <4>1, <4>2 DEF MoverInv, MoverIsCurrent, Late, EarlySteps, Steps
      <4> QED BY <2>1, <4>1, <4>3 DEF CompletedInv, ClosingComplete, CompletedHasNoneLeft
    <3>2. CASE WhyOf(r) # "completed"
      BY <2>1, <3>2 DEF CompletedInv, CompletedHasNoneLeft
    <3> QED BY <3>1, <3>2
  <2>3. \A s \in Requests : s # r => pc'[s] = pc[s] /\ plan'[s] = plan[s] /\ copy'[s] = copy[s]
    BY <1>5 DEF Writes, Finish
  <2>4. pc'[r] \notin {"closing", "end"} BY <1>5 DEF Writes, Wins, Finish
  <2>5. ClosingComplete' BY <2>3, <2>4 DEF CompletedInv, ClosingComplete
  <2> QED BY <2>2, <2>5 DEF CompletedInv
<1>6. CASE SeedIndex(r)
  <2>1. reason # "completed"
    BY <1>6 DEF SeedIndex, Starting, SafeInv, StartIsAlone, NotBegun, WordsInv, EndedAtItsWord, AtItsWord
  <2>2. CompletedHasNoneLeft' BY <1>6, <2>1 DEF SeedIndex, CompletedHasNoneLeft
  <2>3. plan' = [plan EXCEPT ![r] = plan[r]] BY <1>6 DEF SeedIndex
  <2> QED BY <1>6, <2>2, <2>3, OwnStepCompleted DEF SeedIndex
<1>7. CASE Speak(r)
  <2>1. CompletedHasNoneLeft' BY <1>1, <1>7 DEF Speak, row
  <2>2. PICK p : /\ pc' = [pc EXCEPT ![r] = "ask"] /\ UNCHANGED copy
                 /\ plan' = [plan EXCEPT ![r] = p]
    BY <1>7 DEF Speak, Goto
  <2>3. copy' = [copy EXCEPT ![r] = copy[r]] BY <2>2
  <2> QED BY <2>1, <2>2, <2>3, OwnStepCompleted
<1>8. CASE Advances(r)
  <2>1. pc[r] \in MoverSteps
    BY <1>8 DEF Advances, RecordAnswer, MoverSteps, Late, EarlySteps, Steps
  <2>2. reason # "completed" BY <2>1, MoverNotEnded DEF AtItsWord
  <2>3. CompletedHasNoneLeft' BY <1>8, <2>2 DEF Advances, RecordAnswer, CompletedHasNoneLeft
  <2>4. PICK next \in {"hand", "batch", "move"} :
            /\ pc' = [pc EXCEPT ![r] = next] /\ UNCHANGED plan
            /\ copy' = [copy EXCEPT ![r] = [copy[r] EXCEPT !.index = IndexAfter(r)]]
    BY <1>8 DEF Advances, RecordAnswer
  <2>5. plan' = [plan EXCEPT ![r] = plan[r]] BY <2>4
  <2> QED BY <2>3, <2>4, <2>5, OwnStepCompleted
<1>9. CASE Closes(r)
  <2>1. CompletedHasNoneLeft' BY <1>1, <1>9 DEF Closes
  <2>2. copy' = [copy EXCEPT ![r] = copy[r]] BY <1>9 DEF Closes, Goto
  <2>3. plan[r].why = "completed" => copy[r].index >= Target
    BY <1>9 DEF Closes, CompletedInv, ClosingComplete
  <2> QED BY <1>9, <2>1, <2>2, <2>3, OwnStepCompleted DEF Closes, Goto
<1>10. CASE Lists(r)
  <2>1. copy' = [copy EXCEPT ![r] = copy[r]] BY <1>10 DEF Lists, Goto
  <2> QED BY <1>1, <1>10, <2>1, OwnStepCompleted DEF Lists, Goto, Kept
<1> QED BY <1>3, <1>4, <1>5, <1>6, <1>7, <1>8, <1>9, <1>10 DEF Kind

LEMMA NextCompleted ==
    ASSUME OneAtATime, TypeInv, SafeInv, MoverInv, WordsInv, CompletedInv, [Next]_vars
    PROVE  CompletedInv'
<1>1. ASSUME NEW r \in Requests, NEW step \in Steps, NEW p \in Plans, Arrives(r, step, p)
      PROVE  CompletedInv'
  <2>1. CompletedHasNoneLeft'
    BY <1>1 DEF Arrives, Enter, row, CompletedInv, CompletedHasNoneLeft
  <2>2. ~(step \in {"closing", "end"} /\ p.why = "completed")
    BY <1>1 DEF Arrives, Starts, MovesOn, Leaves, AtItsWord
  <2> QED BY <1>1, <2>1, <2>2, OwnStepCompleted DEF Arrives, Enter
<1>2. ASSUME NEW r \in Requests, Crash(r) PROVE CompletedInv'
  <2>1. CompletedHasNoneLeft' BY <1>2 DEF Crash, row, CompletedInv, CompletedHasNoneLeft
  <2> QED BY <1>2, <2>1, OwnStepCompleted DEF Crash, Finish
<1>3. CASE UNCHANGED <<Kept, handlers>>
  BY <1>3 DEF Kept, handlers, CompletedInv, ClosingComplete, CompletedHasNoneLeft
<1> QED BY <1>1, <1>2, <1>3, KindCompleted, StepKinds

(* When question-moving requests come one at a time, an interview said to  *)
(* have ended as completed has no question left: the guard of conductor.ts *)
(* looked at a copy of the index, and the ending is written later.         *)
THEOREM CompletedIsComplete ==
    ASSUME OneAtATime
    PROVE  Spec => []CompletedHasNoneLeft
<1>1. Init => WordsInv /\ CompletedInv
  BY DEF Init, WordsInv, WordsBehind, ClosingStored, EndedAtItsWord, AtItsWord, NoReason,
         CompletedInv, ClosingComplete, CompletedHasNoneLeft
<1>2. CompletedInv => CompletedHasNoneLeft BY DEF CompletedInv
<1>3. /\ TypeInv /\ SafeInv /\ MoverInv /\ WordsInv /\ CompletedInv /\ [Next]_vars
      => TypeInv' /\ SafeInv' /\ MoverInv' /\ WordsInv' /\ CompletedInv'
  BY NextTyped, NextSafe, NextMoves, NextWords, NextCompleted DEF OneAtATime
<1> QED BY <1>1, <1>2, <1>3, InitTyped, InitSafe, InitMoves, PTL DEF Spec
-----------------------------------------------------------------------------
(* With the deaths told apart: `RoomSpec`.                                 *)

LEMMA RoomStepIsStep ==
    ASSUME [RoomNext]_<<vars, died>>
    PROVE  [Next]_vars
BY DEF RoomNext, Dies, Next

LEMMA RoomKinds ==
    ASSUME OneAtATime, TypeInv, [RoomNext]_<<vars, died>>
    PROVE  \/ \E r \in Requests : Dies(r)
           \/ /\ UNCHANGED died
              /\ \/ \E r \in Requests, step \in Steps, p \in Plans : Arrives(r, step, p)
                 \/ \E r \in Requests : Kind(r)
                 \/ UNCHANGED <<Kept, handlers>>
BY ArriveKinds, ProceedKinds
   DEF RoomNext, DeleteInterview, ExhaustBudget, vars, Kept, row, chat, answers, handlers

(* What is known of every state reached one request at a time.             *)
Sound == TypeInv /\ SafeInv /\ MoverInv

LEMMA RoomSound == OneAtATime => (RoomSpec => []Sound)
<1> SUFFICES ASSUME OneAtATime PROVE RoomSpec => []Sound OBVIOUS
<1>1. RoomInit => Sound
  BY InitTyped, InitSafe, InitMoves DEF RoomInit, Sound
<1>2. Sound /\ [RoomNext]_<<vars, died>> => Sound'
  BY RoomStepIsStep, NextTyped, NextSafe, NextMoves DEF Sound, OneAtATime
<1> QED BY <1>1, <1>2, PTL DEF RoomSpec

(* Every request that arrives reads the row, takes its first step and      *)
(* leaves everything else.                                                 *)
LEMMA ArriveEnters ==
    ASSUME NEW r \in Requests, Arrive(r)
    PROVE  \E step, p : Enter(r, step, p)
BY DEF Arrive, SubmitProfile, ResumeBeforeStart, SubmitAnswer, SubmitTurn, SpeechCeiling,
       ResumeStranded, ResumePaused, AbandonInterview, SweepAbandoned

(* A report that was asked for stays asked for, and the enqueue asks.      *)
LEMMA QueuedForGood ==
    ASSUME "redis" \notin Faults, NEW r \in Requests, Proceed(r)
    PROVE  /\ queued => queued'
           /\ pc[r] = "enqueue" => queued'
<1>1. CASE CheckListing(r) \/ SeedIndex(r) \/ LoadConversation(r) \/ Speak(r) \/ AskConductor(r)
           \/ Say(r) \/ RecordAnswer(r) \/ AskNext(r) \/ HandOver(r) \/ RecordClosing(r)
  BY <1>1 DEF CheckListing, SeedIndex, LoadConversation, Speak, AskConductor, Say, RecordAnswer,
              AskNext, HandOver, RecordClosing
<1>2. CASE GenerateHrBatch(r) \/ EnsureTechBatch(r) \/ RegenerateRound(r) \/ RefillRound(r)
  BY <1>2 DEF GenerateHrBatch, EnsureTechBatch, RegenerateRound, RefillRound, GenerateRound
<1>3. CASE OpenProfiling(r) \/ ClaimProfiling(r) \/ StartHrRound(r) \/ Pause(r) \/ MoveRound(r)
           \/ EndInterview(r) \/ Unpause(r) \/ RejoinTechRound(r) \/ Abandon(r)
  BY <1>3 DEF OpenProfiling, ClaimProfiling, StartHrRound, Pause, MoveRound, EndInterview,
              Unpause, RejoinTechRound, Abandon, ApplyTransition
<1>4. CASE Enqueue(r) BY <1>4 DEF Enqueue
<1> QED BY <1>1, <1>2, <1>3, <1>4 DEF Proceed

(* A step of one handler is no step of another.                            *)
LEMMA OthersStay ==
    ASSUME TypeInv, NEW r \in Requests, Kind(r), NEW s \in Requests, s # r
    PROVE  pc'[s] = pc[s] /\ copy'[s] = copy[s] /\ plan'[s] = plan[s]
<1> USE DEF TypeInv, HandlersOK
<1>1. CASE Returns(r) \/ Lists(r) \/ Closes(r) \/ Speak(r) \/ SeedIndex(r)
  BY <1>1 DEF Returns, Lists, Closes, Speak, SeedIndex, Finish, Goto
<1>2. CASE \E step \in Steps, p \in Plans : GoesOn(r, step, p)
  BY <1>2 DEF GoesOn, Goto
<1>3. ASSUME NEW to \in Targets, NEW step \in Steps, Writes(r, to, step)
      PROVE  pc'[s] = pc[s] /\ copy'[s] = copy[s] /\ plan'[s] = plan[s]
  BY <1>3 DEF Writes, Finish
<1>4. CASE Advances(r)
  <2>1. PICK next \in {"hand", "batch", "move"} :
            /\ pc' = [pc EXCEPT ![r] = next] /\ UNCHANGED plan
            /\ copy' = [copy EXCEPT ![r].index = IndexAfter(r)]
    BY <1>4 DEF Advances, RecordAnswer
  <2> QED BY <2>1
<1> QED BY <1>1, <1>2, <1>3, <1>4 DEF Kind

(* `evaluating` is entered with the enqueue as the next step of the same   *)
(* handler.                                                                *)
LEMMA ReportAskedForStep ==
    ASSUME "redis" \notin Faults, TypeInv, ReportAskedFor, [RoomNext]_<<vars, died>>
    PROVE  ReportAskedFor'
<1> SUFFICES ASSUME state' = "evaluating", died' = {}
             PROVE  queued' \/ \E s \in Requests : pc'[s] = "enqueue"
  BY DEF ReportAskedFor
<1> USE DEF TypeInv, HandlersOK
<1>1. \A r \in Requests : ~Dies(r) BY DEF Dies
<1>2. died = {} BY <1>1 DEF RoomNext
<1>3. state = "evaluating" => queued \/ \E s \in Requests : pc[s] = "enqueue"
  BY <1>2 DEF ReportAskedFor
<1>4. ASSUME NEW r \in Requests, Arrive(r)
      PROVE  queued' \/ \E s \in Requests : pc'[s] = "enqueue"
  <2>1. PICK step, p : Enter(r, step, p) BY <1>4, ArriveEnters
  <2>2. \A s \in Requests : pc[s] = "enqueue" => pc'[s] = "enqueue" BY <2>1 DEF Enter
  <2> QED BY <1>3, <2>1, <2>2 DEF Enter, row
<1>5. ASSUME NEW r \in Requests, Proceed(r)
      PROVE  queued' \/ \E s \in Requests : pc'[s] = "enqueue"
  <2>1. (queued => queued') /\ (pc[r] = "enqueue" => queued') BY <1>5, QueuedForGood
  <2>2. \A s \in Requests : s # r => pc'[s] = pc[s] BY <1>5, ProceedKinds, OthersStay
  <2>3. state = "evaluating" => queued' \/ \E s \in Requests : pc'[s] = "enqueue"
    BY <1>3, <2>1, <2>2
  <2>4. state' = state \/ \E to \in Targets, step \in Steps : Writes(r, to, step)
    BY <1>5, ProceedKinds
       DEF Kind, Returns, GoesOn, Lists, SeedIndex, Speak, Advances, RecordAnswer, Closes, Kept, row
  <2>5. ASSUME NEW to \in Targets, NEW step \in Steps, Writes(r, to, step)
        PROVE  pc'[r] = "enqueue"
    <3>1. to = "evaluating" /\ step = "enqueue" BY <2>5 DEF Writes, WriteState, Wins
    <3> QED BY <2>5, <3>1 DEF Writes
  <2> QED BY <2>3, <2>4, <2>5
<1>6. CASE UNCHANGED <<state, queued, pc>>
  BY <1>3, <1>6
<1> QED BY <1>1, <1>4, <1>5, <1>6 DEF RoomNext, DeleteInterview, ExhaustBudget, vars, row, handlers

(* When the queue takes what it is given, an interview in `evaluating` has *)
(* its report job, or the handler that won the move there is about to ask  *)
(* for it, however the requests overlap, until a process dies.             *)
THEOREM ReportIsAskedFor ==
    ASSUME "redis" \notin Faults
    PROVE  RoomSpec => []ReportAskedFor
<1>1. RoomInit => TypeInv /\ ReportAskedFor
  BY InitTyped DEF RoomInit, Init, ReportAskedFor
<1>2. TypeInv /\ ReportAskedFor /\ [RoomNext]_<<vars, died>> => TypeInv' /\ ReportAskedFor'
  BY RoomStepIsStep, NextTyped, ReportAskedForStep
<1> QED BY <1>1, <1>2, PTL DEF RoomSpec
-----------------------------------------------------------------------------
(* Nobody is left between the rounds.                                      *)

(* The steps that may run while the index has left the HR block and the    *)
(* state has not; each one settles the interview or has a next step.       *)
BetweenSteps == {"batch", "move", "hand", "refill", "rejoin", "pause", "end"}

Settles(r) == IsMover(plan[r]) /\ pc[r] \in BetweenSteps

BetweenHeld ==
    BetweenRounds => "between" \in died \/ \E r \in Requests : Settles(r)

(* A mover's copy is the row's, but for a state another handler ended.     *)
LEMMA MoverNow ==
    ASSUME MoverInv, NEW r \in Requests, pc[r] \in Late,
           pc[r] \in MoverSteps \/ IsMover(plan[r])
    PROVE  /\ r \in Moving /\ IsMover(plan[r]) /\ Moving \subseteq {r}
           /\ copy[r].index = index
           /\ copy[r].state = state \/ state \in OverStates
<1>1. r \in Moving /\ IsMover(plan[r]) /\ Moving \subseteq {r}
  BY SoleMover DEF Moving, IsMover
<1> QED BY <1>1 DEF MoverInv, MoverIsCurrent

LEMMA HeldStep ==
    ASSUME BetweenHeld, NEW r \in Requests, UNCHANGED died,
           \A s \in Requests : s # r => pc'[s] = pc[s] /\ plan'[s] = plan[s],
           BetweenRounds' => Settles(r)' \/ (BetweenRounds /\ ~Settles(r))
    PROVE  BetweenHeld'
<1> SUFFICES ASSUME BetweenRounds', ~Settles(r)', "between" \notin died
             PROVE  \E s \in Requests : Settles(s)'
  BY DEF BetweenHeld
<1>1. PICK s \in Requests : Settles(s) /\ s # r BY DEF BetweenHeld
<1>2. Settles(s)' BY <1>1 DEF Settles, IsMover
<1> QED BY <1>2

(* The handler between the rounds does not return with the interview left  *)
(* there, unless the refill of a resume fails without pausing: its copy is *)
(* current, so no write it owes is refused.                                *)
LEMMA SettlerGoesOn ==
    ASSUME MoverInv, NEW r \in Requests, BetweenRounds, Settles(r)
    PROVE  /\ GivesUp(r) => pc[r] = "refill" /\ PastHr(copy[r].index) /\ "internal" \in Faults
           /\ ~NothingToMove(r)
<1>1. pc[r] \in Late BY DEF Settles, BetweenSteps, Late, EarlySteps, Steps
<1>2. copy[r].index = index /\ (copy[r].state = state \/ state \in OverStates)
  BY <1>1, MoverNow DEF Settles
<1>3. state = "hr_round" /\ PastHr(copy[r].index) /\ copy[r].state = "hr_round"
  BY <1>2 DEF BetweenRounds, OverStates
<1>4. ~NothingToMove(r) BY <1>3 DEF NothingToMove, RoundStates
<1>5. \A to \in {"paused", "tech_round", "evaluating"} : TransitionAllowed(r, to)
  BY <1>3 DEF TransitionAllowed, CanTransition, TRANSITIONS
<1> QED BY <1>3, <1>4, <1>5 DEF GivesUp, Settles, BetweenSteps

LEMMA KindBetween ==
    ASSUME TypeInv, SafeInv, MoverInv, NEW r \in Requests, Kind(r), BetweenRounds'
    PROVE  \/ Settles(r)'
           \/ BetweenRounds /\ ~Settles(r)
           \/ /\ BetweenRounds /\ "internal" \in Faults
              /\ pc[r] = "refill" /\ PastHr(copy[r].index)
<1> USE DEF TypeInv, HandlersOK
<1>2. UNCHANGED <<state, index>> => BetweenRounds BY DEF BetweenRounds, PastHr
<1>3. CASE Returns(r) /\ GivesUp(r)
  BY <1>2, <1>3, SettlerGoesOn DEF Returns, Kept
<1>4. ASSUME NEW step \in Steps, NEW p \in Plans, GoesOn(r, step, p), Settles(r)
      PROVE  Settles(r)'
  <2>1. BetweenRounds BY <1>2, <1>4 DEF GoesOn, Kept
  <2>2. ~NothingToMove(r) BY <1>4, <2>1, SettlerGoesOn
  <2>3. step \in BetweenSteps BY <1>4, <2>2 DEF GoesOn, Follows, Settles, BetweenSteps
  <2>4. IsMover(p) BY <1>4, <2>3 DEF GoesOn, Decides, Settles, IsMover, BetweenSteps
  <2>5. pc'[r] = step /\ plan'[r] = p BY <1>4 DEF GoesOn, Goto
  <2> QED BY <2>3, <2>4, <2>5 DEF Settles, IsMover
<1>5. ASSUME NEW to \in Targets, NEW step \in Steps, Writes(r, to, step) PROVE Settles(r)'
  <2>1. state' = to /\ index' = index BY <1>5 DEF Writes, WriteState
  <2>2. to = "hr_round" /\ PastHr(index) BY <2>1 DEF BetweenRounds, PastHr
  <2>3. pc[r] # "start"
    <3>1. ASSUME pc[r] = "start" PROVE index = 1
      BY <3>1, SoleMover DEF MoverSteps, StartSteps, MoverInv, AllFit, Fits, MoverIsCurrent
    <3> QED BY <2>2, <3>1, ShapeAssumption DEF PastHr, ShapeAssumption
  <2>4. pc[r] = "unpause" /\ step = "refill" BY <1>5, <2>2, <2>3 DEF Writes, Wins
  <2>5. IsMover(plan[r]) BY <2>4, SoleMover DEF MoverSteps, Late, EarlySteps, Steps
  <2>6. pc'[r] = "refill" /\ plan'[r] = plan[r] BY <1>5, <2>4 DEF Writes
  <2> QED BY <2>5, <2>6 DEF Settles, BetweenSteps, IsMover
<1>6. CASE SeedIndex(r)
  <2>1. state' = state /\ state \in NotBegun \cup {"abandoned"}
    BY <1>6 DEF SeedIndex, Starting, SafeInv, StartIsAlone
  <2> QED BY <2>1 DEF BetweenRounds, NotBegun
<1>7. CASE Advances(r)
  <2>1. IsMover(plan[r])
    BY <1>7, SoleMover DEF Advances, RecordAnswer, MoverSteps, Late, EarlySteps, Steps
  <2>2. PICK next \in {"hand", "batch", "move"} : pc' = [pc EXCEPT ![r] = next] /\ UNCHANGED plan
    BY <1>7 DEF Advances, RecordAnswer
  <2> QED BY <2>1, <2>2 DEF Settles, BetweenSteps, IsMover
<1>8. CASE Lists(r) \/ Speak(r) \/ Closes(r)
  <2>1. ~Settles(r) BY <1>8 DEF Lists, Speak, Closes, Settles, BetweenSteps
  <2> QED BY <1>2, <1>8, <2>1 DEF Lists, Speak, Closes, Kept, row
<1>9. CASE \E step \in Steps, p \in Plans : GoesOn(r, step, p)
  BY <1>2, <1>4, <1>9 DEF GoesOn, Kept
<1> QED BY <1>3, <1>5, <1>6, <1>7, <1>8, <1>9 DEF Kind

LEMMA KindHeld ==
    ASSUME "internal" \notin Faults, TypeInv, SafeInv, MoverInv, BetweenHeld, UNCHANGED died,
           NEW r \in Requests, Kind(r)
    PROVE  BetweenHeld'
<1>1. \A s \in Requests : s # r => pc'[s] = pc[s] /\ plan'[s] = plan[s] BY OthersStay
<1> QED BY <1>1, KindBetween, HeldStep

LEMMA NextHeld ==
    ASSUME OneAtATime, "internal" \notin Faults, Sound, BetweenHeld, [RoomNext]_<<vars, died>>
    PROVE  BetweenHeld'
<1> USE DEF Sound
<1>1. CASE \E r \in Requests : Dies(r)
  <2>1. UNCHANGED <<state, index>> BY <1>1 DEF Dies, Crash, row
  <2>2. BetweenRounds' => "between" \in died' BY <1>1, <2>1 DEF Dies, BetweenRounds, PastHr
  <2> QED BY <2>2 DEF BetweenHeld
<1>2. ASSUME UNCHANGED died, NEW r \in Requests, NEW step \in Steps, NEW p \in Plans,
             Arrives(r, step, p)
      PROVE  BetweenHeld'
  <2>1. Enter(r, step, p) BY <1>2 DEF Arrives
  <2>2. BetweenRounds' => BetweenRounds BY <2>1 DEF Enter, row, BetweenRounds, PastHr
  <2>3. ~Settles(r) BY <2>1 DEF Enter, Settles, BetweenSteps
  <2>4. \A s \in Requests : s # r => pc'[s] = pc[s] /\ plan'[s] = plan[s]
    BY <2>1 DEF Enter, TypeInv, HandlersOK
  <2> QED BY <1>2, <2>2, <2>3, <2>4, HeldStep
<1>3. CASE UNCHANGED died /\ UNCHANGED <<Kept, handlers>>
  BY <1>3 DEF Kept, handlers, BetweenHeld, BetweenRounds, PastHr, Settles, IsMover
<1> QED BY <1>1, <1>2, <1>3, RoomKinds, KindHeld
-----------------------------------------------------------------------------
(* A round that waits for its technical batch has none.                    *)

(* The index has left the HR block and nobody is about to take the         *)
(* interview there: it is paused, a resume is refilling it, or a refill    *)
(* failed without pausing.                                                 *)
Waits ==
    \/ BetweenRounds /\ ~\E r \in Requests : Settles(r)
    \/ state = "paused" /\ PastHr(index)
    \/ \E r \in Requests :
           pc[r] \in {"regenerate", "refill", "pause"} /\ PastHr(copy[r].index)

TechWaits == Waits => "between" \in died \/ ~HasBatch("tech")

(* The steps that add the technical batch.                                 *)
MakesTech(r) ==
    /\ UNCHANGED <<state, index>>
    /\ \/ pc[r] = "batch" /\ Goto(r, "move", plan[r])
       \/ pc[r] = "refill" /\ PastHr(copy[r].index) /\ Goto(r, "rejoin", plan[r])
       \/ pc[r] = "regenerate" /\ copy[r].state = "tech_round" /\ Finish(r)

LEMMA TechBatchKept ==
    ASSUME [RoomNext]_<<vars, died>>
    PROVE  \/ HasBatch("tech")' = HasBatch("tech")
           \/ \E r \in Requests : MakesTech(r) /\ UNCHANGED died
<1>1. UNCHANGED batches => HasBatch("tech")' = HasBatch("tech") BY DEF HasBatch
<1>2. batches' = batches \cup {"hr"} => HasBatch("tech")' = HasBatch("tech") BY DEF HasBatch
<1>3. ASSUME NEW r \in Requests, Arrive(r) \/ Crash(r) PROVE UNCHANGED batches
  BY <1>3 DEF Crash, Arrive, Enter, SubmitProfile, ResumeBeforeStart, SubmitAnswer, SubmitTurn,
              SpeechCeiling, ResumeStranded, ResumePaused, AbandonInterview, SweepAbandoned
<1>4. ASSUME NEW r \in Requests, Proceed(r)
      PROVE  UNCHANGED batches \/ batches' = batches \cup {"hr"} \/ MakesTech(r)
  <2>1. CASE GenerateHrBatch(r) BY <2>1 DEF GenerateHrBatch, GenerateRound
  <2>2. CASE EnsureTechBatch(r)
    BY <2>2 DEF EnsureTechBatch, GenerateRound, Continue, MakesTech, row
  <2>3. CASE RegenerateRound(r)
    BY <2>3 DEF RegenerateRound, GenerateRound, Continue, MakesTech, row
  <2>4. CASE RefillRound(r)
    BY <2>4 DEF RefillRound, GenerateRound, Continue, WaitsOnTech, MakesTech, row
  <2>5. CASE \/ CheckListing(r) \/ OpenProfiling(r) \/ ClaimProfiling(r) \/ SeedIndex(r)
             \/ StartHrRound(r) \/ LoadConversation(r) \/ Speak(r) \/ AskConductor(r) \/ Say(r)
             \/ RecordAnswer(r) \/ MoveRound(r) \/ AskNext(r) \/ HandOver(r)
    BY <2>5 DEF CheckListing, OpenProfiling, ClaimProfiling, SeedIndex, StartHrRound,
                LoadConversation, Speak, AskConductor, Say, RecordAnswer, MoveRound, AskNext,
                HandOver, ApplyTransition
  <2>6. CASE \/ RecordClosing(r) \/ EndInterview(r) \/ Enqueue(r) \/ Pause(r) \/ Unpause(r)
             \/ RejoinTechRound(r) \/ Abandon(r)
    BY <2>6 DEF RecordClosing, EndInterview, Enqueue, Pause, Unpause, RejoinTechRound, Abandon,
                ApplyTransition
  <2> QED BY <1>4, <2>1, <2>2, <2>3, <2>4, <2>5, <2>6 DEF Proceed
<1> QED BY <1>1, <1>2, <1>3, <1>4
        DEF RoomNext, Dies, DeleteInterview, ExhaustBudget, vars

(* What a handler saw of the batches before the step it is about to take.  *)
LEMMA StepSaw ==
    ASSUME TypeInv, [RoomNext]_<<vars, died>>, NEW r \in Requests
    PROVE  /\ pc[r] = "idle" /\ pc'[r] = "record" => QuestionAt(index)
           /\ pc[r] = "idle" /\ pc'[r] = "regenerate" => ~HasBatch(StateRound)
           /\ pc[r] = "load" /\ pc'[r] \in OnQuestion => QuestionAt(copy[r].index)
           /\ pc[r] = "batch" /\ pc'[r] = "pause" => ~HasBatch("tech")
<1> USE DEF TypeInv, HandlersOK
<1>1. CASE pc'[r] = pc[r] BY <1>1 DEF OnQuestion
<1>2. CASE pc'[r] # pc[r] /\ Arrive(r)
  BY <1>2 DEF Arrive, Enter, SubmitProfile, ResumeBeforeStart, SubmitAnswer, SubmitTurn,
              SpeechCeiling, ResumeStranded, Stranded, ResumePaused, AbandonInterview,
              SweepAbandoned
<1>3. CASE pc[r] = "load" /\ LoadConversation(r)
  BY <1>3 DEF LoadConversation, Finish, Goto, OnQuestion
<1>4. CASE pc[r] = "batch" /\ EnsureTechBatch(r)
  BY <1>4 DEF EnsureTechBatch, GenerateRound, Continue, Finish, Goto
<1>5. CASE Crash(r)
  BY <1>5 DEF Crash, Finish, OnQuestion
<1>6. ASSUME NEW s \in Requests, s # r, Arrive(s) \/ Proceed(s) \/ Crash(s)
      PROVE  pc'[r] = pc[r]
  <2>1. CASE Crash(s) BY <1>6, <2>1 DEF Crash, Finish
  <2>2. CASE Proceed(s) BY <1>6, <2>2, ProceedKinds, OthersStay
  <2>3. CASE Arrive(s)
    BY <1>6, <2>3 DEF Arrive, Enter, SubmitProfile, ResumeBeforeStart, SubmitAnswer, SubmitTurn,
                      SpeechCeiling, ResumeStranded, ResumePaused, AbandonInterview, SweepAbandoned
  <2> QED BY <1>6, <2>1, <2>2, <2>3
<1>7. ASSUME Proceed(r), pc[r] \in {"idle", "load", "batch"}
      PROVE  \/ pc[r] = "load" /\ LoadConversation(r)
             \/ pc[r] = "batch" /\ EnsureTechBatch(r)
  BY <1>7 DEF Proceed, CheckListing, OpenProfiling, ClaimProfiling, SeedIndex, StartHrRound,
              GenerateHrBatch, LoadConversation, Speak, AskConductor, Say, RecordAnswer,
              EnsureTechBatch, MoveRound, AskNext, HandOver, RecordClosing, EndInterview,
              Enqueue, Pause, RegenerateRound, Unpause, RefillRound, RejoinTechRound, Abandon
<1>8. CASE UNCHANGED pc BY <1>1, <1>8
<1>9. \/ UNCHANGED pc
      \/ \E s \in Requests : Arrive(s) \/ Proceed(s) \/ Crash(s)
  BY DEF RoomNext, Dies, DeleteInterview, ExhaustBudget, vars, handlers
<1>10. CASE Proceed(r) BY <1>3, <1>4, <1>7, <1>10
<1> QED BY <1>1, <1>2, <1>5, <1>6, <1>8, <1>9, <1>10

(* The handler that adds the batch is the one mover, and takes the         *)
(* interview to the technical round next.                                  *)
LEMMA MakerMoves ==
    ASSUME TypeInv, MoverInv, NEW r \in Requests, MakesTech(r)
    PROVE  /\ Moving \subseteq {r} /\ ~Waits'
           /\ \A s \in Requests : pc[s] # "load"
<1> USE DEF TypeInv, HandlersOK
<1>1. pc[r] \in {"batch", "refill", "regenerate"} BY DEF MakesTech
<1>2. pc[r] \in Late /\ pc[r] \in MoverSteps
  BY <1>1 DEF MoverSteps, Late, EarlySteps, Steps
<1>3. IsMover(plan[r]) /\ Moving \subseteq {r} /\ copy[r].index = index
      /\ (copy[r].state = state \/ state \in OverStates)
  BY <1>2, MoverNow
<1>4. copy[r].state \in RoundStates
  BY <1>1 DEF MakesTech, MoverInv, AllFit, Fits, RoundStates
<1>5. \A s \in Requests : s # r => pc[s] \notin MoverSteps BY <1>3, SoleMover
<1>6. \A s \in Requests : s # r => pc'[s] = pc[s] /\ copy'[s] = copy[s]
  BY DEF MakesTech, Goto, Finish
<1>7. pc'[r] \in {"move", "rejoin", "idle"} BY DEF MakesTech, Goto, Finish
<1>8. ~(BetweenRounds' /\ ~\E s \in Requests : Settles(s)')
  <2> SUFFICES ASSUME BetweenRounds' PROVE Settles(r)' OBVIOUS
  <2>1. state = "hr_round" BY DEF MakesTech, BetweenRounds
  <2>2. copy[r].state = "hr_round" BY <1>3, <2>1 DEF OverStates
  <2>3. pc'[r] \in {"move", "rejoin"} /\ plan'[r] = plan[r] BY <2>2 DEF MakesTech, Goto
  <2> QED BY <1>3, <2>3 DEF Settles, BetweenSteps, IsMover
<1>9. state' # "paused" BY <1>3, <1>4 DEF MakesTech, OverStates, RoundStates
<1>10. \A s \in Requests : pc'[s] \notin {"regenerate", "refill", "pause"}
  BY <1>5, <1>6, <1>7 DEF MoverSteps, Late, EarlySteps, Steps
<1>11. ~Waits' BY <1>8, <1>9, <1>10 DEF Waits
<1>12. "load" \in MoverSteps BY DEF MoverSteps, Late, EarlySteps, Steps
<1> QED BY <1>1, <1>3, <1>5, <1>11, <1>12

(* No step but a refused call for the technical batch makes it wait for    *)
(* one.                                                                    *)
LEMMA KindWaits ==
    ASSUME TypeInv, SafeInv, MoverInv, NEW r \in Requests, Kind(r), Waits',
           ~(pc[r] = "batch" /\ pc'[r] = "pause")
    PROVE  Waits
<1> USE DEF TypeInv, HandlersOK
<1>1. \A s \in Requests : s # r => pc'[s] = pc[s] /\ copy'[s] = copy[s] /\ plan'[s] = plan[s]
  BY OthersStay
<1>2. CASE BetweenRounds' /\ ~\E s \in Requests : Settles(s)'
  <2>1. \A s \in Requests : s # r => ~Settles(s) BY <1>1, <1>2 DEF Settles, IsMover
  <2>2. CASE BetweenRounds /\ ~Settles(r) BY <2>1, <2>2 DEF Waits
  <2>3. CASE pc[r] = "refill" /\ PastHr(copy[r].index) BY <2>3 DEF Waits
  <2> QED BY <1>2, <2>2, <2>3, KindBetween
<1>3. CASE state' = "paused" /\ PastHr(index')
  <2>1. CASE UNCHANGED <<state, index>> BY <1>3, <2>1 DEF Waits
  <2>2. ASSUME NEW to \in Targets, NEW step \in Steps, Writes(r, to, step) PROVE Waits
    <3>1. pc[r] = "pause" /\ index' = index
      BY <1>3, <2>2 DEF Writes, WriteState, Wins
    <3>2. copy[r].index = index
      BY <3>1, MoverNow DEF MoverSteps, Late, EarlySteps, Steps
    <3> QED BY <1>3, <3>1, <3>2 DEF Waits
  <2>3. ~SeedIndex(r) BY <1>3, ShapeAssumption DEF SeedIndex, PastHr, ShapeAssumption
  <2>4. ~Advances(r)
    <3> SUFFICES ASSUME Advances(r) PROVE FALSE OBVIOUS
    <3>1. pc[r] = "record" /\ state = "paused" BY <1>3 DEF Advances, RecordAnswer
    <3>2. copy[r].state \in RoundStates
      BY <3>1 DEF MoverInv, AllFit, Fits, ConductSteps, OnQuestion
    <3> QED BY <3>1, <3>2, MoverNow DEF MoverSteps, Late, EarlySteps, Steps, RoundStates, OverStates
  <2> QED BY <2>1, <2>2, <2>3, <2>4 DEF Kind, Returns, GoesOn, Lists, Speak, Closes, Kept, row
<1>4. ASSUME NEW s \in Requests, pc'[s] \in {"regenerate", "refill", "pause"},
             PastHr((copy'[s]).index)
      PROVE  Waits
  <2>1. CASE s # r BY <1>1, <1>4, <2>1 DEF Waits
  <2>2. ASSUME s = r, NEW step \in Steps, NEW p \in Plans, GoesOn(r, step, p) PROVE Waits
    <3>1. pc'[r] = step /\ copy'[r] = copy[r] BY <2>2 DEF GoesOn, Goto
    <3>2. pc[r] \in {"generate", "regenerate", "refill"}
      BY <1>4, <2>2, <3>1 DEF GoesOn, Follows
    <3>3. pc[r] # "generate"
      BY <1>4, <2>2, <3>1, ShapeAssumption DEF MoverInv, AllFit, Fits, PastHr, ShapeAssumption
    <3> QED BY <1>4, <2>2, <3>1, <3>2, <3>3 DEF Waits
  <2>3. ASSUME s = r, NEW to \in Targets, NEW step \in Steps, Writes(r, to, step) PROVE Waits
    <3>1. pc'[r] = step BY <1>4, <2>3 DEF Writes, Finish
    <3>2. pc[r] = "unpause" /\ to = "hr_round" /\ step = "refill"
      BY <1>4, <2>3, <3>1 DEF Writes, Wins
    <3>3. copy' = [copy EXCEPT ![r].state = to] BY <2>3, <3>2 DEF Writes
    <3>4. (copy'[r]).index = copy[r].index BY <3>3 DEF Copies
    <3>5. copy[r].index = index BY <3>2, MoverNow DEF MoverSteps, Late, EarlySteps, Steps
    <3>6. state \notin NotBegun
      BY <3>2 DEF SafeInv, LateHasBegun, BegunForGood, Late, EarlySteps, Steps
    <3>7. state = "paused"
      BY <2>3, <3>2, <3>6 DEF Writes, TransitionAllowed, CanTransition, TRANSITIONS, NotBegun,
                              RowOK, InterviewStates
    <3> QED BY <1>4, <2>3, <3>4, <3>5, <3>7 DEF Waits
  <2>4. CASE s = r /\ (Returns(r) \/ Lists(r) \/ SeedIndex(r) \/ Speak(r) \/ Advances(r) \/ Closes(r))
    BY <1>4, <2>4
       DEF Returns, Finish, Lists, SeedIndex, Speak, Advances, RecordAnswer, Closes, Goto
  <2> QED BY <2>1, <2>2, <2>3, <2>4 DEF Kind
<1> QED BY <1>2, <1>3, <1>4 DEF Waits

LEMMA ArriveWaits ==
    ASSUME TypeInv, MoverInv, NEW r \in Requests, NEW step \in Steps, NEW p \in Plans,
           Arrives(r, step, p), Waits'
    PROVE  Waits \/ (step = "regenerate" /\ state = "tech_round")
<1> USE DEF TypeInv, HandlersOK
<1>1. /\ pc[r] = "idle" /\ UNCHANGED <<state, index>>
      /\ pc'[r] = step /\ copy'[r] = [state |-> state, index |-> index]
      /\ \A s \in Requests : s # r => pc'[s] = pc[s] /\ copy'[s] = copy[s] /\ plan'[s] = plan[s]
  BY DEF Arrives, Enter, row
<1>2. \A s \in Requests : Settles(s) => Settles(s)'
  BY <1>1 DEF Settles, BetweenSteps, IsMover
<1>3. CASE BetweenRounds' /\ ~\E s \in Requests : Settles(s)'
  BY <1>1, <1>2, <1>3 DEF Waits, BetweenRounds
<1>4. CASE state' = "paused" /\ PastHr(index') BY <1>1, <1>4 DEF Waits
<1>5. ASSUME NEW s \in Requests, pc'[s] \in {"regenerate", "refill", "pause"},
             PastHr((copy'[s]).index)
      PROVE  Waits \/ (step = "regenerate" /\ state = "tech_round")
  <2>1. CASE s # r BY <1>1, <1>5, <2>1 DEF Waits
  <2>2. CASE s = r
    <3>1. step = "regenerate" /\ state \in RoundStates /\ Moving = {} /\ PastHr(index)
      BY <1>1, <1>5, <2>2 DEF Arrives, Starts, MovesOn, Leaves
    <3>2. \A k \in Requests : ~Settles(k) BY <3>1 DEF Settles, Moving, IsMover
    <3> QED BY <3>1, <3>2 DEF Waits, BetweenRounds, RoundStates
  <2> QED BY <2>1, <2>2
<1> QED BY <1>3, <1>4, <1>5 DEF Waits

LEMMA NextWaits ==
    ASSUME OneAtATime, Sound, TechWaits, [RoomNext]_<<vars, died>>
    PROVE  TechWaits'
<1> USE DEF Sound
<1>0. died \subseteq died' BY DEF RoomNext, Dies
<1> SUFFICES ASSUME Waits', "between" \notin died' PROVE ~HasBatch("tech")'
  BY DEF TechWaits
<1>1. Waits => ~HasBatch("tech") BY <1>0 DEF TechWaits
<1>2. HasBatch("tech")' = HasBatch("tech") BY TechBatchKept, MakerMoves
<1>3. ASSUME NEW r \in Requests, Dies(r) PROVE Waits
  <2>1. UNCHANGED <<state, index>> /\ Finish(r) /\ ~BetweenRounds
    BY <1>3 DEF Dies, Crash, row
  <2>2. pc'[r] = "idle" /\ \A s \in Requests : s # r => pc'[s] = pc[s] /\ copy'[s] = copy[s]
    BY <2>1 DEF Finish, TypeInv, HandlersOK
  <2> QED BY <2>1, <2>2 DEF Waits, BetweenRounds
<1>4. ASSUME NEW r \in Requests, Kind(r) PROVE ~HasBatch("tech")
  BY <1>1, <1>4, KindWaits, StepSaw
<1>5. ASSUME NEW r \in Requests, NEW step \in Steps, NEW p \in Plans, Arrives(r, step, p)
      PROVE  ~HasBatch("tech")
  <2>1. pc[r] = "idle" /\ pc'[r] = step BY <1>5 DEF Arrives, Enter, TypeInv, HandlersOK
  <2>2. step = "regenerate" /\ state = "tech_round" => ~HasBatch("tech")
    BY <2>1, StepSaw DEF StateRound
  <2> QED BY <1>1, <1>5, <2>2, ArriveWaits
<1>6. CASE UNCHANGED <<Kept, handlers>>
  BY <1>1, <1>2, <1>6 DEF Kept, handlers, Waits, BetweenRounds, PastHr, Settles, IsMover
<1> QED BY <1>1, <1>2, <1>3, <1>4, <1>5, <1>6, RoomKinds
-----------------------------------------------------------------------------
(* Where the index is while a question is being conducted.                 *)

(* Whoever conducts a question of the HR round is on one of its questions, *)
(* unless somebody died between the rounds before; a turn that comes while *)
(* the round waits for its technical batch finds no question to load.      *)
InBlock ==
    \A r \in Requests :
        pc[r] \in ConductSteps /\ copy[r].state = "hr_round" /\ PastHr(copy[r].index) =>
            "between" \in died \/ (pc[r] = "load" /\ ~HasBatch("tech"))

(* An interview that began has a current question.                         *)
BegunAtOne == state \notin NotBegun \cup {"abandoned"} => index >= 1

LEMMA PastHrIsTech ==
    ASSUME NEW q, QuestionAt(q), PastHr(q)
    PROVE  HasBatch("tech")
BY ShapeAssumption DEF QuestionAt, PastHr, RoundOf, Questions, ShapeAssumption

LEMMA InBlockStep ==
    ASSUME InBlock, NEW r \in Requests, died \subseteq died',
           \A s \in Requests : s # r => pc'[s] = pc[s] /\ copy'[s] = copy[s],
           \A s \in Requests : pc[s] = "load" => HasBatch("tech")' = HasBatch("tech"),
           pc'[r] \in ConductSteps /\ (copy'[r]).state = "hr_round" /\ PastHr((copy'[r]).index) =>
               "between" \in died \/ (pc'[r] = "load" /\ ~HasBatch("tech")')
    PROVE  InBlock'
<1> SUFFICES ASSUME NEW s \in Requests, pc'[s] \in ConductSteps, (copy'[s]).state = "hr_round",
                    PastHr((copy'[s]).index), "between" \notin died'
             PROVE  pc'[s] = "load" /\ ~HasBatch("tech")'
  BY DEF InBlock, PastHr
<1>1. CASE s = r BY <1>1
<1>2. CASE s # r
  <2>1. pc[s] = "load" /\ ~HasBatch("tech") BY <1>2 DEF InBlock
  <2> QED BY <1>2, <2>1
<1> QED BY <1>1, <1>2

LEMMA KindInBlock ==
    ASSUME TypeInv, MoverInv, InBlock, UNCHANGED died, NEW r \in Requests, Kind(r),
           \A s \in Requests : pc[s] = "load" => HasBatch("tech")' = HasBatch("tech"),
           pc[r] = "load" /\ pc'[r] \in OnQuestion => QuestionAt(copy[r].index)
    PROVE  InBlock'
<1> USE DEF TypeInv, HandlersOK
<1>1. \A s \in Requests : s # r => pc'[s] = pc[s] /\ copy'[s] = copy[s] BY OthersStay
<1> SUFFICES ASSUME pc'[r] \in ConductSteps, (copy'[r]).state = "hr_round",
                    PastHr((copy'[r]).index), "between" \notin died
             PROVE  FALSE
  BY <1>1, InBlockStep
<1>2. ASSUME pc[r] \in ConductSteps, copy'[r] = copy[r], pc'[r] # "load" PROVE FALSE
  <2>1. pc[r] = "load" /\ ~HasBatch("tech") BY <1>2 DEF InBlock
  <2>2. QuestionAt(copy[r].index) BY <1>2, <2>1 DEF ConductSteps
  <2> QED BY <1>2, <2>1, <2>2, PastHrIsTech
<1>3. CASE Returns(r) \/ Lists(r)
  BY <1>3 DEF Returns, Finish, Lists, Goto, ConductSteps, OnQuestion
<1>4. ASSUME NEW step \in Steps, NEW p \in Plans, GoesOn(r, step, p)
      PROVE  FALSE
  <2>1. pc'[r] = step /\ copy'[r] = copy[r] BY <1>4 DEF GoesOn, Goto
  <2>2. (pc[r] \in ConductSteps /\ step # "load") \/ pc[r] = "generate"
    BY <1>4, <2>1 DEF GoesOn, Follows, ConductSteps, OnQuestion
  <2>3. CASE pc[r] = "generate"
    <3>1. copy[r].index = 1 BY <2>3 DEF MoverInv, AllFit, Fits
    <3> QED BY <2>1, <3>1, ShapeAssumption DEF PastHr, ShapeAssumption
  <2> QED BY <1>2, <2>1, <2>2, <2>3
<1>5. ASSUME NEW to \in Targets, NEW step \in Steps, Writes(r, to, step) PROVE FALSE
  <2>1. CASE step = "idle" BY <1>5, <2>1 DEF Writes, Finish, ConductSteps, OnQuestion
  <2>2. CASE step # "idle"
    <3>1. pc'[r] = step BY <1>5, <2>2 DEF Writes
    <3>2. copy'[r] = [copy[r] EXCEPT !.state = to] BY <1>5, <2>2 DEF Writes
    <3>3. (copy'[r]).state = to BY <3>2 DEF Copies
    <3>4. step = "load" /\ to = "tech_round"
      BY <1>5, <2>2, <3>1 DEF Writes, Wins, ConductSteps, OnQuestion
    <3> QED BY <3>3, <3>4
  <2> QED BY <2>1, <2>2
<1>6. CASE SeedIndex(r) \/ Advances(r)
  <2>1. pc'[r] \in {"start", "hand", "batch", "move"}
    BY <1>6 DEF SeedIndex, Advances, RecordAnswer
  <2> QED BY <2>1 DEF ConductSteps, OnQuestion
<1>7. CASE Speak(r) \/ Closes(r)
  <2>1. pc'[r] \in {"ask", "end"} /\ pc[r] \in {"speak", "closing"} /\ copy'[r] = copy[r]
    BY <1>7 DEF Speak, Closes, Goto
  <2> QED BY <1>2, <2>1 DEF ConductSteps, OnQuestion
<1> QED BY <1>3, <1>4, <1>5, <1>6, <1>7 DEF Kind

LEMMA NextInBlock ==
    ASSUME OneAtATime, Sound, TechWaits, InBlock, [RoomNext]_<<vars, died>>
    PROVE  InBlock'
<1> USE DEF Sound
<1>0. \A s \in Requests : pc[s] = "load" => HasBatch("tech")' = HasBatch("tech")
  BY TechBatchKept, MakerMoves
<1>1. ASSUME NEW r \in Requests, Dies(r) PROVE InBlock'
  <2>1. died \subseteq died' /\ Finish(r) BY <1>1 DEF Dies, Crash
  <2>2. pc'[r] = "idle" /\ \A s \in Requests : s # r => pc'[s] = pc[s] /\ copy'[s] = copy[s]
    BY <2>1 DEF Finish, TypeInv, HandlersOK
  <2> QED BY <1>0, <2>1, <2>2, InBlockStep DEF ConductSteps, OnQuestion
<1>2. ASSUME UNCHANGED died, NEW r \in Requests, NEW step \in Steps, NEW p \in Plans,
             Arrives(r, step, p)
      PROVE  InBlock'
  <2>1. Enter(r, step, p) BY <1>2 DEF Arrives
  <2>2. pc[r] = "idle" /\ pc'[r] = step /\ (copy'[r]).state = state /\ (copy'[r]).index = index
        /\ \A s \in Requests : s # r => pc'[s] = pc[s] /\ copy'[s] = copy[s]
    BY <2>1 DEF Enter, TypeInv, HandlersOK
  <2>3. HasBatch("tech")' = HasBatch("tech") BY <2>1 DEF Enter, HasBatch
  <2>4. ASSUME step \in ConductSteps, state = "hr_round", PastHr(index), "between" \notin died
        PROVE  step = "load" /\ ~HasBatch("tech")
    <3>1. Moving = {} /\ step \in {"load", "record"}
      BY <1>2, <2>4 DEF Arrives, Starts, MovesOn, Leaves, ConductSteps, OnQuestion
    <3>2. \A s \in Requests : ~Settles(s) BY <3>1 DEF Settles, Moving, IsMover
    <3>3. ~HasBatch("tech") BY <2>4, <3>2 DEF TechWaits, Waits, BetweenRounds
    <3>4. step # "record" BY <2>2, <2>4, <3>3, StepSaw, PastHrIsTech
    <3> QED BY <3>1, <3>3, <3>4
  <2> QED BY <1>0, <1>2, <2>2, <2>3, <2>4, InBlockStep
<1>3. CASE UNCHANGED died /\ UNCHANGED <<Kept, handlers>>
  BY <1>0, <1>3 DEF handlers, InBlock, PastHr
<1>4. ASSUME UNCHANGED died, NEW r \in Requests, Kind(r) PROVE InBlock'
  BY <1>0, <1>4, KindInBlock, StepSaw
<1> QED BY <1>1, <1>2, <1>3, <1>4, RoomKinds

LEMMA NextBegun ==
    ASSUME OneAtATime, Sound, BegunAtOne, [RoomNext]_<<vars, died>>
    PROVE  BegunAtOne'
<1> USE DEF Sound, TypeInv, HandlersOK, RowOK
<1>1. UNCHANGED <<state, index>> => BegunAtOne' BY DEF BegunAtOne
<1>2. ASSUME NEW r \in Requests, NEW to \in Targets, NEW step \in Steps, Writes(r, to, step)
      PROVE  BegunAtOne'
  <2>1. state' = to /\ index' = index /\ TransitionAllowed(r, to) /\ Wins(r, to, step)
    BY <1>2 DEF Writes, WriteState
  <2>2. CASE pc[r] = "start"
    <3>1. index = 1
      BY <2>2, SoleMover DEF MoverSteps, StartSteps, MoverInv, AllFit, Fits, MoverIsCurrent
    <3> QED BY <2>1, <3>1 DEF BegunAtOne
  <2>3. CASE pc[r] \in Late
    <3>1. state \notin NotBegun \cup {"abandoned"}
      BY <2>1, <2>3 DEF SafeInv, LateHasBegun, TransitionAllowed, CanTransition, TRANSITIONS
    <3> QED BY <2>1, <3>1 DEF BegunAtOne
  <2>4. CASE to \in {"profiling", "abandoned"} BY <2>1, <2>4 DEF BegunAtOne, NotBegun
  <2> QED BY <2>1, <2>2, <2>3, <2>4 DEF Wins, Late, EarlySteps, Steps
<1>3. ASSUME NEW r \in Requests, Kind(r) PROVE BegunAtOne'
  <2>1. CASE SeedIndex(r) BY <2>1 DEF SeedIndex, BegunAtOne
  <2>2. CASE Advances(r)
    <3>1. index' = IndexAfter(r) /\ copy[r].index = index
      BY <2>2 DEF Advances, RecordAnswer, IndexUnmoved
    <3>2. index' >= 1 BY <3>1, ShapeAssumption DEF IndexAfter, ShapeAssumption
    <3> QED BY <3>2 DEF BegunAtOne
  <2> QED BY <1>1, <1>2, <1>3, <2>1, <2>2
          DEF Kind, Returns, GoesOn, Lists, Speak, Closes, Kept, row
<1>4. ASSUME NEW r \in Requests, NEW step \in Steps, NEW p \in Plans,
             Dies(r) \/ Arrives(r, step, p)
      PROVE  BegunAtOne'
  BY <1>1, <1>4 DEF Dies, Crash, Arrives, Enter, row
<1>5. (\E r \in Requests : Dies(r)) => BegunAtOne'
  BY <1>1 DEF Dies, Crash, row
<1> QED BY <1>1, <1>3, <1>4, <1>5, RoomKinds DEF Kept
-----------------------------------------------------------------------------
(* The index only moves forward, and an advance leaves its question behind.*)

(* What is known of every state, one request at a time.                    *)
Placed == Sound /\ TechWaits /\ InBlock /\ BegunAtOne

LEMMA AdvanceForward ==
    ASSUME Placed, "between" \notin died, NEW r \in Requests, Advances(r)
    PROVE  index' > index
<1> USE DEF Placed, Sound, TypeInv, HandlersOK, RowOK
<1>1. pc[r] = "record" /\ index' = IndexAfter(r) /\ copy[r].index = index
  BY DEF Advances, RecordAnswer, IndexUnmoved
<1>2. index \in Nat BY ShapeAssumption DEF ShapeAssumption
<1>3. CASE plan[r].act = "handover"
  <2>1. copy[r].state = "hr_round"
    BY <1>1, <1>3 DEF MoverInv, AllFit, Fits, MayHandOver
  <2>2. ~PastHr(index) BY <1>1, <2>1 DEF InBlock, ConductSteps, OnQuestion
  <2>3. index' = HrCount + 1 BY <1>1, <1>3 DEF IndexAfter
  <2> QED BY <1>2, <2>2, <2>3, ShapeAssumption DEF PastHr, ShapeAssumption
<1>4. CASE plan[r].act # "handover"
  <2>1. index' = index + 1 BY <1>1, <1>4 DEF IndexAfter
  <2> QED BY <1>2, <2>1
<1> QED BY <1>3, <1>4

(* Who writes the index.                                                   *)
LEMMA RoomIndexWrites ==
    ASSUME OneAtATime, Sound, [RoomNext]_<<vars, died>>
    PROVE  \/ UNCHANGED <<index, moved>>
           \/ /\ UNCHANGED <<moved, died>> /\ index <= 1 /\ index' = 1
           \/ UNCHANGED died /\ \E r \in Requests : Advances(r)
<1> USE DEF Sound
<1>1. ASSUME NEW r \in Requests, SeedIndex(r)
      PROVE  index <= 1 /\ index' = 1 /\ UNCHANGED moved
  BY <1>1 DEF SeedIndex, answers, Starting, SafeInv, StartIsAlone
<1>2. ASSUME NEW r \in Requests, Kind(r), ~Advances(r), ~SeedIndex(r)
      PROVE  UNCHANGED <<index, moved>>
  BY <1>2 DEF Kind, Returns, GoesOn, Writes, WriteState, Lists, Speak, Closes, Kept, row, answers
<1>3. (\E r \in Requests : Dies(r)) => UNCHANGED <<index, moved>>
  BY DEF Dies, Crash, row, answers
<1>4. ASSUME NEW r \in Requests, NEW step \in Steps, NEW p \in Plans, Arrives(r, step, p)
      PROVE  UNCHANGED <<index, moved>>
  BY <1>4 DEF Arrives, Enter, row, answers
<1> QED BY <1>1, <1>2, <1>3, <1>4, RoomKinds DEF Kept

(* A question is advanced from once, and is behind the index from then on. *)
AnsweredBehind ==
    "between" \in died \/ \A q \in Questions : moved[q] = 0 \/ (moved[q] = 1 /\ q < index)

LEMMA NextAnsweredBehind ==
    ASSUME OneAtATime, Placed, AnsweredBehind, [RoomNext]_<<vars, died>>
    PROVE  AnsweredBehind'
<1> USE DEF Placed, Sound, TypeInv, HandlersOK, RowOK, AnswersOK
<1>0. died \subseteq died' BY DEF RoomNext, Dies
<1>q. index \in Int /\ Questions \subseteq Int BY ShapeAssumption DEF Questions, ShapeAssumption
<1>1. CASE UNCHANGED <<index, moved>>
  BY <1>0, <1>1 DEF AnsweredBehind
<1>2. CASE UNCHANGED <<moved, died>> /\ index <= 1 /\ index' = 1
  BY <1>2, <1>q DEF AnsweredBehind
<1>3. ASSUME UNCHANGED died, NEW r \in Requests, Advances(r), "between" \notin died
      PROVE  AnsweredBehind'
  <2>1. copy[r].index = index /\ index \in Questions
    BY <1>3 DEF Advances, IndexUnmoved, RecordAnswer, OnAQuestion, OnQuestion
  <2>2. moved' = IF StoresAnswer(r) THEN [moved EXCEPT ![index] = @ + 1] ELSE moved
    BY <1>3, <2>1 DEF Advances, RecordAnswer
  <2>3. index' > index BY <1>3, AdvanceForward
  <2>4. index' \in Int
    BY <1>3, <2>1, ShapeAssumption DEF Advances, RecordAnswer, IndexAfter, ShapeAssumption, Questions
  <2>5. moved[index] = 0 BY <1>3, <2>1, <1>q DEF AnsweredBehind
  <2>6. ASSUME NEW q \in Questions PROVE moved'[q] = 0 \/ (moved'[q] = 1 /\ q < index')
    <3>1. CASE q = index BY <2>1, <2>2, <2>3, <2>5, <3>1
    <3>2. CASE q # index
      <4>1. moved'[q] = moved[q] BY <2>2, <3>2
      <4>2. moved[q] = 0 \/ (moved[q] = 1 /\ q < index) BY <1>3 DEF AnsweredBehind
      <4> QED BY <1>q, <2>3, <2>4, <4>1, <4>2
    <3> QED BY <3>1, <3>2
  <2> QED BY <2>6 DEF AnsweredBehind
<1>4. "between" \in died => AnsweredBehind' BY <1>0 DEF AnsweredBehind
<1> QED BY <1>1, <1>2, <1>3, <1>4, RoomIndexWrites

LEMMA RoomPlaced ==
    ASSUME OneAtATime
    PROVE  RoomSpec => []Placed
<1>1. RoomInit => Placed
  <2> SUFFICES ASSUME RoomInit PROVE Placed OBVIOUS
  <2>1. Init /\ state = "created" /\ \A r \in Requests : pc[r] \in {"idle", "listing"}
    BY DEF RoomInit, Init
  <2>2. Sound BY <2>1, InitTyped, InitSafe, InitMoves DEF Sound
  <2>3. TechWaits /\ InBlock /\ BegunAtOne
    BY <2>1 DEF TechWaits, Waits, BetweenRounds, InBlock, ConductSteps, OnQuestion, BegunAtOne,
                NotBegun
  <2> QED BY <2>2, <2>3 DEF Placed
<1>2. Placed /\ [RoomNext]_<<vars, died>> => Placed'
  BY RoomStepIsStep, NextTyped, NextSafe, NextMoves, NextWaits, NextInBlock, NextBegun
     DEF Placed, Sound, OneAtATime
<1> QED BY <1>1, <1>2, PTL DEF RoomSpec

(* One request at a time, the index never goes back unless a process died  *)
(* between the rounds: no answered question becomes current again, however *)
(* a generation fails.                                                     *)
THEOREM IndexGoesForward ==
    ASSUME OneAtATime
    PROVE  RoomSpec => IndexNeverBack
<1>1. Placed /\ [RoomNext]_<<vars, died>> => [index' >= index \/ "between" \in died]_vars
  <2> SUFFICES ASSUME Placed, [RoomNext]_<<vars, died>>, "between" \notin died
               PROVE  index' >= index
    OBVIOUS
  <2>1. index \in Int /\ index' \in Int
    <3>1. TypeInv' BY RoomStepIsStep, NextTyped DEF Placed, Sound
    <3> QED BY <3>1, ShapeAssumption DEF Placed, Sound, TypeInv, RowOK, ShapeAssumption
  <2>2. \A r \in Requests : Advances(r) => index' > index BY AdvanceForward
  <2> QED BY <2>1, <2>2, RoomIndexWrites DEF Placed
<1> QED BY <1>1, RoomPlaced, PTL DEF RoomSpec, IndexNeverBack
-----------------------------------------------------------------------------
(* Until a process dies: one closing answer, and an index within the       *)
(* interview.                                                              *)

(* After a closing answer the interview only ends: it has, or the handler  *)
(* that stored it is about to.                                             *)
Closed ==
    /\ \A r \in Requests : IsMover(plan[r]) => pc[r] \in {"end", "enqueue"}
    /\ \/ state \in OverStates
       \/ \E r \in Requests :
             IsMover(plan[r]) /\ pc[r] = "end" /\ copy[r].state \in RoundStates

ClosedOnce ==
    died = {} => \A q \in Questions : stayed[q] > 0 => stayed[q] = 1 /\ moved[q] = 0 /\ Closed

LEMMA ClosedStep ==
    ASSUME Closed, NEW r \in Requests,
           \A s \in Requests : s # r => pc'[s] = pc[s] /\ copy'[s] = copy[s] /\ plan'[s] = plan[s],
           IsMover(plan'[r]) => pc'[r] \in {"end", "enqueue"},
           state \in OverStates => state' \in OverStates,
           IsMover(plan[r]) /\ pc[r] = "end" => state' \in OverStates
    PROVE  Closed'
<1>1. \A s \in Requests : IsMover(plan[s])' => pc'[s] \in {"end", "enqueue"}
  BY DEF Closed, IsMover
<1>2. ASSUME state' \notin OverStates
      PROVE  \E s \in Requests : IsMover(plan[s])' /\ pc'[s] = "end" /\ (copy'[s]).state \in RoundStates
  <2>1. PICK s \in Requests : IsMover(plan[s]) /\ pc[s] = "end" /\ copy[s].state \in RoundStates
    BY <1>2 DEF Closed
  <2>2. s # r BY <1>2, <2>1
  <2> QED BY <2>1, <2>2 DEF IsMover
<1> QED BY <1>1, <1>2 DEF Closed

(* An interview that a step leaves over stays over on this side of the     *)
(* report, and a mover at its last step can write the ending.              *)
LEMMA EndAllowed ==
    ASSUME MoverInv, NEW r \in Requests, IsMover(plan[r]), pc[r] = "end",
           copy[r].state \in RoundStates
    PROVE  TransitionAllowed(r, "evaluating") \/ state \in OverStates
<1>1. copy[r].state = state \/ state \in OverStates
  BY MoverNow DEF Late, EarlySteps, Steps
<1> QED BY <1>1 DEF TransitionAllowed, CanTransition, TRANSITIONS, RoundStates

LEMMA ClosedFinish ==
    ASSUME TypeInv, Closed, NEW r \in Requests, Finish(r),
           state \in OverStates => state' \in OverStates,
           IsMover(plan[r]) /\ pc[r] = "end" => state' \in OverStates
    PROVE  Closed'
<1>1. ~IsMover(NoPlan) BY DEF IsMover, NoPlan
<1>2. ~IsMover(plan'[r]) BY <1>1 DEF Finish, TypeInv, HandlersOK
<1>3. \A s \in Requests : s # r => pc'[s] = pc[s] /\ copy'[s] = copy[s] /\ plan'[s] = plan[s]
  BY DEF Finish, TypeInv, HandlersOK
<1> QED BY <1>2, <1>3, ClosedStep

(* With nobody but the enders left to move the interview, no step opens it *)
(* again.                                                                  *)
LEMMA KindClosed ==
    ASSUME TypeInv, SafeInv, MoverInv, Closed, NEW r \in Requests, Kind(r)
    PROVE  Closed' /\ UNCHANGED <<moved, stayed>>
<1> USE DEF TypeInv, HandlersOK
<1>1. pc[r] \notin MoverSteps
  BY SoleMover DEF Closed, MoverSteps, StartSteps
<1>2. pc[r] \notin Late \cup StartSteps \/ pc[r] \in {"end", "enqueue"} BY <1>1 DEF MoverSteps
<1>3. \A s \in Requests : s # r => pc'[s] = pc[s] /\ copy'[s] = copy[s] /\ plan'[s] = plan[s]
  BY OthersStay
<1>4. CASE Returns(r) /\ GivesUp(r)
  <2>1. ASSUME IsMover(plan[r]), pc[r] = "end" PROVE state \in OverStates
    <3>1. ~TransitionAllowed(r, "evaluating") BY <1>4, <2>1 DEF GivesUp
    <3>2. CASE copy[r].state \in RoundStates BY <2>1, <3>1, <3>2, EndAllowed
    <3>3. CASE copy[r].state \notin RoundStates
      <4>1. r \in Moving /\ Moving \subseteq {r} BY <2>1, SoleMover DEF Moving, IsMover
      <4>2. \A s \in Requests : IsMover(plan[s]) => s = r BY <4>1 DEF Moving, IsMover
      <4> QED BY <3>3, <4>2 DEF Closed
    <3> QED BY <3>2, <3>3
  <2> QED BY <1>4, <2>1, ClosedFinish DEF Returns, Kept
<1>5. ASSUME NEW to \in Targets, NEW step \in Steps, Writes(r, to, step)
      PROVE  Closed' /\ UNCHANGED <<moved, stayed>>
  <2>1. state' = to /\ TransitionAllowed(r, to) /\ Wins(r, to, step) /\ UNCHANGED <<moved, stayed>>
    BY <1>5 DEF Writes, WriteState
  <2>2. state \notin OverStates BY <2>1, OverIsOver
  <2>3. pc[r] # "setup"
    <3>1. PICK s \in Requests : copy[s].state \in RoundStates BY <2>2 DEF Closed
    <3>2. state # "created" BY <3>1 DEF SafeInv, BegunForGood, RoundStates, NotBegun
    <3> QED BY <2>1, <3>2 DEF Wins, TransitionAllowed, CanTransition, TRANSITIONS, RowOK, InterviewStates
  <2>4. pc[r] \in {"end", "quit"}
    BY <1>1, <2>1, <2>3 DEF Wins, MoverSteps, StartSteps, Late, EarlySteps, Steps
  <2>5. to \in OverStates BY <2>1, <2>4 DEF Wins, OverStates
  <2>6. CASE step = "idle" BY <1>5, <2>1, <2>5, <2>6, ClosedFinish DEF Writes
  <2>7. CASE step # "idle"
    <3>1. step = "enqueue" BY <2>1, <2>4, <2>7 DEF Wins
    <3>2. pc'[r] = "enqueue" BY <1>5, <2>7, <3>1 DEF Writes
    <3> QED BY <1>3, <2>1, <2>5, <3>2, ClosedStep
  <2> QED BY <2>6, <2>7
<1>6. CASE Lists(r)
  <2>1. ~IsMover(NoPlan) BY DEF IsMover, NoPlan
  <2>2. ~IsMover(plan'[r]) /\ pc[r] # "end" /\ UNCHANGED <<state, moved, stayed>>
    BY <1>6, <2>1 DEF Lists, Goto, Kept
  <2> QED BY <1>3, <2>2, ClosedStep
<1>7. ~SeedIndex(r) /\ ~Speak(r) /\ ~Advances(r) /\ ~Closes(r)
      /\ ~(\E step \in Steps, p \in Plans : GoesOn(r, step, p))
  BY <1>1 DEF SeedIndex, Speak, Advances, RecordAnswer, Closes, GoesOn, Follows,
              MoverSteps, StartSteps, Late, EarlySteps, Steps
<1> QED BY <1>4, <1>5, <1>6, <1>7 DEF Kind, Returns, Kept

LEMMA ArriveClosed ==
    ASSUME TypeInv, SafeInv, Closed, NEW r \in Requests, NEW step \in Steps, NEW p \in Plans,
           Arrives(r, step, p)
    PROVE  Closed'
<1>1. pc[r] = "idle" /\ state' = state /\ plan'[r] = p
      /\ \A s \in Requests : s # r => pc'[s] = pc[s] /\ copy'[s] = copy[s] /\ plan'[s] = plan[s]
  BY DEF Arrives, Enter, row, TypeInv, HandlersOK
<1>2. ~MovesOn(r, step, p)
  BY DEF MovesOn, Closed, Moving, IsMover, OverStates, RoundStates
<1>3. ~Starts(r, step, p)
  <2>1. ASSUME state \in NotBegun PROVE FALSE
    <3>1. PICK s \in Requests : copy[s].state \in RoundStates
      BY <2>1 DEF Closed, NotBegun, OverStates
    <3> QED BY <2>1, <3>1 DEF SafeInv, BegunForGood, RoundStates, NotBegun
  <2> QED BY <2>1 DEF Starts
<1>4. ~IsMover(p) BY <1>2, <1>3 DEF Arrives, Leaves
<1> QED BY <1>1, <1>4, ClosedStep

LEMMA CloseOnce ==
    ASSUME Placed, AnsweredBehind, ClosedOnce, died = {}, NEW r \in Requests, Closes(r),
           NEW q \in Questions, stayed'[q] > 0
    PROVE  stayed'[q] = 1 /\ moved'[q] = 0 /\ Closed'
<1> USE DEF Placed, Sound, TypeInv, HandlersOK, RowOK, AnswersOK
<1>1. pc[r] = "closing" /\ copy[r].index = index /\ index \in Questions
  BY DEF Closes, IndexUnmoved, OnAQuestion, OnQuestion
<1>2. IsMover(plan[r]) /\ Moving \subseteq {r}
  BY <1>1, SoleMover DEF MoverSteps, Late, EarlySteps, Steps
<1>3. ~Closed BY <1>1, <1>2 DEF Closed
<1>4. \A k \in Questions : stayed[k] = 0 BY <1>3 DEF ClosedOnce
<1>5. stayed' = [stayed EXCEPT ![index] = @ + 1] /\ UNCHANGED <<moved, copy>>
      /\ pc' = [pc EXCEPT ![r] = "end"] /\ plan' = [plan EXCEPT ![r] = plan[r]]
  BY <1>1 DEF Closes, Goto
<1>6. q = index BY <1>4, <1>5
<1>7. stayed'[q] = 1 BY <1>1, <1>4, <1>5, <1>6
<1>8. moved[q] = 0
  <2>1. index \in Int BY ShapeAssumption DEF ShapeAssumption
  <2> QED BY <1>6, <2>1 DEF AnsweredBehind
<1>9. Closed'
  <2>1. copy[r].state \in RoundStates
    BY <1>1 DEF MoverInv, AllFit, Fits, ConductSteps, OnQuestion
  <2>2. \A s \in Requests : IsMover(plan[s]) => s = r BY <1>2 DEF Moving, IsMover
  <2>3. pc'[r] = "end" /\ plan' = plan BY <1>5
  <2> QED BY <1>2, <1>5, <2>1, <2>2, <2>3 DEF Closed, IsMover
<1> QED BY <1>5, <1>7, <1>8, <1>9

LEMMA NextClosedOnce ==
    ASSUME OneAtATime, Placed, AnsweredBehind, ClosedOnce, [RoomNext]_<<vars, died>>
    PROVE  ClosedOnce'
<1> USE DEF Placed, Sound
<1> SUFFICES ASSUME died' = {}, NEW q \in Questions, stayed'[q] > 0
             PROVE  stayed'[q] = 1 /\ moved'[q] = 0 /\ Closed'
  BY DEF ClosedOnce
<1>1. ~(\E r \in Requests : Dies(r)) BY DEF Dies
<1>2. died = {} BY <1>1, RoomKinds
<1>3. stayed[q] > 0 => stayed[q] = 1 /\ moved[q] = 0 /\ Closed BY <1>2 DEF ClosedOnce
<1>4. ASSUME NEW r \in Requests, NEW step \in Steps, NEW p \in Plans, Arrives(r, step, p)
      PROVE  stayed'[q] = 1 /\ moved'[q] = 0 /\ Closed'
  <2>1. UNCHANGED <<moved, stayed>> BY <1>4 DEF Arrives, Enter, answers
  <2> QED BY <1>3, <1>4, <2>1, ArriveClosed
<1>5. ASSUME NEW r \in Requests, Kind(r)
      PROVE  stayed'[q] = 1 /\ moved'[q] = 0 /\ Closed'
  <2>1. CASE Closes(r) BY <1>2, <2>1, CloseOnce
  <2>2. CASE ~Closes(r)
    <3>1. stayed' = stayed
      BY <1>5, <2>2 DEF Kind, Returns, GoesOn, Writes, Lists, SeedIndex, Speak, Advances,
                        RecordAnswer, Kept, answers
    <3> QED BY <1>3, <1>5, <3>1, KindClosed
  <2> QED BY <2>1, <2>2
<1>6. CASE UNCHANGED <<Kept, handlers>>
  BY <1>3, <1>6 DEF Kept, handlers, Closed, IsMover
<1> QED BY <1>1, <1>4, <1>5, <1>6, RoomKinds

(* An index past the last question: the interview is over, or the handler  *)
(* that moved the index there is about to end it.                          *)
Ends(r) == IsMover(plan[r]) /\ pc[r] = "move" /\ copy[r].state = "tech_round"

InTarget ==
    died = {} /\ HrCount < Target /\ PastTarget(index) =>
        state \in OverStates \/ (state = "tech_round" /\ \E r \in Requests : Ends(r))

LEMMA KindInTarget ==
    ASSUME Placed, NEW r \in Requests, Kind(r), ~Advances(r), died = {},
           HrCount < Target, PastTarget(index'),
           PastTarget(index) =>
               state \in OverStates \/ (state = "tech_round" /\ \E s \in Requests : Ends(s))
    PROVE  state' \in OverStates \/ (state' = "tech_round" /\ \E s \in Requests : Ends(s)')
<1> USE DEF Placed, Sound, TypeInv, HandlersOK
<1>1. ~SeedIndex(r)
  <2>1. HrCount \in Nat \ {0} /\ Target \in Nat BY ShapeAssumption DEF ShapeAssumption
  <2> QED BY <2>1 DEF SeedIndex, PastTarget
<1>2. index' = index
  BY <1>1 DEF Kind, Returns, GoesOn, Writes, WriteState, Lists, Speak, Closes, Kept, row
<1>3. state \in OverStates \/ (state = "tech_round" /\ \E s \in Requests : Ends(s)) BY <1>2
<1>4. \A s \in Requests : s # r /\ Ends(s) => Ends(s)'
  BY OthersStay DEF Ends, IsMover
<1>5. ASSUME NEW to \in Targets, NEW step \in Steps, Writes(r, to, step)
      PROVE  state' \in OverStates
  <2>1. state' = to /\ TransitionAllowed(r, to) BY <1>5 DEF Writes, WriteState
  <2>2. state = "tech_round" BY <1>3, <2>1, OverIsOver
  <2> QED BY <2>1, <2>2 DEF TransitionAllowed, CanTransition, TRANSITIONS, OverStates
<1>6. CASE \E to \in Targets, step \in Steps : Writes(r, to, step)
  BY <1>5, <1>6
<1>7. CASE ~(\E to \in Targets, step \in Steps : Writes(r, to, step))
  <2>1. state' = state
    BY <1>1, <1>7 DEF Kind, Returns, GoesOn, Lists, Speak, Closes, Kept, row
  <2>2. ASSUME Ends(r), state = "tech_round" PROVE FALSE
    <3>1. copy[r].index = index
      BY <2>2, MoverNow DEF Ends, Late, EarlySteps, Steps
    <3>2. ~NothingToMove(r)
      BY <1>2, <2>2, <3>1 DEF NothingToMove, Ends, RoundStates
    <3>3. ~(Returns(r) /\ GivesUp(r)) BY <2>2, <3>2 DEF GivesUp, Ends
    <3>4. ~(\E step \in Steps, p \in Plans : GoesOn(r, step, p))
      BY <2>2, <3>2 DEF GoesOn, Follows, Ends
    <3> QED BY <1>1, <1>7, <2>2, <3>3, <3>4 DEF Kind, Lists, Speak, Closes, Ends
  <2> QED BY <1>3, <1>4, <2>1, <2>2
<1> QED BY <1>6, <1>7

(* Only an advance of the technical round takes the index past the last    *)
(* question, and its next step ends the interview.                         *)
LEMMA AdvanceInTarget ==
    ASSUME Placed, NEW r \in Requests, Advances(r), died = {}, HrCount < Target, PastTarget(index')
    PROVE  state' \in OverStates \/ (state' = "tech_round" /\ Ends(r)')
<1> USE DEF Placed, Sound, TypeInv, HandlersOK, RowOK
<1>1. pc[r] = "record" /\ index' = IndexAfter(r) /\ copy[r].index = index /\ state' = state
  BY DEF Advances, RecordAnswer, IndexUnmoved
<1>2. HrCount \in Nat /\ Target \in Nat /\ index \in Nat BY ShapeAssumption DEF ShapeAssumption
<1>3. copy[r].state \in RoundStates
  BY <1>1 DEF MoverInv, AllFit, Fits, ConductSteps, OnQuestion
<1>4. plan[r].act # "handover"
  BY <1>1, <1>2 DEF IndexAfter, PastTarget
<1>5. copy[r].state = "tech_round"
  <2>1. ASSUME copy[r].state = "hr_round" PROVE FALSE
    <3>1. ~PastHr(index) BY <1>1, <2>1 DEF InBlock, ConductSteps, OnQuestion
    <3> QED BY <1>1, <1>2, <1>4, <3>1 DEF IndexAfter, PastTarget, PastHr
  <2> QED BY <1>3, <2>1 DEF RoundStates
<1>6. IsMover(plan[r]) /\ (copy[r].state = state \/ state \in OverStates)
  BY <1>1, MoverNow DEF MoverSteps, Late, EarlySteps, Steps
<1>7. pc'[r] = "move" /\ plan' = plan
      /\ copy' = [copy EXCEPT ![r] = [copy[r] EXCEPT !.index = IndexAfter(r)]]
  BY <1>4, <1>5 DEF Advances, RecordAnswer
<1>8. (copy'[r]).state = "tech_round" BY <1>5, <1>7 DEF Copies
<1> QED BY <1>1, <1>5, <1>6, <1>7, <1>8 DEF Ends, IsMover

LEMMA NextInTarget ==
    ASSUME OneAtATime, Placed, InTarget, [RoomNext]_<<vars, died>>
    PROVE  InTarget'
<1> USE DEF Placed, Sound
<1> SUFFICES ASSUME died' = {}, HrCount < Target, PastTarget(index')
             PROVE  state' \in OverStates \/ (state' = "tech_round" /\ \E r \in Requests : Ends(r)')
  BY DEF InTarget, PastTarget
<1>1. ~(\E r \in Requests : Dies(r)) BY DEF Dies
<1>2. died = {} BY <1>1, RoomKinds
<1>3. PastTarget(index) =>
          state \in OverStates \/ (state = "tech_round" /\ \E r \in Requests : Ends(r))
  BY <1>2 DEF InTarget
<1>4. ASSUME NEW r \in Requests, NEW step \in Steps, NEW p \in Plans, Arrives(r, step, p)
      PROVE  state' \in OverStates \/ (state' = "tech_round" /\ \E s \in Requests : Ends(s)')
  <2>1. Enter(r, step, p) /\ UNCHANGED <<state, index>> BY <1>4 DEF Arrives, Enter, row
  <2>2. ~Ends(r) /\ \A s \in Requests :
                        s # r => pc'[s] = pc[s] /\ copy'[s] = copy[s] /\ plan'[s] = plan[s]
    BY <2>1 DEF Enter, Ends, TypeInv, HandlersOK
  <2>3. \A s \in Requests : Ends(s) => Ends(s)' BY <2>2 DEF Ends, IsMover
  <2> QED BY <1>3, <2>1, <2>3
<1>5. ASSUME NEW r \in Requests, Kind(r)
      PROVE  state' \in OverStates \/ (state' = "tech_round" /\ \E s \in Requests : Ends(s)')
  BY <1>2, <1>3, <1>5, KindInTarget, AdvanceInTarget
<1>6. CASE UNCHANGED <<Kept, handlers>>
  <2>1. \A s \in Requests : Ends(s) => Ends(s)' BY <1>6 DEF handlers, Ends, IsMover
  <2> QED BY <1>3, <1>6, <2>1 DEF Kept
<1> QED BY <1>1, <1>4, <1>5, <1>6, RoomKinds
-----------------------------------------------------------------------------
(* The room's invariant, and what it gives.                                *)

RoomInv == Placed /\ AnsweredBehind /\ ClosedOnce /\ InTarget

LEMMA RoomHolds ==
    ASSUME OneAtATime
    PROVE  RoomSpec => []RoomInv
<1>1. RoomInit => AnsweredBehind /\ ClosedOnce /\ InTarget
  <2> SUFFICES ASSUME RoomInit PROVE AnsweredBehind /\ ClosedOnce /\ InTarget OBVIOUS
  <2>1. /\ index = 0 /\ moved = [q \in Questions |-> 0] /\ stayed = [q \in Questions |-> 0]
    BY DEF RoomInit, Init
  <2>2. ~PastTarget(index) BY <2>1, ShapeAssumption DEF PastTarget, ShapeAssumption
  <2> QED BY <2>1, <2>2 DEF AnsweredBehind, ClosedOnce, InTarget
<1>2. Placed /\ AnsweredBehind /\ ClosedOnce /\ InTarget /\ [RoomNext]_<<vars, died>>
      => AnsweredBehind' /\ ClosedOnce' /\ InTarget'
  BY NextAnsweredBehind, NextClosedOnce, NextInTarget DEF OneAtATime
<1>3. Placed /\ AnsweredBehind /\ ClosedOnce /\ InTarget <=> RoomInv BY DEF RoomInv
<1> QED BY <1>1, <1>2, <1>3, RoomPlaced, PTL DEF RoomSpec

(* One request at a time, a question is answered by one advance and is     *)
(* then behind the index, and until a process dies it has no second answer *)
(* row, for every number of requests, shape of interview, ceiling and      *)
(* fault.                                                                  *)
THEOREM QuestionsAnsweredOnce ==
    ASSUME OneAtATime
    PROVE  RoomSpec => []AnsweredOnce
<1>1. RoomInv => AnsweredOnce
  <2> SUFFICES ASSUME RoomInv, NEW q \in Questions
               PROVE  /\ "between" \in died \/ moved[q] <= 1
                      /\ "between" \in died \/ moved[q] = 0 \/ q < index
                      /\ died # {} \/ moved[q] + stayed[q] <= 1
    BY DEF AnsweredOnce
  <2>1. moved[q] \in Nat /\ stayed[q] \in Nat
    BY DEF RoomInv, Placed, Sound, TypeInv, AnswersOK
  <2>2. "between" \in died \/ moved[q] = 0 \/ (moved[q] = 1 /\ q < index)
    BY DEF RoomInv, AnsweredBehind
  <2>3. died # {} \/ moved[q] + stayed[q] <= 1
    <3>1. died = {} /\ stayed[q] > 0 => stayed[q] = 1 /\ moved[q] = 0
      BY DEF RoomInv, ClosedOnce
    <3> QED BY <2>1, <2>2, <3>1
  <2> QED BY <2>1, <2>2, <2>3
<1> QED BY <1>1, RoomHolds, PTL

(* Without generations that fail unrecognised, a round without handlers    *)
(* between the HR block and the technical state is the work of a crash.    *)
LEMMA RoomHeld ==
    ASSUME OneAtATime, "internal" \notin Faults
    PROVE  RoomSpec => []BetweenHeld
<1>1. RoomInit => BetweenHeld BY DEF RoomInit, Init, BetweenHeld, BetweenRounds
<1>2. Placed /\ BetweenHeld /\ [RoomNext]_<<vars, died>> => BetweenHeld'
  BY NextHeld DEF Placed, OneAtATime
<1> QED BY <1>1, <1>2, RoomPlaced, PTL DEF RoomSpec

(* One request at a time, and with generations that fail by pausing or not *)
(* at all, nobody in a round is out of moves: when no handler is in        *)
(* flight, the current question is there to be answered or POST /resume    *)
(* recognises a round to regenerate, until a process dies.                 *)
THEOREM NobodyIsStranded ==
    ASSUME OneAtATime, "internal" \notin Faults
    PROVE  RoomSpec => []NeverStranded
<1>1. RoomInv /\ BetweenHeld => NeverStranded
  <2> SUFFICES ASSUME RoomInv, BetweenHeld, InFlight = {}, state \in RoundStates, died = {}
               PROVE  QuestionAt(index) \/ Stranded
    BY DEF NeverStranded
  <2> USE DEF RoomInv, Placed, Sound
  <2>1. \A r \in Requests : pc[r] = "idle" BY DEF InFlight
  <2>2. HrCount \in Nat \ {0} /\ Target \in Nat /\ index \in Nat
        /\ (HrCount < Target \/ (HrCount = 2 /\ Target = 2))
    BY ShapeAssumption DEF ShapeAssumption, TypeInv, RowOK
  <2>3. state \notin OverStates BY DEF RoundStates, OverStates
  <2>4. CASE state = "hr_round"
    <3>1. ~BetweenRounds BY <2>1 DEF BetweenHeld, Settles, BetweenSteps
    <3>2. index <= HrCount BY <2>2, <2>4, <3>1 DEF BetweenRounds, PastHr
    <3>3. index >= 1 BY <2>4 DEF BegunAtOne, NotBegun
    <3>4. index \in Questions /\ RoundOf(index) = "hr" BY <2>2, <3>2, <3>3 DEF Questions, RoundOf
    <3>5. StateRound = "hr" BY <2>4 DEF StateRound
    <3> QED BY <3>4, <3>5 DEF QuestionAt, Stranded
  <2>5. CASE state = "tech_round"
    <3>1. index > HrCount BY <2>5 DEF SafeInv, TechRoundPastHr
    <3>2. StateRound = "tech" BY <2>5 DEF StateRound
    <3>3. CASE HrCount < Target
      <4>1. ~PastTarget(index) BY <2>1, <2>3, <3>3 DEF InTarget, Ends
      <4>2. index \in Questions /\ RoundOf(index) = "tech"
        BY <2>2, <3>1, <4>1 DEF PastTarget, Questions, RoundOf
      <4> QED BY <3>2, <4>2 DEF QuestionAt, Stranded
    <3>4. CASE HrCount = 2 /\ Target = 2
      <4>1. ~HasBatch("tech") BY <3>4 DEF HasBatch, RoundCount
      <4> QED BY <3>2, <4>1 DEF Stranded
    <3> QED BY <2>2, <3>3, <3>4
  <2> QED BY <2>4, <2>5 DEF RoundStates
<1> QED BY <1>1, RoomHolds, RoomHeld, PTL
=============================================================================
