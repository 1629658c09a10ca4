---------------------- MODULE InterviewTechRoundProofs ----------------------
(***************************************************************************)
(* The index and the state of an interview are written by separate commits *)
(* of handlers that may be arbitrarily late.  Still, when two handlers     *)
(* never start the same interview at once, `tech_round` is never joined to *)
(* an index inside the HR block, however turns, answers, resumes, crashes  *)
(* and failures interleave.                                                *)
(***************************************************************************)
EXTENDS InterviewProofs

StartSteps == {"claim", "seed", "start"}

(* Handlers past the start: whatever they hold was read once the interview *)
(* was under way.                                                          *)
EarlySteps == {"idle", "listing", "setup", "claim", "seed", "start", "quit"}
Late == Steps \ EarlySteps

NotBegun == {"created", "profiling"}

(* While someone is starting the interview nobody is past the start, and   *)
(* the index has not left the first question.                              *)
StartIsAlone ==
    Starting # {} =>
        /\ state \in NotBegun \cup {"abandoned"}
        /\ index <= 1
        /\ \A r \in Requests : pc[r] \notin Late

OneStarter == \A r, s \in Starting : r = s

NotBegunAtStart == state \in NotBegun => index <= 1

LateHasBegun == \A r \in Requests : pc[r] \in Late => copy[r].state \notin NotBegun

BegunForGood == \A r \in Requests : copy[r].state \notin NotBegun => state \notin NotBegun

(* A handler that read an index past the HR block is never ahead of the    *)
(* row: the index does not fall back into the block.                       *)
PastHrForGood == \A r \in Requests : PastHr(copy[r].index) => PastHr(index)

(* The two steps that enter the technical round without looking at the     *)
(* index again.                                                            *)
JumpsPastHr == \A r \in Requests : pc[r] \in {"hand", "rejoin"} => PastHr(copy[r].index)

SafeInv ==
    /\ StartIsAlone /\ OneStarter /\ NotBegunAtStart
    /\ LateHasBegun /\ BegunForGood
    /\ PastHrForGood /\ JumpsPastHr
    /\ TechRoundPastHr
-----------------------------------------------------------------------------
(* A step that leaves the row's state and index alone and changes one      *)
(* handler only keeps the invariant when that handler's new step is one    *)
(* its new copy allows.                                                    *)
LEMMA OwnStepSafe ==
    ASSUME TypeInv, SafeInv, TypeInv', NEW r \in Requests,
           UNCHANGED <<state, index>>,
           NEW step \in Steps, NEW c \in Copies,
           pc' = [pc EXCEPT ![r] = step],
           copy' = [copy EXCEPT ![r] = c],
           step \in StartSteps => pc[r] \in StartSteps \/ (Starting = {} /\ state \in NotBegun),
           step \in Late => c.state \notin NotBegun /\ Starting \subseteq {r},
           c.state \notin NotBegun => state \notin NotBegun,
           PastHr(c.index) => PastHr(index),
           step \in {"hand", "rejoin"} => PastHr(c.index),
           step \in StartSteps => \A s \in Requests : pc[s] \notin Late
    PROVE  SafeInv'
<1> USE DEF TypeInv, HandlersOK, RowOK
<1>1. Starting' \subseteq Starting \cup {r}
  BY DEF Starting, StartSteps
<1>2. \A s \in Requests : s # r => pc'[s] = pc[s] /\ copy'[s] = copy[s]
  OBVIOUS
<1>3. pc'[r] = step /\ copy'[r] = c
  OBVIOUS
<1>4. r \in Starting' => step \in StartSteps
  BY <1>3 DEF Starting, StartSteps
<1>5. step \in StartSteps => Starting \subseteq {r}
  BY DEF SafeInv, OneStarter, Starting, StartSteps
<1>6. OneStarter'
  BY <1>1, <1>2, <1>4, <1>5 DEF OneStarter, SafeInv, Starting
<1>7. StartIsAlone'
  <2> SUFFICES ASSUME Starting' # {}
               PROVE  /\ state \in NotBegun \cup {"abandoned"} /\ index <= 1
                      /\ \A s \in Requests : pc'[s] \notin Late
    BY DEF StartIsAlone, NotBegun, Late, EarlySteps
  <2>1. CASE step \in StartSteps
    <3>1. step \notin Late BY <2>1 DEF StartSteps, Late, EarlySteps
    <3>2. \A s \in Requests : pc'[s] \notin Late BY <1>2, <1>3, <2>1, <3>1
    <3>3. state \in NotBegun \cup {"abandoned"} /\ index <= 1
      <4>1. CASE pc[r] \in StartSteps
        BY <4>1 DEF SafeInv, StartIsAlone, Starting, StartSteps
      <4>2. CASE state \in NotBegun
        BY <4>2 DEF SafeInv, NotBegunAtStart
      <4> QED BY <2>1, <4>1, <4>2
    <3> QED BY <3>2, <3>3
  <2>2. CASE step \notin StartSteps
    <3>1. PICK s \in Starting : s # r
      BY <1>1, <1>4, <2>2 DEF Starting
    <3>2. step \notin Late BY <3>1
    <3> QED BY <1>2, <1>3, <3>1, <3>2 DEF SafeInv, StartIsAlone
  <2> QED BY <2>1, <2>2
<1>8. NotBegunAtStart' BY DEF SafeInv, NotBegunAtStart, NotBegun
<1>9. LateHasBegun' BY <1>2, <1>3 DEF SafeInv, LateHasBegun, Late, EarlySteps, NotBegun
<1>10. BegunForGood' BY <1>2, <1>3 DEF SafeInv, BegunForGood, NotBegun
<1>11. PastHrForGood' BY <1>2, <1>3 DEF SafeInv, PastHrForGood, PastHr
<1>12. JumpsPastHr' BY <1>2, <1>3 DEF SafeInv, JumpsPastHr, PastHr
<1>13. TechRoundPastHr' BY DEF SafeInv, TechRoundPastHr
<1> QED BY <1>6, <1>7, <1>8, <1>9, <1>10, <1>11, <1>12, <1>13 DEF SafeInv

(* A handler that returns.                                                 *)
LEMMA FinishSafe ==
    ASSUME TypeInv, SafeInv, TypeInv', NEW r \in Requests,
           UNCHANGED <<state, index>>, Finish(r)
    PROVE  SafeInv'
<1>1. "idle" \in Steps /\ Blank \in Copies
  BY ShapeAssumption DEF Steps, Blank, Copies, InterviewStates, ShapeAssumption
<1>2. ~PastHr(Blank.index) /\ Blank.state \in NotBegun
  BY ShapeAssumption DEF Blank, PastHr, NotBegun, ShapeAssumption
<1> QED BY <1>1, <1>2, OwnStepSafe DEF Finish, StartSteps, Late, EarlySteps

(* A handler past the start that goes on.                                  *)
LEMMA GotoSafe ==
    ASSUME TypeInv, SafeInv, TypeInv', NEW r \in Requests, NEW p,
           NEW step \in Late, pc[r] \in Late,
           step \in {"hand", "rejoin"} => PastHr(copy[r].index),
           UNCHANGED <<state, index>>, Goto(r, step, p)
    PROVE  SafeInv'
<1>1. step \in Steps /\ copy[r] \in Copies BY DEF Late, TypeInv, HandlersOK
<1>2. copy' = [copy EXCEPT ![r] = copy[r]] BY DEF Goto, TypeInv, HandlersOK
<1>3. copy[r].state \notin NotBegun BY DEF SafeInv, LateHasBegun
<1>4. Starting = {} BY DEF SafeInv, StartIsAlone
<1>5. state \notin NotBegun BY <1>3 DEF SafeInv, BegunForGood
<1>6. PastHr(copy[r].index) => PastHr(index) BY DEF SafeInv, PastHrForGood
<1>7. step \notin StartSteps BY DEF StartSteps, Late, EarlySteps
<1> QED BY <1>1, <1>2, <1>3, <1>4, <1>5, <1>6, <1>7, OwnStepSafe DEF Goto

LEMMA ContinueSafe ==
    ASSUME TypeInv, SafeInv, TypeInv', NEW r \in Requests,
           NEW step \in Late \cup {"idle"}, pc[r] \in Late,
           step \in {"hand", "rejoin"} => PastHr(copy[r].index),
           UNCHANGED <<state, index>>, Continue(r, step)
    PROVE  SafeInv'
BY FinishSafe, GotoSafe DEF Continue

(* A request that arrives: a start only where an interview has not begun,  *)
(* anything else only where it has.                                        *)
LEMMA EnterSafe ==
    ASSUME TypeInv, SafeInv, TypeInv', NEW r \in Requests, NEW p,
           NEW step \in Steps \ {"hand", "rejoin"},
           step \in StartSteps => Starting = {} /\ state \in NotBegun,
           step \in Late => state \notin NotBegun \cup {"abandoned"},
           Enter(r, step, p)
    PROVE  SafeInv'
<1> DEFINE c == [state |-> state, index |-> index]
<1>1. c \in Copies BY DEF Copies, TypeInv, RowOK
<1>2. UNCHANGED <<state, index>> BY DEF Enter, row
<1>3. pc' = [pc EXCEPT ![r] = step] /\ copy' = [copy EXCEPT ![r] = c] BY DEF Enter
<1>4. c.state = state /\ c.index = index OBVIOUS
<1>5. step \in Late => Starting = {} BY DEF SafeInv, StartIsAlone
<1>6. step \in StartSteps => \A s \in Requests : pc[s] \notin Late
  BY DEF SafeInv, LateHasBegun, BegunForGood
<1> HIDE DEF c
<1> QED BY <1>1, <1>2, <1>3, <1>4, <1>5, <1>6, OwnStepSafe

(* `generateRound`: its callers are past the start.                        *)
LEMMA GenerateRoundSafe ==
    ASSUME TypeInv, SafeInv, TypeInv', NEW r \in Requests, pc[r] \in Late,
           NEW round, NEW done \in Late \cup {"idle"}, NEW failed \in {"idle", "move"},
           done \in {"hand", "rejoin"} => PastHr(copy[r].index),
           GenerateRound(r, round, done, failed)
    PROVE  SafeInv'
<1>1. UNCHANGED <<state, index>> BY DEF GenerateRound, row
<1>2. "end" \in Late /\ "pause" \in Late /\ failed \in Late \cup {"idle"}
  BY DEF Late, Steps, EarlySteps
<1>3. ASSUME NEW p, Goto(r, "end", p) \/ Goto(r, "pause", p) PROVE SafeInv'
  BY <1>1, <1>2, <1>3, GotoSafe
<1>4. CASE Continue(r, done) \/ Continue(r, failed)
  BY <1>1, <1>2, <1>4, ContinueSafe
<1> QED BY <1>3, <1>4 DEF GenerateRound
-----------------------------------------------------------------------------
(* Writes of the state and of the index.                                   *)

(* A write of `interviews.state` by a handler past the start.  It cannot   *)
(* bring a begun interview back, and enters `tech_round` only from an      *)
(* index past the HR block.                                                *)
LEMMA LateWriteSafe ==
    ASSUME TypeInv, SafeInv, TypeInv', NEW r \in Requests, pc[r] \in Late,
           NEW to \in Targets \ {"profiling"}, NEW step \in (Late \cup {"idle"}) \ {"hand", "rejoin"},
           to = "tech_round" => PastHr(copy[r].index),
           state' = to, UNCHANGED index,
           pc' = [pc EXCEPT ![r] = step],
           NEW c \in Copies, copy' = [copy EXCEPT ![r] = c],
           step \in Late => c.state \notin NotBegun,
           PastHr(c.index) => PastHr(index)
    PROVE  SafeInv'
<1> USE DEF TypeInv, HandlersOK, RowOK
<1>1. Starting = {} BY DEF SafeInv, StartIsAlone
<1>2. step \notin StartSteps BY DEF StartSteps, Late, EarlySteps
<1>3. Starting' = {} BY <1>1, <1>2 DEF Starting, StartSteps
<1>4. state' \notin NotBegun BY DEF Targets, NotBegun
<1>5. \A s \in Requests : s # r => pc'[s] = pc[s] /\ copy'[s] = copy[s]
  OBVIOUS
<1>6. pc'[r] = step /\ copy'[r] = c
  OBVIOUS
<1>7. StartIsAlone' /\ OneStarter' BY <1>3 DEF StartIsAlone, OneStarter
<1>8. NotBegunAtStart' BY <1>4 DEF NotBegunAtStart, NotBegun
<1>9. LateHasBegun' BY <1>5, <1>6 DEF SafeInv, LateHasBegun, Late, EarlySteps, NotBegun
<1>10. BegunForGood' BY <1>4 DEF BegunForGood, NotBegun
<1>11. PastHrForGood' BY <1>5, <1>6 DEF SafeInv, PastHrForGood, PastHr
<1>12. JumpsPastHr' BY <1>5, <1>6 DEF SafeInv, JumpsPastHr, PastHr
<1>13. TechRoundPastHr' BY DEF SafeInv, PastHrForGood, TechRoundPastHr, PastHr
<1> QED BY <1>7, <1>8, <1>9, <1>10, <1>11, <1>12, <1>13 DEF SafeInv

(* `applyTransition` called past the start, won or lost.                   *)
LEMMA LateTransitionSafe ==
    ASSUME TypeInv, SafeInv, TypeInv', NEW r \in Requests, pc[r] \in Late,
           NEW to \in Targets \ {"profiling"}, NEW why,
           NEW won \in (Late \cup {"idle"}) \ {"hand", "rejoin"},
           NEW lost \in (Late \cup {"idle"}) \ {"hand", "rejoin"},
           to = "tech_round" => PastHr(copy[r].index),
           ApplyTransition(r, to, why, won, lost)
    PROVE  SafeInv'
<1> DEFINE next == AfterWrite(to, won)
<1>1. next \in (Late \cup {"idle"}) \ {"hand", "rejoin"}
  BY DEF AfterWrite, Late, Steps, EarlySteps
<1>2. PastHr(copy[r].index) => PastHr(index) BY DEF SafeInv, PastHrForGood
<1>3. CASE WriteState(to, why) /\ next = "idle" /\ Finish(r)
  <2>1. Blank \in Copies
    BY ShapeAssumption DEF Blank, Copies, InterviewStates, ShapeAssumption
  <2>2. ~PastHr(Blank.index)
    BY ShapeAssumption DEF Blank, PastHr, ShapeAssumption
  <2>3. "idle" \in (Late \cup {"idle"}) \ {"hand", "rejoin"} /\ "idle" \notin Late
    BY DEF Late, EarlySteps
  <2> QED BY <1>3, <2>1, <2>2, <2>3, LateWriteSafe DEF Finish, WriteState
<1>4. CASE /\ WriteState(to, why)
           /\ pc' = [pc EXCEPT ![r] = next]
           /\ copy' = [copy EXCEPT ![r].state = to]
  <2> DEFINE c == [copy[r] EXCEPT !.state = to]
  <2>1. copy[r] \in Copies BY DEF TypeInv, HandlersOK
  <2>2. c \in Copies /\ c.state = to /\ c.index = copy[r].index
    BY <2>1 DEF Copies, Targets, InterviewStates
  <2>3. copy' = [copy EXCEPT ![r] = c] BY <1>4
  <2>4. to \notin NotBegun BY DEF Targets, NotBegun
  <2> HIDE DEF c, next
  <2> QED BY <1>1, <1>2, <1>4, <2>2, <2>3, <2>4, LateWriteSafe DEF WriteState
<1>5. CASE Continue(r, lost) /\ UNCHANGED row
  BY <1>5, ContinueSafe DEF row
<1> HIDE DEF next
<1> QED BY <1>3, <1>4, <1>5 DEF ApplyTransition, next

(* `applyTransition` called by a handler that has not started the          *)
(* interview, won or lost.                                                 *)
LEMMA EarlyWriteSafe ==
    ASSUME TypeInv, SafeInv, TypeInv', NEW r \in Requests,
           NEW to \in {"profiling", "hr_round", "abandoned"}, NEW why,
           NEW won \in {"idle", "seed", "generate"},
           ApplyTransition(r, to, why, won, "idle"),
           \/ pc[r] \in {"setup", "quit"} /\ to # "hr_round" /\ won = "idle"
           \/ pc[r] = "claim" /\ to = "profiling" /\ won = "seed"
           \/ pc[r] = "start" /\ to = "hr_round" /\ won = "generate"
    PROVE  SafeInv'
<1> USE DEF TypeInv, HandlersOK, RowOK
<1>1. \/ pc[r] \in {"setup", "quit"} /\ to # "hr_round" /\ won = "idle"
      \/ pc[r] = "claim" /\ to = "profiling" /\ won = "seed"
      \/ pc[r] = "start" /\ to = "hr_round" /\ won = "generate"
  OBVIOUS
<1>2. CASE Continue(r, "idle") /\ UNCHANGED row
  BY <1>2, FinishSafe DEF Continue, row
<1>3. CASE /\ TransitionAllowed(r, to) /\ WriteState(to, why)
           /\ \/ won = "idle" /\ Finish(r)
              \/ /\ won # "idle"
                 /\ pc' = [pc EXCEPT ![r] = won]
                 /\ copy' = [copy EXCEPT ![r].state = to]
  <2>1. state' = to /\ UNCHANGED index BY <1>3 DEF WriteState
  <2>2. \A s \in Requests : s # r => pc'[s] = pc[s] /\ copy'[s] = copy[s]
    BY <1>3 DEF Finish
  <2>3. pc'[r] = won /\ (copy'[r] = Blank \/ copy'[r] = [copy[r] EXCEPT !.state = to])
    BY <1>3 DEF Finish
  <2>4. ~PastHr(Blank.index) /\ Blank.state \in NotBegun
    BY ShapeAssumption DEF Blank, PastHr, NotBegun, ShapeAssumption
  <2>5. copy[r] \in Copies OBVIOUS
  <2>6. PastHr(copy'[r].index) => PastHr(index)
    BY <2>3, <2>4, <2>5 DEF Copies, SafeInv, PastHrForGood
  <2>7. copy'[r].state \in NotBegun \/ copy'[r].state = to
    BY <2>3, <2>4, <2>5 DEF Copies
  <2>8. to = "profiling" => state = "created"
    BY <1>3 DEF TransitionAllowed, CanTransition, TRANSITIONS, InterviewStates
  <2>9. PastHrForGood' BY <2>1, <2>2, <2>6 DEF SafeInv, PastHrForGood, PastHr
  <2>10. JumpsPastHr' BY <1>1, <2>1, <2>2, <2>3 DEF SafeInv, JumpsPastHr, PastHr
  <2>11. TechRoundPastHr' BY <2>1 DEF TechRoundPastHr
  <2>12. NotBegunAtStart' BY <2>1, <2>8 DEF SafeInv, NotBegunAtStart, NotBegun
  <2>13. BegunForGood'
    <3>1. to = "profiling" => \A s \in Requests : copy'[s].state \in NotBegun
      BY <2>2, <2>7, <2>8 DEF SafeInv, BegunForGood, NotBegun
    <3> QED BY <2>1, <3>1 DEF BegunForGood, NotBegun
  <2>14. LateHasBegun'
    <3>1. won = "generate" => copy'[r].state = "hr_round"
      BY <1>1, <1>3, <2>5 DEF Copies
    <3> QED BY <1>1, <2>2, <2>3, <3>1 DEF SafeInv, LateHasBegun, Late, EarlySteps, NotBegun
  <2>15. OneStarter'
    <3>1. Starting' \subseteq Starting
      BY <1>1, <2>2, <2>3 DEF Starting
    <3> QED BY <3>1 DEF SafeInv, OneStarter
  <2>16. StartIsAlone'
    <3> SUFFICES ASSUME Starting' # {}
                 PROVE  /\ to \in NotBegun \cup {"abandoned"} /\ index <= 1
                        /\ \A s \in Requests : pc'[s] \notin Late
      BY <2>1 DEF StartIsAlone, NotBegun, Late, EarlySteps
    <3>1. Starting' \subseteq Starting /\ (won = "generate" => r \in Starting \ Starting')
      BY <1>1, <2>2, <2>3 DEF Starting
    <3>2. won # "generate"
      BY <3>1 DEF SafeInv, OneStarter
    <3>3. pc'[r] \notin Late BY <1>1, <2>3, <3>2 DEF Late, EarlySteps
    <3> QED BY <1>1, <2>2, <3>1, <3>2, <3>3 DEF SafeInv, StartIsAlone, NotBegun
  <2> QED BY <2>9, <2>10, <2>11, <2>12, <2>13, <2>14, <2>15, <2>16 DEF SafeInv
<1>4. AfterWrite(to, won) = won BY <1>1 DEF AfterWrite
<1>5. \/ Continue(r, "idle") /\ UNCHANGED row
      \/ /\ TransitionAllowed(r, to) /\ WriteState(to, why)
         /\ \/ won = "idle" /\ Finish(r)
            \/ /\ won # "idle"
               /\ pc' = [pc EXCEPT ![r] = won]
               /\ copy' = [copy EXCEPT ![r].state = to]
  BY <1>1, <1>4, Zenon DEF ApplyTransition
<1> QED BY <1>2, <1>3, <1>5

(* The four writes of the state by handlers that have not started the      *)
(* interview: two open it for profiling, one starts it, one abandons it.   *)
LEMMA EarlyTransitionSafe ==
    ASSUME TypeInv, SafeInv, TypeInv', NEW r \in Requests,
           OpenProfiling(r) \/ ClaimProfiling(r) \/ StartHrRound(r) \/ Abandon(r)
    PROVE  SafeInv'
<1>1. CASE OpenProfiling(r)
  BY <1>1, EarlyWriteSafe DEF OpenProfiling
<1>2. CASE ClaimProfiling(r)
  BY <1>2, EarlyWriteSafe DEF ClaimProfiling
<1>3. CASE StartHrRound(r)
  BY <1>3, EarlyWriteSafe DEF StartHrRound
<1>4. CASE Abandon(r)
  BY <1>4, EarlyWriteSafe DEF Abandon
<1> QED BY <1>1, <1>2, <1>3, <1>4

(* `startHrRound` seeds the index: only the one starter does, and nobody   *)
(* has moved the index past the first question yet.                        *)
LEMMA SeedIndexSafe ==
    ASSUME TypeInv, SafeInv, TypeInv', NEW r \in Requests, SeedIndex(r)
    PROVE  SafeInv'
<1> USE DEF TypeInv, HandlersOK, RowOK
<1>1. r \in Starting BY DEF SeedIndex, Starting
<1>2. state \in NotBegun \cup {"abandoned"} /\ index <= 1 /\ \A s \in Requests : pc[s] \notin Late
  BY <1>1 DEF SafeInv, StartIsAlone
<1>3. \A s \in Requests : ~PastHr(copy[s].index)
  BY <1>2, ShapeAssumption DEF SafeInv, PastHrForGood, PastHr, ShapeAssumption
<1>4. \A s \in Requests : s # r => pc'[s] = pc[s] /\ copy'[s] = copy[s]
  BY DEF SeedIndex
<1>5. pc'[r] = "start" /\ copy'[r].index = 1 /\ copy'[r].state = state /\ index' = 1 /\ state' = state
  BY DEF SeedIndex
<1>6. ~PastHr(1) BY ShapeAssumption DEF PastHr, ShapeAssumption
<1>7. Starting' = Starting
  BY <1>1, <1>4, <1>5 DEF Starting
<1>8. PastHrForGood'
  BY <1>3, <1>4, <1>5, <1>6 DEF PastHrForGood, PastHr
<1>9. JumpsPastHr' BY <1>4, <1>5 DEF SafeInv, JumpsPastHr, PastHr
<1>10. TechRoundPastHr' BY <1>2, <1>5 DEF TechRoundPastHr, NotBegun
<1>11. NotBegunAtStart' BY <1>5 DEF NotBegunAtStart
<1>12. BegunForGood' BY <1>4, <1>5 DEF SafeInv, BegunForGood, NotBegun
<1>13. LateHasBegun' BY <1>4, <1>5 DEF SafeInv, LateHasBegun, Late, EarlySteps, NotBegun
<1>14. OneStarter' BY <1>7 DEF SafeInv, OneStarter
<1>15. StartIsAlone'
  BY <1>2, <1>4, <1>5 DEF StartIsAlone, Late, EarlySteps, NotBegun
<1> QED BY <1>8, <1>9, <1>10, <1>11, <1>12, <1>13, <1>14, <1>15 DEF SafeInv

(* `recordAnswer` moves the index one on or to the first technical         *)
(* question, never back into the HR block.                                 *)
LEMMA RecordAnswerSafe ==
    ASSUME TypeInv, SafeInv, TypeInv', NEW r \in Requests, RecordAnswer(r)
    PROVE  SafeInv'
<1> USE DEF TypeInv, HandlersOK, RowOK
<1>1. pc[r] \in Late BY DEF RecordAnswer, Late, Steps, EarlySteps
<1>2. CASE ~IndexUnmoved(r)
  <2>1. Finish(r) /\ UNCHANGED <<state, index>> BY <1>2 DEF RecordAnswer, row
  <2> QED BY <2>1, FinishSafe
<1>3. CASE IndexUnmoved(r)
  <2> DEFINE to == IndexAfter(r)
  <2>1. index' = to /\ state' = state BY <1>3 DEF RecordAnswer
  <2>2. copy' = [copy EXCEPT ![r].index = to] BY <1>3 DEF RecordAnswer
  <2>3. PICK next \in {"hand", "batch", "move"} :
            pc' = [pc EXCEPT ![r] = next] /\ (next = "hand" => plan[r].act = "handover")
    BY <1>3 DEF RecordAnswer
  <2>4. copy[r] \in Copies /\ copy[r].index = index BY <1>3 DEF IndexUnmoved
  <2>5. PastHr(index) => PastHr(to)
    BY <2>4, ShapeAssumption DEF IndexAfter, PastHr, ShapeAssumption
  <2>6. plan[r].act = "handover" => PastHr(to)
    BY ShapeAssumption DEF IndexAfter, PastHr, ShapeAssumption
  <2> HIDE DEF to
  <2>7. \A s \in Requests : s # r => pc'[s] = pc[s] /\ copy'[s] = copy[s]
    BY <2>2, <2>3
  <2>8. pc'[r] = next /\ copy'[r].index = to /\ copy'[r].state = copy[r].state
    BY <2>2, <2>3, <2>4 DEF Copies
  <2>9. state \notin NotBegun /\ copy[r].state \notin NotBegun
    BY <1>1 DEF SafeInv, LateHasBegun, BegunForGood
  <2>10. Starting' = {}
    <3>1. Starting = {} BY <1>1 DEF SafeInv, StartIsAlone
    <3> QED BY <3>1, <2>7, <2>8 DEF Starting
  <2>11. StartIsAlone' /\ OneStarter' BY <2>10 DEF StartIsAlone, OneStarter
  <2>12. NotBegunAtStart' BY <2>1, <2>9 DEF NotBegunAtStart, NotBegun
  <2>13. LateHasBegun' BY <2>7, <2>8, <2>9 DEF SafeInv, LateHasBegun, Late, EarlySteps, NotBegun
  <2>14. BegunForGood' BY <2>1, <2>9 DEF BegunForGood, NotBegun
  <2>15. PastHrForGood'
    <3>1. \A s \in Requests : s # r => (PastHr(copy[s].index) => PastHr(to))
      BY <2>5 DEF SafeInv, PastHrForGood
    <3> QED BY <2>1, <2>7, <2>8, <3>1 DEF PastHrForGood, PastHr
  <2>16. JumpsPastHr' BY <2>3, <2>6, <2>7, <2>8 DEF SafeInv, JumpsPastHr, PastHr
  <2>17. TechRoundPastHr' BY <2>1, <2>5 DEF SafeInv, TechRoundPastHr, PastHr
  <2> QED BY <2>11, <2>12, <2>13, <2>14, <2>15, <2>16, <2>17 DEF SafeInv
<1> QED BY <1>2, <1>3
-----------------------------------------------------------------------------
(* Every way in.                                                           *)
LEMMA ArriveSafe ==
    ASSUME "starts" \notin Overlaps, TypeInv, SafeInv, TypeInv', NEW r \in Requests, Arrive(r)
    PROVE  SafeInv'
<1> USE DEF StartSteps, Late, EarlySteps, Steps, NotBegun
<1>1. CASE SubmitProfile(r)
  <2>1. Starting = {} /\ state \in NotBegun BY <1>1 DEF SubmitProfile, MayStart
  <2>2. Enter(r, "seed", OpeningPlan) BY <1>1 DEF SubmitProfile
  <2> QED BY <2>1, <2>2, EnterSafe
<1>2. CASE ResumeBeforeStart(r)
  <2>1. Starting = {} /\ state \in NotBegun BY <1>2 DEF ResumeBeforeStart, MayStart, Startable
  <2>2. Enter(r, "claim", OpeningPlan) \/ Enter(r, "seed", OpeningPlan)
    BY <1>2 DEF ResumeBeforeStart
  <2> QED BY <2>1, <2>2, EnterSafe
<1>3. ASSUME state \in RoundStates \cup {"paused"},
             NEW step \in {"record", "load", "end", "quit", "regenerate", "unpause"}, NEW p,
             Enter(r, step, p)
      PROVE  SafeInv'
  BY <1>3, EnterSafe DEF RoundStates
<1>4. CASE SubmitAnswer(r) BY <1>3, <1>4 DEF SubmitAnswer
<1>5. ASSUME NEW input, SubmitTurn(r, input) PROVE SafeInv'
  BY <1>3, <1>5 DEF SubmitTurn
<1>6. CASE SpeechCeiling(r) BY <1>3, <1>6 DEF SpeechCeiling
<1>7. CASE ResumeStranded(r) BY <1>3, <1>7 DEF ResumeStranded, Stranded
<1>8. CASE ResumePaused(r) BY <1>3, <1>8 DEF ResumePaused
<1>9. ASSUME NEW p, Enter(r, "quit", p) PROVE SafeInv'
  BY <1>9, EnterSafe
<1>10. CASE AbandonInterview(r)
  <2>1. PICK p : \/ Enter(r, "quit", p)
                 \/ state \in RoundStates /\ Enter(r, "end", p)
    BY <1>10, Zenon DEF AbandonInterview
  <2> QED BY <1>3, <1>9, <2>1
<1>11. CASE SweepAbandoned(r) BY <1>9, <1>11 DEF SweepAbandoned
<1> QED BY <1>1, <1>2, <1>4, <1>5, <1>6, <1>7, <1>8, <1>10, <1>11 DEF Arrive

(* A handler's own steps that write neither the state nor the index.       *)
LEMMA ConductSafe ==
    ASSUME TypeInv, SafeInv, TypeInv', NEW r \in Requests,
           \/ LoadConversation(r) \/ Speak(r) \/ AskConductor(r) \/ Say(r) \/ AskNext(r)
           \/ RecordClosing(r) \/ Enqueue(r) \/ Crash(r)
    PROVE  SafeInv'
<1> USE DEF Late, EarlySteps, Steps
<1>1. UNCHANGED <<state, index>>
  BY DEF LoadConversation, Speak, AskConductor, Say, AskNext, RecordClosing, Enqueue, Crash, row
<1>2. CASE Finish(r) BY <1>1, <1>2, FinishSafe
<1>3. CASE LoadConversation(r)
  <2>1. PICK p : Finish(r) \/ Goto(r, "ask", p) \/ Goto(r, "speak", p)
    BY <1>3, Zenon DEF LoadConversation
  <2>2. pc[r] = "load" BY <1>3 DEF LoadConversation
  <2> QED BY <1>1, <1>2, <2>1, <2>2, GotoSafe
<1>4. CASE Speak(r)
  <2>1. PICK p : Goto(r, "ask", p) BY <1>4, Zenon DEF Speak
  <2>2. pc[r] = "speak" BY <1>4 DEF Speak
  <2> QED BY <1>1, <2>1, <2>2, GotoSafe
<1>5. CASE AskConductor(r)
  <2>1. pc[r] = "ask" BY <1>5 DEF AskConductor
  <2>2. ASSUME NEW step \in {"say", "record", "closing"}, NEW p, Goto(r, step, p) PROVE SafeInv'
    BY <1>1, <2>1, <2>2, GotoSafe
  <2>3. ASSUME NEW why, EndWith(r, why) PROVE SafeInv'
    BY <2>2, <2>3 DEF EndWith
  <2>4. ASSUME NEW act, RecordAs(r, act) PROVE SafeInv'
    BY <2>2, <2>4 DEF RecordAs
  <2>5. ASSUME NEW action, Perform(r, action) PROVE SafeInv'
    BY <2>2, <2>3, <2>4, <2>5 DEF Perform
  <2> QED BY <1>5, <2>2, <2>3, <2>5 DEF AskConductor
<1>6. CASE RecordClosing(r)
  <2>1. pc[r] = "closing" BY <1>6 DEF RecordClosing
  <2>2. Goto(r, "end", plan[r]) \/ Finish(r) BY <1>6 DEF RecordClosing
  <2> QED BY <1>1, <1>2, <2>1, <2>2, GotoSafe
<1>7. CASE Say(r) \/ AskNext(r) \/ Enqueue(r) \/ Crash(r)
  BY <1>2, <1>7 DEF Say, AskNext, Enqueue, Crash
<1> QED BY <1>3, <1>4, <1>5, <1>6, <1>7

(* A handler's own steps that generate, or write the state.                *)
LEMMA LateStepSafe ==
    ASSUME TypeInv, SafeInv, TypeInv', NEW r \in Requests,
           \/ GenerateHrBatch(r) \/ EnsureTechBatch(r) \/ RegenerateRound(r) \/ RefillRound(r)
           \/ MoveRound(r) \/ HandOver(r) \/ EndInterview(r) \/ Pause(r)
           \/ Unpause(r) \/ RejoinTechRound(r)
    PROVE  SafeInv'
<1> USE DEF Late, EarlySteps, Steps
<1>1. CASE GenerateHrBatch(r) \/ EnsureTechBatch(r) \/ RegenerateRound(r)
  BY <1>1, GenerateRoundSafe DEF GenerateHrBatch, EnsureTechBatch, RegenerateRound
<1>2. CASE RefillRound(r)
  <2>1. pc[r] \in Late BY <1>2 DEF RefillRound
  <2>2. CASE WaitsOnTech(r) /\ GenerateRound(r, "tech", "rejoin", "idle")
    BY <2>1, <2>2, GenerateRoundSafe DEF WaitsOnTech
  <2>3. CASE GenerateRound(r, "hr", "idle", "idle")
    BY <2>1, <2>3, GenerateRoundSafe
  <2> QED BY <1>2, <2>2, <2>3 DEF RefillRound
<1>3. CASE MoveRound(r)
  <2>1. pc[r] \in Late BY <1>3 DEF MoveRound
  <2>2. AfterMove(r) \in {"idle", "greet"} BY DEF AfterMove
  <2>3. CASE ApplyTransition(r, "evaluating", NoReason, "idle", "idle")
    BY <2>1, <2>3, LateTransitionSafe DEF Targets
  <2>4. CASE PastHr(copy[r].index)
             /\ ApplyTransition(r, "tech_round", NoReason, AfterMove(r), "idle")
    BY <2>1, <2>2, <2>4, LateTransitionSafe DEF Targets
  <2>5. CASE Continue(r, AfterMove(r)) /\ UNCHANGED row
    BY <2>1, <2>2, <2>5, ContinueSafe DEF row
  <2> QED BY <1>3, <2>3, <2>4, <2>5 DEF MoveRound
<1>4. CASE HandOver(r)
  <2>1. pc[r] = "hand" BY <1>4 DEF HandOver
  <2>2. PastHr(copy[r].index) /\ copy[r] \in Copies
    BY <2>1 DEF SafeInv, JumpsPastHr, TypeInv, HandlersOK
  <2>3. PastHr(index) BY <2>2 DEF SafeInv, PastHrForGood
  <2>4. CASE Finish(r) /\ UNCHANGED row
    BY <2>4, FinishSafe DEF row
  <2>5. CASE /\ WriteState("tech_round", NoReason)
             /\ pc' = [pc EXCEPT ![r] = "load"]
             /\ copy' = [copy EXCEPT ![r].state = "tech_round"]
    <3> DEFINE c == [copy[r] EXCEPT !.state = "tech_round"]
    <3>1. c \in Copies /\ c.state = "tech_round" /\ c.index = copy[r].index
      BY <2>2 DEF Copies, InterviewStates
    <3>2. copy' = [copy EXCEPT ![r] = c] BY <2>5
    <3>3. state' = "tech_round" /\ UNCHANGED index BY <2>5 DEF WriteState
    <3>4. "tech_round" \notin NotBegun /\ "tech_round" \in Targets \ {"profiling"}
      BY DEF NotBegun, Targets
    <3>5. pc[r] \in Late /\ "load" \in (Late \cup {"idle"}) \ {"hand", "rejoin"}
      BY <2>1
    <3>6. c.state \notin NotBegun /\ (PastHr(c.index) => PastHr(index))
      BY <2>3, <3>1, <3>4
    <3>7. pc' = [pc EXCEPT ![r] = "load"] BY <2>5
    <3> HIDE DEF c, Late, EarlySteps, Steps
    <3> QED
      BY <2>2, <3>1, <3>2, <3>3, <3>4, <3>5, <3>6, <3>7, LateWriteSafe
  <2> QED BY <1>4, <2>4, <2>5 DEF HandOver
<1>5. CASE EndInterview(r) \/ Unpause(r)
  BY <1>5, LateTransitionSafe DEF EndInterview, Unpause, Targets
<1>6. CASE Pause(r)
  <2>1. plan[r].after \in {"idle", "move"} BY DEF TypeInv, HandlersOK, Plans
  <2> QED BY <1>6, <2>1, LateTransitionSafe DEF Pause, Targets
<1>7. CASE RejoinTechRound(r)
  <2>1. PastHr(copy[r].index) BY <1>7 DEF RejoinTechRound, SafeInv, JumpsPastHr
  <2> QED BY <1>7, <2>1, LateTransitionSafe DEF RejoinTechRound, Targets
<1> QED BY <1>1, <1>2, <1>3, <1>4, <1>5, <1>6, <1>7

LEMMA InitSafe == Init => SafeInv
<1> SUFFICES ASSUME Init PROVE SafeInv OBVIOUS
<1>1. Starting = {} BY DEF Init, Starting
<1>2. StartIsAlone /\ OneStarter BY <1>1 DEF StartIsAlone, OneStarter
<1>3. NotBegunAtStart /\ TechRoundPastHr BY DEF Init, NotBegunAtStart, TechRoundPastHr
<1>4. LateHasBegun BY DEF Init, LateHasBegun, Late, EarlySteps
<1>5. BegunForGood BY DEF Init, BegunForGood, Blank, NotBegun
<1>6. PastHrForGood /\ JumpsPastHr
  BY ShapeAssumption DEF Init, PastHrForGood, JumpsPastHr, Blank, PastHr, ShapeAssumption
<1> QED BY <1>2, <1>3, <1>4, <1>5, <1>6 DEF SafeInv

LEMMA NextSafe ==
    ASSUME "starts" \notin Overlaps, TypeInv, SafeInv, TypeInv', [Next]_vars
    PROVE  SafeInv'
<1>1. ASSUME NEW r \in Requests, Arrive(r) PROVE SafeInv'
  BY <1>1, ArriveSafe
<1>2. ASSUME NEW r \in Requests, CheckListing(r) PROVE SafeInv'
  <2>1. UNCHANGED <<state, index>> BY <1>2 DEF CheckListing, row
  <2>2. CASE Finish(r) BY <2>1, <2>2, FinishSafe
  <2>3. CASE Goto(r, "setup", NoPlan)
    <3>1. "setup" \in Steps /\ copy[r] \in Copies /\ copy' = [copy EXCEPT ![r] = copy[r]]
      BY <2>3 DEF Goto, Steps, TypeInv, HandlersOK
    <3>2. copy[r].state \notin NotBegun => state \notin NotBegun BY DEF SafeInv, BegunForGood
    <3>3. PastHr(copy[r].index) => PastHr(index) BY DEF SafeInv, PastHrForGood
    <3> QED BY <2>1, <2>3, <3>1, <3>2, <3>3, OwnStepSafe DEF Goto, StartSteps, Late, EarlySteps
  <2> QED BY <1>2, <2>2, <2>3 DEF CheckListing
<1>3. ASSUME NEW r \in Requests, Proceed(r) PROVE SafeInv'
  BY <1>2, <1>3, EarlyTransitionSafe, SeedIndexSafe, RecordAnswerSafe, ConductSafe, LateStepSafe
     DEF Proceed
<1>4. ASSUME NEW r \in Requests, Crash(r) PROVE SafeInv'
  BY <1>4, ConductSafe
<1>5. CASE UNCHANGED <<state, index, pc, copy>>
  BY <1>5 DEF SafeInv, StartIsAlone, OneStarter, NotBegunAtStart, LateHasBegun, BegunForGood,
              PastHrForGood, JumpsPastHr, TechRoundPastHr, Starting, PastHr
<1>6. CASE DeleteInterview \/ ExhaustBudget \/ UNCHANGED vars
  BY <1>5, <1>6 DEF DeleteInterview, ExhaustBudget, vars, row, handlers
<1> QED BY <1>1, <1>3, <1>4, <1>6 DEF Next

(* Unless two handlers start the same interview at once, the technical     *)
(* round is never entered with the index inside the HR block, nor the      *)
(* index moved back into the block during it: for any shape of interview,  *)
(* any number of overlapping turns, answers and resumes, and every fault.  *)
THEOREM TechRoundIsPastHr ==
    ASSUME "starts" \notin Overlaps
    PROVE  Spec => []TechRoundPastHr
<1>1. SafeInv => TechRoundPastHr BY DEF SafeInv
<1>2. TypeInv /\ SafeInv /\ [Next]_vars => TypeInv' /\ SafeInv'
  BY NextTyped, NextSafe
<1> QED BY <1>1, <1>2, InitTyped, InitSafe, PTL DEF Spec
=============================================================================
