---------------------------- MODULE ReportProofs ----------------------------
(***************************************************************************)
(* Theorems about the report pipeline, for every number of workers, desks, *)
(* attempts, stalls and requeues, and every fault.                         *)
(***************************************************************************)
EXTENDS ReportProperties, TLAPS

(* A job is locked exactly while a run has it, and one that will be        *)
(* delivered has an attempt left.                                          *)
JobOK ==
    /\ job \in Jobs
    /\ job.owner # Nobody => job.status = "active"
    /\ job.status \in {"waiting", "active"} => job.made < Attempts

PcOK == pc \in [Actors -> {"idle"} \cup DeskSteps \cup WorkerSteps]

RowsOK ==
    /\ state \in RunStates /\ stamps \in Nat /\ gone \in BOOLEAN
    /\ report \in Statuses /\ written \in Nat /\ pdf \in BOOLEAN
    /\ requeues \in 0..MaxRequeues

TypeInv == RowsOK /\ JobOK /\ PcOK /\ copy \in [Actors -> Copies]
-----------------------------------------------------------------------------
LEMMA GoOnTyped ==
    ASSUME TypeInv, NEW a \in Actors,
           NEW step \in {"idle"} \cup DeskSteps \cup WorkerSteps, GoOn(a, step)
    PROVE  PcOK' /\ (copy \in [Actors -> Copies])'
BY DEF TypeInv, PcOK, GoOn, Blank, Copies, RunStates

LEMMA ReadTyped ==
    ASSUME TypeInv, NEW a \in Actors,
           NEW step \in DeskSteps \cup WorkerSteps, ReadInterview(a, step)
    PROVE  PcOK' /\ (copy \in [Actors -> Copies])'
<1>1. [state |-> state, ended |-> stamps > 0] \in Copies
  BY DEF TypeInv, RowsOK, Copies
<1> QED BY <1>1 DEF TypeInv, PcOK, ReadInterview

LEMMA TransitionTyped ==
    ASSUME TypeInv, NEW a \in Actors, NEW to \in RunStates,
           NEW won \in {"idle"} \cup DeskSteps \cup WorkerSteps,
           NEW lost \in {"idle"} \cup DeskSteps \cup WorkerSteps,
           ApplyTransition(a, to, won, lost)
    PROVE  /\ PcOK' /\ (copy \in [Actors -> Copies])'
           /\ state' \in RunStates /\ stamps' \in Nat /\ gone' \in BOOLEAN
<1>1. CASE WriteState(a, to) /\ GoOn(a, won)
  <2>1. state' \in RunStates /\ stamps' \in Nat /\ gone' \in BOOLEAN
    BY <1>1 DEF WriteState, TypeInv, RowsOK
  <2> QED BY <1>1, <2>1, GoOnTyped
<1>2. CASE GoOn(a, lost) /\ UNCHANGED interview
  <2>1. state' \in RunStates /\ stamps' \in Nat /\ gone' \in BOOLEAN
    BY <1>2 DEF interview, TypeInv, RowsOK
  <2> QED BY <1>2, <2>1, GoOnTyped
<1> QED BY <1>1, <1>2 DEF ApplyTransition

(* A failed attempt leaves a job with an attempt left, or none to deliver. *)
LEMMA FailTyped ==
    ASSUME TypeInv, NEW w \in Workers, FailAttempt(w)
    PROVE  JobOK' /\ PcOK' /\ (copy \in [Actors -> Copies])'
<1> w \in Actors BY DEF Actors
<1>1. JobOK'
  <2>1. CASE UNCHANGED job BY <2>1 DEF TypeInv, JobOK
  <2>2. CASE /\ Holds(w)
             /\ job' = [job EXCEPT !.made = @ + 1, !.owner = Nobody,
                             !.status = IF Retries(job.made + 1) THEN "waiting" ELSE "failed"]
    <3>1. job.made + 1 \in 0..Attempts
      BY <2>2, PipelineAssumption DEF TypeInv, JobOK, Holds, Jobs
    <3>2. job' \in Jobs BY <2>2, <3>1 DEF TypeInv, JobOK, Jobs
    <3> QED BY <2>2, <3>1, <3>2 DEF JobOK, Retries, Jobs, TypeInv
  <2> QED BY <2>1, <2>2 DEF FailAttempt
<1>2. GoOn(w, "deadLetter") \/ GoOn(w, "idle")
  BY DEF FailAttempt, Return
<1> QED BY <1>1, <1>2, GoOnTyped DEF WorkerSteps

(* Every step keeps the types.                                             *)
LEMMA TypeStep == TypeInv /\ [Next]_vars => TypeInv'
<1> SUFFICES ASSUME TypeInv, [Next]_vars PROVE TypeInv'
  OBVIOUS
<1> USE DEF DeskSteps, WorkerSteps
<1> \A d \in Desks : d \in Actors BY DEF Actors
<1> \A w \in Workers : w \in Actors BY DEF Actors
<1>1. ASSUME NEW d \in Desks, RequeueReport(d) PROVE TypeInv'
  <2>1. PcOK' /\ (copy \in [Actors -> Copies])' BY <1>1, ReadTyped DEF RequeueReport
  <2>2. JobOK' BY <1>1 DEF RequeueReport, TypeInv, JobOK
  <2>3. RowsOK' BY <1>1, PipelineAssumption DEF RequeueReport, TypeInv, RowsOK, interview, artifact
  <2> QED BY <2>1, <2>2, <2>3 DEF TypeInv
<1>2. ASSUME NEW d \in Desks, AtDesk(d) PROVE TypeInv'
  <2>1. CASE OpenReportRow(d)
    <3>1. PcOK' /\ (copy \in [Actors -> Copies])' BY <2>1, GoOnTyped DEF OpenReportRow
    <3>2. JobOK' BY <2>1 DEF OpenReportRow, TypeInv, JobOK
    <3>3. RowsOK' BY <2>1 DEF OpenReportRow, OpenRow, TypeInv, RowsOK, interview, Statuses
    <3> QED BY <3>1, <3>2, <3>3 DEF TypeInv
  <2>2. CASE AddJob(d)
    <3>1. PcOK' /\ (copy \in [Actors -> Copies])' BY <2>2, GoOnTyped DEF AddJob, Return
    <3>2. JobOK'
      BY <2>2, PipelineAssumption DEF AddJob, FreshJob, NoJob, TypeInv, JobOK, Jobs
    <3>3. RowsOK' BY <2>2 DEF AddJob, TypeInv, RowsOK, interview, artifact
    <3> QED BY <3>1, <3>2, <3>3 DEF TypeInv
  <2>3. CASE LoseRedis(d) \/ CheckReport(d) \/ CheckJob(d)
    <3>1. PcOK' /\ (copy \in [Actors -> Copies])'
      BY <2>3, GoOnTyped DEF LoseRedis, CheckReport, CheckJob, Return
    <3>2. JobOK' BY <2>3 DEF LoseRedis, CheckReport, CheckJob, TypeInv, JobOK
    <3>3. RowsOK'
      BY <2>3 DEF LoseRedis, CheckReport, CheckJob, TypeInv, RowsOK, interview, artifact
    <3> QED BY <3>1, <3>2, <3>3 DEF TypeInv
  <2>4. CASE ClaimEvaluating(d)
    <3>1. /\ PcOK' /\ (copy \in [Actors -> Copies])'
          /\ state' \in RunStates /\ stamps' \in Nat /\ gone' \in BOOLEAN
      BY <2>4, TransitionTyped DEF ClaimEvaluating, RunStates
    <3>2. JobOK' BY <2>4 DEF ClaimEvaluating, TypeInv, JobOK
    <3> QED BY <2>4, <3>1, <3>2 DEF ClaimEvaluating, TypeInv, RowsOK, artifact
  <2>5. CASE RemoveJob(d)
    <3>1. PcOK' /\ (copy \in [Actors -> Copies])' BY <2>5, GoOnTyped DEF RemoveJob
    <3>2. JobOK'
      BY <2>5, PipelineAssumption DEF RemoveJob, JobRemoved, NoJob, TypeInv, JobOK, Jobs
    <3>3. RowsOK' BY <2>5 DEF RemoveJob, TypeInv, RowsOK, interview, artifact
    <3> QED BY <3>1, <3>2, <3>3 DEF TypeInv
  <2> QED BY <1>2, <2>1, <2>2, <2>3, <2>4, <2>5 DEF AtDesk
<1>3. ASSUME NEW w \in Workers, TakeJob(w) PROVE TypeInv'
  <2>1. PcOK' /\ (copy \in [Actors -> Copies])' BY <1>3, GoOnTyped DEF TakeJob
  <2>2. JobOK' BY <1>3 DEF TakeJob, TypeInv, JobOK, Jobs
  <2>3. RowsOK' BY <1>3 DEF TakeJob, TypeInv, RowsOK, interview, artifact
  <2> QED BY <2>1, <2>2, <2>3 DEF TypeInv
<1>4. ASSUME NEW w \in Workers, Work(w) PROVE TypeInv'
  <2>1. CASE LoadInterview(w)
    <3>1. JobOK' /\ PcOK' /\ (copy \in [Actors -> Copies])'
      <4>1. CASE FailAttempt(w) BY <4>1, FailTyped
      <4>2. CASE ReadInterview(w, "mark") /\ UNCHANGED job
        BY <4>2, ReadTyped DEF TypeInv, JobOK
      <4> QED BY <2>1, <4>1, <4>2 DEF LoadInterview
    <3>2. RowsOK' BY <2>1 DEF LoadInterview, TypeInv, RowsOK, interview, artifact
    <3> QED BY <3>1, <3>2 DEF TypeInv
  <2>2. CASE MarkGenerating(w) \/ RejectReport(w) \/ StoreReport(w)
    <3>1. PcOK' /\ (copy \in [Actors -> Copies])'
      BY <2>2, GoOnTyped DEF MarkGenerating, RejectReport, StoreReport
    <3>2. JobOK' BY <2>2 DEF MarkGenerating, RejectReport, StoreReport, TypeInv, JobOK
    <3>3. RowsOK'
      BY <2>2 DEF MarkGenerating, RejectReport, FailRow, StoreReport, TypeInv, RowsOK,
                  interview, Statuses
    <3> QED BY <3>1, <3>2, <3>3 DEF TypeInv
  <2>3. CASE Generate(w)
    <3>1. JobOK' /\ PcOK' /\ (copy \in [Actors -> Copies])'
      <4>1. CASE FailAttempt(w) BY <4>1, FailTyped
      <4>2. CASE (GoOn(w, "store") \/ GoOn(w, "rejectRow")) /\ UNCHANGED job
        BY <4>2, GoOnTyped DEF TypeInv, JobOK
      <4> QED BY <2>3, <4>1, <4>2 DEF Generate
    <3>2. RowsOK' BY <2>3 DEF Generate, TypeInv, RowsOK, interview, artifact
    <3> QED BY <3>1, <3>2 DEF TypeInv
  <2>4. CASE CompleteInterview(w) \/ RejectInterview(w) \/ BuryInterview(w)
    <3>1. /\ PcOK' /\ (copy \in [Actors -> Copies])'
          /\ state' \in RunStates /\ stamps' \in Nat /\ gone' \in BOOLEAN
      BY <2>4, TransitionTyped DEF CompleteInterview, RejectInterview, BuryInterview, RunStates
    <3>2. JobOK' BY <2>4 DEF CompleteInterview, RejectInterview, BuryInterview, TypeInv, JobOK
    <3> QED BY <2>4, <3>1, <3>2
      DEF CompleteInterview, RejectInterview, BuryInterview, TypeInv, RowsOK, artifact
  <2>5. CASE FinalizeReport(w)
    <3>1. JobOK' /\ PcOK' /\ (copy \in [Actors -> Copies])'
      <4>1. CASE FailAttempt(w) BY <4>1, FailTyped
      <4>2. CASE JobDone(w) /\ Return(w)
        <5>1. PcOK' /\ (copy \in [Actors -> Copies])' BY <4>2, GoOnTyped DEF Return
        <5>2. JobOK' BY <4>2 DEF JobDone, TypeInv, JobOK, Jobs
        <5> QED BY <5>1, <5>2
      <4> QED BY <2>5, <4>1, <4>2 DEF FinalizeReport
    <3>2. RowsOK' BY <2>5 DEF FinalizeReport, TypeInv, RowsOK, interview
    <3> QED BY <3>1, <3>2 DEF TypeInv
  <2>6. CASE ReadDeadLetter(w)
    <3>1. PcOK' /\ (copy \in [Actors -> Copies])'
      BY <2>6, GoOnTyped, ReadTyped DEF ReadDeadLetter, Return
    <3>2. JobOK' BY <2>6 DEF ReadDeadLetter, TypeInv, JobOK
    <3>3. RowsOK' BY <2>6 DEF ReadDeadLetter, TypeInv, RowsOK, interview, artifact
    <3> QED BY <3>1, <3>2, <3>3 DEF TypeInv
  <2>7. CASE BuryReport(w)
    <3>1. PcOK' /\ (copy \in [Actors -> Copies])' BY <2>7, GoOnTyped DEF BuryReport, Return
    <3>2. JobOK' BY <2>7 DEF BuryReport, TypeInv, JobOK
    <3>3. RowsOK' BY <2>7 DEF BuryReport, FailRow, TypeInv, RowsOK, interview, Statuses
    <3> QED BY <3>1, <3>2, <3>3 DEF TypeInv
  <2> QED BY <1>4, <2>1, <2>2, <2>3, <2>4, <2>5, <2>6, <2>7 DEF Work
<1>5. CASE StallJob
  <2>1. JobOK'
    <3>1. CASE /\ job.stalls < MaxStalls
               /\ job' = [job EXCEPT !.status = "waiting", !.owner = Nobody, !.stalls = @ + 1]
      <4>1. job.stalls + 1 \in 0..MaxStalls
        BY <3>1, PipelineAssumption DEF TypeInv, JobOK, Jobs
      <4> QED BY <1>5, <3>1, <4>1 DEF StallJob, TypeInv, JobOK, Jobs
    <3>2. CASE job' = [job EXCEPT !.status = "failed", !.owner = Nobody]
      BY <3>2 DEF TypeInv, JobOK, Jobs
    <3> QED BY <1>5, <3>1, <3>2 DEF StallJob
  <2> QED BY <1>5, <2>1 DEF StallJob, TypeInv, RowsOK, PcOK, interview, artifact, actors
<1>6. CASE ForgetJob
  <2>1. JobOK' BY <1>6, PipelineAssumption DEF ForgetJob, NoJob, JobOK, Jobs
  <2> QED BY <1>6, <2>1 DEF ForgetJob, TypeInv, RowsOK, PcOK, interview, artifact, actors
<1>7. CASE DeleteInterview
  BY <1>7 DEF DeleteInterview, TypeInv, RowsOK, JobOK, PcOK, artifact, actors
<1>8. ASSUME NEW a \in Actors, Crash(a) PROVE TypeInv'
  <2>1. PcOK' /\ (copy \in [Actors -> Copies])' BY <1>8, GoOnTyped DEF Crash, Return
  <2>2. JobOK' BY <1>8 DEF Crash, TypeInv, JobOK
  <2>3. RowsOK' BY <1>8 DEF Crash, TypeInv, RowsOK, interview, artifact
  <2> QED BY <2>1, <2>2, <2>3 DEF TypeInv
<1>9. CASE UNCHANGED vars
  BY <1>9 DEF vars, TypeInv, RowsOK, JobOK, PcOK, interview, artifact, actors
<1> QED BY <1>1, <1>2, <1>3, <1>4, <1>5, <1>6, <1>7, <1>8, <1>9 DEF Next

LEMMA TypeStart == Init => TypeInv
<1> SUFFICES ASSUME Init PROVE TypeInv
  OBVIOUS
<1>1. RowsOK
  <2>1. 0 \in 0..MaxRequeues BY PipelineAssumption
  <2>2. gone \in BOOLEAN /\ pdf \in BOOLEAN BY DEF Init
  <2> QED BY <2>1, <2>2 DEF Init, RowsOK, RunStates, Statuses
<1>2. JobOK BY PipelineAssumption DEF Init, NoJob, JobOK, Jobs
<1>3. PcOK /\ copy \in [Actors -> Copies]
  BY DEF Init, PcOK, DeskSteps, Blank, Copies, RunStates
<1> QED BY <1>1, <1>2, <1>3 DEF TypeInv

(* Every variable keeps its type: no job is retried past its attempts, no  *)
(* actor reaches a step that is not its own.                               *)
THEOREM TypeCorrect == Spec => []TypeOK
<1>1. TypeInv => TypeOK BY DEF TypeInv, RowsOK, JobOK, PcOK, TypeOK
<1> QED BY <1>1, TypeStart, TypeStep, PTL DEF Spec
-----------------------------------------------------------------------------
(* What makes a completed interview safe: a run reaches its transition     *)
(* only past the commit that stored a report, its own or another's; and a  *)
(* requeue that read `completed` finds the report ready, because it is for *)
(* good, and never gets as far as the state.                               *)
CompletesPastStore == \A a \in Actors : pc[a] = "complete" => report = "ready"

CompletedIsRefused ==
    \A a \in Actors :
        copy[a].state = "completed" =>
            report = "ready" /\ pc[a] \notin {"checkJob", "claim"}

StoresOnce == written = IF report = "ready" THEN 1 ELSE 0

Safe == StoresOnce /\ CompletedHasReport /\ CompletesPastStore /\ CompletedIsRefused

Unstored == report' = "ready" <=> report = "ready"

(* A step that neither stores a report nor moves the state.                *)
LEMMA QuietSafe ==
    ASSUME TypeInv, Safe, NEW a \in Actors, NEW step, GoOn(a, step),
           UNCHANGED <<state, written>>, Unstored,
           step = "complete" => report = "ready",
           step \in {"checkJob", "claim"} => copy[a].state # "completed"
    PROVE  Safe' /\ UNCHANGED Delivery!delivery
<1>1. CompletedIsRefused'
  BY DEF GoOn, TypeInv, PcOK, Safe, CompletedIsRefused, Unstored, Blank
<1>2. CompletesPastStore'
  BY DEF GoOn, TypeInv, PcOK, Safe, CompletesPastStore, Unstored
<1> QED BY <1>1, <1>2 DEF Safe, StoresOnce, CompletedHasReport, Unstored, Delivery!delivery

(* A step that reads the interview: a completed one has its report.        *)
LEMMA ReadSafe ==
    ASSUME TypeInv, Safe, NEW a \in Actors, NEW step \in {"checkReport", "mark", "bury"},
           ReadInterview(a, step), UNCHANGED <<state, written, report>>
    PROVE  Safe' /\ UNCHANGED Delivery!delivery
<1>1. CompletedIsRefused'
  BY DEF ReadInterview, TypeInv, PcOK, Safe, CompletedIsRefused, CompletedHasReport
<1>2. CompletesPastStore'
  BY DEF ReadInterview, TypeInv, PcOK, Safe, CompletesPastStore
<1> QED BY <1>1, <1>2 DEF Safe, StoresOnce, CompletedHasReport, Delivery!delivery

(* A step that moves the state, or loses and moves nothing.                *)
LEMMA TransitionSafe ==
    ASSUME TypeInv, Safe, NEW a \in Actors, NEW to \in RunStates,
           NEW won \in {"reopen", "finalize", "buryRow"}, NEW lost \in {"idle", "finalize"},
           ApplyTransition(a, to, won, lost), UNCHANGED artifact,
           to = "completed" => report = "ready",
           to = "evaluating" => copy[a].state # "completed"
    PROVE  Safe' /\ [Delivery!Next]_(Delivery!delivery)
<1>1. CASE Wins(a, to) /\ WriteState(a, to) /\ GoOn(a, won)
  <2>1. CompletedIsRefused'
    BY <1>1 DEF GoOn, TypeInv, PcOK, Safe, CompletedIsRefused, artifact, Blank
  <2>2. CompletesPastStore'
    BY <1>1 DEF GoOn, TypeInv, PcOK, Safe, CompletesPastStore, artifact
  <2>3. CompletedHasReport'
    BY <1>1 DEF WriteState, Safe, CompletedHasReport, artifact
  <2>4. Safe' BY <2>1, <2>2, <2>3 DEF Safe, StoresOnce, artifact
  <2>5. \/ state = "evaluating" /\ state' = "completed" /\ report = "ready"
        \/ state = "evaluating" /\ state' = "failed"
        \/ state = "failed" /\ state' = "evaluating"
    BY <1>1 DEF Wins, WriteState, CanTransition, TRANSITIONS, RunStates, TypeInv, RowsOK
  <2>6. Delivery!Next
    BY <2>5 DEF artifact, Delivery!Next, Delivery!Complete, Delivery!GiveUp,
                Delivery!TakeUpAgain
  <2> QED BY <2>4, <2>6
<1>2. CASE GoOn(a, lost) /\ UNCHANGED interview
  BY <1>2, QuietSafe DEF interview, artifact, Unstored
<1> QED BY <1>1, <1>2 DEF ApplyTransition

(* A run's steps.                                                          *)
LEMMA WorkSafe ==
    ASSUME TypeInv, Safe, NEW w \in Workers, Work(w)
    PROVE  Safe' /\ [Delivery!Next]_(Delivery!delivery)
<1> w \in Actors BY DEF Actors
<1>1. ASSUME NEW step \in {"idle", "deadLetter", "store", "rejectRow"}, GoOn(w, step),
             UNCHANGED <<state, written, report>>
      PROVE  Safe' /\ [Delivery!Next]_(Delivery!delivery)
  BY <1>1, QuietSafe DEF Unstored
<1>2. ASSUME FailAttempt(w), UNCHANGED <<state, written, report>>
      PROVE  Safe' /\ [Delivery!Next]_(Delivery!delivery)
  <2>1. GoOn(w, "idle") \/ GoOn(w, "deadLetter") BY <1>2 DEF FailAttempt, Return
  <2> QED BY <1>1, <1>2, <2>1
<1>3. CASE LoadInterview(w)
  <2>1. UNCHANGED <<state, written, report>> BY <1>3 DEF LoadInterview, interview, artifact
  <2>2. FailAttempt(w) \/ ReadInterview(w, "mark") BY <1>3 DEF LoadInterview
  <2> QED BY <1>2, <2>1, <2>2, ReadSafe
<1>4. CASE MarkGenerating(w)
  <2>1. UNCHANGED <<state, written>> /\ Unstored /\ GoOn(w, "generate")
    BY <1>4 DEF MarkGenerating, interview, Unstored
  <2> QED BY <2>1, QuietSafe
<1>5. CASE Generate(w)
  <2>1. UNCHANGED <<state, written, report>> BY <1>5 DEF Generate, interview, artifact
  <2>2. FailAttempt(w) \/ GoOn(w, "store") \/ GoOn(w, "rejectRow") BY <1>5 DEF Generate
  <2> QED BY <1>1, <1>2, <2>1, <2>2
<1>6. CASE StoreReport(w)
  <2>1. CASE report # "ready" /\ report' = "ready" /\ written' = written + 1
    <3>1. GoOn(w, "complete") /\ UNCHANGED state BY <1>6 DEF StoreReport, interview
    <3>2. written = 0 BY <2>1 DEF Safe, StoresOnce
    <3>3. StoresOnce' /\ CompletedHasReport' /\ CompletesPastStore'
      BY <2>1, <3>2 DEF StoresOnce, CompletedHasReport, CompletesPastStore
    <3>4. CompletedIsRefused'
      BY <2>1, <3>1 DEF GoOn, TypeInv, PcOK, Safe, CompletedIsRefused
    <3>5. Delivery!Deliver BY <2>1, <3>1 DEF Delivery!Deliver
    <3> QED BY <3>3, <3>4, <3>5 DEF Safe, Delivery!Next
  <2>2. CASE report = "ready" /\ UNCHANGED <<report, written>>
    <3>1. GoOn(w, "complete") /\ UNCHANGED state BY <1>6 DEF StoreReport, interview
    <3> QED BY <2>2, <3>1, QuietSafe DEF Unstored
  <2> QED BY <1>6, <2>1, <2>2 DEF StoreReport, ClaimsUnfinished
<1>7. CASE CompleteInterview(w)
  <2>1. report = "ready" BY <1>7 DEF CompleteInterview, Safe, CompletesPastStore
  <2> QED BY <1>7, <2>1, TransitionSafe DEF CompleteInterview, RunStates
<1>8. CASE RejectInterview(w) \/ BuryInterview(w)
  BY <1>8, TransitionSafe DEF RejectInterview, BuryInterview, RunStates
<1>9. CASE RejectReport(w) \/ BuryReport(w)
  <2>1. UNCHANGED <<state, written>> /\ Unstored /\ (GoOn(w, "reject") \/ GoOn(w, "idle"))
    BY <1>9 DEF RejectReport, BuryReport, FailRow, Return, interview, Unstored
  <2> QED BY <2>1, QuietSafe
<1>10. CASE FinalizeReport(w)
  <2>1. UNCHANGED <<state, written, report>> BY <1>10 DEF FinalizeReport, interview
  <2>2. FailAttempt(w) \/ GoOn(w, "idle") BY <1>10 DEF FinalizeReport, Return
  <2> QED BY <1>1, <1>2, <2>1, <2>2
<1>11. CASE ReadDeadLetter(w)
  <2>1. UNCHANGED <<state, written, report>> BY <1>11 DEF ReadDeadLetter, interview, artifact
  <2>2. GoOn(w, "idle") \/ ReadInterview(w, "bury") BY <1>11 DEF ReadDeadLetter, Return
  <2> QED BY <1>1, <2>1, <2>2, ReadSafe
<1> QED BY <1>3, <1>4, <1>5, <1>6, <1>7, <1>8, <1>9, <1>10, <1>11 DEF Work

(* A request's steps.                                                      *)
LEMMA DeskSafe ==
    ASSUME TypeInv, Safe, NEW d \in Desks, RequeueReport(d) \/ AtDesk(d)
    PROVE  Safe' /\ [Delivery!Next]_(Delivery!delivery)
<1> d \in Actors BY DEF Actors
<1>1. CASE RequeueReport(d)
  <2>1. UNCHANGED <<state, written, report>> /\ ReadInterview(d, "checkReport")
    BY <1>1 DEF RequeueReport, interview, artifact
  <2> QED BY <2>1, ReadSafe
<1>2. CASE OpenReportRow(d)
  <2>1. UNCHANGED <<state, written>> /\ Unstored /\ (GoOn(d, "add") \/ GoOn(d, "readd"))
    BY <1>2 DEF OpenReportRow, OpenRow, interview, Unstored
  <2> QED BY <2>1, QuietSafe
<1>3. CASE AddJob(d) \/ LoseRedis(d) \/ RemoveJob(d)
  <2>1. UNCHANGED <<state, written, report>>
    BY <1>3 DEF AddJob, LoseRedis, RemoveJob, interview, artifact
  <2>2. GoOn(d, "idle") \/ GoOn(d, "remove") \/ GoOn(d, "open")
    BY <1>3 DEF AddJob, LoseRedis, RemoveJob, Return
  <2> QED BY <2>1, <2>2, QuietSafe DEF Unstored
<1>4. CASE CheckReport(d)
  <2>1. UNCHANGED <<state, written, report>> BY <1>4 DEF CheckReport, interview, artifact
  <2>2. CASE GoOn(d, "idle") BY <2>1, <2>2, QuietSafe DEF Unstored
  <2>3. CASE ~RefusesFinished(d) /\ GoOn(d, "checkJob")
    <3>1. copy[d].state # "completed"
      BY <2>3 DEF RefusesFinished, Safe, CompletedIsRefused
    <3> QED BY <2>1, <2>3, <3>1, QuietSafe DEF Unstored
  <2> QED BY <1>4, <2>2, <2>3 DEF CheckReport, Return
<1>5. CASE CheckJob(d)
  <2>1. UNCHANGED <<state, written, report>> BY <1>5 DEF CheckJob, interview, artifact
  <2>2. copy[d].state # "completed" BY <1>5 DEF CheckJob, Safe, CompletedIsRefused
  <2>3. GoOn(d, "idle") \/ GoOn(d, "remove") \/ GoOn(d, "claim")
    BY <1>5 DEF CheckJob, Return
  <2> QED BY <2>1, <2>2, <2>3, QuietSafe DEF Unstored
<1>6. CASE ClaimEvaluating(d)
  <2>1. copy[d].state # "completed" BY <1>6 DEF ClaimEvaluating, Safe, CompletedIsRefused
  <2> QED BY <1>6, <2>1, TransitionSafe DEF ClaimEvaluating, RunStates
<1> QED BY <1>1, <1>2, <1>3, <1>4, <1>5, <1>6 DEF AtDesk

LEMMA SafeStep == TypeInv /\ Safe /\ [Next]_vars => Safe' /\ [Delivery!Next]_(Delivery!delivery)
<1> SUFFICES ASSUME TypeInv, Safe, [Next]_vars
             PROVE  Safe' /\ [Delivery!Next]_(Delivery!delivery)
  OBVIOUS
<1>1. ASSUME NEW w \in Workers, TakeJob(w)
      PROVE  Safe' /\ [Delivery!Next]_(Delivery!delivery)
  <2>1. UNCHANGED <<state, written, report>> /\ GoOn(w, "read") /\ w \in Actors
    BY <1>1 DEF TakeJob, interview, artifact, Actors
  <2> QED BY <2>1, QuietSafe DEF Unstored
<1>2. CASE StallJob \/ ForgetJob \/ DeleteInterview \/ UNCHANGED vars
  <2>1. UNCHANGED <<state, written, report, pc, copy>>
    BY <1>2 DEF StallJob, ForgetJob, DeleteInterview, vars, interview, artifact, actors
  <2> QED BY <2>1 DEF Safe, StoresOnce, CompletedHasReport, CompletesPastStore,
                      CompletedIsRefused, Delivery!delivery
<1>3. ASSUME NEW a \in Actors, Crash(a)
      PROVE  Safe' /\ [Delivery!Next]_(Delivery!delivery)
  <2>1. UNCHANGED <<state, written, report>> /\ GoOn(a, "idle")
    BY <1>3 DEF Crash, Return, interview, artifact
  <2> QED BY <2>1, QuietSafe DEF Unstored
<1> QED BY <1>1, <1>2, <1>3, WorkSafe, DeskSafe DEF Next

LEMMA SafeStart == Init => Safe /\ Delivery!Init
BY DEF Init, Blank, Safe, StoresOnce, CompletedHasReport, CompletesPastStore,
       CompletedIsRefused, Delivery!Init

LEMMA AlwaysSafe == Spec => [](TypeInv /\ Safe)
BY TypeStart, TypeStep, SafeStart, SafeStep, PTL DEF Spec

(* However many runs of one report overlap, one payload is stored.         *)
THEOREM StoredAtMostOnce == Spec => []StoredOnce
<1>1. Safe => StoredOnce BY DEF Safe, StoresOnce, StoredOnce
<1> QED BY <1>1, AlwaysSafe, PTL

(* An interview said to be completed has its report.                       *)
THEOREM NoCompletionWithoutReport == Spec => []CompletedHasReport
<1>1. Safe => CompletedHasReport BY DEF Safe
<1> QED BY <1>1, AlwaysSafe, PTL

(* The pipeline implements ReportDelivery: a ready report is for good, an  *)
(* interview completes only with it, and a completed one never leaves that *)
(* state, although the table has an edge for the requeue.                  *)
THEOREM ImplementsDelivery == Spec => KeepsPromise
<1>1. TypeInv /\ Safe /\ [Next]_vars => [Delivery!Next]_(Delivery!delivery) BY SafeStep
<1> QED BY <1>1, SafeStart, AlwaysSafe, PTL DEF Spec, KeepsPromise, Delivery!Spec
-----------------------------------------------------------------------------
(* No interview is forgotten: at most one requeue, no process dies, no     *)
(* lock is lost and the queue takes what it is given.                      *)
Working == {"read", "mark", "generate", "store", "complete", "rejectRow", "reject"}
Running == Working \cup {"finalize"}
Looking == {"checkReport", "checkJob", "claim"}

(* A run has the job, and a job that is locked has its run.                *)
OnTheJob ==
    /\ job.status = "active" => job.owner \in Workers /\ pc[job.owner] \in Running
    /\ \A w \in Workers : pc[w] \in Running => job.status = "active" /\ job.owner = w

(* Nobody will store a report or put the job in a worker's hands again.    *)
Ended == written = 0 /\ job.status # "waiting" /\ \A w \in Workers : pc[w] \notin Working

(* Until somebody asks again there is one enqueue, then the job's runs one *)
(* by one, then at most a dead letter; a failure is what the last one left.*)
FirstRun ==
    requeues = 0 =>
        /\ \A d \in Desks : pc[d] # "idle" =>
              /\ d = Producer /\ pc[d] \in {"open", "add"}
              /\ job.status = "none" /\ state = "evaluating"
              /\ \A w \in Workers : pc[w] = "idle"
        /\ \A w \in Workers : pc[w] \in {"deadLetter", "bury"} => job.status \in {"none", "failed"}
        /\ state = "evaluating" /\ written > 0 => \E w \in Workers : pc[w] = "complete"
        /\ state = "failed" => Ended

(* A requeue that read `failed` is alone, and nothing runs when it claims. *)
Claims ==
    \A d \in Desks : pc[d] \in Looking =>
        /\ requeues > 0
        /\ copy[d].state = "failed" =>
              /\ \A e \in Desks \ {d} : pc[e] = "idle"
              /\ state = "failed" /\ Ended
        /\ pc[d] = "claim" => copy[d].state # "evaluating" /\ job.status # "active"

(* While the interview waits for its report, no run's copy is stale and    *)
(* none is past the transition.                                            *)
Fresh ==
    state = "evaluating" =>
        \A w \in Workers :
            /\ pc[w] \in Working \ {"read"} => copy[w].state = "evaluating"
            /\ pc[w] # "finalize"

(* Who brings an interview on that has no job to be delivered.             *)
Buries(w) == pc[w] = "deadLetter" \/ (pc[w] = "bury" /\ copy[w].state = "evaluating")

Enqueues(d) ==
    \/ pc[d] \in {"reopen", "readd", "remove"}
    \/ job.status = "none" /\ pc[d] \in {"open", "add"}

LookedAfter ==
    state = "evaluating" /\ ~gone /\ job.status \notin {"waiting", "active"} =>
        (\E w \in Workers : Buries(w)) \/ (\E d \in Desks : Enqueues(d))

Followed == OnTheJob /\ FirstRun /\ Claims /\ Fresh /\ LookedAfter

(* What the theorem asks of the queue and of the administrators.           *)
OneRequeue == MaxRequeues <= 1
QueueIsSound == ReportFaults \cap {"stall", "crash", "redis"} = {}

(* What moves when a desk or a worker moves.                               *)
LEMMA DeskMoves ==
    ASSUME TypeInv, NEW d \in Desks, NEW step, GoOn(d, step)
    PROVE  /\ pc'[d] = step /\ (step # "idle" => copy'[d] = copy[d])
           /\ \A e \in Desks \ {d} : pc'[e] = pc[e] /\ copy'[e] = copy[e]
           /\ \A w \in Workers : pc'[w] = pc[w] /\ copy'[w] = copy[w]
BY PipelineAssumption DEF TypeInv, PcOK, GoOn, Actors

LEMMA RunMoves ==
    ASSUME TypeInv, NEW w \in Workers, NEW step, GoOn(w, step)
    PROVE  /\ pc'[w] = step /\ (step # "idle" => copy'[w] = copy[w])
           /\ \A v \in Workers \ {w} : pc'[v] = pc[v] /\ copy'[v] = copy[v]
           /\ \A d \in Desks : pc'[d] = pc[d] /\ copy'[d] = copy[d]
BY PipelineAssumption DEF TypeInv, PcOK, GoOn, Actors

LEMMA RunReads ==
    ASSUME TypeInv, NEW w \in Workers, NEW step, ReadInterview(w, step)
    PROVE  /\ pc'[w] = step /\ copy'[w].state = state
           /\ \A v \in Workers \ {w} : pc'[v] = pc[v] /\ copy'[v] = copy[v]
           /\ \A d \in Desks : pc'[d] = pc[d] /\ copy'[d] = copy[d]
BY PipelineAssumption DEF TypeInv, PcOK, ReadInterview, Actors

(* A request's step that changes neither the job nor the interview.        *)
LEMMA DeskQuiet ==
    ASSUME TypeInv, Followed, NEW d \in Desks, NEW step, GoOn(d, step),
           UNCHANGED <<state, gone, written, job, requeues>>,
           pc[d] \in {"reopen", "readd", "remove"} => step \in {"readd", "remove"},
           pc[d] \in {"open", "add"} => step = "add",
           pc[d] \in Looking => step \in {"idle", "checkJob", "claim", "remove"},
           pc[d] # "idle",
           step \in Looking => pc[d] \in Looking,
           step = "claim" => copy[d].state # "evaluating" /\ job.status # "active"
    PROVE  Followed'
<1>1. /\ pc'[d] = step /\ (step # "idle" => copy'[d] = copy[d])
      /\ \A e \in Desks \ {d} : pc'[e] = pc[e] /\ copy'[e] = copy[e]
      /\ \A w \in Workers : pc'[w] = pc[w] /\ copy'[w] = copy[w]
  BY DeskMoves
<1> USE DEF Followed
<1>2. OnTheJob' BY <1>1 DEF OnTheJob
<1>3. Ended' = Ended BY <1>1 DEF Ended
<1>4. FirstRun' BY <1>1, <1>3 DEF FirstRun, Looking
<1>5. Claims' BY <1>1, <1>3 DEF Claims, Looking
<1>6. Fresh' BY <1>1 DEF Fresh
<1>7. LookedAfter' BY <1>1 DEF LookedAfter, Buries, Enqueues, Looking
<1> QED BY <1>2, <1>4, <1>5, <1>6, <1>7

LEMMA RequeueFollowed ==
    ASSUME TypeInv, Followed, OneRequeue, NEW d \in Desks, RequeueReport(d)
    PROVE  Followed'
<1> USE DEF Followed
<1>1. /\ pc[d] = "idle" /\ requeues = 0 /\ requeues' = 1
      /\ UNCHANGED <<state, gone, written, job>>
  BY PipelineAssumption DEF RequeueReport, OneRequeue, TypeInv, RowsOK, interview, artifact
<1>2. /\ pc'[d] = "checkReport" /\ copy'[d].state = state
      /\ \A e \in Desks \ {d} : pc'[e] = pc[e] /\ copy'[e] = copy[e]
      /\ \A w \in Workers : pc'[w] = pc[w] /\ copy'[w] = copy[w]
  BY PipelineAssumption DEF RequeueReport, ReadInterview, TypeInv, PcOK, Actors
<1>3. OnTheJob' BY <1>1, <1>2 DEF OnTheJob
<1>4. FirstRun' BY <1>1 DEF FirstRun
<1>5. Claims'
  <2>1. Ended' = Ended BY <1>1, <1>2 DEF Ended
  <2>2. \A e \in Desks \ {d} : pc[e] # "idle" => pc[e] \in {"open", "add"} /\ state = "evaluating"
    BY <1>1 DEF FirstRun
  <2>3. state = "failed" => Ended BY <1>1 DEF FirstRun
  <2> QED BY <1>1, <1>2, <2>1, <2>2, <2>3 DEF Claims, Looking
<1>6. Fresh' BY <1>1, <1>2 DEF Fresh
<1>7. LookedAfter' BY <1>1, <1>2 DEF LookedAfter, Buries, Enqueues
<1> QED BY <1>3, <1>4, <1>5, <1>6, <1>7

(* The id is free or remembered: after the add the job is there either way.*)
LEMMA AddFollowed ==
    ASSUME TypeInv, Followed, NEW d \in Desks, AddJob(d)
    PROVE  Followed'
<1> USE DEF Followed
<1>1. /\ UNCHANGED <<state, gone, written, requeues>>
      /\ job' = IF job.status = "none" THEN FreshJob ELSE job
      /\ \/ pc[d] = "add" /\ GoOn(d, "idle")
         \/ pc[d] = "readd" /\ GoOn(d, "remove")
  BY DEF AddJob, Return, interview, artifact
<1>2. /\ pc'[d] \in {"idle", "remove"} /\ (pc[d] = "readd" => pc'[d] = "remove")
      /\ \A e \in Desks \ {d} : pc'[e] = pc[e] /\ copy'[e] = copy[e]
      /\ \A w \in Workers : pc'[w] = pc[w] /\ copy'[w] = copy[w]
  BY <1>1, DeskMoves
<1>3. /\ job.status = "none" => job'.status = "waiting" /\ job'.owner = Nobody
      /\ job.status # "none" => job' = job
  BY <1>1 DEF FreshJob, NoJob
<1>4. pc[d] \in {"add", "readd"} BY <1>1
<1>5. OnTheJob' BY <1>2, <1>3 DEF OnTheJob
<1>6. FirstRun'
  <2> SUFFICES ASSUME requeues = 0 PROVE FirstRun'
    BY <1>1 DEF FirstRun
  <2>1. /\ d = Producer /\ state = "evaluating" /\ \A w \in Workers : pc[w] = "idle"
        /\ \A e \in Desks \ {d} : pc[e] = "idle"
        /\ pc[d] = "add"
    BY <1>4 DEF FirstRun
  <2>2. pc'[d] = "idle" BY <1>1, <2>1, DeskMoves
  <2>3. ~(written > 0) BY <2>1 DEF FirstRun
  <2> QED BY <1>1, <1>2, <2>1, <2>2, <2>3 DEF FirstRun
<1>7. Claims'
  <2>1. ASSUME NEW e \in Desks, pc'[e] \in Looking
        PROVE  /\ e # d /\ pc[e] = pc'[e] /\ copy[e] = copy'[e] /\ copy[e].state # "failed"
    <3>1. e # d BY <1>2, <2>1 DEF Looking
    <3> QED BY <1>2, <1>4, <2>1, <3>1 DEF Claims
  <2>2. \A e \in Desks : pc'[e] = "claim" => job.status # "active" /\ job'.status # "active"
    BY <1>3, <2>1 DEF Claims, Looking
  <2> QED BY <1>1, <2>1, <2>2 DEF Claims
<1>8. Fresh' BY <1>1, <1>2 DEF Fresh
<1>9. LookedAfter' BY <1>1, <1>2, <1>3, <1>4 DEF LookedAfter, Buries, Enqueues
<1> QED BY <1>5, <1>6, <1>7, <1>8, <1>9

LEMMA RemoveFollowed ==
    ASSUME TypeInv, Followed, NEW d \in Desks, RemoveJob(d)
    PROVE  Followed'
<1> USE DEF Followed
<1>1. /\ UNCHANGED <<state, gone, written, requeues>> /\ pc[d] = "remove"
      /\ job' = (IF job.status = "active" THEN job ELSE NoJob)
  BY DEF RemoveJob, JobRemoved, interview, artifact
<1>2. /\ pc'[d] = "open"
      /\ \A e \in Desks \ {d} : pc'[e] = pc[e] /\ copy'[e] = copy[e]
      /\ \A w \in Workers : pc'[w] = pc[w] /\ copy'[w] = copy[w]
  BY DeskMoves DEF RemoveJob
<1>3. /\ job.status = "active" => job' = job
      /\ job.status # "active" => job'.status = "none"
  BY <1>1 DEF NoJob
<1>4. requeues # 0 BY <1>1 DEF FirstRun
<1>5. OnTheJob' BY <1>2, <1>3 DEF OnTheJob
<1>6. FirstRun' BY <1>1, <1>4 DEF FirstRun
<1>7. Claims' BY <1>1, <1>2, <1>3 DEF Claims, Looking
<1>8. Fresh' BY <1>1, <1>2 DEF Fresh
<1>9. LookedAfter' BY <1>1, <1>2, <1>3 DEF LookedAfter, Enqueues
<1> QED BY <1>5, <1>6, <1>7, <1>8, <1>9

(* Back to `evaluating`: whoever claims still has the enqueue before it,   *)
(* and no run is left whose copy the claim would make stale.               *)
LEMMA ClaimFollowed ==
    ASSUME TypeInv, Safe, Followed, NEW d \in Desks, ClaimEvaluating(d)
    PROVE  Followed'
<1> USE DEF Followed
<1>1. pc[d] = "claim" /\ UNCHANGED <<written, job, requeues>>
  BY DEF ClaimEvaluating, artifact
<1>2. CASE GoOn(d, "idle") /\ UNCHANGED interview
  BY <1>1, <1>2, DeskQuiet DEF interview, Looking
<1>3. CASE Wins(d, "evaluating") /\ WriteState(d, "evaluating") /\ GoOn(d, "reopen")
  <2>1. /\ pc'[d] = "reopen"
        /\ \A e \in Desks \ {d} : pc'[e] = pc[e] /\ copy'[e] = copy[e]
        /\ \A w \in Workers : pc'[w] = pc[w] /\ copy'[w] = copy[w]
    BY <1>3, DeskMoves
  <2>2. state' = "evaluating" /\ gone' = gone BY <1>3 DEF WriteState
  <2>3. copy[d].state = "failed"
    BY <1>1, <1>3 DEF Claims, Looking, Safe, CompletedIsRefused, TypeInv, Copies, RunStates, Actors
  <2>4. /\ requeues > 0 /\ Ended /\ job.status # "active"
        /\ \A e \in Desks \ {d} : pc[e] = "idle"
    BY <1>1, <2>3 DEF Claims, Looking
  <2>5. \A w \in Workers : pc[w] \notin Running BY <2>4 DEF OnTheJob
  <2>6. OnTheJob' BY <1>1, <2>1 DEF OnTheJob
  <2>7. FirstRun' BY <1>1, <2>4 DEF FirstRun
  <2>8. Claims' BY <2>1, <2>4 DEF Claims, Looking
  <2>9. Fresh' BY <2>1, <2>5 DEF Fresh, Running
  <2>10. LookedAfter' BY <2>1 DEF LookedAfter, Enqueues
  <2> QED BY <2>6, <2>7, <2>8, <2>9, <2>10
<1> QED BY <1>2, <1>3 DEF ClaimEvaluating, ApplyTransition

LEMMA DeskFollowed ==
    ASSUME TypeInv, Safe, Followed, OneRequeue, QueueIsSound,
           NEW d \in Desks, RequeueReport(d) \/ AtDesk(d)
    PROVE  Followed'
<1>1. CASE OpenReportRow(d)
  BY <1>1, DeskQuiet DEF OpenReportRow, interview, Looking
<1>2. CASE LoseRedis(d) BY <1>2 DEF LoseRedis, QueueIsSound
<1>3. CASE CheckReport(d)
  BY <1>3, DeskQuiet DEF CheckReport, Return, interview, artifact, Looking
<1>4. CASE CheckJob(d)
  BY <1>4, DeskQuiet DEF CheckJob, Return, interview, artifact, Looking
<1> QED BY <1>1, <1>2, <1>3, <1>4, RequeueFollowed, AddFollowed, RemoveFollowed, ClaimFollowed
    DEF AtDesk

(* A run on its way to the transition.                                     *)
LEMMA RunGoesOn ==
    ASSUME TypeInv, Followed, NEW w \in Workers, pc[w] \in Working \ {"complete"},
           pc'[w] \in Working \ {"read"},
           \A v \in Workers \ {w} : pc'[v] = pc[v] /\ copy'[v] = copy[v],
           \A d \in Desks : pc'[d] = pc[d] /\ copy'[d] = copy[d],
           UNCHANGED <<state, gone, job, requeues>>,
           written' = written \/ pc'[w] = "complete",
           state = "evaluating" => copy'[w].state = "evaluating"
    PROVE  Followed'
<1> USE DEF Followed
<1>1. /\ job.status = "active" /\ job.owner = w
      /\ \A v \in Workers \ {w} : pc[v] \notin Running
      /\ pc'[w] \in Running
  BY DEF OnTheJob, Running
<1>2. ~Ended BY DEF Ended
<1>3. OnTheJob' BY <1>1 DEF OnTheJob
<1>4. FirstRun'
  <2> SUFFICES ASSUME requeues = 0 PROVE FirstRun'
    BY DEF FirstRun
  <2>1. state # "failed" /\ \A d \in Desks : pc[d] = "idle"
    BY <1>1, <1>2 DEF FirstRun, Working
  <2>2. \A v \in Workers : pc[v] \notin {"deadLetter", "bury"} BY <1>1 DEF FirstRun
  <2>3. state = "evaluating" /\ written' > 0 => pc'[w] = "complete"
    <3>1. pc[w] # "complete" /\ \A v \in Workers \ {w} : pc[v] # "complete"
      BY <1>1 DEF Running, Working
    <3> QED BY <3>1 DEF FirstRun
  <2>4. \A v \in Workers : pc'[v] \notin {"deadLetter", "bury"}
    BY <2>2 DEF Working
  <2> QED BY <2>1, <2>3, <2>4 DEF FirstRun
<1>5. Claims' BY <1>2 DEF Claims
<1>6. Fresh' BY <1>1 DEF Fresh, Working
<1>7. LookedAfter' BY <1>1 DEF LookedAfter
<1> QED BY <1>3, <1>4, <1>5, <1>6, <1>7

(* An attempt that throws is retried, or has its dead letter.              *)
LEMMA FailFollowed ==
    ASSUME TypeInv, Followed, NEW w \in Workers, FailAttempt(w),
           pc[w] \in {"read", "generate"} \/ (pc[w] = "finalize" /\ HasPayload),
           UNCHANGED <<state, gone, written, requeues>>
    PROVE  Followed'
<1> USE DEF Followed
<1>1. /\ job.status = "active" /\ job.owner = w
      /\ \A v \in Workers \ {w} : pc[v] \notin Running
  BY DEF OnTheJob, Running, Working
<1>2. ~Ended BY DEF Ended, Working, HasPayload
<1>3. /\ job' = [job EXCEPT !.made = @ + 1, !.owner = Nobody,
                            !.status = IF Retries(job.made + 1) THEN "waiting" ELSE "failed"]
      /\ IF LastAttempt(job.made + 1) THEN GoOn(w, "deadLetter") ELSE GoOn(w, "idle")
  BY <1>1 DEF FailAttempt, Holds, Return
<1>4. \/ job'.status = "waiting" /\ pc'[w] = "idle"
      \/ job'.status = "failed" /\ pc'[w] = "deadLetter"
  <2>1. job.made \in Nat /\ Attempts \in Nat BY PipelineAssumption DEF TypeInv, JobOK, Jobs
  <2>2. job'.status = IF Retries(job.made + 1) THEN "waiting" ELSE "failed"
    BY <1>3 DEF TypeInv, JobOK, Jobs
  <2>3. LastAttempt(job.made + 1) <=> ~Retries(job.made + 1)
    BY <2>1 DEF LastAttempt, Retries
  <2> QED BY <1>3, <2>2, <2>3, RunMoves
<1>5. /\ \A v \in Workers \ {w} : pc'[v] = pc[v] /\ copy'[v] = copy[v]
      /\ \A d \in Desks : pc'[d] = pc[d] /\ copy'[d] = copy[d]
  BY <1>3, RunMoves
<1>6. OnTheJob' BY <1>1, <1>4, <1>5 DEF OnTheJob, Running, Working
<1>7. FirstRun'
  <2> SUFFICES ASSUME requeues = 0 PROVE FirstRun'
    BY DEF FirstRun
  <2>1. state # "failed" /\ \A d \in Desks : pc[d] = "idle"
    BY <1>1, <1>2 DEF FirstRun
  <2>2. \A v \in Workers : pc[v] \notin {"deadLetter", "bury"} BY <1>1 DEF FirstRun
  <2>3. ~(state = "evaluating" /\ written > 0)
    BY <1>1 DEF FirstRun, Running, Working
  <2> QED BY <1>4, <1>5, <2>1, <2>2, <2>3 DEF FirstRun
<1>8. Claims'
  <2>1. \A d \in Desks : pc[d] \in Looking => requeues > 0 /\ copy[d].state # "failed" /\ pc[d] # "claim"
    BY <1>1, <1>2 DEF Claims
  <2> QED BY <1>5, <2>1 DEF Claims, Looking
<1>9. Fresh' BY <1>4, <1>5 DEF Fresh, Working
<1>10. LookedAfter' BY <1>4 DEF LookedAfter, Buries
<1> QED BY <1>6, <1>7, <1>8, <1>9, <1>10

(* A run at its transition finds a copy that is no longer true only when   *)
(* the interview has left `evaluating`.                                    *)
LEMMA FinishFollowed ==
    ASSUME TypeInv, Followed, NEW w \in Workers, UNCHANGED artifact, UNCHANGED <<job, requeues>>,
           NEW to,
           \/ pc[w] = "complete" /\ to = "completed"
           \/ pc[w] = "reject" /\ to = "failed",
           ApplyTransition(w, to, "finalize", "finalize")
    PROVE  Followed'
<1> USE DEF Followed
<1>1. /\ job.status = "active" /\ job.owner = w /\ pc[w] \in Working
      /\ \A v \in Workers \ {w} : pc[v] \notin Running
  BY DEF OnTheJob, Running, Working
<1>2. ~Ended BY <1>1 DEF Ended
<1>3. /\ pc'[w] = "finalize"
      /\ \A v \in Workers \ {w} : pc'[v] = pc[v] /\ copy'[v] = copy[v]
      /\ \A d \in Desks : pc'[d] = pc[d] /\ copy'[d] = copy[d]
  BY RunMoves DEF ApplyTransition
<1>4. gone' = gone /\ written' = written /\ (state' = state \/ state' = to)
  BY DEF ApplyTransition, WriteState, interview, artifact
<1>5. state' # "evaluating"
  <2>1. state = "evaluating" => copy[w].state = "evaluating"
    BY DEF Fresh, Working
  <2>2. state = "evaluating" => Wins(w, to)
    BY <2>1 DEF Wins, CanTransition, TRANSITIONS
  <2> QED BY <2>2 DEF ApplyTransition, WriteState, interview
<1>6. OnTheJob' BY <1>1, <1>3 DEF OnTheJob, Running
<1>7. FirstRun'
  <2> SUFFICES ASSUME requeues = 0 PROVE FirstRun'
    BY DEF FirstRun
  <2>1. state # "failed" /\ \A d \in Desks : pc[d] = "idle"
    BY <1>1, <1>2 DEF FirstRun, Working
  <2>2. \A v \in Workers : pc[v] \notin {"deadLetter", "bury"} BY <1>1 DEF FirstRun
  <2>3. ASSUME state' = "failed" PROVE Ended'
    <3>1. pc[w] = "reject" /\ to = "failed" /\ state' # state BY <1>4, <2>1, <2>3
    <3>2. state = "evaluating"
      BY <3>1 DEF ApplyTransition, Wins, CanTransition, TRANSITIONS, TypeInv, RowsOK, RunStates,
                  interview
    <3>3. written = 0
      <4>1. ~(written > 0) BY <1>1, <3>1, <3>2 DEF FirstRun, Running, Working
      <4> QED BY <4>1 DEF TypeInv, RowsOK
    <3> QED BY <1>1, <1>3, <1>4, <3>3 DEF Ended, Running, Working
  <2> QED BY <1>3, <1>5, <2>1, <2>2, <2>3 DEF FirstRun
<1>8. Claims'
  <2>1. \A d \in Desks : pc[d] \in Looking => requeues > 0 /\ copy[d].state # "failed" /\ pc[d] # "claim"
    BY <1>1, <1>2 DEF Claims
  <2> QED BY <1>3, <2>1 DEF Claims
<1>9. Fresh' BY <1>5 DEF Fresh
<1>10. LookedAfter' BY <1>5 DEF LookedAfter
<1> QED BY <1>6, <1>7, <1>8, <1>9, <1>10

LEMMA DoneFollowed ==
    ASSUME TypeInv, Followed, NEW w \in Workers, pc[w] = "finalize", JobDone(w), Return(w),
           UNCHANGED <<state, gone, written, requeues>>
    PROVE  Followed'
<1> USE DEF Followed
<1>1. /\ job.status = "active" /\ job.owner = w
      /\ \A v \in Workers \ {w} : pc[v] \notin Running
  BY DEF OnTheJob, Running
<1>2. /\ pc'[w] = "idle"
      /\ \A v \in Workers \ {w} : pc'[v] = pc[v] /\ copy'[v] = copy[v]
      /\ \A d \in Desks : pc'[d] = pc[d] /\ copy'[d] = copy[d]
  BY RunMoves DEF Return
<1>3. job'.status = "completed" BY <1>1 DEF JobDone, Holds, TypeInv, JobOK, Jobs
<1>4. state # "evaluating" BY DEF Fresh
<1>5. OnTheJob' BY <1>1, <1>2, <1>3 DEF OnTheJob, Running, Working
<1>6. Ended => Ended' BY <1>2, <1>3 DEF Ended, Working
<1>7. FirstRun' BY <1>1, <1>2, <1>3, <1>4, <1>6 DEF FirstRun
<1>8. Claims' BY <1>2, <1>3, <1>6 DEF Claims, Looking
<1>9. Fresh' BY <1>4 DEF Fresh
<1>10. LookedAfter' BY <1>4 DEF LookedAfter
<1> QED BY <1>5, <1>7, <1>8, <1>9, <1>10

(* A worker that has no run, before and after.                             *)
LEMMA AsideFollowed ==
    ASSUME TypeInv, Followed, NEW w \in Workers, pc[w] # "idle",
           pc[w] \notin Running, pc'[w] \notin Running,
           \A v \in Workers \ {w} : pc'[v] = pc[v] /\ copy'[v] = copy[v],
           \A d \in Desks : pc'[d] = pc[d] /\ copy'[d] = copy[d],
           UNCHANGED <<state, gone, written, job, requeues>>,
           pc'[w] \in {"deadLetter", "bury"} => pc[w] \in {"deadLetter", "bury"},
           Buries(w) /\ state = "evaluating" /\ ~gone => Buries(w)'
    PROVE  Followed'
<1> USE DEF Followed
<1>1. OnTheJob' BY DEF OnTheJob
<1>2. Ended => Ended' BY DEF Ended, Running
<1>3. FirstRun'
  <2> SUFFICES ASSUME requeues = 0 PROVE FirstRun'
    BY DEF FirstRun
  <2>1. \A d \in Desks : pc[d] = "idle" BY DEF FirstRun
  <2>2. \A v \in Workers : pc[v] = "complete" => v # w BY DEF Running, Working
  <2> QED BY <1>2, <2>1, <2>2 DEF FirstRun
<1>4. Claims' BY <1>2 DEF Claims
<1>5. Fresh' BY DEF Fresh, Running
<1>6. LookedAfter' BY DEF LookedAfter, Buries, Enqueues
<1> QED BY <1>1, <1>3, <1>4, <1>5, <1>6

(* The dead letter of an interview that is still waiting buries it.        *)
LEMMA BuryFollowed ==
    ASSUME TypeInv, Followed, NEW w \in Workers, BuryInterview(w)
    PROVE  Followed'
<1> USE DEF Followed
<1>1. pc[w] = "bury" /\ UNCHANGED <<written, job, requeues>>
  BY DEF BuryInterview, artifact
<1>2. CASE ~Wins(w, "failed") /\ GoOn(w, "idle") /\ UNCHANGED interview
  <2>1. ~(Buries(w) /\ state = "evaluating")
    BY <1>1, <1>2 DEF Buries, Wins, CanTransition, TRANSITIONS
  <2> QED BY <1>1, <1>2, <2>1, RunMoves, AsideFollowed DEF interview, Running, Working
<1>3. CASE Wins(w, "failed") /\ WriteState(w, "failed") /\ GoOn(w, "buryRow")
  <2>1. /\ pc'[w] = "buryRow"
        /\ \A v \in Workers \ {w} : pc'[v] = pc[v] /\ copy'[v] = copy[v]
        /\ \A d \in Desks : pc'[d] = pc[d] /\ copy'[d] = copy[d]
    BY <1>3, RunMoves
  <2>2. state' = "failed" /\ gone' = gone BY <1>3 DEF WriteState
  <2>3. state = "evaluating"
    BY <1>3 DEF Wins, CanTransition, TRANSITIONS, TypeInv, RowsOK, RunStates
  <2>4. OnTheJob' BY <1>1, <2>1 DEF OnTheJob, Running, Working
  <2>5. FirstRun'
    <3> SUFFICES ASSUME requeues = 0 PROVE FirstRun'
      BY <1>1 DEF FirstRun
    <3>1. job.status \in {"none", "failed"} /\ \A d \in Desks : pc[d] = "idle"
      BY <1>1 DEF FirstRun
    <3>2. \A v \in Workers : pc[v] \notin Running BY <3>1 DEF OnTheJob
    <3>3. written = 0
      <4>1. ~(written > 0) BY <2>3, <3>2 DEF FirstRun, Running, Working
      <4> QED BY <4>1 DEF TypeInv, RowsOK
    <3>4. Ended' BY <1>1, <2>1, <3>1, <3>2, <3>3 DEF Ended, Running, Working
    <3> QED BY <1>1, <2>1, <2>2, <3>1, <3>4 DEF FirstRun
  <2>6. Claims' BY <1>1, <2>1, <2>3 DEF Claims
  <2>7. Fresh' BY <2>2 DEF Fresh
  <2>8. LookedAfter' BY <2>2 DEF LookedAfter
  <2> QED BY <2>4, <2>5, <2>6, <2>7, <2>8
<1> QED BY <1>2, <1>3 DEF BuryInterview, ApplyTransition

LEMMA WorkFollowed ==
    ASSUME TypeInv, Followed, NEW w \in Workers, Work(w)
    PROVE  Followed'
<1>1. CASE LoadInterview(w)
  <2>1. pc[w] = "read" /\ UNCHANGED <<state, gone, written, requeues>>
    BY <1>1 DEF LoadInterview, interview, artifact
  <2>2. CASE FailAttempt(w) BY <2>1, <2>2, FailFollowed
  <2>3. CASE ReadInterview(w, "mark") /\ UNCHANGED job
    BY <2>1, <2>3, RunReads, RunGoesOn DEF Working
  <2> QED BY <1>1, <2>2, <2>3 DEF LoadInterview
<1>2. ASSUME NEW step, step \in Working \ {"read", "mark"}, GoOn(w, step),
             pc[w] \in {"mark", "generate", "store", "rejectRow"},
             UNCHANGED <<state, gone, job, requeues>>, written' = written \/ step = "complete"
      PROVE  Followed'
  <2>1. state = "evaluating" => copy[w].state = "evaluating"
    BY <1>2 DEF Followed, Fresh, Working
  <2>2. step # "idle" BY <1>2 DEF Working
  <2> QED BY <1>2, <2>1, <2>2, RunMoves, RunGoesOn DEF Working
<1>3. CASE MarkGenerating(w) BY <1>2, <1>3 DEF MarkGenerating, interview, Working
<1>4. CASE Generate(w)
  <2>1. pc[w] = "generate" /\ UNCHANGED <<state, gone, written, requeues>>
    BY <1>4 DEF Generate, interview, artifact
  <2>2. CASE FailAttempt(w) BY <2>1, <2>2, FailFollowed
  <2>3. CASE (GoOn(w, "store") \/ GoOn(w, "rejectRow")) /\ UNCHANGED job
    BY <1>2, <2>1, <2>3 DEF Working
  <2> QED BY <1>4, <2>2, <2>3 DEF Generate
<1>5. CASE StoreReport(w) BY <1>2, <1>5 DEF StoreReport, interview, Working
<1>6. CASE RejectReport(w) BY <1>2, <1>6 DEF RejectReport, interview, Working
<1>7. CASE CompleteInterview(w) BY <1>7, FinishFollowed DEF CompleteInterview
<1>8. CASE RejectInterview(w) BY <1>8, FinishFollowed DEF RejectInterview
<1>9. CASE FinalizeReport(w)
  <2>1. pc[w] = "finalize" /\ UNCHANGED <<state, gone, written, requeues>>
    BY <1>9 DEF FinalizeReport, interview
  <2> QED BY <1>9, <2>1, DoneFollowed, FailFollowed DEF FinalizeReport
<1>10. CASE ReadDeadLetter(w)
  <2>1. pc[w] = "deadLetter" /\ UNCHANGED <<state, gone, written, job, requeues>>
    BY <1>10 DEF ReadDeadLetter, interview, artifact
  <2>2. CASE gone /\ Return(w)
    BY <2>1, <2>2, RunMoves, AsideFollowed DEF Return, Running, Working
  <2>3. CASE ReadInterview(w, "bury")
    BY <2>1, <2>3, RunReads, AsideFollowed DEF Buries, Running, Working
  <2> QED BY <1>10, <2>2, <2>3 DEF ReadDeadLetter
<1>11. CASE BuryReport(w)
  <2>1. pc[w] = "buryRow" /\ UNCHANGED <<state, gone, written, job, requeues>> /\ GoOn(w, "idle")
    BY <1>11 DEF BuryReport, Return, interview
  <2> QED BY <2>1, RunMoves, AsideFollowed DEF Buries, Running, Working
<1> QED BY <1>1, <1>3, <1>4, <1>5, <1>6, <1>7, <1>8, <1>9, <1>10, <1>11, BuryFollowed DEF Work

LEMMA TakeFollowed ==
    ASSUME TypeInv, Safe, Followed, NEW w \in Workers, TakeJob(w)
    PROVE  Followed'
<1> USE DEF Followed
<1>1. /\ pc[w] = "idle" /\ job.status = "waiting"
      /\ job'.status = "active" /\ job'.owner = w
      /\ UNCHANGED <<state, gone, written, requeues>>
  BY DEF TakeJob, interview, artifact, TypeInv, JobOK, Jobs
<1>2. /\ pc'[w] = "read"
      /\ \A v \in Workers \ {w} : pc'[v] = pc[v] /\ copy'[v] = copy[v]
      /\ \A d \in Desks : pc'[d] = pc[d] /\ copy'[d] = copy[d]
  BY RunMoves DEF TakeJob
<1>3. ~Ended BY <1>1 DEF Ended
<1>4. OnTheJob' BY <1>1, <1>2 DEF OnTheJob, Running, Working
<1>5. FirstRun'
  <2> SUFFICES ASSUME requeues = 0 PROVE FirstRun'
    BY <1>1 DEF FirstRun
  <2>1. /\ state # "failed" /\ \A d \in Desks : pc[d] = "idle"
        /\ \A v \in Workers : pc[v] \notin {"deadLetter", "bury"}
    BY <1>1, <1>3 DEF FirstRun
  <2>2. ~(state = "evaluating" /\ written > 0)
    BY <1>1 DEF FirstRun, OnTheJob, Running, Working
  <2> QED BY <1>1, <1>2, <2>1, <2>2 DEF FirstRun
<1>6. Claims'
  <2>1. \A d \in Desks : pc[d] \in Looking => requeues > 0 /\ copy[d].state # "failed"
    BY <1>3 DEF Claims
  <2>2. \A d \in Desks : pc[d] # "claim"
    BY <2>1 DEF Claims, Looking, Safe, CompletedIsRefused, TypeInv, Copies, RunStates, Actors
  <2> QED BY <1>1, <1>2, <2>1, <2>2 DEF Claims
<1>7. Fresh' BY <1>1, <1>2 DEF Fresh, Working
<1>8. LookedAfter' BY <1>1 DEF LookedAfter
<1> QED BY <1>4, <1>5, <1>6, <1>7, <1>8

LEMMA FollowedStep ==
    ASSUME OneRequeue, QueueIsSound
    PROVE  TypeInv /\ Safe /\ Followed /\ [Next]_vars => Followed'
<1> SUFFICES ASSUME TypeInv, Safe, Followed, [Next]_vars PROVE Followed'
  OBVIOUS
<1>1. CASE UNCHANGED <<state, gone, written, requeues, pc, copy>> /\ (UNCHANGED job \/ ForgetJob)
  <2> USE DEF Followed
  <2>1. UNCHANGED job \/ (job.status \in {"completed", "failed"} /\ job'.status = "none")
    BY <1>1 DEF ForgetJob, NoJob
  <2>2. Ended => Ended' BY <1>1, <2>1 DEF Ended
  <2>3. OnTheJob' BY <1>1, <2>1 DEF OnTheJob
  <2>4. FirstRun' BY <1>1, <2>1, <2>2 DEF FirstRun
  <2>5. Claims' BY <1>1, <2>1, <2>2 DEF Claims
  <2>6. Fresh' BY <1>1 DEF Fresh
  <2>7. LookedAfter' BY <1>1, <2>1 DEF LookedAfter, Buries, Enqueues
  <2> QED BY <2>3, <2>4, <2>5, <2>6, <2>7
<1>2. CASE StallJob
  BY <1>2 DEF StallJob, QueueIsSound, Followed, OnTheJob, Running, Working
<1>3. CASE DeleteInterview
  <2>1. UNCHANGED <<state, written, job, requeues, pc, copy>> /\ gone'
    BY <1>3 DEF DeleteInterview, artifact, actors
  <2>2. Ended' = Ended BY <2>1 DEF Ended
  <2> QED BY <2>1, <2>2 DEF Followed, OnTheJob, FirstRun, Claims, Fresh, LookedAfter
<1>4. ASSUME NEW a \in Actors, Crash(a) PROVE Followed'
  BY <1>4 DEF Crash, QueueIsSound
<1>5. CASE ForgetJob \/ UNCHANGED vars
  BY <1>1, <1>5 DEF ForgetJob, vars, interview, artifact, actors
<1> QED BY <1>2, <1>3, <1>4, <1>5, DeskFollowed, TakeFollowed, WorkFollowed DEF Next

(* With one requeue at most, and unless a process dies, a lock is lost or  *)
(* Redis refuses a job, an interview that waits for its report always has  *)
(* somebody working on it, whatever the provider, the storage and the      *)
(* candidate do: no retry, refusal or dead letter leaves it where only an  *)
(* administrator would find it.                                            *)
THEOREM NothingIsForgotten ==
    ASSUME OneRequeue, QueueIsSound
    PROVE  Spec => []NeverForgotten
<1>1. Init => Followed
  <2> SUFFICES ASSUME Init PROVE Followed OBVIOUS
  <2>1. /\ \A w \in Workers : pc[w] = "idle"
        /\ \A d \in Desks : pc[d] = IF d = Producer THEN "open" ELSE "idle"
        /\ job.status = "none" /\ state = "evaluating" /\ written = 0 /\ requeues = 0
    BY PipelineAssumption DEF Init, Actors, NoJob
  <2>2. Producer \in Desks BY PipelineAssumption
  <2> QED BY <2>1, <2>2 DEF Followed, OnTheJob, FirstRun, Claims, Fresh, LookedAfter, Enqueues,
                            Running, Working, Looking
<1>2. TypeInv /\ Followed => NeverForgotten
  <2> SUFFICES ASSUME TypeInv, LookedAfter, state = "evaluating", ~gone PROVE BeingWorkedOn
    BY DEF Followed, NeverForgotten
  <2>1. ASSUME NEW w \in Workers, Buries(w) PROVE pc[w] # "idle" /\ w \in Actors
    BY <2>1 DEF Buries, Actors
  <2>2. ASSUME NEW d \in Desks, Enqueues(d) PROVE pc[d] # "idle" /\ d \in Actors
    BY <2>2 DEF Enqueues, Actors
  <2> QED BY <2>1, <2>2 DEF LookedAfter, BeingWorkedOn
<1>3. TypeInv /\ Safe /\ Followed /\ [Next]_vars => Followed' BY FollowedStep
<1> QED BY <1>1, <1>2, <1>3, AlwaysSafe, PTL DEF Spec
=============================================================================
