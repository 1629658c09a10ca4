--------------------------- MODULE ReportPipeline ---------------------------
(***************************************************************************)
(* The report of one interview, from the transition to `evaluating` to the *)
(* stored PDF: the producer (`enqueueReport`), the BullMQ job, the worker's*)
(* runs of it, the dead letter, and the administrator's requeue.           *)
(*                                                                         *)
(* Actors are worker slots and desks (API requests).  Each reads the       *)
(* interview once into copy[a] and then runs in steps, one per commit to   *)
(* Postgres or Redis, which interleave.  A worker slot stays taken while   *)
(* the `failed` listener of its job runs.                                  *)
(*                                                                         *)
(* The queue is external and modelled as the code relies on it: one job    *)
(* per id, a lock per run, a job whose lock expired is delivered again     *)
(* while its first run may go on, and a run without the lock can no longer *)
(* finish the job.                                                         *)
(***************************************************************************)
EXTENDS InterviewMachine, Naturals

CONSTANTS Workers,      \* run slots of the worker processes
          Desks,        \* API request slots
          Producer,     \* the desk whose transition to `evaluating` just committed
          Attempts,     \* REPORT_JOB_OPTIONS.attempts
          ReportFaults, \* what may go wrong: see ReportFaultKinds
          MaxStalls,    \* times a job is redelivered for a lost lock (BullMQ's maxStalledCount)
          MaxRequeues   \* bound: requeues that read the interview

ReportFaultKinds == { "provider",  \* the generation throws
                      "invalid",   \* the generation returns what the schema refuses
                      "storage",   \* rendering or storing the PDF throws
                      "stall",     \* a run that goes on loses its lock
                      "crash",     \* a process dies between two commits
                      "redis",     \* a job cannot be added
                      "delete" }   \* the candidate deletes the interview

(* The owner of a job no run has locked.                                   *)
Nobody == "nobody"

ASSUME PipelineAssumption ==
    /\ Workers \cap Desks = {} /\ Producer \in Desks /\ Nobody \notin Workers
    /\ Attempts \in Nat \ {0}
    /\ ReportFaults \subseteq ReportFaultKinds
    /\ MaxStalls \in Nat /\ MaxRequeues \in Nat

VARIABLES
    state, stamps, gone,     \* interviews: state, times ended_at was written, deleted_at
    report, written, pdf,    \* reports: status, times a payload was stored, pdf_key
    job,                     \* the queue's job of this interview
    pc, copy,                \* the actors
    requeues                 \* requeues so far

interview == <<state, stamps, gone>>
artifact  == <<report, written, pdf>>
actors    == <<pc, copy>>
vars      == <<interview, artifact, job, actors, requeues>>

Actors == Workers \cup Desks

DeskSteps == {"checkReport", "checkJob", "claim", "reopen", "readd", "remove", "open", "add"}
WorkerSteps == {"read", "mark", "generate", "store", "complete", "rejectRow", "reject",
                "finalize", "deadLetter", "bury", "buryRow"}

Statuses  == {"none", "queued", "generating", "failed", "ready"}
RunStates == {"evaluating", "completed", "failed"}
Copies    == [state : RunStates, ended : BOOLEAN]

NoJob    == [status |-> "none", made |-> 0, owner |-> Nobody, stalls |-> 0]
FreshJob == [NoJob EXCEPT !.status = "waiting"]
Blank    == [state |-> "evaluating", ended |-> FALSE]

Jobs == [status : {"none", "waiting", "active", "completed", "failed"}, made : 0..Attempts,
         owner : Workers \cup {Nobody}, stalls : 0..MaxStalls]

Init ==
    /\ state = "evaluating" /\ stamps = 0 /\ gone = FALSE
    /\ report = "none" /\ written = 0 /\ pdf = FALSE
    /\ job = NoJob
    /\ pc = [a \in Actors |-> IF a = Producer THEN "open" ELSE "idle"]
    /\ copy = [a \in Actors |-> Blank]
    /\ requeues = 0
-----------------------------------------------------------------------------
(* Moving an actor on.                                                     *)

GoOn(a, step) ==
    /\ pc' = [pc EXCEPT ![a] = step]
    /\ copy' = IF step = "idle" THEN [copy EXCEPT ![a] = Blank] ELSE copy

Return(a) == GoOn(a, "idle")

ReadInterview(a, step) ==
    /\ pc' = [pc EXCEPT ![a] = step]
    /\ copy' = [copy EXCEPT ![a] = [state |-> state, ended |-> stamps > 0]]

(* `applyTransition`: the table on the copy, then the compare-and-set; the *)
(* ending is stamped by a copy that had none.                              *)
Wins(a, to) == CanTransition(copy[a].state, to) /\ state = copy[a].state

WriteState(a, to) ==
    /\ state' = to
    /\ stamps' = IF to \in TERMINAL /\ ~copy[a].ended THEN stamps + 1 ELSE stamps
    /\ UNCHANGED gone

(* The state moves and the actor goes on at `won`, or it does not and goes *)
(* on at `lost`.                                                           *)
ApplyTransition(a, to, won, lost) ==
    \/ Wins(a, to) /\ WriteState(a, to) /\ GoOn(a, won)
    \/ ~Wins(a, to) /\ GoOn(a, lost) /\ UNCHANGED interview
-----------------------------------------------------------------------------
(* `enqueueReport`: the row first, then the job.  An id the queue still    *)
(* remembers is not added again.                                           *)

(* The two statements of `openReportRow`: they take effect with the second *)
(* one, as the first leaves a row there is alone.                          *)
OpenRow == report' = IF report \in {"none", "generating", "failed"} THEN "queued" ELSE report

OpenReportRow(d) ==
    /\ \/ pc[d] = "open" /\ GoOn(d, "add")
       \/ pc[d] = "reopen" /\ GoOn(d, "readd")
    /\ OpenRow
    /\ UNCHANGED <<interview, written, pdf, job, requeues>>

AddJob(d) ==
    /\ \/ pc[d] = "add" /\ Return(d)
       \/ pc[d] = "readd" /\ GoOn(d, "remove")
    /\ job' = IF job.status = "none" THEN FreshJob ELSE job
    /\ UNCHANGED <<interview, artifact, requeues>>

LoseRedis(d) ==
    /\ "redis" \in ReportFaults
    /\ pc[d] \in {"add", "readd"}
    /\ Return(d)
    /\ UNCHANGED <<interview, artifact, job, requeues>>
-----------------------------------------------------------------------------
(* POST /admin/interviews/:id/report/requeue.                              *)

RequeueReport(d) ==
    /\ pc[d] = "idle" /\ ~gone /\ requeues < MaxRequeues
    /\ requeues' = requeues + 1
    /\ ReadInterview(d, "checkReport")
    /\ UNCHANGED <<interview, artifact, job>>

RefusesNothing(d) == FALSE

RefusesFinished(d) == report = "ready" /\ copy[d].state # "evaluating"

CheckReport(d) ==
    /\ pc[d] = "checkReport"
    /\ \/ RefusesFinished(d) /\ Return(d)
       \/ ~RefusesFinished(d) /\ GoOn(d, "checkJob")
    /\ UNCHANGED <<interview, artifact, job, requeues>>

CheckJob(d) ==
    /\ pc[d] = "checkJob"
    /\ \/ job.status = "active" /\ Return(d)
       \/ /\ job.status # "active"
          /\ GoOn(d, IF copy[d].state = "evaluating" THEN "remove" ELSE "claim")
    /\ UNCHANGED <<interview, artifact, job, requeues>>

(* The transition enqueues by itself before the queue is cleaned.          *)
ClaimEvaluating(d) ==
    /\ pc[d] = "claim"
    /\ ApplyTransition(d, "evaluating", "reopen", "idle")
    /\ UNCHANGED <<artifact, job, requeues>>

JobKept == job

(* The queue keeps a job that is locked by its run.                        *)
JobRemoved == IF job.status = "active" THEN job ELSE NoJob

RemoveJob(d) ==
    /\ pc[d] = "remove"
    /\ job' = JobRemoved
    /\ GoOn(d, "open")
    /\ UNCHANGED <<interview, artifact, requeues>>
-----------------------------------------------------------------------------
(* The queue and the worker's run of a job.                                *)

TakeJob(w) ==
    /\ pc[w] = "idle" /\ job.status = "waiting"
    /\ job' = [job EXCEPT !.status = "active", !.owner = w]
    /\ GoOn(w, "read")
    /\ UNCHANGED <<interview, artifact, requeues>>

(* The lock of a dead or a blocked run expires: the job is delivered again, *)
(* or, past the stalls the queue allows, failed.  The `failed` listener     *)
(* takes that for a retry, as no attempt was counted.                       *)
StallJob ==
    /\ job.status = "active"
    /\ pc[job.owner] = "idle" \/ "stall" \in ReportFaults
    /\ \/ /\ job.stalls < MaxStalls
          /\ job' = [job EXCEPT !.status = "waiting", !.owner = Nobody, !.stalls = @ + 1]
       \/ /\ job.stalls = MaxStalls
          /\ job' = [job EXCEPT !.status = "failed", !.owner = Nobody]
    /\ UNCHANGED <<interview, artifact, actors, requeues>>

(* Past its retention the queue forgets a finished job.                    *)
ForgetJob ==
    /\ job.status \in {"completed", "failed"}
    /\ job' = NoJob
    /\ UNCHANGED <<interview, artifact, actors, requeues>>

Holds(w) == job.owner = w

JobDone(w) ==
    job' = IF Holds(w) THEN [job EXCEPT !.status = "completed", !.owner = Nobody] ELSE job

RetriesOneMore(made) == made <= Attempts

Retries(made) == made < Attempts

(* `failed` is emitted with the attempts made so far, this one included.   *)
PastLastAttempt(made) == made > Attempts

LastAttempt(made) == made >= Attempts

(* A throw fails the attempt: the queue retries it or keeps it as failed,  *)
(* and the listener acts on the last one only.                             *)
FailAttempt(w) ==
    \/ ~Holds(w) /\ Return(w) /\ UNCHANGED job
    \/ /\ Holds(w)
       /\ job' = [job EXCEPT !.made = @ + 1, !.owner = Nobody,
                             !.status = IF Retries(job.made + 1) THEN "waiting" ELSE "failed"]
       /\ IF LastAttempt(job.made + 1) THEN GoOn(w, "deadLetter") ELSE Return(w)

LoadInterview(w) ==
    /\ pc[w] = "read"
    /\ \/ gone /\ FailAttempt(w)
       \/ ~gone /\ ReadInterview(w, "mark") /\ UNCHANGED job
    /\ UNCHANGED <<interview, artifact, requeues>>

MarkGenerating(w) ==
    /\ pc[w] = "mark"
    /\ report' = IF report \in {"queued", "failed"} THEN "generating" ELSE report
    /\ GoOn(w, "generate")
    /\ UNCHANGED <<interview, written, pdf, job, requeues>>

Generate(w) ==
    /\ pc[w] = "generate"
    /\ \/ GoOn(w, "store") /\ UNCHANGED job
       \/ "invalid" \in ReportFaults /\ GoOn(w, "rejectRow") /\ UNCHANGED job
       \/ "provider" \in ReportFaults /\ FailAttempt(w)
    /\ UNCHANGED <<interview, artifact, requeues>>

ClaimsAlways == TRUE

ClaimsGenerating == report = "generating"

ClaimsUnfinished == report # "ready"

(* One transaction under the advisory lock: whoever finds the row not      *)
(* ready stores its payload, a loser stores nothing.                       *)
StoreReport(w) ==
    /\ pc[w] = "store"
    /\ \/ /\ ClaimsUnfinished
          /\ report' = "ready" /\ written' = written + 1
       \/ ~ClaimsUnfinished /\ UNCHANGED <<report, written>>
    /\ GoOn(w, "complete")
    /\ UNCHANGED <<interview, pdf, job, requeues>>

(* The consumer swallows a refused transition and goes on.                 *)
CompleteInterview(w) ==
    /\ pc[w] = "complete"
    /\ ApplyTransition(w, "completed", "finalize", "finalize")
    /\ UNCHANGED <<artifact, job, requeues>>

(* `updateMany` on a row that is there and not ready.                      *)
FailRow == report' = IF report \in {"none", "ready"} THEN report ELSE "failed"

RejectReport(w) ==
    /\ pc[w] = "rejectRow"
    /\ FailRow
    /\ GoOn(w, "reject")
    /\ UNCHANGED <<interview, written, pdf, job, requeues>>

RejectInterview(w) ==
    /\ pc[w] = "reject"
    /\ ApplyTransition(w, "failed", "finalize", "finalize")
    /\ UNCHANGED <<artifact, job, requeues>>

CompletedHasPayload == written > 0 /\ state = "completed"

HasPayload == written > 0

(* Without a payload there is nothing to render.                           *)
FinalizeReport(w) ==
    /\ pc[w] = "finalize"
    /\ \/ ~HasPayload /\ UNCHANGED pdf /\ JobDone(w) /\ Return(w)
       \/ HasPayload /\ pdf' = TRUE /\ JobDone(w) /\ Return(w)
       \/ HasPayload /\ "storage" \in ReportFaults /\ UNCHANGED pdf /\ FailAttempt(w)
    /\ UNCHANGED <<interview, report, written, requeues>>
-----------------------------------------------------------------------------
(* The dead letter: reads the interview afresh, and does nothing to one    *)
(* that is gone or has left `evaluating`.                                  *)

ReadDeadLetter(w) ==
    /\ pc[w] = "deadLetter"
    /\ \/ gone /\ Return(w)
       \/ ~gone /\ ReadInterview(w, "bury")
    /\ UNCHANGED <<interview, artifact, job, requeues>>

BuryInterview(w) ==
    /\ pc[w] = "bury"
    /\ ApplyTransition(w, "failed", "buryRow", "idle")
    /\ UNCHANGED <<artifact, job, requeues>>

BuryReport(w) ==
    /\ pc[w] = "buryRow"
    /\ FailRow
    /\ Return(w)
    /\ UNCHANGED <<interview, written, pdf, job, requeues>>
-----------------------------------------------------------------------------
(* The environment.                                                        *)

DeleteInterview ==
    /\ "delete" \in ReportFaults /\ ~gone
    /\ gone' = TRUE
    /\ UNCHANGED <<state, stamps, artifact, job, actors, requeues>>

(* The lock of a dead run stays until it expires.                          *)
Crash(a) ==
    /\ "crash" \in ReportFaults /\ pc[a] # "idle"
    /\ Return(a)
    /\ UNCHANGED <<interview, artifact, job, requeues>>

AtDesk(d) ==
    \/ OpenReportRow(d) \/ AddJob(d) \/ LoseRedis(d)
    \/ CheckReport(d) \/ CheckJob(d) \/ ClaimEvaluating(d) \/ RemoveJob(d)

Work(w) ==
    \/ LoadInterview(w) \/ MarkGenerating(w) \/ Generate(w) \/ StoreReport(w)
    \/ CompleteInterview(w) \/ RejectReport(w) \/ RejectInterview(w) \/ FinalizeReport(w)
    \/ ReadDeadLetter(w) \/ BuryInterview(w) \/ BuryReport(w)

Next ==
    \/ \E d \in Desks : RequeueReport(d) \/ AtDesk(d)
    \/ \E w \in Workers : TakeJob(w) \/ Work(w)
    \/ StallJob \/ ForgetJob \/ DeleteInterview
    \/ \E a \in Actors : Crash(a)

Spec == Init /\ [][Next]_vars
=============================================================================
