-------------------------- MODULE ReportProperties --------------------------
(***************************************************************************)
(* What the ReportPipeline model is checked for.                           *)
(***************************************************************************)
EXTENDS ReportPipeline

(* The shape of every variable; ended_at is written at most once a requeue *)
(* and the stale copies it leaves behind.                                  *)
TypeOK ==
    /\ state \in RunStates /\ stamps \in Nat /\ gone \in BOOLEAN
    /\ report \in Statuses /\ written \in Nat /\ pdf \in BOOLEAN
    /\ job \in Jobs
    /\ pc \in [Actors -> {"idle"} \cup DeskSteps \cup WorkerSteps]
    /\ copy \in [Actors -> Copies]
    /\ requeues \in 0..MaxRequeues

(* However often the job is delivered, retried or requeued, one payload is *)
(* stored: runs of one report overlap when a lock is lost.                 *)
StoredOnce == written <= 1

(* An interview said to be completed has its report: the row is stored in  *)
(* a commit before the state moves, and nothing takes it back.             *)
CompletedHasReport == state = "completed" => report = "ready"

(* The pipeline keeps the promise of ReportDelivery: a stored report stays *)
(* ready, completed is reached with it only, and is final even though the  *)
(* table has an edge out of it.                                            *)
Delivery == INSTANCE ReportDelivery WITH delivered <- report = "ready"
KeepsPromise == Delivery!Spec

(* An interview waiting for its report has somebody working on it: a job   *)
(* the queue will deliver, a run, a dead letter or a request on its way to *)
(* the queue.  Otherwise it waits until an administrator looks at it.      *)
BeingWorkedOn ==
    \/ job.status \in {"waiting", "active"}
    \/ \E a \in Actors : pc[a] # "idle"

NeverForgotten == state = "evaluating" /\ ~gone => BeingWorkedOn

(* Runs and requests go on to their end, and the worker takes waiting jobs. *)
Fairness ==
    /\ \A d \in Desks : WF_vars(AtDesk(d))
    /\ \A w \in Workers : WF_vars(TakeJob(w)) /\ WF_vars(Work(w))

FairSpec == Spec /\ Fairness

(* The candidate gets an answer: whatever the provider and the storage do, *)
(* the attempts run out and the interview leaves `evaluating`.             *)
Settles == (state = "evaluating" /\ ~gone) ~> (state # "evaluating" \/ gone)

(* A stored report is rendered, by whichever run stored it, even when its  *)
(* transition was refused.                                                 *)
ReadyIsRendered == report = "ready" ~> pdf
=============================================================================
