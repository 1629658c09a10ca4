-------------------------- MODULE InterviewMachine --------------------------
(***************************************************************************)
(* The state machine of one interview: the table of legal edges and the    *)
(* set of endings, as `backend/modules/interview/machine.ts` lists them.   *)
(* It has no variables; the modules that write `interviews.state` share it. *)
(***************************************************************************)

InterviewStates == { "created", "profiling", "hr_round", "tech_round", "paused",
                     "evaluating", "completed", "failed", "abandoned" }

TRANSITIONS ==
    [ created    |-> {"profiling"},
      profiling  |-> {"hr_round", "abandoned"},
      hr_round   |-> {"tech_round", "evaluating", "paused", "abandoned"},
      tech_round |-> {"evaluating", "abandoned"},
      paused     |-> {"hr_round", "abandoned"},
      evaluating |-> {"completed", "failed"},
      completed  |-> {"evaluating"},
      failed     |-> {"evaluating"},
      abandoned  |-> {} ]

CanTransition(from, to) == to \in TRANSITIONS[from]

(* The states that stamp `ended_at`; two of them keep a recovery edge.     *)
TERMINAL == {"completed", "abandoned", "failed"}

(* The two states a question can be conducted in.                          *)
RoundStates == {"hr_round", "tech_round"}

EndedReasons == { "completed", "cut_short", "budget_exhausted",
                  "time_exhausted", "abandoned" }
NoReason == "none"
=============================================================================
