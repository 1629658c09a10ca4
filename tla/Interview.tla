----------------------------- MODULE Interview ------------------------------
(***************************************************************************)
(* One interview from creation to the moment its report is asked for,      *)
(* driven by concurrent API requests and the worker's stale sweep.         *)
(*                                                                         *)
(* A request is a slot r of Requests.  Its handler reads the interview row *)
(* once (`resolveInterview`) into copy[r] and then runs in steps, one per  *)
(* database commit: everything between two awaits that commit is one       *)
(* action, and other requests interleave between them.  Writes are the     *)
(* code's compare-and-sets: on `state` (machine.ts) and on `current_index` *)
(* (answers.ts).                                                           *)
(*                                                                         *)
(* A generation runs under the interview's budget lock (budget.ts), so its *)
(* check, provider call and insert are one action here: nobody else can    *)
(* write a batch in between.                                               *)
(*                                                                         *)
(* The operators no action uses (TransitionByCopy, EnqueueNothing, ...)    *)
(* stand before the one each is a slip of: PROJECT.json swaps them in to   *)
(* see the properties fail.                                                *)
(***************************************************************************)
EXTENDS Integers, FiniteSets, ConductorRules

CONSTANTS Requests,        \* request slots; each is reused once its handler returned
          SetupRequest,    \* the slot POST /interviews is running in at the start
          MaxTurns,        \* CONDUCTOR_MAX_TURNS
          Faults,          \* what may go wrong: see FaultKinds
          Overlaps,        \* handlers of one kind that may overlap: see OverlapKinds
          Entries,         \* the entry points in use: see EntryKinds
          RowCap           \* bound: candidate turns after which no new one arrives

FaultKinds == { "provider",  \* an AI call fails and generateRound pauses the interview
                "internal",  \* a generation fails with an error that does not pause
                "budget",    \* the interview's spend reaches its budget
                "crash",     \* the process dies between two commits
                "redis" }    \* the report job cannot be enqueued

OverlapKinds == { "starts",  \* two handlers starting the interview
                  "moves" }  \* two of: turns (the opening one too), answers, resumes

EntryKinds == { "profile", "resume", "answer", "utterance", "silence", "speech",
                "leave", "sweep", "delete" }

ASSUME InterviewAssumption ==
    /\ SetupRequest \in Requests
    /\ MaxTurns \in Nat \ {0}
    /\ Faults \subseteq FaultKinds
    /\ Overlaps \subseteq OverlapKinds
    /\ Entries \subseteq EntryKinds
    /\ RowCap \in Nat

VARIABLES
    state, index, reason, ended, gone,  \* the interviews row
    batches,                            \* rounds whose questions are in the database
    said,                               \* questions an assistant row was written for
    words,                              \* questions a user row was written for
    turns, total,                       \* turn rows (user or silence): per question, in all
    moved, stayed,                      \* answers rows, by the write that made them
    queued,                             \* the report row and job exist
    spent,                              \* spent_usd >= budget_usd
    pc, copy, plan                      \* the handlers in flight

row      == <<state, index, reason, ended, gone>>
chat     == <<said, words, turns, total>>
answers  == <<moved, stayed>>
handlers == <<pc, copy, plan>>
vars     == <<row, batches, chat, answers, queued, spent, handlers>>

Steps == { "idle", "listing", "setup", "claim", "seed", "start", "generate",
           "load", "speak", "ask", "say", "record", "batch", "move", "greet",
           "hand", "closing", "end", "enqueue", "pause",
           "regenerate", "unpause", "refill", "rejoin", "quit" }

Copies == [state : InterviewStates, index : 0..(Target + 1)]
Blank  == [state |-> "created", index |-> 0]

(* What a handler has decided so far: its input, what it does with the     *)
(* question, the ending it writes, where a failed generation continues,    *)
(* and what it read of the conversation.                                   *)
Inputs == {"none", "opening", "utterance", "silence"}
Acts   == {"none", "answer", "next_question", "handover", "resume", "leave", "sweep"}

Plans == [ input : Inputs, act : Acts, why : EndedReasons \cup {NoReason},
           after : {"idle", "move"}, asked : BOOLEAN, onQuestion : Nat, total : Nat ]
NoPlan == [ input |-> "none", act |-> "none", why |-> NoReason, after |-> "idle",
            asked |-> FALSE, onQuestion |-> 0, total |-> 0 ]

OpeningPlan == [NoPlan EXCEPT !.input = "opening"]

Init ==
    /\ state = "created" /\ index = 0 /\ reason = NoReason /\ ended = FALSE /\ gone = "no"
    /\ batches = {} /\ said = {} /\ words = {}
    /\ turns = [q \in Questions |-> 0] /\ total = 0
    /\ moved = [q \in Questions |-> 0] /\ stayed = [q \in Questions |-> 0]
    /\ queued = FALSE /\ spent = FALSE
    /\ pc = [r \in Requests |-> IF r = SetupRequest THEN "listing" ELSE "idle"]
    /\ copy = [r \in Requests |-> Blank]
    /\ plan = [r \in Requests |-> NoPlan]
-----------------------------------------------------------------------------
(* Reading.                                                                *)

HasBatch(round) == round \in batches /\ RoundCount(round) > 0

(* `currentQuestionRow`: the index picks the round, the row must be there. *)
QuestionAt(i) == i \in Questions /\ HasBatch(RoundOf(i))

Answered == {q \in Questions : moved[q] + stayed[q] > 0}

Starting == {r \in Requests : pc[r] \in {"claim", "seed", "start"}}

Moving == {r \in Requests : plan[r].act \in {"answer", "resume"} \/ plan[r].input # "none"}
-----------------------------------------------------------------------------
(* Moving a handler on.                                                    *)

Finish(r) ==
    /\ pc' = [pc EXCEPT ![r] = "idle"]
    /\ copy' = [copy EXCEPT ![r] = Blank]
    /\ plan' = [plan EXCEPT ![r] = NoPlan]

Goto(r, step, p) ==
    /\ pc' = [pc EXCEPT ![r] = step]
    /\ plan' = [plan EXCEPT ![r] = p]
    /\ UNCHANGED copy

Continue(r, step) == IF step = "idle" THEN Finish(r) ELSE Goto(r, step, plan[r])

Enter(r, step, p) ==
    /\ pc[r] = "idle" /\ gone = "no"
    /\ pc' = [pc EXCEPT ![r] = step]
    /\ copy' = [copy EXCEPT ![r] = [state |-> state, index |-> index]]
    /\ plan' = [plan EXCEPT ![r] = p]
    /\ UNCHANGED <<row, batches, chat, answers, queued, spent>>
-----------------------------------------------------------------------------
(* `applyTransition`: the table is checked against the handler's copy, the *)
(* write is a compare-and-set on the row, and reaching `evaluating` makes  *)
(* the same handler enqueue the report.                                    *)

TransitionByCopy(r, to) == CanTransition(copy[r].state, to)

TransitionAllowed(r, to) == CanTransition(copy[r].state, to) /\ state = copy[r].state

EnqueueNothing(to, won) == won

AfterWrite(to, won) == IF to = "evaluating" THEN "enqueue" ELSE won

WriteState(to, why) ==
    /\ state' = to
    /\ reason' = IF why = NoReason THEN reason ELSE why
    /\ ended' = (ended \/ to \in TERMINAL)
    /\ UNCHANGED <<index, gone>>

ApplyTransition(r, to, why, won, lost) ==
    /\ \/ /\ TransitionAllowed(r, to)
          /\ WriteState(to, why)
          /\ LET next == AfterWrite(to, won)
             IN  IF next = "idle" THEN Finish(r)
                 ELSE /\ pc' = [pc EXCEPT ![r] = next]
                      /\ copy' = [copy EXCEPT ![r].state = to]
                      /\ UNCHANGED plan
       \/ /\ ~TransitionAllowed(r, to)
          /\ Continue(r, lost)
          /\ UNCHANGED row
    /\ UNCHANGED <<batches, chat, answers, queued, spent>>

(* The enqueue is not wrapped: when Redis refuses, the request fails and   *)
(* the interview stays in `evaluating` without a job.                      *)
Enqueue(r) ==
    /\ pc[r] = "enqueue"
    /\ \/ queued' = TRUE
       \/ "redis" \in Faults /\ UNCHANGED queued
    /\ Finish(r)
    /\ UNCHANGED <<row, batches, chat, answers, spent>>
-----------------------------------------------------------------------------
(* `generateRound` under `withBudgetOrEnd`: the budget is read under the   *)
(* lock, a full round is left alone, a failed AI call pauses.              *)

GenerateRound(r, round, done, failed) ==
    /\ \/ /\ spent
          /\ Goto(r, "end", [plan[r] EXCEPT !.why = "budget_exhausted"])
          /\ UNCHANGED batches
       \/ /\ ~spent
          /\ batches' = batches \cup {round}
          /\ Continue(r, done)
       \/ /\ ~spent /\ ~HasBatch(round) /\ "provider" \in Faults
          /\ Goto(r, "pause", [plan[r] EXCEPT !.after = failed])
          /\ UNCHANGED batches
       \/ /\ "internal" \in Faults
          /\ Continue(r, failed)
          /\ UNCHANGED batches
    /\ UNCHANGED <<row, chat, answers, queued, spent>>

(* A pause that cannot be written is swallowed.                            *)
Pause(r) ==
    /\ pc[r] = "pause"
    /\ ApplyTransition(r, "paused", NoReason, plan[r].after, plan[r].after)
-----------------------------------------------------------------------------
(* POST /interviews: the row exists while the listing is being checked.    *)

CheckListing(r) ==
    /\ pc[r] = "listing"
    /\ \/ Goto(r, "setup", NoPlan) /\ UNCHANGED row
       \/ Finish(r) /\ gone' = "listing" /\ UNCHANGED <<state, index, reason, ended>>
    /\ UNCHANGED <<batches, chat, answers, queued, spent>>

OpenProfiling(r) ==
    /\ pc[r] = "setup"
    /\ ApplyTransition(r, "profiling", NoReason, "idle", "idle")
-----------------------------------------------------------------------------
(* POST /profile, and POST /resume before the first round.                 *)

MayStart == "starts" \in Overlaps \/ Starting = {}

SubmitProfile(r) ==
    /\ "profile" \in Entries /\ MayStart
    /\ state = "profiling"
    /\ Enter(r, "seed", OpeningPlan)

StartableOrPaused == {"created", "profiling", "paused"}

Startable == {"created", "profiling"}

ResumeBeforeStart(r) ==
    /\ "resume" \in Entries /\ MayStart
    /\ state \in Startable
    /\ Enter(r, IF state = "created" THEN "claim" ELSE "seed", OpeningPlan)

ClaimProfiling(r) ==
    /\ pc[r] = "claim"
    /\ ApplyTransition(r, "profiling", NoReason, "seed", "idle")

(* `startHrRound` writes the index with no guard, and goes on with the row *)
(* that write returned.                                                    *)
SeedIndex(r) ==
    /\ pc[r] = "seed"
    /\ index' = 1
    /\ pc' = [pc EXCEPT ![r] = "start"]
    /\ copy' = [copy EXCEPT ![r] = [state |-> state, index |-> 1]]
    /\ UNCHANGED <<state, reason, ended, gone, batches, chat, answers, queued, spent, plan>>

StartHrRound(r) ==
    /\ pc[r] = "start"
    /\ ApplyTransition(r, "hr_round", NoReason, "generate", "idle")

(* Best-effort greeting afterwards: `openRound` is a turn with no input.   *)
GenerateHrBatch(r) ==
    /\ pc[r] = "generate"
    /\ GenerateRound(r, "hr", "load", "idle")
-----------------------------------------------------------------------------
(* POST /answers.                                                          *)

MayMove == "moves" \in Overlaps \/ Moving = {}

SubmitAnswer(r) ==
    /\ "answer" \in Entries /\ MayMove /\ total < RowCap
    /\ state \in RoundStates
    /\ QuestionAt(index)
    /\ Enter(r, "record", [NoPlan EXCEPT !.act = "answer"])

(* POST /turns and POST /turns/audio.                                      *)
SubmitTurn(r, input) ==
    /\ input \in Entries /\ MayMove /\ total < RowCap
    /\ state \in RoundStates
    /\ Enter(r, "load", [NoPlan EXCEPT !.input = input])

(* `runTurn` reads the question and the conversation.  No question is a    *)
(* 409; an opening turn whose question was asked has nothing to do.        *)
Opening(r) == plan[r].input = "opening"

LoadConversation(r) ==
    /\ pc[r] = "load"
    /\ LET q == copy[r].index
       IN  IF ~QuestionAt(q) \/ (Opening(r) /\ q \in said)
           THEN Finish(r)
           ELSE Goto(r, IF Opening(r) THEN "ask" ELSE "speak",
                     [plan[r] EXCEPT !.asked = q \in said,
                                     !.onQuestion = turns[q],
                                     !.total = total])
    /\ UNCHANGED <<row, batches, chat, answers, queued, spent>>

CountNoTurn(q) == UNCHANGED <<turns, total>>

CountTurn(q) ==
    /\ turns' = [turns EXCEPT ![q] = @ + 1]
    /\ total' = total + 1

(* The candidate's words, or the silence row that stands for them: either  *)
(* one spends a turn of both ceilings.                                     *)
Speak(r) ==
    /\ pc[r] = "speak"
    /\ CountTurn(copy[r].index)
    /\ words' = IF plan[r].input = "utterance" THEN words \cup {copy[r].index} ELSE words
    /\ Goto(r, "ask", [plan[r] EXCEPT !.onQuestion = @ + 1, !.total = @ + 1])
    /\ UNCHANGED <<said, row, batches, answers, queued, spent>>

EndWith(r, why) == Goto(r, "closing", [plan[r] EXCEPT !.why = why])

RecordAs(r, act) == Goto(r, "record", [plan[r] EXCEPT !.act = act])

(* `applyAction` on the clamped action; a handover with no technical       *)
(* question to hand over to ends the interview instead.                    *)
Perform(r, action) ==
    \/ action = "continue" /\ Goto(r, "say", plan[r])
    \/ action \in {"next_question", "drift"} /\ RecordAs(r, "next_question")
    \/ action = "handover" /\ HrCount + 1 > Target /\ EndWith(r, "completed")
    \/ action = "handover" /\ HrCount + 1 <= Target /\ RecordAs(r, "handover")
    \/ action = "end_completed" /\ EndWith(r, "completed")
    \/ action = "end_cut_short" /\ EndWith(r, "cut_short")

(* The model's turn.  An unreachable provider is the request for           *)
(* `next_question`; a question not asked yet is asked, whatever came back. *)
AskConductor(r) ==
    /\ pc[r] = "ask"
    /\ \/ plan[r].total > MaxTurns /\ EndWith(r, "cut_short")
       \/ plan[r].total <= MaxTurns /\ spent /\ EndWith(r, "budget_exhausted")
       \/ /\ plan[r].total <= MaxTurns /\ ~spent /\ ~plan[r].asked
          /\ Goto(r, "say", plan[r])
       \/ /\ plan[r].total <= MaxTurns /\ ~spent /\ plan[r].asked
          /\ \E wanted \in Requested :
                Perform(r, Clamp(wanted, copy[r].state, copy[r].index, plan[r].onQuestion))
    /\ UNCHANGED <<row, batches, chat, answers, queued, spent>>

Say(r) ==
    /\ pc[r] = "say"
    /\ said' = said \cup {copy[r].index}
    /\ Finish(r)
    /\ UNCHANGED <<words, turns, total, row, batches, answers, queued, spent>>
-----------------------------------------------------------------------------
(* `recordAnswer`: the compare-and-set on `current_index` and the answer   *)
(* row are one transaction.  POST /answers also stores the words.          *)

IndexUnmoved(r) == index = copy[r].index

(* Mutant: the index stays.                                                *)
IndexKept(r) == copy[r].index
(* Mutant: a handover adds the length of the HR block.                     *)
HandOverByCount(r) == copy[r].index + (IF plan[r].act = "handover" THEN HrCount ELSE 1)

IndexAfter(r) == IF plan[r].act = "handover" THEN HrCount + 1 ELSE copy[r].index + 1

StoresUnlessHandedOver(r) ==
    plan[r].act = "answer" \/ (plan[r].act # "handover" /\ copy[r].index \in words)

(* An answer nobody said anything for writes no row.                       *)
StoresAnswer(r) == plan[r].act = "answer" \/ copy[r].index \in words

RecordAnswer(r) ==
    /\ pc[r] = "record"
    /\ LET q  == copy[r].index
           to == IndexAfter(r)
           next == IF plan[r].act = "handover" THEN "hand"
                   ELSE IF copy[r].state = "hr_round" THEN "batch" ELSE "move"
       IN  \/ /\ IndexUnmoved(r)
              /\ index' = to
              /\ moved' = IF StoresAnswer(r) THEN [moved EXCEPT ![q] = @ + 1] ELSE moved
              /\ IF plan[r].act = "answer"
                 THEN CountTurn(q) /\ words' = words \cup {q}
                 ELSE UNCHANGED <<words, turns, total>>
              /\ pc' = [pc EXCEPT ![r] = next]
              /\ copy' = [copy EXCEPT ![r].index = to]
              /\ UNCHANGED <<state, reason, ended, gone, plan>>
           \/ /\ ~IndexUnmoved(r)
              /\ Finish(r)
              /\ UNCHANGED <<row, moved, words, turns, total>>
    /\ UNCHANGED <<said, stayed, batches, queued, spent>>

(* The technical batch is made during the HR round.  A failure other than  *)
(* the budget's is swallowed: the answer is already stored.                *)
EnsureTechBatch(r) ==
    /\ pc[r] = "batch"
    /\ GenerateRound(r, "tech", "move", "move")

AfterMove(r) == IF plan[r].act = "answer" THEN "idle" ELSE "greet"

ReachedHrEnd(i) == i >= HrCount
PastHr(i) == i > HrCount

PastTarget(i) == i > Target

MoveRound(r) ==
    /\ pc[r] = "move"
    /\ \/ /\ copy[r].state \in RoundStates /\ PastTarget(copy[r].index)
          /\ ApplyTransition(r, "evaluating", NoReason, "idle", "idle")
       \/ /\ copy[r].state = "hr_round"
          /\ ~PastTarget(copy[r].index) /\ PastHr(copy[r].index)
          /\ ApplyTransition(r, "tech_round", NoReason, AfterMove(r), "idle")
       \/ /\ \/ copy[r].state \notin RoundStates
             \/ /\ ~PastTarget(copy[r].index)
                /\ copy[r].state = "hr_round" => ~PastHr(copy[r].index)
          /\ Continue(r, AfterMove(r))
          /\ UNCHANGED <<row, batches, chat, answers, queued, spent>>

(* The turn that advanced asks the next question, when there is one.       *)
AskNext(r) ==
    /\ pc[r] = "greet"
    /\ said' = IF QuestionAt(copy[r].index) THEN said \cup {copy[r].index} ELSE said
    /\ Finish(r)
    /\ UNCHANGED <<words, turns, total, row, batches, answers, queued, spent>>

(* `handover`: the index has jumped; now the state, then the new persona's *)
(* own opening turn.                                                       *)
HandOver(r) ==
    /\ pc[r] = "hand"
    /\ \/ /\ TransitionAllowed(r, "tech_round")
          /\ WriteState("tech_round", NoReason)
          /\ pc' = [pc EXCEPT ![r] = "load"]
          /\ copy' = [copy EXCEPT ![r].state = "tech_round"]
          /\ plan' = [plan EXCEPT ![r] = OpeningPlan]
       \/ ~TransitionAllowed(r, "tech_round") /\ Finish(r) /\ UNCHANGED row
    /\ UNCHANGED <<batches, chat, answers, queued, spent>>
-----------------------------------------------------------------------------
(* `endInterview`: the closing answer is written with the index left where *)
(* it is, then the interview moves to `evaluating`.                        *)

RecordClosing(r) ==
    /\ pc[r] = "closing"
    /\ LET q == copy[r].index
       IN  \/ q \notin words /\ Goto(r, "end", plan[r]) /\ UNCHANGED stayed
           \/ /\ q \in words /\ IndexUnmoved(r)
              /\ stayed' = [stayed EXCEPT ![q] = @ + 1]
              /\ Goto(r, "end", plan[r])
           \/ q \in words /\ ~IndexUnmoved(r) /\ Finish(r) /\ UNCHANGED stayed
    /\ UNCHANGED <<row, moved, batches, chat, queued, spent>>

EndInterview(r) ==
    /\ pc[r] = "end"
    /\ ApplyTransition(r, "evaluating", plan[r].why, "idle", "idle")

(* A speech request past the time ceiling, or whose paid call finds the    *)
(* budget gone, ends the interview without recording anything.             *)
SpeechCeiling(r) ==
    /\ "speech" \in Entries
    /\ state \in RoundStates
    /\ \E why \in {"time_exhausted"} \cup (IF spent THEN {"budget_exhausted"} ELSE {}) :
          Enter(r, "end", [NoPlan EXCEPT !.why = why])
-----------------------------------------------------------------------------
(* POST /resume once the interview started.  A round with no questions is  *)
(* regenerated in place; a paused interview goes back through `hr_round`.  *)

StateRound == IF state = "tech_round" THEN "tech" ELSE "hr"

Stranded == state \in RoundStates /\ ~HasBatch(StateRound)

ResumeStranded(r) ==
    /\ "resume" \in Entries /\ MayMove
    /\ Stranded
    /\ Enter(r, "regenerate", [NoPlan EXCEPT !.act = "resume"])

RegenerateRound(r) ==
    /\ pc[r] = "regenerate"
    /\ GenerateRound(r, IF copy[r].state = "tech_round" THEN "tech" ELSE "hr", "idle", "idle")

ResumePaused(r) ==
    /\ "resume" \in Entries /\ MayMove
    /\ state = "paused"
    /\ Enter(r, "unpause", [NoPlan EXCEPT !.act = "resume"])

Unpause(r) ==
    /\ pc[r] = "unpause"
    /\ ApplyTransition(r, "hr_round", NoReason, "refill", "idle")

WaitsOnHr(r)   == FALSE
WaitsOnTech(r) == PastHr(copy[r].index)

RefillRound(r) ==
    /\ pc[r] = "refill"
    /\ IF WaitsOnTech(r)
       THEN GenerateRound(r, "tech", "rejoin", "idle")
       ELSE GenerateRound(r, "hr", "idle", "idle")

RejoinTechRound(r) ==
    /\ pc[r] = "rejoin"
    /\ ApplyTransition(r, "tech_round", NoReason, "idle", "idle")
-----------------------------------------------------------------------------
(* Leaving: the candidate's own way out, which goes through `evaluating`   *)
(* when there is an answer to evaluate, and the worker's stale sweep.      *)

AbandonInterview(r) ==
    /\ "leave" \in Entries
    /\ LET to == IF state \in RoundStates /\ Answered # {} THEN "evaluating" ELSE "abandoned"
       IN  /\ CanTransition(state, to)
           /\ Enter(r, IF to = "evaluating" THEN "end" ELSE "quit",
                    [NoPlan EXCEPT !.act = "leave", !.why = "abandoned"])

SweepAbandoned(r) ==
    /\ "sweep" \in Entries
    /\ state \in {"profiling", "hr_round", "tech_round", "paused"}
    /\ Enter(r, "quit", [NoPlan EXCEPT !.act = "sweep", !.why = "abandoned"])

Abandon(r) ==
    /\ pc[r] = "quit"
    /\ ApplyTransition(r, "abandoned", "abandoned", "idle", "idle")

DeleteInterview ==
    /\ "delete" \in Entries
    /\ gone = "no"
    /\ gone' = "owner"
    /\ UNCHANGED <<state, index, reason, ended, batches, chat, answers, queued, spent, handlers>>
-----------------------------------------------------------------------------
(* The environment: charges reach the budget, processes die.               *)

ExhaustBudget ==
    /\ "budget" \in Faults
    /\ ~spent
    /\ spent' = TRUE
    /\ UNCHANGED <<row, batches, chat, answers, queued, handlers>>

Crash(r) ==
    /\ "crash" \in Faults
    /\ pc[r] # "idle"
    /\ Finish(r)
    /\ UNCHANGED <<row, batches, chat, answers, queued, spent>>

(* A request arrives.                                                      *)
Arrive(r) ==
    \/ SubmitProfile(r) \/ ResumeBeforeStart(r) \/ SubmitAnswer(r)
    \/ \E input \in {"utterance", "silence"} : SubmitTurn(r, input)
    \/ SpeechCeiling(r) \/ ResumeStranded(r) \/ ResumePaused(r)
    \/ AbandonInterview(r) \/ SweepAbandoned(r)

(* A handler in flight takes its next step.                                *)
Proceed(r) ==
    \/ CheckListing(r) \/ OpenProfiling(r)
    \/ ClaimProfiling(r) \/ SeedIndex(r) \/ StartHrRound(r) \/ GenerateHrBatch(r)
    \/ LoadConversation(r) \/ Speak(r) \/ AskConductor(r) \/ Say(r)
    \/ RecordAnswer(r) \/ EnsureTechBatch(r) \/ MoveRound(r) \/ AskNext(r) \/ HandOver(r)
    \/ RecordClosing(r) \/ EndInterview(r) \/ Enqueue(r) \/ Pause(r)
    \/ RegenerateRound(r) \/ Unpause(r) \/ RefillRound(r) \/ RejoinTechRound(r)
    \/ Abandon(r)

Next ==
    \/ \E r \in Requests : Arrive(r) \/ Proceed(r) \/ Crash(r)
    \/ DeleteInterview
    \/ ExhaustBudget

Spec == Init /\ [][Next]_vars
=============================================================================
