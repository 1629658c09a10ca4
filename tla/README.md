# Interviewly in TLA+

Interviewly conducts a job interview over HTTP: a candidate pastes a listing, an HR
interviewer and then a technical one ask generated questions, and a report is written at
the end. One interview is one row of Postgres that many actors write: overlapping requests of
the same room (typed answers, spoken turns, silences, speech playback, resume, leave,
delete), the worker's stale sweep, then the report job's runs and the administrator who
requeues it. No request holds a lock for its duration. What keeps an interview sound is two
compare-and-sets, one on `state` and one on `current_index`, and the order of the commits around
them; what keeps its report sound is a claim under a lock and, again, that order. Around the row
run three smaller machines: the ceiling on what the interview may spend, the clock of the time the
candidate was present, and the spoken turn, which overlaps its own uploads. These modules are
about that.

Contents: [the system](#the-system), [the modules](#the-modules),
[how the model reads the code](#how-the-model-reads-the-code), [the runs](#the-runs),
[the findings](#what-the-comments-say-and-the-code-does-not),
[the proofs](#what-is-proved), [limits](#what-is-not-shown), [plan](#plan).

## The system

| Part | State it keeps | Operations | Talks to |
|---|---|---|---|
| State machine (`interview/machine.ts`) | `interviews.state`, `ended_reason`, `ended_at` | `applyTransition`: table check on the caller's copy, CAS on the row, publish, enqueue | every other part; report queue |
| Setup, profile, resume (`setup.ts`, `profile.ts`, `resume.ts`) | the row's creation, `current_index := 1` | `setupInterview`, `startHrRound`, `resumeInterview` | generation, conductor |
| Conductor (`conductor.ts`, `turns.ts`) | `chat_messages` | `runTurn`, the clamps, `nextQuestion`, `handover`, `endInterview` | answers, generation, budget, AI chain |
| Answers (`answers.ts`, `state.ts`) | `answers`, `current_index` | `recordAnswer` (CAS on the index + the answer row, one transaction), `advanceWithAnswer` | generation, machine |
| Generation (`generation.ts`) | `interview_rounds`, `questions` | `generateRound`: all or nothing, pauses when the AI fails | AI chain, machine |
| Budget (`budget.ts`) | `spent_usd`, an advisory lock | `withBudget`, `withBudgetOrEnd`: check and call under the lock, charge in a transaction of its own | every paid call |
| Leaving (`abandon.ts`, `delete.ts`, `worker/.../abandon-sweep.ts`) | none of its own | count answers then transition; soft delete; sweep after 24 h | machine |
| Speech (`speech/stt.ts`, `pending-turn.ts`) | the held fragment, in Redis for a while | take it, transcribe, judge whether the candidate has finished, hold the lot again or conduct it | budget, conductor |
| Spoken lines (`speech/tts.ts`) | audio cache in S3 | prewarm, synthesise under the budget's lock, store | budget, machine |
| Report pipeline (`report-run.ts`, `report-row.ts`, `sse.ts`, `worker/*`, `admin/report-requeue.ts`) | `reports`, the BullMQ job | enqueue, run, claim, finalize, dead-letter, requeue | machine, AI chain, S3 |
| Active time (`elapsed.ts`, `heartbeat.ts`) | `elapsed_seconds`, `last_seen_at` | bank a stretch under a CAS | speech ceiling |
| Adaptive, language (`adaptive*.ts`, `language.ts`) | scores, next question's text, `language`, an in-memory streak | promote, switch | answers, conductor |
| Events (`sse.ts`) | open streams | publish, subscribe, limit | room |
| Accounts (`auth/*.ts`) | sessions, single-use tokens, Redis windows | login, reset, verify, delete | mail queue |
| AI chain (`packages/ai`) | `llm_calls` rows | attempt, validate, fall back, time out | every AI call |
| Room (`frontend/src/lib/use-voice-session.ts`, `use-interview-heartbeat.ts`, ...) | the recorder, its phase, two clocks, one beat in flight, caches | play lines, record, upload at every pause, submit silence, beat | the API |

What is hard here: a handler decides from a row it read once and writes several commits later;
two handlers of one interview interleave at every `await`; index and state are written by
different commits; a generation may fail, pause the interview and be swallowed; the process
may die between two commits; the interviewer is a language model that may ask for anything; a
lock that belongs to a transaction is gone when the transaction times out, and the call it was
taken for is not; the room goes on recording while what it recorded is being judged; every tab of
the room beats.
`PROJECT.json` lists each of these hazards at its line with the properties that cover it, or
why none does yet.

What makes the parts correct: the row follows the table and an ending is given one reason;
no answer is lost and none is recorded twice; the index does not go back; the technical
interviewer never asks an HR question; whatever went wrong, the candidate has a way on; an
interview ends whatever the model says; an ended interview has its report asked for; one
report is stored however often its job runs, `completed` is said only once it is, and an
interview waiting for it is not forgotten. What is spent passes the budget by one section and what
no lock covered, a spoken line is paid for once, and whoever asks is answered; every second of
presence is counted, and once; what the candidate says is conducted once, as an answer to one
question, and what is held for them is told in the end.

## The modules

| Module | What it is |
|---|---|
| `InterviewMachine` | the table of edges, the endings, the rounds (`machine.ts`); no variables |
| `ConductorRules` | the server's guards on what the interviewer model asks for (`clampAction` and its helpers), as operators of the shape of the interview |
| `Interview` | the detailed model: one interview, `Requests` handler slots, one action per commit |
| `InterviewLifecycle` | the abstract specification: what the rest of the system may rely on about the row |
| `InterviewProperties` | type invariant, safety, action and liveness properties, the refinement, and the claims of comments that fail |
| `MCInterview` | sets the TLC configurations pick |
| `MCInterviewRoom` | the same steps, with a variable that remembers whether a process has died, and the properties that stop there |
| `InterviewProofs` | type correctness, the refinement and the floor of the HR round, for every value of the constants |
| `InterviewTechRoundProofs` | the technical round never starts inside the HR block |
| `InterviewRoomProofs` | what holds when the requests that move questions come one at a time: words, endings, the index, the answers, nobody stranded, the report asked for |
| `ReportPipeline` | from the transition to `evaluating` to the stored PDF: producer, queue, worker runs, dead letter, requeue |
| `ReportDelivery` | the abstract specification: what the rest of the system may rely on about the report |
| `ReportProperties` | the pipeline's properties and its refinement of `ReportDelivery` |
| `MCReport` | sets the TLC configurations pick |
| `ReportProofs` | the pipeline's theorems, and that no interview is forgotten in `evaluating` |
| `Spending` | one interview's budget: callers, the lock, chains of attempts, charges, spoken lines and their cache |
| `SpendingProofs` | the ceiling's theorems |
| `ActiveTime` | the bank and the anchor, the tabs' beats, the start, the ending |
| `ActiveTimeProofs` | the clock's theorems |
| `SpokenTurn` | the room's recording loop, the uploads in flight, the held fragment, the conductor's turns |
| `SpokenTurnProofs` | type correctness, that nothing is heard twice, and that nothing goes missing while one upload is in flight |
| `SpokenQuestionProofs` | that no turn joins two questions |

`Interview` extends `ConductorRules`, which extends `InterviewMachine`; `InterviewProperties`
extends `Interview` and instantiates `InterviewLifecycle` on its `state`, `reason`, `ended`.
`ReportPipeline` extends `InterviewMachine` (both use the same table and endings) and starts where
`Interview` stops, at the commit that moved the row to `evaluating`. `Spending`, `ActiveTime` and
`SpokenTurn` stand alone: each owns state that the core never reads (what was spent in between,
the bank, the fragment), and meets the core at one point, which the core has as an input: the
refusal (`ExhaustBudget`, then `EndInterview`), the time ceiling (`SpeechCeiling`), a turn with
words or without (`SubmitTurn`).

## How the model reads the code

**A handler is a slot.** `pc[r]` names the commit the handler is about to do, `copy[r]` is the
row it read in `resolveInterview` (state and index; the code mutates the same object after its
own writes, and so does the model), `plan[r]` what it has decided: its input, what it does with
the question, the reason of an ending, where to go when a generation fails, and the counts
`runTurn` read. A slot is reused when its handler returns.

**A step is what happens between two commits others can see.** `RecordAnswer` is the
transaction of `recordAnswer`; `EnsureTechBatch`, `MoveRound` and `AskNext` are the three
awaits after it. `ApplyTransition(r, to, why, won, lost)` is `applyTransition`: the edge must be
in the table for the handler's copy, and the row must still be in that state; `won` and `lost`
are where the handler goes (losing is an error, so mostly it ends). Reaching `evaluating`
forces the next step to be `Enqueue`, whatever the caller wanted: the code enqueues inside
`applyTransition`, after the commit.

**A generation is one action.** `generateRound` runs under the interview's advisory lock, so its
check for a full round, the provider call and the all-or-nothing insert are not interleaved with
another generation of the same interview. Its outcomes are: budget gone (the handler goes on to
end the interview), the round is there, an AI failure that pauses (a separate step, `Pause`,
since its write is a separate commit, and swallowed when it loses), any other failure.

**The interviewer model is nondeterministic.** `AskConductor` picks any of `Requested` and
applies `Clamp`. An unreachable provider is the request `next_question`, as in the code.
`show_widget` differs from `continue` in what is rendered only, so it is not a value of its own.

**The report pipeline.** An actor is a worker slot (one of the worker's concurrent jobs)
or a desk (a request of the API: the one whose transition to `evaluating` just committed, and
requeues). `copy[a]` is the interview row the actor read, here the state and whether it had an
`ended_at`; a transition is checked against that copy and compared with the row, as in the core.
The steps and their code:

| Actor | Steps | Code |
|---|---|---|
| desk, producing | `OpenReportRow`, `AddJob` (or `LoseRedis`) | `enqueueReport`, after `applyTransition` |
| desk, requeueing | `RequeueReport` (reads), `CheckReport`, `CheckJob`, `ClaimEvaluating` (which enqueues by itself), `RemoveJob`, then as above | `report-requeue.ts` |
| worker | `TakeJob`, `LoadInterview`, `MarkGenerating`, `Generate`, `StoreReport`, `CompleteInterview`, `FinalizeReport`; on invalid output `RejectReport`, `RejectInterview` | `consumer.ts`, `report-run.ts`, `finalize.ts` |
| worker, listening | `ReadDeadLetter`, `BuryInterview`, `BuryReport` after the last attempt | `failure.ts` |

`StoreReport` is one transaction under the interview's advisory lock. A throw in a run is
`FailAttempt`: the queue counts it if the run still holds the job. A worker slot stays taken
while the listener of its job runs, which the code does not wait for; the other slot is free
meanwhile. BullMQ is external and modelled as the code relies on it: one job per id (a
remembered id is not added again), a lock per run, redelivery when the lock expires although the
run may go on, failure without an attempt counted when it expires once too often (`StallJob`), a
run without the lock that can no longer finish the job, and finished jobs forgotten past their
retention (`ForgetJob`). The report's payload, its prompts and the PDF's contents are left out:
`written` counts the payloads stored and `pdf` says that one was rendered.

**The ceiling.** A caller is a request or a promise nobody waits for (the prewarm, the hook), in
any process. `Enter` takes the interview's advisory lock and reads the total under it, as
`withBudget` does; `Refuse` is the same read finding the budget gone, after which the caller ends
the interview (`withBudgetOrEnd`) or does without. Every attempt of a provider chain is charged,
a failed one too, by `recordLlmCall` in a transaction of its own, so the charge does not need the
lock that covered the check. The adaptive hook runs two chains in one section; when its score
fails, `Promise.all` rejects, the lock goes, and the candidates' chain runs on (`Proceed`). The
listing check, the title and the report are calls outside the ceiling (`open`). A line is looked up, and looked
up again under the lock, before it is bought and stored. `HolderExpires` is the 45 s timeout of
the lock's transaction. Money is a small integer. Three variables are history: `unlocked` sums the
charges of callers that held no lock, `lapses` counts per line the purchases whose bytes were not
in the cache when the lock went on, `opened` bounds the calls outside the ceiling.

**The clock.** A beat is `Load` (the row its middleware read), `ReadClock`, and `Bank` or
`BankLost` by the `last_seen_at` compare of `bankActiveTime`; `Start` is the write of
`startHrRound`, which compares nothing. Time is counted in ticks, `Sec` of them to a second, so
that the floor of the stretch and the remainder left in the anchor are visible. History: `base` is
the first anchor, `away` the gaps longer than the grace, `again` what a start with an old clock put
before the anchor again, `banked` the bank at the ending.

**The spoken turn.** Words are numbered in the order they are spoken. A request goes through
`sent`, `loaded` (the middleware's copy and its question), `taken` (the fragment was read and
deleted) and its answer: held, told, failed or refused (a code of `failTurn`'s `SILENT`, after which
the room is idle and shows nothing). What the room does at each answer is `ReceiveHeld`,
`ReceiveTold`, `ReceiveFailed`; its phases are the hook's. `Upsets` says what may go
wrong, one per behaviour in the runs: noise the VAD takes for speech, a transcription that fails or
comes back blank, a request that fails, a Redis that is not reached, a fragment that expires, a turn
typed in another tab, the page going with or without dying. A request of any kind, the silence turn
and the beacon included, may fail before its words are written (`RefuseTurn`: it does not arrive, the
guards turn it away, `runTurn` throws; a fragment it had taken goes with it), or after
(`FailConduct`: the budget, the interviewer, a compare-and-set, or the reply itself is lost, and the
words are in the conversation). `Flush` is the beacon of a page that goes: it takes the first chunk
and the newest chunks that fit `BEACON_MAX_BYTES`, and the older ones are dropped for good; the chunk
the recorder is still filling stays, for the next upload of a page that survives. Chunks differ in
size and may be silent, so where the cap cuts is any word. A reply overtakes the lines
its turn wrote, which take seconds to play. Muting and lines that cannot be played are not modelled. History:
`against` is the question a word was first uploaded for; `excused` are the words lost in one of the
ways the code accepts (a recorder that is dropped, a transcription or request that fails, a take or
hold that misses Redis, a fragment that expired, was typed past or belongs to another question, an
upload lost with its page, a chunk past the beacon's cap);
`riding` is the first chunk of a flushed recording, which is sent again with the header; `overlapped`
says that two requests were in flight; `blanked` that a Stop over silence met a held fragment.

**Data left out.** Texts, prompts, widgets, avatars, languages, titles, scores. A turn is its
question and who spoke: `words` is the set of questions with a `user` row, `said` with an
`assistant` row, `turns` and `total` count the rows the two ceilings count (`countsAsTurn`).
`moved[q]` and `stayed[q]` count the `answers` rows of `q` written by an advance and by a
closing answer. `queued` says that the report row and job exist.

**Environment.** `Faults` selects what may go wrong: an AI call that pauses (`provider`), a
failure that does not (`internal`), the spend reaching the budget (`budget`), a process dying
between two commits (`crash`: the slot is emptied, its commits stay), Redis refusing the job
(`redis`). `ReportFaults` does the same for the pipeline: `provider`, `invalid` (output the
schema refuses), `storage`, `stall`, `crash`, `redis`, `delete`. `Entries` selects the entry
points in use. `Overlaps` says which handlers of one kind may overlap: `starts` (two requests
that start the interview) and `moves` (two of: turns, including the opening turn of a start,
answers, resumes). With neither, one question-moving request runs at a time, as the room does
when it waits for each response; leaving, deleting, the sweep and speech playback overlap with
it wherever `Entries` has them.

**Assumptions** (`ShapeAssumption`): `HrCount >= 1`, and `HrCount < Target` or both are 2, which
is what `shape`, `split` and the schema of `setup.ts` accept. `PipelineAssumption`: workers and
desks are distinct, the producer is a desk, `Attempts >= 1`. `CeilingAssumption`: the budget is
positive and a chain has a step. `ClockAssumption`: a tab is not a start, and a second has ticks.
`SpokenAssumption`: the caps are numbers, and a turn may be probed at least once.

## The runs

`room`, `races` and `ends` have two slots; `report` and `settles` have two worker slots, two desks,
two attempts, one lost lock and one requeue. The deadlock check is off where the system may stop:
an interview that ended or has its report, a clock at its bound, a room with its words said. It is
on in `spending`, where a caller can always ask again.

| Run | Constants | Faults, overlaps | Checks |
|---|---|---|---|
| `room` | 2 HR + 2 technical questions, 2 turns a question, 4 in all | provider, budget, crash; none overlap | `TypeOK`, `TechRoundPastHr`, `AnsweredOnce`, `WordsKept`, `NeverStranded`, `CompletedHasNoneLeft`, `ReportAskedFor`, `IndexNeverBack` |
| `races` | 1 + 1, 2 turns | all; moves overlap | `TechRoundPastHr`, `FollowsLifecycle` |
| `ends` | 4 + 2, 3 turns a question, 5 in all | budget, deletion; under `FairSpec` | `HandOverPastFloor`, `WordsKept`, `RoundsEnd` |
| `report` | as above | all | `TypeOK`, `StoredOnce`, `CompletedHasReport`, `KeepsPromise` |
| `settles` | as above; under `FairSpec` | provider, invalid, delete | `NeverForgotten`, `Settles`, `ReadyIsRendered` |
| `spending` | 2 callers, 1 line, budget 1, an attempt costs 0 or 1, chains of 2; under `FairSpec` | one of: timeout, failed charge, failed store, crash | `TypeOK`, `Overshoot`, `PaidOnce`, `EndedWhenSpent`, `Answered` |
| `clock` | 2 tabs, 1 start, 2 ticks a second, a grace of 2, 5 ticks in all | every interleaving of read, clock and write | `TypeOK`, `EveryTickOnce`, `EndedBankBounded`, `WinnerTellsTotal`, `SlidesByGrace` |
| `voice` | 2 uploads, 1 probe, 2 words, 2 questions; under `FairSpec` | one upset of any kind (a page that dies after its beacon is one) | `TypeOK`, `HeardOnce`, `OneQuestion`, `WordsKept`, `HeldIsTold`, `RoomGoesOn` |

*Bounds.* Two slots are two requests of one interview in flight, the least that shows every
pairwise race; the handlers are sequential and write only the row, so a violation among three is
mostly a violation between two of them (not always: see the limits). Two HR and two technical
questions (`room`) give a first and a last one in each round, the least that shows a handover going
back; one and one (`races`) leave room for every overlap; four and two (`ends`) make the
floor of a handover (two) differ from its bounds. `MaxTurns` is small so that the ceiling is
reached; `RowCap` stops new turns one past it, after the ceiling has ended the interview, so it
cuts nothing the ceiling would not. In `room` and `races` it is at the ceiling, which only
overlapping turns then pass. In `ends`, `RowCap` is never reached.

In the pipeline, two worker slots are what makes runs of one report overlap, and one lost lock is
what starts such an overlap; two desks let the producer overlap a requeue. Two attempts give a
first and a last one (the code has three; only the last differs). `MaxStalls`
is the queue's default, which the worker leaves in place. `MaxRequeues` bounds a counter the code
does not bound; a second requeue shows one more thing, `requeue_race`.

In `spending`, two callers are what makes one wait for, or run beside, the other; a budget of one
attempt is reached at once and a chain of two passes it, so the overshoot happens; one line and two
purchases is the race of prewarm and room; one fault is enough for each way of losing the lock, and
what a second one adds is more of `unlocked` or `lapses`. In `clock`, five ticks hold two seconds
and a gap longer than the grace; a grace of one second is the shortest that banks anything. In
`voice`, two requests in flight are what the room's probes make; one probe reaches the cap, two
words are a fragment and what joins it, two questions are the one a fragment was held on and the
next; one upset, because two seldom meet in one turn and each is shown with every overlap. The
proofs of these three components need none of the bounds.

*Fairness.* In `ends`: weak fairness of `Proceed(r)`: a handler in flight runs to its end,
since the event loop never starves a resolved promise and every external call is bounded by a
timeout (`providers.ts`, `budget.ts`); crashes are off in this run, and so are failing
generations, after which the room needs a resume that no timer sends. Weak fairness of a silence
turn: the room's timer submits one whenever it is idle and nobody speaks. Nothing is assumed of
the interviewer model or of the candidate. In `spending`: weak fairness of a caller's own steps,
since every provider call has a timeout, and strong fairness of being served, since Postgres hands
an advisory lock to its waiters in the order they came. In `voice`: requests are answered and their
answers received, lines are played to their end, and the room's two clocks run; the
candidate need not speak, press Stop or retry. In `settles`: weak fairness of the steps of each desk
and of each worker, and of a worker taking a waiting job, for the same reasons; none of a requeue,
of the queue's forgetting or of the provider answering well. Crashes, lost locks, a refusing Redis
and failing storage are off there because what they leave behind (a lost job, a report never
rendered) is what the administrator's requeue is for, and no timer sends one.

*What they show.* One request at a time, an interview loses no words and `completed` means that no
question was left, processes that die between any two commits included; an answered question is
behind the index and stays there unless a process dies between the rounds; until one dies, no
question has a second answer, nobody is stuck, and `evaluating` always has its report job or a
handler about to add it. With overlapping requests, crashes and a refusing Redis, the row still
follows the lifecycle and the technical round is never entered inside the HR block. Whatever
happens to the report job, one report is stored, `completed` is never ahead of it and is not
walked back by a requeue that read a stale row; and with the services up, an interview leaves
`evaluating` and its report gets rendered, whether the attempts succeed or run out. The ceiling
holds up to one section of the hook's size plus what was charged without the lock, however that
came about, and nobody waits for ever at the lock. Beats of several tabs share one bank without
counting a tick twice or dropping one; a late one adds no more than a grace to an ended interview.
Uploads that overlap give no word to two turns and join no two questions; with one in flight
at a time, a word is lost only in a named way, the beacon's cap and a failed request among them; and a fragment is told by the cap, the clock or the
next pause.

*Where a property stops.* `AnsweredOnce`, `CompletedHasNoneLeft` and `IndexNeverBack` are
checked with one question-moving request at a time because they do not hold otherwise
(`duplicate_answer`; the second of two starts resets the index to 1 before its transition is
refused). Two of them have exceptions for crashes, which `died` of `MCInterviewRoom` records. A
process that dies when the index has left the HR block and the state has not leaves the HR
interviewer in the technical block, and a second handover goes back to its first question,
answered or not. (A refill whose transaction times out after its batch is committed leaves the
same row without a process dying. `GenerateRound` has no such outcome: a generation fails before its
commit or succeeds, and that row is reached by the crash only.) A closing answer whose handler dies before the ending is followed by another.
`NeverStranded` does not survive a crash
(`resume_gap`), nor a generation that fails without pausing (a resume has written `hr_round`, its
refill throws, and the row keeps a technical index without a batch, which the next resume does not
recognise), nor overlapping answers: with
`Overlaps = {"moves"}`, an answer to the last question, read between the technical batch and the
transition of the answer before it, goes by its copy to `evaluating`, loses to `tech_round`, and
leaves the technical round past its last question. `ReportAskedFor` does not survive a crash or
a Redis refusal, by design: the administrator's requeue is the way back. `NeverForgotten` stops
at two overlapping requeues (`requeue_race`), at one requeue and a lost lock, and when the queue
fails a job for its lost locks: the listener then sees attempts left and takes it for a retry.
`EndedBankBounded` and `WinnerTellsTotal` stop at a start that overlaps a beat (`again`), whose
anchor goes back over time already banked. `WordsKept` of the spoken turn stops at overlapping
uploads: both take, both hold, and the later write wins; and speech that falls in the
recorder opened for a probe is dropped when the probe turns out to be the turn
(`use-voice-session.ts`), a loss the model names. What the beacon's cap costs
(`use-voice-session.ts`, "the oldest speech in a long answer") and what a request that failed took
with it are named losses too: `WordsKept` does not say that the code keeps those words, it says that
nothing else loses any. `HeldIsTold` and `RoomGoesOn` stop at a Stop over silence (`stop_sticks`);
`HeldIsTold` also at a room that a failed request left waiting (`Stopped`): one that shows a failure,
until the candidate retries, and one that a silent refusal put to idle with no line to speak, until
a newer state arrives. The second can be a live room: the late reply of an upload that lost its
compare-and-set to another drops the recorder opened since, and the refetch has nothing new in it.

## What the comments say and the code does not

Each `violation` run checks one sentence of the code's own comments and shows a short behaviour
of the code that contradicts it; `PROJECT.json` quotes the sentence and its line.

| Run | In short |
|---|---|
| `duplicate_answer` | a closing answer leaves the index in place, so it does not exclude the advancing turn beside it |
| `resume_gap` | a crash after the last HR answer leaves a room that resume refuses to repair |
| `requeue_race` | two requeues that read different states leave an interview in `evaluating` with no job |
| `stop_sticks` | a Stop over silence finds a fragment held: it is held again, the reply says so, and the room waits in `uploading` with both its clocks off |

More behaviours came up and have no run; most are among the hazards. The second of two starts
resets the index of an interview under way. With no technical question, a failed generation and a
resume end in a `tech_round` that cannot end. A run that died after storing the report is
redelivered, asks the model again, gets invalid output and fails an interview whose report is
ready; no requeue will take it up. An answer read in a round still advances an interview that
ended meanwhile (the write checks the index, not the state). An answer recorded while the candidate
leaves ends at `abandoned` without a report. Resume generates the HR batch of a listing that is
then refused. Beats sent while the interview is still in `profiling` find an anchor-less row, set
the anchor and bank time before the start, though that time counts only from the start on. One flag
says that an upload is on its way, so the reply to one of two overlapping uploads lets the silence
clock run under the other. The first chunk of a recording that was flushed on `pagehide` and went
on is uploaded, and heard, twice.

## What is proved

By TLAPS, of the interview, for every number of slots, every shape `ShapeAssumption` allows, every
ceiling and every `Faults`, `Entries`, `Overlaps` (the bounds of the runs play no part):

* `TypeCorrect`: `Spec => []TypeOK`. The inductive invariant `TypeInv` adds to `TypeOK` that a
  handler past its load step is on a question (`OnAQuestion`): without it, a step that counts a
  turn of `copy[r].index` is not known to index a function in its domain.
* `ImplementsLifecycle`: `Spec => FollowsLifecycle`. Only four definitions write the row's
  state (`WriteState` through `ApplyTransition` and `HandOver`). The argument needs `ReasonEnds`,
  that a reason is there only in `evaluating` or `abandoned`: since the copy must equal the row,
  no table edge in the model leads from a row with a reason to another ending, so a reason is
  written once. The proof is one step per action: those that do not write the row stutter.
* `TechRoundIsPastHr`: `"starts" \notin Overlaps => (Spec => []TechRoundPastHr)`, with moves,
  crashes and every fault allowed. `TechRoundPastHr` is not inductive: the index of the row and
  the state are written by different commits. `SafeInv` adds what carries it across them: an
  index past the HR block stays there (`PastHrForGood`: every handler's copy that is past it
  implies that the row is, and only `SeedIndex` moves it back), a handler about to enter the
  technical round after a handover or a resume holds such a copy (`JumpsPastHr`), and there is
  one starter, which is alone, before anything else happens (`StartIsAlone`, `OneStarter`,
  `NotBegunAtStart`, `LateHasBegun`, `BegunForGood`). Without the hypothesis the theorem is
  false: a second start resets the index.
* `HrRoundHasAFloor`: `Spec => HandOverPastFloor`, without a hypothesis. The guard is evaluated on
  the copy before the write; what connects them is that a handler about to record a handover holds
  a copy on which the guard holds (`HandOverAllowed`), and that the write succeeds only on that
  copy's index.

Of the room, which sends the requests that move questions one at a time. `OneAtATime` says so: the
sets `"starts"` and `"moves"` are not in `Overlaps`. Leaving, speech ceilings, the sweep and the
deletion overlap with them as they like, `Requests`, the shape and the ceilings are arbitrary, and
so are the faults where nothing else is said:

* `NoWordsLost` (`WordsKept`) and `CompletedIsComplete` (`CompletedHasNoneLeft`), crashes included.
  Both rest on `MoverInv`: whoever is past the first steps of a question-moving request is the
  only one (`OneMover`), has the input and the copy its step needs (`AllFit`), and its copy is
  still the row's, but for a state someone else ended (`MoverIsCurrent`). So what it decided on the
  copy is about the question the row is on. `WordsBehind`, `ClosingStored` and `EndedAtItsWord`
  follow the words from the transcript to the answer or the ending; `ClosingComplete` carries
  "none left" from the guard over the model call to the write.
* `IndexGoesForward` (`IndexNeverBack`) and `QuestionsAnsweredOnce` (`AnsweredOnce`), by
  `RoomInv`. An answer advances the index by one, but a handover sets it to the first technical
  question, which goes back when the HR interviewer has got into the technical block. That it has
  not (`InBlock`) is not inductive: between the commit of the index and that of the state, after a
  pause or a failed refill, the row says `hr_round` with a technical index, and a turn may come in.
  `TechWaits` says what saves it: whenever nobody is about to make the transition (`Waits`), the
  technical batch is not there, so the turn finds no question and returns. `AnsweredBehind`,
  `ClosedOnce` and `InTarget` count the answers.
* `NobodyIsStranded` (`NeverStranded`), from `RoomInv` and `BetweenHeld` (between the rounds
  somebody is about to settle it), if no generation fails in a way the code does not turn into a
  pause (`"internal" \notin Faults`). The hypothesis is needed: TLC finds the failed refill.
* `ReportIsAskedFor` (`ReportAskedFor`), for any overlap, if Redis takes what it is given
  (`"redis" \notin Faults`), which is needed too.

The run `room` satisfies these hypotheses and shows that the cases they leave are reached:
handovers, pauses, refills, closing answers, crashes at every step.

Of the report pipeline, for every number of workers, desks, attempts, lost locks and requeues and
every `ReportFaults`:

* `TypeCorrect`: `Spec => []TypeOK`. `TypeInv` adds `JobOK`: a job is locked only while active, and
  one that will be delivered has an attempt left, so a failed attempt stays within `Attempts`.
* `StoredAtMostOnce`, `NoCompletionWithoutReport`, `ImplementsDelivery`
  (`Spec => KeepsPromise`), from one invariant, `Safe`. Beside `CompletedHasReport` it holds that
  one payload is written exactly when the row is ready (`StoresOnce`) and what carries these
  between commits: a run about to complete the interview is past the store
  (`CompletesPastStore`), and a request that read a completed interview is refused before it gets
  to the state (`CompletedIsRefused`). The table has an edge `completed -> evaluating`, and only
  the requeue's check of the report, made after it read the row, keeps it untaken. The refinement
  maps each step to a step of `ReportDelivery` or a stutter; only the store and the four
  transitions do not stutter.
* `NothingIsForgotten`: `Spec => []NeverForgotten`, if at most one requeue runs (`OneRequeue`) and
  no lock is lost, no process dies and Redis answers (`QueueIsSound`); a provider, an output
  and a storage that fail are allowed (`settles` runs without the last). Each of the hypotheses is
  needed, and `requeue_race` shows the first. `Followed` says, of an interview in `evaluating`, who
  will look after it: the job, which is the only one and has one worker at most (`OnTheJob`,
  `Claims`), the failure the listener has not heard of yet, or the requeue at a step from which it
  goes on to enqueue (`LookedAfter`, with what its reads are still worth: `FirstRun`, `Fresh`).

Of the ceiling, for every number of callers, lines and attempts, every cost, budget and
`Faults`:

* `SpendingTypeCorrect`, `OvershootBounded`, `LinesPaidOnce`, `EndedOnlyWhenSpent`, from one
  invariant, `IInv`. That the overshoot is bounded needs to be said of every moment of a section:
  what was spent, together with what the holder's remaining attempts may still cost, stays below
  the bound from the moment the holder enters (`Purse`). That a line is paid once needs to know of the one
  caller that may be between its second look and its store under the lock; every other way to
  be there is already counted in `lapses`.

Of the clock, for every number of tabs and starts, every second, grace and bound:

* `ClockTypeCorrect`, `EveryTickCountedOnce`, `ActiveWithinTheClock`, `WinnersTellTheTotal`,
  `EndedBankStays`, `DeadlineSlides`. `EveryTickOnce` is a balance, kept by every step; what it
  rests on is that a copy with the row's anchor has the row's bank beside it, unless a start went
  back in time. `ActiveWithinTheClock` (no second is lived twice, but for `again`) follows from the
  balance.

Of the spoken turn, for every number of uploads, probes, words, questions and upsets:

* `SpokenTypeCorrect`: in particular no fragment is held past the cap on its probes.
* `NothingHeardTwice`: `Spec => []HeardOnce`. A word is in one place: the recorder, one request,
  the held fragment or one turn (`Apart`), but for the chunk that rides along; and every word in any
  of them was spoken (`Voiced`), so the next one is new.
* `NothingGoesMissing`: `Spec => []WordsKept`, for any overlap: `WordsKept` itself is about a room
  in which no two uploads have overlapped, and lets go of the losses `excused` names, the beacon's cap
  and failed requests among them (`Flush`, `RefuseTurn`). A flush cuts the recording into three by age:
  dropped, sent, and left in the recorder. `KeptInv` says where a word may be between the commits
  (`Accounted`), that a request carries a fragment only once it took one (`TakesLate`), and that
  until uploads overlap a request in flight is alone, and leaves nothing behind when it takes but
  words already given up (`Alone`): so a hold overwrites nothing.
* `TurnsKeepTheirQuestion`: `Spec => []OneQuestion`. Every word in a fragment is addressed to
  the fragment's question, and every word of a loaded request to the question it loaded
  (`Addressed`), whatever the index has become since.

The invariants were checked by TLC on small instances before they were proved. The proofs rest on
the named assumptions of the constants and nothing else.

## What is not shown

Model-checked only: the liveness properties `RoundsEnd`, `Settles`, `ReadyIsRendered`, `Answered`,
`HeldIsTold`, `RoomGoesOn` (liveness under fairness is out of the prover's reach, as are `ENABLED`
and inductions over data). Every invariant and action property of the passing runs
is a theorem, under the hypotheses named with it.

Not modelled, knowingly:

* A report job's transitions are in `ReportPipeline`, which starts at `evaluating`. The two
  models are not composed into one state space: they share the table and meet at that commit,
  where the pipeline's `Init` is what `Interview` leaves (`ReportAskedFor`). Nor are the ceiling,
  the clock and the spoken turn composed with the core: each meets it at one input, and the core
  takes that input at any time.
* A handler of a deleted interview keeps running, as in the code, but an administrator does not.
* The greeting may be written twice when it races the first turn; `said` is a set.
* `RoundsEnd` does not claim anything of an interview that is deleted meanwhile: nobody can
  submit a turn to it, and the sweep skips it.
* In the pipeline, `ended_at` is stamped a second time when a lost lock meets a requeue (`stamps`
  counts it), and a report whose storage fails at every attempt stays without its PDF. Nothing
  here claims otherwise.
* Events to the room and its cache: a push carries no state and is followed by a refetch of
  `GET /state`, so whatever is lost, the next read converges.
* Accounts: sessions, tokens, rate limits and erasure touch the interview only by deleting its rows.
  Their races (listed as hazards) are unguarded steps the code does not defend, which a model
  would restate.
* The language streak (one process's memory), the selection and promotion of adaptive questions
  (they rewrite a text), muting and unplayable lines in the room, the downgrade to text.
* Everything that is a query and its rendering: lists, statistics, uploads, PDF, pages.
* Most lines of the repository are vendored agent tooling under `.github/skills` (a design linter
  and its browser scripts), which is not part of the program, and user interface. The share of lines
  that these modules translate is small for that reason, and cannot be large.

## Plan

Done: the core (interview, conductor, lifecycle), the report pipeline, the ceiling, the clock, the
spoken turn, and their proofs. Left, in order of importance:

1. Lemmas about `Clamp` (it performs a move or a probe that is left), and from them a bound on the
   turns a question can take, as a property and a theorem.
2. The spoken turn composed with the core, so that the turn that is told is the turn `runTurn`
   takes, with its refusals.
3. `AuthTokens`: single use, reset against live sessions; the erasure of an account against the
   uploads and reports in flight.
4. The voice downgrade and the language streak, as functions of the sequence of turns.
