------------------------------ MODULE Spending ------------------------------
(***************************************************************************)
(* What one interview may spend: the ceiling of budget.ts, whose advisory  *)
(* lock is held across the provider call, the chains and speech calls made *)
(* under it, and the cache of spoken lines that is filled under it.  The   *)
(* lock is the transaction's: it is gone when the transaction times out,   *)
(* and the call it was taken for goes on.                                  *)
(***************************************************************************)
EXTENDS Integers

CONSTANTS Callers,    \* requests and detached promises, in any process
          Lines,      \* spoken lines, each one key of the audio cache
          NoOne, NoLine,
          Budget,     \* interviews.budget_usd
          MaxCost,    \* what one attempt may cost
          Chain,      \* attempts of a provider chain
          Faults,     \* of "timeout", "charge", "store", "crash"
          MaxFaults,  \* bounds the faults of a behaviour
          MaxOpen     \* bounds the calls made without the ceiling

ASSUME CeilingAssumption ==
    /\ NoOne \notin Callers /\ NoLine \notin Lines
    /\ Budget \in Nat \ {0} /\ MaxCost \in Nat /\ Chain \in Nat \ {0}
    /\ MaxFaults \in Nat /\ MaxOpen \in Nat

VARIABLES spent,    \* interviews.spent_usd
          over,     \* the interview was ended with budget_exhausted
          holder,   \* whose transaction holds the lock
          pc, call, \* where each caller is, and what it is about to pay for
          cache,    \* lines in storage
          bought,   \* per line, times the provider synthesised it
          lapses,   \* per line, purchases not stored under the lock
          unlocked, \* what was charged by callers without the lock
          opened, faults

vars == <<spent, over, holder, pc, call, cache, bought, lapses, unlocked,
          opened, faults>>

(* What a caller wants: one call that may be refused ("chain": a batch, a  *)
(* turn, the gate, a transcription), the adaptive hook's two concurrent    *)
(* chains, a spoken line, or a call made outside the ceiling (the listing  *)
(* check, the title, the report).                                          *)
Kinds == {"chain", "hook", "line", "open"}
Calls == [kind : Kinds \cup {"none"}, line : Lines \cup {NoLine},
          ends : BOOLEAN, main : 0..Chain, side : 0..Chain]
NoCall == [kind |-> "none", line |-> NoLine, ends |-> FALSE,
           main |-> 0, side |-> 0]
Steps == {"idle", "waiting", "reread", "calling", "storing", "refused"}
Costs == 0..MaxCost

Init ==
    /\ spent = 0 /\ over = FALSE /\ holder = NoOne
    /\ pc = [c \in Callers |-> "idle"] /\ call = [c \in Callers |-> NoCall]
    /\ cache = {} /\ bought = [l \in Lines |-> 0]
    /\ lapses = [l \in Lines |-> 0]
    /\ unlocked = 0 /\ opened = 0 /\ faults = 0

Fault(f) == f \in Faults /\ faults < MaxFaults /\ faults' = faults + 1

money == <<spent, unlocked>>
shelf == <<cache, bought, lapses>>
-----------------------------------------------------------------------------
(* The caller is done: its transaction, if it still has one, ends.         *)
Leave(c) ==
    /\ pc' = [pc EXCEPT ![c] = "idle"] /\ call' = [call EXCEPT ![c] = NoCall]
    /\ holder' = IF holder = c THEN NoOne ELSE holder

GoTo(c, step) ==
    /\ pc' = [pc EXCEPT ![c] = step]
    /\ UNCHANGED <<call, holder>>

(* recordLlmCall: the row and the increment in one transaction of its own, *)
(* whoever holds the lock by then.                                         *)
Charge(c, cost) ==
    /\ spent' = spent + cost
    /\ unlocked' = IF holder = c THEN unlocked ELSE unlocked + cost

(* Bytes that were paid for and are not, or may not be, in the cache when  *)
(* the lock goes to the next caller.                                       *)
Lapse(c) == lapses' = [lapses EXCEPT ![call[c].line] = @ + 1]
-----------------------------------------------------------------------------
(* Mutant: the fallback step is added to a chain that already ends in it.  *)
AttemptsAndFallback == 1..(Chain + 1)

(* buildChain keeps the steps whose provider has a key; buildSoloChain the *)
(* first of them; a transcription is one call.                             *)
Attempts == 1..Chain

(* A request reaches a call it has to pay for.  A line that is cached is   *)
(* served without the lock; one that is not is still to be read again.     *)
Wants(k) ==
    CASE k = "chain" -> [kind : {k}, line : {NoLine}, ends : BOOLEAN,
                         main : Attempts, side : {0}]
      [] k = "hook"  -> [kind : {k}, line : {NoLine}, ends : {FALSE},
                         main : {Chain}, side : {0, Chain}]
      [] k = "line"  -> [kind : {k}, line : Lines \ cache, ends : BOOLEAN,
                         main : {1}, side : {0}]
      [] k = "open"  -> [kind : {k}, line : {NoLine}, ends : {FALSE},
                         main : {Chain}, side : {0}]

Ask(c, k) ==
    /\ pc[c] = "idle"
    /\ \E w \in Wants(k) : call' = [call EXCEPT ![c] = w]
    /\ IF k = "open"
         THEN /\ opened < MaxOpen /\ opened' = opened + 1
              /\ pc' = [pc EXCEPT ![c] = "calling"]
         ELSE /\ opened' = opened
              /\ pc' = [pc EXCEPT ![c] = "waiting"]
    /\ UNCHANGED <<over, holder, faults, money, shelf>>

(* Mutant: the comparison is one off, to the candidate's cost.             *)
ExhaustedSoon == spent + 1 >= Budget
(* Mutant: the estimate of a section is let through on top.                *)
ExhaustedPast == spent > Budget + MaxCost

Exhausted == spent >= Budget

(* The lock, and the total read under it.                                  *)
Enter(c) ==
    /\ pc[c] = "waiting" /\ holder = NoOne /\ ~Exhausted
    /\ holder' = c
    /\ pc' = [pc EXCEPT ![c] =
                IF call[c].kind = "line" THEN "reread" ELSE "calling"]
    /\ UNCHANGED <<over, call, opened, faults, money, shelf>>

(* Mutant: a refused caller asks again.                                    *)
AskAgain(c) == GoTo(c, "waiting")

(* BudgetExceeded: the batch, the turn, the transcription and the room's   *)
(* own request for a line end the interview; the gate, the hook and the    *)
(* prewarm do without.                                                     *)
AfterRefusal(c) == IF call[c].ends THEN GoTo(c, "refused") ELSE Leave(c)

Refuse(c) ==
    /\ pc[c] = "waiting" /\ holder = NoOne /\ Exhausted
    /\ AfterRefusal(c)
    /\ UNCHANGED <<over, opened, faults, money, shelf>>

EndInterview(c) ==
    /\ pc[c] = "refused" /\ over' = TRUE /\ Leave(c)
    /\ UNCHANGED <<opened, faults, money, shelf>>

(* Mutant: the first miss is taken for proof that the line is unpaid.      *)
NeverFound(l) == FALSE

(* synthesise reads the cache once more before it buys.                    *)
FoundOnReread(l) == l \in cache

Reread(c) ==
    /\ pc[c] = "reread"
    /\ IF FoundOnReread(call[c].line) THEN Leave(c) ELSE GoTo(c, "calling")
    /\ UNCHANGED <<over, opened, faults, money, shelf>>
-----------------------------------------------------------------------------
(* After an attempt: m and s attempts are left of the two chains.  A score *)
(* that failed rejects the section at once (Promise.all) and the lock is   *)
(* gone; the candidates' chain goes on without it.                         *)
Proceed(c, m, s, rejects) ==
    IF m = 0 /\ s = 0 THEN Leave(c)
    ELSE /\ call' = [call EXCEPT ![c].main = m, ![c].side = s]
         /\ holder' = IF holder = c /\ rejects THEN NoOne ELSE holder
         /\ pc' = pc

(* runChain: every attempt is recorded, the failed ones too; the next step *)
(* of the chain is tried after a failure.                                  *)
Attempt(c) ==
    /\ pc[c] = "calling" /\ call[c].kind # "line" /\ call[c].main > 0
    /\ \E cost \in Costs : Charge(c, cost)
    /\ \/ Proceed(c, 0, call[c].side, FALSE)
       \/ Proceed(c, call[c].main - 1, call[c].side, call[c].main = 1)
    /\ UNCHANGED <<over, opened, faults, shelf>>

(* The candidates, generated beside the score; their failure is caught.    *)
AttemptSide(c) ==
    /\ pc[c] = "calling" /\ call[c].side > 0
    /\ \E cost \in Costs : Charge(c, cost)
    /\ \/ Proceed(c, call[c].main, 0, FALSE)
       \/ Proceed(c, call[c].main, call[c].side - 1, FALSE)
    /\ UNCHANGED <<over, opened, faults, shelf>>

(* speak and meterTts: paid once the bytes are there.                      *)
Speak(c) ==
    /\ pc[c] = "calling" /\ call[c].kind = "line"
    /\ \E cost \in Costs : Charge(c, cost)
    /\ bought' = [bought EXCEPT ![call[c].line] = @ + 1]
    /\ IF holder = c THEN lapses' = lapses ELSE Lapse(c)
    /\ GoTo(c, "storing")
    /\ UNCHANGED <<over, cache, opened, faults>>

(* VOICE_UNAVAILABLE after the provider's retries: nothing is billed.      *)
SpeakFails(c) ==
    /\ pc[c] = "calling" /\ call[c].kind = "line" /\ Leave(c)
    /\ UNCHANGED <<over, opened, faults, money, shelf>>

Store(c) ==
    /\ pc[c] = "storing" /\ cache' = cache \cup {call[c].line} /\ Leave(c)
    /\ UNCHANGED <<over, bought, lapses, opened, faults, money>>
-----------------------------------------------------------------------------
(* storage.put fails: the bytes are served all the same.                   *)
StoreFails(c) ==
    /\ pc[c] = "storing" /\ Fault("store") /\ Leave(c)
    /\ IF holder = c THEN Lapse(c) ELSE lapses' = lapses
    /\ UNCHANGED <<over, cache, bought, opened, money>>

(* The provider answered and the row could not be written: the call was    *)
(* made, is not charged, and its chain rejects.                            *)
ChargeFails(c) ==
    /\ pc[c] = "calling" /\ Fault("charge")
    /\ IF call[c].kind = "line"
         THEN /\ bought' = [bought EXCEPT ![call[c].line] = @ + 1]
              /\ Lapse(c) /\ Leave(c)
         ELSE /\ \/ /\ call[c].main > 0
                    /\ Proceed(c, 0, call[c].side, TRUE)
                 \/ /\ call[c].side > 0
                    /\ Proceed(c, call[c].main, 0, FALSE)
              /\ UNCHANGED <<bought, lapses>>
    /\ UNCHANGED <<over, cache, opened, money>>

(* TX_TIMEOUT_MS: the holder's transaction is rolled back and its lock     *)
(* released; what runs inside it is not told.                              *)
HolderExpires(c) ==
    /\ holder = c /\ Fault("timeout") /\ holder' = NoOne
    /\ IF pc[c] = "storing" THEN Lapse(c) ELSE lapses' = lapses
    /\ UNCHANGED <<over, pc, call, cache, bought, opened, money>>

(* The same transaction, still waiting for the lock.                       *)
WaiterExpires(c) ==
    /\ pc[c] = "waiting" /\ Fault("timeout") /\ Leave(c)
    /\ UNCHANGED <<over, opened, money, shelf>>

(* The process dies with the caller in it.                                 *)
Crash(c) ==
    /\ pc[c] # "idle" /\ Fault("crash") /\ Leave(c)
    /\ IF pc[c] = "storing" /\ holder = c
         THEN Lapse(c) ELSE lapses' = lapses
    /\ UNCHANGED <<over, cache, bought, opened, money>>

(* The steps a caller takes by itself once it has, or needs, no lock.      *)
Goes(c) ==
    Reread(c) \/ Attempt(c) \/ AttemptSide(c) \/ Speak(c) \/ SpeakFails(c)
      \/ Store(c) \/ EndInterview(c)

Served(c) == Enter(c) \/ Refuse(c)

Fails(c) ==
    StoreFails(c) \/ ChargeFails(c) \/ HolderExpires(c) \/ WaiterExpires(c)
      \/ Crash(c)

Next ==
    \E c \in Callers : (\E k \in Kinds : Ask(c, k)) \/ Served(c) \/ Goes(c)
                         \/ Fails(c)

Spec == Init /\ [][Next]_vars

(* Every provider call is bounded by its own timeout, and Postgres hands   *)
(* an advisory lock to its waiters in the order they came.                 *)
FairSpec ==
    Spec /\ \A c \in Callers : WF_vars(Goes(c)) /\ SF_vars(Served(c))
-----------------------------------------------------------------------------
TypeOK ==
    /\ spent \in Nat /\ over \in BOOLEAN /\ holder \in Callers \cup {NoOne}
    /\ pc \in [Callers -> Steps] /\ call \in [Callers -> Calls]
    /\ cache \subseteq Lines /\ bought \in [Lines -> Nat]
    /\ lapses \in [Lines -> Nat]
    /\ unlocked \in Nat /\ opened \in 0..MaxOpen /\ faults \in 0..MaxFaults

(* The ceiling is overshot by no more than one section under the lock (two *)
(* chains, in the hook) and the charges of calls that hold no lock: those  *)
(* outside the ceiling, those whose transaction timed out, and candidates  *)
(* whose score failed (budget.ts withBudget).                              *)
Overshoot == spent < Budget + 2 * Chain * MaxCost + unlocked

(* A line is bought once, and once more for every purchase whose bytes     *)
(* were not in the cache when the lock went on: the prewarm and the room's *)
(* request race to it by construction (tts.ts synthesise).                 *)
PaidOnce == \A l \in Lines : bought[l] <= 1 + lapses[l]

(* An interview is ended for its budget only when the budget is gone,      *)
(* although the refusal and the ending are steps apart.                    *)
EndedWhenSpent == over => spent >= Budget

(* Whoever asks under the ceiling is answered: served, refused or failed.  *)
(* A section that ends badly gives the lock on (budget.ts withBudget).     *)
Answered == \A c \in Callers : pc[c] = "waiting" ~> pc[c] = "idle"
=============================================================================
