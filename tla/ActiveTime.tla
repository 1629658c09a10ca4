----------------------------- MODULE ActiveTime -----------------------------
(***************************************************************************)
(* How long the candidate has been in the room (elapsed.ts): a bank of     *)
(* whole seconds, and an anchor from which the open stretch is measured.   *)
(* The tabs' heartbeats move both, each read, computed and written in      *)
(* steps of its own; so does the request that starts the interview.        *)
(***************************************************************************)
EXTENDS Integers

CONSTANTS Tabs,      \* rooms open on the interview, each with one beat at a time
          Starters,  \* POST /profile requests
          Sec,       \* ticks of the clock in a second
          Grace,     \* HEARTBEAT_GRACE_SECONDS, in ticks
          MaxNow     \* bounds the clock

ASSUME ClockAssumption ==
    /\ Tabs \cap Starters = {}
    /\ Sec \in Nat \ {0} /\ Grace \in Nat /\ MaxNow \in Nat

Never == -1

VARIABLES now,
          started, elapsed, seen,  \* started_at, elapsed_seconds, last_seen_at
          live,      \* the state is one of LIVE_STATES
          pc, copy,  \* each request, and the row it read
          at,        \* the clock as each request read it
          (* history, for the properties: *)
          base,      \* the first anchor
          away,      \* gaps that were not counted
          again,     \* time a start put before the anchor again
          banked     \* the bank when the interview ended, in ticks

row == <<started, elapsed, seen>>
history == <<base, away, again, banked>>
vars == <<now, row, live, pc, copy, at, history>>

Requests == Tabs \cup Starters
Times == {Never} \cup Nat
Rows == [started : Times, elapsed : Nat, seen : Times, live : BOOLEAN]
NoRow == [started |-> Never, elapsed |-> 0, seen |-> Never, live |-> FALSE]

Init ==
    /\ now = 0 /\ started = Never /\ elapsed = 0 /\ seen = Never /\ live = TRUE
    /\ pc = [r \in Requests |-> "idle"]
    /\ copy = [r \in Requests |-> NoRow]
    /\ at = [r \in Requests |-> 0]
    /\ base = Never /\ away = 0 /\ again = 0 /\ banked = 0

Tick ==
    /\ now < MaxNow /\ now' = now + 1
    /\ UNCHANGED <<row, live, pc, copy, at, history>>
-----------------------------------------------------------------------------
(* Mutant: a grace of twice the length.                                    *)
TwiceTheGrace(anchor, time) ==
    IF anchor = Never \/ time < anchor \/ time - anchor > 2 * Grace
    THEN 0 ELSE time - anchor

(* openStretchMs *)
OpenStretch(anchor, time) ==
    IF anchor = Never \/ time < anchor \/ time - anchor > Grace
    THEN 0 ELSE time - anchor

(* activeMs, in ticks                                                      *)
Active ==
    IF started = Never THEN 0 ELSE elapsed * Sec + OpenStretch(seen, now)

(* Every request starts from the row its middleware loaded.                *)
Load(r) ==
    /\ pc[r] = "idle" /\ pc' = [pc EXCEPT ![r] = "loaded"]
    /\ copy' = [copy EXCEPT ![r] = [started |-> started, elapsed |-> elapsed,
                                    seen |-> seen, live |-> live]]
    /\ UNCHANGED <<now, row, live, at, history>>

Finish(r) ==
    /\ pc' = [pc EXCEPT ![r] = "idle"]
    /\ copy' = [copy EXCEPT ![r] = NoRow] /\ at' = [at EXCEPT ![r] = 0]

(* The clock is read, and the write is on its way.  A beat for an          *)
(* interview that is over banks nothing.                                   *)
ReadClock(r) ==
    /\ pc[r] = "loaded"
    /\ IF r \in Tabs /\ ~copy[r].live
         THEN Finish(r)
         ELSE /\ pc' = [pc EXCEPT ![r] = "writing"]
              /\ at' = [at EXCEPT ![r] = now] /\ copy' = copy
    /\ UNCHANGED <<now, row, live, history>>

(* Mutant: the increment is not guarded.                                   *)
AlwaysMine(t) == TRUE

(* The WHERE of the update: nobody moved the anchor since it was read.     *)
Mine(t) == seen = copy[t].seen

(* Mutant: the remainder is taken off the wrong way.                       *)
AnchorTwiceBack(t, whole) ==
    at[t] - (OpenStretch(copy[t].seen, at[t]) + whole * Sec)

(* Mutant: the anchor stays where the first beat put it.                   *)
AnchorKept(t, whole) ==
    IF copy[t].seen = Never THEN at[t] ELSE copy[t].seen

(* What the whole seconds leave over stays in the open stretch.            *)
Anchor(t, whole) == at[t] - (OpenStretch(copy[t].seen, at[t]) - whole * Sec)

(* Math.floor of the stretch, in seconds.                                  *)
Floored(t, whole) ==
    LET stretch == OpenStretch(copy[t].seen, at[t])
    IN  whole * Sec <= stretch /\ stretch < (whole + 1) * Sec

(* bankActiveTime: the loser of the race writes nothing.                   *)
Bank(t) ==
    /\ t \in Tabs /\ pc[t] = "writing" /\ Mine(t)
    /\ \E whole \in 0..Grace :
          /\ Floored(t, whole)
          /\ elapsed' = elapsed + whole
          /\ seen' = Anchor(t, whole)
    /\ base' = IF base = Never THEN at[t] ELSE base
    /\ away' = IF copy[t].seen # Never /\ at[t] - copy[t].seen > Grace
               THEN away + (at[t] - copy[t].seen) ELSE away
    /\ Finish(t) /\ UNCHANGED <<now, started, live, again, banked>>

BankLost(t) ==
    /\ t \in Tabs /\ pc[t] = "writing" /\ ~Mine(t)
    /\ Finish(t) /\ UNCHANGED <<now, row, live, history>>

(* startHrRound's write, guarded by nothing but the copy: the first        *)
(* stretch is anchored here, and what the beats left there is passed over. *)
Start(s) ==
    /\ s \in Starters /\ pc[s] = "writing"
    /\ IF copy[s].started # Never
         THEN started' = copy[s].started /\ UNCHANGED <<seen, history>>
         ELSE /\ started' = at[s] /\ seen' = at[s]
              /\ base' = IF base = Never THEN at[s] ELSE base
              /\ away' = IF seen # Never /\ at[s] > seen
                         THEN away + (at[s] - seen) ELSE away
              /\ again' = IF at[s] < seen THEN again + (seen - at[s]) ELSE again
              /\ banked' = banked
    /\ Finish(s) /\ UNCHANGED <<now, elapsed, live>>

(* The interview leaves its live states.                                   *)
End ==
    /\ live /\ started # Never /\ live' = FALSE /\ banked' = elapsed * Sec
    /\ UNCHANGED <<now, row, pc, copy, at, base, away, again>>

Next ==
    \/ Tick \/ End
    \/ \E r \in Requests : Load(r) \/ ReadClock(r) \/ Start(r)
                             \/ Bank(r) \/ BankLost(r)

Spec == Init /\ [][Next]_vars
-----------------------------------------------------------------------------
TypeOK ==
    /\ now \in Nat /\ started \in Times /\ elapsed \in Nat /\ seen \in Times
    /\ live \in BOOLEAN /\ pc \in [Requests -> {"idle", "loaded", "writing"}]
    /\ copy \in [Requests -> Rows] /\ at \in [Requests -> Nat]
    /\ base \in Times /\ away \in Nat /\ again \in Nat /\ banked \in Nat

(* Every tick since the first anchor is banked, in the open stretch, or in *)
(* a gap that was passed over, and none of them twice: whatever the tabs'  *)
(* beats do to each other (elapsed.ts bankActiveTime).                     *)
EveryTickOnce ==
    seen # Never => elapsed * Sec + away = (seen - base) + again

(* One candidate in one room spends one second per second, however many    *)
(* tabs are watching; a start whose clock was read before a beat's write   *)
(* is the exception.                                                       *)
SecondPerSecond == base # Never => Active <= (now - base) + again

(* The deadline slides forward by no more than one grace at a time.        *)
SlidesByGrace == [][Active' >= Active - Grace]_vars

(* A beat that raced the last answer, in every tab, adds no more than one  *)
(* grace to the figure the report has already used (heartbeat.ts).         *)
EndedBankBounded == ~live /\ again = 0 => elapsed * Sec <= banked + Grace

(* The tab that wins the write tells the room the row's own total: the     *)
(* anchor it compared stands for the bank it read beside it.               *)
WinnerTellsTotal ==
    \A t \in Tabs :
       pc[t] # "idle" /\ again = 0 /\ copy[t].seen = seen =>
          copy[t].elapsed = elapsed
=============================================================================
