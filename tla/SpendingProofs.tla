--------------------------- MODULE SpendingProofs ---------------------------
(***************************************************************************)
(* Theorems about the ceiling, for every number of callers, lines, costs   *)
(* and faults.                                                             *)
(***************************************************************************)
EXTENDS Spending, TLAPS

Held == {"reread", "calling", "storing"}

(* Where a caller is says what it pays for, and the holder is at work.     *)
Places ==
    /\ \A c \in Callers :
          /\ pc[c] \in {"reread", "storing"} => call[c].kind = "line"
          /\ call[c].kind = "line" =>
               call[c].line \in Lines /\ call[c].main = 1 /\ call[c].side = 0
          /\ call[c].kind # "line" => call[c].line = NoLine
    /\ holder # NoOne => pc[holder] \in Held

HolderAt(step, l) ==
    holder # NoOne /\ pc[holder] = step /\ call[holder].line = l

(* A purchase is matched by a lapse, but for the one that is in the cache  *)
(* or on its way there under the lock.                                     *)
Shelf ==
    \A l \in Lines :
       /\ bought[l] <= lapses[l] + 1
       /\ l \notin cache /\ ~HolderAt("storing", l) => bought[l] <= lapses[l]
       /\ HolderAt("calling", l) => bought[l] <= lapses[l]

Left(c) ==
    IF pc[c] \in {"reread", "calling"} THEN call[c].main + call[c].side ELSE 0

(* What the holder may still spend was within the section when it entered. *)
Purse ==
    /\ Overshoot
    /\ holder # NoOne => spent + Left(holder) * MaxCost
                           < Budget + 2 * Chain * MaxCost + unlocked

(* A refusal is never taken back: the total only grows.                    *)
Refusals ==
    /\ EndedWhenSpent
    /\ \A c \in Callers : pc[c] = "refused" => spent >= Budget

IInv == TypeOK /\ Places /\ Shelf /\ Purse /\ Refusals
-----------------------------------------------------------------------------
LEMMA Products ==
    ASSUME NEW m \in Nat, NEW n \in Nat
    PROVE  m * n \in Nat
OBVIOUS

LEMMA ProductMonotone ==
    ASSUME NEW m \in Nat, NEW k \in Nat, NEW n \in Nat, m <= k
    PROVE  m * n <= k * n
OBVIOUS

(* One attempt fewer leaves room for what it cost.                         *)
LEMMA ProductStep ==
    ASSUME NEW m \in Nat, NEW k \in Nat, NEW n \in Nat, m < k
    PROVE  m * n + n <= k * n
<1>1. (m + 1) * n <= k * n BY ProductMonotone
<1>2. (m + 1) * n = m * n + n OBVIOUS
<1> QED BY <1>1, <1>2, Products

LEMMA SectionNat == 2 * Chain * MaxCost \in Nat
BY Products, CeilingAssumption

LEMMA AskKeeps ==
    ASSUME IInv, NEW c \in Callers, NEW k \in Kinds, Ask(c, k)
    PROVE  IInv'
<1> USE CeilingAssumption
<1>1. PICK w \in Wants(k) : call' = [call EXCEPT ![c] = w]
  BY DEF Ask
<1>2. /\ w \in Calls
      /\ w.kind = "line" => w.line \in Lines /\ w.main = 1 /\ w.side = 0
      /\ w.kind # "line" => w.line = NoLine
  <2>1. CASE k = "chain"
    <3>1. w \in [kind : {k}, line : {NoLine}, ends : BOOLEAN,
                 main : Attempts, side : {0}]
      BY <1>1, <2>1 DEF Wants
    <3> QED BY <3>1, <2>1 DEF Calls, Kinds, Attempts
  <2>2. CASE k = "hook"
    <3>1. w \in [kind : {k}, line : {NoLine}, ends : {FALSE},
                 main : {Chain}, side : {0, Chain}]
      BY <1>1, <2>2 DEF Wants
    <3>2. Chain \in 0..Chain /\ 0 \in 0..Chain OBVIOUS
    <3>3. w.side \in 0..Chain BY <3>1, <3>2
    <3>4. w = [kind |-> k, line |-> NoLine, ends |-> FALSE,
               main |-> Chain, side |-> w.side]
      BY <3>1
    <3>5. k \in Kinds \cup {"none"} /\ FALSE \in BOOLEAN OBVIOUS
    <3>6. [kind |-> k, line |-> NoLine, ends |-> FALSE,
           main |-> Chain, side |-> w.side] \in Calls
      BY <3>2, <3>3, <3>5 DEF Calls
    <3>7. w.kind # "line" /\ w.line = NoLine BY <3>4, <2>2
    <3> QED BY <3>4, <3>6, <3>7
  <2>3. CASE k = "line"
    <3>1. w \in [kind : {k}, line : Lines \ cache, ends : BOOLEAN,
                 main : {1}, side : {0}]
      BY <1>1, <2>3 DEF Wants
    <3> QED BY <3>1, <2>3 DEF Calls, Kinds
  <2>4. CASE k = "open"
    <3>1. w \in [kind : {k}, line : {NoLine}, ends : {FALSE},
                 main : {Chain}, side : {0}]
      BY <1>1, <2>4 DEF Wants
    <3>2. Chain \in 0..Chain /\ 0 \in 0..Chain OBVIOUS
    <3>3. w = [kind |-> k, line |-> NoLine, ends |-> FALSE,
               main |-> Chain, side |-> 0]
      BY <3>1
    <3> QED BY <3>2, <3>3, <2>4 DEF Calls, Kinds
  <2> QED BY <2>1, <2>2, <2>3, <2>4 DEF Kinds
<1>3. c # holder /\ pc' \in [Callers -> Steps] /\ opened' \in 0..MaxOpen
      /\ pc'[c] \in {"calling", "waiting"}
      /\ \A d \in Callers \ {c} : pc'[d] = pc[d] /\ call'[d] = call[d]
  BY <1>1 DEF Ask, IInv, TypeOK, Places, Steps, Held
<1>4. TypeOK'
  BY <1>1, <1>2, <1>3 DEF Ask, IInv, TypeOK, money, shelf
<1>5. Places'
  BY <1>1, <1>2, <1>3 DEF Ask, IInv, TypeOK, Places
<1>6. \A s \in Steps, l \in Lines : HolderAt(s, l)' <=> HolderAt(s, l)
  BY <1>1, <1>3 DEF Ask, IInv, TypeOK, HolderAt
<1>7. Shelf'
  BY <1>6 DEF Ask, IInv, Shelf, shelf, Steps
<1>8. Purse' /\ Refusals'
  BY <1>3 DEF Ask, IInv, TypeOK, Purse, Overshoot, Left, Refusals,
              EndedWhenSpent, money
<1> QED BY <1>4, <1>5, <1>7, <1>8 DEF IInv

(* A caller without the lock leaves the holder where it is.                *)
LEMMA LeaveTyped ==
    ASSUME IInv, NEW c \in Callers, Leave(c)
    PROVE  /\ holder' \in Callers \cup {NoOne}
           /\ pc' \in [Callers -> Steps] /\ call' \in [Callers -> Calls]
           /\ Places'
           /\ holder' # NoOne => /\ holder' = holder /\ holder # c
                                /\ pc'[holder] = pc[holder]
                                /\ call'[holder] = call[holder]
<1> USE CeilingAssumption
<1>1. NoCall \in Calls
  BY DEF NoCall, Calls, Kinds
<1> QED BY <1>1 DEF IInv, TypeOK, Leave, Places, Steps, NoCall

(* What leaving changes of the purse and of the shelf.                     *)
LEMMA LeaveKeeps ==
    ASSUME IInv, NEW c \in Callers, Leave(c),
           UNCHANGED <<spent, unlocked, cache, bought, lapses>>,
           pc[c] # "storing" \/ holder # c
    PROVE  Shelf' /\ Purse'
<1> USE CeilingAssumption
<1>1. \A s \in Steps, l \in Lines : HolderAt(s, l)' => HolderAt(s, l)
  BY LeaveTyped DEF HolderAt
<1>2. \A l \in Lines : HolderAt("storing", l) => HolderAt("storing", l)'
  BY LeaveTyped DEF HolderAt, Leave, IInv, TypeOK
<1>3. Shelf'
  BY <1>1, <1>2 DEF IInv, Shelf, Steps
<1>4. Purse'
  BY LeaveTyped DEF IInv, Purse, Overshoot, Left
<1> QED BY <1>3, <1>4

LEMMA RefusalsKeep ==
    ASSUME IInv, spent' >= spent, over' => over \/ spent >= Budget,
           \A d \in Callers :
              pc'[d] = "refused" => pc[d] = "refused" \/ spent >= Budget,
           spent' \in Nat
    PROVE  Refusals'
BY CeilingAssumption DEF IInv, TypeOK, Refusals, EndedWhenSpent

LEMMA EnterKeeps ==
    ASSUME IInv, NEW c \in Callers, Enter(c)
    PROVE  IInv'
<1> USE CeilingAssumption
<1>1. TypeOK' BY DEF IInv, TypeOK, Enter, Steps, money, shelf
<1>2. Places' BY DEF IInv, TypeOK, Places, Enter, Held
<1>3. Shelf'
  <2>1. \A l \in Lines : HolderAt("calling", l)' => l \notin Lines
    BY DEF IInv, TypeOK, Places, Enter, HolderAt
  <2>2. \A l \in Lines : ~HolderAt("storing", l) /\ ~HolderAt("storing", l)'
    BY DEF IInv, TypeOK, Enter, HolderAt
  <2> QED BY <2>1, <2>2 DEF IInv, Shelf, Enter, shelf
<1>4. Purse'
  <2>1. call[c].main + call[c].side <= 2 * Chain
          /\ call[c].main + call[c].side \in Nat
    BY DEF IInv, TypeOK, Calls
  <2>2. (call[c].main + call[c].side) * MaxCost <= 2 * Chain * MaxCost
    BY <2>1, ProductMonotone
  <2>3. (call[c].main + call[c].side) * MaxCost \in Nat BY <2>1, Products
  <2>4. Left(c)' = call[c].main + call[c].side
    BY DEF IInv, TypeOK, Enter, Left
  <2>5. spent' = spent /\ unlocked' = unlocked /\ holder' = c
    BY DEF Enter, money
  <2>6. spent < Budget BY DEF Enter, Exhausted, IInv, TypeOK
  <2> QED BY <2>2, <2>3, <2>4, <2>5, <2>6, SectionNat
          DEF IInv, TypeOK, Purse, Overshoot
<1>5. Refusals'
  BY DEF IInv, TypeOK, Refusals, EndedWhenSpent, Enter, money
<1> QED BY <1>1, <1>2, <1>3, <1>4, <1>5 DEF IInv

(* Steps that only leave, whatever fault made them.                        *)
LEMMA LeavingKeeps ==
    ASSUME IInv, NEW c \in Callers, Leave(c),
           UNCHANGED <<spent, unlocked, cache, bought, lapses>>,
           pc[c] # "storing" \/ holder # c,
           over' \in BOOLEAN, over' => over \/ spent >= Budget,
           opened' \in 0..MaxOpen, faults' \in 0..MaxFaults
    PROVE  IInv'
<1>1. TypeOK' BY LeaveTyped DEF IInv, TypeOK
<1>2. \A d \in Callers : pc'[d] = "refused" => pc[d] = "refused"
  BY DEF Leave, IInv, TypeOK
<1>3. Refusals' BY <1>2, RefusalsKeep DEF IInv, TypeOK
<1> QED BY <1>1, <1>3, LeaveTyped, LeaveKeeps DEF IInv

LEMMA FaultCounted ==
    ASSUME IInv, NEW f \in {"timeout", "charge", "store", "crash"}, Fault(f)
    PROVE  faults' \in 0..MaxFaults
BY CeilingAssumption DEF IInv, TypeOK, Fault

LEMMA RefuseKeeps ==
    ASSUME IInv, NEW c \in Callers, Refuse(c) \/ EndInterview(c)
    PROVE  IInv'
<1> USE CeilingAssumption
<1>1. CASE Refuse(c) /\ call[c].ends
  <2>1. GoTo(c, "refused") BY <1>1 DEF Refuse, AfterRefusal
  <2>2. TypeOK' BY <1>1, <2>1 DEF IInv, TypeOK, Refuse, GoTo, Steps, money, shelf
  <2>3. Places' BY <1>1, <2>1 DEF IInv, TypeOK, Places, Refuse, GoTo
  <2>4. Shelf'
    BY <1>1, <2>1 DEF IInv, TypeOK, Shelf, HolderAt, Refuse, GoTo, shelf
  <2>5. Purse'
    BY <1>1, <2>1 DEF IInv, TypeOK, Purse, Overshoot, Left, Refuse, GoTo, money
  <2>6. Refusals'
    BY <1>1, <2>1 DEF IInv, TypeOK, Refusals, EndedWhenSpent, Refuse, GoTo,
                      Exhausted, money
  <2> QED BY <2>2, <2>3, <2>4, <2>5, <2>6 DEF IInv
<1>2. CASE Refuse(c) /\ ~call[c].ends
  <2>1. Leave(c) BY <1>2 DEF Refuse, AfterRefusal
  <2> QED BY <1>2, <2>1, LeavingKeeps DEF Refuse, IInv, TypeOK, money, shelf
<1>3. CASE EndInterview(c)
  <2>1. spent >= Budget BY <1>3 DEF IInv, Refusals, EndInterview
  <2> QED BY <1>3, <2>1, LeavingKeeps DEF EndInterview, IInv, TypeOK, money, shelf
<1> QED BY <1>1, <1>2, <1>3

LEMMA RereadKeeps ==
    ASSUME IInv, NEW c \in Callers, Reread(c)
    PROVE  IInv'
<1> USE CeilingAssumption
<1>1. CASE Leave(c)
  BY <1>1, LeavingKeeps DEF Reread, IInv, TypeOK, money, shelf
<1>2. CASE GoTo(c, "calling") /\ call[c].line \notin cache
  <2>1. TypeOK' BY <1>2 DEF IInv, TypeOK, Reread, GoTo, Steps, money, shelf
  <2>2. Places' BY <1>2 DEF IInv, TypeOK, Places, Reread, GoTo, Held
  <2>3. Shelf'
    BY <1>2 DEF IInv, TypeOK, Shelf, HolderAt, Reread, GoTo, shelf
  <2>4. Purse'
    BY <1>2 DEF IInv, TypeOK, Purse, Overshoot, Left, Reread, GoTo, money
  <2>5. Refusals'
    BY <1>2 DEF IInv, TypeOK, Refusals, EndedWhenSpent, Reread, GoTo, money
  <2> QED BY <2>1, <2>2, <2>3, <2>4, <2>5 DEF IInv
<1> QED BY <1>1, <1>2 DEF Reread, FoundOnReread

(* An attempt of a chain, charged or not, whether the section goes on,     *)
(* ends, or loses the lock with its other chain still running.             *)
LEMMA ProceedKeeps ==
    ASSUME IInv, NEW c \in Callers, pc[c] = "calling",
           call[c].kind # "line",
           NEW m \in 0..call[c].main, NEW s \in 0..call[c].side,
           m + s < call[c].main + call[c].side,
           NEW r \in BOOLEAN, Proceed(c, m, s, r),
           NEW cost \in Costs, Charge(c, cost),
           UNCHANGED <<over, opened, cache, bought, lapses>>,
           faults' \in 0..MaxFaults
    PROVE  IInv'
<1> USE CeilingAssumption
<1>1. /\ spent' = spent + cost /\ cost \in Nat /\ cost <= MaxCost
      /\ unlocked' = IF holder = c THEN unlocked ELSE unlocked + cost
      /\ spent' \in Nat /\ unlocked' \in Nat
  BY DEF Charge, Costs, IInv, TypeOK
<1>2. call[c] \in Calls /\ m \in Nat /\ s \in Nat
      /\ call[c].main + call[c].side \in Nat
  BY DEF IInv, TypeOK, Calls
<1>3. (m + s) * MaxCost + MaxCost <= (call[c].main + call[c].side) * MaxCost
      /\ (m + s) * MaxCost \in Nat
  <2>1. m + s \in Nat BY <1>2
  <2>2. (m + s) * MaxCost + MaxCost
          <= (call[c].main + call[c].side) * MaxCost
    BY ONLY <1>2, <2>1, m + s < call[c].main + call[c].side, MaxCost \in Nat,
       ProductStep
  <2> QED BY <2>1, <2>2, Products
<1>4. /\ holder' \in Callers \cup {NoOne}
      /\ pc' \in [Callers -> Steps] /\ call' \in [Callers -> Calls]
      /\ Places'
      /\ holder' # NoOne =>
           /\ holder' = holder
           /\ holder # c => /\ pc'[holder] = pc[holder]
                            /\ call'[holder] = call[holder]
           /\ holder = c => /\ pc'[c] = "calling"
                            /\ call'[c].line = call[c].line
                            /\ call'[c].main = m /\ call'[c].side = s
      /\ \A d \in Callers : pc'[d] = "refused" => pc[d] = "refused"
  <2>1. CASE m = 0 /\ s = 0
    <3>1. Leave(c) BY <2>1 DEF Proceed
    <3> QED BY <3>1, LeaveTyped DEF Leave, IInv, TypeOK
  <2>2. CASE ~(m = 0 /\ s = 0)
    <3>1. /\ call' = [call EXCEPT ![c].main = m, ![c].side = s]
          /\ holder' = IF holder = c /\ r THEN NoOne ELSE holder
          /\ pc' = pc
      BY <2>2 DEF Proceed
    <3>2. /\ m \in 0..Chain /\ s \in 0..Chain
          /\ call'[c] = [call[c] EXCEPT !.main = m, !.side = s]
          /\ \A d \in Callers \ {c} : call'[d] = call[d]
      BY <1>2, <3>1 DEF IInv, TypeOK, Calls
    <3>3. call'[c] \in Calls /\ call' \in [Callers -> Calls]
      BY <1>2, <3>1, <3>2 DEF IInv, TypeOK, Calls
    <3>4. /\ call'[c].line = call[c].line /\ call'[c].kind = call[c].kind
          /\ call'[c].main = m /\ call'[c].side = s
      BY <1>2, <3>2 DEF Calls
    <3>5. Places' BY <3>1, <3>2, <3>4 DEF IInv, TypeOK, Places, Held
    <3> QED BY <3>1, <3>2, <3>3, <3>4, <3>5 DEF IInv, TypeOK
  <2> QED BY <2>1, <2>2
<1>5. TypeOK' BY <1>1, <1>4 DEF IInv, TypeOK
<1>6. Shelf'
  <2>1. \A st \in Steps, l \in Lines : HolderAt(st, l)' => HolderAt(st, l)
    BY <1>4 DEF HolderAt
  <2>2. \A l \in Lines : HolderAt("storing", l) => HolderAt("storing", l)'
    <3>1. CASE m = 0 /\ s = 0
      BY <3>1 DEF Proceed, HolderAt, Leave, IInv, TypeOK
    <3>2. CASE ~(m = 0 /\ s = 0)
      BY <3>2 DEF Proceed, HolderAt, IInv, TypeOK
    <3> QED BY <3>1, <3>2
  <2> QED BY <2>1, <2>2 DEF IInv, Shelf, Steps
<1>7. Purse'
  <2>1. CASE holder = c
    <3>1. Left(c) = call[c].main + call[c].side BY DEF Left
    <3>2. spent + (call[c].main + call[c].side) * MaxCost
            < Budget + 2 * Chain * MaxCost + unlocked
      BY <2>1, <3>1 DEF IInv, Purse
    <3>3. spent' + (m + s) * MaxCost
            < Budget + 2 * Chain * MaxCost + unlocked'
      <4> HIDE DEF Costs
      <4>1. (call[c].main + call[c].side) * MaxCost \in Nat
        BY <1>2, Products
      <4> QED BY <4>1, <1>1, <1>3, <2>1, <3>2, SectionNat DEF IInv, TypeOK
    <3>4. holder' # NoOne => Left(c)' = m + s BY <1>4, <2>1 DEF Left
    <3> QED BY <1>1, <1>3, <1>4, <2>1, <3>3, <3>4, SectionNat
            DEF IInv, TypeOK, Purse, Overshoot
  <2>2. CASE holder # c
    <3>1. spent' = spent + cost /\ unlocked' = unlocked + cost
      BY <1>1, <2>2
    <3>2. holder' # NoOne => holder' = holder /\ Left(holder)' = Left(holder)
      BY <1>4, <2>2 DEF Left
    <3>3. holder # NoOne => Left(holder) \in Nat
      BY DEF IInv, TypeOK, Calls, Left
    <3>4. holder # NoOne => Left(holder) * MaxCost \in Nat
      BY <3>3, Products
    <3> QED BY <1>1, <3>1, <3>2, <3>4, SectionNat
            DEF IInv, TypeOK, Purse, Overshoot
  <2> QED BY <2>1, <2>2
<1>8. Refusals' BY <1>1, <1>4, RefusalsKeep DEF IInv, TypeOK
<1> QED BY <1>4, <1>5, <1>6, <1>7, <1>8 DEF IInv

LEMMA AttemptKeeps ==
    ASSUME IInv, NEW c \in Callers, Attempt(c) \/ AttemptSide(c)
    PROVE  IInv'
<1> USE CeilingAssumption
<1>1. call[c] \in Calls BY DEF IInv, TypeOK
<1>2. call[c].main \in Nat /\ call[c].side \in Nat BY <1>1 DEF Calls
<1>3. /\ faults' \in 0..MaxFaults
      /\ UNCHANGED <<over, opened, cache, bought, lapses>>
      /\ pc[c] = "calling"
      /\ \E cost \in Costs : Charge(c, cost)
  BY DEF IInv, TypeOK, Attempt, AttemptSide, shelf
<1>4. call[c].kind # "line"
  <2>1. CASE Attempt(c) BY <2>1 DEF Attempt
  <2>2. CASE AttemptSide(c)
    <3>1. call[c].side # 0 BY <1>2, <2>2 DEF AttemptSide
    <3> QED BY <3>1 DEF IInv, Places
  <2> QED BY <2>1, <2>2
<1>5. PICK cost \in Costs : Charge(c, cost) BY <1>3
<1>6. ASSUME NEW m \in 0..call[c].main, NEW s \in 0..call[c].side,
             m + s < call[c].main + call[c].side,
             NEW r \in BOOLEAN, Proceed(c, m, s, r)
      PROVE  IInv'
  BY <1>3, <1>4, <1>5, <1>6, ProceedKeeps
<1>7. CASE Attempt(c)
  <2>1. call[c].main > 0 BY <1>7 DEF Attempt
  <2>2. CASE Proceed(c, 0, call[c].side, FALSE)
    <3>1. /\ 0 \in 0..call[c].main /\ call[c].side \in 0..call[c].side
          /\ 0 + call[c].side < call[c].main + call[c].side
      BY <1>2, <2>1
    <3> QED BY <1>6, <2>2, <3>1
  <2>3. CASE Proceed(c, call[c].main - 1, call[c].side, call[c].main = 1)
    <3>1. (call[c].main = 1) \in BOOLEAN OBVIOUS
    <3>2. /\ call[c].main - 1 \in 0..call[c].main
          /\ call[c].side \in 0..call[c].side
          /\ call[c].main - 1 + call[c].side < call[c].main + call[c].side
      BY <1>2, <2>1
    <3> QED BY <1>6, <2>3, <3>1, <3>2
  <2> QED BY <1>7, <2>2, <2>3 DEF Attempt
<1>8. CASE AttemptSide(c)
  <2>1. call[c].side > 0 BY <1>8 DEF AttemptSide
  <2>2. CASE Proceed(c, call[c].main, 0, FALSE)
    <3>1. /\ call[c].main \in 0..call[c].main /\ 0 \in 0..call[c].side
          /\ call[c].main + 0 < call[c].main + call[c].side
      BY <1>2, <2>1
    <3> QED BY <1>6, <2>2, <3>1
  <2>3. CASE Proceed(c, call[c].main, call[c].side - 1, FALSE)
    <3>1. /\ call[c].main \in 0..call[c].main
          /\ call[c].side - 1 \in 0..call[c].side
          /\ call[c].main + (call[c].side - 1) < call[c].main + call[c].side
      BY <1>2, <2>1
    <3> QED BY <1>6, <2>3, <3>1
  <2> QED BY <1>8, <2>2, <2>3 DEF AttemptSide
<1> QED BY <1>7, <1>8

LEMMA SpeakKeeps ==
    ASSUME IInv, NEW c \in Callers, Speak(c)
    PROVE  IInv'
<1> USE CeilingAssumption
<1>1. PICK cost \in Costs : Charge(c, cost) BY DEF Speak
<1>2. /\ cost \in Nat /\ cost <= MaxCost /\ spent' = spent + cost
      /\ unlocked' = IF holder = c THEN unlocked ELSE unlocked + cost
      /\ spent' \in Nat /\ unlocked' \in Nat
  BY <1>1 DEF Charge, Costs, IInv, TypeOK
<1>3. call[c].line \in Lines /\ call[c].main = 1 /\ call[c].side = 0
  BY DEF Speak, IInv, Places
<1>4. /\ bought' = [bought EXCEPT ![call[c].line] = @ + 1]
      /\ lapses' = IF holder = c THEN lapses
                     ELSE [lapses EXCEPT ![call[c].line] = @ + 1]
  BY DEF Speak, Lapse
<1>5. bought' \in [Lines -> Nat] /\ lapses' \in [Lines -> Nat]
  BY <1>3, <1>4 DEF IInv, TypeOK
<1>6. pc' = [pc EXCEPT ![c] = "storing"] /\ call' = call /\ holder' = holder
  BY DEF Speak, GoTo
<1>7. TypeOK' BY <1>2, <1>5, <1>6 DEF IInv, TypeOK, Speak, Steps
<1>8. Places' BY <1>6 DEF IInv, TypeOK, Places, Held, Speak
<1>9. Shelf'
  <2> SUFFICES ASSUME NEW l \in Lines
               PROVE  /\ bought'[l] <= lapses'[l] + 1
                      /\ l \notin cache' /\ ~HolderAt("storing", l)' =>
                            bought'[l] <= lapses'[l]
                      /\ HolderAt("calling", l)' => bought'[l] <= lapses'[l]
    BY DEF Shelf
  <2>1. bought[l] \in Nat /\ lapses[l] \in Nat /\ cache' = cache
    BY DEF IInv, TypeOK, Speak
  <2>2. CASE l = call[c].line /\ holder = c
    <3>1. HolderAt("calling", l) BY <2>2 DEF HolderAt, Speak
    <3>2. bought[l] <= lapses[l] BY <3>1 DEF IInv, Shelf
    <3>3. HolderAt("storing", l)' /\ ~HolderAt("calling", l)'
      BY <1>6, <2>2 DEF HolderAt, IInv, TypeOK
    <3>4. bought'[l] = bought[l] + 1 /\ lapses'[l] = lapses[l]
      BY <1>4, <2>2 DEF IInv, TypeOK
    <3> QED BY <2>1, <3>2, <3>3, <3>4
  <2>3. CASE l = call[c].line /\ holder # c
    <3>1. bought'[l] = bought[l] + 1 /\ lapses'[l] = lapses[l] + 1
      BY <1>4, <2>3 DEF IInv, TypeOK
    <3>2. /\ HolderAt("storing", l)' <=> HolderAt("storing", l)
          /\ HolderAt("calling", l)' <=> HolderAt("calling", l)
      BY <1>6, <2>3 DEF HolderAt, IInv, TypeOK
    <3> QED BY <2>1, <3>1, <3>2 DEF IInv, Shelf
  <2>4. CASE l # call[c].line
    <3>1. bought'[l] = bought[l] /\ lapses'[l] = lapses[l]
      BY <1>4, <2>4 DEF IInv, TypeOK
    <3>2. /\ HolderAt("storing", l)' <=> HolderAt("storing", l)
          /\ HolderAt("calling", l)' <=> HolderAt("calling", l)
      BY <1>6, <2>4 DEF HolderAt, IInv, TypeOK
    <3> QED BY <2>1, <3>1, <3>2 DEF IInv, Shelf
  <2> QED BY <2>2, <2>3, <2>4
<1>10. Purse'
  <2>1. CASE holder = c
    <3>1. Left(c) = 1 /\ Left(c)' = 0 BY <1>3, <1>6 DEF Left, Speak, IInv, TypeOK
    <3>2. spent + 1 * MaxCost < Budget + 2 * Chain * MaxCost + unlocked
      BY <2>1, <3>1 DEF IInv, Purse
    <3> QED BY <1>2, <1>6, <2>1, <3>1, <3>2, SectionNat
            DEF IInv, TypeOK, Purse, Overshoot
  <2>2. CASE holder # c
    <3>1. holder' = holder /\ (holder # NoOne => Left(holder)' = Left(holder))
      BY <1>6, <2>2 DEF Left, IInv, TypeOK
    <3>2. holder # NoOne => Left(holder) * MaxCost \in Nat
      BY Products DEF IInv, TypeOK, Calls, Left
    <3> QED BY <1>2, <2>2, <3>1, <3>2, SectionNat
            DEF IInv, TypeOK, Purse, Overshoot
  <2> QED BY <2>1, <2>2
<1>11. Refusals'
  BY <1>2, <1>6, RefusalsKeep DEF IInv, TypeOK, Speak
<1> QED BY <1>7, <1>8, <1>9, <1>10, <1>11 DEF IInv

(* Bytes stored, or lost on the way: the section ends after its purchase.  *)
LEMMA StoringKeeps ==
    ASSUME IInv, NEW c \in Callers, pc[c] = "storing",
           \/ Leave(c) /\ faults' \in 0..MaxFaults
           \/ HolderExpires(c),
           cache' \in SUBSET Lines, cache \subseteq cache',
           holder = c => \/ lapses' = lapses /\ call[c].line \in cache'
                         \/ Lapse(c),
           holder # c => lapses' = lapses,
           UNCHANGED <<over, bought, opened, spent, unlocked>>
    PROVE  IInv'
<1> USE CeilingAssumption
<1>1. call[c].line \in Lines BY DEF IInv, Places
<1>2. /\ holder' = IF holder = c THEN NoOne ELSE holder
      /\ pc' \in [Callers -> Steps] /\ call' \in [Callers -> Calls]
      /\ Places' /\ faults' \in 0..MaxFaults
      /\ holder' # NoOne => /\ holder' = holder /\ holder # c
                           /\ pc'[holder] = pc[holder]
                           /\ call'[holder] = call[holder]
      /\ \A d \in Callers : pc'[d] = "refused" => pc[d] = "refused"
  <2>1. CASE Leave(c) /\ faults' \in 0..MaxFaults
    BY <2>1, LeaveTyped DEF Leave, IInv, TypeOK
  <2>2. CASE HolderExpires(c)
    <3>1. Places' BY <2>2 DEF IInv, TypeOK, Places, HolderExpires
    <3> QED BY <2>2, <3>1, FaultCounted DEF HolderExpires, IInv, TypeOK
  <2> QED BY <2>1, <2>2
<1>3. lapses' \in [Lines -> Nat] /\ \A l \in Lines : lapses'[l] >= lapses[l]
  BY <1>1 DEF IInv, TypeOK, Lapse
<1>4. TypeOK' BY <1>2, <1>3 DEF IInv, TypeOK
<1>5. Shelf'
  <2> SUFFICES ASSUME NEW l \in Lines
               PROVE  /\ bought'[l] <= lapses'[l] + 1
                      /\ l \notin cache' /\ ~HolderAt("storing", l)' =>
                            bought'[l] <= lapses'[l]
                      /\ HolderAt("calling", l)' => bought'[l] <= lapses'[l]
    BY DEF Shelf
  <2>1. /\ bought[l] \in Nat /\ lapses[l] \in Nat /\ lapses'[l] \in Nat
        /\ bought' = bought /\ lapses'[l] >= lapses[l]
    BY <1>3 DEF IInv, TypeOK
  <2>2. HolderAt("calling", l)' => HolderAt("calling", l)
    BY <1>2 DEF HolderAt
  <2>3. CASE holder = c /\ l = call[c].line
    <3>1. l \in cache' \/ lapses'[l] = lapses[l] + 1
      BY <2>3 DEF Lapse, IInv, TypeOK
    <3>2. ~HolderAt("calling", l)' BY <1>2, <2>3 DEF HolderAt
    <3> QED BY <2>1, <3>1, <3>2 DEF IInv, Shelf
  <2>4. CASE ~(holder = c /\ l = call[c].line)
    <3>1. HolderAt("storing", l) => HolderAt("storing", l)'
      BY <1>2, <2>4 DEF HolderAt
    <3> QED BY <2>1, <2>2, <3>1 DEF IInv, Shelf
  <2> QED BY <2>3, <2>4
<1>6. Purse'
  BY <1>2 DEF IInv, Purse, Overshoot, Left
<1>7. Refusals' BY <1>2, RefusalsKeep DEF IInv, TypeOK
<1> QED BY <1>2, <1>4, <1>5, <1>6, <1>7 DEF IInv

LEMMA StoreKeeps ==
    ASSUME IInv, NEW c \in Callers, Store(c) \/ StoreFails(c)
    PROVE  IInv'
<1>1. CASE Store(c)
  <2>1. call[c].line \in Lines BY <1>1 DEF Store, IInv, Places
  <2> QED BY <1>1, <2>1, StoringKeeps DEF Store, IInv, TypeOK, money
<1>2. CASE StoreFails(c)
  BY <1>2, FaultCounted, StoringKeeps DEF StoreFails, IInv, TypeOK, money
<1> QED BY <1>1, <1>2

LEMMA ChargeFailsKeeps ==
    ASSUME IInv, NEW c \in Callers, ChargeFails(c)
    PROVE  IInv'
<1> USE CeilingAssumption
<1>1. faults' \in 0..MaxFaults BY FaultCounted DEF ChargeFails
<1>2. CASE call[c].kind = "line"
  <2>1. call[c].line \in Lines BY <1>2 DEF IInv, Places
  <2>2. /\ bought' = [bought EXCEPT ![call[c].line] = @ + 1]
        /\ lapses' = [lapses EXCEPT ![call[c].line] = @ + 1]
        /\ Leave(c) /\ pc[c] = "calling"
        /\ UNCHANGED <<over, cache, opened, spent, unlocked>>
    BY <1>2 DEF ChargeFails, Lapse, money
  <2>3. bought' \in [Lines -> Nat] /\ lapses' \in [Lines -> Nat]
    BY <2>1, <2>2 DEF IInv, TypeOK
  <2>4. \A l \in Lines : \/ bought'[l] = bought[l] /\ lapses'[l] = lapses[l]
                         \/ /\ bought'[l] = bought[l] + 1
                            /\ lapses'[l] = lapses[l] + 1
    BY <2>2 DEF IInv, TypeOK
  <2>5. \A l \in Lines : /\ HolderAt("calling", l)' => HolderAt("calling", l)
                         /\ HolderAt("storing", l) => HolderAt("storing", l)'
    BY <2>2, LeaveTyped DEF HolderAt, Leave, IInv, TypeOK
  <2>6. TypeOK' BY <1>1, <2>2, <2>3, LeaveTyped DEF IInv, TypeOK
  <2>7. Shelf' BY <2>2, <2>4, <2>5 DEF IInv, TypeOK, Shelf
  <2>8. Purse' BY <2>2, LeaveTyped DEF IInv, Purse, Overshoot, Left
  <2>9. Refusals'
    BY <2>2, RefusalsKeep DEF IInv, TypeOK, Leave
  <2> QED BY <2>2, <2>6, <2>7, <2>8, <2>9, LeaveTyped DEF IInv
<1>3. CASE call[c].kind # "line"
  <2>1. call[c].main \in Nat /\ call[c].side \in Nat
    BY DEF IInv, TypeOK, Calls
  <2>2. /\ UNCHANGED <<over, opened, cache, bought, lapses>>
        /\ pc[c] = "calling" /\ 0 \in Costs /\ Charge(c, 0)
    BY <1>3 DEF ChargeFails, Charge, Costs, money, IInv, TypeOK
  <2>3. ASSUME NEW m \in 0..call[c].main, NEW s \in 0..call[c].side,
               m + s < call[c].main + call[c].side,
               NEW r \in BOOLEAN, Proceed(c, m, s, r)
        PROVE  IInv'
    BY <1>1, <1>3, <2>2, <2>3, ProceedKeeps
  <2>4. CASE call[c].main > 0 /\ Proceed(c, 0, call[c].side, TRUE)
    <3>1. /\ 0 \in 0..call[c].main /\ call[c].side \in 0..call[c].side
          /\ 0 + call[c].side < call[c].main + call[c].side
      BY <2>1, <2>4
    <3> QED BY <2>3, <2>4, <3>1
  <2>5. CASE call[c].side > 0 /\ Proceed(c, call[c].main, 0, FALSE)
    <3>1. /\ call[c].main \in 0..call[c].main /\ 0 \in 0..call[c].side
          /\ call[c].main + 0 < call[c].main + call[c].side
      BY <2>1, <2>5
    <3> QED BY <2>3, <2>5, <3>1
  <2> QED BY <1>3, <2>4, <2>5 DEF ChargeFails
<1> QED BY <1>2, <1>3

LEMMA ExpireKeeps ==
    ASSUME IInv, NEW c \in Callers, HolderExpires(c)
    PROVE  IInv'
<1> USE CeilingAssumption
<1>1. CASE pc[c] = "storing"
  BY <1>1, StoringKeeps DEF HolderExpires, IInv, TypeOK, money
<1>2. CASE pc[c] # "storing"
  <2>1. /\ holder = c /\ holder' = NoOne /\ faults' \in 0..MaxFaults
        /\ UNCHANGED <<spent, unlocked, over, pc, call, cache, bought,
                       lapses, opened>>
    BY <1>2, FaultCounted DEF HolderExpires, money
  <2>2. TypeOK' BY <2>1 DEF IInv, TypeOK
  <2>3. Places' BY <2>1 DEF IInv, Places
  <2>4. Shelf' BY <1>2, <2>1 DEF IInv, Shelf, HolderAt
  <2>5. Purse' BY <2>1 DEF IInv, Purse, Overshoot
  <2>6. Refusals' BY <2>1 DEF IInv, Refusals, EndedWhenSpent
  <2> QED BY <2>2, <2>3, <2>4, <2>5, <2>6 DEF IInv
<1> QED BY <1>1, <1>2

LEMMA CrashKeeps ==
    ASSUME IInv, NEW c \in Callers, Crash(c)
    PROVE  IInv'
<1>1. faults' \in 0..MaxFaults BY FaultCounted DEF Crash
<1>2. CASE pc[c] = "storing"
  BY <1>1, <1>2, StoringKeeps DEF Crash, IInv, TypeOK, money
<1>3. CASE pc[c] # "storing"
  BY <1>1, <1>3, LeavingKeeps DEF Crash, IInv, TypeOK, money
<1> QED BY <1>2, <1>3
-----------------------------------------------------------------------------
LEMMA IInvInit ==
    ASSUME Init
    PROVE  IInv
<1> USE CeilingAssumption
<1>1. NoCall \in Calls BY DEF NoCall, Calls, Kinds
<1>2. TypeOK
  <2>1. pc \in [Callers -> Steps] /\ call \in [Callers -> Calls]
    BY <1>1 DEF Init, Steps
  <2>2. bought \in [Lines -> Nat] /\ lapses \in [Lines -> Nat] BY DEF Init
  <2>3. opened \in 0..MaxOpen /\ faults \in 0..MaxFaults BY DEF Init
  <2> QED BY <2>1, <2>2, <2>3 DEF Init, TypeOK
<1>3. Places BY DEF Init, Places, NoCall
<1>4. Shelf BY DEF Init, Shelf, HolderAt
<1>5. Purse BY SectionNat DEF Init, Purse, Overshoot
<1>6. Refusals BY DEF Init, Refusals, EndedWhenSpent
<1> QED BY <1>2, <1>3, <1>4, <1>5, <1>6 DEF IInv

LEMMA IInvStep ==
    ASSUME IInv, [Next]_vars
    PROVE  IInv'
<1>1. ASSUME NEW c \in Callers, NEW k \in Kinds, Ask(c, k)
      PROVE  IInv'
  BY <1>1, AskKeeps
<1>2. ASSUME NEW c \in Callers, Served(c) PROVE IInv'
  BY <1>2, EnterKeeps, RefuseKeeps DEF Served
<1>3. ASSUME NEW c \in Callers, Goes(c) PROVE IInv'
  <2>1. CASE SpeakFails(c)
    BY <2>1, LeavingKeeps DEF SpeakFails, IInv, TypeOK, money, shelf
  <2> QED BY <1>3, <2>1, RereadKeeps, AttemptKeeps, SpeakKeeps, StoreKeeps,
             RefuseKeeps DEF Goes
<1>4. ASSUME NEW c \in Callers, Fails(c) PROVE IInv'
  <2>1. CASE WaiterExpires(c)
    BY <2>1, FaultCounted, LeavingKeeps
       DEF WaiterExpires, IInv, TypeOK, money, shelf
  <2> QED BY <1>4, <2>1, StoreKeeps, ChargeFailsKeeps, ExpireKeeps, CrashKeeps
          DEF Fails
<1>5. CASE UNCHANGED vars
  <2>1. TypeOK' /\ Places' BY <1>5 DEF IInv, TypeOK, Places, vars
  <2>2. Shelf' BY <1>5 DEF IInv, Shelf, HolderAt, vars
  <2>3. Purse' BY <1>5 DEF IInv, Purse, Overshoot, Left, vars
  <2>4. Refusals' BY <1>5 DEF IInv, Refusals, EndedWhenSpent, vars
  <2> QED BY <2>1, <2>2, <2>3, <2>4 DEF IInv
<1> QED BY <1>1, <1>2, <1>3, <1>4, <1>5 DEF Next

LEMMA Invariance == Spec => []IInv
BY IInvInit, IInvStep, PTL DEF Spec

(* Every variable keeps its type, whatever fails.                          *)
THEOREM SpendingTypeCorrect == Spec => []TypeOK
BY Invariance, PTL DEF IInv

(* The ceiling is overshot by one section and by what is charged without   *)
(* the lock, for every budget, price and chain (budget.ts withBudget).     *)
THEOREM OvershootBounded == Spec => []Overshoot
BY Invariance, PTL DEF IInv, Purse

(* However many requests and prewarms race for a line, it is paid for once *)
(* unless bytes were lost on their way to the cache (tts.ts synthesise).   *)
THEOREM LinesPaidOnce == Spec => []PaidOnce
<1>1. IInv => PaidOnce
  BY DEF IInv, TypeOK, Shelf, PaidOnce
<1> QED BY <1>1, Invariance, PTL

(* An interview ended for its budget has spent it (withBudgetOrEnd).       *)
THEOREM EndedOnlyWhenSpent == Spec => []EndedWhenSpent
BY Invariance, PTL DEF IInv, Refusals
=============================================================================
