-------------------------- MODULE ActiveTimeProofs --------------------------
(***************************************************************************)
(* Theorems about active time, for every number of tabs and starting       *)
(* requests, every length of the grace and every resolution of the clock.  *)
(***************************************************************************)
EXTENDS ActiveTime, TLAPS

(* Nothing was read or anchored in the future.                             *)
Past ==
    /\ seen = Never <=> base = Never
    /\ seen = Never => elapsed = 0 /\ away = 0 /\ again = 0
    /\ seen <= now /\ base <= now
    /\ \A r \in Requests :
          /\ copy[r].seen <= now /\ at[r] <= now
          /\ pc[r] = "writing" => copy[r].seen <= at[r]

(* Without a start that reaches back, anchors only move forward.           *)
Forward ==
    again = 0 =>
       \A r \in Requests : pc[r] # "idle" => copy[r].seen <= seen

(* Of the beats that read the interview before it ended, one at most has   *)
(* added to the bank: it moved the anchor past what the others read.       *)
LastBeats ==
    ~live /\ again = 0 =>
       \/ elapsed * Sec = banked
       \/ /\ elapsed * Sec <= banked + Grace
          /\ \A t \in Tabs :
                pc[t] # "idle" /\ copy[t].live => copy[t].seen < seen

(* A beat that is writing read a live interview.                           *)
OnlyLive == \A t \in Tabs : pc[t] = "writing" => copy[t].live

IInv ==
    /\ TypeOK /\ Past /\ Forward /\ OnlyLive /\ LastBeats
    /\ EveryTickOnce /\ WinnerTellsTotal
-----------------------------------------------------------------------------
LEMMA Products ==
    ASSUME NEW m \in Nat, NEW n \in Nat
    PROVE  m * n \in Nat
OBVIOUS

LEMMA ProductSum ==
    ASSUME NEW m \in Nat, NEW k \in Nat, NEW n \in Nat
    PROVE  (m + k) * n = m * n + k * n
OBVIOUS

LEMMA ProductMonotone ==
    ASSUME NEW m \in Nat, NEW k \in Nat, NEW n \in Nat, k >= m
    PROVE  m * n <= k * n
OBVIOUS

LEMMA ProductPositive ==
    ASSUME NEW m \in Nat \ {0}, NEW n \in Nat \ {0}
    PROVE  m * n > 0
OBVIOUS

LEMMA StretchRange ==
    ASSUME NEW anchor \in Times, NEW time \in Nat
    PROVE  /\ OpenStretch(anchor, time) \in 0..Grace
           /\ anchor # Never => OpenStretch(anchor, time) <= time - anchor
                                  \/ time < anchor
BY ClockAssumption DEF OpenStretch, Times, Never

(* What a winning beat writes: the seconds it banks are those the anchor   *)
(* moves by, or the gap is passed over.                                    *)
LEMMA BankWrites ==
    ASSUME IInv, NEW t \in Tabs, pc[t] = "writing", Mine(t),
           NEW whole \in 0..Grace, Floored(t, whole)
    PROVE  /\ Anchor(t, whole) \in 0..at[t]
           /\ seen = Never => Anchor(t, whole) = at[t] /\ whole = 0
           /\ seen # Never /\ at[t] - seen > Grace =>
                Anchor(t, whole) = at[t] /\ whole = 0
           /\ seen # Never /\ at[t] - seen <= Grace =>
                Anchor(t, whole) = seen + whole * Sec
           /\ whole * Sec \in Nat /\ whole * Sec <= Grace
           /\ whole # 0 => whole * Sec > 0
<1> USE ClockAssumption
<1> DEFINE stretch == OpenStretch(copy[t].seen, at[t])
<1>1. /\ seen \in Times /\ at[t] \in Nat /\ copy[t].seen = seen
      /\ seen <= at[t]
  BY DEF IInv, TypeOK, Past, Mine, Requests, Rows
<1>2. stretch \in 0..Grace BY <1>1, StretchRange
<1>3. whole * Sec \in Nat BY Products
<1>4. whole * Sec <= stretch BY DEF Floored
<1>5. whole # 0 => whole * Sec > 0 BY ProductPositive
<1>6. stretch <= at[t]
  BY <1>1 DEF OpenStretch, Times, Never
<1>7. seen = Never \/ at[t] - seen > Grace => stretch = 0
  BY <1>1 DEF OpenStretch
<1>8. stretch = 0 => whole = 0 BY <1>2, <1>3, <1>4, <1>5
<1>9. seen # Never /\ at[t] - seen <= Grace => stretch = at[t] - seen
  BY <1>1 DEF OpenStretch, Times, Never
<1>10. Anchor(t, whole) = at[t] - (stretch - whole * Sec)
  BY DEF Anchor
<1> HIDE DEF stretch
<1>11. seen \in Times /\ seen \in Int BY <1>1 DEF Times, Never
<1>12. Anchor(t, whole) \in 0..at[t]
  BY <1>1, <1>2, <1>3, <1>4, <1>6, <1>10
<1>13. whole = 0 => whole * Sec = 0 OBVIOUS
<1> QED BY <1>1, <1>2, <1>3, <1>4, <1>5, <1>7, <1>8, <1>9, <1>10, <1>11,
           <1>12, <1>13

(* A step that leaves the row and the history alone keeps what is said of  *)
(* them.                                                                   *)
LEMMA ReadsOnly ==
    ASSUME IInv, TypeOK', Past', UNCHANGED <<row, history>>,
           live' = live,
           \A r \in Requests :
              \/ pc'[r] = "idle"
              \/ pc[r] # "idle" /\ copy'[r] = copy[r]
              \/ /\ copy'[r].seen = seen /\ copy'[r].elapsed = elapsed
                 /\ copy'[r].live = live,
           \A t \in Tabs : pc'[t] = "writing" => copy'[t].live
    PROVE  IInv'
<1> USE ClockAssumption
<1>t. Tabs \subseteq Requests BY DEF Requests
<1>1. Forward'
  BY DEF IInv, TypeOK, Forward, row, history, Times, Never
<1>2. LastBeats'
  BY <1>t DEF IInv, LastBeats, row, history
<1>3. EveryTickOnce' BY DEF IInv, EveryTickOnce, row, history
<1>4. WinnerTellsTotal'
  BY <1>t DEF IInv, WinnerTellsTotal, row, history
<1>5. OnlyLive' BY DEF OnlyLive
<1> QED BY <1>1, <1>2, <1>3, <1>4, <1>5 DEF IInv

LEMMA NoRowTyped == NoRow \in Rows /\ NoRow.seen = Never
BY DEF NoRow, Rows, Times, Never

(* A request that is done forgets what it read.                            *)
LEMMA FinishTyped ==
    ASSUME IInv, NEW r \in Requests, Finish(r)
    PROVE  /\ pc' \in [Requests -> {"idle", "loaded", "writing"}]
           /\ copy' \in [Requests -> Rows] /\ at' \in [Requests -> Nat]
           /\ pc'[r] = "idle" /\ copy'[r].seen = Never /\ at'[r] = 0
           /\ \A q \in Requests \ {r} :
                 pc'[q] = pc[q] /\ copy'[q] = copy[q] /\ at'[q] = at[q]
BY NoRowTyped DEF IInv, TypeOK, Finish

LEMMA TickKeeps ==
    ASSUME IInv, Tick
    PROVE  IInv'
<1>1. TypeOK' BY DEF IInv, TypeOK, Tick, row, history
<1>2. Past'
  BY DEF IInv, TypeOK, Past, Tick, row, history, Times, Never, Rows
<1> QED BY <1>1, <1>2, ReadsOnly DEF Tick, IInv, OnlyLive

LEMMA LoadKeeps ==
    ASSUME IInv, NEW r \in Requests, Load(r)
    PROVE  IInv'
<1>1. [started |-> started, elapsed |-> elapsed, seen |-> seen, live |-> live]
        \in Rows
  BY DEF IInv, TypeOK, Rows
<1>2. TypeOK' BY <1>1 DEF IInv, TypeOK, Load, row, history
<1>3. /\ copy'[r].seen = seen /\ copy'[r].elapsed = elapsed
      /\ copy'[r].live = live /\ pc'[r] = "loaded"
      /\ \A q \in Requests \ {r} : pc'[q] = pc[q] /\ copy'[q] = copy[q]
  BY DEF IInv, TypeOK, Load
<1>4. Past'
  BY <1>3 DEF IInv, TypeOK, Past, Load, row, history
<1>5. \A t \in Tabs : pc'[t] = "writing" => copy'[t].live
  BY <1>3 DEF IInv, OnlyLive, Requests
<1> QED BY <1>2, <1>3, <1>4, <1>5, ReadsOnly DEF Load

LEMMA ReadClockKeeps ==
    ASSUME IInv, NEW r \in Requests, ReadClock(r)
    PROVE  IInv'
<1>0. now \in Nat BY DEF IInv, TypeOK
<1>1. CASE r \in Tabs /\ ~copy[r].live
  <2>1. Finish(r) /\ UNCHANGED <<now, row, live, history>>
    BY <1>1 DEF ReadClock
  <2>2. TypeOK' BY <2>1, FinishTyped DEF IInv, TypeOK, row, history
  <2>3. Past'
    BY <1>0, <2>1, FinishTyped DEF IInv, Past, row, history, Never
  <2>4. \A t \in Tabs : pc'[t] = "writing" => copy'[t].live
    BY <2>1, FinishTyped DEF IInv, OnlyLive, Requests
  <2> QED BY <2>1, <2>2, <2>3, <2>4, FinishTyped, ReadsOnly
<1>2. CASE ~(r \in Tabs /\ ~copy[r].live)
  <2>1. /\ pc[r] = "loaded" /\ pc' = [pc EXCEPT ![r] = "writing"]
        /\ at' = [at EXCEPT ![r] = now] /\ copy' = copy
        /\ UNCHANGED <<now, row, live, history>>
    BY <1>2 DEF ReadClock
  <2>2. TypeOK' BY <2>1 DEF IInv, TypeOK, row, history
  <2>3. Past' BY <1>0, <2>1 DEF IInv, TypeOK, Past, row, history
  <2>4. \A t \in Tabs : pc'[t] = "writing" => copy'[t].live
    BY <1>2, <2>1 DEF IInv, TypeOK, OnlyLive, Requests
  <2>5. \A q \in Requests : pc'[q] = "idle" \/ pc[q] # "idle"
    BY <2>1 DEF IInv, TypeOK
  <2> QED BY <2>1, <2>2, <2>3, <2>4, <2>5, ReadsOnly
<1> QED BY <1>1, <1>2

LEMMA BankLostKeeps ==
    ASSUME IInv, NEW t \in Requests, BankLost(t)
    PROVE  IInv'
<1>0. now \in Nat BY DEF IInv, TypeOK
<1>1. Finish(t) /\ UNCHANGED <<now, row, live, history>> BY DEF BankLost
<1>2. TypeOK' BY <1>1, FinishTyped DEF IInv, TypeOK, row, history
<1>3. Past' BY <1>0, <1>1, FinishTyped DEF IInv, Past, row, history, Never
<1>4. \A u \in Tabs : pc'[u] = "writing" => copy'[u].live
  BY <1>1, FinishTyped DEF IInv, OnlyLive, Requests
<1> QED BY <1>1, <1>2, <1>3, <1>4, FinishTyped, ReadsOnly

LEMMA EndKeeps ==
    ASSUME IInv, End
    PROVE  IInv'
<1> USE ClockAssumption
<1>1. elapsed * Sec \in Nat BY Products DEF IInv, TypeOK
<1>2. TypeOK' BY <1>1 DEF IInv, TypeOK, End, row
<1>3. Past' BY DEF IInv, Past, End, row
<1>4. Forward' /\ OnlyLive' BY DEF IInv, Forward, OnlyLive, End, row
<1>5. LastBeats' BY DEF LastBeats, End, row
<1>6. EveryTickOnce' /\ WinnerTellsTotal'
  BY DEF IInv, EveryTickOnce, WinnerTellsTotal, End, row
<1> QED BY <1>2, <1>3, <1>4, <1>5, <1>6 DEF IInv

LEMMA BankKeeps ==
    ASSUME IInv, NEW t \in Requests, Bank(t)
    PROVE  IInv'
<1> USE ClockAssumption
<1>1. /\ t \in Tabs /\ pc[t] = "writing" /\ Mine(t) /\ Finish(t)
      /\ UNCHANGED <<now, started, live, again, banked>>
  BY DEF Bank
<1>2. PICK whole \in 0..Grace :
         /\ Floored(t, whole) /\ elapsed' = elapsed + whole
         /\ seen' = Anchor(t, whole)
  BY DEF Bank
<1> DEFINE a == seen'
           w == whole * Sec
<1>3. /\ a \in 0..at[t]
      /\ seen = Never => a = at[t] /\ whole = 0
      /\ seen # Never /\ at[t] - seen > Grace => a = at[t] /\ whole = 0
      /\ seen # Never /\ at[t] - seen <= Grace => a = seen + w
      /\ w \in Nat /\ w <= Grace /\ (whole # 0 => w > 0)
  BY <1>1, <1>2, BankWrites
<1>4. /\ base' = IF base = Never THEN at[t] ELSE base
      /\ away' = IF seen # Never /\ at[t] - seen > Grace
                 THEN away + (at[t] - seen) ELSE away
  BY <1>1 DEF Bank, Mine
<1>5. /\ now \in Nat /\ at[t] \in Nat /\ at[t] <= now /\ seen \in Times
      /\ base \in Times /\ away \in Nat /\ again \in Nat /\ elapsed \in Nat
      /\ seen <= at[t] /\ (seen = Never <=> base = Never) /\ base <= now
      /\ copy[t].seen = seen /\ banked \in Nat
  BY <1>1 DEF IInv, TypeOK, Past, Mine, Requests
<1>6. elapsed' * Sec = elapsed * Sec + w /\ elapsed * Sec \in Nat
  BY <1>2, <1>5, ProductSum, Products
<1>w. whole \in Nat /\ (whole = 0 => w = 0) OBVIOUS
<1> HIDE DEF a, w
<1>7. seen' \in Nat /\ seen' <= now /\ seen <= seen'
  BY <1>3, <1>5, <1>w DEF a, Times, Never
<1>8. whole # 0 => seen < seen'
  BY <1>3, <1>5, <1>w DEF a, Times, Never
<1>9. TypeOK'
  <2>1. base' \in Times /\ away' \in Nat
    BY <1>4, <1>5 DEF Times, Never
  <2>2. elapsed' \in Nat /\ seen' \in Times
    BY <1>2, <1>5, <1>7 DEF Times
  <2> QED BY <1>1, <2>1, <2>2, FinishTyped DEF IInv, TypeOK
<1>10. Past'
  <2>1. (seen' = Never <=> base' = Never) /\ base' <= now /\ seen' # Never
    BY <1>4, <1>5, <1>7 DEF Never
  <2> QED BY <1>1, <1>5, <1>7, <2>1, FinishTyped DEF IInv, Past, Never
<1>11. \A q \in Requests : pc'[q] # "idle" =>
          q # t /\ pc'[q] = pc[q] /\ copy'[q] = copy[q]
  BY <1>1, FinishTyped
<1>12. Forward'
  <2> SUFFICES ASSUME again' = 0, NEW q \in Requests, pc'[q] # "idle"
               PROVE  copy'[q].seen <= seen'
    BY DEF Forward
  <2>1. copy[q].seen <= seen BY <1>1, <1>11 DEF IInv, Forward
  <2>2. copy[q].seen \in Int /\ seen \in Int
    BY <1>5 DEF IInv, TypeOK, Rows, Times, Never
  <2> QED BY <1>7, <1>11, <2>1, <2>2
<1>13. OnlyLive' BY <1>11 DEF IInv, OnlyLive, Requests
<1>14. LastBeats'
  <2> SUFFICES ASSUME ~live, again = 0
               PROVE  \/ elapsed' * Sec = banked
                      \/ /\ elapsed' * Sec <= banked + Grace
                         /\ \A u \in Tabs : pc'[u] # "idle" /\ copy'[u].live
                               => copy'[u].seen < seen'
    BY <1>1 DEF LastBeats
  <2>1. elapsed * Sec = banked
    <3>1. copy[t].live /\ ~(copy[t].seen < seen)
      BY <1>1, <1>5 DEF IInv, OnlyLive, Times, Never
    <3> QED BY <1>1, <3>1 DEF IInv, LastBeats
  <2>2. CASE whole = 0
    BY <1>6, <1>w, <2>1, <2>2
  <2>3. CASE whole # 0
    <3>1. elapsed' * Sec <= banked + Grace BY <1>3, <1>5, <1>6, <2>1
    <3>2. ASSUME NEW u \in Tabs, pc'[u] # "idle"
          PROVE  copy'[u].seen < seen'
      <4>1. u \in Requests BY DEF Requests
      <4>2. copy[u].seen <= seen
        BY <1>11, <3>2, <4>1 DEF IInv, Forward
      <4>3. copy[u].seen \in Int /\ seen \in Int
        BY <1>5, <4>1 DEF IInv, TypeOK, Rows, Times, Never
      <4> QED BY <1>7, <1>8, <1>11, <2>3, <3>2, <4>1, <4>2, <4>3
    <3> QED BY <3>1, <3>2
  <2> QED BY <2>2, <2>3
<1>15. EveryTickOnce'
  <2>1. CASE seen = Never
    <3>1. elapsed = 0 /\ away = 0 /\ again = 0 /\ base = Never
      BY <2>1 DEF IInv, Past
    <3>2. elapsed' * Sec = 0 BY <1>3, <1>6, <1>w, <2>1, <3>1
    <3>3. seen' = base' /\ away' = 0 /\ again' = 0
      BY <1>1, <1>3, <1>4, <2>1, <3>1 DEF a
    <3> QED BY <1>7, <3>2, <3>3 DEF EveryTickOnce
  <2>2. CASE seen # Never
    <3>1. elapsed * Sec + away = (seen - base) + again /\ base # Never
      BY <1>5, <2>2 DEF IInv, EveryTickOnce
    <3>2. base' = base /\ again' = again BY <1>1, <1>4, <3>1
    <3>3. seen \in Nat /\ base \in Nat
      BY <1>5, <2>2, <3>1 DEF Times
    <3>4. CASE at[t] - seen > Grace
      <4>1. elapsed' * Sec = elapsed * Sec
        BY <1>3, <1>6, <1>w, <2>2, <3>4
      <4>2. seen' = at[t] /\ away' = away + (at[t] - seen)
        BY <1>3, <1>4, <2>2, <3>4 DEF a
      <4>3. elapsed' * Sec + away' = (seen' - base') + again'
        BY <1>5, <1>6, <3>1, <3>2, <3>3, <4>1, <4>2
      <4> QED BY <4>3 DEF EveryTickOnce
    <3>5. CASE at[t] - seen <= Grace
      <4>1. seen' = seen + w /\ away' = away
        BY <1>3, <1>4, <1>5, <2>2, <3>3, <3>5 DEF a
      <4>2. elapsed' * Sec + away' = (seen' - base') + again'
        BY <1>3, <1>5, <1>6, <3>1, <3>2, <3>3, <4>1
      <4> QED BY <4>2 DEF EveryTickOnce
    <3> QED BY <1>5, <3>3, <3>4, <3>5
  <2> QED BY <2>1, <2>2
<1>16. WinnerTellsTotal'
  <2> SUFFICES ASSUME NEW u \in Tabs, pc'[u] # "idle", again = 0,
                      copy'[u].seen = seen'
               PROVE  copy'[u].elapsed = elapsed'
    BY <1>1 DEF WinnerTellsTotal
  <2>1. u \in Requests BY DEF Requests
  <2>2. copy[u].seen <= seen
    BY <1>11, <2>1 DEF IInv, Forward
  <2>3. copy[u].seen \in Int /\ seen \in Int
    BY <1>5, <2>1 DEF IInv, TypeOK, Rows, Times, Never
  <2>4. seen' = seen BY <1>7, <1>11, <2>1, <2>2, <2>3
  <2>5. whole = 0 BY <1>8, <2>3, <2>4
  <2>6. elapsed' = elapsed BY <1>2, <1>5, <2>5
  <2> QED BY <1>11, <2>1, <2>4, <2>6 DEF IInv, WinnerTellsTotal
<1> QED BY <1>9, <1>10, <1>12, <1>13, <1>14, <1>15, <1>16 DEF IInv

LEMMA StartKeeps ==
    ASSUME IInv, NEW s \in Requests, Start(s)
    PROVE  IInv'
<1> USE ClockAssumption
<1>1. /\ Finish(s) /\ UNCHANGED <<now, elapsed, live>>
      /\ s \notin Tabs /\ pc[s] = "writing"
  BY DEF Start
<1>2. /\ now \in Nat /\ at[s] \in Nat /\ at[s] <= now /\ seen \in Times
      /\ base \in Times /\ away \in Nat /\ again \in Nat /\ elapsed \in Nat
      /\ (seen = Never <=> base = Never) /\ base <= now /\ seen <= now
      /\ (seen = Never => elapsed = 0 /\ away = 0 /\ again = 0)
      /\ elapsed * Sec \in Nat /\ banked \in Nat /\ started \in Times
      /\ copy[s] \in Rows
  BY Products DEF IInv, TypeOK, Past
<1>3. \A q \in Requests : pc'[q] # "idle" =>
          q # s /\ pc'[q] = pc[q] /\ copy'[q] = copy[q]
  BY <1>1, FinishTyped
<1>4. CASE copy[s].started # Never
  <2>1. started' = copy[s].started /\ UNCHANGED <<seen, history>>
    BY <1>4 DEF Start
  <2>2. started' \in Times BY <1>2, <2>1 DEF Rows
  <2>3. TypeOK' BY <1>1, <2>1, <2>2, FinishTyped DEF IInv, TypeOK, history
  <2>4. Past' BY <1>1, <1>2, <2>1, FinishTyped DEF IInv, Past, history, Never
  <2>5. Forward' BY <1>3, <2>1 DEF IInv, Forward, history
  <2>6. OnlyLive' /\ LastBeats'
    BY <1>1, <1>3, <2>1 DEF IInv, OnlyLive, LastBeats, history, Requests
  <2>7. EveryTickOnce' BY <1>1, <2>1 DEF IInv, EveryTickOnce, history
  <2>8. WinnerTellsTotal'
    BY <1>1, <1>3, <2>1 DEF IInv, WinnerTellsTotal, history, Requests
  <2> QED BY <2>3, <2>4, <2>5, <2>6, <2>7, <2>8 DEF IInv
<1>5. CASE copy[s].started = Never
  <2>1. /\ started' = at[s] /\ seen' = at[s] /\ banked' = banked
        /\ base' = IF base = Never THEN at[s] ELSE base
        /\ away' = IF seen # Never /\ at[s] > seen
                   THEN away + (at[s] - seen) ELSE away
        /\ again' = IF at[s] < seen THEN again + (seen - at[s]) ELSE again
    BY <1>5 DEF Start
  <2>2. /\ started' \in Times /\ seen' \in Times /\ base' \in Times
        /\ away' \in Nat /\ again' \in Nat
    BY <1>2, <2>1 DEF Times, Never
  <2>3. TypeOK' BY <1>1, <1>2, <2>1, <2>2, FinishTyped DEF IInv, TypeOK
  <2>4. Past'
    BY <1>1, <1>2, <2>1, FinishTyped DEF IInv, Past, Never
  <2>5. again' = 0 => again = 0 /\ seen <= seen' /\ seen \in Int
    BY <1>2, <2>1 DEF Times, Never
  <2>6. ASSUME again' = 0, NEW q \in Requests, pc'[q] # "idle"
        PROVE  copy[q].seen <= seen /\ copy[q].seen \in Int
    BY <1>3, <2>5, <2>6 DEF IInv, Forward, TypeOK, Rows, Times, Never
  <2>7. Forward'
    <3> SUFFICES ASSUME again' = 0, NEW q \in Requests, pc'[q] # "idle"
                 PROVE  copy'[q].seen <= seen'
      BY DEF Forward
    <3> QED BY <1>2, <1>3, <2>1, <2>5, <2>6
  <2>8. OnlyLive' BY <1>3 DEF IInv, OnlyLive, Requests
  <2>9. LastBeats'
    <3> SUFFICES ASSUME ~live, again' = 0
                 PROVE  \/ elapsed * Sec = banked
                        \/ /\ elapsed * Sec <= banked + Grace
                           /\ \A t \in Tabs : pc'[t] # "idle" /\ copy'[t].live
                                 => copy'[t].seen < seen'
      BY <1>1, <2>1 DEF LastBeats
    <3>1. CASE elapsed * Sec = banked BY <3>1
    <3>2. CASE elapsed * Sec # banked
      <4>1. /\ elapsed * Sec <= banked + Grace
            /\ \A t \in Tabs : pc[t] # "idle" /\ copy[t].live
                                => copy[t].seen < seen
        BY <2>5, <3>2 DEF IInv, LastBeats
      <4>2. ASSUME NEW t \in Tabs, pc'[t] # "idle", copy'[t].live
            PROVE  copy'[t].seen < seen'
        <5>1. t \in Requests BY DEF Requests
        <5>2. copy[t].seen < seen BY <1>3, <4>1, <4>2, <5>1
        <5> QED BY <1>2, <1>3, <2>1, <2>5, <2>6, <4>2, <5>1, <5>2
      <4> QED BY <4>1, <4>2
    <3> QED BY <3>1, <3>2
  <2>10. EveryTickOnce'
    <3>1. CASE seen = Never
      <4>1. elapsed * Sec = 0 BY <1>2, <3>1
      <4>2. away' = 0 /\ again' = 0 /\ base' = at[s]
        BY <1>2, <2>1, <3>1 DEF Never
      <4> QED BY <1>1, <1>2, <2>1, <4>1, <4>2 DEF EveryTickOnce
    <3>2. CASE seen # Never
      <4>1. elapsed * Sec + away = (seen - base) + again /\ base' = base
        BY <1>2, <2>1, <3>2 DEF IInv, EveryTickOnce
      <4>2. seen \in Nat /\ base \in Nat BY <1>2, <3>2 DEF Times
      <4>3. elapsed' * Sec = elapsed * Sec BY <1>1
      <4>4. elapsed * Sec + away' = (seen' - base') + again'
        <5>1. CASE at[s] > seen
          <6>1. away' = away + (at[s] - seen) /\ again' = again
            BY <1>2, <2>1, <3>2, <4>2, <5>1
          <6> QED BY <1>2, <2>1, <4>1, <4>2, <6>1
        <5>2. CASE at[s] <= seen
          <6>1. away' = away /\ again' = again + (seen - at[s])
            BY <1>2, <2>1, <3>2, <4>2, <5>2
          <6> QED BY <1>2, <2>1, <4>1, <4>2, <6>1
        <5> QED BY <1>2, <4>2, <5>1, <5>2
      <4> QED BY <4>3, <4>4 DEF EveryTickOnce
    <3> QED BY <3>1, <3>2
  <2>11. WinnerTellsTotal'
    <3> SUFFICES ASSUME NEW t \in Tabs, pc'[t] # "idle", again' = 0,
                        copy'[t].seen = seen'
                 PROVE  copy'[t].elapsed = elapsed
      BY <1>1 DEF WinnerTellsTotal
    <3>1. t \in Requests BY DEF Requests
    <3>2. copy[t].seen = seen /\ pc[t] # "idle" /\ copy'[t] = copy[t]
      BY <1>2, <1>3, <2>1, <2>5, <2>6, <3>1
    <3> QED BY <2>5, <3>2 DEF IInv, WinnerTellsTotal
  <2> QED BY <2>3, <2>4, <2>7, <2>8, <2>9, <2>10, <2>11 DEF IInv
<1> QED BY <1>4, <1>5
-----------------------------------------------------------------------------
LEMMA IInvInit ==
    ASSUME Init
    PROVE  IInv
<1>1. TypeOK BY NoRowTyped DEF Init, TypeOK, Times, Never
<1>2. Past BY NoRowTyped DEF Init, Past, Never
<1>3. Forward /\ OnlyLive /\ WinnerTellsTotal
  BY DEF Init, Forward, OnlyLive, WinnerTellsTotal, Requests
<1>4. LastBeats /\ EveryTickOnce BY DEF Init, LastBeats, EveryTickOnce
<1> QED BY <1>1, <1>2, <1>3, <1>4 DEF IInv

LEMMA IInvStep ==
    ASSUME IInv, [Next]_vars
    PROVE  IInv'
<1>1. CASE UNCHANGED vars
  BY <1>1 DEF vars, row, history, IInv, TypeOK, Past, Forward, OnlyLive,
              LastBeats, EveryTickOnce, WinnerTellsTotal
<1>2. CASE Tick BY <1>2, TickKeeps
<1>3. CASE End BY <1>3, EndKeeps
<1>4. ASSUME NEW r \in Requests,
             Load(r) \/ ReadClock(r) \/ Start(r) \/ Bank(r) \/ BankLost(r)
      PROVE  IInv'
  BY <1>4, LoadKeeps, ReadClockKeeps, StartKeeps, BankKeeps, BankLostKeeps
<1> QED BY <1>1, <1>2, <1>3, <1>4 DEF Next

LEMMA Invariance == Spec => []IInv
BY IInvInit, IInvStep, PTL DEF Spec

(* Every column and every copy of it keeps its type.                       *)
THEOREM ClockTypeCorrect == Spec => []TypeOK
BY Invariance, PTL DEF IInv

(* Any number of tabs beating in any order bank every tick once, or pass   *)
(* it over (elapsed.ts bankActiveTime).                                    *)
THEOREM EveryTickCountedOnce == Spec => []EveryTickOnce
BY Invariance, PTL DEF IInv

(* Active time never runs faster than the clock, but for a start that      *)
(* reached back (elapsed.ts activeMs).                                     *)
THEOREM ActiveWithinTheClock == Spec => []SecondPerSecond
<1>1. IInv => SecondPerSecond
  <2> SUFFICES ASSUME IInv, base # Never PROVE Active <= (now - base) + again
    BY DEF SecondPerSecond
  <2> USE ClockAssumption
  <2>1. /\ now \in Nat /\ seen \in Nat /\ base \in Nat /\ base <= now
        /\ seen <= now /\ away \in Nat /\ again \in Nat
        /\ elapsed * Sec \in Nat
        /\ elapsed * Sec + away = (seen - base) + again
    BY Products DEF IInv, TypeOK, Past, EveryTickOnce, Times
  <2>2. OpenStretch(seen, now) <= now - seen /\ OpenStretch(seen, now) \in Nat
    BY <2>1 DEF OpenStretch, Never
  <2> QED BY <2>1, <2>2 DEF Active
<1> QED BY <1>1, Invariance, PTL

(* What a beat tells the room is the row's total, in every tab.            *)
THEOREM WinnersTellTheTotal == Spec => []WinnerTellsTotal
BY Invariance, PTL DEF IInv

(* The beats that raced the ending add one grace at most to the figure the *)
(* report used (heartbeat.ts LIVE_STATES).                                 *)
THEOREM EndedBankStays == Spec => []EndedBankBounded
<1>1. IInv => EndedBankBounded
  BY ClockAssumption, Products DEF IInv, TypeOK, LastBeats, EndedBankBounded
<1> QED BY <1>1, Invariance, PTL

(* The deadline of speech moves by one grace at a time, at most            *)
(* (ceiling.ts speechExpiresAt).                                           *)
THEOREM DeadlineSlides == Spec => SlidesByGrace
<1>1. ASSUME IInv, [Next]_vars
      PROVE  Active' >= Active - Grace \/ UNCHANGED vars
  <2> USE ClockAssumption
  <2>1. CASE UNCHANGED vars BY <2>1
  <2>2. CASE Next
    <3>0. IInv' BY <1>1, IInvStep
    <3>1. /\ elapsed' >= elapsed /\ (started # Never => started' # Never)
      <4>1. CASE Tick \/ End BY <1>1, <4>1 DEF Tick, End, row, IInv, TypeOK
      <4>2. ASSUME NEW r \in Requests, Load(r) \/ ReadClock(r) \/ BankLost(r)
            PROVE  <3>1!1
        BY <1>1, <4>2 DEF Load, ReadClock, BankLost, row, IInv, TypeOK
      <4>3. ASSUME NEW r \in Requests, Bank(r) PROVE <3>1!1
        BY <1>1, <4>3 DEF Bank, IInv, TypeOK
      <4>4. ASSUME NEW r \in Requests, Start(r) PROVE <3>1!1
        BY <1>1, <4>4 DEF Start, IInv, TypeOK, Never
      <4> QED BY <2>2, <4>1, <4>2, <4>3, <4>4 DEF Next
    <3>2. /\ elapsed \in Nat /\ elapsed' \in Nat
          /\ elapsed * Sec \in Nat /\ elapsed' * Sec \in Nat
      BY <1>1, <3>0, Products DEF IInv, TypeOK
    <3>3. elapsed * Sec <= elapsed' * Sec BY <3>1, <3>2, ProductMonotone
    <3>4. /\ OpenStretch(seen, now) \in 0..Grace
          /\ OpenStretch(seen', now') \in 0..Grace
      BY <1>1, <3>0, StretchRange DEF IInv, TypeOK
    <3> QED BY <3>1, <3>2, <3>3, <3>4 DEF Active
  <2> QED BY <1>1, <2>1, <2>2
<1> QED BY <1>1, Invariance, PTL DEF Spec, SlidesByGrace
=============================================================================
