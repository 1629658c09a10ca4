------------------------ MODULE SpokenQuestionProofs ------------------------
(***************************************************************************)
(* That no turn joins what was said to two questions, for every number of  *)
(* uploads, words, questions, probes and upsets.                           *)
(***************************************************************************)
EXTENDS SpokenTurnProofs

(* Words are addressed to one question once their upload has loaded it,    *)
(* and to none before; what rides in a flushed recording is left out.      *)
AllTo(words, q) == \A w \in words \ riding : against[w] = q

Placed(u) ==
    /\ up[u].step = "sent" => AllTo(up[u].words, 0)
    /\ up[u].step \in {"sent", "loaded"} => up[u].prior.words = {}
    /\ up[u].step \in {"loaded", "taken"} =>
          AllTo(up[u].words, up[u].asked) /\ AllTo(up[u].prior.words, up[u].asked)
    /\ up[u].step = "taken" /\ up[u].prior.words # {} =>
          up[u].prior.question = up[u].asked

Addressed ==
    /\ \A w \in Words : w > spoken => against[w] = 0
    /\ AllTo(Recorded, 0)
    /\ AllTo(held.words, held.question)
    /\ \A u \in Uploads : Placed(u)

AddressInv == OnceInv /\ Addressed /\ OneQuestion
-----------------------------------------------------------------------------
(* A request that is as it was, is over, or lost words.                    *)
Lesser(u) ==
    \/ up'[u] = up[u]
    \/ up'[u].step \notin Live
    \/ /\ up'[u].step = up[u].step /\ up'[u].asked = up[u].asked
       /\ up'[u].prior = up[u].prior /\ up'[u].words \subseteq up[u].words

LEMMA LesserPlaced ==
    ASSUME NEW u \in Uploads, Placed(u), Lesser(u),
           against' = against, riding \subseteq riding'
    PROVE  Placed(u)'
<1>1. CASE up'[u] = up[u] BY <1>1 DEF Placed, AllTo
<1>2. CASE up'[u].step \notin Live BY <1>2 DEF Placed, Live
<1>3. CASE /\ up'[u].step = up[u].step /\ up'[u].asked = up[u].asked
           /\ up'[u].prior = up[u].prior /\ up'[u].words \subseteq up[u].words
  BY <1>3 DEF Placed, AllTo
<1> QED BY <1>1, <1>2, <1>3 DEF Lesser

(* A step that addresses nothing and adds no words.                        *)
LEMMA Fades ==
    ASSUME AddressInv, OnceInv', Recorded' \subseteq Recorded,
           held' = held \/ held'.words = {},
           turns' = turns, against' = against, riding \subseteq riding',
           spoken' = spoken, \A u \in Uploads : Lesser(u)
    PROVE  AddressInv'
<1>1. \A u \in Uploads : Placed(u)'
  BY LesserPlaced DEF AddressInv, Addressed
<1>2. AllTo(Recorded, 0)' BY DEF AddressInv, Addressed, AllTo
<1>3. AllTo(held.words, held.question)'
  BY DEF AddressInv, Addressed, AllTo
<1>4. OneQuestion' BY DEF AddressInv, OneQuestion
<1> QED BY <1>1, <1>2, <1>3, <1>4 DEF AddressInv, Addressed

LEMMA ReplyLesser ==
    ASSUME TypeOK, NEW u \in Uploads, NEW answer \in Answers, Reply(u, answer)
    PROVE  \A v \in Uploads : Lesser(v)
<1>1. answer \notin Live BY DEF Answers, Live
<1>2. up'[u].step \notin Live
  BY <1>1, Constants, UploadType DEF Reply, TypeOK, Live, Requests
<1>3. \A v \in Uploads \ {u} : up'[v] = up[v] BY DEF Reply, TypeOK
<1> QED BY <1>2, <1>3 DEF Lesser

LEMMA FailureLesser ==
    ASSUME TypeOK, NEW u \in Uploads, ReplyFailure(u)
    PROVE  \A v \in Uploads : Lesser(v)
<1>1. "failed" \in Answers /\ "refused" \in Answers BY DEF Answers
<1> QED BY <1>1, ReplyLesser DEF ReplyFailure

LEMMA RoomAddressed ==
    ASSUME AddressInv, OnceInv',
           SpeakLines \/ StartRecording \/ Noise \/ Reload \/ Retry
    PROVE  AddressInv'
<1>1. CASE SpeakLines
  BY <1>1, Fades, OpenedRecorder DEF SpeakLines, server, Lesser
<1>2. CASE StartRecording
  BY <1>2, Fades, OpenedRecorder DEF StartRecording, server, Lesser
<1>3. CASE Noise
  <2>1. Recorded' = Recorded
    BY <1>3 DEF Noise, Recorded, AddressInv, OnceInv, TypeOK, Mics
  <2> QED BY <1>3, <2>1, Fades DEF Noise, server, history, Lesser
<1>4. CASE Reload
  <2>1. PICK cut \in SUBSET {u \in Uploads : up[u].step = "sent" /\ up[u].awaited} :
          up' = [u \in Uploads |->
                   IF up[u].step \in Answers \/ u \in cut THEN NoUpload
                   ELSE [up[u] EXCEPT !.awaited = FALSE]]
    BY <1>4 DEF Reload
  <2>2. \A u \in Uploads : Lesser(u)
    <3> SUFFICES ASSUME NEW u \in Uploads PROVE Lesser(u)
      OBVIOUS
    <3>1. up[u] \in Requests BY UploadType DEF AddressInv, OnceInv
    <3>2. CASE up'[u] = NoUpload BY <3>2, Constants DEF Lesser, Live
    <3>3. CASE up'[u] = [up[u] EXCEPT !.awaited = FALSE]
      BY <3>1, <3>3 DEF Lesser, Requests
    <3> QED BY <2>1, <3>2, <3>3
  <2>3. Recorded' = {} BY <1>4, OpenedRecorder DEF Reload
  <2> QED BY <1>4, <2>2, <2>3, Fades DEF Reload, server
<1>5. CASE Retry
  BY <1>5, Fades, OpenedRecorder DEF Retry, server, Lesser
<1> QED BY <1>1, <1>2, <1>3, <1>4, <1>5

(* The next word was uploaded for no question yet.                         *)
LEMMA SayAddressed ==
    ASSUME AddressInv, OnceInv', Say
    PROVE  AddressInv'
<1>1. /\ up' = up /\ held' = held /\ turns' = turns /\ riding' = riding
      /\ against' = against /\ spoken' = spoken + 1
  BY DEF Say, server, history
<1>2. Recorded' = Recorded \cup {spoken + 1}
  BY SayRecords DEF AddressInv, OnceInv
<1>3. /\ spoken \in Nat /\ spoken + 1 \in Words
      /\ \A w \in Words : w \in Int
  BY DEF Say, AddressInv, OnceInv, TypeOK, Words
<1>4. against[spoken + 1] = 0 BY <1>3 DEF AddressInv, Addressed
<1>5. \A w \in Words : w > spoken' => against'[w] = 0
  BY <1>1, <1>3 DEF AddressInv, Addressed
<1>6. AllTo(Recorded, 0)' BY <1>1, <1>2, <1>4 DEF AddressInv, Addressed, AllTo
<1>7. AllTo(held.words, held.question)'
  BY <1>1 DEF AddressInv, Addressed, AllTo
<1>8. \A u \in Uploads : Placed(u)'
  BY <1>1, LesserPlaced DEF AddressInv, Addressed, Lesser
<1>9. OneQuestion' BY <1>1 DEF AddressInv, OneQuestion
<1> QED BY <1>5, <1>6, <1>7, <1>8, <1>9 DEF AddressInv, Addressed

(* Whatever is sent was addressed to nothing.                              *)
LEMMA SendPlaced ==
    ASSUME AddressInv, NEW u \in Uploads, NEW kind, NEW words, NEW waits,
           Send(u, kind, words, waits), AllTo(words, 0),
           against' = against, riding \subseteq riding'
    PROVE  \A v \in Uploads : Placed(v)'
<1>1. up'[u] = [NoUpload EXCEPT !.kind = kind, !.step = "sent", !.words = words,
                                !.awaited = waits]
  BY DEF Send, AddressInv, OnceInv, TypeOK
<1>2. up'[u].step = "sent" /\ up'[u].words = words /\ up'[u].prior.words = {}
  BY <1>1, Constants DEF NoUpload
<1>3. Placed(u)' BY <1>2 DEF Placed, AllTo
<1>4. \A v \in Uploads \ {u} : up'[v] = up[v]
  BY DEF Send, AddressInv, OnceInv, TypeOK
<1>5. \A v \in Uploads \ {u} : Placed(v)'
  BY <1>4, LesserPlaced DEF AddressInv, Addressed, Lesser
<1> QED BY <1>3, <1>5

LEMMA SendsAddressed ==
    ASSUME AddressInv, OnceInv', NEW u \in Uploads, Sends(u)
    PROVE  AddressInv'
<1>1. /\ held' = held /\ turns' = turns /\ against' = against
      /\ spoken' = spoken /\ riding \subseteq riding'
  BY DEF Sends, Probe, Stop, SilenceClock, Flush, Type, server
<1>2. \A v \in Uploads : Placed(v)'
  <2>1. AllTo(Recorded, 0) /\ AllTo({}, 0)
    BY DEF AddressInv, Addressed, AllTo
  <2>2. CASE Flush(u)
    <3>1. PICK words \in SUBSET Recorded : Send(u, "beacon", words, FALSE)
      <4>1. PICK dropped, delivered \in 0..spoken :
              Send(u, "beacon",
                   mic.first \cup {w \in mic.rest : dropped < w /\ w <= delivered},
                   FALSE)
        BY <2>2 DEF Flush
      <4> QED BY <4>1 DEF Recorded
    <3>2. AllTo(words, 0) BY <2>1 DEF AllTo
    <3> QED BY <1>1, <3>1, <3>2, SendPlaced
  <2> QED
    BY <1>1, <2>1, <2>2, SendPlaced DEF Sends, Probe, Stop, SilenceClock, Type
<1>3. Recorded' \subseteq Recorded
  <2>1. CASE Flush(u)
    BY <2>1, FlushParts DEF AddressInv, OnceInv
  <2>2. CASE Type(u) BY <2>2 DEF Type, room, Recorded
  <2>3. CASE Probe(u) \/ Stop(u) \/ SilenceClock(u)
    BY <2>3, OpenedRecorder DEF Probe, Stop, SilenceClock
  <2> QED BY <2>1, <2>2, <2>3 DEF Sends
<1>4. AllTo(Recorded, 0)' BY <1>1, <1>3 DEF AddressInv, Addressed, AllTo
<1>5. AllTo(held.words, held.question)'
  BY <1>1 DEF AddressInv, Addressed, AllTo
<1>6. OneQuestion' BY <1>1 DEF AddressInv, OneQuestion
<1> QED BY <1>1, <1>2, <1>4, <1>5, <1>6 DEF AddressInv, Addressed

LEMMA ReceivesAddressed ==
    ASSUME AddressInv, OnceInv', NEW u \in Uploads, Receives(u)
    PROVE  AddressInv'
<1>1. up' = [up EXCEPT ![u] = NoUpload]
  BY DEF Receives, ReceiveHeld, ReceiveTold, ReceiveFailed
<1>2. \A v \in Uploads : Lesser(v)
  BY <1>1, Constants DEF AddressInv, OnceInv, TypeOK, Lesser, Live
<1>3. Recorded' \subseteq Recorded
  BY OpenedRecorder
  DEF Receives, ReceiveHeld, ReceiveTold, ReceiveFailed, Recorded
<1> QED
  BY <1>2, <1>3, Fades
  DEF Receives, ReceiveHeld, ReceiveTold, ReceiveFailed, server, history
-----------------------------------------------------------------------------
(* An upload's words are nowhere else, so addressing them leaves the rest. *)
LEMMA LoadAddressed ==
    ASSUME AddressInv, OnceInv', NEW u \in Uploads, Load(u)
    PROVE  AddressInv'
<1>0. up[u] \in Requests /\ up \in [Uploads -> Requests]
  BY UploadType DEF AddressInv, OnceInv, TypeOK
<1>1. up'[u] = [up[u] EXCEPT !.step = "loaded", !.asked = question]
  BY <1>0 DEF Load
<1>2. /\ up'[u].step = "loaded" /\ up'[u].asked = question
      /\ up'[u].words = up[u].words /\ up'[u].prior = up[u].prior
  BY <1>0, <1>1 DEF Requests
<1>3. \A v \in Uploads \ {u} : up'[v] = up[v] BY <1>0 DEF Load
<1>4. /\ Recorded' = Recorded /\ held' = held /\ turns' = turns
      /\ riding' = riding /\ spoken' = spoken
  BY DEF Load, room, history, Recorded
<1>5. \A w \in Words :
        against'[w] = IF w \in up[u].words /\ against[w] = 0 THEN question
                      ELSE against[w]
  BY DEF Load
<1>6. up[u].step = "sent" /\ Placed(u)
  BY DEF Load, AddressInv, Addressed
<1>7. \A w \in up[u].words \ riding : w \in Words /\ against'[w] = question
  BY <1>5, <1>6, UploadType DEF AddressInv, OnceInv, Placed, AllTo
<1>8. Cargo[u] = up[u].words BY <1>6 DEF Cargo, Live, Placed
<1>9. ASSUME NEW w \in Words, w \notin riding, w \notin up[u].words
      PROVE  against'[w] = against[w]
  BY <1>5, <1>9
<1>10. Placed(u)'
  BY <1>2, <1>4, <1>6, <1>7 DEF Placed, AllTo
<1>11. ASSUME NEW v \in Uploads \ {u} PROVE Placed(v)'
  <2>1. CASE up[v].step \notin Live BY <1>3, <2>1 DEF Placed, Live
  <2>2. CASE up[v].step \in Live
    <3>1. Cargo[v] = up[v].words \cup up[v].prior.words BY <2>2 DEF Cargo
    <3>2. \A w \in (up[v].words \cup up[v].prior.words) \ riding :
             against'[w] = against[w]
      BY <1>8, <1>9, <3>1, UploadType DEF AddressInv, OnceInv, Apart
    <3>3. Placed(v) BY DEF AddressInv, Addressed
    <3> QED BY <1>3, <1>4, <3>2, <3>3 DEF Placed, AllTo
  <2> QED BY <2>1, <2>2
<1>12. AllTo(Recorded, 0)'
  BY <1>4, <1>8, <1>9, RecordedType DEF AddressInv, OnceInv, Apart, Addressed, AllTo
<1>13. AllTo(held.words, held.question)'
  <2>1. held.words \in SUBSET Words
    BY DEF AddressInv, OnceInv, TypeOK, Fragments
  <2> QED
    BY <1>4, <1>8, <1>9, <2>1 DEF AddressInv, OnceInv, Apart, Addressed, AllTo
<1>14. \A w \in Words : w > spoken' => against'[w] = 0
  <2>1. \A w \in Words : w > spoken => w \notin up[u].words
    BY <1>8 DEF AddressInv, OnceInv, Voiced, TypeOK, Words
  <2> QED BY <1>4, <1>5, <2>1 DEF AddressInv, Addressed
<1>15. OneQuestion'
  <2>1. \A i \in DOMAIN turns : \A w \in turns[i] \ riding :
           w \in Words /\ against'[w] = against[w]
    <3>1. \A i \in DOMAIN turns : turns[i] \subseteq Words
      BY DEF AddressInv, OnceInv, TypeOK
    <3> QED BY <1>8, <1>9, <3>1 DEF AddressInv, OnceInv, Apart, Conducted
  <2> QED BY <1>4, <2>1 DEF AddressInv, OneQuestion
<1> QED
  BY <1>10, <1>11, <1>12, <1>13, <1>14, <1>15 DEF AddressInv, Addressed

(* A fragment joins an upload for the question it was held for.            *)
LEMMA TakeAddressed ==
    ASSUME AddressInv, OnceInv', NEW u \in Uploads, TakePendingTurn(u)
    PROVE  AddressInv'
<1>0. up[u] \in Requests /\ up \in [Uploads -> Requests]
  BY UploadType DEF AddressInv, OnceInv, TypeOK
<1>1. up'[u] = [up[u] EXCEPT !.step = "taken",
                             !.prior = IF Joins(u) THEN held ELSE NothingHeld]
  BY <1>0 DEF TakePendingTurn
<1>2. /\ up'[u].step = "taken" /\ up'[u].asked = up[u].asked
      /\ up'[u].words = up[u].words
      /\ up'[u].prior = IF Joins(u) THEN held ELSE NothingHeld
  BY <1>0, <1>1 DEF Requests
<1>3. \A v \in Uploads \ {u} : up'[v] = up[v] BY <1>0 DEF TakePendingTurn
<1>4. /\ Recorded' = Recorded /\ held'.words = {} /\ turns' = turns
      /\ riding' = riding /\ spoken' = spoken /\ against' = against
  BY Constants DEF TakePendingTurn, Removed, room, Recorded
<1>5. up[u].step = "loaded" /\ Placed(u)
  BY DEF TakePendingTurn, AddressInv, Addressed
<1>6. AllTo(up[u].words, up[u].asked) BY <1>5 DEF Placed
<1>7. Placed(u)'
  <2>1. CASE Joins(u)
    BY <1>2, <1>4, <1>6, <2>1 DEF Placed, AllTo, Joins, AddressInv, Addressed
  <2>2. CASE ~Joins(u)
    BY <1>2, <1>4, <1>6, <2>2, Constants DEF Placed, AllTo
  <2> QED BY <2>1, <2>2
<1>8. \A v \in Uploads \ {u} : Placed(v)'
  BY <1>3, <1>4, LesserPlaced DEF AddressInv, Addressed, Lesser
<1>9. AllTo(Recorded, 0)' /\ AllTo(held.words, held.question)'
  BY <1>4 DEF AddressInv, Addressed, AllTo
<1>10. OneQuestion' BY <1>4 DEF AddressInv, OneQuestion
<1> QED BY <1>4, <1>7, <1>8, <1>9, <1>10 DEF AddressInv, Addressed

LEMMA FailsAddressed ==
    ASSUME AddressInv, OnceInv', NEW u \in Uploads,
           \/ TakeUnavailable(u) \/ Mishear(u)
           \/ FailTranscription(u) \/ RefuseTurn(u) \/ RefuseBlank(u)
    PROVE  AddressInv'
<1>0. up[u] \in Requests /\ up \in [Uploads -> Requests]
  BY UploadType DEF AddressInv, OnceInv, TypeOK
<1>1. CASE TakeUnavailable(u)
  <2>1. up'[u] = [up[u] EXCEPT !.step = "taken"]
    BY <1>0, <1>1 DEF TakeUnavailable
  <2>2. /\ up'[u].step = "taken" /\ up'[u].asked = up[u].asked
        /\ up'[u].words = up[u].words /\ up'[u].prior = up[u].prior
    BY <1>0, <2>1 DEF Requests
  <2>3. /\ Recorded' = Recorded /\ turns' = turns /\ riding' = riding
        /\ spoken' = spoken /\ against' = against
        /\ held' = held \/ held'.words = {}
    BY <1>1, Constants DEF TakeUnavailable, room, Recorded
  <2>4. up[u].step = "loaded" /\ Placed(u)
    BY <1>1 DEF TakeUnavailable, AddressInv, Addressed
  <2>5. Placed(u)' BY <2>2, <2>3, <2>4 DEF Placed, AllTo
  <2>6. \A v \in Uploads \ {u} : up'[v] = up[v]
    BY <1>0, <1>1 DEF TakeUnavailable
  <2>7. \A v \in Uploads \ {u} : Placed(v)'
    BY <2>3, <2>6, LesserPlaced DEF AddressInv, Addressed, Lesser
  <2>8. AllTo(Recorded, 0)' /\ AllTo(held.words, held.question)'
    BY <2>3 DEF AddressInv, Addressed, AllTo
  <2>9. OneQuestion' BY <2>3 DEF AddressInv, OneQuestion
  <2> QED BY <2>3, <2>5, <2>7, <2>8, <2>9 DEF AddressInv, Addressed
<1>2. CASE Mishear(u)
  <2>1. up'[u] = [up[u] EXCEPT !.words = {}] BY <1>0, <1>2 DEF Mishear
  <2>2. \A v \in Uploads : Lesser(v)
    BY <1>0, <1>2, <2>1 DEF Mishear, Lesser, Requests
  <2> QED BY <1>2, <2>2, Fades DEF Mishear, server, room, Recorded
<1>3. CASE FailTranscription(u) \/ RefuseTurn(u) \/ RefuseBlank(u)
  <2>1. "failed" \in Answers BY DEF Answers
  <2>2. Reply(u, "failed") \/ ReplyFailure(u)
    BY <1>3 DEF FailTranscription, RefuseTurn, RefuseBlank
  <2>3. \A v \in Uploads : Lesser(v)
    BY <2>1, <2>2, ReplyLesser, FailureLesser DEF AddressInv, OnceInv
  <2> QED
    BY <1>3, <2>3, Fades
    DEF FailTranscription, RefuseTurn, RefuseBlank, server, room, history, Recorded
<1> QED BY <1>1, <1>2, <1>3

(* What is held is addressed to the question it is held for.               *)
LEMMA HoldAddressed ==
    ASSUME AddressInv, OnceInv', NEW u \in Uploads, NEW f \in Fragments,
           HoldPendingTurn(u, f), Reply(u, "held"), AllTo(f.words, f.question),
           UNCHANGED <<turns, against, room, spoken, riding>>
    PROVE  AddressInv'
<1>1. "held" \in Answers BY DEF Answers
<1>2. \A v \in Uploads : Lesser(v) BY <1>1, ReplyLesser DEF AddressInv, OnceInv
<1>3. Recorded' = Recorded BY DEF room, Recorded
<1>4. \A v \in Uploads : Placed(v)'
  BY <1>2, LesserPlaced DEF AddressInv, Addressed
<1>5. held' = f \/ held' = held BY DEF HoldPendingTurn
<1>6. AllTo(held.words, held.question)'
  BY <1>5 DEF AddressInv, Addressed, AllTo
<1>7. AllTo(Recorded, 0)' BY <1>3 DEF AddressInv, Addressed, AllTo
<1>8. OneQuestion' BY DEF AddressInv, OneQuestion
<1> QED BY <1>4, <1>6, <1>7, <1>8 DEF AddressInv, Addressed

LEMMA HoldsAddressed ==
    ASSUME AddressInv, OnceInv', NEW u \in Uploads, Rehold(u) \/ Hold(u)
    PROVE  AddressInv'
<1>1. up[u].step = "taken" /\ Placed(u)
  BY DEF Rehold, Hold, AddressInv, Addressed
<1>2. CASE Rehold(u)
  <2>1. up[u].prior \in Fragments BY UploadType DEF AddressInv, OnceInv
  <2>2. AllTo(up[u].prior.words, up[u].prior.question)
    BY <1>1, <1>2 DEF Rehold, Placed
  <2> QED BY <1>2, <2>1, <2>2, HoldAddressed DEF Rehold, Unchanged
<1>3. CASE Hold(u)
  <2> DEFINE f == Fragment(Utterance(u), up[u].asked, up[u].prior.probes + 1)
  <2>1. up[u].prior.probes + 1 \in 0..MaxProbes
    <3>1. TypeOK BY DEF AddressInv, OnceInv
    <3>2. up[u].prior.probes \in 0..MaxProbes BY <3>1, UploadType
    <3>3. up[u].prior.probes < MaxProbes BY <1>3 DEF Hold, Gated
    <3> QED BY <3>2, <3>3, SpokenAssumption
  <2>2. f \in Fragments BY <2>1, UploadType, FragmentType DEF AddressInv, OnceInv
  <2>3. f.words = Utterance(u) /\ f.question = up[u].asked BY DEF Fragment
  <2>4. AllTo(f.words, f.question)
    BY <1>1, <2>3 DEF Placed, AllTo, Utterance
  <2>5. /\ HoldPendingTurn(u, f) /\ Reply(u, "held")
        /\ UNCHANGED <<turns, against, room, spoken, riding>>
    BY <1>3 DEF Hold
  <2> HIDE DEF f
  <2> QED BY <2>2, <2>4, <2>5, HoldAddressed
<1> QED BY <1>2, <1>3

LEMMA ConductAddressed ==
    ASSUME AddressInv, OnceInv', NEW u \in Uploads, Conduct(u) \/ FailConduct(u)
    PROVE  AddressInv'
<1>0. WriteTurn(u) BY DEF Conduct, FailConduct
<1>1. "told" \in Answers BY DEF Answers
<1>2. \A v \in Uploads : Lesser(v)
  BY <1>1, ReplyLesser, FailureLesser DEF Conduct, FailConduct, AddressInv, OnceInv
<1>3. /\ Recorded' = Recorded /\ held' = held /\ riding' = riding
      /\ spoken' = spoken /\ against' = against
  BY DEF Conduct, FailConduct, room, history, Recorded
<1>4. CASE turns' = turns BY <1>2, <1>3, <1>4, Fades
<1>5. CASE turns' = Append(turns, Utterance(u))
  <2>1. \A v \in Uploads : Placed(v)'
    BY <1>2, <1>3, LesserPlaced DEF AddressInv, Addressed
  <2>2. AllTo(Recorded, 0)' /\ AllTo(held.words, held.question)'
    BY <1>3 DEF AddressInv, Addressed, AllTo
  <2>3. AllTo(Utterance(u), up[u].asked)
    BY <1>0 DEF WriteTurn, AddressInv, Addressed, Placed, AllTo, Utterance
  <2>4. Utterance(u) \in SUBSET Words BY UploadType DEF AddressInv, OnceInv
  <2>5. \A i \in DOMAIN turns' :
           \/ i \in DOMAIN turns /\ turns'[i] = turns[i]
           \/ i = Len(turns) + 1 /\ turns'[i] = Utterance(u)
    BY <1>5, <2>4, Appended DEF AddressInv, OnceInv
  <2>6. OneQuestion'
    BY <1>3, <2>3, <2>5 DEF AddressInv, OneQuestion, AllTo
  <2> QED BY <1>3, <2>1, <2>2, <2>6 DEF AddressInv, Addressed
<1> QED BY <1>0, <1>4, <1>5 DEF WriteTurn

LEMMA ExpireAddressed ==
    ASSUME AddressInv, OnceInv', Expire
    PROVE  AddressInv'
BY Fades, Constants DEF Expire, room, Recorded, Lesser
-----------------------------------------------------------------------------
LEMMA AddressInit == Init => AddressInv
<1> SUFFICES ASSUME Init PROVE AddressInv
  OBVIOUS
<1>1. OnceInv BY OnceInit
<1>2. /\ Recorded = {} /\ held.words = {} /\ turns = <<>>
      /\ \A w \in Words : against[w] = 0
  BY Constants DEF Init, Recorded
<1>3. \A u \in Uploads : Placed(u) BY Constants DEF Init, Placed
<1>4. Addressed BY <1>2, <1>3 DEF Addressed, AllTo
<1>5. OneQuestion BY <1>2 DEF OneQuestion
<1> QED BY <1>1, <1>4, <1>5 DEF AddressInv

LEMMA AddressStep == AddressInv /\ [Next]_vars => AddressInv'
<1> SUFFICES ASSUME AddressInv, [Next]_vars PROVE AddressInv'
  OBVIOUS
<1>0. OnceInv' BY OnceStep DEF AddressInv
<1>1. CASE UNCHANGED vars
  BY <1>0, <1>1, Fades DEF vars, server, room, history, Recorded, Lesser
<1>2. ASSUME NEW u \in Uploads, Arrives(u) \/ Decides(u) \/ Fails(u)
      PROVE  AddressInv'
  BY <1>0, <1>2, LoadAddressed, TakeAddressed, FailsAddressed, HoldsAddressed,
     ConductAddressed
  DEF Arrives, Decides, Fails
<1>3. CASE Next
  BY <1>0, <1>2, <1>3, RoomAddressed, SayAddressed, SendsAddressed,
     ReceivesAddressed, ExpireAddressed
  DEF Next
<1> QED BY <1>1, <1>3

(* However the index moves between an upload's read of its question and    *)
(* the take of what is held, and whatever is typed meanwhile, no turn      *)
(* joins what was said to two questions (stt.ts, pending-turn.ts           *)
(* takePendingTurn's comparison).                                          *)
THEOREM TurnsKeepTheirQuestion == Spec => []OneQuestion
<1>1. Spec => []AddressInv BY AddressInit, AddressStep, PTL DEF Spec
<1>2. AddressInv => OneQuestion BY DEF AddressInv
<1> QED BY <1>1, <1>2, PTL
=============================================================================
