-------------------------- MODULE SpokenTurnProofs --------------------------
(***************************************************************************)
(* Theorems about the spoken turn, for every number of uploads, words,     *)
(* questions, probes and upsets.                                           *)
(***************************************************************************)
EXTENDS SpokenTurn, TLAPS

USE SpokenAssumption

LEMMA FragmentType ==
    ASSUME NEW w \in SUBSET Words, NEW q \in 0..MaxQuestions, NEW n \in 0..MaxProbes
    PROVE  Fragment(w, q, n) \in Fragments
BY DEF Fragment, Fragments

LEMMA Constants ==
    /\ NothingHeld \in Fragments
    /\ NothingHeld.words = {} /\ NothingHeld.probes = 0 /\ NothingHeld.question = 0
    /\ NoUpload \in Requests
    /\ NoUpload.words = {} /\ NoUpload.prior = NothingHeld
    /\ NoUpload.step = "free" /\ NoUpload.kind = "none"
    /\ Closed \in Mics /\ Opened \in Mics
    /\ Closed.first = {} /\ Closed.rest = {} /\ Opened.first = {} /\ Opened.rest = {}
<1>1. /\ NothingHeld \in Fragments
      /\ NothingHeld.words = {} /\ NothingHeld.probes = 0 /\ NothingHeld.question = 0
  BY DEF NothingHeld, Fragment, Fragments
<1>2. NoUpload \in Requests
  BY <1>1 DEF NoUpload, Requests, Answers
<1>3. /\ NoUpload.words = {} /\ NoUpload.prior = NothingHeld
      /\ NoUpload.step = "free" /\ NoUpload.kind = "none"
  BY DEF NoUpload
<1>4. /\ Closed \in Mics /\ Opened \in Mics
      /\ Closed.first = {} /\ Closed.rest = {} /\ Opened.first = {} /\ Opened.rest = {}
  BY DEF Closed, Opened, Mics
<1> QED BY <1>1, <1>2, <1>3, <1>4

(* Every upset is counted within its bound.                                *)
LEMMA UpsetCounts ==
    ASSUME TypeOK, NEW k, Upset(k)
    PROVE  upsets' \in 0..MaxUpsets
BY DEF Upset, TypeOK

LEMMA SendType ==
    ASSUME TypeOK, NEW u \in Uploads, NEW kind \in Kinds,
           NEW words \in SUBSET Words, NEW waits \in BOOLEAN,
           Send(u, kind, words, waits)
    PROVE  up' \in [Uploads -> Requests] /\ overlapped' \in BOOLEAN
<1>1. [NoUpload EXCEPT !.kind = kind, !.step = "sent", !.words = words,
                       !.awaited = waits] \in Requests
  BY Constants DEF NoUpload, Requests, Answers
<1> QED BY <1>1 DEF Send, TypeOK, InFlight

LEMMA RecordedType ==
    ASSUME TypeOK
    PROVE  Recorded \in SUBSET Words /\ mic.first \in SUBSET Words
BY DEF TypeOK, Recorded, Mics

LEMMA UploadType ==
    ASSUME TypeOK, NEW u \in Uploads
    PROVE  /\ up[u] \in Requests
           /\ up[u].words \in SUBSET Words /\ up[u].prior \in Fragments
           /\ up[u].prior.words \in SUBSET Words
           /\ up[u].prior.probes \in 0..MaxProbes
           /\ up[u].asked \in 0..MaxQuestions
           /\ Utterance(u) \in SUBSET Words
BY DEF TypeOK, Requests, Fragments, Utterance

LEMMA ReplyType ==
    ASSUME TypeOK, NEW u \in Uploads, NEW answer \in Answers, Reply(u, answer)
    PROVE  up' \in [Uploads -> Requests]
<1>1. [up[u] EXCEPT !.step = answer] \in Requests
  BY UploadType DEF Requests
<1> QED BY <1>1, Constants DEF Reply, TypeOK

LEMMA FailureType ==
    ASSUME TypeOK, NEW u \in Uploads, ReplyFailure(u)
    PROVE  up' \in [Uploads -> Requests]
BY ReplyType DEF ReplyFailure, Answers

LEMMA RoomType ==
    ASSUME TypeOK,
           SpeakLines \/ StartRecording \/ Say \/ Noise \/ Reload \/ Retry
    PROVE  TypeOK'
<1> USE Constants, RecordedType
<1>1. CASE SpeakLines
  BY <1>1 DEF SpeakLines, Discard, TypeOK, server
<1>2. CASE StartRecording
  BY <1>2 DEF StartRecording, Discard, TypeOK, server
<1>3. CASE Say
  <2>1. spoken + 1 \in Words /\ spoken' \in 0..MaxWords
    BY <1>3 DEF Say, TypeOK, Words
  <2>2. \A f, r \in SUBSET Words :
          [mic EXCEPT !.first = f, !.heard = TRUE] \in Mics
            /\ [mic EXCEPT !.rest = r, !.heard = TRUE] \in Mics
    BY DEF TypeOK, Mics
  <2>3. mic.first \cup {spoken + 1} \in SUBSET Words
          /\ mic.rest \cup {spoken + 1} \in SUBSET Words
    BY <2>1 DEF TypeOK, Mics
  <2>4. mic' \in Mics
    BY <1>3, <2>2, <2>3 DEF Say
  <2> QED BY <1>3, <2>1, <2>4 DEF Say, TypeOK, server, history
<1>4. CASE Noise
  <2>1. mic' \in Mics BY <1>4 DEF Noise, TypeOK, Mics
  <2> QED BY <1>4, <2>1, UpsetCounts DEF Noise, TypeOK, server, history
<1>5. CASE Reload
  <2>1. PICK cut \in SUBSET {u \in Uploads : up[u].step = "sent" /\ up[u].awaited} :
          /\ up' = [u \in Uploads |->
                      IF up[u].step \in Answers \/ u \in cut THEN NoUpload
                      ELSE [up[u] EXCEPT !.awaited = FALSE]]
          /\ excused' = excused \cup Recorded \cup UNION {up[u].words : u \in cut}
    BY <1>5 DEF Reload
  <2>2. \A u \in Uploads : [up[u] EXCEPT !.awaited = FALSE] \in Requests
    BY UploadType DEF Requests
  <2>3. up' \in [Uploads -> Requests]
    BY <2>1, <2>2
  <2>4. excused' \subseteq Words
    BY <2>1, UploadType DEF TypeOK
  <2>5. upsets' \in 0..MaxUpsets
    BY <1>5, UpsetCounts DEF Reload, Calm, TypeOK
  <2> QED BY <1>5, <2>3, <2>4, <2>5 DEF Reload, TypeOK, server
<1>6. CASE Retry
  BY <1>6 DEF Retry, Discard, TypeOK, server
<1> QED BY <1>1, <1>2, <1>3, <1>4, <1>5, <1>6

LEMMA SendsType ==
    ASSUME TypeOK, NEW u \in Uploads, Sends(u)
    PROVE  TypeOK'
<1> USE Constants, RecordedType
<1>0. Kinds = {"probe", "final", "beacon", "silence", "typed"} /\ {} \in SUBSET Words
  BY DEF Kinds
<1>1. CASE Probe(u)
  <2>1. up' \in [Uploads -> Requests] /\ overlapped' \in BOOLEAN
    BY <1>0, <1>1, SendType DEF Probe
  <2> QED BY <1>1, <2>1 DEF Probe, TypeOK, server
<1>2. CASE Stop(u)
  <2>1. up' \in [Uploads -> Requests] /\ overlapped' \in BOOLEAN
    BY <1>0, <1>2, SendType DEF Stop
  <2> QED BY <1>2, <2>1 DEF Stop, TypeOK, server
<1>3. CASE SilenceClock(u)
  <2>1. up' \in [Uploads -> Requests] /\ overlapped' \in BOOLEAN
    BY <1>0, <1>3, SendType DEF SilenceClock
  <2> QED BY <1>3, <2>1 DEF SilenceClock, Discard, TypeOK, server
<1>4. CASE Flush(u)
  <2>1. PICK dropped, delivered \in 0..spoken :
          /\ Send(u, "beacon",
                  mic.first \cup {w \in mic.rest : dropped < w /\ w <= delivered},
                  FALSE)
          /\ mic' = [mic EXCEPT !.rest = {w \in mic.rest : delivered < w},
                                !.flushed = TRUE]
          /\ excused' = excused \cup {w \in mic.rest : w <= dropped}
    BY <1>4 DEF Flush
  <2>2. mic.first \in SUBSET Words /\ mic.rest \in SUBSET Words BY DEF TypeOK, Mics
  <2>3. mic.first \cup {w \in mic.rest : dropped < w /\ w <= delivered} \in SUBSET Words
    BY <2>2
  <2>4. up' \in [Uploads -> Requests] /\ overlapped' \in BOOLEAN
    BY <1>0, <2>1, <2>3, SendType
  <2>5. mic' \in Mics
    <3>1. {w \in mic.rest : delivered < w} \in SUBSET Words BY <2>2
    <3> QED BY <2>1, <3>1 DEF TypeOK, Mics
  <2>6. excused' \subseteq Words BY <2>1, <2>2 DEF TypeOK
  <2>7. upsets' \in 0..MaxUpsets BY <1>4, UpsetCounts DEF Flush
  <2> QED BY <1>4, <2>2, <2>4, <2>5, <2>6, <2>7 DEF Flush, TypeOK, server
<1>5. CASE Type(u)
  <2>1. up' \in [Uploads -> Requests] /\ overlapped' \in BOOLEAN
    BY <1>0, <1>5, SendType DEF Type
  <2>2. upsets' \in 0..MaxUpsets BY <1>5, UpsetCounts DEF Type
  <2> QED BY <1>5, <2>1, <2>2 DEF Type, TypeOK, server, room
<1> QED BY <1>1, <1>2, <1>3, <1>4, <1>5 DEF Sends

LEMMA ReceivesType ==
    ASSUME TypeOK, NEW u \in Uploads, Receives(u)
    PROVE  TypeOK'
<1> USE Constants, RecordedType
<1>1. CASE ReceiveHeld(u)
  BY <1>1 DEF ReceiveHeld, NoLonger, TypeOK, server, history
<1>2. CASE ReceiveTold(u)
  <2>1. excused' \subseteq Words /\ mic' \in Mics
    BY <1>2 DEF ReceiveTold, Discard, TypeOK
  <2> QED BY <1>2, <2>1 DEF ReceiveTold, TypeOK, server
<1>3. CASE ReceiveFailed(u)
  <2>1. excused' \subseteq Words /\ mic' \in Mics
    BY <1>3 DEF ReceiveFailed, Discard, TypeOK
  <2> QED BY <1>3, <2>1 DEF ReceiveFailed, TypeOK, server
<1> QED BY <1>1, <1>2, <1>3 DEF Receives

(* What a request takes, gives back or loses is made of words.             *)
LEMMA HoldType ==
    ASSUME TypeOK, NEW u \in Uploads, NEW f \in Fragments, HoldPendingTurn(u, f)
    PROVE  /\ held' \in Fragments /\ upsets' \in 0..MaxUpsets
           /\ excused' \subseteq Words
<1>1. f.words \in SUBSET Words BY DEF Fragments
<1>2. CASE held' = f /\ Calm /\ excused' = excused
  BY <1>2 DEF Calm, TypeOK
<1>3. CASE held' = held /\ Upset("redis") /\ excused' = excused \cup f.words
  BY <1>1, <1>3, UpsetCounts DEF TypeOK
<1> QED BY <1>2, <1>3 DEF HoldPendingTurn

LEMMA ServerType ==
    ASSUME TypeOK, NEW u \in Uploads, Arrives(u) \/ Fails(u) \/ Decides(u)
    PROVE  TypeOK'
<1> USE Constants, UploadType
<1>0. Answers = {"held", "told", "failed", "refused"} BY DEF Answers
<1>1. CASE Load(u)
  <2>0. question \in 0..MaxQuestions BY DEF TypeOK, Questions
  <2>1. [up[u] EXCEPT !.step = "loaded", !.asked = question] \in Requests
    BY <2>0 DEF Requests
  <2>2. up' \in [Uploads -> Requests] BY <1>1, <2>1 DEF Load, TypeOK
  <2>3. against' \in [Words -> 0..MaxQuestions]
    BY <1>1 DEF Load, TypeOK, Questions
  <2> QED BY <1>1, <2>2, <2>3 DEF Load, TypeOK, room, history
<1>2. CASE TakePendingTurn(u)
  <2>1. \A f \in Fragments : [up[u] EXCEPT !.step = "taken", !.prior = f] \in Requests
    BY DEF Requests
  <2>2. up' \in [Uploads -> Requests] BY <1>2, <2>1 DEF TakePendingTurn, TypeOK
  <2>3. held.words \in SUBSET Words BY DEF TypeOK, Fragments
  <2> QED BY <1>2, <2>2, <2>3 DEF TakePendingTurn, Removed, TypeOK, room
<1>3. CASE TakeUnavailable(u)
  <2>1. [up[u] EXCEPT !.step = "taken"] \in Requests BY DEF Requests
  <2>2. up' \in [Uploads -> Requests] BY <1>3, <2>1 DEF TakeUnavailable, TypeOK
  <2>3. held.words \in SUBSET Words /\ held' \in Fragments
    BY <1>3 DEF TakeUnavailable, TypeOK, Fragments
  <2>4. upsets' \in 0..MaxUpsets BY <1>3, UpsetCounts DEF TakeUnavailable
  <2> QED BY <1>3, <2>2, <2>3, <2>4 DEF TakeUnavailable, TypeOK, room
<1>4. CASE FailTranscription(u) \/ RefuseTurn(u)
  <2>1. up' \in [Uploads -> Requests]
    BY <1>4, FailureType DEF FailTranscription, RefuseTurn
  <2>2. upsets' \in 0..MaxUpsets
    BY <1>4, UpsetCounts DEF FailTranscription, RefuseTurn
  <2> QED
    BY <1>4, <2>1, <2>2 DEF FailTranscription, RefuseTurn, TypeOK, server, room
<1>5. CASE Mishear(u)
  <2>1. [up[u] EXCEPT !.words = {}] \in Requests BY DEF Requests
  <2>2. up' \in [Uploads -> Requests] BY <1>5, <2>1 DEF Mishear, TypeOK
  <2>3. upsets' \in 0..MaxUpsets BY <1>5, UpsetCounts DEF Mishear
  <2> QED BY <1>5, <2>2, <2>3 DEF Mishear, TypeOK, server, room
<1>6. CASE RefuseBlank(u)
  <2>1. up' \in [Uploads -> Requests] BY <1>0, <1>6, ReplyType DEF RefuseBlank
  <2> QED BY <1>6, <2>1 DEF RefuseBlank, TypeOK, server, room, history
<1>7. CASE Rehold(u)
  <2>1. up' \in [Uploads -> Requests] BY <1>0, <1>7, ReplyType DEF Rehold
  <2>2. held' \in Fragments /\ upsets' \in 0..MaxUpsets /\ excused' \subseteq Words
    BY <1>7, HoldType DEF Rehold, Unchanged
  <2> QED BY <1>7, <2>1, <2>2 DEF Rehold, TypeOK, room
<1>8. CASE Hold(u)
  <2>1. up' \in [Uploads -> Requests] BY <1>0, <1>8, ReplyType DEF Hold
  <2>2. up[u].prior.probes + 1 \in 0..MaxProbes BY <1>8 DEF Hold, Gated
  <2>3. Fragment(Utterance(u), up[u].asked, up[u].prior.probes + 1) \in Fragments
    BY <2>2, FragmentType
  <2>4. held' \in Fragments /\ upsets' \in 0..MaxUpsets /\ excused' \subseteq Words
    BY <1>8, <2>3, HoldType DEF Hold
  <2> QED BY <1>8, <2>1, <2>4 DEF Hold, TypeOK, room
<1>9. ASSUME WriteTurn(u) PROVE turns' \in Seq(SUBSET Words) /\ question' \in Questions
  <2>1. turns' \in Seq(SUBSET Words) BY <1>9 DEF WriteTurn, TypeOK
  <2>2. question' \in Questions BY <1>9 DEF WriteTurn, TypeOK, Questions
  <2> QED BY <2>1, <2>2
<1>10. CASE Conduct(u)
  <2>1. up' \in [Uploads -> Requests] BY <1>0, <1>10, ReplyType DEF Conduct
  <2> QED BY <1>9, <1>10, <2>1 DEF Conduct, TypeOK, room, history
<1>11. CASE FailConduct(u)
  <2>1. up' \in [Uploads -> Requests] BY <1>11, FailureType DEF FailConduct
  <2>2. upsets' \in 0..MaxUpsets BY <1>11, UpsetCounts DEF FailConduct
  <2> QED BY <1>9, <1>11, <2>1, <2>2 DEF FailConduct, TypeOK, room, history
<1> QED
  BY <1>1, <1>2, <1>3, <1>4, <1>5, <1>6, <1>7, <1>8, <1>10, <1>11
  DEF Arrives, Fails, Decides

LEMMA ExpireType ==
    ASSUME TypeOK, Expire
    PROVE  TypeOK'
<1>1. held.words \in SUBSET Words BY DEF TypeOK, Fragments
<1>2. upsets' \in 0..MaxUpsets BY UpsetCounts DEF Expire
<1> QED BY <1>1, <1>2, Constants DEF Expire, TypeOK, room

LEMMA TypeInit == Init => TypeOK
<1> SUFFICES ASSUME Init PROVE TypeOK
  OBVIOUS
<1>1. question \in Questions BY DEF Init, Questions
<1>2. up \in [Uploads -> Requests] BY Constants DEF Init
<1>3. turns \in Seq(SUBSET Words) BY DEF Init
<1>4. against \in [Words -> 0..MaxQuestions] BY DEF Init
<1>5. held \in Fragments /\ mic \in Mics BY Constants DEF Init
<1>6. /\ playing \in BOOLEAN /\ fresh \in BOOLEAN /\ uploading \in BOOLEAN
      /\ overlapped \in BOOLEAN /\ blanked \in BOOLEAN
      /\ phase \in {"idle", "speaking", "listening", "uploading", "failed"}
  BY DEF Init
<1>7. /\ spoken \in 0..MaxWords /\ upsets \in 0..MaxUpsets
      /\ excused \subseteq Words /\ riding \subseteq Words
  BY DEF Init
<1> QED BY <1>1, <1>2, <1>3, <1>4, <1>5, <1>6, <1>7 DEF TypeOK

LEMMA TypeStep == TypeOK /\ [Next]_vars => TypeOK'
<1> SUFFICES ASSUME TypeOK, [Next]_vars PROVE TypeOK'
  OBVIOUS
<1>1. CASE UNCHANGED vars
  BY <1>1 DEF vars, server, room, history, TypeOK
<1>2. CASE Next
  BY <1>2, RoomType, SendsType, ReceivesType, ServerType, ExpireType DEF Next
<1> QED BY <1>1, <1>2

(* The variables keep their types; in particular no fragment is held past  *)
(* the cap on its probes (stt.ts, pending-turn.ts).                        *)
THEOREM SpokenTypeCorrect == Spec => []TypeOK
BY TypeInit, TypeStep, PTL DEF Spec
-----------------------------------------------------------------------------
(* Where a word can be: in the recorder, with a request that has not been  *)
(* answered, in Redis, or with the conductor.                              *)
Live == {"sent", "loaded", "taken"}
Cargo ==
    [u \in Uploads |-> IF up[u].step \in Live
                       THEN up[u].words \cup up[u].prior.words ELSE {}]

(* No word is in two places, and none is anywhere before it is spoken.     *)
Apart ==
    /\ \A u, v \in Uploads : u # v => Cargo[u] \cap Cargo[v] \subseteq riding
    /\ \A u \in Uploads :
          /\ Cargo[u] \cap held.words \subseteq riding
          /\ Cargo[u] \cap Conducted \subseteq riding
          /\ Cargo[u] \cap Recorded \subseteq riding
    /\ held.words \cap Conducted \subseteq riding
    /\ held.words \cap Recorded \subseteq riding
    /\ Conducted \cap Recorded \subseteq riding

Voiced ==
    /\ Recorded \subseteq 1..spoken /\ held.words \subseteq 1..spoken
    /\ Conducted \subseteq 1..spoken
    /\ \A u \in Uploads : Cargo[u] \subseteq 1..spoken

OnceInv == TypeOK /\ Apart /\ Voiced /\ HeardOnce
-----------------------------------------------------------------------------
(* A step that only takes words away, or leaves them where they are.       *)
LEMMA Shrinks ==
    ASSUME OnceInv, TypeOK',
           Recorded' \subseteq Recorded, held'.words \subseteq held.words,
           turns' = turns, riding \subseteq riding', spoken' = spoken,
           \A u \in Uploads : Cargo'[u] \subseteq Cargo[u]
    PROVE  OnceInv'
<1>1. Conducted' = Conducted BY DEF Conducted
<1>2. Apart' BY <1>1 DEF OnceInv, Apart
<1>3. Voiced' BY <1>1 DEF OnceInv, Voiced
<1>4. HeardOnce' BY DEF OnceInv, HeardOnce
<1> QED BY <1>2, <1>3, <1>4 DEF OnceInv

LEMMA CargoKept ==
    ASSUME up' = up
    PROVE  Cargo' = Cargo
BY DEF Cargo

(* A request that is answered carries nothing any more.                    *)
LEMMA ReplyUnloads ==
    ASSUME TypeOK, NEW u \in Uploads, NEW answer \in Answers, Reply(u, answer)
    PROVE  /\ Cargo'[u] = {}
           /\ \A v \in Uploads \ {u} : Cargo'[v] = Cargo[v]
<1>1. answer \notin Live BY DEF Answers, Live
<1>2. up'[u].step \notin Live
  BY <1>1, Constants, UploadType DEF Reply, TypeOK, Live, Requests
<1>3. \A v \in Uploads \ {u} : up'[v] = up[v] BY DEF Reply, TypeOK
<1> QED BY <1>2, <1>3 DEF Cargo

LEMMA FailureUnloads ==
    ASSUME TypeOK, NEW u \in Uploads, ReplyFailure(u)
    PROVE  /\ Cargo'[u] = {}
           /\ \A v \in Uploads \ {u} : Cargo'[v] = Cargo[v]
<1>1. "failed" \in Answers /\ "refused" \in Answers BY DEF Answers
<1> QED BY <1>1, ReplyUnloads DEF ReplyFailure

LEMMA SendLoads ==
    ASSUME TypeOK, NEW u \in Uploads, NEW kind, NEW words, NEW waits,
           Send(u, kind, words, waits)
    PROVE  /\ Cargo[u] = {} /\ Cargo'[u] = words
           /\ \A v \in Uploads \ {u} : Cargo'[v] = Cargo[v]
<1>1. up'[u] = [NoUpload EXCEPT !.kind = kind, !.step = "sent", !.words = words,
                                !.awaited = waits]
  BY DEF Send, TypeOK
<1>2. up'[u].step = "sent" /\ up'[u].words = words /\ up'[u].prior.words = {}
  BY <1>1, Constants DEF NoUpload
<1>3. \A v \in Uploads \ {u} : up'[v] = up[v] BY DEF Send, TypeOK
<1>4. up[u].step = "free" BY DEF Send
<1> QED BY <1>2, <1>3, <1>4 DEF Cargo, Live

LEMMA UpdateUnloads ==
    ASSUME TypeOK, NEW u \in Uploads, up' = [up EXCEPT ![u] = NoUpload]
    PROVE  \A v \in Uploads : Cargo'[v] \subseteq Cargo[v]
BY Constants DEF TypeOK, Cargo, Live

LEMMA OpenedRecorder ==
    ASSUME mic' = Opened \/ mic' = Closed
    PROVE  Recorded' = {}
BY Constants DEF Recorded

LEMMA RoomOnce ==
    ASSUME OnceInv, TypeOK',
           SpeakLines \/ StartRecording \/ Noise \/ Reload \/ Retry
    PROVE  OnceInv'
<1>1. CASE SpeakLines
  BY <1>1, Shrinks, CargoKept, OpenedRecorder DEF SpeakLines, server
<1>2. CASE StartRecording
  BY <1>2, Shrinks, CargoKept, OpenedRecorder DEF StartRecording, server
<1>3. CASE Noise
  <2>1. Recorded' = Recorded BY <1>3 DEF Noise, Recorded, OnceInv, TypeOK, Mics
  <2> QED BY <1>3, <2>1, Shrinks, CargoKept DEF Noise, server, history
<1>4. CASE Reload
  <2>1. PICK cut \in SUBSET {u \in Uploads : up[u].step = "sent" /\ up[u].awaited} :
          up' = [u \in Uploads |->
                   IF up[u].step \in Answers \/ u \in cut THEN NoUpload
                   ELSE [up[u] EXCEPT !.awaited = FALSE]]
    BY <1>4 DEF Reload
  <2>2. \A u \in Uploads : Cargo'[u] \subseteq Cargo[u]
    <3> SUFFICES ASSUME NEW u \in Uploads PROVE Cargo'[u] \subseteq Cargo[u]
      OBVIOUS
    <3>1. up[u] \in Requests BY UploadType DEF OnceInv
    <3>2. CASE up'[u] = NoUpload
      BY <3>2, Constants DEF Cargo, Live
    <3>3. CASE up'[u] = [up[u] EXCEPT !.awaited = FALSE]
      BY <3>1, <3>3 DEF Cargo, Requests
    <3> QED BY <2>1, <3>2, <3>3
  <2>3. Recorded' = {} BY <1>4, OpenedRecorder DEF Reload
  <2> QED BY <1>4, <2>2, <2>3, Shrinks DEF Reload, server
<1>5. CASE Retry
  BY <1>5, Shrinks, CargoKept, OpenedRecorder DEF Retry, server
<1> QED BY <1>1, <1>2, <1>3, <1>4, <1>5

LEMMA SayRecords ==
    ASSUME TypeOK, Say
    PROVE  Recorded' = Recorded \cup {spoken + 1}
<1>0. mic \in Mics BY DEF TypeOK
<1>1. CASE mic' = [mic EXCEPT !.first = @ \cup {spoken + 1}, !.heard = TRUE]
  BY <1>0, <1>1 DEF Recorded, Mics
<1>2. CASE mic' = [mic EXCEPT !.rest = @ \cup {spoken + 1}, !.heard = TRUE]
  BY <1>0, <1>2 DEF Recorded, Mics
<1> QED BY <1>1, <1>2 DEF Say

(* The next word is nowhere yet.                                           *)
LEMMA SayOnce ==
    ASSUME OnceInv, TypeOK', Say
    PROVE  OnceInv'
<1>1. Recorded' = Recorded \cup {spoken + 1} BY SayRecords DEF OnceInv
<1>2. /\ Cargo' = Cargo /\ held' = held /\ turns' = turns /\ riding' = riding
      /\ spoken' = spoken + 1 /\ Conducted' = Conducted
  BY CargoKept DEF Say, server, history, Conducted
<1>3. spoken \in Nat BY DEF OnceInv, TypeOK
<1>4. /\ spoken + 1 \notin 1..spoken /\ spoken + 1 \in 1..(spoken + 1)
      /\ 1..spoken \subseteq 1..(spoken + 1)
  BY <1>3
<1>5. Apart'
  <2>1. \A u \in Uploads : spoken + 1 \notin Cargo[u]
    BY <1>4 DEF OnceInv, Voiced
  <2>2. spoken + 1 \notin held.words /\ spoken + 1 \notin Conducted
    BY <1>4 DEF OnceInv, Voiced
  <2> QED BY <1>1, <1>2, <2>1, <2>2 DEF OnceInv, Apart
<1>6. Voiced'
  <2>1. Recorded' \subseteq 1..(spoken + 1)
    BY <1>1, <1>4 DEF OnceInv, Voiced
  <2>2. /\ held.words \subseteq 1..(spoken + 1)
        /\ Conducted \subseteq 1..(spoken + 1)
        /\ \A u \in Uploads : Cargo[u] \subseteq 1..(spoken + 1)
    BY <1>4 DEF OnceInv, Voiced
  <2> QED BY <1>2, <2>1, <2>2 DEF Voiced
<1>7. HeardOnce' BY <1>2 DEF OnceInv, HeardOnce
<1> QED BY <1>5, <1>6, <1>7 DEF OnceInv

(* What was recorded goes with the upload.                                 *)
LEMMA UploadOnce ==
    ASSUME OnceInv, TypeOK', NEW u \in Uploads, Probe(u) \/ Stop(u)
    PROVE  OnceInv'
<1>1. /\ Cargo[u] = {} /\ Cargo'[u] = Recorded
      /\ \A v \in Uploads \ {u} : Cargo'[v] = Cargo[v]
  BY SendLoads DEF Probe, Stop, OnceInv
<1>2. /\ Recorded' = {} /\ held' = held /\ turns' = turns /\ riding' = riding
      /\ spoken' = spoken
  BY OpenedRecorder DEF Probe, Stop, server
<1>3. Conducted' = Conducted BY <1>2 DEF Conducted
<1>4. Apart' BY <1>1, <1>2, <1>3 DEF OnceInv, Apart
<1>5. Voiced' BY <1>1, <1>2, <1>3 DEF OnceInv, Voiced
<1>6. HeardOnce' BY <1>2 DEF OnceInv, HeardOnce
<1> QED BY <1>4, <1>5, <1>6 DEF OnceInv

(* What a flush sends, drops or leaves to the recorder is apart; the first *)
(* chunk, which is sent and kept, rides.                                   *)
LEMMA FlushParts ==
    ASSUME TypeOK, NEW u \in Uploads, Flush(u)
    PROVE  /\ Cargo[u] = {} /\ \A v \in Uploads \ {u} : Cargo'[v] = Cargo[v]
           /\ Cargo'[u] \subseteq Recorded /\ Recorded' \subseteq Recorded
           /\ Cargo'[u] \cap Recorded' \subseteq mic.first
           /\ riding' = riding \cup mic.first
<1>1. PICK dropped, delivered \in 0..spoken :
        /\ Send(u, "beacon",
                mic.first \cup {w \in mic.rest : dropped < w /\ w <= delivered},
                FALSE)
        /\ mic' = [mic EXCEPT !.rest = {w \in mic.rest : delivered < w},
                              !.flushed = TRUE]
  BY DEF Flush
<1>2. /\ Cargo[u] = {} /\ \A v \in Uploads \ {u} : Cargo'[v] = Cargo[v]
      /\ Cargo'[u] = mic.first \cup {w \in mic.rest : dropped < w /\ w <= delivered}
  BY <1>1, SendLoads
<1>3. Recorded' = mic.first \cup {w \in mic.rest : delivered < w}
  BY <1>1 DEF Recorded, TypeOK, Mics
<1>4. \A w \in mic.rest : w \in Int /\ ~(w <= delivered /\ delivered < w)
  BY DEF TypeOK, Mics, Words
<1> QED BY <1>2, <1>3, <1>4 DEF Flush, Recorded

LEMMA FlushOnce ==
    ASSUME OnceInv, TypeOK', NEW u \in Uploads, Flush(u)
    PROVE  OnceInv'
<1>1. /\ Cargo[u] = {} /\ \A v \in Uploads \ {u} : Cargo'[v] = Cargo[v]
      /\ Cargo'[u] \subseteq Recorded /\ Recorded' \subseteq Recorded
      /\ Cargo'[u] \cap Recorded' \subseteq mic.first
      /\ riding' = riding \cup mic.first
  BY FlushParts DEF OnceInv
<1>2. held' = held /\ turns' = turns /\ spoken' = spoken
  BY DEF Flush, server
<1>3. Conducted' = Conducted BY <1>2 DEF Conducted
<1>4. Apart' BY <1>1, <1>2, <1>3 DEF OnceInv, Apart
<1>5. Voiced' BY <1>1, <1>2, <1>3 DEF OnceInv, Voiced
<1>6. HeardOnce' BY <1>1, <1>2 DEF OnceInv, HeardOnce
<1> QED BY <1>4, <1>5, <1>6 DEF OnceInv

LEMMA SendsOnce ==
    ASSUME OnceInv, TypeOK', NEW u \in Uploads, Sends(u)
    PROVE  OnceInv'
<1>1. CASE Probe(u) \/ Stop(u) BY <1>1, UploadOnce
<1>2. CASE Flush(u) BY <1>2, FlushOnce
<1>3. CASE SilenceClock(u) \/ Type(u)
  <2>1. \A v \in Uploads : Cargo'[v] \subseteq Cargo[v]
    BY <1>3, SendLoads DEF SilenceClock, Type, OnceInv
  <2>2. Recorded' \subseteq Recorded
    BY <1>3, OpenedRecorder DEF SilenceClock, Type, room, Recorded
  <2> QED BY <1>3, <2>1, <2>2, Shrinks DEF SilenceClock, Type, server
<1> QED BY <1>1, <1>2, <1>3 DEF Sends

LEMMA ReceivesOnce ==
    ASSUME OnceInv, TypeOK', NEW u \in Uploads, Receives(u)
    PROVE  OnceInv'
<1>1. \A v \in Uploads : Cargo'[v] \subseteq Cargo[v]
  BY UpdateUnloads DEF Receives, ReceiveHeld, ReceiveTold, ReceiveFailed, OnceInv
<1>2. Recorded' \subseteq Recorded
  BY OpenedRecorder
  DEF Receives, ReceiveHeld, ReceiveTold, ReceiveFailed, Recorded
<1> QED
  BY <1>1, <1>2, Shrinks
  DEF Receives, ReceiveHeld, ReceiveTold, ReceiveFailed, server, history

(* The fragment goes to the one request that took it.                      *)
LEMMA TakeOnce ==
    ASSUME OnceInv, TypeOK', NEW u \in Uploads, TakePendingTurn(u)
    PROVE  OnceInv'
<1>0. up[u] \in Requests /\ up[u].step = "loaded"
  BY UploadType DEF OnceInv, TakePendingTurn
<1>1. up'[u].words = up[u].words
        /\ (up'[u].prior = held \/ up'[u].prior = NothingHeld)
  BY <1>0 DEF TakePendingTurn, OnceInv, TypeOK, Requests
<1>2. \A v \in Uploads \ {u} : up'[v] = up[v]
  BY DEF TakePendingTurn, OnceInv, TypeOK
<1>3. Cargo'[u] \subseteq Cargo[u] \cup held.words
  BY <1>0, <1>1, Constants DEF Cargo, Live
<1>4. \A v \in Uploads \ {u} : Cargo'[v] = Cargo[v] BY <1>2 DEF Cargo
<1>5. /\ held'.words = {} /\ turns' = turns /\ riding' = riding
      /\ spoken' = spoken /\ Recorded' = Recorded
  BY Constants DEF TakePendingTurn, Removed, room, Recorded
<1>6. Conducted' = Conducted BY <1>5 DEF Conducted
<1>7. Apart' BY <1>3, <1>4, <1>5, <1>6 DEF OnceInv, Apart
<1>8. Voiced' BY <1>3, <1>4, <1>5, <1>6 DEF OnceInv, Voiced
<1>9. HeardOnce' BY <1>5 DEF OnceInv, HeardOnce
<1> QED BY <1>7, <1>8, <1>9 DEF OnceInv

LEMMA FailsOnce ==
    ASSUME OnceInv, TypeOK', NEW u \in Uploads,
           \/ Load(u) \/ TakeUnavailable(u) \/ Mishear(u)
           \/ FailTranscription(u) \/ RefuseTurn(u) \/ RefuseBlank(u)
    PROVE  OnceInv'
<1>0. up[u] \in Requests BY UploadType DEF OnceInv
<1>1. CASE Load(u) \/ TakeUnavailable(u) \/ Mishear(u)
  <2>1. /\ up'[u].words \subseteq up[u].words /\ up'[u].prior = up[u].prior
        /\ up[u].step \in Live
    <3>0. up \in [Uploads -> Requests] BY DEF OnceInv, TypeOK
    <3>1. CASE Load(u)
      <4>1. up'[u] = [up[u] EXCEPT !.step = "loaded", !.asked = question]
        BY <3>0, <3>1 DEF Load
      <4> QED BY <1>0, <3>1, <4>1 DEF Load, Requests, Live
    <3>2. CASE TakeUnavailable(u)
      <4>1. up'[u] = [up[u] EXCEPT !.step = "taken"]
        BY <3>0, <3>2 DEF TakeUnavailable
      <4> QED BY <1>0, <3>2, <4>1 DEF TakeUnavailable, Requests, Live
    <3>3. CASE Mishear(u)
      <4>1. up'[u] = [up[u] EXCEPT !.words = {}]
        BY <3>0, <3>3 DEF Mishear
      <4> QED BY <1>0, <3>3, <4>1 DEF Mishear, Requests, Live
    <3> QED BY <1>1, <3>1, <3>2, <3>3
  <2>2. \A v \in Uploads \ {u} : up'[v] = up[v]
    BY <1>1 DEF Load, TakeUnavailable, Mishear, OnceInv, TypeOK
  <2>3. \A v \in Uploads : Cargo'[v] \subseteq Cargo[v]
    BY <2>1, <2>2 DEF Cargo
  <2>4. held'.words \subseteq held.words
    BY <1>1, Constants DEF Load, TakeUnavailable, Mishear, server
  <2> QED
    BY <1>1, <2>3, <2>4, Shrinks
    DEF Load, TakeUnavailable, Mishear, server, room, history, Recorded
<1>2. CASE FailTranscription(u) \/ RefuseTurn(u) \/ RefuseBlank(u)
  <2>1. "failed" \in Answers BY DEF Answers
  <2>2. Reply(u, "failed") \/ ReplyFailure(u)
    BY <1>2 DEF FailTranscription, RefuseTurn, RefuseBlank
  <2>3. \A v \in Uploads : Cargo'[v] \subseteq Cargo[v]
    BY <2>1, <2>2, ReplyUnloads, FailureUnloads DEF OnceInv
  <2> QED
    BY <1>2, <2>3, Shrinks
    DEF FailTranscription, RefuseTurn, RefuseBlank, server, room, history, Recorded
<1> QED BY <1>1, <1>2

(* What is held again came from the request that holds it.                 *)
LEMMA HoldOnce ==
    ASSUME OnceInv, TypeOK', NEW u \in Uploads, NEW f \in Fragments,
           HoldPendingTurn(u, f), Reply(u, "held"), f.words \subseteq Cargo[u],
           turns' = turns, riding' = riding, spoken' = spoken, Recorded' = Recorded
    PROVE  OnceInv'
<1>0. "held" \in Answers BY DEF Answers
<1>1. /\ Cargo'[u] = {} /\ \A v \in Uploads \ {u} : Cargo'[v] = Cargo[v]
  BY <1>0, ReplyUnloads DEF OnceInv
<1>2. Conducted' = Conducted BY DEF Conducted
<1>3. CASE held' = held
  BY <1>1, <1>3, Shrinks
<1>4. CASE held' = f
  <2>1. Apart' BY <1>1, <1>2, <1>4 DEF OnceInv, Apart
  <2>2. Voiced' BY <1>1, <1>2, <1>4 DEF OnceInv, Voiced
  <2>3. HeardOnce' BY DEF OnceInv, HeardOnce
  <2> QED BY <2>1, <2>2, <2>3 DEF OnceInv
<1> QED BY <1>3, <1>4 DEF HoldPendingTurn

LEMMA HoldsOnce ==
    ASSUME OnceInv, TypeOK', NEW u \in Uploads, Rehold(u) \/ Hold(u)
    PROVE  OnceInv'
<1>1. up[u].step = "taken" /\ Cargo[u] = Utterance(u)
  BY DEF Rehold, Hold, Cargo, Live, Utterance
<1>2. turns' = turns /\ riding' = riding /\ spoken' = spoken /\ Recorded' = Recorded
  BY DEF Rehold, Hold, room, Recorded
<1>3. CASE Rehold(u)
  <2>1. up[u].prior \in Fragments /\ up[u].prior.words \subseteq Cargo[u]
    BY <1>1, UploadType DEF OnceInv, Utterance
  <2> QED BY <1>2, <1>3, <2>1, HoldOnce DEF Rehold, Unchanged
<1>4. CASE Hold(u)
  <2> DEFINE f == Fragment(Utterance(u), up[u].asked, up[u].prior.probes + 1)
  <2>1. up[u].prior.probes + 1 \in 0..MaxProbes
    BY <1>4, UploadType DEF Hold, Gated, OnceInv
  <2>2. f \in Fragments BY <2>1, UploadType, FragmentType DEF OnceInv
  <2>3. f.words = Utterance(u) BY DEF Fragment
  <2>4. HoldPendingTurn(u, f) /\ Reply(u, "held") BY <1>4 DEF Hold
  <2> HIDE DEF f
  <2> QED BY <1>1, <1>2, <2>2, <2>3, <2>4, HoldOnce
<1> QED BY <1>3, <1>4

LEMMA Appended ==
    ASSUME TypeOK, NEW s \in SUBSET Words, turns' = Append(turns, s)
    PROVE  /\ Conducted' = Conducted \cup s
           /\ \A i \in DOMAIN turns' :
                 \/ i \in DOMAIN turns /\ turns'[i] = turns[i]
                 \/ i = Len(turns) + 1 /\ turns'[i] = s
<1>1. turns \in Seq(SUBSET Words) BY DEF TypeOK
<1>2. /\ DOMAIN turns = 1..Len(turns) /\ Len(turns) \in Nat
      /\ DOMAIN turns' = 1..(Len(turns) + 1)
      /\ \A i \in 1..Len(turns) : turns'[i] = turns[i]
      /\ turns'[Len(turns) + 1] = s
  BY <1>1
<1>3. \A i \in DOMAIN turns' :
         \/ i \in DOMAIN turns /\ turns'[i] = turns[i]
         \/ i = Len(turns) + 1 /\ turns'[i] = s
  BY <1>2
<1>4. \A i \in DOMAIN turns : i \in DOMAIN turns' /\ turns'[i] = turns[i]
  BY <1>2
<1>5. Len(turns) + 1 \in DOMAIN turns' BY <1>2
<1>6. Conducted' = Conducted \cup s
  BY <1>2, <1>3, <1>4, <1>5 DEF Conducted
<1> QED BY <1>3, <1>6

LEMMA ConductOnce ==
    ASSUME OnceInv, TypeOK', NEW u \in Uploads, Conduct(u) \/ FailConduct(u)
    PROVE  OnceInv'
<1>0. "told" \in Answers BY DEF Answers
<1>1. /\ Cargo'[u] = {} /\ \A v \in Uploads \ {u} : Cargo'[v] = Cargo[v]
  BY <1>0, ReplyUnloads, FailureUnloads DEF OnceInv, Conduct, FailConduct
<1>2. WriteTurn(u) /\ Cargo[u] = Utterance(u)
  BY DEF Conduct, FailConduct, WriteTurn, Cargo, Live, Utterance
<1>3. held' = held /\ riding' = riding /\ spoken' = spoken /\ Recorded' = Recorded
  BY DEF Conduct, FailConduct, room, history, Recorded
<1>4. CASE turns' = turns
  BY <1>1, <1>3, <1>4, Shrinks
<1>5. CASE turns' = Append(turns, Utterance(u))
  <2>1. Utterance(u) \in SUBSET Words BY UploadType DEF OnceInv
  <2>2. /\ Conducted' = Conducted \cup Utterance(u)
        /\ \A i \in DOMAIN turns' :
              \/ i \in DOMAIN turns /\ turns'[i] = turns[i]
              \/ i = Len(turns) + 1 /\ turns'[i] = Utterance(u)
    BY <1>5, <2>1, Appended DEF OnceInv
  <2>3. Apart' BY <1>1, <1>2, <1>3, <2>2 DEF OnceInv, Apart
  <2>4. Voiced' BY <1>1, <1>2, <1>3, <2>2 DEF OnceInv, Voiced
  <2>5. \A i \in DOMAIN turns : turns[i] \cap Utterance(u) \subseteq riding
    BY <1>2 DEF OnceInv, Apart, Conducted
  <2>6. HeardOnce' BY <1>3, <2>2, <2>5 DEF OnceInv, HeardOnce
  <2> QED BY <2>3, <2>4, <2>6 DEF OnceInv
<1> QED BY <1>2, <1>4, <1>5 DEF WriteTurn

LEMMA ExpireOnce ==
    ASSUME OnceInv, TypeOK', Expire
    PROVE  OnceInv'
BY Shrinks, CargoKept, Constants DEF Expire, room, Recorded

LEMMA OnceInit == Init => OnceInv
<1> SUFFICES ASSUME Init PROVE OnceInv
  OBVIOUS
<1>1. TypeOK BY TypeInit
<1>2. Recorded = {} /\ held.words = {} /\ turns = <<>>
  BY Constants DEF Init, Recorded
<1>3. \A u \in Uploads : Cargo[u] = {} BY Constants DEF Init, Cargo, Live
<1>4. Conducted = {} BY <1>2 DEF Conducted
<1>5. Apart /\ Voiced BY <1>2, <1>3, <1>4 DEF Apart, Voiced
<1>6. HeardOnce BY <1>2 DEF HeardOnce
<1> QED BY <1>1, <1>5, <1>6 DEF OnceInv

LEMMA OnceStep == OnceInv /\ [Next]_vars => OnceInv'
<1> SUFFICES ASSUME OnceInv, [Next]_vars PROVE OnceInv'
  OBVIOUS
<1>0. TypeOK' BY TypeStep DEF OnceInv
<1>1. CASE UNCHANGED vars
  <2>1. Recorded' = Recorded /\ Cargo' = Cargo
    BY <1>1, CargoKept DEF vars, room, Recorded
  <2> QED BY <1>0, <1>1, <2>1, Shrinks DEF vars, server, history
<1>2. ASSUME NEW u \in Uploads, Arrives(u) \/ Decides(u) \/ Fails(u) PROVE OnceInv'
  BY <1>0, <1>2, TakeOnce, FailsOnce, HoldsOnce, ConductOnce DEF Arrives, Decides, Fails
<1>3. CASE Next
  BY <1>0, <1>2, <1>3, RoomOnce, SayOnce, SendsOnce, ReceivesOnce, ExpireOnce
  DEF Next
<1> QED BY <1>1, <1>3

(* However uploads, reloads, typed turns and failures interleave, nothing  *)
(* said reaches the conductor twice but the first chunk of a recording     *)
(* that was flushed and survived (pending-turn.ts takePendingTurn).        *)
THEOREM NothingHeardTwice == Spec => []HeardOnce
<1>1. Spec => []OnceInv BY OnceInit, OnceStep, PTL DEF Spec
<1>2. OnceInv => HeardOnce BY DEF OnceInv
<1> QED BY <1>1, <1>2, PTL
-----------------------------------------------------------------------------
(* Nothing said goes missing while one request is in flight at a time.     *)

(* Where a word is still to be found, or why it is gone.                   *)
Accounted(w) ==
    \/ w \in Recorded \/ w \in held.words \/ w \in Conducted \/ w \in excused
    \/ \E u \in Uploads : w \in Cargo[u]

(* A request has a fragment only once it took one.                         *)
TakesLate == \A u \in Uploads : up[u].step \in {"sent", "loaded"} => up[u].prior.words = {}

(* What a request took leaves nothing behind that its hold would overwrite,*)
(* but for what a take that did not reach Redis gave up.                   *)
Alone ==
    /\ \A u, v \in InFlight : u = v
    /\ \A u \in Uploads : up[u].step = "taken" => held.words \subseteq excused
    /\ \A w \in 1..spoken : Accounted(w)

KeptInv == TypeOK /\ TakesLate /\ (~overlapped => Alone)

(* A step of the room alone: what it records no more is named as lost.     *)
LEMMA RoomKeeps ==
    ASSUME KeptInv, TypeOK', UNCHANGED <<up, overlapped, turns, spoken>>,
           held' = held \/ (held'.words = {} /\ held.words \subseteq excused'),
           excused \subseteq excused',
           Recorded \subseteq Recorded' \cup excused'
    PROVE  KeptInv'
<1>1. Cargo' = Cargo /\ Conducted' = Conducted BY CargoKept DEF Conducted
<1>2. TakesLate' BY DEF KeptInv, TakesLate
<1>3. ASSUME Alone PROVE Alone'
  <2>1. \A u, v \in InFlight' : u = v BY <1>3 DEF Alone, InFlight
  <2>2. \A u \in Uploads : up'[u].step = "taken" => held'.words \subseteq excused'
    BY <1>3 DEF Alone
  <2>3. ASSUME NEW w \in 1..spoken, Accounted(w) PROVE Accounted(w)'
    BY <1>1, <2>3 DEF Accounted
  <2>4. (\A w \in 1..spoken : Accounted(w))' BY <2>3, <1>3 DEF Alone
  <2> QED BY <2>1, <2>2, <2>4 DEF Alone
<1> QED BY <1>2, <1>3 DEF KeptInv

LEMMA RoomStepKeeps ==
    ASSUME KeptInv, TypeOK', SpeakLines \/ StartRecording \/ Noise \/ Retry \/ Expire
    PROVE  KeptInv'
<1>1. CASE SpeakLines \/ StartRecording \/ Retry
  BY <1>1, RoomKeeps DEF SpeakLines, StartRecording, Retry, Discard, server
<1>2. CASE Noise
  <2>1. Recorded' = Recorded BY <1>2 DEF Noise, Recorded, KeptInv, TypeOK, Mics
  <2> QED BY <1>2, <2>1, RoomKeeps DEF Noise, server, history
<1>3. CASE Expire
  <2>1. Recorded' = Recorded BY <1>3 DEF Expire, room, Recorded
  <2> QED BY <1>3, <2>1, RoomKeeps, Constants DEF Expire
<1> QED BY <1>1, <1>2, <1>3

LEMMA SayKeeps ==
    ASSUME KeptInv, TypeOK', Say
    PROVE  KeptInv'
<1>1. Recorded' = Recorded \cup {spoken + 1} BY SayRecords DEF KeptInv
<1>2. /\ UNCHANGED <<up, overlapped, held, turns, excused>> /\ spoken' = spoken + 1
      /\ Cargo' = Cargo /\ Conducted' = Conducted
  BY CargoKept DEF Say, server, history, Conducted
<1>3. TakesLate' BY <1>2 DEF KeptInv, TakesLate
<1>4. ASSUME Alone PROVE Alone'
  <2>1. \A u, v \in InFlight' : u = v BY <1>2, <1>4 DEF Alone, InFlight
  <2>2. \A u \in Uploads : up'[u].step = "taken" => held'.words \subseteq excused'
    BY <1>2, <1>4 DEF Alone
  <2>3. ASSUME NEW w \in 1..spoken PROVE Accounted(w)'
    BY <1>1, <1>2, <1>4 DEF Accounted, Alone
  <2>4. ASSUME NEW w, w = spoken + 1 PROVE Accounted(w)'
    BY <1>1, <2>4 DEF Accounted
  <2>5. \A w \in 1..(spoken + 1) : w \in 1..spoken \/ w = spoken + 1
    BY DEF KeptInv, TypeOK
  <2>6. (\A w \in 1..spoken : Accounted(w))'
    BY <1>2, <2>3, <2>4, <2>5
  <2> QED BY <2>1, <2>2, <2>6 DEF Alone
<1> QED BY <1>2, <1>3, <1>4 DEF KeptInv

(* A request leaves with what was recorded, or with nothing of it; nobody  *)
(* else is in flight unless the step says so.                              *)
LEMMA SendKeeps ==
    ASSUME KeptInv, TypeOK', NEW u \in Uploads, NEW kind, NEW words, NEW waits,
           Send(u, kind, words, waits),
           UNCHANGED <<held, turns, spoken>>, excused \subseteq excused',
           Recorded \subseteq Recorded' \cup words \cup excused'
    PROVE  KeptInv'
<1> USE DEF KeptInv
<1>1. /\ Cargo[u] = {} /\ Cargo'[u] = words
      /\ \A v \in Uploads \ {u} : Cargo'[v] = Cargo[v]
  BY SendLoads
<1>2. /\ up'[u].step = "sent" /\ up'[u].prior.words = {}
      /\ \A v \in Uploads \ {u} : up'[v] = up[v]
  BY Constants DEF Send, TypeOK, NoUpload
<1>3. TakesLate' BY <1>2 DEF TakesLate
<1>4. ASSUME ~overlapped' PROVE Alone'
  <2>1. ~overlapped /\ InFlight = {} BY <1>4 DEF Send
  <2>2. \A v \in Uploads : v # u => up'[v].step = "free" BY <1>2, <2>1 DEF InFlight
  <2>3. \A v, w \in InFlight' : v = w BY <2>2 DEF InFlight
  <2>4. \A v \in Uploads : up'[v].step # "taken" BY <1>2, <2>2
  <2>5. Conducted' = Conducted BY DEF Conducted
  <2>6. \A v \in Uploads : Cargo[v] \subseteq Cargo'[v] BY <1>1
  <2>7. u \in Uploads /\ words \subseteq Cargo'[u] BY <1>1
  <2>8. ASSUME NEW w \in 1..spoken, Accounted(w) PROVE Accounted(w)'
    BY <2>5, <2>6, <2>7, <2>8 DEF Accounted
  <2>9. (\A w \in 1..spoken : Accounted(w))' BY <2>8, <2>1 DEF Alone
  <2> QED BY <2>3, <2>4, <2>9 DEF Alone
<1> QED BY <1>3, <1>4

LEMMA SendsKeep ==
    ASSUME KeptInv, TypeOK', NEW u \in Uploads, Sends(u)
    PROVE  KeptInv'
<1>1. CASE Probe(u) BY <1>1, SendKeeps DEF Probe, server
<1>2. CASE Stop(u) BY <1>2, SendKeeps DEF Stop, server
<1>3. CASE SilenceClock(u) BY <1>3, SendKeeps DEF SilenceClock, Discard, server
<1>4. CASE Flush(u)
  <2>1. PICK dropped, delivered \in 0..spoken :
          /\ Send(u, "beacon",
                  mic.first \cup {w \in mic.rest : dropped < w /\ w <= delivered},
                  FALSE)
          /\ mic' = [mic EXCEPT !.rest = {w \in mic.rest : delivered < w},
                                !.flushed = TRUE]
          /\ excused' = excused \cup {w \in mic.rest : w <= dropped}
    BY <1>4 DEF Flush
  <2> DEFINE tail == {w \in mic.rest : dropped < w /\ w <= delivered}
  <2>2. Recorded' = mic.first \cup {w \in mic.rest : delivered < w}
    BY <2>1 DEF Recorded, KeptInv, TypeOK, Mics
  <2>3. \A w \in mic.rest : w <= dropped \/ (dropped < w /\ w <= delivered) \/ delivered < w
    BY DEF KeptInv, TypeOK, Mics, Words
  <2>4. Recorded \subseteq Recorded' \cup (mic.first \cup tail) \cup excused'
    BY <2>1, <2>2, <2>3 DEF Recorded
  <2>5. Send(u, "beacon", mic.first \cup tail, FALSE) /\ excused \subseteq excused'
    BY <2>1
  <2> HIDE DEF tail
  <2> QED BY <1>4, <2>4, <2>5, SendKeeps DEF Flush, server
<1>5. CASE Type(u)
  <2>1. Recorded' = Recorded BY <1>5 DEF Type, room, Recorded
  <2> QED BY <1>5, <2>1, SendKeeps DEF Type, server
<1> QED BY <1>1, <1>2, <1>3, <1>4, <1>5 DEF Sends

(* A step of one request: the others, if any, are none.                    *)
LEMMA RequestKeeps ==
    ASSUME KeptInv, TypeOK', NEW u \in Uploads, up[u].step # "free",
           \A v \in Uploads \ {u} : up'[v] = up[v],
           overlapped' = overlapped, spoken' = spoken,
           up'[u].step \in {"sent", "loaded"} => up'[u].prior.words = {},
           up'[u].step = "taken" => held'.words \subseteq excused'
                                    \/ (up[u].step = "taken" /\ UNCHANGED held),
           excused \subseteq excused', Conducted \subseteq Conducted',
           Recorded \subseteq Recorded' \cup excused',
           Cargo[u] \subseteq Cargo'[u] \cup held'.words \cup Conducted' \cup excused',
           \/ held.words \subseteq held'.words \cup Cargo'[u] \cup excused'
           \/ up[u].step = "taken"
    PROVE  KeptInv'
<1> USE DEF KeptInv
<1>1. TakesLate' BY DEF TakesLate
<1>2. ASSUME Alone PROVE Alone'
  <2>1. \A v \in Uploads : v # u => up'[v].step = "free" BY <1>2 DEF Alone, InFlight
  <2>2. \A v, w \in InFlight' : v = w BY <2>1 DEF InFlight
  <2>3. \A v \in Uploads : up'[v].step = "taken" => held'.words \subseteq excused'
    BY <1>2, <2>1 DEF Alone
  <2>4. \A v \in Uploads \ {u} : Cargo'[v] = Cargo[v] BY DEF Cargo
  <2>5. held.words \subseteq held'.words \cup Cargo'[u] \cup excused' BY <1>2 DEF Alone
  <2>6. ASSUME NEW w \in 1..spoken, Accounted(w) PROVE Accounted(w)'
    BY <2>4, <2>5, <2>6 DEF Accounted
  <2>7. (\A w \in 1..spoken : Accounted(w))' BY <2>6, <1>2 DEF Alone
  <2> QED BY <2>2, <2>3, <2>7 DEF Alone
<1> QED BY <1>1, <1>2

(* A request that is answered has given its words to somebody, or they are *)
(* named as lost.                                                          *)
LEMMA ReplyKeeps ==
    ASSUME KeptInv, TypeOK', NEW u \in Uploads, NEW answer \in Answers,
           up[u].step \in Live, Reply(u, answer),
           up[u].step = "taken" \/ held' = held,
           overlapped' = overlapped, spoken' = spoken, Recorded' = Recorded,
           excused \subseteq excused', Conducted \subseteq Conducted',
           Cargo[u] \subseteq held'.words \cup Conducted' \cup excused'
    PROVE  KeptInv'
<1>1. \A v \in Uploads \ {u} : up'[v] = up[v] BY DEF Reply, KeptInv, TypeOK
<1>2. up'[u].step \notin Live
  BY Constants, UploadType DEF Reply, KeptInv, TypeOK, Live, Answers, Requests
<1>3. up[u].step # "free" /\ up'[u].step \notin {"sent", "loaded", "taken"} BY <1>2 DEF Live
<1> QED BY <1>1, <1>3, RequestKeeps

LEMMA ReceivesKeep ==
    ASSUME KeptInv, TypeOK', NEW u \in Uploads, Receives(u)
    PROVE  KeptInv'
<1>1. /\ up' = [up EXCEPT ![u] = NoUpload] /\ up[u].step \in Answers
      /\ UNCHANGED <<held, turns, overlapped, spoken>>
  BY DEF Receives, ReceiveHeld, ReceiveTold, ReceiveFailed, Answers, server, history
<1>2. up'[u] = NoUpload /\ \A v \in Uploads \ {u} : up'[v] = up[v]
  BY <1>1 DEF KeptInv, TypeOK
<1>3. up'[u].step = "free" BY <1>2, Constants
<1>4. Cargo[u] = {} /\ up[u].step # "free" BY <1>1 DEF Cargo, Live, Answers
<1>5. Conducted' = Conducted BY <1>1 DEF Conducted
<1>6. excused \subseteq excused' /\ Recorded \subseteq Recorded' \cup excused'
  BY DEF Receives, ReceiveHeld, ReceiveTold, ReceiveFailed, Discard, Recorded, history
<1> QED BY <1>1, <1>2, <1>3, <1>4, <1>5, <1>6, RequestKeeps

LEMMA ArrivesKeep ==
    ASSUME KeptInv, TypeOK', NEW u \in Uploads,
           Load(u) \/ TakePendingTurn(u) \/ TakeUnavailable(u) \/ Mishear(u)
    PROVE  KeptInv'
<1> USE DEF KeptInv
<1>0. /\ up[u] \in Requests /\ up \in [Uploads -> Requests]
      /\ up[u].step \in {"sent", "loaded"} => up[u].prior.words = {}
  BY UploadType DEF TypeOK, TakesLate
<1>1. /\ \A v \in Uploads \ {u} : up'[v] = up[v]
      /\ UNCHANGED <<turns, overlapped, spoken>> /\ Recorded' = Recorded
      /\ excused \subseteq excused'
  BY <1>0 DEF Load, TakePendingTurn, TakeUnavailable, Mishear, server, room, history, Recorded
<1>2. Conducted' = Conducted BY <1>1 DEF Conducted
<1>3. CASE Load(u)
  <2>1. up'[u] = [up[u] EXCEPT !.step = "loaded", !.asked = question] BY <1>0, <1>3 DEF Load
  <2>2. /\ up'[u].step = "loaded" /\ up'[u].words = up[u].words /\ up'[u].prior = up[u].prior
        /\ up[u].step = "sent" /\ held' = held
    BY <1>0, <1>3, <2>1 DEF Load, Requests
  <2>3. Cargo'[u] = Cargo[u] BY <2>2 DEF Cargo, Live
  <2> QED BY <1>0, <1>1, <1>2, <2>2, <2>3, RequestKeeps
<1>4. CASE TakePendingTurn(u)
  <2> DEFINE taken == IF Joins(u) THEN held ELSE NothingHeld
  <2>1. up'[u] = [up[u] EXCEPT !.step = "taken", !.prior = taken] BY <1>0, <1>4 DEF TakePendingTurn
  <2>2. /\ up'[u].step = "taken" /\ up'[u].words = up[u].words /\ up'[u].prior = taken
        /\ up[u].step = "loaded" /\ held'.words = {}
    BY <1>0, <1>4, <2>1, Constants DEF TakePendingTurn, Requests, Removed
  <2>3. Cargo[u] = up[u].words /\ Cargo'[u] = up[u].words \cup taken.words
    BY <1>0, <2>2 DEF Cargo, Live
  <2>4. held.words \subseteq taken.words \cup excused' BY <1>4 DEF TakePendingTurn
  <2> HIDE DEF taken
  <2> QED BY <1>1, <1>2, <2>2, <2>3, <2>4, RequestKeeps
<1>5. CASE TakeUnavailable(u)
  <2>1. up'[u] = [up[u] EXCEPT !.step = "taken"] BY <1>0, <1>5 DEF TakeUnavailable
  <2>2. /\ up'[u].step = "taken" /\ up'[u].words = up[u].words /\ up'[u].prior = up[u].prior
        /\ up[u].step = "loaded"
    BY <1>0, <1>5, <2>1 DEF TakeUnavailable, Requests
  <2>3. Cargo'[u] = Cargo[u] BY <2>2 DEF Cargo, Live
  <2>4. held.words \subseteq excused' /\ held'.words \subseteq excused'
    BY <1>5, Constants DEF TakeUnavailable
  <2> QED BY <1>1, <1>2, <2>2, <2>3, <2>4, RequestKeeps
<1>6. CASE Mishear(u)
  <2>1. up'[u] = [up[u] EXCEPT !.words = {}] BY <1>0, <1>6 DEF Mishear
  <2>2. /\ up'[u].step = "taken" /\ up'[u].words = {} /\ up'[u].prior = up[u].prior
        /\ up[u].step = "taken" /\ held' = held /\ up[u].words \subseteq excused'
    BY <1>0, <1>6, <2>1 DEF Mishear, Requests, server
  <2>3. Cargo[u] = up[u].words \cup up[u].prior.words /\ Cargo'[u] = up[u].prior.words
    BY <2>2 DEF Cargo, Live
  <2> QED BY <1>1, <1>2, <2>2, <2>3, RequestKeeps
<1> QED BY <1>3, <1>4, <1>5, <1>6

LEMMA AnswersKeep ==
    ASSUME KeptInv, TypeOK', NEW u \in Uploads,
           \/ Decides(u) \/ FailTranscription(u) \/ RefuseTurn(u) \/ FailConduct(u)
    PROVE  KeptInv'
<1> USE DEF KeptInv
<1>0. /\ up[u].step \in Live /\ (up[u].step = "taken" \/ held' = held)
      /\ Cargo[u] = Utterance(u)
      /\ UNCHANGED <<overlapped, spoken>> /\ Recorded' = Recorded
  BY DEF Decides, RefuseBlank, Rehold, Hold, Conduct, FailConduct, WriteTurn, FailTranscription,
         RefuseTurn, Cargo, Live, Utterance, server, room, history, Recorded
<1>1. "held" \in Answers /\ "told" \in Answers /\ "failed" \in Answers /\ "refused" \in Answers
  BY DEF Answers
<1>2. turns' = turns => Conducted' = Conducted BY DEF Conducted
<1>3. CASE FailTranscription(u) \/ RefuseTurn(u)
  <2>1. Reply(u, "failed") \/ Reply(u, "refused")
    BY <1>3 DEF FailTranscription, RefuseTurn, ReplyFailure
  <2>2. turns' = turns /\ excused' = excused \cup Utterance(u)
    BY <1>3 DEF FailTranscription, RefuseTurn, server
  <2> QED BY <1>0, <1>1, <1>2, <2>1, <2>2, ReplyKeeps
<1>4. CASE RefuseBlank(u)
  BY <1>0, <1>1, <1>2, <1>4, ReplyKeeps DEF RefuseBlank, server, history, Utterance
<1>5. ASSUME NEW f \in Fragments, HoldPendingTurn(u, f), f.words = Utterance(u),
             Reply(u, "held"), turns' = turns
      PROVE  KeptInv'
  <2>1. excused \subseteq excused' /\ Utterance(u) \subseteq held'.words \cup excused'
    BY <1>5 DEF HoldPendingTurn
  <2> QED BY <1>0, <1>1, <1>2, <1>5, <2>1, ReplyKeeps
<1>6. CASE Rehold(u)
  <2>1. up[u].prior \in Fragments /\ up[u].prior.words = Utterance(u)
    BY <1>6, UploadType DEF Rehold, Utterance
  <2> QED BY <1>5, <1>6, <2>1 DEF Rehold, Unchanged
<1>7. CASE Hold(u)
  <2> DEFINE f == Fragment(Utterance(u), up[u].asked, up[u].prior.probes + 1)
  <2>1. up[u].prior.probes + 1 \in 0..MaxProbes BY <1>7, UploadType DEF Hold, Gated
  <2>2. f \in Fragments /\ f.words = Utterance(u)
    BY <2>1, UploadType, FragmentType DEF Fragment
  <2>3. HoldPendingTurn(u, f) /\ Reply(u, "held") /\ turns' = turns BY <1>7 DEF Hold
  <2> HIDE DEF f
  <2> QED BY <1>5, <2>2, <2>3
<1>8. CASE Conduct(u) \/ FailConduct(u)
  <2>1. /\ Reply(u, "told") \/ Reply(u, "failed") \/ Reply(u, "refused")
        /\ WriteTurn(u) /\ excused' = excused
    BY <1>8 DEF Conduct, FailConduct, ReplyFailure, history
  <2>2. Conducted \subseteq Conducted' /\ Utterance(u) \subseteq Conducted'
    <3>1. CASE Utterance(u) = {} BY <1>2, <2>1, <3>1 DEF WriteTurn
    <3>2. CASE Utterance(u) # {}
      <4>1. turns' = Append(turns, Utterance(u)) BY <2>1, <3>2 DEF WriteTurn
      <4> QED BY <4>1, UploadType, Appended
    <3> QED BY <3>1, <3>2
  <2> QED BY <1>0, <1>1, <2>1, <2>2, ReplyKeeps
<1> QED BY <1>3, <1>4, <1>6, <1>7, <1>8 DEF Decides

(* The page goes: what was on its way from it is named as lost.            *)
LEMMA ReloadKeeps ==
    ASSUME KeptInv, TypeOK', Reload
    PROVE  KeptInv'
<1> USE DEF KeptInv
<1>1. PICK cut \in SUBSET {u \in Uploads : up[u].step = "sent" /\ up[u].awaited} :
        /\ up' = [u \in Uploads |->
                    IF up[u].step \in Answers \/ u \in cut THEN NoUpload
                    ELSE [up[u] EXCEPT !.awaited = FALSE]]
        /\ excused' = excused \cup Recorded \cup UNION {up[u].words : u \in cut}
  BY DEF Reload
<1>2. UNCHANGED <<held, turns, overlapped, spoken>> /\ Conducted' = Conducted
  BY DEF Reload, server, Conducted
<1>3. ASSUME NEW u \in Uploads
      PROVE  \/ up'[u] = NoUpload /\ Cargo[u] \subseteq excused'
             \/ /\ up'[u].step = up[u].step /\ up'[u].words = up[u].words
                /\ up'[u].prior = up[u].prior
  <2>1. up[u] \in Requests BY UploadType
  <2>2. CASE up[u].step \in Answers BY <1>1, <2>2 DEF Cargo, Live, Answers
  <2>3. CASE u \in cut
    <3>1. up[u].step = "sent" /\ up[u].prior.words = {} BY <2>3 DEF TakesLate
    <3> QED BY <1>1, <2>3, <3>1 DEF Cargo
  <2>4. CASE up[u].step \notin Answers /\ u \notin cut
    <3>1. up'[u] = [up[u] EXCEPT !.awaited = FALSE] BY <1>1, <2>4
    <3> QED BY <2>1, <3>1 DEF Requests
  <2> QED BY <2>2, <2>3, <2>4
<1>4. TakesLate' BY <1>3, Constants DEF TakesLate
<1>5. ASSUME Alone PROVE Alone'
  <2>1. \A u \in Uploads : up'[u].step \in {"free", up[u].step} BY <1>3, Constants
  <2>2. \A u, v \in InFlight' : u = v BY <1>5, <2>1 DEF Alone, InFlight
  <2>3. \A u \in Uploads : up'[u].step = "taken" => held'.words \subseteq excused'
    BY <1>1, <1>2, <1>5, <2>1 DEF Alone
  <2>4. \A u \in Uploads : Cargo[u] \subseteq Cargo'[u] \cup excused' BY <1>3 DEF Cargo
  <2>5. ASSUME NEW w \in 1..spoken, Accounted(w) PROVE Accounted(w)'
    BY <1>1, <1>2, <2>4, <2>5 DEF Accounted
  <2>6. (\A w \in 1..spoken : Accounted(w))' BY <2>5, <1>2, <1>5 DEF Alone
  <2> QED BY <2>2, <2>3, <2>6 DEF Alone
<1> QED BY <1>2, <1>4, <1>5

LEMMA KeptStep == KeptInv /\ [Next]_vars => KeptInv'
<1> SUFFICES ASSUME KeptInv, [Next]_vars PROVE KeptInv'
  OBVIOUS
<1>0. TypeOK' BY TypeStep DEF KeptInv
<1>1. CASE UNCHANGED vars
  <2>1. Recorded' = Recorded BY <1>1 DEF vars, room, Recorded
  <2> QED BY <1>0, <1>1, <2>1, RoomKeeps DEF vars, server, history
<1>2. ASSUME NEW u \in Uploads, Sends(u) \/ Arrives(u) \/ Decides(u) \/ Fails(u) \/ Receives(u)
      PROVE  KeptInv'
  BY <1>0, <1>2, SendsKeep, ArrivesKeep, AnswersKeep, ReceivesKeep DEF Arrives, Fails
<1>3. CASE Next
  BY <1>0, <1>2, <1>3, RoomStepKeeps, SayKeeps, ReloadKeeps DEF Next
<1> QED BY <1>1, <1>3

(* While one request is in flight at a time, every word the candidate said *)
(* is in the recorder, on its way, held or conducted, unless one of these  *)
(* took it: a recorder that was dropped, a transcription or a request that *)
(* failed, Redis, a fragment that expired or no longer joined, a page and  *)
(* what its beacon could not carry.  Pauses, blank recordings over a       *)
(* fragment, the cap on probes, Stop and silence alone lose nothing,       *)
(* however long the turn and however often it is held.                     *)
THEOREM NothingGoesMissing == Spec => []WordsKept
<1>1. Init => KeptInv
  <2> SUFFICES ASSUME Init PROVE KeptInv OBVIOUS
  <2>1. \A u \in Uploads : up[u].step = "free" BY Constants DEF Init
  <2>2. 1..spoken = {} BY DEF Init
  <2> QED BY <2>1, <2>2, TypeInit DEF KeptInv, TakesLate, Alone, InFlight
<1>2. KeptInv => WordsKept
  <2> SUFFICES ASSUME KeptInv, ~overlapped
               PROVE  1..spoken \subseteq Recorded \cup Travelling \cup HeldWords \cup Conducted
                                          \cup excused
    BY DEF WordsKept
  <2>1. \A u \in Uploads : Cargo[u] \subseteq Travelling
    BY DEF Cargo, Live, Travelling, Answers
  <2>2. ASSUME NEW w \in 1..spoken, Accounted(w)
        PROVE  w \in Recorded \cup Travelling \cup HeldWords \cup Conducted \cup excused
    BY <2>1, <2>2 DEF Accounted, HeldWords
  <2> QED BY <2>2 DEF KeptInv, Alone
<1> QED BY <1>1, <1>2, KeptStep, PTL DEF Spec
=============================================================================
