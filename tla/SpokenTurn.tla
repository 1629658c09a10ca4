----------------------------- MODULE SpokenTurn -----------------------------
(***************************************************************************)
(* One spoken turn, from the microphone to the conductor.  The room's      *)
(* recording loop (use-voice-session.ts) uploads what it recorded at every *)
(* pause and goes on recording; the server (stt.ts, pending-turn.ts) joins *)
(* each upload to the fragment it holds and either holds the lot again or  *)
(* gives it to the conductor.  Uploads overlap, and the page may go.       *)
(* Words are numbered in the order they are spoken.                        *)
(***************************************************************************)
EXTENDS Integers, Sequences

CONSTANTS MaxUploads,    \* bounds the requests in flight
          MaxProbes,     \* MAX_PROBES_PER_TURN
          MaxWords,      \* bounds what the candidate says
          MaxQuestions,  \* bounds the index
          Upsets,        \* of UpsetKinds
          MaxUpsets      \* bounds the upsets of a behaviour

UpsetKinds == { "noise",   \* the VAD hears what is no word
                "stt",     \* a transcription fails or comes back blank
               "refusal", \* a request fails: on its way, at the guards,
                          \* or in the conductor
                "redis",   \* a take or a hold does not reach Redis
               "expiry",  \* what is held waits longer than its TTL
                "typed",   \* the turn is typed in another tab
                "unload" } \* pagehide, with or without the page's death

ASSUME SpokenAssumption ==
    /\ MaxUploads \in Nat /\ MaxProbes \in Nat \ {0}
    /\ MaxWords \in Nat /\ MaxQuestions \in Nat \ {0}
    /\ Upsets \subseteq UpsetKinds /\ MaxUpsets \in Nat

Uploads == 1..MaxUploads
Words == 1..MaxWords
Questions == 1..MaxQuestions

VARIABLES question,   \* interviews.current_index
          held,       \* the Redis value
          turns,      \* what the conductor was given, turn by turn
          up,         \* the requests in flight
          phase,      \* the room's phase
          playing,    \* the interviewer's lines are being spoken
          fresh,      \* there are assistant lines the room has not begun
          mic,        \* the open recorder
          uploading,  \* uploadingRef
          spoken,     \* how many words were spoken
          upsets,
          (* history, for the properties: *)
          against,    \* the question each word was first uploaded for
          excused,    \* words a named loss explains
          riding,     \* words left in the first chunk after a flush
          overlapped, \* two requests were in flight at once
          blanked     \* a Stop over silence found a fragment held

server == <<question, held, turns, against>>
room == <<phase, playing, mic, uploading>>
history == <<excused, riding, overlapped, blanked>>
vars == <<server, up, room, fresh, spoken, upsets, history>>

Kinds == {"probe", "final", "beacon", "silence", "typed"}
Audio == {"probe", "final", "beacon"}
Answers == {"held", "told", "failed", "refused"}

Fragment(words, on, probes) == [words |-> words, question |-> on, probes |-> probes]
NothingHeld == Fragment({}, 0, 0)

(* What is in the first chunk, and in the chunks after it.                 *)
Closed == [open |-> FALSE, first |-> {}, rest |-> {}, heard |-> FALSE,
           flushed |-> FALSE]
Opened == [Closed EXCEPT !.open = TRUE]
Recorded == mic.first \cup mic.rest

NoUpload == [kind |-> "none", step |-> "free", words |-> {}, asked |-> 0,
             prior |-> NothingHeld, awaited |-> FALSE]

Init ==
    /\ question = 1 /\ held = NothingHeld /\ turns = <<>>
    /\ up = [u \in Uploads |-> NoUpload]
    /\ phase = "idle" /\ playing = FALSE /\ fresh = TRUE /\ mic = Closed
    /\ uploading = FALSE /\ spoken = 0 /\ upsets = 0
    /\ against = [w \in Words |-> 0]
    /\ excused = {} /\ riding = {} /\ overlapped = FALSE /\ blanked = FALSE

Upset(k) == k \in Upsets /\ upsets < MaxUpsets /\ upsets' = upsets + 1
Calm == upsets' = upsets
-----------------------------------------------------------------------------
(* The room.                                                               *)

InFlight == {u \in Uploads : up[u].step # "free"}

(* The slots stand for nothing in the code: the first free one is taken.   *)
Send(u, kind, words, awaited) ==
    /\ up[u].step = "free" /\ \A v \in 1..(u - 1) : up[v].step # "free"
    /\ up' = [up EXCEPT ![u] = [NoUpload EXCEPT !.kind = kind, !.step = "sent",
                                  !.words = words, !.awaited = awaited]]
    /\ overlapped' = (overlapped \/ InFlight # {})

(* discardRecorder, and what it had recorded.                              *)
Discard == excused' = excused \cup Recorded

(* The line playing is cancelled by a newer one; the recorder is dropped.  *)
SpeakLines ==
    /\ fresh /\ fresh' = FALSE
    /\ Discard /\ mic' = Closed
    /\ phase' = "speaking" /\ playing' = TRUE
    /\ UNCHANGED <<server, up, uploading, spoken, upsets, riding, overlapped,
                   blanked>>

(* The last line was heard to its end.  A reply overtakes the lines its    *)
(* turn wrote, which take seconds to play.                                 *)
StartRecording ==
    /\ playing /\ ~fresh
    /\ \A u \in Uploads : up[u].awaited => up[u].step # "told"
    /\ Discard /\ mic' = Opened
    /\ phase' = "listening" /\ playing' = FALSE
    /\ UNCHANGED <<server, up, uploading, fresh, spoken, upsets, riding,
                   overlapped, blanked>>

(* ondataavailable: a word falls in the first chunk (CHUNK_MS) or after it. *)
Say ==
    /\ phase = "listening" /\ mic.open /\ spoken < MaxWords
    /\ spoken' = spoken + 1
    /\ \/ /\ mic.rest = {} /\ ~mic.flushed
          /\ mic' = [mic EXCEPT !.first = @ \cup {spoken + 1}, !.heard = TRUE]
       \/ mic' = [mic EXCEPT !.rest = @ \cup {spoken + 1}, !.heard = TRUE]
    /\ UNCHANGED <<server, up, phase, playing, uploading, fresh, upsets, history>>

Noise ==
    /\ phase = "listening" /\ mic.open /\ ~mic.heard /\ Upset("noise")
    /\ mic' = [mic EXCEPT !.heard = TRUE]
    /\ UNCHANGED <<server, up, phase, playing, uploading, fresh, spoken, history>>

(* The VAD's window: a probe is uploaded, the next recorder is open before *)
(* it leaves, whether or not an earlier one is still on its way.           *)
Probe(u) ==
    /\ phase = "listening" /\ mic.open /\ mic.heard
    /\ Send(u, "probe", Recorded, TRUE)
    /\ mic' = Opened /\ uploading' = TRUE
    /\ UNCHANGED <<server, phase, playing, fresh, spoken, upsets, excused, riding,
                   blanked>>

(* The candidate's Stop; a microphone that is lost does the same.          *)
Stop(u) ==
    /\ phase = "listening" /\ mic.open
    /\ Send(u, "final", Recorded, TRUE)
    /\ mic' = Closed /\ uploading' = TRUE /\ phase' = "uploading"
    /\ UNCHANGED <<server, playing, fresh, spoken, upsets, excused, riding, blanked>>

(* FORCE_SUBMIT_MS or FLUSH_HELD_MS without a sound.  A turn that was      *)
(* spoken into is probed first: its window is the shorter.                 *)
SilenceClock(u) ==
    /\ phase = "listening" /\ ~mic.heard /\ ~uploading
    /\ Send(u, "silence", {}, TRUE)
    /\ Discard /\ mic' = Closed /\ uploading' = TRUE /\ phase' = "uploading"
    /\ UNCHANGED <<server, playing, fresh, spoken, upsets, riding, blanked>>

(* pagehide: a beacon takes the first chunk, which has the header, and of  *)
(* the others the newest that fit BEACON_MAX_BYTES.  The older ones are    *)
(* dropped: that is what the cap costs.  The chunk the recorder is still   *)
(* filling is not among them, and stays if the page does.                  *)
Flush(u) ==
    /\ phase = "listening" /\ mic.open /\ ~mic.flushed
    /\ Upset("unload")
    /\ \E dropped, delivered \in 0..spoken :
          /\ dropped <= delivered
          /\ Send(u, "beacon",
                  mic.first \cup {w \in mic.rest : dropped < w /\ w <= delivered},
                  FALSE)
          /\ mic' = [mic EXCEPT !.rest = {w \in mic.rest : delivered < w},
                                !.flushed = TRUE]
          /\ excused' = excused \cup {w \in mic.rest : w <= dropped}
    /\ riding' = riding \cup mic.first
    /\ UNCHANGED <<server, phase, playing, uploading, fresh, spoken, blanked>>

(* The page goes and comes back: an upload that has not arrived may go     *)
(* with it, nobody waits for the others, and the lines of the present      *)
(* prompt are spoken again.  A page that dies of the pagehide it flushed   *)
(* at is one upset.                                                        *)
Reload ==
    /\ Upset("unload") \/ (mic.flushed /\ Calm)
    /\ \E cut \in SUBSET {u \in Uploads : up[u].step = "sent" /\ up[u].awaited} :
          /\ up' = [u \in Uploads |->
                      IF up[u].step \in Answers \/ u \in cut THEN NoUpload
                      ELSE [up[u] EXCEPT !.awaited = FALSE]]
          /\ excused' = excused \cup Recorded \cup UNION {up[u].words : u \in cut}
    /\ mic' = Closed /\ phase' = "idle" /\ playing' = FALSE
    /\ uploading' = FALSE /\ fresh' = TRUE
    /\ UNCHANGED <<server, spoken, riding, overlapped, blanked>>

(* The other tab's typed turn.                                             *)
Type(u) ==
    /\ Upset("typed") /\ Send(u, "typed", {}, FALSE)
    /\ UNCHANGED <<server, room, fresh, spoken, excused, riding, blanked>>

(* Mutant: only a conducted turn clears uploadingRef.                      *)
StillUploading == uploading

NoLonger == FALSE

(* Still the candidate's turn: nothing changes, the phase either.          *)
ReceiveHeld(u) ==
    /\ up[u].step = "held"
    /\ up' = [up EXCEPT ![u] = NoUpload] /\ uploading' = NoLonger
    /\ UNCHANGED <<server, phase, playing, mic, fresh, spoken, upsets, history>>

(* Conducted: a recorder opened for a probe is dropped.                    *)
ReceiveTold(u) ==
    /\ up[u].step = "told"
    /\ up' = [up EXCEPT ![u] = NoUpload] /\ uploading' = FALSE
    /\ IF up[u].kind = "silence"
         THEN UNCHANGED <<mic, excused>>
         ELSE Discard /\ mic' = Closed
    /\ phase' = "idle"
    /\ UNCHANGED <<server, playing, fresh, spoken, upsets, riding, overlapped,
                   blanked>>

(* A refusal that means the room is behind the server shows no failure.    *)
(* The silence turn has no recorder of its own to drop.                    *)
ReceiveFailed(u) ==
    /\ up[u].step \in {"failed", "refused"}
    /\ up' = [up EXCEPT ![u] = NoUpload] /\ uploading' = FALSE
    /\ IF up[u].kind = "silence"
         THEN UNCHANGED <<mic, excused>>
         ELSE Discard /\ mic' = Closed
    /\ phase' = IF up[u].step = "refused" THEN "idle" ELSE "failed"
    /\ UNCHANGED <<server, playing, fresh, spoken, upsets, riding, overlapped,
                   blanked>>

Retry ==
    /\ phase = "failed" /\ Discard /\ mic' = Opened /\ phase' = "listening"
    /\ UNCHANGED <<server, up, playing, uploading, fresh, spoken, upsets, riding,
                   overlapped, blanked>>
-----------------------------------------------------------------------------
(* The server.                                                             *)

(* A reply; a request nobody waits for is over.                            *)
Reply(u, answer) ==
    up' = [up EXCEPT ![u] = IF @.awaited THEN [@ EXCEPT !.step = answer]
                            ELSE NoUpload]

(* The interview, as the middleware copied it, and its question.           *)
Load(u) ==
    /\ up[u].step = "sent"
    /\ up' = [up EXCEPT ![u].step = "loaded", ![u].asked = question]
    /\ against' = [w \in Words |-> IF w \in up[u].words /\ against[w] = 0
                                   THEN question ELSE against[w]]
    /\ UNCHANGED <<question, held, turns, room, fresh, spoken, upsets, history>>

(* Mutant: a fragment joins whatever is said next.                         *)
JoinsAnything(u) == up[u].kind # "typed"

(* A fragment of another question is dropped, and so is one that was typed *)
(* past.                                                                   *)
Joins(u) == up[u].kind # "typed" /\ held.question = up[u].asked

(* Mutant: a read that leaves the fragment where it is.                    *)
LeftInPlace == held

(* MULTI: read and deleted in one.                                         *)
Removed == NothingHeld

TakePendingTurn(u) ==
    /\ up[u].step = "loaded"
    /\ up' = [up EXCEPT ![u].step = "taken",
                        ![u].prior = IF Joins(u) THEN held ELSE NothingHeld]
    /\ held' = Removed
    /\ excused' = IF Joins(u) THEN excused ELSE excused \cup held.words
    /\ UNCHANGED <<question, turns, against, room, fresh, spoken, upsets, riding,
                   overlapped, blanked>>

(* PENDING_TURN_UNAVAILABLE: nothing is held, as far as this turn goes.    *)
TakeUnavailable(u) ==
    /\ up[u].step = "loaded" /\ Upset("redis")
    /\ up' = [up EXCEPT ![u].step = "taken"]
    /\ held' \in {held, NothingHeld}
    /\ excused' = excused \cup held.words
    /\ UNCHANGED <<question, turns, against, room, fresh, spoken, riding, overlapped,
                   blanked>>

Utterance(u) == up[u].prior.words \cup up[u].words

(* The codes of failTurn's SILENT (no longer in the round, not this        *)
(* question, no budget left), or any other.                                *)
ReplyFailure(u) == Reply(u, "failed") \/ Reply(u, "refused")

(* The fragment that was taken goes with the transcription that fails, or  *)
(* that the budget refuses.                                                *)
FailTranscription(u) ==
    /\ up[u].step = "taken" /\ up[u].kind \in Audio /\ Upset("stt")
    /\ excused' = excused \cup Utterance(u)
    /\ ReplyFailure(u)
    /\ UNCHANGED <<server, room, fresh, spoken, riding, overlapped, blanked>>

(* A request of any kind fails before its words are written: it does not   *)
(* arrive, the guards turn it away, or the conductor throws (no round, no  *)
(* question, no database).  A fragment it had taken, a silence's too, goes *)
(* with it.                                                                *)
RefuseTurn(u) ==
    /\ up[u].step \in {"sent", "loaded", "taken"} /\ Upset("refusal")
    /\ excused' = excused \cup Utterance(u)
    /\ ReplyFailure(u)
    /\ UNCHANGED <<server, room, fresh, spoken, riding, overlapped, blanked>>

(* It comes back blank.                                                    *)
Mishear(u) ==
    /\ up[u].step = "taken" /\ up[u].kind \in Audio /\ Upset("stt")
    /\ excused' = excused \cup up[u].words
    /\ up' = [up EXCEPT ![u].words = {}]
    /\ UNCHANGED <<server, room, fresh, spoken, riding, overlapped, blanked>>

(* Nothing said and nothing held: there is no utterance to parse.          *)
RefuseBlank(u) ==
    /\ up[u].step = "taken" /\ up[u].kind \in Audio
    /\ up[u].words = {} /\ up[u].prior.words = {}
    /\ Reply(u, "failed")
    /\ UNCHANGED <<server, room, fresh, spoken, upsets, history>>

(* A plain SET: what another request held meanwhile is overwritten.        *)
HoldPendingTurn(u, fragment) ==
    \/ held' = fragment /\ Calm /\ excused' = excused
    \/ held' = held /\ Upset("redis") /\ excused' = excused \cup fragment.words

(* PENDING_TURN_TTL_SECONDS without an upload to hold it again.            *)
Expire ==
    /\ held.words # {} /\ Upset("expiry")
    /\ held' = NothingHeld /\ excused' = excused \cup held.words
    /\ UNCHANGED <<question, turns, against, up, room, fresh, spoken, riding,
                   overlapped, blanked>>

(* Mutant: a blank upload drops what was held.                             *)
HeldBefore(u) == NothingHeld

Unchanged(u) == up[u].prior

(* A blank recording is no verdict: the fragment is held again as it was,  *)
(* and that comes before the question whether the turn was forced.         *)
Rehold(u) ==
    /\ up[u].step = "taken" /\ up[u].kind \in Audio
    /\ up[u].words = {} /\ up[u].prior.words # {}
    /\ HoldPendingTurn(u, Unchanged(u)) /\ Reply(u, "held")
    /\ blanked' = (blanked \/ up[u].kind = "final")
    /\ UNCHANGED <<question, turns, against, room, fresh, spoken, riding, overlapped>>

(* Mutant: only the candidate's Stop is past the gate.                     *)
GatedForever(u) == up[u].kind # "final"

(* Mutant: a Stop is gated like any pause.                                 *)
GatedWhenForced(u) == up[u].prior.probes < MaxProbes

(* Not a Stop, and below the cap.                                          *)
Gated(u) == up[u].kind # "final" /\ up[u].prior.probes < MaxProbes

(* The gate says the candidate is not finished.                            *)
Hold(u) ==
    /\ up[u].step = "taken" /\ up[u].kind \in Audio
    /\ up[u].words # {} /\ Gated(u)
    /\ HoldPendingTurn(u, Fragment(Utterance(u), up[u].asked,
                                   up[u].prior.probes + 1))
    /\ Reply(u, "held")
    /\ UNCHANGED <<question, turns, against, room, fresh, spoken, riding, overlapped,
                   blanked>>

(* conductTurn: the turn is written, and the question this request was     *)
(* loaded with may be left.                                                *)
WriteTurn(u) ==
    /\ up[u].step = "taken"
    /\ up[u].kind \in Audio => up[u].words # {}
    /\ turns' = IF Utterance(u) = {} THEN turns ELSE Append(turns, Utterance(u))
    /\ \/ question' = question
       \/ /\ up[u].asked = question /\ question < MaxQuestions
          /\ question' = question + 1

(* The interviewer answers.                                                *)
Conduct(u) ==
    /\ WriteTurn(u)
    /\ fresh' = TRUE /\ Reply(u, "told")
    /\ UNCHANGED <<held, against, room, spoken, upsets, history>>

(* The interviewer, a line of its answer or a compare-and-set fails after  *)
(* the words were written, or the reply is lost.                           *)
FailConduct(u) ==
    /\ WriteTurn(u) /\ Upset("refusal")
    /\ fresh' \in {fresh, TRUE} /\ ReplyFailure(u)
    /\ UNCHANGED <<held, against, room, spoken, history>>
-----------------------------------------------------------------------------
Arrives(u) == Load(u) \/ TakePendingTurn(u)
Decides(u) == RefuseBlank(u) \/ Rehold(u) \/ Hold(u) \/ Conduct(u)
Fails(u) ==
    \/ TakeUnavailable(u) \/ FailTranscription(u) \/ Mishear(u)
    \/ RefuseTurn(u) \/ FailConduct(u)
Receives(u) == ReceiveHeld(u) \/ ReceiveTold(u) \/ ReceiveFailed(u)
Sends(u) == Probe(u) \/ Stop(u) \/ SilenceClock(u) \/ Flush(u) \/ Type(u)

Next ==
    \/ \E u \in Uploads :
          Sends(u) \/ Arrives(u) \/ Decides(u) \/ Fails(u) \/ Receives(u)
    \/ SpeakLines \/ StartRecording \/ Say \/ Noise \/ Reload \/ Retry
    \/ Expire

Spec == Init /\ [][Next]_vars

(* Requests are answered (every call in them has a timeout), lines are     *)
(* played to their end, and the room's two clocks run.                     *)
Fairness ==
    /\ \A u \in Uploads : WF_vars(Arrives(u) \/ Decides(u) \/ Receives(u))
    /\ WF_vars(SpeakLines \/ StartRecording)
    /\ WF_vars(\E u \in Uploads : Probe(u) \/ SilenceClock(u))

FairSpec == Spec /\ Fairness
-----------------------------------------------------------------------------
Fragments == [words : SUBSET Words, question : 0..MaxQuestions,
              probes : 0..MaxProbes]
Requests == [kind : Kinds \cup {"none"},
             step : {"free", "sent", "loaded", "taken"} \cup Answers,
             words : SUBSET Words, asked : 0..MaxQuestions, prior : Fragments,
             awaited : BOOLEAN]
Mics == [open : BOOLEAN, first : SUBSET Words, rest : SUBSET Words,
         heard : BOOLEAN, flushed : BOOLEAN]

TypeOK ==
    /\ question \in Questions /\ held \in Fragments
    /\ turns \in Seq(SUBSET Words) /\ up \in [Uploads -> Requests]
    /\ phase \in {"idle", "speaking", "listening", "uploading", "failed"}
    /\ playing \in BOOLEAN /\ fresh \in BOOLEAN /\ mic \in Mics
    /\ uploading \in BOOLEAN /\ spoken \in 0..MaxWords
    /\ upsets \in 0..MaxUpsets /\ against \in [Words -> 0..MaxQuestions]
    /\ excused \subseteq Words /\ riding \subseteq Words
    /\ overlapped \in BOOLEAN /\ blanked \in BOOLEAN

(* However uploads overlap, nothing the candidate said reaches the         *)
(* conductor in two turns: takePendingTurn gives a fragment to one of      *)
(* them.  The first second of a recording that was flushed and survived is *)
(* the exception.                                                          *)
HeardOnce ==
    \A i, j \in DOMAIN turns : i # j => turns[i] \cap turns[j] \subseteq riding

(* No turn joins what was said to two questions, although the index moves  *)
(* between an upload's read of it and the take.                            *)
OneQuestion ==
    \A i \in DOMAIN turns : \A v, w \in turns[i] \ riding : against[v] = against[w]

HeldWords == held.words
Travelling ==
    UNION {up[u].words \cup up[u].prior.words :
             u \in {v \in Uploads : up[v].step \notin Answers}}
Conducted == UNION {turns[i] : i \in DOMAIN turns}

(* While one request is in flight at a time, every word the candidate said *)
(* is in the recorder, on its way, held or conducted, unless one of these  *)
(* took it: a recorder that was dropped, a transcription or a request that *)
(* failed, a take or a hold that missed Redis, a fragment that expired,    *)
(* was typed past or belongs to another question, an upload lost with its  *)
(* page, the beacon's cap.  Pauses, blank recordings over a fragment, the  *)
(* cap on probes, Stop and silence alone lose nothing.                     *)
WordsKept ==
    ~overlapped =>
      1..spoken \subseteq
        Recorded \cup Travelling \cup HeldWords \cup Conducted \cup excused

(* A fragment waits in Redis, or with the request that took it.            *)
Waiting ==
    \/ HeldWords # {}
    \/ \E u \in Uploads : up[u].step = "taken" /\ up[u].prior.words # {}

(* A room that shows a failure waits for the candidate's retry, and one    *)
(* that a refusal left idle, with no line to speak, for a newer state.     *)
Stopped == phase = "failed" \/ (phase = "idle" /\ ~playing /\ ~fresh)

(* What is held does not stay held, however often the gate finds the       *)
(* candidate unfinished: probes are counted, and silence flushes.  A Stop  *)
(* over silence is the exception, and so is a room that a failed request   *)
(* left waiting.                                                           *)
HeldIsTold == Waiting ~> ~Waiting \/ blanked \/ Stopped

(* A room that waits for its upload goes on, with the same exception.      *)
RoomGoesOn == phase = "uploading" ~> phase # "uploading" \/ blanked

(* stt.ts: the turn always ends, and the candidate's Stop is one of the    *)
(* reasons.  Here: without the exception.                                  *)
StopEndsTurn == phase = "uploading" ~> phase # "uploading"
=============================================================================
