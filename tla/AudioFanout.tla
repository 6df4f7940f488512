----------------------------- MODULE AudioFanout -----------------------------
(***************************************************************************)
(* The audio front end of a session: the fanout task of core/src/session.rs,*)
(* VadComponent::run and the ASR task of each utterance, with the channels  *)
(* between them.                                                           *)
(*                                                                         *)
(*            frames            vadQueue            event bus               *)
(*   transport ----> fanout ----------------> VAD ------------> orchestrator*)
(*                     | ^---- speechState ----'                   ^        *)
(*                     | ^---- asrDone ----.                       |        *)
(*                     '---- captured -> ASR task -----------------'        *)
(*                                                                         *)
(* Frames are numbered; voiced[f] is what is_voiced says of frame f.  The    *)
(* event bus is only its occupancy here: Orchestrator takes it from there.   *)
(***************************************************************************)
EXTENDS Naturals, Sequences, FiniteSets

CONSTANTS
    MaxFrames,      \* bound on the frames of one session
    MaxUtterances,  \* bound on the utterances of one session
    MinVoiced,      \* min_speech_ms, in frames of 20 ms
    MinSilent,      \* silence_ms, in frames
    PreBuffer,      \* PRE_BUFFER_FRAMES (15)
    VadCap,         \* capacity of vad_audio_tx (16)
    StateCap,       \* capacity of speech_state_tx (32)
    DoneCap,        \* capacity of asr_done_tx (8)
    BusCap          \* capacity of the event bus (200)

ASSUME AudioFanoutAssumption ==
    /\ {MaxFrames, MaxUtterances, MinVoiced, MinSilent, PreBuffer} \subseteq Nat \ {0}
    /\ {VadCap, StateCap, DoneCap, BusCap} \subseteq Nat \ {0}
    \* the frames are too few for more utterances, so that bound is no guard
    /\ MaxFrames < MaxUtterances * (MinVoiced + MinSilent) + MinVoiced

VARIABLES
    voiced,       \* frames the fanout has received, as a sequence of BOOLEAN
    fanout,       \* where the fanout task is: "select", "sending" or "gone"
    preBuffer,    \* pre_buffer
    vadQueue,     \* vad_audio_tx: frame numbers
    speechState,  \* speech_state_tx: sequence of BOOLEAN
    asrDone,      \* asr_done_tx: turn ids
    current,      \* current_asr: turn id and capture_open, turn 0 for None
    opened,       \* next_turn_id
    vad,          \* where the VAD task is
    isSpeaking, voicedRun, silentRun,   \* its locals, the counters in frames
    task,         \* task[u]: the ASR task of utterance u
    captured,     \* captured[u]: the frames sent to its channel
    started, ended,  \* SpeechStarted and SpeechEnded events sent so far
    bus,          \* number of events on the bus
    audioEnded,   \* the transport dropped its audio sender
    shutdown,     \* the session's cancel_token
    onset, offset \* history: first voiced and last frame of each utterance

fanoutVars == <<fanout, preBuffer, current, opened>>
vadVars    == <<vad, isSpeaking, voicedRun, silentRun, onset, offset>>
eventVars  == <<started, ended, bus>>
endVars    == <<audioEnded, shutdown>>
vars == <<voiced, fanoutVars, vadQueue, speechState, asrDone, vadVars, task, captured,
          eventVars, endVars>>

Utterances == 1 .. MaxUtterances
Frames == 1 .. MaxFrames

NoTurn == [turn |-> 0, open |-> FALSE]

VadStates == {"recv", "opening", "starting", "ending", "closing", "last", "gone"}
TaskStates == {"none", "reading", "request", "partial", "reporting", "done"}

TypeOK ==
    /\ voiced \in Seq(BOOLEAN) /\ Len(voiced) <= MaxFrames
    /\ fanout \in {"select", "sending", "gone"}
    /\ preBuffer \in Seq(Frames) /\ Len(preBuffer) <= PreBuffer
    /\ vadQueue \in Seq(Frames) /\ Len(vadQueue) <= VadCap
    /\ speechState \in Seq(BOOLEAN) /\ Len(speechState) <= StateCap
    /\ asrDone \in Seq(Utterances) /\ Len(asrDone) <= DoneCap
    /\ current \in [turn : 0 .. MaxUtterances, open : BOOLEAN]
    /\ opened \in 0 .. MaxUtterances
    /\ vad \in VadStates
    /\ isSpeaking \in BOOLEAN /\ voicedRun \in Nat /\ silentRun \in Nat
    /\ task \in [Utterances -> TaskStates]
    /\ captured \in [Utterances -> SUBSET Frames]
    /\ started \in 0 .. MaxUtterances /\ ended \in 0 .. MaxUtterances
    /\ bus \in 0 .. BusCap
    /\ audioEnded \in BOOLEAN /\ shutdown \in BOOLEAN
    /\ onset \in Seq(Frames) /\ offset \in Seq(Frames)

Init ==
    /\ voiced = <<>>
    /\ fanout = "select" /\ preBuffer = <<>> /\ current = NoTurn /\ opened = 0
    /\ vadQueue = <<>> /\ speechState = <<>> /\ asrDone = <<>>
    /\ vad = "recv" /\ isSpeaking = FALSE /\ voicedRun = 0 /\ silentRun = 0
    /\ task = [u \in Utterances |-> "none"]
    /\ captured = [u \in Utterances |-> {}]
    /\ started = 0 /\ ended = 0 /\ bus = 0
    /\ audioEnded = FALSE /\ shutdown = FALSE
    /\ onset = <<>> /\ offset = <<>>

\* event_tx.send: waits for room.  After the session is cancelled the
\* orchestrator drops the receiver and the send fails instead (see Vad/AsrStops).
Put == bus < BusCap /\ bus' = bus + 1

-----------------------------------------------------------------------------
(* The fanout task: a biased select over cancel, asr_done, speech_state and *)
(* the session's audio, in this order.                                      *)

fanoutFrame == <<vadVars, eventVars, endVars>>

FanoutReapsTask ==
    /\ fanout = "select" /\ ~shutdown
    /\ asrDone # <<>>
    /\ asrDone' = Tail(asrDone)
    /\ current' = IF current.turn = Head(asrDone) THEN NoTurn ELSE current
    /\ UNCHANGED <<voiced, fanout, preBuffer, opened, vadQueue, speechState, task, captured,
                   fanoutFrame>>

FanoutHears(b) ==
    /\ fanout = "select" /\ ~shutdown
    /\ asrDone = <<>>
    /\ speechState # <<>> /\ Head(speechState) = b
    /\ speechState' = Tail(speechState)
    /\ UNCHANGED <<voiced, fanout, vadQueue, asrDone, fanoutFrame>>

\* Some(true): a turn whose capture is open stays; any other is cancelled and a
\* new one opened with the pre-buffer.
FanoutOpens ==
    /\ FanoutHears(TRUE)
    /\ IF current.open
       THEN UNCHANGED <<preBuffer, current, opened, task, captured>>
       ELSE /\ opened < MaxUtterances      \* implied: one per utterance
            /\ opened' = opened + 1
            /\ current' = [turn |-> opened + 1, open |-> TRUE]
            /\ task' = [task EXCEPT ![opened + 1] = "reading"]
            /\ captured' = [captured EXCEPT ![opened + 1] = {preBuffer[i] : i \in DOMAIN preBuffer}]
            /\ preBuffer' = <<>>

FanoutCloses ==
    /\ FanoutHears(FALSE)
    /\ current' = [current EXCEPT !.open = FALSE]
    /\ UNCHANGED <<preBuffer, opened, task, captured>>

\* Mutant: a select that is not biased may take audio before the speech state.
TakesFrameUnbiased ==
    /\ fanout = "select" /\ ~shutdown

TakesFrame ==
    /\ fanout = "select" /\ ~shutdown
    /\ asrDone = <<>> /\ speechState = <<>>

\* Mutant: the pre-buffer is trimmed one frame too early.
PushedShort(f) ==
    LET longer == Append(preBuffer, f)
    IN  IF Len(longer) >= PreBuffer THEN Tail(longer) ELSE longer

Pushed(f) ==
    LET longer == Append(preBuffer, f)
    IN  IF Len(longer) > PreBuffer THEN Tail(longer) ELSE longer

\* A frame arrives: pre-buffer, the open capture (try_send: the ASR task only
\* collects, its 200 frames do not fill up), then the VAD.
FanoutFrame(v) ==
    LET f == Len(voiced) + 1
    IN  /\ TakesFrame
        /\ ~audioEnded /\ Len(voiced) < MaxFrames
        /\ voiced' = Append(voiced, v)
        /\ preBuffer' = Pushed(f)
        /\ captured' = IF current.open
                       THEN [captured EXCEPT ![current.turn] = @ \cup {f}]
                       ELSE captured
        /\ fanout' = "sending"
        /\ UNCHANGED <<current, opened, vadQueue, speechState, asrDone, task, fanoutFrame>>

\* vad_audio_tx.send waits for room; if the VAD is gone it fails at once.
FanoutSends ==
    /\ fanout = "sending"
    /\ \/ vad # "gone" /\ Len(vadQueue) < VadCap /\ vadQueue' = Append(vadQueue, Len(voiced))
       \/ vad = "gone" /\ UNCHANGED vadQueue
    /\ fanout' = "select"
    /\ UNCHANGED <<voiced, preBuffer, current, opened, speechState, asrDone, task, captured,
                   fanoutFrame>>

\* The loop ends: cancelled, the audio ended, or the VAD exited.  The capture is
\* dropped with it, and the receivers of its channels.
FanoutStops ==
    /\ fanout = "select"
    /\ shutdown \/ (TakesFrame /\ (audioEnded \/ vad = "gone"))
    /\ fanout' = "gone"
    /\ current' = NoTurn
    /\ speechState' = <<>> /\ asrDone' = <<>>
    /\ UNCHANGED <<voiced, preBuffer, opened, vadQueue, task, captured, fanoutFrame>>

-----------------------------------------------------------------------------
(* VadComponent::run. *)

vadFrame == <<voiced, fanoutVars, asrDone, task, captured, endVars>>

\* A frame is received: count, and decide.
VadTakes ==
    /\ vad = "recv" /\ vadQueue # <<>>
    /\ vadQueue' = Tail(vadQueue)
    /\ UNCHANGED <<vadFrame, speechState, eventVars>>

VadVoiced ==
    /\ VadTakes
    /\ voiced[Head(vadQueue)]
    /\ voicedRun' = voicedRun + 1 /\ silentRun' = 0
    /\ IF ~isSpeaking /\ voicedRun + 1 >= MinVoiced
       THEN /\ isSpeaking' = TRUE /\ vad' = "opening"
            /\ onset' = Append(onset, Head(vadQueue) - voicedRun)
       ELSE UNCHANGED <<isSpeaking, vad, onset>>
    /\ UNCHANGED offset

VadSilent ==
    /\ VadTakes
    /\ ~voiced[Head(vadQueue)]
    /\ silentRun' = silentRun + 1
    /\ IF isSpeaking /\ silentRun + 1 >= MinSilent
       THEN /\ isSpeaking' = FALSE /\ vad' = "ending"
            /\ offset' = Append(offset, Head(vadQueue))
       ELSE UNCHANGED <<isSpeaking, vad, offset>>
    /\ voicedRun' = IF isSpeaking' THEN voicedRun ELSE 0
    /\ UNCHANGED onset

\* speech_state_tx.send: waits for room, fails at once if the fanout is gone.
TellFanout(b) ==
    \/ fanout # "gone" /\ Len(speechState) < StateCap /\ speechState' = Append(speechState, b)
    \/ fanout = "gone" /\ UNCHANGED speechState

VadMoves(from, to) ==
    /\ vad = from /\ vad' = to
    /\ UNCHANGED <<vadFrame, vadQueue, isSpeaking, voicedRun, silentRun, onset, offset>>

VadOpens  == VadMoves("opening", "starting") /\ TellFanout(TRUE) /\ UNCHANGED eventVars
VadStarts == VadMoves("starting", "recv") /\ Put /\ started' = started + 1
             /\ UNCHANGED <<ended, speechState>>

\* Mutant: the capture is closed before SpeechEnded is on the bus.
VadEndsSwapped ==
    \/ VadMoves("ending", "closing") /\ TellFanout(FALSE) /\ UNCHANGED eventVars
    \/ VadMoves("closing", "recv") /\ Put /\ ended' = ended + 1 /\ UNCHANGED <<started, speechState>>

\* SpeechEnded first, so that a fast transcript cannot overtake it; then the
\* capture is closed.
VadEnds ==
    \/ VadMoves("ending", "closing") /\ Put /\ ended' = ended + 1 /\ UNCHANGED <<started, speechState>>
    \/ VadMoves("closing", "recv") /\ TellFanout(FALSE) /\ UNCHANGED eventVars

\* The stream ends once the fanout has dropped its sender and the queue is empty.
VadStreamEnds ==
    /\ fanout = "gone" /\ vadQueue = <<>>
    /\ VadMoves("recv", IF isSpeaking THEN "last" ELSE "gone")
    /\ UNCHANGED <<speechState, eventVars>>

\* Mutant: the VAD forgets an utterance that is still open at the end.
VadLastSilent == VadMoves("last", "gone") /\ UNCHANGED <<eventVars, speechState>>

VadLast == VadMoves("last", "gone") /\ Put /\ ended' = ended + 1
           /\ UNCHANGED <<started, speechState>>

\* Cancelled at the select, or the bus is gone at a send.
VadCancelled ==
    /\ shutdown
    /\ \E from \in {"recv", "starting", "ending", "last"} : VadMoves(from, "gone")
    /\ UNCHANGED <<speechState, eventVars>>

-----------------------------------------------------------------------------
(* The ASR task of utterance u: AsrProvider::stream in a select with the    *)
(* turn's token, then the report on asr_done.                               *)

CaptureOpen(u) == current = [turn |-> u, open |-> TRUE]

asrFrame == <<voiced, fanoutVars, vadQueue, speechState, vadVars, captured, started, ended,
              endVars>>

TaskMoves(u, from, to) == task[u] = from /\ task' = [task EXCEPT ![u] = to] /\ UNCHANGED asrFrame

\* The audio is complete when the fanout has dropped its sender; with nothing
\* captured there is no request.
AsrCollected(u) ==
    /\ ~CaptureOpen(u)
    /\ TaskMoves(u, "reading", IF captured[u] = {} THEN "reporting" ELSE "request")
    /\ UNCHANGED <<bus, asrDone>>

AsrPartial(u) == TaskMoves(u, "request", "partial") /\ Put /\ UNCHANGED asrDone
AsrFinal(u)   == TaskMoves(u, "partial", "reporting") /\ Put /\ UNCHANGED asrDone

\* The attempts of both providers failed, or the text is empty.
AsrFails(u) == TaskMoves(u, "request", "reporting") /\ UNCHANGED <<bus, asrDone>>

\* turn.cancel() when a newer utterance opens, or the session's token.
AsrCancelled(u) ==
    /\ opened > u \/ shutdown
    /\ \E from \in {"reading", "request", "partial"} : TaskMoves(u, from, "reporting")
    /\ UNCHANGED <<bus, asrDone>>

AsrReports(u) ==
    /\ TaskMoves(u, "reporting", "done")
    /\ \/ fanout # "gone" /\ Len(asrDone) < DoneCap /\ asrDone' = Append(asrDone, u)
       \/ fanout = "gone" /\ UNCHANGED asrDone
    /\ UNCHANGED bus

-----------------------------------------------------------------------------
\* The orchestrator takes an event.
DrainBus ==
    /\ bus > 0
    /\ bus' = bus - 1
    /\ UNCHANGED <<voiced, fanoutVars, vadQueue, speechState, asrDone, vadVars, task, captured,
                   started, ended, endVars>>

AudioEnds ==
    /\ ~audioEnded /\ audioEnded' = TRUE
    /\ UNCHANGED <<voiced, fanoutVars, vadQueue, speechState, asrDone, vadVars, task, captured,
                   eventVars, shutdown>>

Shutdown ==
    /\ ~shutdown /\ shutdown' = TRUE
    /\ UNCHANGED <<voiced, fanoutVars, vadQueue, speechState, asrDone, vadVars, task, captured,
                   eventVars, audioEnded>>

FanoutStep ==
    \/ FanoutReapsTask \/ FanoutOpens \/ FanoutCloses \/ FanoutSends \/ FanoutStops

VadStep ==
    \/ VadVoiced \/ VadSilent \/ VadOpens \/ VadStarts \/ VadEnds
    \/ VadStreamEnds \/ VadLast \/ VadCancelled

AsrStep(u) ==
    \/ AsrCollected(u) \/ AsrPartial(u) \/ AsrFinal(u) \/ AsrFails(u) \/ AsrCancelled(u)
    \/ AsrReports(u)

Next ==
    \/ \E v \in BOOLEAN : FanoutFrame(v)
    \/ FanoutStep
    \/ VadStep
    \/ \E u \in Utterances : AsrStep(u)
    \/ DrainBus
    \/ AudioEnds
    \/ Shutdown

Spec == Init /\ [][Next]_vars

(* Fairness: the tasks are scheduled, the orchestrator takes events and the  *)
(* providers answer or time out.  Frames, the end of the audio and of the    *)
(* session are the environment's.                                           *)
FairSpec ==
    /\ Spec
    /\ WF_vars(FanoutStep) /\ WF_vars(VadStep) /\ WF_vars(DrainBus)
    /\ \A u \in Utterances : WF_vars(AsrStep(u))

-----------------------------------------------------------------------------
(* Properties. *)

\* The fanout waits for room in the VAD's audio channel while the VAD waits for
\* room in the speech state channel, which only the fanout empties.
Wedged ==
    /\ fanout = "sending" /\ vad \in {"opening", "closing"}
    /\ Len(vadQueue) = VadCap /\ Len(speechState) = StateCap
NoAudioDeadlock == ~Wedged

\* The frames that the beginning of an utterance can lose: the VAD decides
\* MinVoiced frames after the onset, and the fanout may be VadCap + 1 frames ahead
\* of it by then, VadCap in its queue and one in its send.
Late == IF MinVoiced + VadCap + 1 > PreBuffer THEN MinVoiced + VadCap + 1 - PreBuffer ELSE 0

\* The audio of each utterance has no gap, and begins at most n frames after the
\* utterance does.
CapturedWithin(n) ==
    \A u \in 1 .. opened : \E first \in 1 .. onset[u] + n, last \in Frames :
        /\ captured[u] = first .. last
        /\ first <= last /\ onset[u] <= last

\* The pre-buffer recovers the onset, or all but Late frames of it when the fanout
\* has run ahead of the VAD while it decided.
OnsetCaptured == CapturedWithin(Late)

\* The pre-buffer does not reach back into the speech of an earlier utterance,
\* which would be transcribed twice.
NoSpeechTwice ==
    \A u \in 1 .. opened : \A w \in 1 .. u - 1 :
        \A f \in captured[u] : voiced[f] => f > offset[w]

\* What the recogniser gets of an utterance: one stretch of audio that misses no more
\* of its beginning than the queue explains, and nothing of another.
CaptureInv == TypeOK /\ OnsetCaptured /\ NoSpeechTwice

\* What the front end puts on the bus, in SpeechEvents' terms.  A task still
\* reading has its capture open, as far as the bus can tell, until SpeechEnded.
Talking == started > ended

AsrPhase(u) ==
    CASE task[u] = "none" ->
                IF u > started THEN "none"
                ELSE IF fanout = "gone" THEN "done"
                ELSE IF u < started \/ ~Talking THEN "transcribing" ELSE "capturing"
      [] task[u] = "reading" ->
                IF fanout = "gone" \/ (u <= started /\ (u < started \/ ~Talking))
                THEN "transcribing" ELSE "capturing"
      [] task[u] = "request" -> "transcribing"
      [] task[u] = "partial" -> "partial"
      [] OTHER -> "done"

Abstract == INSTANCE SpeechEvents
    WITH utt <- started, speaking <- Talking, hungup <- fanout = "gone",
         asr <- [u \in Utterances |-> AsrPhase(u)]

ImplementsSpeechEvents == Abstract!SpeechSpec

\* Once the audio has ended, the fanout, the VAD and all ASR tasks end, and every
\* SpeechStarted has had its SpeechEnded, unless the session is cancelled.
AudioDrains ==
    audioEnded ~> /\ fanout = "gone" /\ vad = "gone"
                  /\ \A u \in Utterances : task[u] \in {"none", "done"}
                  /\ shutdown \/ started = ended
=============================================================================
