---------------------------- MODULE SpeechEvents ----------------------------
(***************************************************************************)
(* What the audio front end of a session (VAD, fanout and the per-utterance *)
(* ASR tasks) promises to put on the event bus, without its channels.       *)
(* Orchestrator uses it as its environment; AudioFanout implements it.      *)
(*                                                                         *)
(* Utterances are numbered in the order the VAD detects them.  asr[u] is    *)
(* the life of the ASR task of utterance u:                                *)
(*   none -> capturing -> transcribing -> partial -> done                  *)
(* A task can stop at any point after its capture ended (empty audio or     *)
(* text, provider failure, cancellation by a newer utterance).             *)
(***************************************************************************)
EXTENDS Naturals

CONSTANT MaxUtterances      \* bound on the utterances of one session

ASSUME MaxUtterancesAssumption == MaxUtterances \in Nat \ {0}

VARIABLES utt,        \* utterances started so far
          speaking,   \* VadComponent's is_speaking
          asr,        \* asr[u]: life of the ASR task of utterance u
          hungup      \* the transport closed the session's audio stream

speechVars == <<utt, speaking, asr, hungup>>

Utterances == 1 .. MaxUtterances

AsrStates == {"none", "capturing", "transcribing", "partial", "done"}

SpeechTypeOK ==
    /\ utt \in 0 .. MaxUtterances
    /\ speaking \in BOOLEAN /\ (speaking => utt # 0)
    /\ asr \in [Utterances -> AsrStates]
    /\ hungup \in BOOLEAN

SpeechInit ==
    /\ utt = 0
    /\ speaking = FALSE
    /\ asr = [u \in Utterances |-> "none"]
    /\ hungup = FALSE

AsrLive(u) == asr[u] \in {"capturing", "transcribing", "partial"}

\* The fanout may open the ASR task of an utterance before the VAD has put its
\* SpeechStarted on the bus.
OpenCapture ==
    /\ ~speaking /\ ~hungup
    /\ utt < MaxUtterances
    /\ asr[utt + 1] = "none"
    /\ asr' = [asr EXCEPT ![utt + 1] = "capturing"]
    /\ UNCHANGED <<utt, speaking, hungup>>

\* SpeechStarted.  Once the fanout is gone the VAD may still find speech in the
\* frames it has left, and no task is opened for it.
StartUtterance ==
    /\ ~speaking
    /\ utt < MaxUtterances
    /\ utt' = utt + 1
    /\ speaking' = TRUE
    /\ asr' = [asr EXCEPT ![utt + 1] =
                  IF @ # "none" THEN @ ELSE IF hungup THEN "done" ELSE "capturing"]
    /\ UNCHANGED hungup

\* SpeechEnded.  The capture is closed after the event is on the bus, so the
\* task cannot have transcribed before, unless the audio stream has ended.
EndUtterance ==
    /\ speaking
    /\ speaking' = FALSE
    /\ asr' = [asr EXCEPT ![utt] = IF @ = "capturing" THEN "transcribing" ELSE @]
    /\ UNCHANGED <<utt, hungup>>

\* The audio stream or the session ends: the fanout drops its capture without
\* the VAD, and a task it had still to open is never opened.
HangUp ==
    /\ ~hungup
    /\ hungup' = TRUE
    /\ asr' \in [Utterances -> AsrStates]
    /\ \A u \in Utterances :
          IF asr[u] \in {"capturing", "transcribing"}
          THEN asr'[u] \in {"transcribing", "done"}
          ELSE asr'[u] = asr[u]
    /\ UNCHANGED <<utt, speaking>>

\* Mutant: the capture is closed, and transcribed, before SpeechEnded is sent.
PartialTextEarly(u) ==
    /\ asr[u] \in {"capturing", "transcribing"}
    /\ asr' = [asr EXCEPT ![u] = "partial"]
    /\ UNCHANGED <<utt, speaking, hungup>>

PartialText(u) ==
    /\ asr[u] = "transcribing"
    /\ asr' = [asr EXCEPT ![u] = "partial"]
    /\ UNCHANGED <<utt, speaking, hungup>>

FinalText(u) ==
    /\ asr[u] = "partial"
    /\ asr' = [asr EXCEPT ![u] = "done"]
    /\ UNCHANGED <<utt, speaking, hungup>>

\* The task ends without a transcript.  While it still captures it can only be
\* ended by the provider (an error while reading) or by the session's end.
NoText(u) ==
    /\ AsrLive(u)
    /\ asr' = [asr EXCEPT ![u] = "done"]
    /\ UNCHANGED <<utt, speaking, hungup>>

SpeechNext ==
    \/ OpenCapture
    \/ StartUtterance
    \/ EndUtterance
    \/ HangUp
    \/ \E u \in Utterances : PartialText(u) \/ FinalText(u) \/ NoText(u)

SpeechSpec == SpeechInit /\ [][SpeechNext]_speechVars
=============================================================================
