---------------------------- MODULE TurnProtocol ----------------------------
(***************************************************************************)
(* What the transport may rely on: the order in which a session hands it    *)
(* events (the forward arms of handle_event).  phase is what a client that  *)
(* sees only these events knows about the conversation; an event that the   *)
(* phase does not allow would leave it confused, and the protocol has no    *)
(* step to that.                                                           *)
(***************************************************************************)
VARIABLE phase

Phases == {"Quiet", "Hearing", "Answering", "Replying"}
Confused == "Confused"

Kinds == {"SpeechStarted", "PartialTranscript", "FinalTranscript", "AgentPartialResponse",
          "AgentFinalResponse", "TtsAudioChunk", "TtsComplete", "ComponentError"}

\* The phases in which an event of kind k may arrive.
Allowed(k) ==
    CASE k \in {"SpeechStarted", "ComponentError"} -> Phases
      [] k \in {"PartialTranscript", "FinalTranscript"} -> {"Hearing"}
      [] k \in {"AgentPartialResponse", "AgentFinalResponse"} -> {"Answering"}
      [] k = "TtsAudioChunk" -> {"Answering", "Replying"}
      [] k = "TtsComplete" -> {"Replying"}
      [] OTHER -> {}

\* The phase after an event of kind k in phase p.
After(p, k) ==
    CASE p \notin Allowed(k) -> Confused
      [] k = "SpeechStarted" -> "Hearing"
      [] k = "FinalTranscript" -> "Answering"
      [] k = "AgentFinalResponse" -> "Replying"
      [] k = "TtsComplete" -> "Quiet"
      [] OTHER -> p

Init == phase = "Quiet"

Receive(k) == phase \in Allowed(k) /\ phase' = After(phase, k)

Spec == Init /\ [][\E k \in Kinds : Receive(k)]_phase
=============================================================================
