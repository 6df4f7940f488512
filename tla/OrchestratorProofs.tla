------------------------- MODULE OrchestratorProofs -------------------------
(***************************************************************************)
(* For every bound, every capacity and every scheduling of the tasks: the   *)
(* orchestrator is type-correct, holds a text sender and buffered text only *)
(* while it thinks, and what it hands to the transport is a conversation in *)
(* the sense of TurnProtocol.                                              *)
(*                                                                         *)
(* The three are proved from one inductive invariant.  ClientAgrees is its  *)
(* core: it says what the transport knows while the loop waits for an       *)
(* event, sends a sentence or sends to egress; TextOnlyWhileThinking says   *)
(* which stream the loop may be blocked in.                                 *)
(*                                                                         *)
(* When the tasks keep up with the speaker (KeepsUp), a second invariant     *)
(* follows each event on the bus back to the task that sent it.  From it:   *)
(* every task can be cancelled, only the current turn speaks, and no answer *)
(* and no transcript is lost.                                              *)
(***************************************************************************)
EXTENDS Orchestrator, TLAPS

IInv == TypeOK /\ TextOnlyWhileThinking /\ ClientAgrees

\* The bounds, without the rest of the assumptions.
LEMMA Bounds ==
    /\ MaxUtterances \in Nat \ {0} /\ MaxStreams \in Nat \ {0} /\ BusCap \in Nat \ {0}
    /\ TextCap \in Nat \ {0} /\ EgressCap \in Nat \ {0}
    /\ MaxPartials \in Nat /\ MaxChunks \in Nat /\ MaxSentences \in Nat /\ MaxSignals \in Nat
    /\ Signals \subseteq {"Interrupt", "Cancel", "ComponentError"}
    /\ LlmFails \in BOOLEAN
  BY MaxUtterancesAssumption, OrchestratorAssumption

-----------------------------------------------------------------------------
(* The event bus. *)

\* A send keeps the bus typed and within its capacity.
LEMMA PutTyped == ASSUME BusTypeOK, NEW e \in Events, Put(e) PROVE BusTypeOK'
<1>1. CASE UNCHANGED bus
  BY <1>1 DEF BusTypeOK, Events
<1>2. CASE Len(bus) < BusCap /\ bus' = Append(bus, e)
  <2>1. DEFINE E == Events
  <2>2. bus \in Seq(E) /\ e \in E
    BY DEF BusTypeOK
  <2>3. Events' = E
    BY DEF Events
  <2> HIDE DEF E
  <2>4. Append(bus, e) \in Seq(E) /\ Len(Append(bus, e)) = Len(bus) + 1 /\ Len(bus) \in Nat
    BY <2>2
  <2> QED
    BY <1>2, <2>3, <2>4, Bounds DEF BusTypeOK
<1> QED
  BY <1>1, <1>2 DEF Put

\* Taking an event yields an event and keeps the bus typed.
LEMMA TakeTyped ==
    ASSUME BusTypeOK, bus # <<>>, bus' = Tail(bus)
    PROVE  BusTypeOK' /\ Head(bus) \in Events
<1> DEFINE E == Events
<1>1. bus \in Seq(E) /\ Events' = E
  BY DEF BusTypeOK, Events
<1> HIDE DEF E
<1>2. Tail(bus) \in Seq(E) /\ Head(bus) \in E /\ Len(Tail(bus)) = Len(bus) - 1 /\ Len(bus) \in Nat
  BY <1>1
<1> QED
  BY <1>1, <1>2, Bounds DEF BusTypeOK, E

-----------------------------------------------------------------------------
(* The event loop. *)

\* What follows from receiving an event, whatever its handler does.
LEMMA ReceiveFacts ==
    ASSUME IInv, NEW k, Receive(k)
    PROVE  /\ pc = "recv" /\ Agrees(client)
           /\ Head(bus) \in Events /\ Head(bus).kind = k
           /\ BusTypeOK'
  BY TakeTyped DEF IInv, TypeOK, ClientAgrees, Receive

\* An event's id is of the sort its kind says.
LEMMA EventId ==
    ASSUME NEW e \in Events
    PROVE  /\ e.kind \in AgentKinds \cup SpeechKinds => e.id \in Turns
           /\ e.kind \in TtsKinds => e.id \in Streams
  BY Bounds DEF Events, AgentKinds, SpeechKinds, TtsKinds, Utterances, Turns, Streams

\* Handlers that move the state and forward the event: the text sender and the
\* tasks are untouched, and the event is one the transport's phase allows.
LEMMA ForwardingHandlers ==
    ASSUME IInv,
           \/ HandleFirstSpeech \/ HandleSpeechEnded \/ HandlePartialTranscript
           \/ HandleFinalTranscript \/ HandleTtsAudioChunk \/ HandleTtsComplete
           \/ HandleComponentError
    PROVE  IInv'
<1> USE Bounds DEF Accept, Forward, Done, envVars, speechVars, outside, textVars, tokenHandles,
      agentVars, ttsVars, tokenVars
<1>1. CASE HandleFirstSpeech
  <2>1. /\ pc = "recv" /\ Agrees(client) /\ BusTypeOK'
        /\ Head(bus) \in Events /\ Head(bus).kind = "SpeechStarted"
    BY <1>1, ReceiveFacts DEF HandleFirstSpeech
  <2>2. TypeOK'
    BY <1>1, <2>1 DEF IInv, TypeOK, SpeechTypeOK, LoopTypeOK, OutsideTypeOK, AgentTypeOK,
      TtsTypeOK, TokenTypeOK, States, HandleFirstSpeech
  <2>3. TextOnlyWhileThinking'
    BY <1>1, <2>1 DEF IInv, TextOnlyWhileThinking, HandleFirstSpeech
  <2>4. ClientAgrees'
    BY <1>1, <2>1 DEF IInv, TypeOK, LoopTypeOK, OutsideTypeOK, Agrees, ClientAgrees,
      HandleFirstSpeech,
      Protocol!Allowed, Protocol!After, Protocol!Phases
  <2> QED
    BY <2>2, <2>3, <2>4 DEF IInv
<1>2. CASE HandleSpeechEnded
  <2>1. /\ pc = "recv" /\ Agrees(client) /\ BusTypeOK'
        /\ Head(bus) \in Events /\ Head(bus).kind = "SpeechEnded"
    BY <1>2, ReceiveFacts DEF HandleSpeechEnded
  <2>2. TypeOK'
    BY <1>2, <2>1 DEF IInv, TypeOK, SpeechTypeOK, LoopTypeOK, OutsideTypeOK, AgentTypeOK,
      TtsTypeOK, TokenTypeOK, States, HandleSpeechEnded
  <2>3. TextOnlyWhileThinking'
    BY <1>2, <2>1 DEF IInv, TextOnlyWhileThinking, HandleSpeechEnded
  <2>4. ClientAgrees'
    BY <1>2, <2>1 DEF IInv, TypeOK, LoopTypeOK, OutsideTypeOK, Agrees, ClientAgrees,
      HandleSpeechEnded,
      Protocol!Allowed, Protocol!After, Protocol!Phases
  <2> QED
    BY <2>2, <2>3, <2>4 DEF IInv
<1>3. CASE HandlePartialTranscript
  <2>1. /\ pc = "recv" /\ Agrees(client) /\ BusTypeOK'
        /\ Head(bus) \in Events /\ Head(bus).kind = "PartialTranscript"
    BY <1>3, ReceiveFacts DEF HandlePartialTranscript
  <2>2. TypeOK'
    BY <1>3, <2>1 DEF IInv, TypeOK, SpeechTypeOK, LoopTypeOK, OutsideTypeOK, AgentTypeOK,
      TtsTypeOK, TokenTypeOK, States, HandlePartialTranscript
  <2>3. TextOnlyWhileThinking'
    BY <1>3, <2>1 DEF IInv, TextOnlyWhileThinking, HandlePartialTranscript
  <2>4. ClientAgrees'
    BY <1>3, <2>1 DEF IInv, TypeOK, LoopTypeOK, OutsideTypeOK, Agrees, ClientAgrees,
      HandlePartialTranscript,
      Protocol!Allowed, Protocol!After, Protocol!Phases
  <2> QED
    BY <2>2, <2>3, <2>4 DEF IInv
<1>4. CASE HandleFinalTranscript
  <2>1. /\ pc = "recv" /\ Agrees(client) /\ BusTypeOK'
        /\ Head(bus) \in Events /\ Head(bus).kind = "FinalTranscript"
    BY <1>4, ReceiveFacts DEF HandleFinalTranscript
  <2>2. TypeOK'
    BY <1>4, <2>1 DEF IInv, TypeOK, SpeechTypeOK, LoopTypeOK, OutsideTypeOK, AgentTypeOK,
      TtsTypeOK, TokenTypeOK, States, HandleFinalTranscript
  <2>3. TextOnlyWhileThinking'
    BY <1>4, <2>1 DEF IInv, TextOnlyWhileThinking, HandleFinalTranscript
  <2>4. ClientAgrees'
    BY <1>4, <2>1 DEF IInv, TypeOK, LoopTypeOK, OutsideTypeOK, Agrees, ClientAgrees,
      HandleFinalTranscript,
      Protocol!Allowed, Protocol!After, Protocol!Phases
  <2> QED
    BY <2>2, <2>3, <2>4 DEF IInv
<1>5. CASE HandleTtsAudioChunk
  <2>1. /\ pc = "recv" /\ Agrees(client) /\ BusTypeOK'
        /\ Head(bus) \in Events /\ Head(bus).kind = "TtsAudioChunk"
    BY <1>5, ReceiveFacts DEF HandleTtsAudioChunk
  <2>2. TypeOK'
    BY <1>5, <2>1 DEF IInv, TypeOK, SpeechTypeOK, LoopTypeOK, OutsideTypeOK, AgentTypeOK,
      TtsTypeOK, TokenTypeOK, States, HandleTtsAudioChunk
  <2>3. TextOnlyWhileThinking'
    BY <1>5, <2>1 DEF IInv, TextOnlyWhileThinking, HandleTtsAudioChunk
  <2>4. ClientAgrees'
    BY <1>5, <2>1 DEF IInv, TypeOK, LoopTypeOK, OutsideTypeOK, Agrees, ClientAgrees,
      HandleTtsAudioChunk,
      Protocol!Allowed, Protocol!After, Protocol!Phases
  <2> QED
    BY <2>2, <2>3, <2>4 DEF IInv
<1>6. CASE HandleTtsComplete
  <2>1. /\ pc = "recv" /\ Agrees(client) /\ BusTypeOK'
        /\ Head(bus) \in Events /\ Head(bus).kind = "TtsComplete"
    BY <1>6, ReceiveFacts DEF HandleTtsComplete
  <2>2. TypeOK'
    BY <1>6, <2>1 DEF IInv, TypeOK, SpeechTypeOK, LoopTypeOK, OutsideTypeOK, AgentTypeOK,
      TtsTypeOK, TokenTypeOK, States, HandleTtsComplete
  <2>3. TextOnlyWhileThinking'
    BY <1>6, <2>1 DEF IInv, TextOnlyWhileThinking, HandleTtsComplete
  <2>4. ClientAgrees'
    BY <1>6, <2>1 DEF IInv, TypeOK, LoopTypeOK, OutsideTypeOK, Agrees, ClientAgrees,
      HandleTtsComplete,
      Protocol!Allowed, Protocol!After, Protocol!Phases
  <2> QED
    BY <2>2, <2>3, <2>4 DEF IInv
<1>7. CASE HandleComponentError
  <2>1. /\ pc = "recv" /\ Agrees(client) /\ BusTypeOK'
        /\ Head(bus) \in Events /\ Head(bus).kind = "ComponentError"
    BY <1>7, ReceiveFacts DEF HandleComponentError
  <2>2. TypeOK'
    BY <1>7, <2>1 DEF IInv, TypeOK, SpeechTypeOK, LoopTypeOK, OutsideTypeOK, AgentTypeOK,
      TtsTypeOK, TokenTypeOK, States, HandleComponentError
  <2>3. TextOnlyWhileThinking'
    BY <1>7, <2>1 DEF IInv, TextOnlyWhileThinking, HandleComponentError
  <2>4. ClientAgrees'
    BY <1>7, <2>1 DEF IInv, TypeOK, LoopTypeOK, OutsideTypeOK, Agrees, ClientAgrees,
      HandleComponentError,
      Protocol!Allowed, Protocol!After, Protocol!Phases
  <2> QED
    BY <2>2, <2>3, <2>4 DEF IInv
<1> QED
  BY <1>1, <1>2, <1>3, <1>4, <1>5, <1>6, <1>7

\* Handlers that cancel: afterwards no sender is held and the buffer is empty.
LEMMA CancellingHandlers ==
    ASSUME IInv,
           HandleBargeIn \/ HandleInterrupt \/ HandleCancel \/ StopOrchestrator
    PROVE  IInv'
<1> USE Bounds DEF Accept, Forward, Done, envVars, speechVars, outside, textVars, tokenHandles,
      agentVars, ttsVars, tokenVars, CancelActiveTasks
<1>1. CASE HandleBargeIn
  <2>1. /\ pc = "recv" /\ Agrees(client) /\ BusTypeOK'
        /\ Head(bus) \in Events /\ Head(bus).kind = "SpeechStarted"
    BY <1>1, ReceiveFacts DEF HandleBargeIn
  <2>2. TypeOK'
    BY <1>1, <2>1 DEF IInv, TypeOK, SpeechTypeOK, LoopTypeOK, OutsideTypeOK, AgentTypeOK,
      TtsTypeOK, TokenTypeOK, States, Turns, Streams, HandleBargeIn
  <2>3. TextOnlyWhileThinking'
    BY <1>1, <2>1 DEF IInv, TextOnlyWhileThinking, HandleBargeIn
  <2>4. ClientAgrees'
    BY <1>1, <2>1 DEF IInv, TypeOK, LoopTypeOK, OutsideTypeOK, Agrees, ClientAgrees,
      HandleBargeIn,
      Protocol!Allowed, Protocol!After, Protocol!Phases
  <2> QED
    BY <2>2, <2>3, <2>4 DEF IInv
<1>2. CASE HandleInterrupt
  <2>1. /\ pc = "recv" /\ Agrees(client) /\ BusTypeOK'
        /\ Head(bus) \in Events /\ Head(bus).kind = "Interrupt"
    BY <1>2, ReceiveFacts DEF HandleInterrupt
  <2>2. TypeOK'
    BY <1>2, <2>1 DEF IInv, TypeOK, SpeechTypeOK, LoopTypeOK, OutsideTypeOK, AgentTypeOK,
      TtsTypeOK, TokenTypeOK, States, Turns, Streams, HandleInterrupt
  <2>3. TextOnlyWhileThinking'
    BY <1>2, <2>1 DEF IInv, TextOnlyWhileThinking, HandleInterrupt
  <2>4. ClientAgrees'
    BY <1>2, <2>1 DEF IInv, TypeOK, LoopTypeOK, OutsideTypeOK, Agrees, ClientAgrees,
      HandleInterrupt,
      Protocol!Allowed, Protocol!After, Protocol!Phases
  <2> QED
    BY <2>2, <2>3, <2>4 DEF IInv
<1>3. CASE HandleCancel
  <2>1. /\ pc = "recv" /\ Agrees(client) /\ BusTypeOK'
        /\ Head(bus) \in Events /\ Head(bus).kind = "Cancel"
    BY <1>3, ReceiveFacts DEF HandleCancel
  <2>2. TypeOK'
    BY <1>3, <2>1 DEF IInv, TypeOK, SpeechTypeOK, LoopTypeOK, OutsideTypeOK, AgentTypeOK,
      TtsTypeOK, TokenTypeOK, States, Turns, Streams, HandleCancel
  <2>3. TextOnlyWhileThinking'
    BY <1>3, <2>1 DEF IInv, TextOnlyWhileThinking, HandleCancel
  <2>4. ClientAgrees'
    BY <1>3, <2>1 DEF IInv, TypeOK, LoopTypeOK, OutsideTypeOK, Agrees, ClientAgrees,
      HandleCancel,
      Protocol!Allowed, Protocol!After, Protocol!Phases
  <2> QED
    BY <2>2, <2>3, <2>4 DEF IInv
<1>4. CASE StopOrchestrator
  <2>1. TypeOK'
    BY <1>4 DEF IInv, TypeOK, SpeechTypeOK, BusTypeOK, LoopTypeOK, OutsideTypeOK, AgentTypeOK,
      TtsTypeOK, TokenTypeOK, States, Turns, Streams, StopOrchestrator
  <2>2. TextOnlyWhileThinking'
    BY <1>4 DEF StopOrchestrator, TextOnlyWhileThinking
  <2>3. ClientAgrees'
    BY <1>4 DEF IInv, ClientAgrees, Agrees, StopOrchestrator, Protocol!Phases
  <2> QED
    BY <2>1, <2>2, <2>3 DEF IInv
<1> QED
  BY <1>1, <1>2, <1>3, <1>4

\* start_tts_stream yields a stream that exists and can be cancelled.
LEMMA EnsureTtsOK ==
    ASSUME IInv, EnsureTts
    PROVE  /\ CurrentStream \in Streams
           /\ streams' \in 0 .. MaxStreams
           /\ tts' \in [Streams -> TtsStates]
           /\ ttsCancelled' \subseteq Streams
           /\ ttsToken' = CurrentStream
<1>0. /\ textTx \in 0 .. MaxStreams /\ (textTx # 0 => textTx = ttsToken)
      /\ streams \in 0 .. MaxStreams /\ tts \in [Streams -> TtsStates]
      /\ ttsCancelled \subseteq Streams
  BY DEF IInv, TypeOK, LoopTypeOK, TtsTypeOK, TokenTypeOK, TextOnlyWhileThinking
<1> USE <1>0, Bounds DEF CurrentStream
<1>1. CASE textTx # 0
  <2>1. ttsToken' = ttsToken /\ streams' = streams /\ tts' = tts /\ ttsCancelled' = ttsCancelled
    BY <1>1 DEF EnsureTts
  <2> QED
    BY <1>1, <2>1 DEF Streams
<1>2. CASE textTx = 0
  <2>1. /\ streams + 1 \in Streams /\ streams' = streams + 1 /\ ttsToken' = streams + 1
        /\ tts' = [tts EXCEPT ![streams + 1] = "spawned"]
        /\ ttsCancelled' \subseteq ttsCancelled \cup {streams + 1}
    BY <1>2 DEF EnsureTts, Streams
  <2>2. tts' \in [Streams -> TtsStates]
    BY <2>1 DEF TtsStates
  <2>3. CurrentStream = streams + 1
    BY <1>2
  <2>4. ttsCancelled' \subseteq Streams
    BY <2>1
  <2>5. streams' \in 0 .. MaxStreams
    BY <2>1 DEF Streams
  <2> QED
    BY <2>1, <2>2, <2>3, <2>4, <2>5
<1> QED
  BY <1>1, <1>2

\* The two handlers that feed the TTS.
LEMMA AnswerHandlers ==
    ASSUME IInv, HandleAgentPartial \/ HandleAgentFinal
    PROVE  IInv'
<1> USE Bounds DEF Accept, envVars, speechVars, outside, agentVars
<1>1. CASE HandleAgentPartial
  <2>1. /\ pc = "recv" /\ Agrees(client) /\ BusTypeOK'
        /\ Head(bus) \in Events /\ Head(bus).kind = "AgentPartialResponse"
    BY <1>1, ReceiveFacts DEF HandleAgentPartial
  <2>2. Head(bus).id \in Turns
    BY <2>1, EventId DEF AgentKinds
  <2>3. /\ CurrentStream \in Streams /\ streams' \in 0 .. MaxStreams
        /\ tts' \in [Streams -> TtsStates] /\ ttsCancelled' \subseteq Streams
        /\ ttsToken' = CurrentStream
    BY <1>1, EnsureTtsOK DEF HandleAgentPartial
  <2>4. TypeOK'
    <3>1. LoopTypeOK'
      BY <1>1, <2>1, <2>2, <2>3
        DEF IInv, TypeOK, LoopTypeOK, States, Streams, HandleAgentPartial
    <3>2. TtsTypeOK' /\ TokenTypeOK'
      BY <1>1, <2>1, <2>2, <2>3 DEF IInv, TypeOK, TtsTypeOK, TokenTypeOK, HandleAgentPartial
    <3>3. SpeechTypeOK' /\ OutsideTypeOK' /\ AgentTypeOK' /\ pushed' \subseteq Turns
      BY <1>1, <2>1, <2>2, <2>3
        DEF IInv, TypeOK, SpeechTypeOK, OutsideTypeOK, AgentTypeOK, HandleAgentPartial
    <3> QED
      BY <2>1, <3>1, <3>2, <3>3 DEF TypeOK
  <2>5. TextOnlyWhileThinking'
    BY <1>1, <2>1, <2>3 DEF IInv, TextOnlyWhileThinking, HandleAgentPartial, Streams
  <2>6. ClientAgrees'
    BY <1>1, <2>1 DEF IInv, Agrees, ClientAgrees, HandleAgentPartial, AgentKinds,
      Protocol!Allowed, Protocol!After, Protocol!Phases
  <2> QED
    BY <2>4, <2>5, <2>6 DEF IInv
<1>2. CASE HandleAgentFinal
  <2>1. /\ pc = "recv" /\ Agrees(client) /\ BusTypeOK'
        /\ Head(bus) \in Events /\ Head(bus).kind = "AgentFinalResponse"
    BY <1>2, ReceiveFacts DEF HandleAgentFinal
  <2>2. /\ CurrentStream \in Streams /\ streams' \in 0 .. MaxStreams
        /\ tts' \in [Streams -> TtsStates] /\ ttsCancelled' \subseteq Streams
        /\ ttsToken' = CurrentStream
    BY <1>2, EnsureTtsOK DEF HandleAgentFinal
  <2>3. TypeOK'
    <3>1. LoopTypeOK'
      BY <1>2, <2>1, <2>2 DEF IInv, TypeOK, LoopTypeOK, States, Streams, HandleAgentFinal
    <3>2. TtsTypeOK' /\ TokenTypeOK'
      BY <1>2, <2>1, <2>2 DEF IInv, TypeOK, TtsTypeOK, TokenTypeOK, HandleAgentFinal
    <3>3. SpeechTypeOK' /\ OutsideTypeOK' /\ AgentTypeOK' /\ pushed' \subseteq Turns
      BY <1>2, <2>1, <2>2 DEF IInv, TypeOK, SpeechTypeOK, OutsideTypeOK, AgentTypeOK,
        HandleAgentFinal
    <3> QED
      BY <2>1, <3>1, <3>2, <3>3 DEF TypeOK
  <2>4. TextOnlyWhileThinking'
    BY <1>2, <2>1, <2>2 DEF IInv, TextOnlyWhileThinking, HandleAgentFinal, Streams
  <2>5. ClientAgrees'
    BY <1>2, <2>1 DEF IInv, Agrees, ClientAgrees, HandleAgentFinal, AgentKinds,
      Protocol!Allowed, Protocol!After, Protocol!Phases
  <2> QED
    BY <2>3, <2>4, <2>5 DEF IInv
<1> QED
  BY <1>1, <1>2

\* A dropped event changes nothing but the bus.
LEMMA IgnoreOK == ASSUME IInv, IgnoreEvent PROVE IInv'
<1>1. BusTypeOK'
  BY TakeTyped DEF IInv, TypeOK, IgnoreEvent
<1> QED
  BY <1>1 DEF IInv, TypeOK, SpeechTypeOK, LoopTypeOK, OutsideTypeOK, AgentTypeOK, TtsTypeOK,
    TokenTypeOK, TextOnlyWhileThinking, ClientAgrees, Agrees, IgnoreEvent, envVars, speechVars,
    outside, orchVars, agentVars, ttsVars, tokenVars

\* The awaits inside a handler: a sentence is taken or refused, an event is sent.
LEMMA AwaitsOK ==
    ASSUME IInv, SendSentence \/ SentenceRefused \/ SendEgress
    PROVE  IInv'
<1> USE Bounds DEF speechVars, outside, agentVars, ttsVars, tokenVars, textVars, tokenHandles,
      textFrame, LeaveText, Done
<1>1. CASE SendSentence
  <2>1. BusTypeOK'
    BY <1>1 DEF IInv, TypeOK, BusTypeOK, Events, SendSentence
  <2>2. textTx \in Streams /\ sentences - 1 \in Nat
    BY <1>1 DEF IInv, TypeOK, LoopTypeOK, TextOnlyWhileThinking, SendSentence, Streams
  <2>3. text' \in [Streams -> 0 .. TextCap]
    BY <1>1, <2>2 DEF IInv, TypeOK, TtsTypeOK, SendSentence
  <2>4. TypeOK'
    BY <1>1, <2>1, <2>2, <2>3 DEF IInv, TypeOK, SpeechTypeOK, LoopTypeOK, OutsideTypeOK,
      AgentTypeOK,
      TtsTypeOK, TokenTypeOK, States, SendSentence
  <2>5. TextOnlyWhileThinking'
    BY <1>1, <2>2 DEF IInv, TypeOK, LoopTypeOK, TextOnlyWhileThinking, ClientAgrees,
      SendSentence
  <2>6. ClientAgrees'
    BY <1>1 DEF IInv, Agrees, ClientAgrees, SendSentence, AgentKinds,
      Protocol!Allowed, Protocol!After, Protocol!Phases
  <2> QED
    BY <2>4, <2>5, <2>6 DEF IInv
<1>2. CASE SentenceRefused
  <2>1. BusTypeOK'
    BY <1>2 DEF IInv, TypeOK, BusTypeOK, Events, SentenceRefused
  <2>2. TypeOK'
    BY <1>2, <2>1 DEF IInv, TypeOK, SpeechTypeOK, LoopTypeOK, OutsideTypeOK, AgentTypeOK,
      TtsTypeOK, TokenTypeOK, States, SentenceRefused
  <2>3. TextOnlyWhileThinking'
    BY <1>2 DEF IInv, TextOnlyWhileThinking, ClientAgrees, SentenceRefused
  <2>4. ClientAgrees'
    BY <1>2 DEF IInv, Agrees, ClientAgrees, SentenceRefused, AgentKinds,
      Protocol!Allowed, Protocol!After, Protocol!Phases
  <2> QED
    BY <2>2, <2>3, <2>4 DEF IInv
<1>3. CASE SendEgress
  <2>1. BusTypeOK'
    BY <1>3 DEF IInv, TypeOK, BusTypeOK, Events, SendEgress
  <2>2. event.kind = "FinalTranscript" => turn \in Turns
    BY <1>3 DEF IInv, TypeOK, LoopTypeOK, ClientAgrees, SendEgress, Turns
  <2>3. Protocol!After(client, event.kind) \in Protocol!Phases
    BY <1>3 DEF IInv, TypeOK, LoopTypeOK, ClientAgrees, Agrees, SendEgress, States,
      Protocol!Allowed, Protocol!Phases
  <2>4. AgentTypeOK' /\ agentCancelled' \subseteq Turns /\ agentToken' \in 0 .. MaxUtterances
    BY <1>3, <2>2 DEF IInv, TypeOK, LoopTypeOK, AgentTypeOK, TokenTypeOK, SendEgress,
      Task!States,
      Turns
  <2>5. OutsideTypeOK'
    BY <1>3, <2>3 DEF IInv, TypeOK, OutsideTypeOK, SendEgress
  <2>6. TypeOK'
    BY <1>3, <2>1, <2>4, <2>5 DEF IInv, TypeOK, SpeechTypeOK, LoopTypeOK,
      TtsTypeOK, TokenTypeOK, States, SendEgress
  <2>7. TextOnlyWhileThinking'
    BY <1>3 DEF IInv, TextOnlyWhileThinking, SendEgress
  <2>8. ClientAgrees'
    BY <1>3 DEF IInv, Agrees, ClientAgrees, SendEgress, Protocol!Phases
  <2> QED
    BY <2>6, <2>7, <2>8 DEF IInv
<1> QED
  BY <1>1, <1>2, <1>3

-----------------------------------------------------------------------------
(* The rest of the session. *)

\* The loop and the transport see nothing of a step that leaves their variables.
Untouched == UNCHANGED <<orchVars, client>>

LEMMA UntouchedOK ==
    ASSUME IInv, Untouched PROVE TextOnlyWhileThinking' /\ ClientAgrees' /\ LoopTypeOK'
  BY DEF Untouched, orchVars, IInv, TypeOK, LoopTypeOK, TextOnlyWhileThinking, ClientAgrees,
    Agrees

\* The front end's steps are typed.
LEMMA SpeechTyped == ASSUME SpeechTypeOK, SpeechNext PROVE SpeechTypeOK'
<1> USE Bounds DEF SpeechTypeOK, Utterances, AsrStates
<1>1. CASE OpenCapture
  BY <1>1 DEF OpenCapture
<1>2. CASE EndUtterance
  <2>1. asr' \in [Utterances -> AsrStates] /\ utt' = utt /\ hungup' = hungup
    BY <1>2 DEF EndUtterance
  <2>2. speaking' \in BOOLEAN /\ ~speaking'
    BY <1>2, Zenon DEF EndUtterance
  <2> QED
    BY <2>1, <2>2
<1>3. CASE StartUtterance
  <2>1. utt' = utt + 1 /\ utt + 1 \in 1 .. MaxUtterances /\ hungup' = hungup
    BY <1>3 DEF StartUtterance
  <2>2. speaking' \in BOOLEAN
    BY <1>3, Zenon DEF StartUtterance
  <2>3. asr' \in [Utterances -> AsrStates]
    BY <1>3 DEF StartUtterance
  <2> QED
    BY <2>1, <2>2, <2>3
<1>4. CASE HangUp
  BY <1>4 DEF HangUp
<1>5. CASE \E u \in Utterances : PartialText(u) \/ FinalText(u) \/ NoText(u)
  BY <1>5 DEF PartialText, FinalText, NoText, AsrLive
<1> QED
  BY <1>1, <1>2, <1>3, <1>4, <1>5 DEF SpeechNext

\* The front end puts events of its own kinds on the bus.
LEMMA FrontEndOK == ASSUME IInv, FrontEnd PROVE IInv'
<1>1. SpeechNext
  BY DEF FrontEnd, SendSpeechStarted, SendSpeechEnded, SendPartialTranscript,
    SendFinalTranscript, AsrEndsSilently, AsrOpensEarly, AudioEnds, SpeechNext
<1>2. SpeechTypeOK'
  BY <1>1, SpeechTyped DEF IInv, TypeOK
<1>3. UNCHANGED backVars
  BY DEF FrontEnd, SendSpeechStarted, SendSpeechEnded, SendPartialTranscript,
    SendFinalTranscript, AsrEndsSilently, AsrOpensEarly, AudioEnds
<1>4. UNCHANGED bus \/ \E k \in SpeechKinds, u \in Utterances : Put(Event(k, u))
  <2>1. ASSUME SendSpeechStarted
        PROVE  utt + 1 \in Utterances /\ Put(Event("SpeechStarted", utt + 1))
    BY <2>1, Bounds DEF SendSpeechStarted, StartUtterance, Utterances, IInv, TypeOK,
      SpeechTypeOK
  <2>2. ASSUME SendSpeechEnded
        PROVE  UNCHANGED bus \/ \E u \in Utterances : Put(Event("SpeechEnded", u))
    BY <2>2, Bounds DEF SendSpeechEnded, EndUtterance, Utterances, IInv, TypeOK, SpeechTypeOK
  <2>3. ASSUME NEW u \in Utterances, SendPartialTranscript(u) \/ SendFinalTranscript(u)
        PROVE  Put(Event("PartialTranscript", u)) \/ Put(Event("FinalTranscript", u))
    BY <2>3 DEF SendPartialTranscript, SendFinalTranscript
  <2>4. ASSUME AudioEnds \/ AsrOpensEarly \/ \E u \in Utterances : AsrEndsSilently(u)
        PROVE  UNCHANGED bus
    BY <2>4 DEF AsrEndsSilently, AsrOpensEarly, AudioEnds
  <2> QED
    BY <2>1, <2>2, <2>3, <2>4, Zenon DEF FrontEnd, SpeechKinds
<1>5. BusTypeOK'
  BY <1>4, PutTyped DEF IInv, TypeOK, BusTypeOK, Event, Events
<1>6. OutsideTypeOK' /\ AgentTypeOK' /\ TtsTypeOK' /\ TokenTypeOK' /\ pushed' \subseteq Turns
  BY <1>3 DEF backVars, outside, agentVars, ttsVars, tokenVars, IInv, TypeOK, OutsideTypeOK,
    AgentTypeOK, TtsTypeOK, TokenTypeOK
<1>7. Untouched
  BY <1>3 DEF backVars, outside, Untouched
<1> QED
  BY <1>2, <1>5, <1>6, <1>7, UntouchedOK DEF IInv, TypeOK

\* The transport: it signals, takes events and ends the session.
LEMMA TransportOK ==
    ASSUME IInv, DrainEgress \/ Shutdown \/ \E k \in Signals : SendSignal(k)
    PROVE  IInv'
<1> USE Bounds DEF speechVars, agentVars, ttsVars, tokenVars
<1>1. CASE DrainEgress
  <2>1. Untouched /\ UNCHANGED bus
    BY <1>1 DEF DrainEgress, Untouched
  <2>2. TypeOK'
    BY <1>1, <2>1, UntouchedOK DEF DrainEgress, IInv, TypeOK, SpeechTypeOK, BusTypeOK, Events,
      OutsideTypeOK, AgentTypeOK, TtsTypeOK, TokenTypeOK
  <2> QED
    BY <2>1, <2>2, UntouchedOK DEF IInv
<1>2. CASE Shutdown
  <2>1. Untouched /\ UNCHANGED bus
    BY <1>2 DEF Shutdown, Untouched
  <2>2. ttsCancelled' \subseteq Streams
    BY <1>2 DEF Shutdown, IInv, TypeOK, TtsTypeOK, Streams
  <2>3. TypeOK'
    BY <1>2, <2>1, <2>2, UntouchedOK
      DEF Shutdown, IInv, TypeOK, SpeechTypeOK, BusTypeOK, Events,
      OutsideTypeOK, AgentTypeOK, TtsTypeOK, TokenTypeOK
  <2> QED
    BY <2>1, <2>3, UntouchedOK DEF IInv
<1>3. CASE \E k \in Signals : SendSignal(k)
  <2>1. PICK k \in Signals : SendSignal(k)
    BY <1>3
  <2>2. Untouched
    BY <2>1 DEF SendSignal, Untouched
  <2>3. BusTypeOK'
    BY <2>1, PutTyped DEF SendSignal, IInv, TypeOK, Event, Events
  <2>4. TypeOK'
    BY <2>1, <2>2, <2>3, UntouchedOK DEF SendSignal, IInv, TypeOK, SpeechTypeOK,
      OutsideTypeOK, AgentTypeOK, TtsTypeOK, TokenTypeOK
  <2> QED
    BY <2>2, <2>4, UntouchedOK DEF IInv
<1> QED
  BY <1>1, <1>2, <1>3

\* An agent task puts its own responses on the bus.
LEMMA AgentOK == ASSUME IInv, NEW t \in Turns, AgentStep(t) PROVE IInv'
<1>1. UNCHANGED agentFrame
  BY DEF AgentStep, AgentLock, LlmCallsAgain, AgentPartial, LlmCompletes, LlmStops, AgentFinal,
    AgentEnds,
    Task!Lock, Task!Speak, Task!Complete, Task!Stop, Task!Answer, Task!End, Task!Moves
<1>2. UNCHANGED bus \/ \E k \in AgentKinds : Put(Event(k, t))
  BY DEF AgentStep, AgentLock, LlmCallsAgain, AgentPartial, LlmCompletes, LlmStops, AgentFinal,
    AgentEnds,
    AgentKinds
<1>3. BusTypeOK'
  BY <1>2, PutTyped DEF IInv, TypeOK, BusTypeOK, Event, Events
<1>4. AgentTypeOK' /\ llmFlag' \in BOOLEAN
  <2> USE Bounds DEF IInv, TypeOK, AgentTypeOK, TokenTypeOK, Task!States, Turns
  <2>1. CASE AgentLock(t)
    <3>1. /\ agent' = [agent EXCEPT ![t] = IF t \in agentCancelled THEN "stopping" ELSE "streaming"]
          /\ lock' = t /\ partials' = partials /\ llmFlag' \in {FALSE, llmFlag}
      BY <2>1 DEF AgentLock, Task!Lock, Task!Moves
    <3>2. agent' \in [Turns -> Task!States]
      BY <3>1
    <3>3. llmFlag' \in BOOLEAN
      BY <3>1, Zenon
    <3> QED
      BY <3>1, <3>2, <3>3
  <2>2. CASE AgentPartial(t)
    <3>1. partials' = [partials EXCEPT ![t] = partials[t] + 1] /\ partials[t] < MaxPartials
          /\ agent' = agent /\ lock' = lock /\ llmFlag' = llmFlag
      BY <2>2 DEF AgentPartial, Task!Speak
    <3>2. partials[t] + 1 \in 0 .. MaxPartials
      BY <3>1
    <3> QED
      BY <3>1, <3>2
  <2>3. CASE LlmCompletes(t) \/ LlmStops(t)
    BY <2>3 DEF LlmCompletes, LlmStops, Task!Complete, Task!Stop, Task!Moves
  <2>4. CASE LlmCallsAgain(t)
    <3>1. UNCHANGED <<agent, partials, lock>> /\ llmFlag' = FALSE
      BY <2>4 DEF LlmCallsAgain
    <3>2. llmFlag' \in BOOLEAN
      BY <3>1, Zenon
    <3> QED
      BY <3>1, <3>2
  <2>5. CASE AgentFinal(t) \/ AgentEnds(t)
    BY <2>5 DEF AgentFinal, AgentEnds, Task!Answer, Task!End, Task!Moves
  <2> QED
    BY <2>1, <2>2, <2>3, <2>4, <2>5 DEF AgentStep
<1>5. Untouched
  BY <1>1 DEF agentFrame, outside, Untouched
<1>6. TypeOK'
  BY <1>1, <1>3, <1>4, <1>5, UntouchedOK
    DEF agentFrame, speechVars, outside, ttsVars, IInv, TypeOK,
    SpeechTypeOK, OutsideTypeOK, TtsTypeOK, TokenTypeOK
<1> QED
  BY <1>5, <1>6, UntouchedOK DEF IInv

\* A TTS task puts its own audio on the bus.
LEMMA TtsOK == ASSUME IInv, NEW s \in Streams, TtsStep(s) PROVE IInv'
<1>1. UNCHANGED ttsFrame
  BY DEF TtsStep, TtsStart, TtsTake, TtsChunk, TtsFinishes, TtsStops
<1>2. UNCHANGED bus \/ \E k \in TtsKinds : Put(Event(k, s))
  BY DEF TtsStep, TtsStart, TtsTake, TtsChunk, TtsFinishes, TtsStops, TtsKinds
<1>3. BusTypeOK'
  BY <1>2, PutTyped DEF IInv, TypeOK, BusTypeOK, Event, Events
<1>4. TtsTypeOK' /\ ttsFlag' \in BOOLEAN
  <2> USE <1>1, Bounds DEF ttsFrame, IInv, TypeOK, TtsTypeOK, TokenTypeOK, TtsStates
  <2>1. CASE TtsStart(s)
    BY <2>1 DEF TtsStart
  <2>2. CASE TtsTake(s)
    <3>1. PICK n \in 0 .. MaxChunks : chunks' = [chunks EXCEPT ![s] = n]
      BY <2>2 DEF TtsTake
    <3>2. text' = [text EXCEPT ![s] = text[s] - 1] /\ text[s] > 0
      BY <2>2 DEF TtsTake
    <3>3. text' \in [Streams -> 0 .. TextCap] /\ chunks' \in [Streams -> 0 .. MaxChunks]
      BY <3>1, <3>2
    <3> QED
      BY <2>2, <3>3 DEF TtsTake
  <2>3. CASE TtsChunk(s)
    BY <2>3 DEF TtsChunk
  <2>4. CASE TtsFinishes(s) \/ TtsStops(s)
    BY <2>4 DEF TtsFinishes, TtsStops
  <2> QED
    BY <2>1, <2>2, <2>3, <2>4 DEF TtsStep
<1>5. Untouched
  BY <1>1 DEF ttsFrame, outside, Untouched
<1>6. TypeOK'
  BY <1>1, <1>3, <1>4, <1>5, UntouchedOK
    DEF ttsFrame, speechVars, outside, agentVars, IInv, TypeOK,
    SpeechTypeOK, OutsideTypeOK, AgentTypeOK, TokenTypeOK
<1> QED
  BY <1>5, <1>6, UntouchedOK DEF IInv

-----------------------------------------------------------------------------
LEMMA IInvInit == Init => IInv
<1> SUFFICES ASSUME Init PROVE IInv
  OBVIOUS
<1> USE Bounds
<1>1. SpeechTypeOK
  <2>1. SpeechInit
    BY DEF Init
  <2>2. speaking \in BOOLEAN /\ hungup \in BOOLEAN /\ ~speaking
    BY <2>1, Zenon DEF SpeechInit
  <2>3. utt \in 0 .. MaxUtterances /\ asr \in [Utterances -> AsrStates]
    BY <2>1 DEF SpeechInit, AsrStates
  <2> QED
    BY <2>2, <2>3 DEF SpeechTypeOK
<1>2. BusTypeOK
  BY DEF Init, BusTypeOK
<1>3. LoopTypeOK
  BY DEF Init, LoopTypeOK, States
<1>4. OutsideTypeOK /\ TokenTypeOK
  <2>1. /\ egress = 0 /\ client = "Quiet" /\ shutdown = FALSE /\ signals = 0
        /\ agentCancelled = {} /\ llmFlag = FALSE /\ ttsCancelled = {} /\ ttsFlag = FALSE
    BY DEF Init, Task!Init
  <2>2. shutdown \in BOOLEAN /\ llmFlag \in BOOLEAN /\ ttsFlag \in BOOLEAN
    BY <2>1, Zenon
  <2> QED
    BY <2>1, <2>2 DEF OutsideTypeOK, TokenTypeOK, Protocol!Phases
<1>5. AgentTypeOK /\ TtsTypeOK
  BY DEF Init, Task!Init, AgentTypeOK, TtsTypeOK, Task!States, TtsStates
<1>6. TextOnlyWhileThinking /\ ClientAgrees
  BY DEF Init, TextOnlyWhileThinking, ClientAgrees, Agrees, Protocol!Phases
<1>7. pushed \subseteq Turns
  BY DEF Init
<1> QED
  BY <1>1, <1>2, <1>3, <1>4, <1>5, <1>6, <1>7 DEF IInv, TypeOK

LEMMA IInvNext == IInv /\ [Next]_vars => IInv'
<1> SUFFICES ASSUME IInv, [Next]_vars PROVE IInv'
  OBVIOUS
<1>1. CASE FrontEnd
  BY <1>1, FrontEndOK
<1>2. CASE DrainEgress \/ Shutdown \/ \E k \in Signals : SendSignal(k)
  BY <1>2, TransportOK
<1>3. CASE OrchestratorStep
  BY <1>3, ForwardingHandlers, CancellingHandlers, AnswerHandlers, IgnoreOK, AwaitsOK
     DEF OrchestratorStep, HandleEvent
<1>4. CASE \E t \in Turns : AgentStep(t)
  BY <1>4, AgentOK
<1>5. CASE \E s \in Streams : TtsStep(s)
  BY <1>5, TtsOK
<1>6. CASE UNCHANGED vars
  BY <1>6 DEF vars, speechVars, orchVars, outside, agentVars, ttsVars, tokenVars, IInv, TypeOK,
    SpeechTypeOK, BusTypeOK, Events, LoopTypeOK, OutsideTypeOK, AgentTypeOK, TtsTypeOK, TokenTypeOK,
    TextOnlyWhileThinking, ClientAgrees, Agrees
<1> QED
  BY <1>1, <1>2, <1>3, <1>4, <1>5, <1>6 DEF Next

\* Every variable stays in its domain, the queues within their capacities.
THEOREM TypeCorrect == Spec => []TypeOK
<1>1. IInv => TypeOK
  BY DEF IInv
<1> QED
  BY <1>1, IInvInit, IInvNext, PTL DEF Spec

\* Outside AgentThinking no text sender is held and no text is buffered, and the
\* sender that is held is that of the stream a barge-in would cancel
\* (cancel_active_tasks, flush_remaining, start_tts_stream).
THEOREM SenderOnlyWhileThinking == Spec => []TextOnlyWhileThinking
<1>1. IInv => TextOnlyWhileThinking
  BY DEF IInv
<1> QED
  BY <1>1, IInvInit, IInvNext, PTL DEF Spec

\* The loop's state agrees with what the transport has been told.
THEOREM ClientInStep == Spec => []ClientInv
<1>1. IInv => ClientInv
  BY DEF IInv, ClientInv
<1> QED
  BY <1>1, IInvInit, IInvNext, PTL DEF Spec

-----------------------------------------------------------------------------
(* Refinement: only SendEgress moves the transport's phase. *)

LEMMA ClientMoves ==
    IInv /\ [Next]_vars => SendEgress \/ UNCHANGED client
<1> SUFFICES ASSUME [Next]_vars PROVE SendEgress \/ UNCHANGED client
  OBVIOUS
<1> USE DEF envVars, outside
<1>1. CASE FrontEnd
  BY <1>1 DEF FrontEnd, SendSpeechStarted, SendSpeechEnded, SendPartialTranscript,
    SendFinalTranscript, AsrEndsSilently, AsrOpensEarly, AudioEnds, backVars
<1>2. CASE DrainEgress \/ Shutdown \/ \E k \in Signals : SendSignal(k)
  BY <1>2 DEF DrainEgress, Shutdown, SendSignal
<1>3. CASE HandleEvent
  BY <1>3 DEF HandleEvent, HandleFirstSpeech, HandleBargeIn, HandleSpeechEnded,
    HandlePartialTranscript, HandleFinalTranscript, HandleAgentPartial, HandleAgentFinal,
    HandleTtsAudioChunk, HandleTtsComplete, HandleInterrupt, HandleCancel, HandleComponentError,
    IgnoreEvent
<1>4. CASE SendSentence \/ SentenceRefused \/ StopOrchestrator
  BY <1>4 DEF SendSentence, SentenceRefused, StopOrchestrator, textFrame
<1>5. CASE \E t \in Turns : AgentStep(t)
  BY <1>5 DEF AgentStep, AgentLock, LlmCallsAgain, AgentPartial, LlmCompletes, LlmStops,
    AgentFinal, AgentEnds,
    Task!Lock, Task!Speak, Task!Complete, Task!Stop, Task!Answer, Task!End, Task!Moves,
    agentFrame
<1>6. CASE \E s \in Streams : TtsStep(s)
  BY <1>6 DEF TtsStep, TtsStart, TtsTake, TtsChunk, TtsFinishes, TtsStops, ttsFrame
<1>7. CASE UNCHANGED vars
  BY <1>7 DEF vars
<1> QED
  BY <1>1, <1>2, <1>3, <1>4, <1>5, <1>6, <1>7 DEF Next, OrchestratorStep

\* What a session sends to its transport is a conversation: every step of the
\* session is a step of TurnProtocol or invisible to the transport.
THEOREM Conversation == Spec => ImplementsTurnProtocol
<1>1. Init => Protocol!Init
  BY DEF Init, Protocol!Init
<1>2. IInv /\ [Next]_vars => [\E k \in Protocol!Kinds : Protocol!Receive(k)]_client
  <2> SUFFICES ASSUME IInv, SendEgress
               PROVE  \E k \in Protocol!Kinds : Protocol!Receive(k)
    BY ClientMoves
  <2>1. client \in Protocol!Allowed(event.kind) /\ client' = Protocol!After(client, event.kind)
    BY DEF IInv, ClientAgrees, SendEgress
  <2>2. event.kind \in Protocol!Kinds
    BY <2>1 DEF Protocol!Allowed, Protocol!Kinds
  <2> QED
    BY <2>1, <2>2 DEF Protocol!Receive
<1> QED
  BY <1>1, <1>2, IInvInit, IInvNext, PTL DEF Spec, ImplementsTurnProtocol, Protocol!Spec

-----------------------------------------------------------------------------
(* Turns under the scheduling assumption (KeepsUp): cancelled tasks notice   *)
(* before the interrupting utterance ends, and the loop hears of it by then. *)
(* The invariants below relate the event bus to the tasks: an event of a     *)
(* task that is no longer current lies before the SpeechEnded after which    *)
(* the loop could take it for an event of the next turn.                    *)

\* An event of kind k is on the bus.
OnBus(k) == \E i \in DOMAIN bus : bus[i].kind = k

\* The front end's events on the bus: one utterance's at a time, in order, and
\* an end of speech finds the loop still idle or listening.
SpeechInv ==
    /\ \A i \in DOMAIN bus : bus[i].kind = "SpeechStarted" =>
          /\ speaking
          /\ \A j \in DOMAIN bus : bus[j].kind = "SpeechStarted" => j = i
          /\ \A j \in DOMAIN bus : bus[j].kind = "SpeechEnded" => j < i
    /\ \A i, j \in DOMAIN bus : bus[i].kind = "SpeechEnded" /\ bus[j].kind = "SpeechEnded" => i = j
    /\ OnBus("SpeechEnded") => state \in {"Idle", "Listening"}
    /\ speaking /\ OnBus("SpeechEnded") => OnBus("SpeechStarted")
    /\ speaking /\ ~OnBus("SpeechStarted") => state \in {"Idle", "Listening"}

\* What the loop holds while it awaits.
LoopInv ==
    /\ pc \in {"recv", "stopped"} => event = Nothing
    /\ event.kind = "FinalTranscript" => state = "AgentThinking" /\ turn # 0
    /\ pc = "stopped" => bus = <<>> /\ shutdown /\ state = "Idle"
    /\ pc = "text" => buffer # "empty"

\* A turn is over when the loop takes no response before the first n events of the
\* bus are gone; the loop is thinking when it waits for the current turn's responses.
Over(n) == state \in {"Idle", "Listening"} /\ \A j \in 1 .. n : bus[j].kind # "SpeechEnded"
Thinking == state = "AgentThinking" /\ event.kind \notin {"AgentFinalResponse", "FinalTranscript"}

\* Which turns have a task, and which token the loop holds.
TurnTasks ==
    /\ \A t \in Turns : agent[t] = "none" <=> t > turn \/ (t = turn /\ event.kind = "FinalTranscript")
    /\ \A t \in agentCancelled : agent[t] # "none"
    /\ agentToken # 0 => agent[agentToken] # "none" /\ (shutdown \/ agentToken \notin agentCancelled)
    /\ Thinking => agentToken = turn
    /\ shutdown => \A t \in Turns : agent[t] # "none" => t \in agentCancelled
    /\ event.kind \in AgentKinds => event.id = turn /\ turn = agentToken

\* A task at work is that of the current turn, or cancelled and out of the way.
LiveTurns ==
    pc # "stopped" => \A t \in Turns : AgentLive(t) =>
          \/ t = agentToken /\ Thinking
          \/ t \in agentCancelled /\ Over(Len(bus))

\* So are the responses on the bus.
TurnsOnBus ==
    \A i \in DOMAIN bus : bus[i].kind \in AgentKinds =>
          /\ agent[bus[i].id] # "none"
          /\ \/ bus[i].id = agentToken /\ Thinking
             \/ bus[i].id \in agentCancelled /\ Over(i)

\* Nothing follows a final response.
FinalIsLast ==
    \A i \in DOMAIN bus : bus[i].kind = "AgentFinalResponse" =>
          /\ agent[bus[i].id] = "answered"
          /\ \A j \in DOMAIN bus : bus[j].kind \in AgentKinds /\ bus[j].id = bus[i].id => j <= i

AgentInv == TurnTasks /\ LiveTurns /\ TurnsOnBus /\ FinalIsLast

\* The current stream may speak.
Replying == (state = "AgentThinking" /\ textTx # 0) \/ state = "Speaking"

\* The same for the streams, until the session ends: which of them exist, ...
StreamTasks ==
    /\ \A s \in Streams : tts[s] = "none" <=> s > streams
    /\ \A s \in ttsCancelled : s <= streams
    /\ ttsToken <= streams
    /\ shutdown => 1 .. streams \subseteq ttsCancelled

\* ... which may be at work, ...
LiveStreams ==
    /\ textTx # 0 => TtsLive(textTx)
    /\ \A s \in Streams : TtsLive(s) =>
          \/ s = ttsToken /\ Replying
          \/ s \in ttsCancelled /\ Over(Len(bus))

\* ... whose audio may be on the bus, ...
StreamsOnBus ==
    \A i \in DOMAIN bus : bus[i].kind \in TtsKinds =>
          \/ bus[i].id = ttsToken /\ Replying
          \/ bus[i].id \in ttsCancelled /\ Over(i)

\* ... and what ends a stream.
CompleteIsLast ==
    \A i \in DOMAIN bus : bus[i].kind = "TtsComplete" =>
          /\ tts[bus[i].id] = "done"
          /\ \A j \in DOMAIN bus : bus[j].kind \in TtsKinds /\ bus[j].id = bus[i].id => j <= i

TtsInv ==
    /\ StreamTasks
    /\ ~shutdown =>
          /\ ttsToken \notin ttsCancelled
          /\ event.kind \in TtsKinds => event.id = ttsToken
          /\ LiveStreams
          /\ StreamsOnBus
          /\ CompleteIsLast

\* Text of the current turn that went to the buffer leaves a trace there.
PushedInv ==
    /\ \A t \in pushed : agent[t] # "none"
    /\ Thinking /\ turn \in pushed => buffer # "empty"

\* A transcript on the bus is the only one of its utterance.
TranscriptsDone ==
    \A i \in DOMAIN bus : bus[i].kind = "FinalTranscript" =>
        /\ asr[bus[i].id] = "done"
        /\ \A j \in DOMAIN bus :
              bus[j].kind = "FinalTranscript" /\ bus[j].id = bus[i].id => j = i

\* The loop listens when the speaker stops.
EndsHeard ==
    /\ OnBus("SpeechEnded") => state = "Listening"
    /\ speaking /\ ~OnBus("SpeechStarted") /\ pc # "stopped" => state = "Listening"

\* A task opened ahead of its utterance has not transcribed.
EarlyTasks == \A u \in Utterances : u > utt => asr[u] \in {"none", "capturing", "done"}

\* The loop knows, or will, that the last utterance has ended.
EndOfLast == pc = "stopped" \/ OnBus("SpeechEnded") \/ state = "Transcribing"

LastTask == utt # 0 /\ asr[utt] \in {"transcribing", "partial"} => ~speaking /\ EndOfLast

\* A transcript finds the loop transcribing, or a newer utterance behind it.
TranscriptsOnBus ==
    \A i \in DOMAIN bus : bus[i].kind = "FinalTranscript" =>
        \/ /\ bus[i].id = utt /\ ~speaking
           /\ \/ state = "Transcribing"
              \/ \E j \in DOMAIN bus : j < i /\ bus[j].kind = "SpeechEnded"
        \/ /\ bus[i].id < utt
           /\ \E j \in DOMAIN bus : j > i /\ bus[j].kind = "SpeechStarted"

TranscriptInv ==
    /\ TranscriptsDone
    /\ EndsHeard
    /\ ~hungup => EarlyTasks /\ LastTask /\ TranscriptsOnBus

-----------------------------------------------------------------------------
(* The event bus, event by event.                                           *)

\* How the bus changes: one event is added at its end, the first one is taken,
\* or nothing.
Added(e) ==
    /\ DOMAIN bus' = 1 .. Len(bus) + 1 /\ Len(bus') = Len(bus) + 1
    /\ \A i \in DOMAIN bus : bus'[i] = bus[i]
    /\ bus'[Len(bus) + 1] = e

Taken ==
    /\ 1 \in DOMAIN bus /\ Head(bus) = bus[1]
    /\ DOMAIN bus' = 1 .. Len(bus) - 1 /\ Len(bus') = Len(bus) - 1
    /\ \A i \in DOMAIN bus' : i + 1 \in DOMAIN bus /\ bus'[i] = bus[i + 1]
    /\ \A i \in DOMAIN bus : i # 1 => i - 1 \in DOMAIN bus' /\ bus[i] = bus'[i - 1]

LEMMA BusDomain == ASSUME BusTypeOK PROVE DOMAIN bus = 1 .. Len(bus) /\ Len(bus) \in Nat
  BY DEF BusTypeOK

LEMMA PutAdds ==
    ASSUME BusTypeOK, NEW e, e \in Events, Put(e), pc # "stopped"
    PROVE  Added(e)
<1> DEFINE E == Events
<1>1. bus \in Seq(E) /\ e \in E BY DEF BusTypeOK
<1>2. bus' = Append(bus, e) BY DEF Put
<1> HIDE DEF E
<1>3. /\ Append(bus, e) \in Seq(E) /\ Len(Append(bus, e)) = Len(bus) + 1 /\ Len(bus) \in Nat
      /\ DOMAIN bus = 1 .. Len(bus) /\ DOMAIN Append(bus, e) = 1 .. Len(bus) + 1
      /\ \A i \in 1 .. Len(bus) : Append(bus, e)[i] = bus[i]
      /\ Append(bus, e)[Len(bus) + 1] = e
  BY <1>1
<1> QED BY <1>2, <1>3 DEF Added

LEMMA TakeTakes ==
    ASSUME BusTypeOK, bus # <<>>, bus' = Tail(bus)
    PROVE  Taken
<1> DEFINE E == Events
<1>1. bus \in Seq(E) BY DEF BusTypeOK
<1> HIDE DEF E
<1>2. /\ Len(bus) \in Nat \ {0} /\ DOMAIN bus = 1 .. Len(bus)
      /\ Len(Tail(bus)) = Len(bus) - 1 /\ DOMAIN Tail(bus) = 1 .. Len(bus) - 1
      /\ \A i \in 1 .. Len(bus) - 1 : Tail(bus)[i] = bus[i + 1]
      /\ Head(bus) = bus[1]
  BY <1>1
<1> QED BY <1>2 DEF Taken

-----------------------------------------------------------------------------
SpeechMarks == {"SpeechStarted", "SpeechEnded"}

-----------------------------------------------------------------------------
(* The front end's events.                                                  *)

\* Steps that leave the speech events alone.
LEMMA SpeechInvQuiet ==
    ASSUME BusTypeOK, SpeechInv, UNCHANGED speaking,
           state' = state \/ state' \in {"Idle", "Listening"} \/ (state \notin {"Idle", "Listening"} /\ ~OnBus("SpeechEnded")),
           bus' = bus \/ \E e : Added(e) /\ e.kind \notin SpeechMarks,
           speaking /\ ~OnBus("SpeechStarted") => state' \in {"Idle", "Listening"}
    PROVE  SpeechInv'
<1> USE BusDomain
<1>1. CASE bus' = bus
  BY <1>1 DEF SpeechInv, OnBus
<1>2. CASE \E e : Added(e) /\ e.kind \notin SpeechMarks
  BY <1>2 DEF SpeechInv, OnBus, Added, SpeechMarks
<1> QED BY <1>1, <1>2

\* The loop takes an event.
LEMMA SpeechInvTaken ==
    ASSUME BusTypeOK, SpeechInv, UNCHANGED speaking, Taken,
           bus[1].kind = "SpeechStarted" => state' \in {"Idle", "Listening"},
           bus[1].kind \notin SpeechMarks =>
             state' = state \/ state' \in {"Idle", "Listening"} \/ state \notin {"Idle", "Listening"}
    PROVE  SpeechInv'
<1> USE BusDomain
<1>1. \A k : OnBus(k)' => OnBus(k)
  BY DEF OnBus, Taken
<1>2. \A k : OnBus(k) /\ ~OnBus(k)' => k = bus[1].kind
  BY DEF OnBus, Taken
<1>3. OnBus("SpeechEnded")' => state' \in {"Idle", "Listening"}
  BY <1>1 DEF SpeechInv, OnBus, Taken, SpeechMarks
<1>4. speaking /\ OnBus("SpeechEnded")' => OnBus("SpeechStarted")'
  <2> SUFFICES ASSUME speaking, OnBus("SpeechEnded")', ~OnBus("SpeechStarted")' PROVE FALSE
    OBVIOUS
  <2>1. OnBus("SpeechEnded") BY <1>1
  <2>2. bus[1].kind = "SpeechStarted" BY <2>1, <1>2 DEF SpeechInv
  <2> QED BY <2>2 DEF SpeechInv, OnBus, Taken
<1>5. speaking /\ ~OnBus("SpeechStarted")' => state' \in {"Idle", "Listening"}
  <2> SUFFICES ASSUME speaking, ~OnBus("SpeechStarted")' PROVE state' \in {"Idle", "Listening"}
    OBVIOUS
  <2>1. CASE bus[1].kind = "SpeechStarted" BY <2>1
  <2>2. CASE bus[1].kind # "SpeechStarted"
    <3>1. ~OnBus("SpeechStarted") BY <2>2, <1>2
    <3>2. ~OnBus("SpeechEnded") BY <3>1 DEF SpeechInv
    <3>3. bus[1].kind # "SpeechEnded" BY <3>2 DEF OnBus, Taken
    <3> QED BY <2>2, <3>1, <3>3 DEF SpeechInv, SpeechMarks
  <2> QED BY <2>1, <2>2
<1>6. \A i \in DOMAIN bus' : bus'[i].kind = "SpeechStarted" =>
          /\ speaking
          /\ \A j \in DOMAIN bus' : bus'[j].kind = "SpeechStarted" => j = i
          /\ \A j \in DOMAIN bus' : bus'[j].kind = "SpeechEnded" => j < i
  BY DEF SpeechInv, Taken
<1>7. \A i, j \in DOMAIN bus' : bus'[i].kind = "SpeechEnded" /\ bus'[j].kind = "SpeechEnded" => i = j
  BY DEF SpeechInv, Taken
<1> QED BY <1>3, <1>4, <1>5, <1>6, <1>7 DEF SpeechInv

\* The tasks a barge-in cancels, and the loop itself, keep up with the speaker.
TasksKeepUp == {"orchestrator", "agent", "tts"} \subseteq Prompt

\* What a handler takes, and where it may move the state.
LEMMA HandlerMoves ==
    ASSUME TypeOK, HandleEvent
    PROVE  /\ pc = "recv" /\ bus # <<>> /\ bus' = Tail(bus)
           /\ UNCHANGED <<speechVars, agent, partials, lock, text, chunks, shutdown>>
           /\ Head(bus).kind = "SpeechStarted" => state' = "Listening"
           /\ Head(bus).kind \notin SpeechMarks =>
                state' = state \/ state' \in {"Idle", "Listening"} \/ state \notin {"Idle", "Listening"}
<1> USE DEF Accept, Receive, envVars, outside, agentVars, ttsVars, SpeechMarks
<1>1. CASE HandleFirstSpeech BY <1>1 DEF HandleFirstSpeech
<1>2. CASE HandleBargeIn BY <1>2 DEF HandleBargeIn
<1>3. CASE HandleSpeechEnded BY <1>3 DEF HandleSpeechEnded
<1>4. CASE HandlePartialTranscript BY <1>4 DEF HandlePartialTranscript
<1>5. CASE HandleFinalTranscript BY <1>5 DEF HandleFinalTranscript
<1>6. CASE HandleAgentPartial BY <1>6 DEF HandleAgentPartial
<1>7. CASE HandleAgentFinal BY <1>7 DEF HandleAgentFinal
<1>8. CASE HandleTtsAudioChunk BY <1>8 DEF HandleTtsAudioChunk
<1>9. CASE HandleTtsComplete BY <1>9 DEF HandleTtsComplete
<1>10. CASE HandleInterrupt BY <1>10 DEF HandleInterrupt
<1>11. CASE HandleCancel BY <1>11 DEF HandleCancel
<1>12. CASE HandleComponentError BY <1>12 DEF HandleComponentError
<1>13. CASE IgnoreEvent
  <2>1. Head(bus).kind = "SpeechStarted" => state = "Listening"
    BY <1>13 DEF IgnoreEvent, Handles, AgentKinds
  <2> QED BY <1>13, <2>1 DEF IgnoreEvent, orchVars
<1> QED
  BY <1>1, <1>2, <1>3, <1>4, <1>5, <1>6, <1>7, <1>8, <1>9, <1>10, <1>11, <1>12, <1>13
     DEF HandleEvent

LEMMA EventKinds ==
    ASSUME BusTypeOK, NEW i \in DOMAIN bus
    PROVE  /\ bus[i].kind \in AgentKinds => bus[i].id \in Turns
           /\ bus[i].kind \in TtsKinds => bus[i].id \in Streams
           /\ bus[i].kind \in SpeechKinds => bus[i].id \in Utterances
<1>1. bus[i] \in Events BY DEF BusTypeOK
<1> QED BY <1>1, Bounds DEF Events, AgentKinds, SpeechKinds, TtsKinds, Utterances, Turns,
  Streams

LEMMA SpeechInvNext ==
    ASSUME IInv, SpeechInv, LoopInv, TasksKeepUp, [Next]_vars
    PROVE  SpeechInv'
<1> USE BusDomain DEF backVars, orchVars, speechVars
<1>0. TypeOK /\ BusTypeOK /\ (pc # "stopped" \/ (bus = <<>> /\ state = "Idle"))
  BY DEF IInv, TypeOK, LoopInv
<1>1. ASSUME NEW e \in Events, Put(e), e.kind \notin SpeechMarks,
             UNCHANGED <<speaking, state>>
      PROVE  SpeechInv'
  <2>1. bus' = bus \/ Added(e) BY <1>0, <1>1, PutAdds DEF Put
  <2>2. speaking /\ ~OnBus("SpeechStarted") => state' \in {"Idle", "Listening"}
    BY <1>1 DEF SpeechInv
  <2> QED BY <1>0, <1>1, <2>1, <2>2, SpeechInvQuiet
<1>2. ASSUME UNCHANGED <<speaking, state, bus>> PROVE SpeechInv'
  BY <1>2 DEF SpeechInv, OnBus
<1>3. CASE SendSpeechStarted
  <2>1. Event("SpeechStarted", utt + 1) \in Events /\ Event("SpeechStarted", utt + 1).kind = "SpeechStarted"
    BY <1>0, <1>3, Bounds DEF SendSpeechStarted, StartUtterance, Event, Events, SpeechKinds,
      Utterances, TypeOK, SpeechTypeOK
  <2>2. (pc = "stopped" /\ bus' = bus) \/ Added(Event("SpeechStarted", utt + 1))
    BY <1>0, <1>3, <2>1, PutAdds DEF Put, SendSpeechStarted
  <2>3. ~speaking /\ speaking' /\ state' = state BY <1>3 DEF SendSpeechStarted, StartUtterance
  <2>4. ~OnBus("SpeechStarted") BY <2>3 DEF SpeechInv, OnBus
  <2>5. CASE pc = "stopped" /\ bus' = bus
    BY <1>0, <2>3, <2>5 DEF SpeechInv, OnBus
  <2>6. CASE Added(Event("SpeechStarted", utt + 1))
    BY <1>0, <2>1, <2>3, <2>4, <2>6 DEF SpeechInv, OnBus, Added
  <2> QED BY <2>2, <2>5, <2>6
<1>4. CASE SendSpeechEnded
  <2>1. Event("SpeechEnded", utt) \in Events /\ Event("SpeechEnded", utt).kind = "SpeechEnded"
    BY <1>0, <1>4, Bounds DEF SendSpeechEnded, EndUtterance, Event, Events, SpeechKinds,
      Utterances, TypeOK, SpeechTypeOK
  <2>2. bus' = bus \/ Added(Event("SpeechEnded", utt))
    BY <1>0, <1>4, <2>1, PutAdds DEF Put, SendSpeechEnded
  <2>3. speaking /\ ~speaking' /\ state' = state BY <1>4 DEF SendSpeechEnded, EndUtterance
  <2>4. ~OnBus("SpeechStarted") BY <1>4 DEF SendSpeechEnded, KeepsUp, TasksKeepUp, OnBus
  <2>5. ~OnBus("SpeechEnded") /\ state \in {"Idle", "Listening"} BY <2>3, <2>4 DEF SpeechInv
  <2> QED BY <1>0, <2>1, <2>2, <2>3, <2>4, <2>5 DEF SpeechInv, OnBus, Added
<1>5. CASE FrontEnd /\ ~SendSpeechStarted /\ ~SendSpeechEnded
  <2>1. CASE \E u \in Utterances : SendPartialTranscript(u) \/ SendFinalTranscript(u)
    <3>1. PICK u \in Utterances : SendPartialTranscript(u) \/ SendFinalTranscript(u) BY <2>1
    <3>2. /\ Event("PartialTranscript", u) \in Events /\ Event("FinalTranscript", u) \in Events
          /\ Event("PartialTranscript", u).kind = "PartialTranscript"
          /\ Event("FinalTranscript", u).kind = "FinalTranscript"
      BY DEF Event, Events, SpeechKinds
    <3> QED BY <1>1, <3>1, <3>2
            DEF SendPartialTranscript, SendFinalTranscript, PartialText, FinalText, SpeechMarks
  <2>2. CASE AsrOpensEarly \/ AudioEnds \/ \E u \in Utterances : AsrEndsSilently(u)
    BY <1>2, <2>2 DEF AsrOpensEarly, AudioEnds, AsrEndsSilently, OpenCapture, HangUp, NoText
  <2> QED BY <1>5, <2>1, <2>2 DEF FrontEnd
<1>6. CASE \E k \in Signals : SendSignal(k)
  <2>1. PICK k \in Signals : SendSignal(k) BY <1>6
  <2>2. Event(k, 0) \in Events /\ Event(k, 0).kind \notin SpeechMarks
    BY Bounds DEF Event, Events, SpeechMarks
  <2> QED BY <1>1, <2>1, <2>2 DEF SendSignal
<1>7. CASE HandleEvent
  <2>1. Taken BY <1>0, <1>7, HandlerMoves, TakeTakes
  <2> QED BY <1>0, <1>7, <2>1, HandlerMoves, SpeechInvTaken DEF Taken
<1>8. CASE SendSentence \/ SentenceRefused
  <2>1. /\ UNCHANGED <<speaking, bus>> /\ state = "AgentThinking"
        /\ state' = state \/ state' = "Speaking"
    BY <1>8 DEF SendSentence, SentenceRefused, LeaveText, textFrame, IInv, ClientAgrees
  <2>2. ~OnBus("SpeechEnded") /\ ~(speaking /\ ~OnBus("SpeechStarted"))
    BY <2>1 DEF SpeechInv
  <2> QED BY <1>0, <2>1, <2>2, SpeechInvQuiet
<1>9. CASE StopOrchestrator
  BY <1>9, Bounds DEF StopOrchestrator, envVars, SpeechInv, OnBus
<1>10. CASE SendEgress \/ DrainEgress \/ Shutdown
  BY <1>2, <1>10 DEF SendEgress, DrainEgress, Shutdown
<1>11. CASE \E t \in Turns : AgentStep(t)
  <2>1. PICK t \in Turns : AgentStep(t) BY <1>11
  <2>2. /\ Event("AgentPartialResponse", t) \in Events /\ Event("AgentFinalResponse", t) \in Events
        /\ Event("AgentPartialResponse", t).kind = "AgentPartialResponse"
        /\ Event("AgentFinalResponse", t).kind = "AgentFinalResponse"
    BY DEF Event, Events, AgentKinds
  <2>3. CASE AgentPartial(t) \/ AgentFinal(t)
    BY <1>1, <2>2, <2>3 DEF AgentPartial, AgentFinal, agentFrame, SpeechMarks
  <2>4. CASE AgentLock(t) \/ LlmCallsAgain(t) \/ LlmCompletes(t) \/ LlmStops(t) \/ AgentEnds(t)
    BY <1>2, <2>4 DEF AgentLock, LlmCallsAgain, LlmCompletes, LlmStops, AgentEnds, agentFrame
  <2> QED BY <2>1, <2>3, <2>4 DEF AgentStep
<1>12. CASE \E s \in Streams : TtsStep(s)
  <2>1. PICK s \in Streams : TtsStep(s) BY <1>12
  <2>2. /\ Event("TtsAudioChunk", s) \in Events /\ Event("TtsComplete", s) \in Events
        /\ Event("TtsAudioChunk", s).kind = "TtsAudioChunk"
        /\ Event("TtsComplete", s).kind = "TtsComplete"
    BY DEF Event, Events, TtsKinds
  <2>3. CASE TtsChunk(s) \/ TtsFinishes(s)
    BY <1>1, <2>2, <2>3 DEF TtsChunk, TtsFinishes, ttsFrame, SpeechMarks
  <2>4. CASE TtsStart(s) \/ TtsTake(s) \/ TtsStops(s)
    BY <1>2, <2>4 DEF TtsStart, TtsTake, TtsStops, ttsFrame
  <2> QED BY <2>1, <2>3, <2>4 DEF TtsStep
<1>13. CASE UNCHANGED vars
  BY <1>2, <1>13 DEF vars
<1> QED
  BY <1>3, <1>4, <1>5, <1>6, <1>7, <1>8, <1>9, <1>10, <1>11, <1>12, <1>13
    DEF Next, OrchestratorStep

\* A step of another task: the loop stands still, and a loop that is gone gets no
\* event.
LEMMA Elsewhere ==
    ASSUME [Next]_vars, ~OrchestratorStep
    PROVE  /\ UNCHANGED orchVars /\ (shutdown => shutdown')
           /\ pc = "stopped" => UNCHANGED bus
<1> USE DEF orchVars, backVars, outside, Put
<1>1. CASE FrontEnd
  BY <1>1 DEF FrontEnd, SendSpeechStarted, SendSpeechEnded, SendPartialTranscript,
    SendFinalTranscript, AsrEndsSilently, AsrOpensEarly, AudioEnds
<1>2. CASE DrainEgress \/ Shutdown \/ \E k \in Signals : SendSignal(k)
  BY <1>2 DEF DrainEgress, Shutdown, SendSignal
<1>3. CASE \E t \in Turns : AgentStep(t)
  <2>1. PICK t \in Turns : AgentStep(t) BY <1>3
  <2>2. UNCHANGED agentFrame
    BY <2>1 DEF AgentStep, AgentLock, LlmCallsAgain, AgentPartial, LlmCompletes, LlmStops,
      AgentFinal, AgentEnds
  <2>3. pc = "stopped" => UNCHANGED bus
    BY <2>1 DEF AgentStep, AgentLock, LlmCallsAgain, AgentPartial, LlmCompletes, LlmStops,
      AgentFinal, AgentEnds
  <2> QED BY <2>2, <2>3 DEF agentFrame
<1>4. CASE \E s \in Streams : TtsStep(s)
  BY <1>4 DEF TtsStep, TtsStart, TtsTake, TtsChunk, TtsFinishes, TtsStops, ttsFrame
<1>5. CASE UNCHANGED vars
  BY <1>5 DEF vars
<1> QED BY <1>1, <1>2, <1>3, <1>4, <1>5 DEF Next

LEMMA LoopInvNext ==
    ASSUME IInv, LoopInv, [Next]_vars
    PROVE  LoopInv'
<1> USE DEF Nothing, Event
<1>1. CASE ~OrchestratorStep
  BY <1>1, Elsewhere DEF LoopInv, orchVars
<1>2. CASE HandleEvent
  <2> USE DEF Accept, Receive, Forward, Done, LoopInv, IInv, TypeOK, LoopTypeOK
  <2>1. CASE HandleFirstSpeech BY <2>1 DEF HandleFirstSpeech
  <2>2. CASE HandleBargeIn BY <2>2 DEF HandleBargeIn
  <2>3. CASE HandleSpeechEnded BY <2>3 DEF HandleSpeechEnded
  <2>4. CASE HandlePartialTranscript BY <2>4 DEF HandlePartialTranscript
  <2>5. CASE HandleFinalTranscript BY <2>5, Bounds DEF HandleFinalTranscript
  <2>6. CASE HandleAgentPartial BY <2>6 DEF HandleAgentPartial
  <2>7. CASE HandleAgentFinal BY <2>7 DEF HandleAgentFinal
  <2>8. CASE HandleTtsAudioChunk BY <2>8 DEF HandleTtsAudioChunk
  <2>9. CASE HandleTtsComplete BY <2>9 DEF HandleTtsComplete
  <2>10. CASE HandleInterrupt BY <2>10 DEF HandleInterrupt
  <2>11. CASE HandleCancel BY <2>11 DEF HandleCancel
  <2>12. CASE HandleComponentError BY <2>12 DEF HandleComponentError
  <2>13. CASE IgnoreEvent BY <2>13 DEF IgnoreEvent, orchVars
  <2> QED
    BY <1>2, <2>1, <2>2, <2>3, <2>4, <2>5, <2>6, <2>7, <2>8, <2>9, <2>10, <2>11, <2>12, <2>13
       DEF HandleEvent
<1>3. CASE SendSentence \/ SentenceRefused
  BY <1>3 DEF SendSentence, SentenceRefused, LeaveText, textFrame, LoopInv, IInv, ClientAgrees,
    AgentKinds
<1>4. CASE SendEgress
  BY <1>4 DEF SendEgress, Done, LoopInv
<1>5. CASE StopOrchestrator
  BY <1>5 DEF StopOrchestrator, envVars, outside, LoopInv
<1> QED BY <1>1, <1>2, <1>3, <1>4, <1>5 DEF OrchestratorStep

LEMMA TakenShortens == ASSUME BusTypeOK, Taken PROVE Len(bus') < Len(bus) /\ bus' # bus
<1>1. Len(bus') = Len(bus) - 1 BY DEF Taken
<1>2. Len(bus) \in Nat BY BusDomain
<1>3. Len(bus') < Len(bus) BY <1>1, <1>2
<1>4. ASSUME bus' = bus PROVE FALSE
  <2>1. Len(bus') = Len(bus) BY <1>4
  <2> QED BY <1>3, <2>1, <1>2
<1> QED BY <1>3, <1>4

LEMMA AddedLengthens == ASSUME BusTypeOK, NEW e, Added(e) PROVE ~Taken
<1>1. Len(bus') = Len(bus) + 1 BY DEF Added
<1>2. Len(bus) \in Nat BY BusDomain
<1>3. Taken => Len(bus') = Len(bus) - 1 BY DEF Taken
<1> QED BY <1>1, <1>2, <1>3

-----------------------------------------------------------------------------
(* The agent's turns.                                                       *)

\* What an index of the bus becomes, for the events before SpeechEnded.
LEMMA OverKept ==
    ASSUME BusTypeOK,
           \/ bus' = bus
           \/ \E e : Added(e) /\ e.kind # "SpeechEnded"
           \/ Taken,
           state \in {"Idle", "Listening"} => state' \in {"Idle", "Listening"}
    PROVE  /\ Over(Len(bus)) => Over(Len(bus))'
           /\ ~Taken => \A i \in DOMAIN bus : Over(i) => Over(i)'
           /\ Taken => \A i \in DOMAIN bus' : Over(i + 1) => Over(i)'
<1> USE BusDomain
<1>1. CASE bus' = bus
  <2>1. ~Taken BY <1>1, TakenShortens
  <2>2. \A n : Over(n) => Over(n)' BY <1>1 DEF Over
  <2> QED BY <1>1, <2>1, <2>2
<1>2. CASE \E e : Added(e) /\ e.kind # "SpeechEnded"
  <2>1. PICK e : Added(e) /\ e.kind # "SpeechEnded" BY <1>2
  <2>2. Over(Len(bus)) => Over(Len(bus))' BY <2>1 DEF Over, Added
  <2>3. \A i \in DOMAIN bus : Over(i) => Over(i)' BY <2>1 DEF Over, Added
  <2>4. ~Taken BY <2>1, AddedLengthens
  <2> QED BY <2>2, <2>3, <2>4
<1>3. CASE Taken
  <2>1. Over(Len(bus)) => Over(Len(bus))'
    <3> SUFFICES ASSUME Over(Len(bus)), NEW j \in 1 .. Len(bus') PROVE bus'[j].kind # "SpeechEnded"
      BY DEF Over
    <3>1. j + 1 \in 1 .. Len(bus) /\ bus'[j] = bus[j + 1] BY <1>3 DEF Taken
    <3> QED BY <3>1 DEF Over
  <2>2. ASSUME NEW i \in DOMAIN bus', Over(i + 1) PROVE Over(i)'
    <3> SUFFICES ASSUME NEW j \in 1 .. i PROVE bus'[j].kind # "SpeechEnded"
      BY <2>2 DEF Over
    <3>1. j + 1 \in 1 .. i + 1 /\ bus'[j] = bus[j + 1] BY <1>3, <2>2 DEF Taken
    <3> QED BY <2>2, <3>1 DEF Over
  <2> QED BY <1>3, <2>1, <2>2
<1> QED BY <1>1, <1>2, <1>3

\* Where an event of the bus was before.
LEMMA BusSteps ==
    ASSUME BusTypeOK
    PROVE  /\ \A e : Added(e) => \A i \in DOMAIN bus' :
                  \/ i \in DOMAIN bus /\ bus'[i] = bus[i]
                  \/ i = Len(bus) + 1 /\ bus'[i] = e
           /\ Taken => \A i \in DOMAIN bus' : i + 1 \in DOMAIN bus /\ bus'[i] = bus[i + 1] /\ i \in Nat \ {0}
           /\ DOMAIN bus \subseteq Nat
<1> USE BusDomain
<1>1. ASSUME NEW e, Added(e), NEW i \in DOMAIN bus'
      PROVE  \/ i \in DOMAIN bus /\ bus'[i] = bus[i]
             \/ i = Len(bus) + 1 /\ bus'[i] = e
  BY <1>1 DEF Added
<1>2. ASSUME Taken, NEW i \in DOMAIN bus'
      PROVE  i + 1 \in DOMAIN bus /\ bus'[i] = bus[i + 1] /\ i \in Nat \ {0}
  BY <1>2 DEF Taken
<1> QED BY <1>1, <1>2

\* Steps that leave the turns' tasks and the current turn as they are.
LEMMA AgentInvKept ==
    ASSUME TypeOK, AgentInv,
           UNCHANGED <<agent, agentCancelled, agentToken, shutdown, turn>>,
           \/ bus' = bus
           \/ \E e : Added(e) /\ e.kind \notin AgentKinds \cup {"SpeechEnded"}
           \/ Taken,
           Thinking' <=> Thinking,
           state \in {"Idle", "Listening"} =>
               state' \in {"Idle", "Listening"} \/ (Taken /\ bus[1].kind = "SpeechEnded"),
           (event.kind = "FinalTranscript")' <=> event.kind = "FinalTranscript",
           event'.kind \in AgentKinds =>
               event' = event \/ (Taken /\ event' = bus[1] /\ state = "AgentThinking"),
           (pc' = "stopped") <=> (pc = "stopped")
    PROVE  AgentInv'
<1>0. BusTypeOK BY DEF TypeOK
<1>1. TurnTasks'
  <2>1. (event.kind \in AgentKinds => event.id = turn /\ turn = agentToken)'
    <3>1. CASE event' = event BY <3>1 DEF AgentInv, TurnTasks
    <3>2. CASE Taken /\ event' = bus[1] /\ state = "AgentThinking"
      BY <3>2 DEF AgentInv, TurnTasks, TurnsOnBus, Over, Taken
    <3> QED BY <3>1, <3>2
  <2> QED BY <2>1 DEF AgentInv, TurnTasks, Turns
<1>2. ASSUME state \in {"Idle", "Listening"} => state' \in {"Idle", "Listening"}
      PROVE  LiveTurns' /\ TurnsOnBus'
  <2>1. Over(Len(bus)) => Over(Len(bus))' BY <1>0, <1>2, OverKept
  <2>2. LiveTurns' BY <2>1 DEF AgentInv, LiveTurns, AgentLive, Turns
  <2>3. CASE Taken
    <3>1. \A i \in DOMAIN bus' : i + 1 \in DOMAIN bus /\ bus'[i] = bus[i + 1] /\ (Over(i + 1) => Over(i)')
      BY <1>0, <1>2, <2>3, OverKept, BusSteps
    <3> QED BY <2>2, <3>1 DEF AgentInv, TurnsOnBus
  <2>4. CASE ~Taken
    <3>1. \A i \in DOMAIN bus' : bus'[i].kind \in AgentKinds =>
             i \in DOMAIN bus /\ bus'[i] = bus[i] /\ (Over(i) => Over(i)')
      BY <1>0, <1>2, <2>4, OverKept, BusSteps
    <3> QED BY <2>2, <3>1 DEF AgentInv, TurnsOnBus
  <2> QED BY <2>3, <2>4
<1>3. ASSUME Taken, bus[1].kind = "SpeechEnded"
      PROVE  LiveTurns' /\ TurnsOnBus'
  <2>1. \A i \in DOMAIN bus : ~Over(i) BY <1>0, <1>3, BusDomain DEF Over
  <2>2. ~Over(Len(bus)) BY <1>0, <1>3, <2>1, BusDomain DEF Taken
  <2>3. \A i \in DOMAIN bus' : i + 1 \in DOMAIN bus /\ bus'[i] = bus[i + 1] BY <1>0, <1>3,
    BusSteps
  <2> QED BY <2>1, <2>2, <2>3 DEF AgentInv, LiveTurns, TurnsOnBus, AgentLive, Turns
<1>4. FinalIsLast'
  <2>1. CASE Taken
    <3>1. \A i \in DOMAIN bus' : i + 1 \in DOMAIN bus /\ bus'[i] = bus[i + 1] /\ i \in Nat
      BY <1>0, <2>1, BusSteps
    <3> QED BY <3>1 DEF AgentInv, FinalIsLast
  <2>2. CASE ~Taken
    <3>1. \A i \in DOMAIN bus' : bus'[i].kind \in AgentKinds => i \in DOMAIN bus /\ bus'[i] = bus[i]
      BY <1>0, <2>2, BusSteps
    <3> QED BY <3>1 DEF AgentInv, FinalIsLast, AgentKinds
  <2> QED BY <2>1, <2>2
<1> QED BY <1>1, <1>2, <1>3, <1>4 DEF AgentInv

\* Cancelling: what was current is cancelled now, and no SpeechEnded is ahead of it.
LEMMA AgentInvCancelled ==
    ASSUME TypeOK, AgentInv, SpeechInv, pc # "stopped", event.kind # "FinalTranscript",
           agentCancelled' = agentCancelled \cup ({agentToken} \ {0}), agentToken' = 0,
           UNCHANGED <<agent, shutdown, turn>>,
           state' \in {"Idle", "Listening"},
           event'.kind \notin AgentKinds \cup {"FinalTranscript"},
           Taken \/ (bus' = <<>> /\ pc' = "stopped")
    PROVE  AgentInv'
<1>0. /\ BusTypeOK /\ agentToken \in Nat /\ agentCancelled \subseteq Turns
      /\ agentToken # 0 => agentToken \in Turns
  BY Bounds DEF TypeOK, LoopTypeOK, TokenTypeOK, Turns
<1>1. TurnTasks'
  BY <1>0 DEF AgentInv, TurnTasks, Turns, Thinking
<1>2. CASE bus' = <<>> /\ pc' = "stopped"
  <2>1. DOMAIN bus' = {} BY <1>2
  <2> QED BY <1>1, <1>2, <2>1 DEF AgentInv, LiveTurns, TurnsOnBus, FinalIsLast
<1>3. CASE Taken
  <2>0. state \in {"Idle", "Listening"} => state' \in {"Idle", "Listening"} OBVIOUS
  <2>1. /\ Over(Len(bus)) => Over(Len(bus))'
        /\ \A i \in DOMAIN bus' : Over(i + 1) => Over(i)'
    BY <1>0, <1>3, <2>0, OverKept
  <2>2. \A i \in DOMAIN bus' : i + 1 \in DOMAIN bus /\ bus'[i] = bus[i + 1] /\ i \in Nat
    BY <1>0, <1>3, BusSteps
  <2>3. DOMAIN bus' = 1 .. Len(bus') BY <1>0, <1>3, BusDomain DEF Taken
  <2>4. ASSUME Thinking PROVE \A j \in DOMAIN bus' : bus'[j].kind # "SpeechEnded"
    BY <2>2, <2>4 DEF SpeechInv, OnBus, Thinking
  <2>5. ASSUME Thinking PROVE Over(Len(bus))' /\ \A i \in DOMAIN bus' : Over(i)'
    BY <2>2, <2>3, <2>4, <2>5 DEF Over
  <2>6. LiveTurns'
    BY <1>0, <2>1, <2>5 DEF AgentInv, LiveTurns, AgentLive, Turns
  <2>7. TurnsOnBus'
    <3> SUFFICES ASSUME NEW i \in DOMAIN bus', bus'[i].kind \in AgentKinds
                 PROVE  agent'[bus'[i].id] # "none" /\ bus'[i].id \in agentCancelled' /\ Over(i)'
      BY DEF TurnsOnBus
    <3>1. i + 1 \in DOMAIN bus /\ bus'[i] = bus[i + 1] BY <2>2
    <3>2. bus[i + 1].id \in Turns BY <1>0, <3>1, EventKinds
    <3>3. bus[i + 1].id # 0 BY <3>2 DEF Turns
    <3> QED BY <2>1, <2>5, <3>1, <3>3 DEF AgentInv, TurnsOnBus
  <2>8. FinalIsLast'
    BY <2>2 DEF AgentInv, FinalIsLast
  <2> QED BY <1>1, <2>6, <2>7, <2>8 DEF AgentInv
<1> QED BY <1>2, <1>3

\* A step of the task of turn t, that may put an event of its own on the bus.
LEMMA AgentInvTask ==
    ASSUME TypeOK, AgentInv, NEW t \in Turns, AgentLive(t), NEW x \in Task!States \ {"none"},
           agent' = [agent EXCEPT ![t] = x], AgentLive(t)' \/ x \in {"answered", "unanswered"},
           UNCHANGED orchVars, UNCHANGED <<agentCancelled, shutdown>>,
           \/ bus' = bus
           \/ /\ pc # "stopped"
              /\ \E e : /\ Added(e) /\ e.kind \in AgentKinds /\ e.id = t
                        /\ e.kind = "AgentFinalResponse" => x = "answered"
    PROVE  AgentInv'
<1>0. /\ BusTypeOK /\ agent \in [Turns -> Task!States] /\ agentToken \in 0 .. MaxUtterances
      /\ agentToken # 0 => agentToken \in Turns
  BY Bounds DEF TypeOK, LoopTypeOK, AgentTypeOK, Turns
<1>1. /\ \A u \in Turns : AgentLive(u)' => AgentLive(u)
      /\ agent[t] \notin {"none", "answered"}
      /\ \A u \in Turns : agent'[u] = "none" <=> agent[u] = "none"
      /\ \A u \in Turns : agent[u] = "answered" => agent'[u] = "answered" /\ u # t
      /\ agent'[t] = x
  BY <1>0 DEF AgentLive
<1>2. UNCHANGED <<pc, state, event, turn, agentToken>> BY DEF orchVars
<1>3. TurnTasks'
  BY <1>0, <1>1, <1>2 DEF AgentInv, TurnTasks, Thinking, TypeOK, TokenTypeOK
<1>4. CASE bus' = bus
  <2>1. LiveTurns' BY <1>1, <1>2, <1>4 DEF AgentInv, LiveTurns, Thinking, Over
  <2>2. TurnsOnBus' /\ FinalIsLast'
    BY <1>0, <1>1, <1>2, <1>4, EventKinds
      DEF AgentInv, TurnsOnBus, FinalIsLast, Thinking, Over, AgentKinds
  <2> QED BY <1>3, <2>1, <2>2 DEF AgentInv
<1>5. CASE pc # "stopped" /\ bus' # bus
  <2>1. PICK e : /\ Added(e) /\ e.kind \in AgentKinds /\ e.id = t
                 /\ e.kind = "AgentFinalResponse" => x = "answered"
    BY <1>5
  <2>2. /\ Over(Len(bus)) => Over(Len(bus))'
        /\ \A i \in DOMAIN bus : Over(i) => Over(i)'
    <3>1. ~Taken BY <1>0, <2>1, AddedLengthens
    <3>2. e.kind # "SpeechEnded" BY <2>1 DEF AgentKinds
    <3> QED BY <1>0, <1>2, <2>1, <3>1, <3>2, OverKept
  <2>3. \A i \in DOMAIN bus' : \/ i \in DOMAIN bus /\ bus'[i] = bus[i]
                               \/ i = Len(bus') /\ bus'[i] = e
    BY <1>0, <2>1, BusSteps DEF Added
  <2>4. LiveTurns' BY <1>1, <1>2, <2>2 DEF AgentInv, LiveTurns, Thinking
  <2>5. TurnsOnBus'
    <3> SUFFICES ASSUME NEW i \in DOMAIN bus', bus'[i].kind \in AgentKinds
                 PROVE  /\ agent'[bus'[i].id] # "none"
                        /\ \/ bus'[i].id = agentToken /\ Thinking
                           \/ bus'[i].id \in agentCancelled /\ Over(i)'
      BY <1>2 DEF TurnsOnBus, Thinking
    <3>1. CASE i \in DOMAIN bus /\ bus'[i] = bus[i]
      <4>1. bus[i].id \in Turns BY <1>0, <3>1, EventKinds
      <4> QED BY <1>1, <2>2, <3>1, <4>1 DEF AgentInv, TurnsOnBus
    <3>2. CASE i = Len(bus') /\ bus'[i] = e
      BY <1>1, <1>5, <2>1, <2>2, <3>2 DEF AgentInv, LiveTurns
    <3> QED BY <2>3, <3>1, <3>2
  <2>6. FinalIsLast'
    <3>0. Len(bus') \in Nat /\ DOMAIN bus' = 1 .. Len(bus') /\ DOMAIN bus = 1 .. Len(bus) /\ Len(bus') = Len(bus) + 1
      BY <1>0, <2>1, BusDomain DEF Added
    <3> SUFFICES ASSUME NEW i \in DOMAIN bus', bus'[i].kind = "AgentFinalResponse"
                 PROVE  /\ agent'[bus'[i].id] = "answered"
                        /\ \A j \in DOMAIN bus' : bus'[j].kind \in AgentKinds /\ bus'[j].id = bus'[i].id => j <= i
      BY DEF FinalIsLast
    <3>1. CASE i \in DOMAIN bus /\ bus'[i] = bus[i]
      <4>1. bus[i].id \in Turns BY <1>0, <3>1, EventKinds DEF AgentKinds
      <4>2. bus[i].id # t /\ agent'[bus[i].id] = "answered"
        BY <1>1, <3>1, <4>1 DEF AgentInv, FinalIsLast
      <4> QED BY <1>1, <2>1, <2>3, <3>1, <4>2 DEF AgentInv, FinalIsLast
    <3>2. CASE i = Len(bus') /\ bus'[i] = e
      BY <1>1, <2>1, <3>0, <3>2
    <3> QED BY <2>3, <3>1, <3>2
  <2> QED BY <1>3, <2>4, <2>5, <2>6 DEF AgentInv
<1> QED BY <1>4, <1>5

\* SpeechEnded is sent once no cancelled turn is at work any more.
LEMMA AgentInvSpeechEnded ==
    ASSUME TypeOK, AgentInv, \A t \in agentCancelled : ~AgentLive(t),
           UNCHANGED orchVars, UNCHANGED <<agent, agentCancelled, shutdown>>,
           bus' = bus \/ \E e : Added(e) /\ e.kind = "SpeechEnded"
    PROVE  AgentInv'
<1>0. BusTypeOK BY DEF TypeOK
<1>1. UNCHANGED <<pc, state, event, turn, agentToken>> BY DEF orchVars
<1>2. TurnTasks' /\ LiveTurns'
  BY <1>1 DEF AgentInv, TurnTasks, LiveTurns, Thinking, AgentLive, Turns
<1>3. CASE bus' = bus
  BY <1>1, <1>2, <1>3 DEF AgentInv, TurnsOnBus, FinalIsLast, Thinking, Over
<1>4. CASE \E e : Added(e) /\ e.kind = "SpeechEnded"
  <2>1. PICK e : Added(e) /\ e.kind = "SpeechEnded" BY <1>4
  <2>2. \A i \in DOMAIN bus : Over(i) => Over(i)' BY <1>0, <1>1, <2>1, BusDomain DEF Over, Added
  <2>3. \A i \in DOMAIN bus' : bus'[i].kind \in AgentKinds => i \in DOMAIN bus /\ bus'[i] = bus[i]
    BY <1>0, <2>1, BusSteps DEF AgentKinds
  <2> QED BY <1>1, <1>2, <2>2, <2>3 DEF AgentInv, TurnsOnBus, FinalIsLast, Thinking, AgentKinds
<1> QED BY <1>3, <1>4

\* A transcript begins the next turn: no earlier one is at work or heard of.
LEMMA AgentInvTranscript ==
    ASSUME IInv, LoopInv, AgentInv, HandleFinalTranscript
    PROVE  AgentInv'
<1>0. /\ BusTypeOK /\ turn \in Nat /\ pc = "recv" /\ event = Nothing /\ state = "Transcribing"
      /\ turn' = turn + 1 /\ state' = "AgentThinking" /\ pc' = "egress" /\ event'.kind = "FinalTranscript"
      /\ UNCHANGED <<agent, agentToken, agentCancelled, shutdown>>
      /\ bus # <<>> /\ bus' = Tail(bus)
  BY Bounds DEF HandleFinalTranscript, Accept, Receive, Forward, IInv, TypeOK, LoopTypeOK,
    LoopInv,
    agentVars, tokenVars, tokenHandles, envVars, outside
<1>1. Taken BY <1>0, TakeTakes
<1>2. ~Thinking /\ ~Thinking' /\ \A n : ~Over(n) BY <1>0 DEF Thinking, Over
<1>3. TurnTasks'
  BY <1>0, <1>2 DEF AgentInv, TurnTasks, Turns, Nothing, Event, AgentKinds
<1>4. \A i \in DOMAIN bus' : i + 1 \in DOMAIN bus /\ bus'[i] = bus[i + 1] BY <1>0, <1>1,
  BusSteps
<1>5. LiveTurns' BY <1>0, <1>2 DEF AgentInv, LiveTurns, AgentLive, Turns
<1>6. TurnsOnBus' /\ FinalIsLast'
  BY <1>2, <1>4 DEF AgentInv, TurnsOnBus, FinalIsLast, AgentKinds
<1> QED BY <1>3, <1>5, <1>6 DEF AgentInv

\* The final response of a turn is the last that is heard of it.
LEMMA AgentInvAnswer ==
    ASSUME IInv, LoopInv, AgentInv, HandleAgentFinal
    PROVE  AgentInv'
<1>0. /\ BusTypeOK /\ pc = "recv" /\ event = Nothing /\ state = "AgentThinking"
      /\ state' \in {"AgentThinking", "Speaking"} /\ pc' # "stopped" /\ event' = Head(bus)
      /\ UNCHANGED <<agent, agentToken, agentCancelled, shutdown, turn>>
      /\ bus # <<>> /\ bus' = Tail(bus) /\ Head(bus).kind = "AgentFinalResponse"
  BY DEF HandleAgentFinal, Receive, IInv, TypeOK, LoopInv, agentVars, envVars, outside
<1>1. Taken BY <1>0, TakeTakes
<1>2. Thinking /\ ~Thinking' /\ \A n : ~Over(n)
  BY <1>0 DEF Thinking, Over, Nothing, Event
<1>3. event' = bus[1] /\ 1 \in DOMAIN bus /\ bus[1].kind = "AgentFinalResponse"
  BY <1>0, <1>1 DEF Taken
<1>4. bus[1].id = agentToken /\ agentToken = turn /\ agent[bus[1].id] = "answered"
  BY <1>2, <1>3 DEF AgentInv, TurnTasks, TurnsOnBus, FinalIsLast, AgentKinds
<1>5. TurnTasks'
  BY <1>0, <1>2, <1>3, <1>4 DEF AgentInv, TurnTasks, Turns, Nothing, Event
<1>6. \A i \in DOMAIN bus' : i + 1 \in DOMAIN bus /\ bus'[i] = bus[i + 1] /\ i + 1 > 1
  BY <1>0, <1>1, BusSteps
<1>7. \A i \in DOMAIN bus' : bus'[i].kind \notin AgentKinds
  <2> SUFFICES ASSUME NEW i \in DOMAIN bus', bus'[i].kind \in AgentKinds PROVE FALSE
    OBVIOUS
  <2>1. bus[i + 1].id = agentToken BY <1>2, <1>6 DEF AgentInv, TurnsOnBus
  <2>2. i + 1 <= 1 BY <1>3, <1>4, <1>6, <2>1 DEF AgentInv, FinalIsLast
  <2>3. i \in Nat \ {0} BY <1>0, <1>1, BusSteps
  <2> QED BY <2>2, <2>3
<1>8. LiveTurns'
  BY <1>0, <1>2, <1>4 DEF AgentInv, LiveTurns, AgentLive, Turns
<1> QED BY <1>5, <1>7, <1>8 DEF AgentInv, TurnsOnBus, FinalIsLast, AgentKinds

\* trigger_agent: the turn's task is the only one at work.
LEMMA AgentInvSpawn ==
    ASSUME IInv, LoopInv, AgentInv, SendEgress
    PROVE  AgentInv'
<1>0. /\ TypeOK /\ pc = "egress" /\ pc' = "recv" /\ event' = Nothing
      /\ UNCHANGED <<bus, state, turn, shutdown>>
  BY DEF IInv, SendEgress, Done
<1>1. CASE event.kind = "FinalTranscript"
  <2>0. /\ state = "AgentThinking" /\ turn \in Turns
        /\ agent' = [agent EXCEPT ![turn] = "waiting"] /\ agentToken' = turn
        /\ agentCancelled' = agentCancelled \cup (IF shutdown THEN {turn} ELSE {})
        /\ agent \in [Turns -> Task!States] /\ agentCancelled \subseteq Turns
    BY <1>0, <1>1, Bounds DEF SendEgress, LoopInv, TypeOK, LoopTypeOK, AgentTypeOK,
      TokenTypeOK, Turns
  <2>1. ~Thinking /\ Thinking' /\ \A n : ~Over(n)
    BY <1>0, <1>1, <2>0 DEF Thinking, Over, Nothing, Event
  <2>2. agent'[turn] = "waiting" /\ \A t \in Turns \ {turn} : agent'[t] = agent[t]
    BY <2>0
  <2>3. turn \notin agentCancelled
    BY <1>1, <2>0 DEF AgentInv, TurnTasks
  <2>4. TurnTasks'
    <3>1. \A t \in Turns : agent'[t] = "none" <=> t > turn
      BY <1>1, <2>0, <2>2 DEF AgentInv, TurnTasks, Turns
    <3>2. \A t \in agentCancelled' : agent'[t] # "none"
      BY <1>1, <2>0, <2>2 DEF AgentInv, TurnTasks
    <3>3. agent'[turn] # "none" /\ (shutdown' \/ turn \notin agentCancelled')
      BY <1>0, <2>0, <2>2, <2>3
    <3>4. shutdown => \A t \in Turns : agent'[t] # "none" => t \in agentCancelled'
      BY <1>1, <2>0, <2>2 DEF AgentInv, TurnTasks
    <3> QED BY <1>0, <2>0, <3>1, <3>2, <3>3, <3>4 DEF TurnTasks, Nothing, Event, AgentKinds
  <2>5. LiveTurns'
    BY <1>0, <2>0, <2>1, <2>2 DEF AgentInv, LiveTurns, AgentLive
  <2>6. TurnsOnBus' /\ FinalIsLast'
    BY <1>0, <2>1 DEF AgentInv, TurnsOnBus, FinalIsLast, AgentKinds
  <2> QED BY <2>4, <2>5, <2>6 DEF AgentInv
<1>2. CASE event.kind # "FinalTranscript"
  <2>1. UNCHANGED <<agent, agentToken, agentCancelled>> BY <1>2 DEF SendEgress
  <2>2. event.kind = "AgentFinalResponse" => state # "AgentThinking"
    BY DEF SendEgress, IInv, ClientAgrees, Agrees, Protocol!After, Protocol!Allowed
  <2>3. Thinking' <=> Thinking BY <1>0, <1>2, <2>2 DEF Thinking, Nothing, Event
  <2> QED BY <1>0, <1>2, <2>1, <2>3, AgentInvKept DEF Nothing, Event, AgentKinds
<1> QED BY <1>1, <1>2

\* The session's token cancels every task there is.
LEMMA AgentInvShutdown ==
    ASSUME IInv, AgentInv, Shutdown
    PROVE  AgentInv'
<1>0. /\ UNCHANGED <<bus, pc, state, event, turn, agentToken, agent>> /\ shutdown'
      /\ agentCancelled' = {t \in Turns : agent[t] # "none"}
      /\ agentCancelled \subseteq agentCancelled'
  BY DEF Shutdown, orchVars, agentVars, IInv, TypeOK, TokenTypeOK, AgentInv, TurnTasks
<1>1. TurnTasks' BY <1>0 DEF AgentInv, TurnTasks, Thinking, Turns
<1>2. LiveTurns' BY <1>0 DEF AgentInv, LiveTurns, Thinking, AgentLive, Over, Turns
<1>3. TurnsOnBus' /\ FinalIsLast' BY <1>0 DEF AgentInv, TurnsOnBus, FinalIsLast, Thinking, Over
<1> QED BY <1>1, <1>2, <1>3 DEF AgentInv

\* The handlers that let the turn go on as it was.
LEMMA AgentInvForward ==
    ASSUME IInv, LoopInv, AgentInv,
           \/ HandleFirstSpeech \/ HandleSpeechEnded \/ HandlePartialTranscript
           \/ HandleAgentPartial \/ HandleTtsAudioChunk \/ HandleTtsComplete
           \/ HandleComponentError \/ IgnoreEvent
    PROVE  AgentInv'
<1> USE DEF Accept, Receive, Forward, Done
<1>1. TypeOK /\ BusTypeOK /\ pc = "recv" /\ event = Nothing /\ bus # <<>> /\ bus' = Tail(bus)
  BY DEF IInv, TypeOK, LoopInv, HandleFirstSpeech, HandleSpeechEnded, HandlePartialTranscript,
    HandleAgentPartial, HandleTtsAudioChunk, HandleTtsComplete, HandleComponentError, IgnoreEvent
<1>2. Taken /\ Head(bus) = bus[1] BY <1>1, TakeTakes DEF Taken
<1>3. UNCHANGED <<agent, agentCancelled, agentToken, shutdown, turn>>
  BY DEF HandleFirstSpeech, HandleSpeechEnded, HandlePartialTranscript,
    HandleAgentPartial, HandleTtsAudioChunk, HandleTtsComplete, HandleComponentError, IgnoreEvent,
    envVars, outside, agentVars, tokenVars, tokenHandles, orchVars
<1>4. pc' # "stopped"
  BY <1>1 DEF HandleFirstSpeech, HandleSpeechEnded, HandlePartialTranscript,
    HandleAgentPartial, HandleTtsAudioChunk, HandleTtsComplete, HandleComponentError, IgnoreEvent, orchVars
<1>5. /\ Thinking' <=> Thinking
      /\ event'.kind # "FinalTranscript" /\ event.kind # "FinalTranscript"
      /\ state \in {"Idle", "Listening"} => state' \in {"Idle", "Listening"} \/ bus[1].kind = "SpeechEnded"
      /\ event'.kind \in AgentKinds => event' = bus[1] /\ state = "AgentThinking"
  <2> USE <1>1, <1>2 DEF Thinking, Nothing, Event, AgentKinds
  <2>1. CASE HandleFirstSpeech BY <2>1 DEF HandleFirstSpeech
  <2>2. CASE HandleSpeechEnded BY <2>2 DEF HandleSpeechEnded
  <2>3. CASE HandlePartialTranscript BY <2>3 DEF HandlePartialTranscript
  <2>4. CASE HandleAgentPartial BY <2>4 DEF HandleAgentPartial
  <2>5. CASE HandleTtsAudioChunk BY <2>5 DEF HandleTtsAudioChunk
  <2>6. CASE HandleTtsComplete BY <2>6 DEF HandleTtsComplete
  <2>7. CASE HandleComponentError BY <2>7 DEF HandleComponentError
  <2>8. CASE IgnoreEvent BY <2>8 DEF IgnoreEvent, orchVars
  <2> QED BY <2>1, <2>2, <2>3, <2>4, <2>5, <2>6, <2>7, <2>8
<1> QED BY <1>1, <1>2, <1>3, <1>4, <1>5, AgentInvKept

\* The handlers that cancel, and the end of the loop.
LEMMA AgentInvCancels ==
    ASSUME IInv, LoopInv, SpeechInv, AgentInv,
           HandleBargeIn \/ HandleInterrupt \/ HandleCancel \/ StopOrchestrator
    PROVE  AgentInv'
<1> USE DEF Accept, Receive, Forward, Done
<1>1. TypeOK /\ BusTypeOK /\ pc = "recv" /\ event = Nothing
  BY DEF IInv, TypeOK, LoopInv, HandleBargeIn, HandleInterrupt, HandleCancel, StopOrchestrator
<1>2. UNCHANGED <<agent, shutdown, turn>>
  BY DEF HandleBargeIn, HandleInterrupt, HandleCancel, StopOrchestrator, envVars, outside,
    agentVars
<1>3. agentCancelled' = agentCancelled \cup ({agentToken} \ {0}) /\ agentToken' = 0
  BY DEF HandleBargeIn, HandleInterrupt, HandleCancel, StopOrchestrator, CancelActiveTasks
<1>4. /\ state' \in {"Idle", "Listening"}
      /\ event'.kind \notin AgentKinds \cup {"FinalTranscript"} /\ event.kind # "FinalTranscript"
      /\ (bus # <<>> /\ bus' = Tail(bus)) \/ (bus' = <<>> /\ pc' = "stopped")
  BY <1>1 DEF HandleBargeIn, HandleInterrupt, HandleCancel, StopOrchestrator, Nothing, Event,
    AgentKinds
<1> QED BY <1>1, <1>2, <1>3, <1>4, TakeTakes, AgentInvCancelled

\* The steps of an agent task.
LEMMA AgentInvStep ==
    ASSUME IInv, AgentInv, NEW t \in Turns, AgentStep(t)
    PROVE  AgentInv'
<1> USE DEF IInv
<1>0. /\ TypeOK /\ BusTypeOK /\ agent \in [Turns -> Task!States]
      /\ UNCHANGED orchVars /\ UNCHANGED <<agentCancelled, shutdown>>
  BY DEF TypeOK, AgentTypeOK, AgentStep, AgentLock, LlmCallsAgain, AgentPartial, LlmCompletes,
    LlmStops,
    AgentFinal, AgentEnds, agentFrame, outside
<1>1. /\ Event("AgentPartialResponse", t) \in Events /\ Event("AgentFinalResponse", t) \in Events
      /\ Event("AgentPartialResponse", t).kind = "AgentPartialResponse" /\ Event("AgentPartialResponse", t).id = t
      /\ Event("AgentFinalResponse", t).kind = "AgentFinalResponse" /\ Event("AgentFinalResponse", t).id = t
  BY DEF Event, Events, AgentKinds
<1>2. ASSUME NEW from \in {"waiting", "streaming", "finishing", "stopping"},
             NEW x \in {"streaming", "stopping", "finishing", "unanswered"},
             Task!Moves(t, from, x), bus' = bus
      PROVE  AgentInv'
  <2>1. AgentLive(t) /\ x \in Task!States \ {"none"} /\ agent' = [agent EXCEPT ![t] = x]
    BY <1>2 DEF Task!Moves, AgentLive, Task!States
  <2>2. AgentLive(t)' \/ x \in {"answered", "unanswered"}
    BY <1>0, <2>1 DEF AgentLive
  <2> QED BY <1>0, <1>2, <2>1, <2>2, AgentInvTask
<1>3. CASE AgentLock(t) BY <1>2, <1>3 DEF AgentLock, Task!Lock
<1>4. CASE LlmCompletes(t) \/ LlmStops(t) \/ AgentEnds(t)
  BY <1>2, <1>4 DEF LlmCompletes, LlmStops, AgentEnds, Task!Complete, Task!Stop, Task!End
<1>5. CASE LlmCallsAgain(t)
  BY <1>0, <1>5, AgentInvKept DEF LlmCallsAgain, orchVars, Thinking
<1>6. CASE AgentPartial(t)
  <2>1. /\ agent[t] = "streaming" /\ agent' = agent /\ Put(Event("AgentPartialResponse", t))
    BY <1>6 DEF AgentPartial, Task!Speak
  <2>2. agent' = [agent EXCEPT ![t] = "streaming"] /\ AgentLive(t) /\ AgentLive(t)' /\ "streaming" \in Task!States
    BY <1>0, <2>1 DEF AgentLive, Task!States
  <2>3. bus' = bus \/ (pc # "stopped" /\ Added(Event("AgentPartialResponse", t)))
    BY <1>0, <1>1, <2>1, PutAdds DEF Put
  <2> QED BY <1>0, <1>1, <2>2, <2>3, AgentInvTask DEF AgentKinds
<1>7. CASE AgentFinal(t)
  <2>1. /\ agent[t] = "finishing" /\ agent' = [agent EXCEPT ![t] = "answered"]
        /\ Put(Event("AgentFinalResponse", t))
    BY <1>7 DEF AgentFinal, Task!Answer, Task!Moves
  <2>2. AgentLive(t) /\ "answered" \in Task!States
    BY <2>1 DEF AgentLive, Task!States
  <2>3. bus' = bus \/ (pc # "stopped" /\ Added(Event("AgentFinalResponse", t)))
    BY <1>0, <1>1, <2>1, PutAdds DEF Put
  <2> QED BY <1>0, <1>1, <2>1, <2>2, <2>3, AgentInvTask DEF AgentKinds
<1> QED BY <1>3, <1>4, <1>5, <1>6, <1>7 DEF AgentStep

\* The front end, the transport and the TTS tasks: no event of theirs but
\* SpeechEnded matters to the turns.
LEMMA AgentInvAround ==
    ASSUME IInv, AgentInv, TasksKeepUp,
           \/ FrontEnd \/ DrainEgress \/ \E k \in Signals : SendSignal(k)
           \/ \E s \in Streams : TtsStep(s)
    PROVE  AgentInv'
<1>0. TypeOK /\ BusTypeOK BY DEF IInv, TypeOK
<1>1. UNCHANGED orchVars /\ UNCHANGED <<agent, agentCancelled, shutdown>>
  BY DEF FrontEnd, SendSpeechStarted, SendSpeechEnded, SendPartialTranscript,
    SendFinalTranscript,
    AsrEndsSilently, AsrOpensEarly, AudioEnds, backVars, outside, agentVars, tokenVars, DrainEgress,
    SendSignal, TtsStep, TtsStart, TtsTake, TtsChunk, TtsFinishes, TtsStops, ttsFrame
<1>2. ASSUME \/ UNCHANGED bus
             \/ \E e \in Events : Put(e) /\ e.kind \notin AgentKinds \cup {"SpeechEnded"}
      PROVE  AgentInv'
  <2>1. bus' = bus \/ \E e : Added(e) /\ e.kind \notin AgentKinds \cup {"SpeechEnded"}
    BY <1>0, <1>2, PutAdds DEF Put
  <2> QED BY <1>0, <1>1, <2>1, AgentInvKept DEF orchVars, Thinking
<1>3. CASE SendSpeechEnded
  <2>1. Event("SpeechEnded", utt) \in Events /\ Event("SpeechEnded", utt).kind = "SpeechEnded"
    BY <1>0, <1>3, Bounds DEF SendSpeechEnded, EndUtterance, Event, Events, SpeechKinds,
      Utterances, TypeOK, SpeechTypeOK
  <2>2. bus' = bus \/ Added(Event("SpeechEnded", utt))
    BY <1>0, <1>3, <2>1, PutAdds DEF Put, SendSpeechEnded
  <2>3. \A t \in agentCancelled : ~AgentLive(t) BY <1>3
    DEF SendSpeechEnded, KeepsUp, TasksKeepUp
  <2> QED BY <1>0, <1>1, <2>1, <2>2, <2>3, AgentInvSpeechEnded
<1>4. CASE SendSpeechStarted
  <2>1. /\ Event("SpeechStarted", utt + 1) \in Events
        /\ Event("SpeechStarted", utt + 1).kind = "SpeechStarted"
    BY <1>0, <1>4, Bounds DEF SendSpeechStarted, StartUtterance, Event, Events, SpeechKinds,
      Utterances, TypeOK, SpeechTypeOK
  <2> QED BY <1>2, <1>4, <2>1 DEF SendSpeechStarted, AgentKinds
<1>5. CASE \E u \in Utterances : SendPartialTranscript(u) \/ SendFinalTranscript(u)
  <2>1. PICK u \in Utterances : SendPartialTranscript(u) \/ SendFinalTranscript(u) BY <1>5
  <2>2. /\ Event("PartialTranscript", u) \in Events /\ Event("FinalTranscript", u) \in Events
        /\ Event("PartialTranscript", u).kind = "PartialTranscript"
        /\ Event("FinalTranscript", u).kind = "FinalTranscript"
    BY DEF Event, Events, SpeechKinds
  <2> QED BY <1>2, <2>1, <2>2 DEF SendPartialTranscript, SendFinalTranscript, AgentKinds
<1>6. CASE AsrOpensEarly \/ AudioEnds \/ DrainEgress \/ \E u \in Utterances : AsrEndsSilently(u)
  BY <1>2, <1>6 DEF AsrOpensEarly, AudioEnds, DrainEgress, AsrEndsSilently
<1>7. CASE \E k \in Signals : SendSignal(k)
  <2>1. PICK k \in Signals : SendSignal(k) BY <1>7
  <2>2. Event(k, 0) \in Events /\ Event(k, 0).kind \notin AgentKinds \cup {"SpeechEnded"}
    BY Bounds DEF Event, Events, AgentKinds
  <2> QED BY <1>2, <2>1, <2>2 DEF SendSignal
<1>8. CASE \E s \in Streams : TtsStep(s)
  <2>1. PICK s \in Streams : TtsStep(s) BY <1>8
  <2>2. /\ Event("TtsAudioChunk", s) \in Events /\ Event("TtsComplete", s) \in Events
        /\ Event("TtsAudioChunk", s).kind = "TtsAudioChunk"
        /\ Event("TtsComplete", s).kind = "TtsComplete"
    BY DEF Event, Events, TtsKinds
  <2> QED BY <1>2, <2>1, <2>2 DEF TtsStep, TtsChunk, TtsFinishes, TtsStart, TtsTake, TtsStops,
    AgentKinds
<1> QED BY <1>3, <1>4, <1>5, <1>6, <1>7, <1>8 DEF FrontEnd

LEMMA AgentInvNext ==
    ASSUME IInv, SpeechInv, LoopInv, AgentInv, TasksKeepUp, [Next]_vars
    PROVE  AgentInv'
<1>0. TypeOK BY DEF IInv
<1>1. CASE SendSentence \/ SentenceRefused
  <2>1. /\ state = "AgentThinking" /\ pc = "text" /\ pc' \in {"text", "egress"}
        /\ UNCHANGED <<agent, agentCancelled, agentToken, shutdown, turn, bus, event>>
        /\ state' = state \/ (event.kind = "AgentFinalResponse" /\ state' = "Speaking")
    BY <1>1 DEF SendSentence, SentenceRefused, LeaveText, textFrame, outside, agentVars,
      tokenVars,
      tokenHandles, IInv, ClientAgrees
  <2>2. Thinking' <=> Thinking BY <2>1 DEF Thinking
  <2> QED BY <1>0, <2>1, <2>2, AgentInvKept
<1>2. CASE UNCHANGED vars
  BY <1>0, <1>2, AgentInvKept DEF vars, orchVars, agentVars, tokenVars, outside, Thinking
<1> QED
  BY <1>1, <1>2, AgentInvForward, AgentInvCancels, AgentInvTranscript, AgentInvAnswer,
    AgentInvSpawn,
     AgentInvShutdown, AgentInvStep, AgentInvAround
     DEF Next, OrchestratorStep, HandleEvent

-----------------------------------------------------------------------------
(* The TTS streams and the providers' flags.                                *)

\* The same lemmas for the streams.
LEMMA TtsInvKept ==
    ASSUME TypeOK, TtsInv,
           UNCHANGED <<tts, ttsCancelled, ttsToken, shutdown, streams>>,
           \/ bus' = bus
           \/ \E e : Added(e) /\ e.kind \notin TtsKinds \cup {"SpeechEnded"}
           \/ Taken,
           textTx' \in {0, textTx},
           Replying => Replying',
           state \in {"Idle", "Listening"} =>
               state' \in {"Idle", "Listening"} \/ (Taken /\ bus[1].kind = "SpeechEnded"),
           event'.kind \in TtsKinds =>
               event' = event \/ (Taken /\ event' = bus[1] /\ state \notin {"Idle", "Listening"})
    PROVE  TtsInv'
<1>0. BusTypeOK BY DEF TypeOK
<1>1. StreamTasks' BY DEF TtsInv, StreamTasks, Streams
<1>2. ASSUME ~shutdown PROVE ttsToken' \notin ttsCancelled' /\ (event.kind \in TtsKinds => event.id = ttsToken)'
  <2>1. (event.kind \in TtsKinds => event.id = ttsToken)'
    <3>1. CASE event' = event BY <1>2, <3>1 DEF TtsInv
    <3>2. CASE Taken /\ event' = bus[1] /\ state \notin {"Idle", "Listening"}
      BY <1>2, <3>2 DEF TtsInv, StreamsOnBus, Over, Taken
    <3> QED BY <3>1, <3>2
  <2> QED BY <1>2, <2>1 DEF TtsInv
<1>3. ASSUME ~shutdown, state \in {"Idle", "Listening"} => state' \in {"Idle", "Listening"}
      PROVE  LiveStreams' /\ StreamsOnBus'
  <2>1. Over(Len(bus)) => Over(Len(bus))' BY <1>0, <1>3, OverKept
  <2>2. LiveStreams' BY <1>3, <2>1 DEF TtsInv, LiveStreams, TtsLive, Streams
  <2>3. CASE Taken
    <3>1. \A i \in DOMAIN bus' : i + 1 \in DOMAIN bus /\ bus'[i] = bus[i + 1] /\ (Over(i + 1) => Over(i)')
      BY <1>0, <1>3, <2>3, OverKept, BusSteps
    <3> QED BY <1>3, <2>2, <3>1 DEF TtsInv, StreamsOnBus
  <2>4. CASE ~Taken
    <3>1. \A i \in DOMAIN bus' : bus'[i].kind \in TtsKinds =>
             i \in DOMAIN bus /\ bus'[i] = bus[i] /\ (Over(i) => Over(i)')
      BY <1>0, <1>3, <2>4, OverKept, BusSteps
    <3> QED BY <1>3, <2>2, <3>1 DEF TtsInv, StreamsOnBus
  <2> QED BY <2>3, <2>4
<1>4. ASSUME ~shutdown, Taken, bus[1].kind = "SpeechEnded"
      PROVE  LiveStreams' /\ StreamsOnBus'
  <2>1. \A i \in DOMAIN bus : ~Over(i) BY <1>0, <1>4, BusDomain DEF Over
  <2>2. ~Over(Len(bus)) BY <1>0, <1>4, <2>1, BusDomain DEF Taken
  <2>3. \A i \in DOMAIN bus' : i + 1 \in DOMAIN bus /\ bus'[i] = bus[i + 1] BY <1>0, <1>4,
    BusSteps
  <2> QED BY <1>4, <2>1, <2>2, <2>3 DEF TtsInv, LiveStreams, StreamsOnBus, TtsLive, Streams
<1>5. ASSUME ~shutdown PROVE CompleteIsLast'
  <2>1. CASE Taken
    <3>1. \A i \in DOMAIN bus' : i + 1 \in DOMAIN bus /\ bus'[i] = bus[i + 1] /\ i \in Nat
      BY <1>0, <2>1, BusSteps
    <3> QED BY <1>5, <3>1 DEF TtsInv, CompleteIsLast
  <2>2. CASE ~Taken
    <3>1. \A i \in DOMAIN bus' : bus'[i].kind \in TtsKinds => i \in DOMAIN bus /\ bus'[i] = bus[i]
      BY <1>0, <2>2, BusSteps
    <3> QED BY <1>5, <3>1 DEF TtsInv, CompleteIsLast, TtsKinds
  <2> QED BY <2>1, <2>2
<1> QED BY <1>1, <1>2, <1>3, <1>4, <1>5 DEF TtsInv

LEMMA TtsInvCancelled ==
    ASSUME TypeOK, TextOnlyWhileThinking, TtsInv, SpeechInv,
           ttsCancelled' = ttsCancelled \cup ({ttsToken} \ {0}), ttsToken' = 0, textTx' = 0,
           UNCHANGED <<tts, shutdown, streams>>,
           state' \in {"Idle", "Listening"},
           event'.kind \notin TtsKinds,
           Taken \/ (bus' = <<>> /\ shutdown)
    PROVE  TtsInv'
<1>0. /\ BusTypeOK /\ ttsToken \in Nat /\ ttsCancelled \subseteq Streams /\ streams \in Nat
      /\ ttsToken # 0 => ttsToken \in Streams
  BY Bounds DEF TypeOK, LoopTypeOK, TtsTypeOK, TokenTypeOK, Streams
<1>1. StreamTasks' BY <1>0 DEF TtsInv, StreamTasks, Streams
<1>2. CASE shutdown BY <1>1, <1>2 DEF TtsInv
<1>3. CASE Taken /\ ~shutdown
  <2>1. /\ Over(Len(bus)) => Over(Len(bus))'
        /\ \A i \in DOMAIN bus' : Over(i + 1) => Over(i)'
    BY <1>0, <1>3, OverKept
  <2>2. \A i \in DOMAIN bus' : i + 1 \in DOMAIN bus /\ bus'[i] = bus[i + 1] /\ i \in Nat
    BY <1>0, <1>3, BusSteps
  <2>3. DOMAIN bus' = 1 .. Len(bus') BY <1>0, <1>3, BusDomain DEF Taken
  <2>4. ASSUME Replying PROVE \A j \in DOMAIN bus' : bus'[j].kind # "SpeechEnded"
    BY <2>2, <2>4 DEF SpeechInv, OnBus, Replying
  <2>5. ASSUME Replying PROVE Over(Len(bus))' /\ \A i \in DOMAIN bus' : Over(i)'
    BY <2>2, <2>3, <2>4, <2>5 DEF Over
  <2>6. LiveStreams'
    BY <1>0, <1>3, <2>1, <2>5 DEF TtsInv, LiveStreams, TtsLive, Streams
  <2>7. StreamsOnBus'
    <3> SUFFICES ASSUME NEW i \in DOMAIN bus', bus'[i].kind \in TtsKinds
                 PROVE  bus'[i].id \in ttsCancelled' /\ Over(i)'
      BY DEF StreamsOnBus
    <3>1. i + 1 \in DOMAIN bus /\ bus'[i] = bus[i + 1] BY <2>2
    <3>2. bus[i + 1].id \in Streams BY <1>0, <3>1, EventKinds
    <3>3. bus[i + 1].id # 0 BY <3>2 DEF Streams
    <3> QED BY <1>3, <2>1, <2>5, <3>1, <3>3 DEF TtsInv, StreamsOnBus
  <2>8. CompleteIsLast' BY <1>3, <2>2 DEF TtsInv, CompleteIsLast
  <2>9. ttsToken' \notin ttsCancelled' BY <1>0 DEF Streams
  <2> QED BY <1>1, <1>3, <2>6, <2>7, <2>8, <2>9 DEF TtsInv
<1> QED BY <1>2, <1>3

LEMMA TtsInvTask ==
    ASSUME TypeOK, TextOnlyWhileThinking, TtsInv, NEW s \in Streams, TtsLive(s), NEW x \in {"running", "done"},
           tts' = [tts EXCEPT ![s] = x],
           x = "done" => textTx # s \/ s \in ttsCancelled,
           UNCHANGED orchVars, UNCHANGED <<ttsCancelled, shutdown, streams>>,
           \/ bus' = bus
           \/ \E e : /\ Added(e) /\ e.kind \in TtsKinds /\ e.id = s
                     /\ e.kind = "TtsComplete" => x = "done"
    PROVE  TtsInv'
<1>0. /\ BusTypeOK /\ tts \in [Streams -> TtsStates]
      /\ textTx # 0 => textTx = ttsToken
  BY DEF TypeOK, TtsTypeOK, TextOnlyWhileThinking
<1>1. /\ \A u \in Streams : TtsLive(u)' => TtsLive(u)
      /\ \A u \in Streams : tts'[u] = "none" <=> tts[u] = "none"
      /\ \A u \in Streams : tts[u] = "done" => tts'[u] = "done" /\ u # s
      /\ tts'[s] = x /\ \A u \in Streams : u # s => (TtsLive(u)' <=> TtsLive(u))
  BY <1>0 DEF TtsLive
<1>2. UNCHANGED <<pc, state, event, textTx, ttsToken>> BY DEF orchVars
<1>3. StreamTasks'
  BY <1>0, <1>1, <1>2 DEF TtsInv, StreamTasks
<1>4. ASSUME ~shutdown PROVE (textTx # 0 => TtsLive(textTx))'
  <2>1. CASE textTx # 0 /\ textTx = s
    BY <1>0, <1>1, <1>2, <1>4, <2>1 DEF TtsInv, TtsLive
  <2>2. CASE textTx # 0 /\ textTx # s
    BY <1>0, <1>1, <1>2, <1>4, <2>2, Bounds DEF TtsInv, LiveStreams, TypeOK, LoopTypeOK, Streams
  <2> QED BY <1>2, <2>1, <2>2
<1>5. CASE bus' = bus /\ ~shutdown
  <2>1. LiveStreams' BY <1>1, <1>2, <1>4, <1>5 DEF TtsInv, LiveStreams, Replying, Over
  <2>2. StreamsOnBus' /\ CompleteIsLast'
    BY <1>0, <1>1, <1>2, <1>5, EventKinds
      DEF TtsInv, StreamsOnBus, CompleteIsLast, Replying, Over, TtsKinds
  <2> QED BY <1>2, <1>3, <1>5, <2>1, <2>2 DEF TtsInv
<1>6. CASE bus' # bus /\ ~shutdown
  <2>1. PICK e : /\ Added(e) /\ e.kind \in TtsKinds /\ e.id = s
                 /\ e.kind = "TtsComplete" => x = "done"
    BY <1>6
  <2>2. /\ Over(Len(bus)) => Over(Len(bus))'
        /\ \A i \in DOMAIN bus : Over(i) => Over(i)'
    <3>1. ~Taken BY <1>0, <2>1, AddedLengthens
    <3>2. e.kind # "SpeechEnded" BY <2>1 DEF TtsKinds
    <3> QED BY <1>0, <1>2, <2>1, <3>1, <3>2, OverKept
  <2>3. \A i \in DOMAIN bus' : \/ i \in DOMAIN bus /\ bus'[i] = bus[i]
                               \/ i = Len(bus') /\ bus'[i] = e
    BY <1>0, <2>1, BusSteps DEF Added
  <2>4. LiveStreams' BY <1>1, <1>2, <1>4, <1>6, <2>2 DEF TtsInv, LiveStreams, Replying
  <2>5. StreamsOnBus'
    <3> SUFFICES ASSUME NEW i \in DOMAIN bus', bus'[i].kind \in TtsKinds
                 PROVE  \/ bus'[i].id = ttsToken /\ Replying
                        \/ bus'[i].id \in ttsCancelled /\ Over(i)'
      BY <1>2 DEF StreamsOnBus, Replying
    <3>1. CASE i \in DOMAIN bus /\ bus'[i] = bus[i]
      BY <1>6, <2>2, <3>1 DEF TtsInv, StreamsOnBus
    <3>2. CASE i = Len(bus') /\ bus'[i] = e
      BY <1>1, <1>6, <2>1, <2>2, <3>2 DEF TtsInv, LiveStreams
    <3> QED BY <2>3, <3>1, <3>2
  <2>6. CompleteIsLast'
    <3>0. Len(bus') \in Nat /\ DOMAIN bus' = 1 .. Len(bus') /\ DOMAIN bus = 1 .. Len(bus) /\ Len(bus') = Len(bus) + 1
      BY <1>0, <2>1, BusDomain DEF Added
    <3> SUFFICES ASSUME NEW i \in DOMAIN bus', bus'[i].kind = "TtsComplete"
                 PROVE  /\ tts'[bus'[i].id] = "done"
                        /\ \A j \in DOMAIN bus' : bus'[j].kind \in TtsKinds /\ bus'[j].id = bus'[i].id => j <= i
      BY DEF CompleteIsLast
    <3>1. CASE i \in DOMAIN bus /\ bus'[i] = bus[i]
      <4>1. bus[i].id \in Streams BY <1>0, <3>1, EventKinds DEF TtsKinds
      <4>2. bus[i].id # s /\ tts'[bus[i].id] = "done"
        BY <1>1, <1>6, <3>1, <4>1 DEF TtsInv, CompleteIsLast
      <4> QED BY <1>1, <1>6, <2>1, <2>3, <3>1, <4>2 DEF TtsInv, CompleteIsLast
    <3>2. CASE i = Len(bus') /\ bus'[i] = e
      BY <1>1, <2>1, <3>0, <3>2
    <3> QED BY <2>3, <3>1, <3>2
  <2> QED BY <1>2, <1>3, <1>6, <2>4, <2>5, <2>6 DEF TtsInv
<1>7. CASE shutdown BY <1>3, <1>7 DEF TtsInv
<1> QED BY <1>5, <1>6, <1>7

LEMMA TtsInvSpeechEnded ==
    ASSUME TypeOK, TtsInv, \A s \in ttsCancelled : ~TtsLive(s),
           UNCHANGED orchVars, UNCHANGED <<tts, ttsCancelled, shutdown, streams>>,
           bus' = bus \/ \E e : Added(e) /\ e.kind = "SpeechEnded"
    PROVE  TtsInv'
<1>0. BusTypeOK BY DEF TypeOK
<1>1. UNCHANGED <<pc, state, event, textTx, ttsToken>> BY DEF orchVars
<1>2. StreamTasks' BY <1>1 DEF TtsInv, StreamTasks, Streams
<1>3. ASSUME ~shutdown PROVE LiveStreams'
  BY <1>1, <1>3 DEF TtsInv, LiveStreams, Replying, TtsLive, Streams
<1>4. CASE bus' = bus
  BY <1>1, <1>2, <1>3, <1>4 DEF TtsInv, StreamsOnBus, CompleteIsLast, Replying, Over
<1>5. CASE \E e : Added(e) /\ e.kind = "SpeechEnded"
  <2>1. PICK e : Added(e) /\ e.kind = "SpeechEnded" BY <1>5
  <2>2. \A i \in DOMAIN bus : Over(i) => Over(i)' BY <1>0, <1>1, <2>1, BusDomain DEF Over, Added
  <2>3. \A i \in DOMAIN bus' : bus'[i].kind \in TtsKinds => i \in DOMAIN bus /\ bus'[i] = bus[i]
    BY <1>0, <2>1, BusSteps DEF TtsKinds
  <2>4. ASSUME ~shutdown PROVE StreamsOnBus' /\ CompleteIsLast'
    BY <1>1, <2>2, <2>3, <2>4 DEF TtsInv, StreamsOnBus, CompleteIsLast, Replying, TtsKinds
  <2> QED BY <1>1, <1>2, <1>3, <2>4 DEF TtsInv
<1> QED BY <1>4, <1>5

LEMMA TtsInvForward ==
    ASSUME IInv, LoopInv, TtsInv,
           \/ HandleFirstSpeech \/ HandleSpeechEnded \/ HandlePartialTranscript \/ HandleFinalTranscript
           \/ HandleTtsAudioChunk \/ HandleComponentError \/ IgnoreEvent
    PROVE  TtsInv'
<1> USE DEF Accept, Receive, Forward, Done
<1>1. TypeOK /\ BusTypeOK /\ pc = "recv" /\ event = Nothing /\ bus # <<>> /\ bus' = Tail(bus)
  BY DEF IInv, TypeOK, LoopInv, HandleFirstSpeech, HandleSpeechEnded, HandlePartialTranscript,
    HandleFinalTranscript, HandleTtsAudioChunk, HandleComponentError, IgnoreEvent
<1>2. Taken /\ Head(bus) = bus[1] BY <1>1, TakeTakes DEF Taken
<1>3. UNCHANGED <<tts, ttsCancelled, ttsToken, shutdown, streams, textTx>>
  BY DEF HandleFirstSpeech, HandleSpeechEnded, HandlePartialTranscript, HandleFinalTranscript,
    HandleTtsAudioChunk, HandleComponentError, IgnoreEvent,
    envVars, outside, ttsVars, tokenVars, tokenHandles, textVars, orchVars
<1>4. /\ Replying => Replying'
      /\ state \in {"Idle", "Listening"} => state' \in {"Idle", "Listening"} \/ bus[1].kind = "SpeechEnded"
      /\ event'.kind \in TtsKinds => event' = bus[1] /\ state \notin {"Idle", "Listening"}
  <2> USE <1>1, <1>2, <1>3 DEF Replying, Nothing, Event, TtsKinds
  <2>1. CASE HandleFirstSpeech BY <2>1 DEF HandleFirstSpeech
  <2>2. CASE HandleSpeechEnded BY <2>2 DEF HandleSpeechEnded
  <2>3. CASE HandlePartialTranscript BY <2>3 DEF HandlePartialTranscript
  <2>4. CASE HandleFinalTranscript BY <2>4 DEF HandleFinalTranscript
  <2>5. CASE HandleTtsAudioChunk BY <2>5 DEF HandleTtsAudioChunk
  <2>6. CASE HandleComponentError BY <2>6 DEF HandleComponentError
  <2>7. CASE IgnoreEvent BY <2>7 DEF IgnoreEvent, orchVars
  <2> QED BY <2>1, <2>2, <2>3, <2>4, <2>5, <2>6, <2>7
<1> QED BY <1>1, <1>2, <1>3, <1>4, TtsInvKept

\* The end of a stream is the last that is heard of it.
LEMMA TtsInvComplete ==
    ASSUME IInv, LoopInv, TtsInv, HandleTtsComplete
    PROVE  TtsInv'
<1>0. /\ TypeOK /\ BusTypeOK /\ pc = "recv" /\ event = Nothing /\ state = "Speaking" /\ state' = "Idle"
      /\ event' = Head(bus)
      /\ UNCHANGED <<tts, ttsCancelled, ttsToken, shutdown, streams, textTx>>
      /\ bus # <<>> /\ bus' = Tail(bus) /\ Head(bus).kind = "TtsComplete"
  BY DEF HandleTtsComplete, Accept, Receive, Forward, IInv, TypeOK, LoopInv, ttsVars,
    tokenVars, tokenHandles,
    textVars, envVars, outside
<1>1. Taken BY <1>0, TakeTakes
<1>2. \A n : ~Over(n) BY <1>0 DEF Over
<1>3. event' = bus[1] /\ 1 \in DOMAIN bus /\ bus[1].kind = "TtsComplete"
  BY <1>0, <1>1 DEF Taken
<1>4. StreamTasks' BY <1>0 DEF TtsInv, StreamTasks, Streams
<1>5. CASE ~shutdown
  <2>1. bus[1].id = ttsToken /\ tts[bus[1].id] = "done"
    BY <1>2, <1>3, <1>5 DEF TtsInv, StreamsOnBus, CompleteIsLast, TtsKinds
  <2>2. \A i \in DOMAIN bus' : i + 1 \in DOMAIN bus /\ bus'[i] = bus[i + 1] /\ i \in Nat \ {0}
    BY <1>0, <1>1, BusSteps
  <2>3. \A i \in DOMAIN bus' : bus'[i].kind \notin TtsKinds
    <3> SUFFICES ASSUME NEW i \in DOMAIN bus', bus'[i].kind \in TtsKinds PROVE FALSE
      OBVIOUS
    <3>1. bus[i + 1].id = ttsToken BY <1>2, <1>5, <2>2 DEF TtsInv, StreamsOnBus
    <3>2. i + 1 <= 1 BY <1>3, <1>5, <2>1, <2>2, <3>1 DEF TtsInv, CompleteIsLast
    <3> QED BY <2>2, <3>2
  <2>4. LiveStreams'
    BY <1>0, <1>2, <1>5, <2>1 DEF TtsInv, LiveStreams, TtsLive, Streams, IInv,
      TextOnlyWhileThinking
  <2> QED BY <1>0, <1>3, <1>4, <1>5, <2>1, <2>3, <2>4
    DEF TtsInv, StreamsOnBus, CompleteIsLast, TtsKinds
<1>6. CASE shutdown BY <1>0, <1>4, <1>6 DEF TtsInv
<1> QED BY <1>5, <1>6

\* The answer goes to the stream that is open, or to a new one.
LEMMA TtsInvAnswer ==
    ASSUME IInv, LoopInv, TtsInv, HandleAgentPartial \/ HandleAgentFinal
    PROVE  TtsInv'
<1>0. /\ TypeOK /\ BusTypeOK /\ pc = "recv" /\ state = "AgentThinking" /\ EnsureTts
      /\ \/ state' = "AgentThinking" /\ textTx' = CurrentStream
         \/ state' = "Speaking" /\ textTx' = 0
      /\ event' = Head(bus) /\ UNCHANGED shutdown
      /\ bus # <<>> /\ bus' = Tail(bus) /\ Head(bus).kind \in AgentKinds
  BY DEF HandleAgentPartial, HandleAgentFinal, Accept, Receive, IInv, TypeOK, envVars, outside,
    AgentKinds
<1>1. Taken BY <1>0, TakeTakes
<1>2. event'.kind \notin TtsKinds BY <1>0 DEF AgentKinds, TtsKinds
<1>3. CASE textTx # 0
  <2>1. UNCHANGED <<tts, ttsCancelled, ttsToken, streams>> /\ textTx' \in {0, textTx}
    BY <1>0, <1>3 DEF EnsureTts, CurrentStream
  <2>2. Replying' BY <1>0, <1>3 DEF Replying, CurrentStream
  <2> QED BY <1>0, <1>1, <1>2, <2>1, <2>2, TtsInvKept
<1>4. CASE textTx = 0
  <2>0. /\ tts \in [Streams -> TtsStates] /\ streams \in Nat /\ streams + 1 \in Streams
        /\ streams' = streams + 1 /\ ttsToken' = streams + 1
        /\ tts' = [tts EXCEPT ![streams + 1] = "spawned"]
        /\ ttsCancelled' = ttsCancelled \cup (IF shutdown THEN {streams + 1} ELSE {})
        /\ textTx' \in {0, streams + 1} /\ Replying'
    BY <1>0, <1>4, Bounds DEF EnsureTts, CurrentStream, TypeOK, TtsTypeOK, Streams, Replying
  <2>1. ~Replying /\ \A n : ~Over(n) BY <1>0, <1>4 DEF Replying, Over
  <2>2. /\ tts'[streams + 1] = "spawned"
        /\ \A s \in Streams : s # streams + 1 => tts'[s] = tts[s]
    BY <2>0
  <2>3. StreamTasks'
    BY <1>0, <2>0, <2>2 DEF TtsInv, StreamTasks, Streams, TypeOK, TokenTypeOK
  <2>4. ASSUME ~shutdown PROVE ttsToken' \notin ttsCancelled'
    BY <2>0, <2>4 DEF TtsInv, StreamTasks
  <2>5. ASSUME ~shutdown PROVE LiveStreams'
    BY <2>0, <2>1, <2>2, <2>5 DEF TtsInv, LiveStreams, TtsLive
  <2>6. \A i \in DOMAIN bus' : i + 1 \in DOMAIN bus /\ bus'[i] = bus[i + 1] BY <1>0, <1>1,
    BusSteps
  <2>7. ASSUME ~shutdown PROVE \A i \in DOMAIN bus' : bus'[i].kind \notin TtsKinds
    BY <2>1, <2>6, <2>7 DEF TtsInv, StreamsOnBus
  <2> QED BY <1>0, <1>2, <2>3, <2>4, <2>5, <2>7
    DEF TtsInv, StreamsOnBus, CompleteIsLast, TtsKinds
<1> QED BY <1>3, <1>4

LEMMA TtsInvCancels ==
    ASSUME IInv, LoopInv, SpeechInv, TtsInv,
           HandleBargeIn \/ HandleInterrupt \/ HandleCancel \/ StopOrchestrator
    PROVE  TtsInv'
<1> USE DEF Accept, Receive, Forward, Done
<1>1. TypeOK /\ BusTypeOK /\ TextOnlyWhileThinking
  BY DEF IInv, TypeOK
<1>2. UNCHANGED <<tts, shutdown, streams>>
  BY DEF HandleBargeIn, HandleInterrupt, HandleCancel, StopOrchestrator, envVars, outside,
    ttsVars
<1>3. ttsCancelled' = ttsCancelled \cup ({ttsToken} \ {0}) /\ ttsToken' = 0 /\ textTx' = 0
  BY DEF HandleBargeIn, HandleInterrupt, HandleCancel, StopOrchestrator, CancelActiveTasks
<1>4. /\ state' \in {"Idle", "Listening"} /\ event'.kind \notin TtsKinds
      /\ (bus # <<>> /\ bus' = Tail(bus)) \/ (bus' = <<>> /\ shutdown)
  BY DEF HandleBargeIn, HandleInterrupt, HandleCancel, StopOrchestrator, Nothing, Event,
    TtsKinds
<1>5. Taken \/ (bus' = <<>> /\ shutdown) BY <1>1, <1>4, TakeTakes
<1> QED BY <1>1, <1>2, <1>3, <1>4, <1>5, TtsInvCancelled

\* A sentence is taken; only a session that ends has its sentence refused.
LEMMA TtsInvAwaits ==
    ASSUME IInv, LoopInv, TtsInv, SendSentence \/ SentenceRefused \/ SendEgress
    PROVE  TtsInv'
<1>0. /\ TypeOK /\ UNCHANGED <<tts, ttsCancelled, ttsToken, shutdown, streams, bus>>
  BY DEF IInv, SendSentence, SentenceRefused, SendEgress, textFrame, ttsVars, tokenVars,
    tokenHandles, outside
<1>1. CASE SendSentence
  <2>1. /\ state = "AgentThinking" /\ event' = event /\ textTx' \in {0, textTx}
        /\ \/ state' = "AgentThinking" /\ textTx' = textTx
           \/ state' = "Speaking"
    BY <1>1 DEF SendSentence, LeaveText, textFrame, IInv, ClientAgrees
  <2>2. Replying => Replying' BY <2>1 DEF Replying
  <2> QED BY <1>0, <2>1, <2>2, TtsInvKept
<1>2. CASE SentenceRefused
  <2>1. textTx # 0 /\ tts[textTx] = "done" BY <1>2
    DEF SentenceRefused, IInv, TextOnlyWhileThinking
  <2>2. shutdown BY <2>1 DEF TtsInv, LiveStreams, TtsLive
  <2> QED BY <1>0, <2>2 DEF TtsInv, StreamTasks, Streams
<1>3. CASE SendEgress
  <2>1. event' = Nothing /\ state' = state /\ textTx' = textTx BY <1>3
    DEF SendEgress, Done, textVars
  <2> QED BY <1>0, <2>1, TtsInvKept DEF Replying, Nothing, Event, TtsKinds
<1> QED BY <1>1, <1>2, <1>3

LEMMA TtsInvStep ==
    ASSUME IInv, TtsInv, FlagsOnlyHitCancelled, NEW s \in Streams, TtsStep(s)
    PROVE  TtsInv'
<1>0. /\ TypeOK /\ BusTypeOK /\ TextOnlyWhileThinking /\ tts \in [Streams -> TtsStates]
      /\ UNCHANGED orchVars /\ UNCHANGED <<ttsCancelled, shutdown, streams>>
  BY DEF IInv, TypeOK, TtsTypeOK, TtsStep, TtsStart, TtsTake, TtsChunk, TtsFinishes, TtsStops,
    ttsFrame, outside
<1>1. /\ Event("TtsAudioChunk", s) \in Events /\ Event("TtsComplete", s) \in Events
      /\ Event("TtsAudioChunk", s).kind = "TtsAudioChunk" /\ Event("TtsAudioChunk", s).id = s
      /\ Event("TtsComplete", s).kind = "TtsComplete" /\ Event("TtsComplete", s).id = s
  BY DEF Event, Events, TtsKinds
<1>2. CASE TtsStart(s)
  <2>1. TtsLive(s) /\ tts' = [tts EXCEPT ![s] = "running"] /\ bus' = bus BY <1>2
    DEF TtsStart, TtsLive
  <2> QED BY <1>0, <2>1, TtsInvTask
<1>3. CASE TtsTake(s)
  <2>1. TtsLive(s) /\ tts' = [tts EXCEPT ![s] = "running"] /\ bus' = bus BY <1>0, <1>3
    DEF TtsTake, TtsLive
  <2> QED BY <1>0, <2>1, TtsInvTask
<1>4. CASE TtsChunk(s)
  <2>1. TtsLive(s) /\ tts' = [tts EXCEPT ![s] = "running"] /\ Put(Event("TtsAudioChunk", s))
    BY <1>0, <1>4 DEF TtsChunk, TtsLive
  <2>2. bus' = bus \/ Added(Event("TtsAudioChunk", s)) BY <1>0, <1>1, <2>1, PutAdds DEF Put
  <2> QED BY <1>0, <1>1, <2>1, <2>2, TtsInvTask DEF TtsKinds
<1>5. CASE TtsFinishes(s)
  <2>1. TtsLive(s) /\ tts' = [tts EXCEPT ![s] = "done"] /\ Put(Event("TtsComplete", s)) /\ textTx # s
    BY <1>5 DEF TtsFinishes, TtsLive
  <2>2. bus' = bus \/ Added(Event("TtsComplete", s)) BY <1>0, <1>1, <2>1, PutAdds DEF Put
  <2> QED BY <1>0, <1>1, <2>1, <2>2, TtsInvTask DEF TtsKinds
<1>6. CASE TtsStops(s)
  <2>1. TtsLive(s) /\ tts' = [tts EXCEPT ![s] = "done"] /\ bus' = bus BY <1>6 DEF TtsStops
  <2>2. s \in ttsCancelled BY <1>6 DEF TtsStops, FlagsOnlyHitCancelled
  <2> QED BY <1>0, <2>1, <2>2, TtsInvTask
<1> QED BY <1>2, <1>3, <1>4, <1>5, <1>6 DEF TtsStep

LEMMA TtsInvAround ==
    ASSUME IInv, TtsInv, TasksKeepUp,
           \/ FrontEnd \/ DrainEgress \/ \E k \in Signals : SendSignal(k)
           \/ \E t \in Turns : AgentStep(t)
    PROVE  TtsInv'
<1>0. TypeOK /\ BusTypeOK BY DEF IInv, TypeOK
<1>1. UNCHANGED orchVars /\ UNCHANGED <<tts, ttsCancelled, shutdown, streams>>
  BY DEF FrontEnd, SendSpeechStarted, SendSpeechEnded, SendPartialTranscript,
    SendFinalTranscript,
    AsrEndsSilently, AsrOpensEarly, AudioEnds, backVars, outside, ttsVars, tokenVars, DrainEgress,
    SendSignal, AgentStep, AgentLock, LlmCallsAgain, AgentPartial, LlmCompletes, LlmStops, AgentFinal,
    AgentEnds, agentFrame
<1>2. ASSUME \/ UNCHANGED bus
             \/ \E e \in Events : Put(e) /\ e.kind \notin TtsKinds \cup {"SpeechEnded"}
      PROVE  TtsInv'
  <2>1. bus' = bus \/ \E e : Added(e) /\ e.kind \notin TtsKinds \cup {"SpeechEnded"}
    BY <1>0, <1>2, PutAdds DEF Put
  <2> QED BY <1>0, <1>1, <2>1, TtsInvKept DEF orchVars, Replying
<1>3. CASE SendSpeechEnded
  <2>1. Event("SpeechEnded", utt) \in Events /\ Event("SpeechEnded", utt).kind = "SpeechEnded"
    BY <1>0, <1>3, Bounds DEF SendSpeechEnded, EndUtterance, Event, Events, SpeechKinds,
      Utterances, TypeOK, SpeechTypeOK
  <2>2. bus' = bus \/ Added(Event("SpeechEnded", utt))
    BY <1>0, <1>3, <2>1, PutAdds DEF Put, SendSpeechEnded
  <2>3. \A s \in ttsCancelled : ~TtsLive(s) BY <1>3 DEF SendSpeechEnded, KeepsUp, TasksKeepUp
  <2> QED BY <1>0, <1>1, <2>1, <2>2, <2>3, TtsInvSpeechEnded
<1>4. CASE SendSpeechStarted
  <2>1. /\ Event("SpeechStarted", utt + 1) \in Events
        /\ Event("SpeechStarted", utt + 1).kind = "SpeechStarted"
    BY <1>0, <1>4, Bounds DEF SendSpeechStarted, StartUtterance, Event, Events, SpeechKinds,
      Utterances, TypeOK, SpeechTypeOK
  <2> QED BY <1>2, <1>4, <2>1 DEF SendSpeechStarted, TtsKinds
<1>5. CASE \E u \in Utterances : SendPartialTranscript(u) \/ SendFinalTranscript(u)
  <2>1. PICK u \in Utterances : SendPartialTranscript(u) \/ SendFinalTranscript(u) BY <1>5
  <2>2. /\ Event("PartialTranscript", u) \in Events /\ Event("FinalTranscript", u) \in Events
        /\ Event("PartialTranscript", u).kind = "PartialTranscript"
        /\ Event("FinalTranscript", u).kind = "FinalTranscript"
    BY DEF Event, Events, SpeechKinds
  <2> QED BY <1>2, <2>1, <2>2 DEF SendPartialTranscript, SendFinalTranscript, TtsKinds
<1>6. CASE AsrOpensEarly \/ AudioEnds \/ DrainEgress \/ \E u \in Utterances : AsrEndsSilently(u)
  BY <1>2, <1>6 DEF AsrOpensEarly, AudioEnds, DrainEgress, AsrEndsSilently
<1>7. CASE \E k \in Signals : SendSignal(k)
  <2>1. PICK k \in Signals : SendSignal(k) BY <1>7
  <2>2. Event(k, 0) \in Events /\ Event(k, 0).kind \notin TtsKinds \cup {"SpeechEnded"}
    BY Bounds DEF Event, Events, TtsKinds
  <2> QED BY <1>2, <2>1, <2>2 DEF SendSignal
<1>8. CASE \E t \in Turns : AgentStep(t)
  <2>1. PICK t \in Turns : AgentStep(t) BY <1>8
  <2>2. /\ Event("AgentPartialResponse", t) \in Events /\ Event("AgentFinalResponse", t) \in Events
        /\ Event("AgentPartialResponse", t).kind = "AgentPartialResponse"
        /\ Event("AgentFinalResponse", t).kind = "AgentFinalResponse"
    BY DEF Event, Events, AgentKinds
  <2>3. CASE AgentPartial(t) \/ AgentFinal(t)
    BY <1>2, <2>2, <2>3 DEF AgentPartial, AgentFinal, TtsKinds
  <2>4. CASE AgentLock(t) \/ LlmCallsAgain(t) \/ LlmCompletes(t) \/ LlmStops(t) \/ AgentEnds(t)
    BY <1>2, <2>4 DEF AgentLock, LlmCallsAgain, LlmCompletes, LlmStops, AgentEnds
  <2> QED BY <2>1, <2>3, <2>4 DEF AgentStep
<1> QED BY <1>3, <1>4, <1>5, <1>6, <1>7, <1>8 DEF FrontEnd

LEMMA TtsInvNext ==
    ASSUME IInv, SpeechInv, LoopInv, TtsInv, FlagsOnlyHitCancelled, TasksKeepUp, [Next]_vars
    PROVE  TtsInv'
<1>0. TypeOK BY DEF IInv
<1>1. CASE Shutdown
  <2>1. /\ shutdown' /\ ttsCancelled' = 1 .. streams /\ UNCHANGED <<tts, streams, ttsToken>>
    BY <1>1 DEF Shutdown, orchVars, ttsVars
  <2>2. streams \in Nat BY <1>0, Bounds DEF TypeOK, TtsTypeOK
  <2>3. StreamTasks' BY <2>1, <2>2 DEF TtsInv, StreamTasks, Streams
  <2> QED BY <2>1, <2>3 DEF TtsInv
<1>2. CASE UNCHANGED vars
  BY <1>0, <1>2, TtsInvKept DEF vars, orchVars, ttsVars, tokenVars, outside, Replying
<1> QED
  BY <1>1, <1>2, TtsInvForward, TtsInvCancels, TtsInvComplete, TtsInvAnswer, TtsInvAwaits,
     TtsInvStep, TtsInvAround
     DEF Next, OrchestratorStep, HandleEvent

\* cancel_active_tasks sets the flags when only the current tasks are not cancelled.
LEMMA FlagsNext ==
    ASSUME IInv, LoopInv, AgentInv, TtsInv, FlagsOnlyHitCancelled, [Next]_vars
    PROVE  FlagsOnlyHitCancelled'
<1>0. /\ TypeOK /\ agent \in [Turns -> Task!States] /\ tts \in [Streams -> TtsStates]
  BY DEF IInv, TypeOK, AgentTypeOK, TtsTypeOK
<1>1. ASSUME agentCancelled \subseteq agentCancelled', ttsCancelled \subseteq ttsCancelled',
             llmFlag' => llmFlag, ttsFlag' => ttsFlag,
             \A t \in Turns : agent'[t] = "streaming" => agent[t] = "streaming",
             \A s \in Streams : tts'[s] = "running" => tts[s] = "running"
      PROVE  FlagsOnlyHitCancelled'
  BY <1>1 DEF FlagsOnlyHitCancelled, Turns, Streams
<1>2. ASSUME CancelActiveTasks, pc = "recv", UNCHANGED <<agent, tts>>
      PROVE  FlagsOnlyHitCancelled'
  <2>1. \A t \in Turns : agent[t] = "streaming" => t \in agentCancelled \cup ({agentToken} \ {0})
    BY <1>2 DEF AgentInv, LiveTurns, AgentLive, Turns
  <2>2. \A s \in Streams : tts[s] = "running" => s \in ttsCancelled \cup ({ttsToken} \ {0})
    BY <1>0 DEF TtsInv, StreamTasks, LiveStreams, TtsLive, Streams, TtsTypeOK, TypeOK
  <2> QED BY <1>2, <2>1, <2>2 DEF FlagsOnlyHitCancelled, CancelActiveTasks, Turns, Streams
<1>3. CASE FrontEnd \/ DrainEgress \/ \E k \in Signals : SendSignal(k)
  BY <1>1, <1>3 DEF FrontEnd, SendSpeechStarted, SendSpeechEnded, SendPartialTranscript,
    SendFinalTranscript,
    AsrEndsSilently, AsrOpensEarly, AudioEnds, backVars, agentVars, ttsVars, tokenVars, DrainEgress, SendSignal
<1>4. CASE \/ HandleFirstSpeech \/ HandleSpeechEnded \/ HandlePartialTranscript \/ HandleFinalTranscript
           \/ HandleTtsAudioChunk \/ HandleTtsComplete \/ HandleComponentError \/ IgnoreEvent
  BY <1>1, <1>4 DEF HandleFirstSpeech, HandleSpeechEnded, HandlePartialTranscript,
    HandleFinalTranscript,
    HandleTtsAudioChunk, HandleTtsComplete, HandleComponentError, IgnoreEvent, agentVars, ttsVars, tokenVars
<1>5. CASE HandleBargeIn \/ HandleInterrupt \/ HandleCancel \/ StopOrchestrator
  BY <1>2, <1>5 DEF HandleBargeIn, HandleInterrupt, HandleCancel, StopOrchestrator, Accept,
    Receive, agentVars, ttsVars
<1>6. CASE HandleAgentPartial \/ HandleAgentFinal
  <2>1. EnsureTts /\ UNCHANGED <<agent, agentCancelled, llmFlag, ttsFlag>>
    BY <1>6 DEF HandleAgentPartial, HandleAgentFinal, agentVars
  <2>2. /\ ttsCancelled \subseteq ttsCancelled'
        /\ \A s \in Streams : tts'[s] = "running" => tts[s] = "running"
    BY <1>0, <2>1 DEF EnsureTts
  <2> QED BY <1>1, <2>1, <2>2
<1>7. CASE SendSentence \/ SentenceRefused
  BY <1>1, <1>7 DEF SendSentence, SentenceRefused, textFrame, agentVars, tokenVars
<1>8. CASE SendEgress
  <2>1. /\ agentCancelled \subseteq agentCancelled' /\ UNCHANGED <<tts, llmFlag, ttsCancelled, ttsFlag>>
        /\ \A t \in Turns : agent'[t] = "streaming" => agent[t] = "streaming"
    BY <1>0, <1>8 DEF SendEgress, ttsVars
  <2> QED BY <1>1, <2>1
<1>9. CASE Shutdown
  <2>1. /\ agentCancelled' = {t \in Turns : agent[t] # "none"} /\ ttsCancelled' = 1 .. streams
        /\ UNCHANGED <<agent, tts, llmFlag, ttsFlag>>
    BY <1>9 DEF Shutdown, agentVars, ttsVars
  <2>2. streams \in Nat BY <1>0, Bounds DEF TypeOK, TtsTypeOK
  <2> QED BY <2>1, <2>2 DEF FlagsOnlyHitCancelled, TtsInv, StreamTasks, Turns, Streams
<1>10. CASE \E t \in Turns : AgentStep(t)
  <2>1. PICK t \in Turns : AgentStep(t) BY <1>10
  <2>2. UNCHANGED <<agentCancelled, ttsCancelled, tts, ttsFlag>>
    BY <2>1 DEF AgentStep, AgentLock, LlmCallsAgain, AgentPartial, LlmCompletes, LlmStops,
      AgentFinal, AgentEnds,
      agentFrame, ttsVars
  <2>3. CASE AgentLock(t)
    <3>1. /\ agent' = [agent EXCEPT ![t] = IF t \in agentCancelled THEN "stopping" ELSE "streaming"]
          /\ llmFlag' \in {FALSE} \cup (IF t \in agentCancelled THEN {llmFlag} ELSE {})
      BY <2>3 DEF AgentLock, Task!Lock, Task!Moves
    <3>2. CASE ~llmFlag'
      BY <2>2, <3>2 DEF FlagsOnlyHitCancelled, Streams
    <3>3. CASE llmFlag'
      <4>1. t \in agentCancelled /\ llmFlag BY <3>1, <3>3
      <4>2. \A u \in Turns : agent'[u] = "streaming" => agent[u] = "streaming" BY <1>0, <3>1,
        <4>1
      <4> QED BY <1>1, <2>2, <4>1, <4>2
    <3> QED BY <3>2, <3>3
  <2>4. CASE LlmCallsAgain(t)
    BY <1>1, <2>2, <2>4 DEF LlmCallsAgain
  <2>5. CASE AgentPartial(t)
    BY <1>1, <2>2, <2>5 DEF AgentPartial, Task!Speak
  <2>6. CASE LlmCompletes(t) \/ LlmStops(t) \/ AgentFinal(t) \/ AgentEnds(t)
    <3>1. /\ llmFlag' = llmFlag
          /\ \E x \in {"finishing", "stopping", "answered", "unanswered"} : agent' = [agent EXCEPT ![t] = x]
      BY <2>6 DEF LlmCompletes, LlmStops, AgentFinal, AgentEnds, Task!Complete, Task!Stop,
        Task!Answer,
        Task!End, Task!Moves
    <3>2. \A u \in Turns : agent'[u] = "streaming" => agent[u] = "streaming" BY <1>0, <3>1
    <3> QED BY <1>1, <2>2, <3>1, <3>2
  <2> QED BY <2>1, <2>3, <2>4, <2>5, <2>6 DEF AgentStep
<1>11. CASE \E s \in Streams : TtsStep(s)
  <2>1. PICK s \in Streams : TtsStep(s) BY <1>11
  <2>2. UNCHANGED <<agentCancelled, ttsCancelled, agent, llmFlag>>
    BY <2>1 DEF TtsStep, TtsStart, TtsTake, TtsChunk, TtsFinishes, TtsStops, ttsFrame, agentVars
  <2>3. CASE TtsStart(s)
    BY <2>2, <2>3 DEF TtsStart, FlagsOnlyHitCancelled, Turns
  <2>4. CASE TtsTake(s) \/ TtsChunk(s)
    BY <1>1, <2>2, <2>4 DEF TtsTake, TtsChunk
  <2>5. CASE TtsFinishes(s) \/ TtsStops(s)
    <3>1. tts' = [tts EXCEPT ![s] = "done"] /\ ttsFlag' = ttsFlag BY <2>5
      DEF TtsFinishes, TtsStops
    <3>2. \A u \in Streams : tts'[u] = "running" => tts[u] = "running" BY <1>0, <3>1
    <3> QED BY <1>1, <2>2, <3>1, <3>2
  <2> QED BY <2>1, <2>3, <2>4, <2>5 DEF TtsStep
<1>12. CASE UNCHANGED vars
  BY <1>1, <1>12 DEF vars, agentVars, ttsVars, tokenVars
<1> QED
  BY <1>3, <1>4, <1>5, <1>6, <1>7, <1>8, <1>9, <1>10, <1>11, <1>12
    DEF Next, OrchestratorStep, HandleEvent

\* What has been buffered stays noticed until the turn is answered.
LEMMA PushedInvNext ==
    ASSUME IInv, LoopInv, AgentInv, PushedInv, [Next]_vars
    PROVE  PushedInv'
<1>0. TypeOK /\ BusTypeOK /\ agent \in [Turns -> Task!States] /\ pushed \subseteq Turns
  BY DEF IInv, TypeOK, AgentTypeOK
<1>1. ASSUME \A t \in Turns : agent[t] # "none" => agent'[t] # "none", pushed' = pushed,
             turn' = turn, Thinking' => Thinking /\ (buffer # "empty" => buffer' # "empty")
      PROVE  PushedInv'
  BY <1>0, <1>1 DEF PushedInv
<1>2. ASSUME \A t \in Turns : agent[t] # "none" => agent'[t] # "none", pushed' = pushed, ~Thinking'
      PROVE  PushedInv'
  BY <1>0, <1>2 DEF PushedInv
<1>3. CASE FrontEnd \/ DrainEgress \/ Shutdown \/ \E k \in Signals : SendSignal(k)
  BY <1>1, <1>3 DEF FrontEnd, SendSpeechStarted, SendSpeechEnded, SendPartialTranscript,
    SendFinalTranscript,
    AsrEndsSilently, AsrOpensEarly, AudioEnds, backVars, agentVars, DrainEgress, Shutdown, SendSignal,
    orchVars, Thinking
<1>4. CASE \/ HandleFirstSpeech \/ HandleSpeechEnded \/ HandlePartialTranscript
           \/ HandleTtsAudioChunk \/ HandleTtsComplete \/ HandleComponentError \/ IgnoreEvent
  <2>1. event = Nothing
    BY <1>4 DEF LoopInv, HandleFirstSpeech, HandleSpeechEnded, HandlePartialTranscript,
      HandleTtsAudioChunk,
      HandleTtsComplete, HandleComponentError, IgnoreEvent, Accept, Receive
  <2> USE <1>1, <2>1 DEF Accept, Receive, Forward, Done, agentVars, textVars, Thinking, Nothing, Event
  <2>2. CASE HandleFirstSpeech BY <2>2 DEF HandleFirstSpeech
  <2>3. CASE HandleSpeechEnded BY <2>3 DEF HandleSpeechEnded
  <2>4. CASE HandlePartialTranscript BY <2>4 DEF HandlePartialTranscript
  <2>5. CASE HandleTtsAudioChunk BY <2>5 DEF HandleTtsAudioChunk
  <2>6. CASE HandleTtsComplete BY <2>6 DEF HandleTtsComplete
  <2>7. CASE HandleComponentError BY <2>7 DEF HandleComponentError
  <2>8. CASE IgnoreEvent BY <2>8 DEF IgnoreEvent, orchVars
  <2> QED BY <1>4, <2>2, <2>3, <2>4, <2>5, <2>6, <2>7, <2>8
<1>5. CASE HandleBargeIn \/ HandleInterrupt \/ HandleCancel \/ StopOrchestrator \/ HandleFinalTranscript
  BY <1>2, <1>5 DEF HandleBargeIn, HandleInterrupt, HandleCancel, StopOrchestrator,
    HandleFinalTranscript,
    Accept, Receive, Forward, agentVars, Thinking
<1>6. CASE HandleAgentFinal
  BY <1>2, <1>6 DEF HandleAgentFinal, Receive, agentVars, Thinking
<1>7. CASE HandleAgentPartial
  <2>1. /\ event = Nothing /\ state = "AgentThinking" /\ turn' = turn /\ agent' = agent /\ bus # <<>>
        /\ Head(bus).kind = "AgentPartialResponse" /\ bus' = Tail(bus)
        /\ pushed' = IF buffer' = "empty" THEN pushed ELSE pushed \cup {Head(bus).id}
        /\ buffer' = "empty" => buffer = "empty"
    BY <1>7 DEF HandleAgentPartial, Accept, Receive, LoopInv, agentVars
  <2>2. Thinking BY <2>1 DEF Thinking, Nothing, Event
  <2>3. CASE buffer' = "empty" BY <2>1, <2>2, <2>3 DEF PushedInv
  <2>4. CASE buffer' # "empty"
    <3>1. 1 \in DOMAIN bus /\ Head(bus) = bus[1] BY <1>0, <2>1, TakeTakes DEF Taken
    <3>2. agent[Head(bus).id] # "none" BY <2>1, <3>1 DEF AgentInv, TurnsOnBus, AgentKinds
    <3> QED BY <2>1, <2>4, <3>2 DEF PushedInv
  <2> QED BY <2>3, <2>4
<1>8. CASE SendSentence \/ SentenceRefused
  <2>1. /\ agent' = agent /\ pushed' = pushed /\ turn' = turn /\ event' = event
        /\ pc = "text" /\ state = "AgentThinking"
        /\ state' = "AgentThinking" /\ event.kind # "AgentFinalResponse" => buffer' # "empty"
    BY <1>8 DEF SendSentence, SentenceRefused, LeaveText, textFrame, agentVars, IInv,
      ClientAgrees, LoopInv
  <2> QED BY <1>1, <2>1 DEF Thinking
<1>9. CASE SendEgress
  <2>1. UNCHANGED <<pushed, turn, state, buffer>> /\ event' = Nothing
    BY <1>9 DEF SendEgress, Done, textVars
  <2>2. CASE event.kind = "FinalTranscript"
    <3>1. agent' = [agent EXCEPT ![turn] = "waiting"] BY <1>9, <2>2 DEF SendEgress
    <3>2. turn \notin pushed
      BY <1>0, <2>2 DEF PushedInv, AgentInv, TurnTasks
    <3> QED BY <1>0, <2>1, <3>1, <3>2 DEF PushedInv
  <2>3. CASE event.kind # "FinalTranscript"
    <3>1. agent' = agent BY <1>9, <2>3 DEF SendEgress
    <3>2. event.kind = "AgentFinalResponse" => state # "AgentThinking"
      BY <1>9 DEF SendEgress, IInv, ClientAgrees, Agrees, Protocol!After, Protocol!Allowed
    <3> QED BY <1>1, <2>1, <2>3, <3>1, <3>2 DEF Thinking
  <2> QED BY <2>2, <2>3
<1>10. CASE \E t \in Turns : AgentStep(t)
  <2>1. PICK t \in Turns : AgentStep(t) BY <1>10
  <2>2. UNCHANGED <<orchVars, pushed>>
    BY <2>1 DEF AgentStep, AgentLock, LlmCallsAgain, AgentPartial, LlmCompletes, LlmStops,
      AgentFinal, AgentEnds,
      agentFrame
  <2>3. \/ agent' = agent
        \/ \E x \in Task!States \ {"none"} : agent' = [agent EXCEPT ![t] = x]
    BY <2>1 DEF AgentStep, AgentLock, LlmCallsAgain, AgentPartial, LlmCompletes, LlmStops,
      AgentFinal, AgentEnds,
      Task!Lock, Task!Speak, Task!Complete, Task!Stop, Task!Answer, Task!End, Task!Moves, Task!States
  <2>4. \A u \in Turns : agent[u] # "none" => agent'[u] # "none" BY <1>0, <2>3
  <2> QED BY <1>1, <2>2, <2>4 DEF orchVars, Thinking
<1>11. CASE \E s \in Streams : TtsStep(s)
  <2>1. UNCHANGED <<orchVars, pushed, agent>>
    BY <1>11 DEF TtsStep, TtsStart, TtsTake, TtsChunk, TtsFinishes, TtsStops, ttsFrame,
      agentVars
  <2> QED BY <1>1, <2>1 DEF orchVars, Thinking
<1>12. CASE UNCHANGED vars
  BY <1>1, <1>12 DEF vars, agentVars, orchVars, Thinking
<1> QED
  BY <1>3, <1>4, <1>5, <1>6, <1>7, <1>8, <1>9, <1>10, <1>11, <1>12
    DEF Next, OrchestratorStep, HandleEvent

-----------------------------------------------------------------------------
(* Transcripts. *)

\* The events that move the loop between listening and thinking.
TurnMarks == {"SpeechStarted", "SpeechEnded", "FinalTranscript"}

LEMMA QuietBus ==
    ASSUME BusTypeOK, bus' = bus \/ \E e : Added(e) /\ e.kind \notin TurnMarks
    PROVE  /\ \A i \in DOMAIN bus : i \in DOMAIN bus' /\ bus'[i] = bus[i]
           /\ \A i \in DOMAIN bus' : bus'[i].kind \in TurnMarks => i \in DOMAIN bus
           /\ \A k \in TurnMarks : OnBus(k)' <=> OnBus(k)
<1> USE BusDomain
<1>1. /\ \A i \in DOMAIN bus : i \in DOMAIN bus' /\ bus'[i] = bus[i]
      /\ \A i \in DOMAIN bus' : bus'[i].kind \in TurnMarks => i \in DOMAIN bus
  <2>1. CASE bus' = bus BY <2>1
  <2>2. CASE \E e : Added(e) /\ e.kind \notin TurnMarks
    <3>1. PICK e : Added(e) /\ e.kind \notin TurnMarks BY <2>2
    <3> QED BY <3>1, BusSteps DEF Added
  <2> QED BY <2>1, <2>2
<1>2. \A k \in TurnMarks : OnBus(k)' <=> OnBus(k) BY <1>1 DEF OnBus
<1> QED BY <1>1, <1>2

LEMMA TranscriptQuiet ==
    ASSUME BusTypeOK, TranscriptInv, UNCHANGED speechVars,
           bus' = bus \/ \E e : Added(e) /\ e.kind \notin TurnMarks,
           state' = state \/ state \notin {"Listening", "Transcribing"},
           pc' = "stopped" <=> pc = "stopped"
    PROVE  TranscriptInv'
<1> USE BusDomain DEF speechVars
<1>1. /\ \A i \in DOMAIN bus : i \in DOMAIN bus' /\ bus'[i] = bus[i]
      /\ \A i \in DOMAIN bus' : bus'[i].kind \in TurnMarks => i \in DOMAIN bus
  BY QuietBus
<1>2. \A k \in TurnMarks : OnBus(k)' <=> OnBus(k) BY QuietBus
<1>3. "SpeechStarted" \in TurnMarks /\ "SpeechEnded" \in TurnMarks /\ "FinalTranscript" \in TurnMarks
  BY DEF TurnMarks
<1>4. TranscriptsDone' BY <1>1, <1>3 DEF TranscriptInv, TranscriptsDone
<1>5. EndsHeard' BY <1>2, <1>3 DEF TranscriptInv, EndsHeard
<1>6. ASSUME ~hungup PROVE EarlyTasks' /\ LastTask' /\ TranscriptsOnBus'
  <2>1. EarlyTasks' BY <1>6 DEF TranscriptInv, EarlyTasks, Utterances
  <2>2. LastTask' BY <1>2, <1>3, <1>6 DEF TranscriptInv, EndsHeard, LastTask, EndOfLast
  <2>3. TranscriptsOnBus'
    <3> SUFFICES ASSUME NEW i \in DOMAIN bus', bus'[i].kind = "FinalTranscript"
                 PROVE  \/ /\ bus'[i].id = utt /\ ~speaking
                           /\ \/ state' = "Transcribing"
                              \/ \E j \in DOMAIN bus' : j < i /\ bus'[j].kind = "SpeechEnded"
                        \/ /\ bus'[i].id < utt
                           /\ \E j \in DOMAIN bus' : j > i /\ bus'[j].kind = "SpeechStarted"
      BY DEF TranscriptsOnBus
    <3>1. i \in DOMAIN bus /\ bus'[i] = bus[i] BY <1>1, <1>3
    <3>2. \/ /\ bus[i].id = utt /\ ~speaking
             /\ \/ state = "Transcribing"
                \/ \E j \in DOMAIN bus : j < i /\ bus[j].kind = "SpeechEnded"
          \/ /\ bus[i].id < utt
             /\ \E j \in DOMAIN bus : j > i /\ bus[j].kind = "SpeechStarted"
      BY <1>6, <3>1 DEF TranscriptInv, TranscriptsOnBus
    <3> QED BY <1>1, <3>1, <3>2
  <2> QED BY <2>1, <2>2, <2>3
<1> QED BY <1>4, <1>5, <1>6 DEF TranscriptInv

\* An event is taken.
LEMMA TranscriptTaken ==
    ASSUME TypeOK, TranscriptInv, SpeechInv, UNCHANGED speechVars, Taken, pc # "stopped", pc' # "stopped",
           CASE bus[1].kind = "SpeechStarted" -> state' = "Listening"
             [] bus[1].kind = "SpeechEnded" -> state = "Listening" => state' = "Transcribing"
             [] bus[1].kind = "FinalTranscript" ->
                  IF state = "Transcribing" THEN state' = "AgentThinking" ELSE state' = state
             [] OTHER -> state' = state \/ state \notin {"Listening", "Transcribing"}
    PROVE  TranscriptInv'
<1> USE DEF speechVars
<1>0. BusTypeOK /\ utt \in Nat /\ (speaking => utt # 0) BY Bounds DEF TypeOK, SpeechTypeOK
<1>1. /\ \A i \in DOMAIN bus' : i + 1 \in DOMAIN bus /\ bus'[i] = bus[i + 1] /\ i \in Nat \ {0}
      /\ \A i \in DOMAIN bus : i # 1 => i - 1 \in DOMAIN bus' /\ bus[i] = bus'[i - 1] /\ i \in Nat
      /\ 1 \in DOMAIN bus
  <2>1. \A i \in DOMAIN bus' : i + 1 \in DOMAIN bus /\ bus'[i] = bus[i + 1] /\ i \in Nat \ {0}
    BY <1>0, BusSteps
  <2>2. \A i \in DOMAIN bus : i # 1 => i - 1 \in DOMAIN bus' /\ bus[i] = bus'[i - 1]
    BY DEF Taken
  <2>3. 1 \in DOMAIN bus /\ \A i \in DOMAIN bus : i \in Nat
    BY <1>0, BusDomain DEF Taken
  <2> QED BY <2>1, <2>2, <2>3
<1>2. \A k : OnBus(k) <=> OnBus(k)' \/ bus[1].kind = k BY <1>1 DEF OnBus
<1>3. TranscriptsDone' BY <1>1 DEF TranscriptInv, TranscriptsDone
<1>4. bus[1].kind = "SpeechEnded" => ~OnBus("SpeechEnded")' /\ state = "Listening" /\ state' = "Transcribing"
  BY <1>1, <1>2 DEF SpeechInv, OnBus, TranscriptInv, EndsHeard
<1>5. bus[1].kind = "SpeechStarted" => speaking /\ ~OnBus("SpeechEnded")' /\ state' = "Listening"
  BY <1>1 DEF SpeechInv, OnBus
<1>6. EndsHeard'
  <2>1. CASE bus[1].kind = "SpeechEnded"
    <3>1. speaking => OnBus("SpeechStarted")' BY <1>2, <2>1 DEF SpeechInv
    <3> QED BY <1>4, <2>1, <3>1 DEF EndsHeard
  <2>2. CASE bus[1].kind = "SpeechStarted" BY <1>5, <2>2 DEF EndsHeard
  <2>3. CASE bus[1].kind \notin SpeechMarks
    BY <1>2, <2>3 DEF TranscriptInv, EndsHeard, SpeechMarks
  <2> QED BY <2>1, <2>2, <2>3 DEF SpeechMarks
<1>7. ASSUME ~hungup PROVE EarlyTasks' /\ LastTask' /\ TranscriptsOnBus'
  <2>0. EarlyTasks /\ LastTask /\ TranscriptsOnBus /\ EndsHeard /\ TranscriptsDone BY <1>7
    DEF TranscriptInv
  <2>1. EarlyTasks' BY <2>0 DEF EarlyTasks, Utterances
  <2>2. ASSUME bus[1].kind = "FinalTranscript", ~speaking PROVE bus[1].id = utt /\ asr[utt] = "done"
    BY <1>1, <2>0, <2>2 DEF TranscriptsOnBus, TranscriptsDone, SpeechInv
  <2>3. LastTask'
    <3> SUFFICES ASSUME utt # 0, asr[utt] \in {"transcribing", "partial"}
                 PROVE  ~speaking /\ (OnBus("SpeechEnded")' \/ state' = "Transcribing")
      BY DEF LastTask, EndOfLast
    <3>1. ~speaking /\ (OnBus("SpeechEnded") \/ state = "Transcribing") BY <2>0
      DEF LastTask, EndOfLast
    <3>2. bus[1].kind \notin {"FinalTranscript", "SpeechStarted"} BY <1>5, <2>2, <3>1
    <3>3. CASE bus[1].kind = "SpeechEnded" BY <1>4, <3>1, <3>3
    <3>4. CASE bus[1].kind # "SpeechEnded"
      <4>1. OnBus("SpeechEnded") => OnBus("SpeechEnded")' BY <1>2, <3>4
      <4>2. state' = state \/ state \notin {"Listening", "Transcribing"} BY <3>2, <3>4
      <4> QED BY <3>1, <4>1, <4>2
    <3> QED BY <3>3, <3>4
  <2>4. TranscriptsOnBus'
    <3> SUFFICES ASSUME NEW i \in DOMAIN bus', bus'[i].kind = "FinalTranscript"
                 PROVE  \/ /\ bus'[i].id = utt /\ ~speaking
                           /\ \/ state' = "Transcribing"
                              \/ \E j \in DOMAIN bus' : j < i /\ bus'[j].kind = "SpeechEnded"
                        \/ /\ bus'[i].id < utt
                           /\ \E j \in DOMAIN bus' : j > i /\ bus'[j].kind = "SpeechStarted"
      BY DEF TranscriptsOnBus
    <3>1. i + 1 \in DOMAIN bus /\ bus'[i] = bus[i + 1] /\ i \in Nat BY <1>1
    <3>2. CASE bus[i + 1].id < utt /\ \E j \in DOMAIN bus : j > i + 1 /\ bus[j].kind = "SpeechStarted"
      <4>1. PICK j \in DOMAIN bus : j > i + 1 /\ bus[j].kind = "SpeechStarted" BY <3>2
      <4>2. j - 1 \in DOMAIN bus' /\ bus'[j - 1] = bus[j] /\ j - 1 > i
        <5>1. j # 1 /\ j \in Nat BY <1>1, <3>1, <4>1, BusSteps, <1>0
        <5> QED BY <1>1, <3>1, <4>1, <5>1
      <4> QED BY <3>1, <3>2, <4>1, <4>2
    <3>3. CASE bus[i + 1].id = utt /\ ~speaking /\ state = "Transcribing"
      <4>1. bus[1].kind # "FinalTranscript"
        <5> SUFFICES ASSUME bus[1].kind = "FinalTranscript" PROVE FALSE
          OBVIOUS
        <5>1. bus[1].id = utt BY <2>2, <3>3
        <5>2. i + 1 = 1 BY <1>1, <2>0, <3>1, <3>3, <5>1 DEF TranscriptsDone
        <5> QED BY <1>1, <5>2
      <4>2. bus[1].kind \notin SpeechMarks BY <1>4, <1>5, <3>3 DEF SpeechMarks
      <4>3. state' = state BY <3>3, <4>1, <4>2 DEF SpeechMarks
      <4> QED BY <3>1, <3>3, <4>3
    <3>4. CASE /\ bus[i + 1].id = utt /\ ~speaking
               /\ \E j \in DOMAIN bus : j < i + 1 /\ bus[j].kind = "SpeechEnded"
      <4>1. PICK j \in DOMAIN bus : j < i + 1 /\ bus[j].kind = "SpeechEnded" BY <3>4
      <4>2. CASE j = 1 BY <1>4, <3>1, <3>4, <4>1, <4>2
      <4>3. CASE j # 1
        <5>1. j - 1 \in DOMAIN bus' /\ bus'[j - 1] = bus[j] /\ j - 1 < i BY <1>1, <3>1, <4>1,
          <4>3
        <5> QED BY <3>1, <3>4, <4>1, <5>1
      <4> QED BY <4>2, <4>3
    <3> QED BY <2>0, <3>1, <3>2, <3>3, <3>4 DEF TranscriptsOnBus
  <2> QED BY <2>1, <2>3, <2>4
<1> QED BY <1>3, <1>6, <1>7 DEF TranscriptInv

\* A handler that runs to its end, for every kind of event.
LEMMA HandlerSpeech ==
    ASSUME IInv, HandleEvent, "Cancel" \notin Signals
    PROVE  /\ pc # "stopped" /\ pc' # "stopped"
           /\ CASE Head(bus).kind = "SpeechStarted" -> state' = "Listening"
                [] Head(bus).kind = "SpeechEnded" -> state = "Listening" => state' = "Transcribing"
                [] Head(bus).kind = "FinalTranscript" ->
                     IF state = "Transcribing" THEN state' = "AgentThinking" ELSE state' = state
                [] OTHER -> state' = state \/ state \notin {"Listening", "Transcribing"}
<1> USE DEF Accept, Receive, Forward, Done
<1>1. CASE HandleFirstSpeech BY <1>1 DEF HandleFirstSpeech
<1>2. CASE HandleBargeIn BY <1>2 DEF HandleBargeIn
<1>3. CASE HandleSpeechEnded BY <1>3 DEF HandleSpeechEnded
<1>4. CASE HandlePartialTranscript BY <1>4 DEF HandlePartialTranscript
<1>5. CASE HandleFinalTranscript BY <1>5 DEF HandleFinalTranscript
<1>6. CASE HandleAgentPartial BY <1>6 DEF HandleAgentPartial
<1>7. CASE HandleAgentFinal BY <1>7 DEF HandleAgentFinal
<1>8. CASE HandleTtsAudioChunk BY <1>8 DEF HandleTtsAudioChunk
<1>9. CASE HandleTtsComplete BY <1>9 DEF HandleTtsComplete
<1>10. CASE HandleInterrupt BY <1>10 DEF HandleInterrupt
<1>11. CASE HandleCancel
  <2>1. Head(bus) \in Events /\ Head(bus).kind = "Cancel"
    BY <1>11, ReceiveFacts DEF HandleCancel
  <2> QED BY <2>1 DEF Events, SpeechKinds, AgentKinds, TtsKinds
<1>12. CASE HandleComponentError BY <1>12 DEF HandleComponentError
<1>13. CASE IgnoreEvent
  <2>1. /\ Head(bus).kind = "SpeechStarted" => state = "Listening"
        /\ Head(bus).kind = "SpeechEnded" => state # "Listening"
        /\ Head(bus).kind = "FinalTranscript" => state # "Transcribing"
    BY <1>13 DEF IgnoreEvent, Handles, AgentKinds
  <2> QED BY <1>13, <2>1 DEF IgnoreEvent, orchVars
<1> QED
  BY <1>1, <1>2, <1>3, <1>4, <1>5, <1>6, <1>7, <1>8, <1>9, <1>10, <1>11, <1>12, <1>13
     DEF HandleEvent

\* The front end's own steps.
LEMMA TranscriptFrontEnd ==
    ASSUME IInv, SpeechInv, LoopInv, TranscriptInv, TasksKeepUp, "asr" \in Prompt, FrontEnd
    PROVE  TranscriptInv'
<1>0. /\ TypeOK /\ BusTypeOK /\ asr \in [Utterances -> AsrStates] /\ utt \in 0 .. MaxUtterances
      /\ (speaking => utt # 0) /\ MaxUtterances \in Nat
      /\ pc = "stopped" => bus = <<>>
  BY Bounds DEF IInv, TypeOK, SpeechTypeOK, LoopInv
<1>1. pc' = pc /\ state' = state
  BY DEF FrontEnd, SendSpeechStarted, SendSpeechEnded, SendPartialTranscript,
    SendFinalTranscript,
    AsrEndsSilently, AsrOpensEarly, AudioEnds, backVars, orchVars
<1>2. ASSUME bus' = bus \/ \E e : Added(e) /\ e.kind \notin TurnMarks,
             UNCHANGED <<utt, speaking>>, hungup => hungup',
             \A u \in Utterances : asr[u] = "done" => asr'[u] = "done",
             ~hungup' =>
                 /\ \A u \in Utterances : u > utt /\ asr[u] \in {"none", "capturing", "done"} =>
                       asr'[u] \in {"none", "capturing", "done"}
                 /\ utt # 0 /\ asr'[utt] \in {"transcribing", "partial"} =>
                       asr[utt] \in {"transcribing", "partial"}
      PROVE  TranscriptInv'
  <2>1. /\ \A i \in DOMAIN bus : i \in DOMAIN bus' /\ bus'[i] = bus[i]
        /\ \A i \in DOMAIN bus' : bus'[i].kind \in TurnMarks => i \in DOMAIN bus
    BY <1>0, <1>2, QuietBus
  <2>2. \A k \in TurnMarks : OnBus(k)' <=> OnBus(k) BY <1>0, <1>2, QuietBus
  <2>3. "SpeechStarted" \in TurnMarks /\ "SpeechEnded" \in TurnMarks /\ "FinalTranscript" \in TurnMarks
    BY DEF TurnMarks
  <2>4. TranscriptsDone'
    BY <1>0, <1>2, <2>1, <2>3, EventKinds DEF TranscriptInv, TranscriptsDone, SpeechKinds
  <2>5. EndsHeard' BY <1>1, <1>2, <2>2, <2>3 DEF TranscriptInv, EndsHeard
  <2>6. ASSUME ~hungup' PROVE EarlyTasks' /\ LastTask' /\ TranscriptsOnBus'
    <3>0. EarlyTasks /\ LastTask /\ TranscriptsOnBus BY <1>2, <2>6 DEF TranscriptInv
    <3>1. EarlyTasks' BY <1>2, <2>6, <3>0 DEF EarlyTasks, Utterances
    <3>2. LastTask' BY <1>1, <1>2, <2>2, <2>3, <2>6, <3>0 DEF LastTask, EndOfLast
    <3>3. TranscriptsOnBus'
      <4> SUFFICES ASSUME NEW i \in DOMAIN bus', bus'[i].kind = "FinalTranscript"
                   PROVE  \/ /\ bus'[i].id = utt /\ ~speaking
                             /\ \/ state = "Transcribing"
                                \/ \E j \in DOMAIN bus' : j < i /\ bus'[j].kind = "SpeechEnded"
                          \/ /\ bus'[i].id < utt
                             /\ \E j \in DOMAIN bus' : j > i /\ bus'[j].kind = "SpeechStarted"
        BY <1>1, <1>2 DEF TranscriptsOnBus
      <4>1. i \in DOMAIN bus /\ bus'[i] = bus[i] BY <2>1, <2>3
      <4>2. \/ /\ bus[i].id = utt /\ ~speaking
               /\ \/ state = "Transcribing"
                  \/ \E j \in DOMAIN bus : j < i /\ bus[j].kind = "SpeechEnded"
            \/ /\ bus[i].id < utt
               /\ \E j \in DOMAIN bus : j > i /\ bus[j].kind = "SpeechStarted"
        BY <3>0, <4>1 DEF TranscriptsOnBus
      <4> QED BY <2>1, <4>1, <4>2
    <3> QED BY <3>1, <3>2, <3>3
  <2> QED BY <1>2, <2>4, <2>5, <2>6 DEF TranscriptInv
<1>3. CASE AsrOpensEarly
  BY <1>0, <1>2, <1>3 DEF AsrOpensEarly, OpenCapture, Utterances
<1>4. CASE AudioEnds
  BY <1>0, <1>2, <1>4 DEF AudioEnds, HangUp, Utterances
<1>5. CASE \E u \in Utterances : AsrEndsSilently(u)
  BY <1>0, <1>2, <1>5 DEF AsrEndsSilently, NoText, AsrLive, Utterances
<1>6. CASE SendSpeechStarted
  <2>1. /\ ~speaking /\ speaking' /\ utt' = utt + 1 /\ utt + 1 \in Utterances /\ hungup' = hungup
        /\ asr' = [asr EXCEPT ![utt + 1] =
             IF asr[utt + 1] # "none" THEN asr[utt + 1] ELSE IF hungup THEN "done" ELSE "capturing"]
    BY <1>0, <1>6 DEF SendSpeechStarted, StartUtterance, Utterances
  <2>2. /\ Event("SpeechStarted", utt + 1) \in Events
        /\ Event("SpeechStarted", utt + 1).kind = "SpeechStarted"
    BY <2>1 DEF Event, Events, SpeechKinds
  <2>3. (pc = "stopped" /\ bus' = bus) \/ Added(Event("SpeechStarted", utt + 1))
    BY <1>0, <1>6, <2>2, PutAdds DEF Put, SendSpeechStarted
  <2>4. ~OnBus("SpeechStarted") BY <2>1 DEF SpeechInv, OnBus
  <2>5. \A u \in Utterances : asr[u] = "done" => asr'[u] = "done" BY <1>0, <2>1
  <2>6. ASSUME ~hungup PROVE /\ \A u \in Utterances : u > utt + 1 => asr'[u] = asr[u]
                             /\ asr'[utt + 1] \in {"capturing", "done"}
    <3>1. asr[utt + 1] \in {"none", "capturing", "done"} BY <1>0, <2>1, <2>6
      DEF TranscriptInv, EarlyTasks
    <3> QED BY <1>0, <2>1, <2>6, <3>1
  <2>7. /\ \A i \in DOMAIN bus : i \in DOMAIN bus' /\ bus'[i] = bus[i]
        /\ \A i \in DOMAIN bus' : bus'[i].kind # "SpeechStarted" => i \in DOMAIN bus
    <3>1. CASE bus' = bus BY <3>1
    <3>2. CASE Added(Event("SpeechStarted", utt + 1)) BY <1>0, <2>2, <3>2, BusSteps, BusDomain
      DEF Added
    <3> QED BY <2>3, <3>1, <3>2
  <2>8. TranscriptsDone' BY <1>0, <2>5, <2>7, EventKinds
    DEF TranscriptInv, TranscriptsDone, SpeechKinds
  <2>9. EndsHeard'
    <3>1. OnBus("SpeechEnded")' => state' = "Listening"
      BY <1>1, <2>7 DEF OnBus, TranscriptInv, EndsHeard
    <3>2. pc = "stopped" \/ OnBus("SpeechStarted")'
      BY <1>0, <2>2, <2>3, BusDomain DEF OnBus, Added
    <3> QED BY <1>1, <3>1, <3>2 DEF EndsHeard
  <2>10. ASSUME ~hungup PROVE EarlyTasks' /\ LastTask' /\ TranscriptsOnBus'
    <3>1. EarlyTasks'
      BY <1>0, <2>1, <2>6, <2>10 DEF EarlyTasks, TranscriptInv, Utterances
    <3>2. LastTask' BY <2>1, <2>6, <2>10 DEF LastTask
    <3>3. TranscriptsOnBus'
      <4> SUFFICES ASSUME NEW i \in DOMAIN bus', bus'[i].kind = "FinalTranscript"
                   PROVE  /\ bus'[i].id < utt'
                          /\ \E j \in DOMAIN bus' : j > i /\ bus'[j].kind = "SpeechStarted"
        BY DEF TranscriptsOnBus
      <4>1. i \in DOMAIN bus /\ bus'[i] = bus[i] BY <2>7
      <4>2. bus[i].id = utt
        BY <2>4, <2>10, <4>1 DEF TranscriptInv, TranscriptsOnBus, OnBus
      <4>3. Added(Event("SpeechStarted", utt + 1))
        <5>1. pc # "stopped" BY <1>0, <4>1, BusDomain
        <5> QED BY <2>3, <5>1
      <4>4. /\ Len(bus) + 1 \in DOMAIN bus' /\ Len(bus) + 1 > i
            /\ bus'[Len(bus) + 1].kind = "SpeechStarted"
        BY <1>0, <2>2, <4>1, <4>3, BusDomain DEF Added
      <4> QED BY <1>0, <2>1, <4>1, <4>2, <4>4
    <3> QED BY <3>1, <3>2, <3>3
  <2> QED BY <2>1, <2>8, <2>9, <2>10 DEF TranscriptInv
<1>7. CASE SendSpeechEnded
  <2>1. /\ speaking /\ ~speaking' /\ UNCHANGED <<utt, hungup>> /\ utt \in Utterances
        /\ asr' = [asr EXCEPT ![utt] = IF asr[utt] = "capturing" THEN "transcribing" ELSE asr[utt]]
    BY <1>0, <1>7 DEF SendSpeechEnded, EndUtterance, Utterances
  <2>2. Event("SpeechEnded", utt) \in Events /\ Event("SpeechEnded", utt).kind = "SpeechEnded"
    BY <2>1 DEF Event, Events, SpeechKinds, Utterances
  <2>3. (pc = "stopped" /\ bus' = bus) \/ (pc # "stopped" /\ Added(Event("SpeechEnded", utt)))
    BY <1>0, <1>7, <2>2, PutAdds DEF Put, SendSpeechEnded
  <2>4. ~OnBus("SpeechStarted") BY <1>7 DEF SendSpeechEnded, KeepsUp, TasksKeepUp, OnBus
  <2>5. pc # "stopped" => state = "Listening" BY <2>1, <2>4 DEF TranscriptInv, EndsHeard
  <2>6. /\ \A i \in DOMAIN bus : i \in DOMAIN bus' /\ bus'[i] = bus[i]
        /\ \A i \in DOMAIN bus' : bus'[i].kind # "SpeechEnded" => i \in DOMAIN bus
    <3>1. CASE bus' = bus BY <3>1
    <3>2. CASE Added(Event("SpeechEnded", utt)) BY <1>0, <2>2, <3>2, BusSteps, BusDomain
      DEF Added
    <3> QED BY <2>3, <3>1, <3>2
  <2>7. \A u \in Utterances : asr[u] = "done" => asr'[u] = "done" BY <1>0, <2>1
  <2>8. TranscriptsDone' BY <1>0, <2>6, <2>7, EventKinds
    DEF TranscriptInv, TranscriptsDone, SpeechKinds
  <2>9. pc = "stopped" \/ OnBus("SpeechEnded")'
    BY <1>0, <2>2, <2>3, BusDomain DEF OnBus, Added
  <2>10. EndsHeard'
    <3>1. CASE pc = "stopped" /\ bus' = bus
      BY <1>1, <2>1, <3>1 DEF EndsHeard, TranscriptInv, OnBus
    <3>2. CASE pc # "stopped" BY <1>1, <2>1, <2>5, <3>2 DEF EndsHeard
    <3> QED BY <2>3, <3>1, <3>2
  <2>11. ASSUME ~hungup PROVE EarlyTasks' /\ LastTask' /\ TranscriptsOnBus'
    <3>1. EarlyTasks' BY <1>0, <2>1, <2>11 DEF EarlyTasks, TranscriptInv, Utterances
    <3>2. LastTask' BY <1>1, <2>1, <2>9 DEF LastTask, EndOfLast
    <3>3. \A i \in DOMAIN bus : bus[i].kind # "FinalTranscript"
      BY <2>1, <2>4, <2>11 DEF TranscriptInv, TranscriptsOnBus, OnBus
    <3>4. TranscriptsOnBus' BY <2>6, <3>3 DEF TranscriptsOnBus
    <3> QED BY <3>1, <3>2, <3>4
  <2> QED BY <2>1, <2>8, <2>10, <2>11 DEF TranscriptInv
<1>8. CASE \E u \in Utterances : SendPartialTranscript(u)
  <2>1. PICK u \in Utterances : SendPartialTranscript(u) BY <1>8
  <2>2. /\ Event("PartialTranscript", u) \in Events
        /\ Event("PartialTranscript", u).kind = "PartialTranscript"
    BY DEF Event, Events, SpeechKinds
  <2>3. bus' = bus \/ \E e : Added(e) /\ e.kind \notin TurnMarks
    BY <1>0, <2>1, <2>2, PutAdds DEF SendPartialTranscript, Put, TurnMarks
  <2>4. asr[u] = "transcribing" /\ asr' = [asr EXCEPT ![u] = "partial"] /\ UNCHANGED <<utt, speaking, hungup>>
    BY <2>1 DEF SendPartialTranscript, PartialText
  <2>5. \A v \in Utterances : asr'[v] = IF v = u THEN "partial" ELSE asr[v] BY <1>0, <2>4
  <2>6. utt # 0 => utt \in Utterances BY <1>0 DEF Utterances
  <2> QED BY <1>2, <2>3, <2>4, <2>5, <2>6
<1>9. CASE \E u \in Utterances : SendFinalTranscript(u)
  <2>1. PICK u \in Utterances : SendFinalTranscript(u) BY <1>9
  <2>2. /\ asr[u] = "partial" /\ asr' = [asr EXCEPT ![u] = "done"] /\ UNCHANGED <<utt, speaking, hungup>>
        /\ Put(Event("FinalTranscript", u)) /\ KeepsUp
    BY <2>1 DEF SendFinalTranscript, FinalText
  <2>3. /\ Event("FinalTranscript", u) \in Events
        /\ Event("FinalTranscript", u).kind = "FinalTranscript" /\ Event("FinalTranscript", u).id = u
    BY DEF Event, Events, SpeechKinds
  <2>4. (pc = "stopped" /\ bus' = bus) \/ (pc # "stopped" /\ Added(Event("FinalTranscript", u)))
    BY <1>0, <2>2, <2>3, PutAdds DEF Put
  <2>5. /\ \A v \in Utterances : asr'[v] = IF v = u THEN "done" ELSE asr[v]
        /\ \A v \in Utterances : asr[v] = "done" => asr'[v] = "done" /\ v # u
    BY <1>0, <2>2
  <2>6. /\ \A i \in DOMAIN bus : i \in DOMAIN bus' /\ bus'[i] = bus[i]
        /\ \A i \in DOMAIN bus' :
             \/ i \in DOMAIN bus
             \/ i = Len(bus) + 1 /\ bus'[i] = Event("FinalTranscript", u) /\ pc # "stopped"
    <3>1. CASE pc = "stopped" /\ bus' = bus BY <3>1
    <3>2. CASE Added(Event("FinalTranscript", u)) /\ pc # "stopped"
      BY <1>0, <2>3, <3>2, BusSteps, BusDomain DEF Added
    <3> QED BY <2>4, <3>1, <3>2
  <2>7. TranscriptsDone'
    BY <1>0, <2>3, <2>5, <2>6, EventKinds DEF TranscriptInv, TranscriptsDone, SpeechKinds
  <2>8. OnBus("SpeechEnded")' <=> OnBus("SpeechEnded") BY <2>3, <2>6 DEF OnBus
  <2>9. OnBus("SpeechStarted")' <=> OnBus("SpeechStarted") BY <2>3, <2>6 DEF OnBus
  <2>10. EndsHeard' BY <1>1, <2>2, <2>8, <2>9 DEF TranscriptInv, EndsHeard
  <2>11. ASSUME ~hungup PROVE EarlyTasks' /\ LastTask' /\ TranscriptsOnBus'
    <3>0. EarlyTasks /\ LastTask /\ TranscriptsOnBus BY <2>11 DEF TranscriptInv
    <3>1. u = utt
      <4>1. ~(u < utt) BY <2>2 DEF KeepsUp, TasksKeepUp, AsrLive
      <4>2. ~(u > utt) BY <2>2, <3>0 DEF EarlyTasks
      <4> QED BY <1>0, <4>1, <4>2 DEF Utterances
    <3>2. ~speaking /\ EndOfLast BY <1>0, <2>2, <3>0, <3>1 DEF LastTask, Utterances
    <3>3. EarlyTasks' BY <2>2, <2>5, <3>0 DEF EarlyTasks, Utterances
    <3>4. LastTask' BY <2>2, <2>5, <3>1 DEF LastTask
    <3>5. TranscriptsOnBus'
      <4> SUFFICES ASSUME NEW i \in DOMAIN bus', bus'[i].kind = "FinalTranscript"
                   PROVE  \/ /\ bus'[i].id = utt /\ ~speaking
                             /\ \/ state = "Transcribing"
                                \/ \E j \in DOMAIN bus' : j < i /\ bus'[j].kind = "SpeechEnded"
                          \/ /\ bus'[i].id < utt
                             /\ \E j \in DOMAIN bus' : j > i /\ bus'[j].kind = "SpeechStarted"
        BY <1>1, <2>2 DEF TranscriptsOnBus
      <4>1. CASE i \in DOMAIN bus
        <5>1. \/ /\ bus[i].id = utt /\ ~speaking
                 /\ \/ state = "Transcribing"
                    \/ \E j \in DOMAIN bus : j < i /\ bus[j].kind = "SpeechEnded"
              \/ /\ bus[i].id < utt
                 /\ \E j \in DOMAIN bus : j > i /\ bus[j].kind = "SpeechStarted"
          BY <2>6, <3>0, <4>1 DEF TranscriptsOnBus
        <5> QED BY <2>6, <4>1, <5>1
      <4>2. CASE i = Len(bus) + 1 /\ bus'[i] = Event("FinalTranscript", u) /\ pc # "stopped"
        <5>1. bus'[i].id = utt /\ ~speaking BY <2>3, <3>1, <3>2, <4>2
        <5>2. state = "Transcribing" \/ \E j \in DOMAIN bus : j < i /\ bus[j].kind = "SpeechEnded"
          BY <1>0, <3>2, <4>2, BusDomain DEF EndOfLast, OnBus
        <5> QED BY <2>6, <5>1, <5>2
      <4> QED BY <2>6, <4>1, <4>2
    <3> QED BY <3>3, <3>4, <3>5
  <2> QED BY <2>2, <2>7, <2>10, <2>11 DEF TranscriptInv
<1> QED BY <1>3, <1>4, <1>5, <1>6, <1>7, <1>8, <1>9 DEF FrontEnd

LEMMA TranscriptInvNext ==
    ASSUME IInv, SpeechInv, LoopInv, TranscriptInv, TasksKeepUp, "asr" \in Prompt,
           "Cancel" \notin Signals, [Next]_vars
    PROVE  TranscriptInv'
<1>0. TypeOK /\ BusTypeOK BY DEF IInv, TypeOK
<1>1. ASSUME UNCHANGED speechVars, pc' = pc, state' = state,
             UNCHANGED bus \/ \E e \in Events : Put(e) /\ e.kind \notin TurnMarks
      PROVE  TranscriptInv'
  <2>1. bus' = bus \/ \E e : Added(e) /\ e.kind \notin TurnMarks
    BY <1>0, <1>1, PutAdds DEF Put
  <2> QED BY <1>0, <1>1, <2>1, TranscriptQuiet
<1>2. CASE FrontEnd BY <1>2, TranscriptFrontEnd
<1>3. CASE DrainEgress \/ Shutdown \/ SendEgress
  <2>1. UNCHANGED speechVars /\ UNCHANGED bus /\ state' = state /\ (pc' = "stopped" <=> pc = "stopped")
    BY <1>3 DEF DrainEgress, Shutdown, SendEgress, Done, orchVars
  <2> QED BY <1>0, <2>1, TranscriptQuiet
<1>4. CASE \E k \in Signals : SendSignal(k)
  <2>1. PICK k \in Signals : SendSignal(k) BY <1>4
  <2>2. Event(k, 0) \in Events /\ Event(k, 0).kind \notin TurnMarks
    BY Bounds DEF Event, Events, TurnMarks
  <2> QED BY <1>1, <2>1, <2>2 DEF SendSignal, orchVars
<1>5. CASE HandleEvent
  <2>1. Taken /\ Head(bus) = bus[1] BY <1>0, <1>5, HandlerMoves, TakeTakes DEF Taken
  <2>2. UNCHANGED speechVars BY <1>0, <1>5, HandlerMoves
  <2> QED BY <1>0, <1>5, <2>1, <2>2, HandlerSpeech, TranscriptTaken
<1>6. CASE SendSentence \/ SentenceRefused
  <2>1. /\ UNCHANGED speechVars /\ UNCHANGED bus /\ state = "AgentThinking"
        /\ pc = "text" /\ pc' \in {"text", "egress"}
    BY <1>6 DEF SendSentence, SentenceRefused, LeaveText, textFrame, IInv, ClientAgrees
  <2> QED BY <1>0, <2>1, TranscriptQuiet
<1>7. CASE StopOrchestrator
  <2>1. bus' = <<>> /\ pc' = "stopped" /\ UNCHANGED speechVars BY <1>7
    DEF StopOrchestrator, envVars
  <2>2. DOMAIN bus' = {} BY <2>1
  <2> QED BY <2>1, <2>2 DEF TranscriptInv, TranscriptsDone, EndsHeard, EarlyTasks, LastTask,
    EndOfLast,
            TranscriptsOnBus, OnBus, speechVars, Utterances
<1>8. CASE \E t \in Turns : AgentStep(t)
  <2>1. PICK t \in Turns : AgentStep(t) BY <1>8
  <2>2. /\ Event("AgentPartialResponse", t) \in Events /\ Event("AgentFinalResponse", t) \in Events
        /\ Event("AgentPartialResponse", t).kind = "AgentPartialResponse"
        /\ Event("AgentFinalResponse", t).kind = "AgentFinalResponse"
    BY DEF Event, Events, AgentKinds
  <2>3. CASE AgentPartial(t) \/ AgentFinal(t)
    BY <1>1, <2>2, <2>3 DEF AgentPartial, AgentFinal, TurnMarks, agentFrame, orchVars
  <2>4. CASE AgentLock(t) \/ LlmCallsAgain(t) \/ LlmCompletes(t) \/ LlmStops(t) \/ AgentEnds(t)
    BY <1>1, <2>4 DEF AgentLock, LlmCallsAgain, LlmCompletes, LlmStops, AgentEnds, agentFrame,
      orchVars
  <2> QED BY <2>1, <2>3, <2>4 DEF AgentStep
<1>9. CASE \E s \in Streams : TtsStep(s)
  <2>1. PICK s \in Streams : TtsStep(s) BY <1>9
  <2>2. /\ Event("TtsAudioChunk", s) \in Events /\ Event("TtsComplete", s) \in Events
        /\ Event("TtsAudioChunk", s).kind = "TtsAudioChunk"
        /\ Event("TtsComplete", s).kind = "TtsComplete"
    BY DEF Event, Events, TtsKinds
  <2>3. CASE TtsChunk(s) \/ TtsFinishes(s)
    BY <1>1, <2>2, <2>3 DEF TtsChunk, TtsFinishes, ttsFrame, TurnMarks, orchVars
  <2>4. CASE TtsStart(s) \/ TtsTake(s) \/ TtsStops(s)
    BY <1>1, <2>4 DEF TtsStart, TtsTake, TtsStops, ttsFrame, orchVars
  <2> QED BY <2>1, <2>3, <2>4 DEF TtsStep
<1>10. CASE UNCHANGED vars
  BY <1>1, <1>10 DEF vars, orchVars
<1> QED
  BY <1>2, <1>3, <1>4, <1>5, <1>6, <1>7, <1>8, <1>9, <1>10 DEF Next, OrchestratorStep

-----------------------------------------------------------------------------
(* The theorems about turns. *)

TurnInv ==
    IInv /\ SpeechInv /\ LoopInv /\ AgentInv /\ TtsInv /\ FlagsOnlyHitCancelled /\ PushedInv

LEMMA TurnInvInit == Init => TurnInv /\ TranscriptInv
<1> SUFFICES ASSUME Init PROVE TurnInv /\ TranscriptInv
  OBVIOUS
<1>1. DOMAIN bus = {} /\ Len(bus) = 0 BY DEF Init
<1>2. IInv BY IInvInit
<1> USE Bounds DEF Init, SpeechInit, Task!Init, Nothing, Event
<1>3. SpeechInv /\ LoopInv BY <1>1 DEF SpeechInv, LoopInv, OnBus
<1>4. AgentInv
  BY <1>1 DEF AgentInv, TurnTasks, LiveTurns, TurnsOnBus, FinalIsLast, Thinking, AgentLive,
    AgentKinds, Turns
<1>5. TtsInv
  BY <1>1 DEF TtsInv, StreamTasks, LiveStreams, StreamsOnBus, CompleteIsLast, Replying,
    TtsLive, TtsKinds, Streams
<1>6. FlagsOnlyHitCancelled /\ PushedInv
  BY DEF FlagsOnlyHitCancelled, PushedInv, Thinking, Turns, Streams
<1>7. TranscriptInv
  BY <1>1 DEF TranscriptInv, TranscriptsDone, EndsHeard, EarlyTasks, LastTask,
    TranscriptsOnBus, OnBus
<1> QED BY <1>2, <1>3, <1>4, <1>5, <1>6, <1>7 DEF TurnInv

LEMMA TurnInvNext == ASSUME TasksKeepUp PROVE TurnInv /\ [Next]_vars => TurnInv'
  BY IInvNext, SpeechInvNext, LoopInvNext, AgentInvNext, TtsInvNext, FlagsNext, PushedInvNext
    DEF TurnInv

LEMMA TurnInvAlways == ASSUME TasksKeepUp PROVE Spec => []TurnInv
<1>1. Init => TurnInv BY TurnInvInit
<1>2. TurnInv /\ [Next]_vars => TurnInv' BY TurnInvNext
<1> QED BY <1>1, <1>2, PTL DEF Spec

\* No agent or TTS task escapes: one that is at work is cancelled, or is the one
\* whose token cancel_active_tasks would cancel.
THEOREM TasksCancellable == ASSUME TasksKeepUp PROVE Spec => []EveryTaskCancellable
<1>1. TurnInv => EveryTaskCancellable
  <2> SUFFICES ASSUME TurnInv PROVE EveryTaskCancellable
    OBVIOUS
  <2>1. streams \in Nat BY Bounds DEF TurnInv, IInv, TypeOK, TtsTypeOK
  <2>2. CASE shutdown
    BY <2>1, <2>2 DEF TurnInv, AgentInv, TurnTasks, TtsInv, StreamTasks, EveryTaskCancellable,
      TtsLive, Streams
  <2>3. CASE ~shutdown
    <3>1. pc # "stopped" BY <2>3 DEF TurnInv, LoopInv
    <3> QED
      BY <2>3, <3>1 DEF TurnInv, AgentInv, LiveTurns, TtsInv, LiveStreams,
        EveryTaskCancellable, AgentLive
  <2> QED BY <2>2, <2>3
<1> QED BY <1>1, TurnInvAlways, PTL

\* What the loop forwards or speaks is of the current turn and stream, and these
\* are not cancelled (the handler arms guard only by state, not by turn).
THEOREM CurrentTurnSpeaks == ASSUME TasksKeepUp PROVE Spec => []OnlyCurrentTurnSpeaks
<1>1. TurnInv => OnlyCurrentTurnSpeaks
  <2> SUFFICES ASSUME TurnInv, ~shutdown PROVE OnlyCurrentTurnSpeaks
    BY DEF OnlyCurrentTurnSpeaks
  <2>1. event.kind \in AgentKinds => event.id = turn /\ turn = agentToken /\ event.id \in Turns
    <3>1. event \in Events \cup {Nothing} BY DEF TurnInv, IInv, TypeOK, LoopTypeOK
    <3>2. event.kind \in AgentKinds => event \in Events BY <3>1 DEF AgentKinds, Nothing, Event
    <3> QED BY <3>2, EventId DEF TurnInv, AgentInv, TurnTasks
  <2> QED
    BY <2>1 DEF TurnInv, AgentInv, TurnTasks, TtsInv, OnlyCurrentTurnSpeaks, Turns
<1> QED BY <1>1, TurnInvAlways, PTL

\* The providers' shared cancelled flags end no call whose own token is not
\* cancelled (LlmProvider::cancel, TtsProvider::cancel).
THEOREM FlagsHitCancelled == ASSUME TasksKeepUp PROVE Spec => []FlagsOnlyHitCancelled
<1>1. TurnInv => FlagsOnlyHitCancelled BY DEF TurnInv
<1> QED BY <1>1, TurnInvAlways, PTL

\* An answer is ignored by handle_event only if its turn is cancelled.
THEOREM AnswersKept == ASSUME TasksKeepUp PROVE Spec => NoAnswerLost
<1>1. TurnInv /\ [Next]_vars =>
         [IgnoreEvent /\ Head(bus).kind = "AgentFinalResponse" => Head(bus).id \in agentCancelled]_vars
  <2> SUFFICES ASSUME TurnInv, IgnoreEvent, Head(bus).kind = "AgentFinalResponse"
               PROVE  Head(bus).id \in agentCancelled
    OBVIOUS
  <2>1. 1 \in DOMAIN bus /\ Head(bus) = bus[1]
    BY TakeTakes DEF IgnoreEvent, TurnInv, IInv, TypeOK, Taken
  <2>2. state # "AgentThinking" BY DEF IgnoreEvent, Handles, AgentKinds
  <2> QED BY <2>1, <2>2 DEF TurnInv, AgentInv, TurnsOnBus, Thinking, AgentKinds
<1> QED BY <1>1, TurnInvAlways, PTL DEF Spec, NoAnswerLost

\* flush_remaining speaks the whole answer only if no part of it was spoken.
THEOREM AnswersSpokenOnce == ASSUME TasksKeepUp PROVE Spec => NoRepeatedAnswer
<1>1. TurnInv /\ [Next]_vars =>
         [HandleAgentFinal /\ buffer = "empty" /\ buffer' = "text" => Head(bus).id \notin pushed]_vars
  <2> SUFFICES ASSUME TurnInv, HandleAgentFinal, buffer = "empty"
               PROVE  Head(bus).id \notin pushed
    OBVIOUS
  <2>1. 1 \in DOMAIN bus /\ Head(bus) = bus[1] /\ Head(bus).kind = "AgentFinalResponse"
    BY TakeTakes DEF HandleAgentFinal, Receive, TurnInv, IInv, TypeOK, Taken
  <2>2. state = "AgentThinking" /\ event = Nothing BY
    DEF HandleAgentFinal, Receive, TurnInv, LoopInv
  <2>3. Thinking /\ \A n : ~Over(n) BY <2>2 DEF Thinking, Over, Nothing, Event
  <2>4. Head(bus).id = turn
    BY <2>1, <2>3 DEF TurnInv, AgentInv, TurnTasks, TurnsOnBus, AgentKinds
  <2> QED BY <2>3, <2>4 DEF TurnInv, PushedInv
<1> QED BY <1>1, TurnInvAlways, PTL DEF Spec, NoRepeatedAnswer

\* A transcript is ignored only if a newer utterance is under way or the audio
\* has ended.  A transport that sends Cancel may lose one, so none is sent here.
THEOREM TranscriptsKept ==
    ASSUME TasksKeepUp, "asr" \in Prompt, "Cancel" \notin Signals
    PROVE  Spec => NoTranscriptLost
<1>1. Init => TurnInv /\ TranscriptInv BY TurnInvInit
<1>2. TurnInv /\ TranscriptInv /\ [Next]_vars => TurnInv' /\ TranscriptInv'
  BY TurnInvNext, TranscriptInvNext DEF TurnInv
<1>3. TurnInv /\ TranscriptInv /\ [Next]_vars =>
         [IgnoreEvent /\ Head(bus).kind = "FinalTranscript" => Head(bus).id < utt \/ hungup]_vars
  <2> SUFFICES ASSUME TurnInv, TranscriptInv, IgnoreEvent, Head(bus).kind = "FinalTranscript", ~hungup
               PROVE  Head(bus).id < utt
    OBVIOUS
  <2>1. 1 \in DOMAIN bus /\ Head(bus) = bus[1] /\ DOMAIN bus = 1 .. Len(bus)
    BY TakeTakes, BusDomain DEF IgnoreEvent, TurnInv, IInv, TypeOK, Taken
  <2>2. state # "Transcribing" BY DEF IgnoreEvent, Handles, AgentKinds
  <2> QED BY <2>1, <2>2 DEF TranscriptInv, TranscriptsOnBus
<1> QED BY <1>1, <1>2, <1>3, PTL DEF Spec, NoTranscriptLost
=============================================================================
