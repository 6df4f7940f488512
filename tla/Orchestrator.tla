---------------------------- MODULE Orchestrator ----------------------------
(***************************************************************************)
(* core/src/orchestrator.rs: the event loop that turns the events of VAD,   *)
(* ASR, agent and TTS into turns, with the tasks it spawns.                 *)
(*                                                                         *)
(* The orchestrator is one task.  Between two awaits it is atomic here; the *)
(* awaits that can block it are kept: the sentence send to the TTS text     *)
(* channel (pc = "text") and the send to the transport (pc = "egress").     *)
(* Events carry the id of the utterance, turn or TTS stream they come from, *)
(* which the code does NOT have: no guard of a handler reads it, except to  *)
(* name the task a handler starts; the properties do.                       *)
(***************************************************************************)
EXTENDS SpeechEvents, Sequences, FiniteSets

CONSTANTS
    MaxPartials,    \* AgentPartialResponse events of one turn
    MaxSentences,   \* complete sentences one partial response can release
    MaxChunks,      \* TtsAudioChunk events of one sentence
    BusCap,         \* event bus capacity (200 in the code)
    TextCap,        \* sentence channel capacity (20)
    EgressCap,      \* transport egress capacity
    Prompt,         \* the tasks that keep up with the speaker (see KeepsUp)
    Signals,        \* Interrupt, Cancel, ComponentError a transport may send
    MaxSignals,     \* bound on those signals
    LlmFails,       \* the LLM call may fail, or run out of tool iterations
    MaxStreams      \* bound on TTS streams of one session

ASSUME OrchestratorAssumption ==
    /\ {MaxPartials, MaxSentences, MaxChunks, MaxSignals} \subseteq Nat
    /\ {BusCap, TextCap, EgressCap, MaxStreams} \subseteq Nat \ {0}
    /\ Prompt \subseteq {"orchestrator", "asr", "agent", "tts"}
    /\ Signals \subseteq {"Interrupt", "Cancel", "ComponentError"}
    /\ LlmFails \in BOOLEAN

VARIABLES
    bus,          \* event_tx / event_rx
    state,        \* OrchestratorState
    pc,           \* where the orchestrator task awaits
    event,        \* the event it handles while it awaits
    sentences,    \* sentences still to be sent before the handler goes on
    buffer,       \* sentence_buffer: "empty", "blank" (trims to nothing), "text"
    textTx,       \* stream whose tts_text_tx it holds, 0 for None
    turn,         \* turn_count
    interrupts,   \* interrupt_count
    agentToken,   \* turn in agent_turn_cancel, 0 for None
    ttsToken,     \* stream in tts_turn_cancel, 0 for None
    egress,       \* number of events in the egress channel
    client,       \* what the events sent to egress tell (TurnProtocol's phase)
    shutdown,     \* the session's cancel_token
    signals,      \* transport signals sent so far
    agent,        \* agent[t]: the agent task of turn t
    partials,     \* partials[t]: partial responses turn t has sent
    lock,         \* holder of the AgentCore mutex, 0 if free
    agentCancelled,   \* turns whose token is cancelled
    llmFlag,      \* the LLM provider's shared `cancelled` flag
    tts,          \* tts[s]: the task of TTS stream s
    streams,      \* streams started so far
    text,         \* text[s]: number of sentences in the text channel of s
    chunks,       \* chunks[s]: audio chunks left of the sentence in synthesis
    ttsCancelled, \* streams whose token is cancelled
    ttsFlag,      \* the TTS provider's shared `cancelled` flag
    pushed        \* history: turns of which partial text went to the buffer

orchVars  == <<state, pc, event, sentences, buffer, textTx, turn, interrupts,
               agentToken, ttsToken>>
agentVars == <<agent, partials, lock>>
ttsVars   == <<tts, text, chunks>>
tokenVars == <<agentCancelled, llmFlag, ttsCancelled, ttsFlag>>
outside == <<egress, client, shutdown, signals>>
vars == <<speechVars, bus, orchVars, outside, agentVars, ttsVars, tokenVars, streams, pushed>>

Protocol == INSTANCE TurnProtocol WITH phase <- client

Turns   == 1 .. MaxUtterances
Streams == 1 .. MaxStreams

Task == INSTANCE AgentTask

States == {"Idle", "Listening", "Transcribing", "AgentThinking", "Speaking"}

Event(k, n) == [kind |-> k, id |-> n]
Nothing == Event("Nothing", 0)

SpeechKinds == {"SpeechStarted", "SpeechEnded", "PartialTranscript", "FinalTranscript"}
AgentKinds  == {"AgentPartialResponse", "AgentFinalResponse"}
TtsKinds    == {"TtsAudioChunk", "TtsComplete"}

Events == [kind : SpeechKinds, id : Utterances] \cup [kind : AgentKinds, id : Turns]
          \cup [kind : TtsKinds, id : Streams] \cup [kind : Signals, id : {0}]

TtsStates   == {"none", "spawned", "running", "done"}

BusTypeOK == bus \in Seq(Events) /\ Len(bus) <= BusCap

LoopTypeOK ==
    /\ state \in States
    /\ pc \in {"recv", "text", "egress", "stopped"}
    /\ event \in Events \cup {Nothing}
    /\ sentences \in Nat
    /\ buffer \in {"empty", "blank", "text"}
    /\ textTx \in 0 .. MaxStreams
    /\ turn \in 0 .. MaxUtterances
    /\ interrupts \in Nat
    /\ agentToken \in 0 .. MaxUtterances
    /\ ttsToken \in 0 .. MaxStreams

OutsideTypeOK ==
    /\ egress \in 0 .. EgressCap
    /\ client \in Protocol!Phases \cup {Protocol!Confused}
    /\ shutdown \in BOOLEAN
    /\ signals \in 0 .. MaxSignals

AgentTypeOK ==
    /\ agent \in [Turns -> Task!States]
    /\ partials \in [Turns -> 0 .. MaxPartials]
    /\ lock \in 0 .. MaxUtterances

TtsTypeOK ==
    /\ streams \in 0 .. MaxStreams
    /\ tts \in [Streams -> TtsStates]
    /\ text \in [Streams -> 0 .. TextCap]
    /\ chunks \in [Streams -> 0 .. MaxChunks]

TokenTypeOK ==
    /\ agentCancelled \subseteq Turns
    /\ llmFlag \in BOOLEAN
    /\ ttsCancelled \subseteq Streams
    /\ ttsFlag \in BOOLEAN

TypeOK ==
    /\ SpeechTypeOK
    /\ BusTypeOK
    /\ LoopTypeOK
    /\ OutsideTypeOK
    /\ AgentTypeOK
    /\ TtsTypeOK
    /\ TokenTypeOK
    /\ pushed \subseteq Turns

Init ==
    /\ SpeechInit
    /\ bus = <<>>
    /\ state = "Idle" /\ pc = "recv" /\ event = Nothing
    /\ sentences = 0 /\ buffer = "empty" /\ textTx = 0
    /\ turn = 0 /\ interrupts = 0 /\ agentToken = 0 /\ ttsToken = 0
    /\ egress = 0 /\ client = "Quiet" /\ shutdown = FALSE /\ signals = 0
    /\ Task!Init /\ llmFlag = FALSE
    /\ tts = [s \in Streams |-> "none"]
    /\ streams = 0
    /\ text = [s \in Streams |-> 0]
    /\ chunks = [s \in Streams |-> 0]
    /\ ttsCancelled = {} /\ ttsFlag = FALSE
    /\ pushed = {}

\* Mutant: the bus outlives the orchestrator that empties it.
PutUndropped(e) ==
    /\ Len(bus) < BusCap
    /\ bus' = Append(bus, e)

\* event_tx.send: waits for room; once the orchestrator is gone the receiver
\* is dropped and the send returns at once, with nothing delivered.
Put(e) ==
    \/ /\ pc # "stopped"
       /\ Len(bus) < BusCap
       /\ bus' = Append(bus, e)
    \/ /\ pc = "stopped"
       /\ UNCHANGED bus

AgentLive(t) == agent[t] \in {"waiting", "streaming", "finishing", "stopping"}
TtsLive(s) == tts[s] \in {"spawned", "running"}

-----------------------------------------------------------------------------
(* The front end.  KeepsUp is the scheduling assumption some runs make: an  *)
(* utterance and its transcription take long enough (min_speech_ms,         *)
(* silence_ms, an HTTP request) for its SpeechStarted to be handled, and     *)
(* for the cancelled tasks of the kinds in Prompt to notice, before its      *)
(* SpeechEnded and its FinalTranscript are sent.                             *)

KeepsUp ==
    /\ "orchestrator" \in Prompt => \A i \in DOMAIN bus : bus[i].kind # "SpeechStarted"
    /\ "asr" \in Prompt => \A u \in Utterances : u < utt => ~AsrLive(u)
    /\ "agent" \in Prompt => \A t \in agentCancelled : ~AgentLive(t)
    /\ "tts" \in Prompt => \A s \in ttsCancelled : ~TtsLive(s)

backVars == <<orchVars, outside, agentVars, ttsVars, tokenVars, streams, pushed>>

SendSpeechStarted == StartUtterance /\ Put(Event("SpeechStarted", utt + 1)) /\ UNCHANGED backVars
SendSpeechEnded == EndUtterance /\ KeepsUp /\ Put(Event("SpeechEnded", utt)) /\ UNCHANGED backVars
SendPartialTranscript(u) ==
    PartialText(u) /\ Put(Event("PartialTranscript", u)) /\ UNCHANGED backVars
SendFinalTranscript(u) ==
    FinalText(u) /\ KeepsUp /\ Put(Event("FinalTranscript", u)) /\ UNCHANGED backVars
AsrEndsSilently(u) == NoText(u) /\ UNCHANGED <<bus, backVars>>
AsrOpensEarly == OpenCapture /\ UNCHANGED <<bus, backVars>>
AudioEnds == HangUp /\ UNCHANGED <<bus, backVars>>

\* A signal of the transport (the event bus accepts them; see README).
SendSignal(k) ==
    /\ signals < MaxSignals
    /\ signals' = signals + 1
    /\ Put(Event(k, 0))
    /\ UNCHANGED <<speechVars, orchVars, egress, client, shutdown, agentVars, ttsVars, tokenVars, streams,
                   pushed>>

-----------------------------------------------------------------------------
(* handle_event: one action per arm, up to the first await. *)

\* event_rx.recv() yields an event of kind k.
Receive(k) ==
    /\ pc = "recv"
    /\ bus # <<>>
    /\ Head(bus).kind = k
    /\ bus' = Tail(bus)

\* The handler goes on to egress_tx.send(event).
Forward == pc' = "egress" /\ event' = Head(bus)
Done    == pc' = "recv" /\ event' = Nothing

envVars == <<speechVars, outside>>
textVars == <<sentences, buffer, textTx>>
tokenHandles == <<agentToken, ttsToken>>

\* Mutant: the senders go, the agent's token is dropped without being cancelled.
CancelTtsOnly ==
    /\ ttsCancelled' = ttsCancelled \cup ({ttsToken} \ {0})
    /\ llmFlag' = TRUE /\ ttsFlag' = TRUE
    /\ agentToken' = 0 /\ ttsToken' = 0 /\ textTx' = 0
    /\ buffer' = "empty"
    /\ UNCHANGED agentCancelled

\* Mutant: the sentence buffer survives the interrupted turn.
CancelKeepsBuffer ==
    /\ agentCancelled' = agentCancelled \cup ({agentToken} \ {0})
    /\ ttsCancelled' = ttsCancelled \cup ({ttsToken} \ {0})
    /\ llmFlag' = TRUE /\ ttsFlag' = TRUE
    /\ agentToken' = 0 /\ ttsToken' = 0 /\ textTx' = 0
    /\ UNCHANGED buffer

\* cancel_active_tasks: both tokens, both providers' cancel(), the text sender
\* and the sentence buffer.  The join handles are detached: nobody waits for
\* the cancelled tasks.
CancelActiveTasks ==
    /\ agentCancelled' = agentCancelled \cup ({agentToken} \ {0})
    /\ ttsCancelled' = ttsCancelled \cup ({ttsToken} \ {0})
    /\ llmFlag' = TRUE
    /\ ttsFlag' = TRUE
    /\ agentToken' = 0
    /\ ttsToken' = 0
    /\ textTx' = 0
    /\ buffer' = "empty"

Accept(k, from, to) ==
    /\ Receive(k)
    /\ state = from
    /\ state' = to

HandleFirstSpeech ==
    /\ Accept("SpeechStarted", "Idle", "Listening")
    /\ Forward
    /\ UNCHANGED <<envVars, textVars, tokenHandles, turn, interrupts, agentVars, ttsVars,
                   tokenVars, streams, pushed>>

\* Mutant: a barge-in that only changes the state.
BargeInWithoutCancel ==
    /\ \E s \in {"Transcribing", "AgentThinking", "Speaking"} :
          Accept("SpeechStarted", s, "Listening")
    /\ interrupts' = interrupts + 1
    /\ Forward
    /\ UNCHANGED <<envVars, textVars, tokenHandles, turn, agentVars, ttsVars, tokenVars,
                   streams, pushed>>

\* Barge-in, while transcribing, thinking or speaking.
HandleBargeIn ==
    /\ \E s \in {"Transcribing", "AgentThinking", "Speaking"} :
          Accept("SpeechStarted", s, "Listening")
    /\ CancelActiveTasks
    /\ interrupts' = interrupts + 1
    /\ Forward
    /\ UNCHANGED <<envVars, sentences, turn, agentVars, ttsVars, streams, pushed>>

HandleSpeechEnded ==
    /\ Accept("SpeechEnded", "Listening", "Transcribing")
    /\ Done
    /\ UNCHANGED <<envVars, textVars, tokenHandles, turn, interrupts, agentVars, ttsVars,
                   tokenVars, streams, pushed>>

HandlePartialTranscript ==
    /\ Accept("PartialTranscript", "Transcribing", "Transcribing")
    /\ Forward
    /\ UNCHANGED <<envVars, textVars, tokenHandles, turn, interrupts, agentVars, ttsVars,
                   tokenVars, streams, pushed>>

HandleFinalTranscript ==
    /\ Accept("FinalTranscript", "Transcribing", "AgentThinking")
    /\ turn < MaxUtterances      \* implied: one transcript per utterance
    /\ turn' = turn + 1
    /\ Forward
    /\ UNCHANGED <<envVars, textVars, tokenHandles, interrupts, agentVars, ttsVars,
                   tokenVars, streams, pushed>>

\* start_tts_stream if no sender is held.  A stream started after the session's
\* token is cancelled has a cancelled token from the start.
CurrentStream == IF textTx = 0 THEN streams + 1 ELSE textTx
EnsureTts ==
    IF textTx # 0
    THEN UNCHANGED <<ttsToken, streams, tts, ttsCancelled>>
    ELSE /\ streams < MaxStreams
         /\ streams' = streams + 1
         /\ ttsToken' = streams + 1
         /\ tts' = [tts EXCEPT ![streams + 1] = "spawned"]
         /\ ttsCancelled' = ttsCancelled \cup (IF shutdown THEN {streams + 1} ELSE {})

\* Mutant: draining a sentence takes the whitespace after it along.
PartialDrainsBlank ==
    /\ Accept("AgentPartialResponse", "AgentThinking", "AgentThinking")
    /\ EnsureTts
    /\ textTx' = CurrentStream
    /\ event' = Head(bus)
    /\ sentences' \in 1 .. MaxSentences
    /\ buffer' \in {"empty", "text"}
    /\ pc' = "text"
    /\ pushed' = pushed \cup {Head(bus).id}
    /\ UNCHANGED <<envVars, turn, interrupts, agentToken, agentVars, text, chunks,
                   agentCancelled, llmFlag, ttsFlag>>

\* The partial's text goes to sentence_buffer; flush_sentences takes complete
\* sentences out.  What follows a sentence starts with the whitespace that
\* ended it, so the buffer is not empty afterwards.  An empty delta changes
\* nothing.
HandleAgentPartial ==
    /\ Accept("AgentPartialResponse", "AgentThinking", "AgentThinking")
    /\ EnsureTts
    /\ textTx' = CurrentStream
    /\ event' = Head(bus)
    /\ \/ /\ sentences' = 0
          /\ buffer' \in IF buffer = "text" THEN {"text"} ELSE {buffer, "blank", "text"}
          /\ pc' = "egress"
       \/ /\ sentences' \in 1 .. MaxSentences
          /\ buffer' \in {"blank", "text"}
          /\ pc' = "text"
    /\ pushed' = IF buffer' = "empty" THEN pushed ELSE pushed \cup {Head(bus).id}
    /\ UNCHANGED <<envVars, turn, interrupts, agentToken, agentVars, text, chunks,
                   agentCancelled, llmFlag, ttsFlag>>

\* The final text is used only if the buffer is empty.  flush_remaining sends
\* what the buffer trims to, if anything, then drops the sender.
HandleAgentFinal ==
    /\ Receive("AgentFinalResponse")
    /\ state = "AgentThinking"
    /\ EnsureTts
    /\ event' = Head(bus)
    /\ \/ /\ buffer \in {"empty", "text"}
          /\ buffer' = "text" /\ sentences' = 1 /\ textTx' = CurrentStream
          /\ pc' = "text"
          /\ UNCHANGED state
       \/ /\ buffer \in {"empty", "blank"}
          /\ buffer' = "empty" /\ sentences' = 0 /\ textTx' = 0
          /\ pc' = "egress"
          /\ state' = "Speaking"
    /\ UNCHANGED <<envVars, turn, interrupts, agentToken, agentVars, text, chunks,
                   agentCancelled, llmFlag, ttsFlag, pushed>>

\* Mutant: audio is forwarded in every state but Idle.
ChunkWhileListening ==
    /\ Receive("TtsAudioChunk") /\ state # "Idle"
    /\ Forward
    /\ UNCHANGED <<envVars, state, textVars, tokenHandles, turn, interrupts, agentVars, ttsVars,
                   tokenVars, streams, pushed>>

HandleTtsAudioChunk ==
    /\ \E s \in {"AgentThinking", "Speaking"} : Accept("TtsAudioChunk", s, s)
    /\ Forward
    /\ UNCHANGED <<envVars, textVars, tokenHandles, turn, interrupts, agentVars, ttsVars,
                   tokenVars, streams, pushed>>

\* Mutant: the end of a stream ends whatever is going on.
CompleteEndsAnything ==
    /\ Receive("TtsComplete") /\ state # "Idle" /\ state' = "Idle"
    /\ Forward
    /\ UNCHANGED <<envVars, textVars, tokenHandles, turn, interrupts, agentVars, ttsVars,
                   tokenVars, streams, pushed>>

HandleTtsComplete ==
    /\ Accept("TtsComplete", "Speaking", "Idle")
    /\ Forward
    /\ UNCHANGED <<envVars, textVars, tokenHandles, turn, interrupts, agentVars, ttsVars,
                   tokenVars, streams, pushed>>

HandleInterrupt ==
    /\ Accept("Interrupt", "Speaking", "Idle")
    /\ CancelActiveTasks
    /\ interrupts' = interrupts + 1
    /\ Done
    /\ UNCHANGED <<envVars, sentences, turn, agentVars, ttsVars, streams, pushed>>

HandleCancel ==
    /\ Receive("Cancel")
    /\ state' = "Idle"
    /\ CancelActiveTasks
    /\ Done
    /\ UNCHANGED <<envVars, sentences, turn, interrupts, agentVars, ttsVars, streams, pushed>>

HandleComponentError ==
    /\ Receive("ComponentError")
    /\ Forward
    /\ UNCHANGED <<envVars, state, textVars, tokenHandles, turn, interrupts, agentVars, ttsVars,
                   tokenVars, streams, pushed>>

\* Is there an arm for event kind k in state s?
Handles(s, k) ==
    CASE k = "SpeechStarted" -> s # "Listening"
      [] k = "SpeechEnded" -> s = "Listening"
      [] k \in {"PartialTranscript", "FinalTranscript"} -> s = "Transcribing"
      [] k \in AgentKinds -> s = "AgentThinking"
      [] k = "TtsAudioChunk" -> s \in {"AgentThinking", "Speaking"}
      [] k \in {"TtsComplete", "Interrupt"} -> s = "Speaking"
      [] OTHER -> TRUE

\* The last arm: an event that means nothing in this state is dropped.
IgnoreEvent ==
    /\ pc = "recv"
    /\ bus # <<>>
    /\ ~Handles(state, Head(bus).kind)
    /\ bus' = Tail(bus)
    /\ UNCHANGED <<envVars, orchVars, agentVars, ttsVars, tokenVars, streams, pushed>>

(* The awaits inside a handler. *)

\* Mutant: flush_remaining forgets to drop the sender.
LeaveTextKeepsSender(tx, rest) ==
    /\ pc' = "egress"
    /\ textTx' = tx
    /\ IF event.kind = "AgentFinalResponse"
       THEN buffer' = "empty" /\ state' = "Speaking"
       ELSE buffer' = rest /\ UNCHANGED state

\* The last sentence has been sent, or the TTS task no longer receives: the
\* handler goes on to the egress send, for the final response after closing
\* the text channel and moving to Speaking.
LeaveText(tx, rest) ==
    /\ pc' = "egress"
    /\ IF event.kind = "AgentFinalResponse"
       THEN textTx' = 0 /\ buffer' = "empty" /\ state' = "Speaking"
       ELSE textTx' = tx /\ buffer' = rest /\ UNCHANGED state

textFrame == <<speechVars, bus, event, turn, interrupts, tokenHandles, outside, agentVars,
               tts, chunks, tokenVars, streams, pushed>>

SendSentence ==
    /\ pc = "text"
    /\ tts[textTx] # "done"
    /\ text[textTx] < TextCap
    /\ text' = [text EXCEPT ![textTx] = @ + 1]
    /\ sentences' = sentences - 1
    /\ IF sentences = 1 THEN LeaveText(textTx, buffer) ELSE UNCHANGED <<pc, textTx, buffer, state>>
    /\ UNCHANGED textFrame

\* The sentences not yet taken out stay in the buffer.
SentenceRefused ==
    /\ pc = "text"
    /\ tts[textTx] = "done"
    /\ LeaveText(0, IF sentences > 1 THEN "text" ELSE buffer)
    /\ sentences' = 0
    /\ UNCHANGED <<text, textFrame>>

\* Mutant: an egress send that does not wait for room.
SendEgressUnbounded ==
    /\ pc = "egress"
    /\ egress' = egress + 1
    /\ client' = Protocol!After(client, event.kind)
    /\ Done
    /\ IF event.kind = "FinalTranscript"
       THEN /\ agent' = [agent EXCEPT ![turn] = "waiting"]
            /\ agentToken' = turn
       ELSE UNCHANGED <<agent, agentToken>>
    /\ UNCHANGED <<speechVars, bus, state, textVars, turn, interrupts, ttsToken, shutdown, signals,
                   partials, lock, ttsVars, tokenVars, streams, pushed>>

\* egress_tx.send; after a FinalTranscript the handler calls trigger_agent.
SendEgress ==
    /\ pc = "egress"
    /\ egress < EgressCap
    /\ egress' = egress + 1
    /\ client' = Protocol!After(client, event.kind)
    /\ Done
    /\ IF event.kind = "FinalTranscript"
       THEN /\ agent' = [agent EXCEPT ![turn] = "waiting"]
            /\ agentToken' = turn
            /\ agentCancelled' = agentCancelled \cup (IF shutdown THEN {turn} ELSE {})
       ELSE UNCHANGED <<agent, agentToken, agentCancelled>>
    /\ UNCHANGED <<speechVars, bus, state, textVars, turn, interrupts, ttsToken, shutdown, signals,
                   partials, lock, ttsVars, llmFlag, ttsCancelled, ttsFlag, streams,
                   pushed>>

\* The transport takes an event from the egress channel.
DrainEgress ==
    /\ egress > 0
    /\ egress' = egress - 1
    /\ UNCHANGED <<speechVars, bus, orchVars, client, shutdown, signals, agentVars, ttsVars, tokenVars, streams, pushed>>

\* PipelineSession::terminate cancels the root token, and so every child token.
Shutdown ==
    /\ ~shutdown
    /\ shutdown' = TRUE
    /\ agentCancelled' = {t \in Turns : agent[t] # "none"}
    /\ ttsCancelled' = 1 .. streams
    /\ UNCHANGED <<speechVars, bus, orchVars, egress, client, signals, agentVars, ttsVars, llmFlag,
                   ttsFlag, streams, pushed>>

\* run() sees its token cancelled, and the orchestrator is dropped with its bus.
StopOrchestrator ==
    /\ pc = "recv"
    /\ shutdown
    /\ CancelActiveTasks
    /\ state' = "Idle" /\ pc' = "stopped" /\ event' = Nothing
    /\ bus' = <<>>
    /\ UNCHANGED <<envVars, sentences, turn, interrupts, agentVars, ttsVars, streams, pushed>>

-----------------------------------------------------------------------------
(* The agent task of turn t: AgentCore::handle_turn under the mutex, in the  *)
(* steps of AgentTask (AgentCore has their detail).                         *)

agentFrame == <<speechVars, orchVars, outside, ttsVars, agentCancelled, ttsCancelled, ttsFlag,
                streams, pushed>>

\* agent.lock(), set_cancel_token, and the start of stream_completion, which
\* clears the provider's flag (a cancelled call need not get that far).
AgentLock(t) ==
    /\ Task!Lock(t)
    /\ llmFlag' \in {FALSE} \cup (IF t \in agentCancelled THEN {llmFlag} ELSE {})
    /\ UNCHANGED <<agentFrame, bus>>

\* A further call of the same turn (a retry, the fallback provider, the next
\* round of tools) clears the provider's flag again.
LlmCallsAgain(t) ==
    /\ agent[t] = "streaming"
    /\ llmFlag
    /\ llmFlag' = FALSE
    /\ UNCHANGED <<agentFrame, bus, agent, partials, lock>>

AgentPartial(t) ==
    /\ Task!Speak(t)
    /\ Put(Event("AgentPartialResponse", t))
    /\ UNCHANGED <<agentFrame, llmFlag>>

LlmCompletes(t) == Task!Complete(t) /\ UNCHANGED <<agentFrame, bus, llmFlag>>

\* The call was cancelled, by token or by the provider's flag, or it failed, or
\* the tool loop ran out of iterations: the turn ends with no final response.
LlmStops(t) ==
    /\ Task!Stop(t)
    /\ t \in agentCancelled \/ llmFlag \/ LlmFails
    /\ UNCHANGED <<agentFrame, bus, llmFlag>>

AgentFinal(t) ==
    /\ Task!Answer(t)
    /\ Put(Event("AgentFinalResponse", t))
    /\ UNCHANGED <<agentFrame, llmFlag>>

AgentEnds(t) == Task!End(t) /\ UNCHANGED <<agentFrame, bus, llmFlag>>

-----------------------------------------------------------------------------
(* The task of TTS stream s: TtsProvider::synthesize in a select with the   *)
(* stream's token.                                                          *)

ttsFrame == <<speechVars, orchVars, outside, agentVars, agentCancelled, llmFlag,
              ttsCancelled, streams, pushed>>

\* Mutant: synthesize does not clear the provider's flag.
TtsStartKeepsFlag(s) ==
    /\ tts[s] = "spawned"
    /\ tts' = [tts EXCEPT ![s] = "running"]
    /\ UNCHANGED <<ttsFrame, bus, text, chunks, ttsFlag>>

TtsStart(s) ==
    /\ tts[s] = "spawned"
    /\ tts' = [tts EXCEPT ![s] = "running"]
    /\ ttsFlag' = FALSE
    /\ UNCHANGED <<ttsFrame, bus, text, chunks>>

\* text_rx.recv(); a sentence that is not speakable or fails gives no audio.
TtsTake(s) ==
    /\ tts[s] = "running" /\ chunks[s] = 0
    /\ text[s] > 0
    /\ ~ttsFlag
    /\ text' = [text EXCEPT ![s] = @ - 1]
    /\ \E n \in 0 .. MaxChunks : chunks' = [chunks EXCEPT ![s] = n]
    /\ UNCHANGED <<ttsFrame, bus, tts, ttsFlag>>

TtsChunk(s) ==
    /\ tts[s] = "running" /\ chunks[s] > 0
    /\ Put(Event("TtsAudioChunk", s))
    /\ chunks' = [chunks EXCEPT ![s] = @ - 1]
    /\ UNCHANGED <<ttsFrame, tts, text, ttsFlag>>

\* The text channel is closed and empty.
TtsFinishes(s) ==
    /\ tts[s] = "running" /\ chunks[s] = 0
    /\ text[s] = 0
    /\ textTx # s
    /\ Put(Event("TtsComplete", s))
    /\ tts' = [tts EXCEPT ![s] = "done"]
    /\ UNCHANGED <<ttsFrame, text, chunks, ttsFlag>>

\* Its token is cancelled, or it finds the provider's flag set before a chunk.
TtsStops(s) ==
    /\ TtsLive(s)
    /\ \/ s \in ttsCancelled
       \/ tts[s] = "running" /\ ttsFlag /\ (text[s] > 0 \/ chunks[s] > 0)
    /\ tts' = [tts EXCEPT ![s] = "done"]
    /\ UNCHANGED <<ttsFrame, bus, text, chunks, ttsFlag>>

-----------------------------------------------------------------------------
FrontEnd ==
    \/ SendSpeechStarted
    \/ SendSpeechEnded
    \/ AsrOpensEarly
    \/ AudioEnds
    \/ \E u \in Utterances :
          SendPartialTranscript(u) \/ SendFinalTranscript(u) \/ AsrEndsSilently(u)

HandleEvent ==
    \/ HandleFirstSpeech \/ HandleBargeIn \/ HandleSpeechEnded
    \/ HandlePartialTranscript \/ HandleFinalTranscript
    \/ HandleAgentPartial \/ HandleAgentFinal
    \/ HandleTtsAudioChunk \/ HandleTtsComplete
    \/ HandleInterrupt \/ HandleCancel \/ HandleComponentError
    \/ IgnoreEvent

OrchestratorStep == HandleEvent \/ SendSentence \/ SentenceRefused \/ SendEgress \/ StopOrchestrator

AgentStep(t) ==
    \/ AgentLock(t) \/ LlmCallsAgain(t) \/ AgentPartial(t) \/ LlmCompletes(t) \/ LlmStops(t)
    \/ AgentFinal(t) \/ AgentEnds(t)

TtsStep(s) ==
    \/ TtsStart(s) \/ TtsTake(s) \/ TtsChunk(s) \/ TtsFinishes(s) \/ TtsStops(s)

Next ==
    \/ FrontEnd
    \/ \E k \in Signals : SendSignal(k)
    \/ OrchestratorStep
    \/ DrainEgress
    \/ Shutdown
    \/ \E t \in Turns : AgentStep(t)
    \/ \E s \in Streams : TtsStep(s)

Spec == Init /\ [][Next]_vars

(* Fairness: every task is scheduled while it can run, the transport drains *)
(* egress, the providers answer.  The speaker, the transport's signals and   *)
(* the end of the session are not owed to anybody.                           *)
Fairness ==
    /\ WF_vars(OrchestratorStep)
    /\ WF_vars(DrainEgress)
    /\ \A t \in Turns : WF_vars(AgentStep(t))
    /\ \A s \in Streams : WF_vars(TtsStep(s))

FairSpec == Spec /\ Fairness

-----------------------------------------------------------------------------
(* Safety. *)

\* A TTS task ends its stream only when its text sender is dropped, and text
\* left in the buffer would be spoken in a later turn: outside AgentThinking the
\* orchestrator holds neither, and the sender it holds is that of the stream it
\* can still cancel.
TextOnlyWhileThinking ==
    /\ state # "AgentThinking" => textTx = 0 /\ buffer = "empty"
    /\ textTx # 0 => textTx = ttsToken
    /\ pc = "text" => textTx # 0 /\ sentences > 0

\* No task escapes: every agent or TTS task that is still at work is either
\* cancelled or the one whose token the next barge-in would cancel.
EveryTaskCancellable ==
    /\ \A t \in Turns :
          agent[t] \in {"waiting", "streaming", "finishing"} =>
              t = agentToken \/ t \in agentCancelled
    /\ \A s \in Streams : TtsLive(s) => s = ttsToken \/ s \in ttsCancelled

\* What the orchestrator says to the transport, or pushes to TTS, comes from the
\* current turn and from a task that was not cancelled (unless the session ends).
OnlyCurrentTurnSpeaks ==
    pc \in {"text", "egress"} /\ ~shutdown =>
        /\ event.kind \in AgentKinds => event.id = turn /\ event.id \notin agentCancelled
        /\ event.kind \in TtsKinds => event.id = ttsToken /\ event.id \notin ttsCancelled

\* The providers' `cancelled` flags are shared by all turns of the session: a
\* flag left set never ends a call whose own token is not cancelled.
FlagsOnlyHitCancelled ==
    /\ llmFlag => \A t \in Turns : agent[t] = "streaming" => t \in agentCancelled
    /\ ttsFlag => \A s \in Streams : tts[s] = "running" => s \in ttsCancelled

\* flush_remaining must not speak the whole answer once parts of it were
\* already handed to TTS sentence by sentence.
NoRepeatedAnswer ==
    [][HandleAgentFinal /\ buffer = "empty" /\ buffer' = "text" =>
           Head(bus).id \notin pushed]_vars

\* A transcript is dropped only if a newer utterance superseded it, or the audio
\* stream has ended.
NoTranscriptLost ==
    [][IgnoreEvent /\ Head(bus).kind = "FinalTranscript" =>
           Head(bus).id < utt \/ hungup]_vars

\* An answer is dropped only if its turn was cancelled.
NoAnswerLost ==
    [][IgnoreEvent /\ Head(bus).kind = "AgentFinalResponse" =>
           Head(bus).id \in agentCancelled]_vars

\* The orchestrator waits for room in the text channel of a stream that waits
\* for room on the event bus, which only the orchestrator empties.
Wedged ==
    /\ pc = "text" /\ text[textTx] = TextCap
    /\ textTx \notin ttsCancelled
    /\ tts[textTx] = "running" /\ chunks[textTx] > 0
    /\ Len(bus) = BusCap
NotWedged == ~Wedged

\* The loop's state and the phase the transport is in agree whenever the loop
\* waits for an event, and will agree again after the send it is blocked in.
Agrees(phase) ==
    CASE state \in {"Listening", "Transcribing"} -> phase = "Hearing"
      [] state = "AgentThinking" -> phase = "Answering"
      [] state = "Speaking" -> phase = "Replying"
      [] OTHER -> phase \in Protocol!Phases

ClientAgrees ==
    /\ pc \in {"recv", "stopped"} => Agrees(client)
    /\ pc = "text" => state = "AgentThinking" /\ client = "Answering" /\ event.kind \in AgentKinds
    /\ pc = "egress" => /\ client \in Protocol!Allowed(event.kind)
                        /\ Agrees(Protocol!After(client, event.kind))
                        /\ event.kind = "FinalTranscript" => turn # 0

\* What the loop waits for, holds and has told the transport, at every await.
ClientInv == TypeOK /\ TextOnlyWhileThinking /\ ClientAgrees

\* The transport sees a conversation (TurnProtocol), whatever races behind it.
ImplementsTurnProtocol == Protocol!Spec

-----------------------------------------------------------------------------
(* Liveness. *)

\* A turn handed to the agent comes to its end, answered and spoken or
\* interrupted, with two exceptions: its agent task ends without a final
\* response, or the loop and its TTS task wait for each other (Wedged).
EveryTurnSettles ==
    state \in {"AgentThinking", "Speaking"} ~>
        \/ state \notin {"AgentThinking", "Speaking"}
        \/ \E t \in Turns : turn = t /\ agent[t] = "unanswered"
        \/ Wedged

\* Once the session is cancelled its orchestrator stops, even if it is blocked
\* in a send to the text channel, and so do the tasks it has detached.
ShutdownStopsTasks ==
    shutdown ~> /\ pc = "stopped"
                /\ \A t \in Turns : ~AgentLive(t)
                /\ \A s \in Streams : ~TtsLive(s)

-----------------------------------------------------------------------------
(* What the documents say and the code does not do (see README, findings). *)

\* Interrupt handling: audio of the interrupted turn is dropped.
InterruptedTurnSilent ==
    [][HandleTtsAudioChunk /\ ~shutdown => Head(bus).id \notin ttsCancelled]_vars

=============================================================================
