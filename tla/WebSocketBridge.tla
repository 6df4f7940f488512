---- MODULE WebSocketBridge ----
(***************************************************************************)
(* The server's end of a WebSocket call (handle_connection, run_ws_bridge) *)
(* and the life of its pipeline session, from session_start to the joins   *)
(* of terminate.                                                           *)
(*                                                                         *)
(* The pipeline is what AudioFanout and Orchestrator promise, cut down to  *)
(* what fills and empties the channels: the front end (fanout and VAD)     *)
(* puts an event on the bus when an utterance starts and when it ends, the *)
(* orchestrator forwards to the egress channel, an answer is audio and its *)
(* completion.  An event carries the number of the utterance it is about,  *)
(* which the code's do not, to tell late from right.                       *)
(***************************************************************************)
EXTENDS InboundAudio, FiniteSets, SequencesExt

CONSTANTS
  NetCap,      \* bound: messages under way in each direction
  AudioCap,    \* audio_ingress_capacity
  EgressCap,   \* event_bus_capacity, the capacity of the egress channel
  BusCap,      \* the bus's 200
  Speech,      \* samples of speech in a turn of the client
  Turn         \* samples in a turn, silence included

ASSUME CapAssumption == {NetCap, AudioCap, EgressCap, BusCap} \subseteq Nat \ {0}
\* The silence after the speech is whole frames.
ASSUME TurnAssumption ==
  /\ Turn \in Nat /\ Speech \in 1..Turn
  /\ \E n \in 0..Turn : Turn - Speech = n * FrameSamples

VARIABLES
  up, down,     \* the messages to the server and to the client
  open,         \* whether the connection is up
  pc,           \* where the handler is
  decoder,      \* the bridge's InboundAudioDecoder
  feeding,      \* frames of one message that still have to enter the channel
  event,        \* the event that is being sent to the client, <<>> for none
  audio,        \* the audio channel
  heard,        \* the frames the front end has taken
  found,        \* what the VAD is about to send
  bus,          \* the event bus
  answering,    \* the answer under way: <<>>, or its utterance and next event
  flushing,     \* the orchestrator waits for room in the text channel of the answer
  egress,       \* the egress channel
  tasks,        \* the session's three tasks that still run
  overruns      \* the joins of terminate that took their 5 s

netVars == <<up, down, open>>
bridgeVars == <<decoder, feeding, event>>
pipeVars == <<heard, found, bus, answering, flushing, tasks>>
serverVars == <<netVars, pc, bridgeVars, audio, pipeVars, egress, overruns>>

Tasks == {"fanout", "vad", "orchestrator"}

ServerInit ==
  /\ up = <<>> /\ down = <<>> /\ open = TRUE
  /\ pc = "wait"
  /\ decoder = DecoderInit /\ feeding = <<>> /\ event = <<>>
  /\ audio = <<>> /\ heard = <<>> /\ found = <<>> /\ bus = <<>> /\ answering = <<>> /\ egress = <<>>
  /\ flushing = FALSE /\ tasks = {} /\ overruns = 0

Goes(from, to) == pc = from /\ pc' = to

\* The connection ends with the handler.
Hangs == open' = (open /\ pc' # "closed")

----
(* The handler *)

\* wait_for_session_start: the client's first text; a connection that ends
\* before it, or 10 s without it, end the handler.
SessionStart ==
  /\ \/ /\ up # <<>>
        /\ up' = Tail(up)
        /\ Goes("wait", IF Head(up).kind = "start" THEN "start" ELSE "wait")
     \/ /\ up = <<>>
        /\ Goes("wait", "closed")
        /\ UNCHANGED up
  /\ Hangs
  /\ UNCHANGED <<down, bridgeVars, audio, pipeVars, egress, overruns>>

\* start_with_config builds the providers and spawns the tasks, or fails.
StartSession ==
  /\ \/ Goes("start", "ready") /\ tasks' = Tasks
     \/ Goes("start", "closed") /\ UNCHANGED tasks
  /\ Hangs
  /\ UNCHANGED <<up, down, bridgeVars, audio, heard, found, bus, answering, flushing, egress, overruns>>

\* session_ready, or the session ends again.
SendReady ==
  /\ \/ /\ open /\ Len(down) < NetCap
        /\ down' = Append(down, <<"ready", 0>>)
        /\ Goes("ready", "select")
     \/ /\ ~open
        /\ Goes("ready", "cancel")
        /\ UNCHANGED down
  /\ UNCHANGED <<up, open, bridgeVars, audio, pipeVars, egress, overruns>>

\* The ws_stream branch of the select.  session_end, a close, an error and the
\* end of the stream leave the loop.
BridgeReceives ==
  /\ pc = "select"
  /\ up # <<>>
  /\ up' = Tail(up)
  /\ LET message == Head(up) IN
     IF message.kind = "binary"
     THEN /\ feeding' = Frames(decoder, message.samples)
          /\ decoder' = Decoded(decoder, message.samples)
          /\ pc' = "feed"
     ELSE /\ pc' = IF message.kind = "end" THEN "cancel" ELSE "select"
          /\ UNCHANGED <<feeding, decoder>>
  /\ UNCHANGED <<down, open, event, audio, pipeVars, egress, overruns>>

\* Mutant: the end of the stream is skipped.
BridgeSkipsEnd ==
  /\ up = <<>> /\ ~open
  /\ Goes("select", "select")
  /\ UNCHANGED <<netVars, bridgeVars, audio, pipeVars, egress, overruns>>

BridgeLosesClient ==
  /\ up = <<>> /\ ~open
  /\ Goes("select", "cancel")
  /\ UNCHANGED <<netVars, bridgeVars, audio, pipeVars, egress, overruns>>

\* audio_tx.send of the next frame of the message, inside the branch: while it
\* waits for room the select does not go on.
BridgeFeeds ==
  /\ pc = "feed"
  /\ IF feeding = <<>>
     THEN pc' = "select" /\ UNCHANGED <<feeding, audio>>
     ELSE /\ Len(audio) < AudioCap
          /\ audio' = Append(audio, Head(feeding))
          /\ feeding' = Tail(feeding)
          /\ UNCHANGED pc
  /\ UNCHANGED <<netVars, decoder, event, pipeVars, egress, overruns>>

\* The egress branch,
BridgeTakes ==
  /\ Goes("select", "send")
  /\ egress # <<>>
  /\ event' = Head(egress)
  /\ egress' = Tail(egress)
  /\ UNCHANGED <<netVars, decoder, feeding, audio, pipeVars, overruns>>

\* and send_pipeline_event, which waits for the client to read.
BridgeSends ==
  /\ \/ /\ open /\ Len(down) < NetCap
        /\ down' = Append(down, event)
        /\ Goes("send", "select")
     \/ /\ ~open
        /\ Goes("send", "cancel")
        /\ UNCHANGED down
  /\ event' = <<>>
  /\ UNCHANGED <<up, open, decoder, feeding, audio, pipeVars, egress, overruns>>

----
(* The pipeline *)

Voiced(frame) == Head(frame.samples) % Turn < Speech
Utterance(frame) == Head(frame.samples) \div Turn + 1
Speaking == heard # <<>> /\ Voiced(Last(heard))

\* The fanout and the VAD take a frame; the VAD goes on to send what it has found.
FrontTakes ==
  /\ {"fanout", "vad"} \subseteq tasks
  /\ found = <<>> /\ audio # <<>>
  /\ LET frame == Head(audio) IN
       /\ heard' = Append(heard, frame)
       /\ found' = IF Voiced(frame) = Speaking THEN <<>>
                   ELSE <<IF Speaking THEN "ended" ELSE "started", Utterance(frame)>>
  /\ audio' = Tail(audio)
  /\ UNCHANGED <<netVars, pc, bridgeVars, bus, answering, flushing, tasks, egress, overruns>>

\* event_tx.send of the VAD; without input the end of an utterance is its last.
FrontSends ==
  /\ "vad" \in tasks
  /\ found # <<>> /\ Len(bus) < BusCap
  /\ bus' = Append(bus, found)
  /\ found' = <<>>
  /\ tasks' = IF "fanout" \notin tasks /\ found[1] = "ended" THEN tasks \ {"vad"} ELSE tasks
  /\ UNCHANGED <<netVars, pc, bridgeVars, audio, heard, answering, flushing, egress, overruns>>

\* cancel_token.cancel()
Cancelled == pc \in {"join fanout", "join vad", "join orchestrator", "closed"}

\* The orchestrator handles an event: the end of an utterance is answered unless
\* a provider fails, its start interrupts, and all but its end go to egress, for
\* which the handler waits.  A send to a transport that is gone fails at once.
NeedsEgress == bus # <<>> /\ Head(bus)[1] # "ended"
\* Mutant: the receiver outlives the handler.
WaitsForGood == NeedsEgress /\ Len(egress) = EgressCap
OrchestratorWaits == NeedsEgress /\ Len(egress) = EgressCap /\ pc # "closed"

Orchestrate ==
  /\ "orchestrator" \in tasks
  /\ bus # <<>> /\ ~OrchestratorWaits /\ ~flushing
  /\ bus' = Tail(bus)
  /\ LET kind == Head(bus)[1] IN
       /\ egress' = IF NeedsEgress /\ pc # "closed" THEN Append(egress, Head(bus)) ELSE egress
       /\ CASE kind = "started" -> answering' = <<>>
            [] kind = "ended"   -> answering' \in {<<"audio", Head(bus)[2]>>, <<>>}
            [] OTHER            -> UNCHANGED answering
  /\ UNCHANGED <<netVars, pc, bridgeVars, audio, heard, found, flushing, tasks, overruns>>

HasAudio == answering # <<>> /\ answering[1] = "audio"

\* A partial response of the agent, which this bus does not show, finds the text channel
\* of the answer full: flush_sentences waits until the TTS task, which has audio to send
\* first, takes a sentence out, or is cancelled.
FlushSentences ==
  /\ "orchestrator" \in tasks
  /\ ~OrchestratorWaits /\ ~flushing /\ ~Cancelled
  /\ HasAudio
  /\ flushing' = TRUE
  /\ UNCHANGED <<netVars, pc, bridgeVars, audio, heard, found, bus, answering, tasks, egress, overruns>>

SentencesFlushed ==
  /\ flushing /\ (~HasAudio \/ Cancelled)
  /\ flushing' = FALSE
  /\ UNCHANGED <<netVars, pc, bridgeVars, audio, heard, found, bus, answering, tasks, egress, overruns>>

\* The TTS task puts the audio on the bus, then, with the text channel closed, TtsComplete.
Speak ==
  /\ "orchestrator" \in tasks
  /\ answering # <<>> /\ Len(bus) < BusCap
  /\ HasAudio \/ ~flushing
  /\ bus' = Append(bus, answering)
  /\ answering' = IF answering[1] = "audio" THEN <<"complete", answering[2]>> ELSE <<>>
  /\ UNCHANGED <<netVars, pc, bridgeVars, audio, heard, found, flushing, tasks, egress, overruns>>

----
(* terminate *)

Cancel ==
  /\ Goes("cancel", "join fanout")
  /\ UNCHANGED <<netVars, bridgeVars, audio, pipeVars, egress, overruns>>

\* A task sees the cancellation when it next waits for input.  Until then it may
\* wait for room: the orchestrator for egress, the VAD for the bus, the fanout
\* for the VAD.
VadWaits == found # <<>> /\ Len(bus) = BusCap /\ OrchestratorWaits
Waits(t) == \/ t = "orchestrator" /\ OrchestratorWaits
            \/ t = "vad" /\ VadWaits
            \/ t = "fanout" /\ VadWaits /\ audio # <<>>

TaskEnds(t) ==
  /\ Cancelled
  /\ t \in tasks
  /\ ~Waits(t) /\ (t = "orchestrator" => ~flushing)
  /\ tasks' = tasks \ {t}
  /\ IF t = "orchestrator" THEN bus' = <<>> /\ answering' = <<>> ELSE UNCHANGED <<bus, answering>>
  /\ found' = IF t = "vad" THEN <<>> ELSE found
  /\ UNCHANGED <<netVars, pc, bridgeVars, audio, heard, flushing, egress, overruns>>

\* The VAD may see the end of its input before the token, and then ends the
\* utterance first.
VadLast ==
  /\ Cancelled
  /\ "vad" \in tasks /\ "fanout" \notin tasks
  /\ found = <<>> /\ Speaking
  /\ "orchestrator" \in tasks
  /\ found' = <<"ended", Utterance(Last(heard))>>
  /\ UNCHANGED <<netVars, pc, bridgeVars, audio, heard, bus, answering, flushing, tasks, egress, overruns>>

\* The three joins, one after the other, of 5 s each: a task that waits for ever
\* is left behind.  The handler returns and drops its ends of the channels.
AtJoin == [fanout |-> "join fanout", vad |-> "join vad", orchestrator |-> "join orchestrator"]
AfterJoin == [fanout |-> "join vad", vad |-> "join orchestrator", orchestrator |-> "closed"]

Join(t) ==
  /\ Goes(AtJoin[t], AfterJoin[t])
  /\ t \notin tasks
  /\ Hangs
  /\ UNCHANGED <<up, down, bridgeVars, audio, pipeVars, egress, overruns>>

JoinTimesOut(t) ==
  /\ Goes(AtJoin[t], AfterJoin[t])
  /\ t \in tasks /\ Waits(t)
  /\ overruns' = overruns + 1
  /\ Hangs
  /\ UNCHANGED <<up, down, bridgeVars, audio, pipeVars, egress>>

====
