# voicebot-rs: verification project

TLA+ modules for the voice-bot platform under `src/`, the TLC configurations that
model-check them, and TLAPS proofs. Paths below are relative to
`src/voicebot/crates/` unless they start with `src/`.

1. [The system](#1-the-system) 2. [Modules](#2-modules) 3. [Runs](#3-runs)
4. [Proofs](#4-proofs) 5. [Not modelled](#5-not-modelled) 6. [What is left](#6-what-is-left)

## 1. The system

A call is a *session*: a handful of tokio tasks joined by bounded channels. A
transport (WebSocket or Asterisk) feeds audio frames in and takes events out.
Around the sessions are a database, Redis, Asterisk, a scheduler that dials, an
API that changes what calls are made of, and a load test that plays the caller.

| Component | State it keeps | Operations | Talks to |
| --- | --- | --- | --- |
| Audio fanout (`core/src/session.rs` 452-556, a second copy at 711-796) | pre-buffer of 15 frames, the current ASR turn | route a frame, open and close a capture, forget a finished ASR task | audio channel in; VAD channel, one ASR channel per utterance out; speech-state and asr_done channels in |
| VAD (`vad/src/component.rs`) | voiced and silent milliseconds, speaking or not | start and end an utterance | VAD channel in; speech-state channel and event bus out |
| ASR tasks (`asr/src/speaches.rs`, `FallbackAsrProvider`) | collected audio, attempt | partial and final transcripts, retry, fallback | ASR channel in; event bus, asr_done out |
| Orchestrator (`core/src/orchestrator.rs`) | conversation state, sentence buffer, text sender, tokens of the running turn, counters | one arm per event, `cancel_active_tasks` | event bus in; egress channel, text channel out; spawns agent and TTS tasks |
| Agent (`agent/src/core.rs`, `memory.rs`, `openai.rs`, `FallbackLlmProvider`) | conversation memory, tools, current token, under one mutex; the provider's `cancelled` flag | `handle_turn`, `reload_runtime_config` | LLM over HTTP, memory backend; event bus out |
| TTS tasks (`tts/src/speaches.rs`) | sequence number; the provider's `cancelled` flag | synthesize sentences, report the end | text channel in; event bus out |
| Session (`core/src/session.rs`) | the tasks' handles, the root token | start, `terminate` | all of the above |
| WebSocket transport (`transport/websocket`) | decoder, recording, session set in Redis, call record | `session_start`, the bridge, the limit, the reload task, finalising | session, Redis, database, storage |
| Asterisk transport (`transport/asterisk`) | call registry, the channels and bridge of each call | event loop, set-up and release of a call, RTP bridge | session, ARI, Redis |
| Campaign configuration and routes (`api`, `cache`, `db`) | rows, cached copy with 300 s life, update channel, route of each number | update, back-fill, invalidate, publish; assign, unassign, delete | transports, sessions |
| Scheduler (`scheduler`) | jobs, rate counter, contacts | dial, reschedule, complete a campaign | database, Redis, ARI |
| Load test (`loadtest`) | a campaign's calls and results, the lines of a SIP phone, its own channels in Asterisk | accept a configuration, start and collect calls, analyse, report | both transports as a caller |
| Authentication, storage, mock provider, dashboard, server start-up | - | request by request | - |

What is hard in it: seven kinds of task over nine bounded channels, several of
them in rings; cancellation that is cooperative and not waited for; events that
carry no turn, so that anything late is taken for something current; provider
flags shared by all turns; a memory that is trimmed, reloaded, persisted and
cancelled into; and, outside the session, steps that write to Redis, the database
and Asterisk one after the other without a transaction, with a return on error
between any two of them. `PROJECT.json` lists the hazards at their lines with the
properties that would catch it.

## 2. Modules

| Module | What it models |
| --- | --- |
| *The conversation* | |
| `TurnProtocol` | The order in which a session hands events to its transport: the abstract specification of the orchestrator |
| `SpeechEvents` | What the front end (fanout, VAD, ASR) puts on the event bus: the abstract specification of `AudioFanout`, and the environment of `Orchestrator` |
| `AgentTask` | The agent tasks as the orchestrator sees them: the abstract specification of `AgentCore`, and the agent steps of `Orchestrator` |
| `Orchestrator` | `handle_event` arm by arm, its awaits, bus, egress and text channels, agent and TTS tasks, shutdown |
| `AudioFanout` | The fanout's biased select, the VAD's counters and sends, one ASR task per utterance, their five channels |
| `ConversationMemory` | `memory.rs` as operators on message sequences |
| `AgentCore` | `handle_turn`: rounds of tools, requests with retries and fallback, streaming, cancellation by token and by flag; memory loading and saving; prompt reload |
| *Calls over WebSocket* | |
| `InboundAudio` | `InboundAudioDecoder`: messages of any size to frames of 20 ms |
| `WebSocketBridge` | `handle_connection` and `run_ws_bridge`, the session's pipeline as far as it fills and empties channels, the joins of `terminate` |
| `WebSocketCall` | A whole call: `WsBackend`, the load test's client, at one end, `WebSocketBridge` at the other, a connection that may be lost between them |
| `CampaignConfig` | A campaign's row, its cached copy, its update channel; the API's routes that write them |
| `PlatformConnection` | `handle_connection_platform` from upgrade to usage record, with its seven returns, its reload task, `CampaignConfig` and a server that may crash |
| `CallMetrics` | What a campaign has its agent capture: a turn's tools, the reload task and the handler's copy into the call record |
| *Calls over the telephone* | |
| `PhoneRouting` | A number's row and its route in Redis, the API's routes that write both, and the deletion of a campaign, which writes the row alone |
| `AriCalls` | The Asterisk transport: event loop, registry, one action per request to Asterisk, `run_bridge`, clean-up |
| `AsteriskCalls` | `AriCalls` with the load test's Asterisk backend at the other end of the same Asterisk, or a stranger |
| `RtpAudio` | `rtp.rs`, of which the load test has a copy: the mu-law code, the payload of a packet, as operators |
| `Dialer` | `handle_outbound_call` await by await, under concurrent workers |
| *The load test* | |
| `PhoneCall` | `xphone_backend.rs`: threads and callbacks over the lines of a SIP phone |
| `CallAnalysis` | `analysis.rs` and the numbers of `report.rs`, as operators on recordings |
| `CallerAudio` | `audio.rs`: lengths and positions when a WAV file is brought to 16 kHz, as operators |
| `LoadCampaign` | `run_campaign` over `PhoneCall`'s calls and those of the other backends, `validate`, the report |
| `...Proofs` | The proofs about `Orchestrator`, `AudioFanout`, `AgentCore` (with `CallMetrics`), `WebSocketCall`, `PlatformConnection`, `AsteriskCalls`, `Dialer` and `LoadCampaign` (with `CallerAudio` and `RtpAudio`) |
| `MC...` | The modules TLC is started on; `MCLoadCampaign` and `MCCallMetrics` add constants of their own |

How they fit. Three abstract specifications join the parts of a conversation:
`AudioFanout` implements `SpeechEvents`, which drives `Orchestrator`; `AgentCore`
implements `AgentTask`, whose steps `Orchestrator` takes; `Orchestrator`
implements `TurnProtocol`. So each is checked against the promise the others rely
on. The others are composed by `EXTENDS`: `WebSocketCall` on `WebSocketBridge` on
`InboundAudio`; `PlatformConnection` on `CampaignConfig`; `AsteriskCalls` on
`AriCalls` on `PhoneRouting`; `LoadCampaign` on `PhoneCall`, `CallAnalysis`,
`CallerAudio` and `RtpAudio`.
`CallMetrics` looks at the same turns as `AgentCore` and the same handler as
`PlatformConnection` from the side of the tools.

### State and code: the conversation

*Orchestrator.* `state`, `buffer`, `textTx`, `agentToken`, `ttsToken` are the
fields of the struct. The sentence buffer is `empty`, `blank` (only whitespace)
or `text`, which is all its code tells apart. A handler runs from `recv` to its
first await in one action; `pc` says which await it is in (`text`: a text-channel
send with `sentences` still to go; `egress`: the send of `event`). `Receive`
and the `Handle...` actions are the arms; `IgnoreEvent` is the last arm.
`Put` is `event_tx.send`, which waits for room and fails silently once the
receiver is dropped. `client` is `TurnProtocol`'s phase after what was sent;
`TurnProtocol!Confused` exists so that an event out of place is seen. Every
session of `start_with_handler` has an agent and a TTS provider, so the arms'
"if there is one" are not modelled. Nothing in `src/` sends `Interrupt`,
`Cancel` or `ComponentError` on the bus except tests, but the arms exist:
`SendSignal` puts them there in one run. `DrainEgress` stands for both
transports; one that has dropped its receiver is one that always drains.

*AudioFanout.* A frame is its number; whether it is voiced is chosen when the
fanout passes it to the VAD. `MinVoiced` and `MinSilent` are `min_speech_ms` and
`silence_ms` in frames, `PreBuffer` is `PRE_BUFFER_FRAMES`. Actions named
`Fanout...`, `Vad...`, `Asr...` are the steps of the three kinds of task between
awaits; `captured[u]` is the audio the recogniser got for utterance `u`.

*AgentCore.* `pc` is where `handle_turn` is; the outcome it is about to return is
a value of `pc`. The pieces of text of a turn are numbered as they are sent: `own` is
the provider's full text and `heard` what `handle_turn` collected, as sets of pieces, and
`spoken` is how many were sent on. A message is its role, its turn, the set of pieces
that is its text, and its tool call. Cancellation sets the
last turn's token and the provider's flag in one step (`CancelTurn`); a load or
save of the backend may fail at any time (`Remember`).

### State and code: calls

*WebSocketCall.* A sample is its number, so that loss, repetition and order can be
seen; `up` and `down` are the messages on the wire, `pc` where the handler is:
the select loop (`select`), a send of a decoded frame to the session (`feed`), of
an event to the client (`send`), the joins of `terminate`. The session is what
`AudioFanout` and `Orchestrator` promise, cut down to what fills and empties the
channels: a start and an end of each utterance on the bus, and an answer of audio
and its completion on egress. `flushing` is the orchestrator's wait in `flush_sentences`
for room in the text channel; partial responses are not on this bus, so it may begin
(`FlushSentences`) whenever the answer has audio to come, and ends once the TTS task has put
that on the bus or is cancelled. `at` is where the client is; its time-outs are
steps that may always be taken, and `timedOut` remembers that one was.

*PlatformConnection.* A configuration is its version, since every UPDATE returns the
whole row. `row` and `newest` are the database, `cached` is Redis (which may
forget at any time), `request` where each request to the API is, `inbox` and
`listener` a session's subscription. `pc` is where the handler is, one step for
each await that leaves something behind; `active`, `record`, `usage` are what it
leaves. `lost` are the calls one of whose writes failed, `unsure` those that were
admitted on a count that did not hold any more when they were counted in. A crash
ends all handlers and sessions; what Redis and the database hold stays.

*CallMetrics.* `mutex` is the agent's mutex; `promptOf` and `toolsOf` are the
versions of the campaign that its prompt and its tools are of, because a reload
replaces them one after the other with a save to Redis in between. `offered` is
`tool_defs`, fixed for a turn; `calls` are the tool calls still to run, each looked up
in the tools of the moment. `captured` is the map; `handler` is where the handler is from
the bridge to `finalize`. `told` and `overtaken` are for the properties.

*RtpAudio, CallerAudio.* Operators over integers, with the code's 16-bit saturation, checked
over sets of samples, packets and files by `AudioKept`, a part of `CampaignInv`. A packet is its length, the fields the
parser reads and its last byte. Of a WAV file only the number of samples, channels
and the rate matter; floating point is exact for files of less than 2^30 samples.

*AsteriskCalls.* `leg`, `media`, `bridge` are what Asterisk has of the
transport's side, `dialled`, `ownMedia`, `ownBridge` of the backend's. `events` is
the event socket; the transport's loop reads it one by one (`RunReads`), and each
handler goes its own way (`pc`, whose value names the next request). The two legs
are joined when the transport answers, and end together. `monitor` and `seen` are the
backend's StasisStart monitor and what `wait_for_stasis_start` has read of it.

*Dialer.* A job is at one of the steps of `handle_outbound_call`, queued, done or
dead; the queue (apalis, external) requeues what returned `Failed` or what a
crashed scheduler held, without the limit on attempts that the library may put
on a job. `rate` is the campaign's `call_rate_per_minute`, set when it
is created and possibly 0; `counter` and `expires` are the Redis key. `window` counts,
for the property only, the calls sent since the key last expired, and `unknown` the
calls whose answer the scheduler never acted on.

*LoadCampaign.* `pc` is where `run_campaign` is, `index` is `call_index`, `raw` the
results collected; `startedAt` is for the properties. In `PhoneCall` a line changes
in one step and the callback that is registered by then runs in another (`news`);
`at` is where each call's blocking thread is between its looks at the line. A
recording is a sequence of windows, voiced or not; everything `analysis.rs` and
`report.rs` derive of it is computed by `CallAnalysis`.

### Mutants

A definition introduced by "Mutant:" is a fault a bug would put in the definition
after it (a missing reset, a dropped guard, an unbounded send). No behaviour of
the specifications uses it; replacing the definition by it must violate the
property that PROJECT.json pairs it with, which shows that the property depends on
the code.

## 3. Runs

| Run | Question | Bounds |
| --- | --- | --- |
| `orchestrator_keeps_up` | Is a session correct when speech is slow compared with the machine? Safety and liveness | 2 utterances, 1 partial of up to 3 sentences, 1 chunk each, bus 2, text and egress 1 |
| `orchestrator_races` | What holds with no assumption on speed, and with `Interrupt`, `Cancel`, `ComponentError`? Refinement of `TurnProtocol` | 2 utterances, 1 partial, 1 sentence, 1 chunk, bus, text and egress 1, 1 signal |
| `orchestrator_stale_audio` | Is audio of an interrupted turn dropped? (violated) | bus 5 |
| `orchestrator_wedge` | Can the orchestrator and TTS block each other? (violated: they can) | 1 utterance, 5 partials |
| `audio_fanout` | Deadlock, onset, repeated audio, refinement of `SpeechEvents`, draining | 7 frames, 2 utterances, VAD channel 2, the others 1, pre-buffer 3 for 2 frames of decision |
| `agent_core` | What a request shows the model, what is remembered, prompt, backend, refinement of `AgentTask`, termination | 2 turns, 2 rounds of up to 2 tools, 2 attempts, 1 reload, window 4 |
| `ws_calls` | Does audio arrive intact, does a turn get its own answer, does a call end, does nothing outlive it? | 2 turns of 9 samples, 3 of speech, frames of 2, all channels 1, connection may be lost |
| `platform_calls` | Who is admitted, what is left of a call however it ends, which configuration has its session? | 2 calls, one of a campaign, limit 1 (2 when it cannot be read), 2 requests to the API, 1 call with failing writes, crash |
| `asterisk_calls` | What is left behind at either end, where is a call routed, does a hang-up end it? | 1 call, channels 1, 1 failing request, 1 request to the API at a time, among them the deletion of the campaign |
| `dialer` | Is anybody called twice, is the rate kept, does every job end? | 2 contacts, 2 workers, a rate of 0 or 1, 3 faults, attempts exhausted |
| `call_metrics` | Is what the model was told is recorded in the record, does a turn have one set of tools, is an update applied? | 2 turns of 2 rounds of up to 2 calls, 2 versions, 2 values |
| `load_campaign` | Are the limits kept, is a wake-up lost, is the report right, does every accepted campaign end, is the audio of calls kept? | 8 configurations, up to 3 calls, 2 lines, 3 ticks; all 65 536 samples; packets of up to 2 sources, 2 words, 3 bytes of padding, 4 of payload, cut off anywhere; files of 7 rates and up to 40 samples |

Why these bounds are enough to be interesting. Two utterances give a barge-in in
every state and a late event of the first turn in the second; channels of one
slot make every send wait; one partial, sentence and chunk each already
interleave with a cancellation; seven frames hold two utterances with the
pre-buffer full in between; a window of 4 holds a turn whole that has at most two messages besides
its words, and is outgrown by one with more, so that it cuts the turn before,
the turn under way, and the pieces of an answer (all three occur). A turn of 9 samples
in frames of 2 leaves a residual that the next turn must continue, and is long enough for the
bus, the VAD and the audio channel to fill behind an answer. Two calls under
a limit of one race for it, and one refused write or crash falls between any two
steps of either. Two jobs on two workers at a rate of one need the counter to
expire, and three faults lose an answer, the expiry and a scheduler in one
behaviour. Three calls over two lines, with one waiting INVITE at most, make a call
wait for a line, lose an INVITE and find a line already answered. Two versions of a
campaign with two tools of one name, a metric named like a counter and one without a
key have every way in which tools can hide or overwrite. A packet with each optional
part absent, empty and longer distinguishes every offset; forty samples exceed the
period after which positions repeat, but at 11 025, 22 050 and 44 100 Hz (441 samples);
`NoReadPastTheEnd` has no bound. One telephone
call has 15 places at the server and 16 at the load test, each interleaved with
hang-ups and a fault; calls share only the registry, the route and the order of
events, and `AsteriskCallsProofs` shows the safety properties for any number of
them. Larger values multiply states without a new kind of step. No run uses symmetry.

`CHECK_DEADLOCK FALSE` stands in every run because sessions, calls, jobs and
campaigns end: a terminated session, a connection that is closed and a campaign
that has written its report take no step.

### Assumptions

*Scheduling.* `orchestrator_keeps_up` assumes that an utterance and its
transcription (at least `min_speech_ms` + `silence_ms`, 1 s, and an HTTP request)
take longer than the event loop needs to reach a `SpeechStarted`, and than the
cancelled tasks need to notice (`KeepsUp`, constant `Prompt`). Nothing in the code
enforces this. `orchestrator_races` drops it; the properties that fail without
it are the stale-event hazards, and `orchestrator_stale_audio` shows one.

*Fairness.* Weak fairness of every task that can run, since tokio schedules all
ready tasks, and of the answers that a client time-out bounds (60 s for the LLM,
30 s for a tool, 5 s for a join of `terminate`, 10 s for `session_start`, the
phone's time-outs); the memory backend, Redis, the database and Asterisk are
assumed to answer or fail (`ari_client.rs:30` sets no time-out, so a hanging
Asterisk is outside the model). The fanout's select is `biased`, so its order is in
the guards and not in fairness. A job is taken with strong fairness, because a
queue passes no job over for ever while workers come and go; the counter that
has an expiry expires; the load test's clock goes on. The reload task has strong fairness
for the agent's mutex, which tokio hands out in the order in which it was asked for. Nothing is assumed of the
caller, of clients, administrators and requests to the API, of the transport's
signals, of crashes and faults, or of a session's end by itself. In `Orchestrator`
egress is assumed to be drained; `WebSocketCall` has the transport that does it and
shows when it does not (`Ring`, `Wedge`). That a wait for the text channel ends once the TTS
task has made room is fair; that it begins (`FlushSentences`) is not.

*Order of requests.* `Serial` lets one request to the API be answered before the
next one is made. `NewerPromptOnly` and `RouteFollowsRow` need it: two at once may
write the cache or the route in the other order than the row, and nothing in the
code orders them.

*Data.* Partial responses and text pieces are not blank. A session's memory starts
with nothing stored (session ids are fresh).

*Parameters.* `CaptureInv` allows an utterance to lose the first `Late == MinVoiced +
VadCap + 1 - PreBuffer` frames (none if that is negative). The code has 15 frames for 10 of
decision: enough for a VAD up to 5 frames behind, while its channel lets it be 17
behind, so that up to 12 frames (240 ms) of an onset can fall out of the pre-buffer. The run
has the code's proportions, 3 frames for 2 of decision and a channel of 2, and `Late` is 2 in
it; with 1 in its place TLC finds a capture that misses more. Nothing of the utterance before
is captured if `PreBuffer <= MinVoiced + MinSilent`, 15 and 50 in the code, and a queue
shorter than an utterance (`VadCap + 1 < MinVoiced + MinSilent`, 17 and 50) keeps the
pre-buffer from being taken twice. The run meets both, as the code does, and the theorems of
`AudioFanoutProofs` have them as hypotheses. `LlmSeesTurn` and `SpokenIsRemembered` need no
assumption on the window. The code's 40 messages hold five rounds of six tools, not of the 32
that `openai.rs` accepts: a turn that outgrows them loses its beginning, its transcript first. The properties say when that may happen: only once no
message of another turn is left to drop beside the prompt.

### Exceptions that are part of a property

Where the code does not give the full promise the property names what is excepted,
so that the run shows it is the only thing that can go wrong:

* `CallEnds`: unless `Ring`. The bridge waits for room in the audio channel inside
  a branch of the select that also empties egress, the orchestrator waits for egress,
  the VAD for the bus: none moves again. Or unless `Wedge`: the orchestrator waits for room in
  the text channel, the TTS task for room on the bus, and behind the full bus the VAD, the
  fanout and the bridge stop as well, also with room in egress. TLC finds a call that hangs
  when either is taken out of the property.
* `CallInv`: unless the client has `timedOut`. After that the late answer and its
  `tts_complete` end a turn that is not theirs.
* `LimitHeldUnlessRaced`: but for `unsure` calls. SCARD and SADD are two steps, and a
  failed read admits.
* `SettledInv`, `CallsAccounted`: but for calls with a failed write (`lost`) or a
  crash. Three early returns leave the record `initiated`.
* `NothingLeft`, `LoadCallClean`: for calls that came to their session, or to their
  end, with no failed request (`refused`). A caller who hangs up during the set-up
  leaves the media channel and the bridge in Asterisk; a time-out of the backend
  leaves what it has dialled.
* `HangUpEndsCall`: while the event socket is up. When it closes the loop ends and
  nothing connects it again.
* `DialInv`: a second call only for each call of which the scheduler could not know.
* `RateHeld`: but for calls that were past the check when the counter expired and
  those that it could not count.
* `EveryJobEnds`: unless `Stuck`. INCR and EXPIRE are two calls; a counter that has
  lost its expiry stops the campaign for ever once it is full. And but for a rate of 0,
  which the code accepts (`scheduler/src/dialer.rs:54`, `:155`): every job is refused and
  queued again, unless Redis fails, in which case it calls.
* `RouteFollowsRow`: but for `Dangling`, a number whose campaign was deleted from under it.
* `LlmSeesTurn`, `SpokenIsRemembered`: but for the beginning of a turn that alone outgrew the
  window (`Cut`).
* `Reported` (in `MetricsInv`): but for calls whose map was copied while a turn was under way
  (`overtaken`), and records whose UPDATE failed.
* `EveryTurnSettles`: but for a turn whose LLM failed or ran out of rounds, which stays in
  `AgentThinking`, and for one in which the loop and its TTS task are `Wedged`, the state that
  `orchestrator_wedge` shows. In `orchestrator_keeps_up` three sentences and a bus holding the
  next `SpeechStarted` and the final response reach it: not even the barge-in is handled
  then. Only the end of the session does away with it (`ShutdownStopsTasks`).

### What the violated properties show

Each is quoted in PROJECT.json `findings`. (1) Audio queued on the bus before a
barge-in is played in the next turn. (2) With a full text channel and a full bus the
orchestrator and the TTS task wait for each other.

### Disagreements seen while modelling

The models follow the code; no run is made for these.

* A cancelled agent still emits its final response and an LLM failure is not reported,
  against `src/skills/agent_tool_calling/SKILL.md:274-277` and
  `src/PROJECT_REQUIREMENTS.md:475`; the window is trimmed by message and cuts turns,
  against `src/PROJECT_REQUIREMENTS.md:294`.
* `SKILL.md:278` asks to discard the partial text of a cancelled turn,
  `src/PROJECT_REQUIREMENTS.md:208` to keep it; the code keeps it, and
  `SpokenIsRemembered` says so.
* `terminate` has three joins of 5 s where `src/PROJECT_REQUIREMENTS.md:183` allows 5 s.
* Deleting a campaign sets its numbers' `campaign_id` to NULL (`ON DELETE SET NULL`, migration
  0009) and does not touch their routes in Redis, which have no expiry
  (`api/src/routes/campaigns.rs:160-172`): calls go on to be routed to a campaign that is
  not there.
* Asterisk calls are routed by the caller's number (`transport/asterisk/src/handler.rs:261`).
* `src/PLAN.md:692` lists as done that a campaign is completed when all contacts have been
  processed. A contact that is being called counts as remaining
  (`db/src/queries/contacts.rs:217`), the job that looks has just set its own to that
  (`scheduler/src/dialer.rs:97`), and nothing marks one completed: a campaign that has
  called everybody stays active. Only if all its contacts have failed, the last one after
  its call was placed, `CompleteCampaign` is reached.
* `agent/src/metric_tool.rs:14-15` says that the captured metrics are read after the session
  has ended. `terminate` does not join an agent's turn: one that runs its tools meanwhile
  answers "recorded" for what is not in the record any more. It is the exception of
  `Reported`.
* A job of a paused campaign is dropped (`scheduler/src/dialer.rs:38`); a schedule
  whose start is after its end is never open (`:149`); `retry_count` and
  `next_attempt_at` are written and read by nothing that has a caller.
* Nothing enqueues a `PostCallAnalysisJob`, and its worker ignores a failure of
  `set_analysis` (`scheduler/src/post_call.rs:61`).
* The reload task of an Asterisk call gives its tools a map of their own
  (`transport/asterisk/src/handler.rs:541`); nothing reads either map there.
* When `session_ready` cannot be sent the reload listener is left running
  (`transport/websocket/src/handler.rs:586`).
* In the load test, each call's monitor takes the events of the others of the same
  application (`loadtest/src/backend/asterisk.rs:68`); one failed write or one call
  that panics loses the whole report (`runner.rs:99`, `:138`, `:149`); a failed call of
  the phone leaves its line up (`xphone_backend.rs:115`, `:140`) and INVITEs beyond 64
  are dropped (`:64`); the percentile rounds its index down, so p99 of two calls is the
  faster one (`report.rs:117`).

## 4. Proofs

TLAPS proves the following for every value of the constants. It assumes

* the named ASSUMEs of the modules: capacities, rates, rounds and limits are numbers and
  not zero where the code has no zero (the dialer's rate may be), contacts are finitely many, `None` is nothing
  else, the silence that ends a turn of the load test's client is whole frames
  (`loadtest/src/backend/ws_backend.rs:212-236`), the agent's window holds two messages (it
  is twice `max_turns`), a soak is within the time that is modelled, and a recording is a
  finite sequence of windows;
* where a theorem says so, `Serial` or `TasksKeepUp` (the orchestrator, the agent and
  the TTS task keep up, section 3), or an inequality between the pre-buffer and the
  VAD's thresholds.

Each proof has an inductive invariant made of named parts, one lemma per action or
group of actions that preserves it, and short theorems that read a property off it.

* `OrchestratorProofs`. With no scheduling assumption: `TypeCorrect`, `SenderOnlyWhileThinking`,
  `ClientInStep` and `Conversation` (`Orchestrator` implements `TurnProtocol`). `IInv` is
  `ClientInv`, that is `TypeOK`, `TextOnlyWhileThinking` and `ClientAgrees`
  together: the refinement needs to know, at an egress send, that the phase allows
  the event, which is `ClientAgrees`; that needs to know that a handler waiting in
  `text` holds a sender and is in `AgentThinking`. A step that sends maps to
  `TurnProtocol!Receive`, any other leaves the phase alone.
  With `TasksKeepUp`: `TasksCancellable`, `CurrentTurnSpeaks`, `FlagsHitCancelled`,
  `AnswersKept`, `AnswersSpokenOnce`. None of these is inductive, because each speaks of one
  turn and what breaks it comes from another by way of the bus. `TurnInv` adds to
  `IInv` where an utterance can be between the front end and the loop (`SpeechInv`),
  what the loop holds in each state (`LoopInv`), which turns and streams may still have
  a task or an event on the bus, and that a task that is not cancelled is the one
  whose token the loop holds (`AgentInv`, `TtsInv`), and what was pushed to the text channel (`PushedInv`). The assumption enters
  where an utterance ends: only then are the events of the turn before known to be gone.
  `TranscriptsKept` also takes the recogniser to keep up and the transport to send no
  `Cancel`, which does lose a transcript.
* `AudioFanoutProofs`. `NeverWedged`: the fanout's `biased` select reads the
  speech-state channel before it takes a frame; the invariant says what each task may
  be waiting for, and rules out the ring. `FrontCorrect` (`FrontInv`): frames are counted
  once through the VAD's channel (`Taken`), an utterance takes at least `MinVoiced +
  MinSilent` frames and begins after the one before (`SpacingInv`), and what the VAD has found, what is in the
  speech-state channel and what the fanout has heard differ by exactly the messages under
  way (`ChangesInv`). `OnBusCorrect`: a capture is opened at most one `SpeechStarted` early
  and closed only after its `SpeechEnded`. From both, `SpeechOnBus`: every step is a step
  of `SpeechEvents` or invisible to the bus. `SpeechOnce`: no frame goes to two
  utterances if `PreBuffer <= MinVoiced + MinSilent`. `CapturesWhole`: an utterance is
  captured from its first voiced frame as long as the VAD decides while that frame is
  still in the pre-buffer (`VadKeepsUp`), which the code does not ensure. `CapturesAllButLate` takes no such
  thing: whatever the VAD has in its queue, a capture is one stretch that misses at most
  `Late` frames of its beginning. Both read off one invariant, `PaceInv(n)`: what the fanout
  has yet to open is in the pre-buffer but for its first `n` frames.
* `AgentCoreProofs`. `MemoryCorrect`, all of `MemoryInv`, for a window of any length.
  Lemmas on `memory.rs`: what `push`, the first load and `set_system_prompt` make of a
  `Conversation`, a sequence of messages that fits the window, begins with the prompt and
  has no second one (`PushedIs`, `PromptedIs`, `RepromptedIs`). `SpokenInv` bounds what a turn has said by its rounds: a request is sent
  only while a round is left and a retry happens only before the first piece
  (`RoomLeft`). `SeesTurn` and `RemembersTurn`, for a window of any length: neither `LlmSeesTurn` nor
  `SpokenIsRemembered` is inductive, as both look at a few control points. `TurnInv` says
  for every point of a turn where in the memory its messages begin, that they go on to the
  end, each following from the one before, and that their texts, with what is not in the
  memory yet (`Unkept`), are the last of the pieces sent so far in order (`Under`). `FreshInv` says that a
  turn that waits has left no message, so that the first one is its own words. What `push`
  does to it is a statement about positions: it takes one message from the front when the
  window is full (`PushedAt`), which is another turn's, or the first of this one if the
  window holds no other (`PushOwn`, `CutOrWhole`), and what is lost then are its first pieces
  (`Forgotten`). `AgentIsTask`: `AgentCore` implements `AgentTask`. The first request of a
  turn is the step `Lock`, whether it is sent or cancelled (`FirstCall`); later rounds,
  tools, retries and reloads are invisible (`CalledMoves`).
  `MetricsCorrect`, all of `CallMetrics`' `MetricsInv`: `MutexInv` ties the mutex to what runs under it; `AgreeInv` says
  when prompt and tools are of one version; `RecordInv` that the map is what the model was
  told; `QuietInv` that after the copy no turn gets to a round of tools, because its token is
  a child of the session's.
* `WebSocketCallProofs`. `AudioKept`: the messages that have not been read go on where the
  decoder stopped (`UpInv`), so that its frames count on wherever the client cuts its
  samples and the connection breaks. `CallCorrect`, all of `CallInv`: the five queues between
  the front end and the client are taken as one way (`Way`), on which a step moves an event
  on, drops it or adds one at its end; the invariant (`HearInv`, `AnswersInv`,
  `PendingInv`, `TurnsInv`) speaks of that way alone and not of where on it an event is.
* `PlatformConnectionProofs`: `LimitHeld`, `CallsSettled` and, with `Serial`,
  `PromptsRise`. For the limit, a call that was counted in and has not taken its
  place counts as holding one (`Held`). `SettleInv` says for each step of the handler
  which of place, session, record and usage there are. `OrderInv` says that what a
  session has, what is in its inbox and what is about to be published rise.
* `AsteriskCallsProofs`: `NothingIsLeft`, `LoadCallIsClean` and, with `Serial`,
  `RouteIsRow`. `CleanInv` says what the clean-up has released at each of its steps.
  `LegsInv` says that from the moment at which the monitor has seen the backend's
  call the two legs come and go together, which is why hanging up one of them at the
  end is enough. `RouteInv` says that a pending write of the route carries the row's
  campaign.
* `DialerProofs`: `NobodyCalledTwice` and `RateKept`. `RateHeld` alone is not
  inductive: a job that has been counted and not yet dialled has a place too. `RateInv`
  counts it (with a rate of 0, only once it is past the check) (`window.calls + Cardinality(Admitted) <= counter, up to the rate, +
  window.extra`); `CallInv` adds to the calls of which the scheduler lost track the
  one it knows of; `ExpiryInv` says that one job at most is about to give the counter
  its 60 s, so that no second one can admit calls that are not counted.
* `LoadCampaignProofs`. `WakeUpNotLost`: a call waits for its line only after a second
  look that follows the setting of its callback (`HeldInv`); calls that dial do not
  share lines (`OwnLine`), and the phone is disconnected only when no call waits
  (`ResultsInv`). `CampaignCorrect`, all of `CampaignInv`: what the loop checked before it
  waited still holds when it starts a call, because only the loop starts calls and what
  ends makes room (`LimitsInv`), and a call that starts late for its soak is the only
  one (`SoakInv`). `NoReadPastTheEnd` and `LengthIsKept`, of files of any length and rate: the
  position of the last sample is half a sample before the end (`PositionInside`).
  `CodeIsFaithful` and `CodeIsMonotone`, of all 16-bit samples: each of the eight segments
  of the mu-law code is sixteen steps, a sample comes back as the middle of its step
  (`MiddleOfStep`), and the segments meet. `PayloadIsFound`: of packets with any number of
  sources, words of extension and padding. `EveryCallReported`, all of `CallsReported`, for
  any number of calls and recordings of any length. `ReportInv` says that every result is
  taken once, that none is pending when the report is written (`AllOver`: so no call still
  moves under it) and what the report is made from; sorting undoes the order of collection,
  because numbers that rise and leave none out are the first ones (`CountsUp`). Of one
  call: the voiced regions lie apart (`RegionsApart`), so the first that ends late has the
  first late window (`ResponseIsFound`), and the gaps are the silences (`GapIsSilence`,
  `SilenceIsGap`). Of all: a median of what is sorted (`MedianIs`), bins that part the calls
  (`ResponsesBinned`, `GapsBinned`) and an order of ranks that compares any two
  (`RanksAreOrdered`, `WorstFirst`). That a finite set can be put in order at all is shown
  by counting what comes before each element (`OrderExists`), which needs no induction.

Every safety invariant of the passing runs and every action property is stated by a theorem.
Only model-checked: the liveness properties (`CallEnds`, `EveryTurnSettles` and the others
under fairness), which with `ENABLED` are out of the prover's reach, and the two violated
properties. Of the report, the averages and totals are in no property: what a fold
computes for every input cannot be proved here.

## 5. Not modelled

* *Authentication, storage, mock provider, dashboard, deployment*: request by request,
  without state or interleavings of their own.
* *Audio conversion and the energy VAD*: arithmetic on samples. The re-framing of
  inbound audio is in `InboundAudio`, a telephone's code in `RtpAudio`; that a frame is
  voiced is chosen.
* *Post-call analysis*: nothing enqueues its jobs, and `finalize` writes no transcript,
  without which the worker has nothing to do.
* Parts of modelled components: RTP numbering and AudioSocket framing;
  resampling in the transports and the samples of a recording (its time base is the server's);
  text normalisation; SSE parsing; the HTML, Markdown and CSV of a report; Prometheus
  metrics; queries that only list or count.
* Losses of `try_send` to the 200-frame ASR channel (it holds 4 s of audio that the
  ASR task only copies), `ConversationMemory::clear` and the legacy `run_phase1`
  (no caller in the platform's path).
* The length of a join of `terminate`: `overruns` counts those that took their 5 s.

## 6. What is left

* A clock for the three joins of `terminate`.
* The post-call worker, once something enqueues its jobs.
* Reconnection of the event socket and a time-out of ARI requests, once the code has
  them; until then `HangUpEndsCall` excepts the one and assumes away the other.
