---- MODULE CallMetrics ----
(***************************************************************************)
(* The metrics a campaign has its agent capture during a call, from the    *)
(* tools the model is offered to the call's record.  Three tasks meet in a *)
(* map: a turn of the agent (handle_turn), whose tools write to it; the    *)
(* reload task, which replaces the tools; and the connection's handler,    *)
(* which copies it into the record.  The first two take the agent's mutex; *)
(* nothing makes the handler wait for the first.                           *)
(***************************************************************************)
EXTENDS Integers, Sequences, SequencesExt, FiniteSetsExt

CONSTANTS
  Keys,           \* the keys of metrics
  Reserved,       \* those the handler counts itself: turn_count, interrupt_count
  Names,          \* the names of tools
  Values,         \* what the model may say of a metric
  Metrics,        \* Metrics[v]: custom_metrics in the v-th version of the campaign
  MaxIterations,  \* MAX_TOOL_ITERATIONS (5)
  MaxCalls,       \* bound: tool calls in one response
  MaxCallTurns,   \* bound: turns of the call
  None            \* Rust's Option::None

ASSUME MetricsAssumption ==
  /\ Reserved \subseteq Keys /\ None \notin Values \cup DOMAIN Metrics
  /\ 1 \in DOMAIN Metrics
  /\ MaxIterations \in Nat /\ MaxCalls \in Nat /\ MaxCallTurns \in Nat

VARIABLES
  promptOf, toolsOf,  \* the agent: the versions its prompt and its tools are of
  mutex,              \* the agent's mutex: none, turn, reload
  step,               \* where handle_turn is: idle, asks the model, runs its tools
  offered,            \* the version of tool_defs
  calls, iterations,  \* tool calls still to run, iterations
  interrupted,        \* the turn's own token
  turns,              \* counter for MaxCallTurns
  update,             \* the version the reload task is to apply
  captured,           \* the map
  told,               \* history: what the model was told is recorded
  handler,            \* the handler: bridge, abort, terminate, uncount, finalise, ended
  record,             \* custom_metrics of the call's record
  overtaken           \* history: a turn was under way when the map was copied

agentVars == <<promptOf, toolsOf>>
turnVars == <<step, offered, calls, iterations, interrupted, turns>>
mapVars == <<captured, told>>
callVars == <<handler, record, overtaken>>
captureVars == <<agentVars, mutex, turnVars, update, mapVars, callVars>>

Versions == DOMAIN Metrics
ToolCalls == [tool : Names, value : Values]
NothingYet == [k \in Keys |-> None]

CaptureInit ==
  /\ promptOf = 1 /\ toolsOf = 1 /\ mutex = "none"
  /\ step = "idle" /\ offered = 1 /\ calls = <<>> /\ iterations = 0 /\ interrupted = FALSE /\ turns = 0
  /\ update = None
  /\ captured = NothingYet /\ told = NothingYet
  /\ handler = "bridge" /\ record = None /\ overtaken = FALSE

----
(* metric_tool.rs *)

\* tools_from_metrics_with_capture: a tool for each metric with a key that an agent
\* tool collects.
Tools(v) == SelectSeq(Metrics[v], LAMBDA m : m.collection = "agent_tool" /\ m.key # None)

\* The first tool of that name, which hides the others.
Named(v, n) ==
  LET hits == {i \in DOMAIN Tools(v) : Tools(v)[i].tool = n}
  IN IF hits = {} THEN None ELSE Tools(v)[Min(hits)].key

\* execute: the value, under the tool's own key.
Captured(k, value) == [captured EXCEPT ![k] = value]

----
(* A turn of the agent *)

\* terminate has cancelled the session's token, of which every turn's is a child.
Stopped == handler \notin {"bridge", "abort", "terminate"}

\* Mutant: the turn's token is not a child of the session's.
TurnTokenAlone == interrupted

TurnCancelled == interrupted \/ Stopped

\* A turn that has been triggered gets the mutex, lists the tools once for all its
\* rounds, and remembers what the caller said.
StartTurn ==
  /\ mutex = "none" /\ turns < MaxCallTurns
  /\ mutex' = "turn" /\ step' = "tools"
  /\ turns' = turns + 1
  /\ offered' = toolsOf
  /\ iterations' = 0 /\ interrupted' = FALSE
  /\ UNCHANGED <<agentVars, calls, update, mapVars, callVars>>

\* The end of a turn, whatever its outcome.
Leaves == step' = "idle" /\ mutex' = "none"

\* Mutant: rounds of tools without end.
NeverOutOfRounds == FALSE

OutOfRounds == iterations >= MaxIterations

\* The next round, when all tool calls have been answered: a request that is cancelled
\* before it is sent gets no answer.
Ask ==
  /\ step = "tools" /\ calls = <<>>
  /\ IF OutOfRounds \/ TurnCancelled THEN Leaves ELSE step' = "asks" /\ UNCHANGED mutex
  /\ UNCHANGED <<agentVars, offered, calls, iterations, interrupted, turns, update, mapVars, callVars>>

\* An answer without tool calls, a failure, or the request cancelled.
EndTurn ==
  /\ step = "asks"
  /\ Leaves
  /\ UNCHANGED <<agentVars, offered, calls, iterations, interrupted, turns, update, mapVars, callVars>>

\* An answer with tool calls, which may have been complete when the turn was cancelled;
\* the model may name tools it was not offered.  The answer is remembered.
AnswerWithCalls ==
  /\ step = "asks"
  /\ \E n \in 1 .. MaxCalls : calls' \in [1 .. n -> ToolCalls]
  /\ step' = "tools"
  /\ iterations' = Min({iterations + 1, MaxIterations})
  /\ UNCHANGED <<agentVars, mutex, offered, interrupted, turns, update, mapVars, callVars>>

\* The next tool call, and its result remembered, which awaits Redis.  A turn that
\* is cancelled runs all of them.
RunTool ==
  /\ step = "tools" /\ calls # <<>>
  /\ calls' = Tail(calls)
  /\ LET key == Named(toolsOf, Head(calls).tool)
     IN IF key = None THEN UNCHANGED mapVars
        ELSE /\ captured' = Captured(key, Head(calls).value)
             /\ told' = [told EXCEPT ![key] = Head(calls).value]
  /\ UNCHANGED <<agentVars, mutex, step, offered, iterations, interrupted, turns, update, callVars>>

\* The orchestrator cancels the turn because the caller speaks.
BargeIn ==
  /\ ~Stopped /\ step # "idle"
  /\ interrupted' = TRUE
  /\ UNCHANGED <<agentVars, mutex, step, offered, calls, iterations, turns, update, mapVars, callVars>>

----
(* The reload task *)

\* It reads an update, at the earliest when it has applied the one before.
HearUpdate(v) ==
  /\ handler = "bridge" /\ update = None
  /\ v > toolsOf
  /\ update' = v
  /\ UNCHANGED <<agentVars, mutex, turnVars, mapVars, callVars>>

\* Mutant: the prompt is replaced while a turn is under way.
ReloadPromptAtOnce ==
  /\ update # None /\ mutex # "reload"
  /\ mutex' = "reload"
  /\ promptOf' = update
  /\ UNCHANGED <<toolsOf, turnVars, update, mapVars, callVars>>

\* reload_runtime_config: the prompt, which is saved to Redis,
ReloadPrompt ==
  /\ update # None /\ mutex = "none"
  /\ mutex' = "reload"
  /\ promptOf' = update
  /\ UNCHANGED <<toolsOf, turnVars, update, mapVars, callVars>>

\* then the tools.
ReloadTools ==
  /\ mutex = "reload"
  /\ mutex' = "none"
  /\ toolsOf' = update
  /\ update' = None
  /\ UNCHANGED <<promptOf, turnVars, mapVars, callVars>>

----
(* The handler *)

Moves(from, to) == handler = from /\ handler' = to

BridgeEnds ==
  /\ Moves("bridge", "abort")
  /\ UNCHANGED <<agentVars, mutex, turnVars, update, mapVars, record, overtaken>>

\* The reload task is aborted and awaited, maybe between the prompt and the tools.
AbortReload ==
  /\ Moves("abort", "terminate")
  /\ update' = None
  /\ mutex' = IF mutex = "reload" THEN "none" ELSE mutex
  /\ UNCHANGED <<agentVars, turnVars, mapVars, record, overtaken>>

\* terminate cancels the session and joins its tasks, none of which is a turn's.
Terminate ==
  /\ Moves("terminate", "uncount")
  /\ UNCHANGED <<agentVars, mutex, turnVars, update, mapVars, record, overtaken>>

\* cleanup_active_session and the upload of the recording.
Uncount ==
  /\ Moves("uncount", "finalise")
  /\ UNCHANGED <<agentVars, mutex, turnVars, update, mapVars, record, overtaken>>

\* What was captured, with the handler's own counters.
Merged == [k \in Keys |-> IF k \in Reserved THEN "counted" ELSE captured[k]]

\* The UPDATE of finalize may fail.
Finalise ==
  /\ Moves("finalise", "ended")
  /\ record' \in {Merged, None}
  /\ overtaken' = (mutex = "turn")
  /\ UNCHANGED <<agentVars, mutex, turnVars, update, mapVars>>

----
Turn == StartTurn \/ Ask \/ EndTurn \/ AnswerWithCalls \/ RunTool
Reload == (\E v \in Versions : HearUpdate(v)) \/ ReloadPrompt \/ ReloadTools
Handler == BridgeEnds \/ AbortReload \/ Terminate \/ Uncount \/ Finalise

CaptureNext == Turn \/ BargeIn \/ Reload \/ Handler

CaptureSpec == CaptureInit /\ [][CaptureNext]_captureVars

\* Requests to the model and to Redis end; the agent's mutex is handed out in the order
\* it was asked for.  Nobody has to speak, to publish or to hang up.
CaptureFairSpec ==
  /\ CaptureSpec
  /\ WF_captureVars(Ask \/ EndTurn \/ AnswerWithCalls \/ RunTool)
  /\ SF_captureVars(ReloadPrompt) /\ WF_captureVars(ReloadTools)

----
(* Properties *)

CaptureTypeOK ==
  /\ promptOf \in Versions /\ toolsOf \in Versions /\ offered \in Versions
  /\ mutex \in {"none", "turn", "reload"}
  /\ step \in {"idle", "asks", "tools"}
  /\ calls \in Seq(ToolCalls)
  /\ iterations \in 0 .. MaxIterations /\ turns \in 0 .. MaxCallTurns /\ interrupted \in BOOLEAN
  /\ update \in Versions \cup {None}
  /\ captured \in [Keys -> Values \cup {None}] /\ told \in [Keys -> Values \cup {None}]
  /\ handler \in {"bridge", "abort", "terminate", "uncount", "finalise", "ended"}
  /\ overtaken \in BOOLEAN

\* What the model was told is recorded is in the call's record, across reloads of the
\* tools and turns that were cut off, whenever the map was not copied while a turn was
\* under way; and the handler's counters are its own.  metric_tool.rs 87-104,
\* websocket/src/handler.rs 646-660
Reported ==
  record # None =>
    \A k \in Keys : IF k \in Reserved THEN record[k] = "counted"
                    ELSE ~overtaken => record[k] = told[k]

\* A turn runs the tools it offered the model, under the prompt that came with them,
\* although a reload may be waiting; the prompt of a call that is ending may be newer,
\* if the reload was aborted half-way.  core.rs 64-190, websocket/src/handler.rs 756-768
SameCampaign ==
  step # "idle" => /\ offered = toolsOf
                   /\ handler = "bridge" => promptOf = toolsOf

\* The state of the agent, the map and the record.
MetricsInv == CaptureTypeOK /\ SameCampaign /\ Reported

\* An update that was read is applied before long, or the call ends: no turn keeps the
\* agent to itself for ever.  core.rs 74-80, core/src/session.rs 376-383
UpdatesApplied ==
  \A v \in Versions : update = v ~> (promptOf = v /\ toolsOf = v) \/ handler # "bridge"
====
