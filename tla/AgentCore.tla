------------------------------ MODULE AgentCore ------------------------------
(***************************************************************************)
(* The agent of a session: AgentCore::handle_turn with its rounds of tool    *)
(* calls, the retries of FallbackLlmProvider and OpenAiProvider's stream,     *)
(* ConversationMemory with its backend, and reload_agent_config.  Turns take   *)
(* the AgentCore mutex in any order; whoever holds it runs alone, while       *)
(* cancellation and the choice of when to reload are other tasks'.            *)
(*                                                                         *)
(* Everything a caller can hear is a streamed piece of text; the pieces of a   *)
(* turn are numbered as they are sent.                                       *)
(***************************************************************************)
EXTENDS ConversationMemory, FiniteSets

CONSTANTS
    MaxTurns,       \* bound: turns of the session
    MaxRounds,      \* MAX_TOOL_ITERATIONS (5)
    MaxToolCalls,   \* MAX_PARALLEL_TOOL_CALLS (32)
    Attempts,       \* MAX_ATTEMPTS (2), twice that with a fallback provider
    MaxPieces,      \* bound: pieces of text in one response
    Prompts,        \* the prompts a campaign can be given
    MaxReloads      \* bound: campaign reloads

ASSUME AgentAssumption ==
    /\ MaxTurns \in Nat /\ MaxReloads \in Nat
    /\ MaxRounds \in Nat \ {0} /\ MaxToolCalls \in Nat /\ Attempts \in Nat \ {0} /\ MaxPieces \in Nat

Turns == 1..MaxTurns
Outcomes == {"answered", "cancelled", "failed", "exhausted"}

VARIABLES
    turn,           \* turns triggered
    status,         \* status[t]: none, waiting for the mutex, active, or an outcome
    holder,         \* turn that holds the AgentCore mutex, 0 if none
    pc,             \* where handle_turn is: idle, call, request, stream, tools,
                    \* or the outcome it is about to report
    cancelled,      \* turns whose token is cancelled
    llmFlag,        \* OpenAiProvider.cancelled, shared by all turns
    rounds,         \* iterations
    attempt,        \* attempt of the request under way
    heard,          \* pieces of full_text as handle_turn collects it
    own,            \* pieces of full_text as the provider collects it
    pending,        \* tool calls of the round not yet answered
    messages,       \* memory.messages
    loaded,         \* memory.loaded
    attached,       \* memory.backend is some
    stored,         \* what an attached backend holds
    prompt,         \* memory.system_prompt
    reloads,        \* counter for MaxReloads
    spoken          \* spoken[t]: history, pieces of turn t sent as partial responses

control == <<turn, status, holder, cancelled>>
call == <<rounds, attempt, heard, own, pending>>
memory == <<messages, loaded, attached, stored>>
config == <<prompt, reloads>>
vars == <<control, pc, llmFlag, call, memory, config, spoken>>

Init ==
    /\ turn = 0 /\ holder = 0 /\ pc = "idle"
    /\ status = [t \in Turns |-> "none"]
    /\ cancelled = {} /\ llmFlag = FALSE
    /\ rounds = 0 /\ attempt = 0 /\ heard = {} /\ own = {} /\ pending = 0
    /\ messages = <<>> /\ loaded = FALSE /\ attached = TRUE /\ stored = <<>>
    /\ prompt \in Prompts \cup {NoPrompt} /\ reloads = 0
    /\ spoken = [t \in Turns |-> 0]

-----------------------------------------------------------------------------
(* Memory *)

\* ensure_loaded: the session is new, so the backend has nothing, or fails.
Loaded == IF loaded THEN messages ELSE Prompted(<<>>, prompt)

\* A failed load or save detaches the backend for the rest of the session; what it
\* then holds nobody reads.
Remember(ms) ==
    /\ messages' = ms
    /\ loaded' = TRUE
    /\ \/ attached /\ attached' = TRUE /\ stored' = ms
       \/ attached' = FALSE /\ stored' = <<>>

Push(m) == Remember(Pushed(Loaded, m))

\* What was said of a response that is cut off is kept, if it is not blank.
KeepHeard ==
    IF heard # {} THEN Push(Assistant(holder, heard)) ELSE UNCHANGED memory

-----------------------------------------------------------------------------
(* Other tasks *)

TriggerAgent ==
    /\ turn < MaxTurns
    /\ turn' = turn + 1
    /\ status' = [status EXCEPT ![turn + 1] = "waiting"]
    /\ UNCHANGED <<holder, pc, cancelled, llmFlag, call, memory, config, spoken>>

\* cancel_active_tasks: the token of the last turn, if it was not taken before,
\* and in any case the provider's flag.
CancelTurn ==
    /\ cancelled' = cancelled \cup ({turn} \ {0})
    /\ llmFlag' = TRUE
    /\ UNCHANGED <<turn, status, holder, pc, call, memory, config, spoken>>

ReloadConfig(p) ==
    /\ reloads < MaxReloads
    /\ holder = 0
    /\ reloads' = reloads + 1
    /\ prompt' = p
    /\ IF Reprompted(Loaded, p) = messages
       THEN UNCHANGED <<messages, attached, stored>> /\ loaded' = TRUE
       ELSE Remember(Reprompted(Loaded, p))
    /\ UNCHANGED <<control, pc, llmFlag, call, spoken>>

-----------------------------------------------------------------------------
(* handle_turn *)

AgentLock(t) ==
    /\ holder = 0
    /\ status[t] = "waiting"
    /\ holder' = t
    /\ status' = [status EXCEPT ![t] = "active"]
    /\ pc' = "call"
    /\ Push(User(t))
    /\ UNCHANGED <<turn, cancelled, llmFlag, call, config, spoken>>

\* A step of the holder of the mutex from one place of handle_turn to another.
Goes(from, to) ==
    /\ holder # 0 /\ pc = from /\ pc' = to
    /\ UNCHANGED <<control, config>>

\* Mutant: the request is sent although the turn was cancelled.
CallLlmAnyway ==
    /\ Goes("call", IF rounds < MaxRounds THEN "request" ELSE "exhausted")
    /\ llmFlag' = FALSE
    /\ attempt' = 1 /\ heard' = {} /\ own' = {}
    /\ UNCHANGED <<rounds, pending, memory, spoken>>

\* The next iteration of the loop: out of rounds, cancelled before the request
\* was sent (stream_completion may have reset the flag), or under way.
CallLlm ==
    \/ /\ Goes("call", "exhausted")
       /\ rounds = MaxRounds
       /\ UNCHANGED <<llmFlag, call, memory, spoken>>
    \/ /\ Goes("call", "cancelled")
       /\ rounds < MaxRounds /\ holder \in cancelled
       /\ llmFlag' \in {FALSE, llmFlag}
       /\ UNCHANGED <<call, memory, spoken>>
    \/ /\ Goes("call", "request")
       /\ rounds < MaxRounds /\ holder \notin cancelled
       /\ llmFlag' = FALSE
       /\ attempt' = 1 /\ heard' = {} /\ own' = {}
       /\ UNCHANGED <<rounds, pending, memory, spoken>>

\* Mutant: the attempts are not counted.
RequestRetries ==
    /\ Goes("request", "request")
    /\ own' = {} /\ llmFlag' = FALSE
    /\ UNCHANGED <<rounds, attempt, heard, pending, memory, spoken>>

\* ConnectionFailed, the only recoverable error of the provider: nothing of the
\* response has been sent yet.
RequestFails ==
    \/ /\ Goes("request", "request")
       /\ attempt < Attempts
       /\ attempt' = attempt + 1 /\ own' = {} /\ llmFlag' = FALSE
       /\ UNCHANGED <<rounds, heard, pending, memory, spoken>>
    \/ /\ Goes("request", "failed")
       /\ attempt = Attempts
       /\ UNCHANGED <<llmFlag, call, memory, spoken>>

StreamStarts == Goes("request", "stream") /\ UNCHANGED <<llmFlag, call, memory, spoken>>

Piece ==
    /\ Goes("stream", "stream")
    /\ Cardinality(own) < MaxPieces
    /\ own' = own \cup {spoken[holder] + 1}
    /\ heard' = heard \cup {spoken[holder] + 1}
    /\ spoken' = [spoken EXCEPT ![holder] = @ + 1]
    /\ UNCHANGED <<llmFlag, rounds, attempt, pending, memory>>

\* Mutant: an error in the middle of a response is retried like a failed request.
StreamRetries ==
    /\ Goes("stream", "request")
    /\ attempt < Attempts
    /\ attempt' = attempt + 1 /\ own' = {} /\ llmFlag' = FALSE
    /\ UNCHANGED <<rounds, heard, pending, memory, spoken>>

\* StreamError is not recoverable, and what was said of the response is forgotten.
StreamBreaks == Goes("stream", "failed") /\ UNCHANGED <<llmFlag, call, memory, spoken>>

\* The response is complete: an answer, or n tool calls.
Answered ==
    /\ Goes("stream", "answered")
    /\ Push(Assistant(holder, own))
    /\ UNCHANGED <<llmFlag, call, spoken>>

CallsTools(n) ==
    /\ Goes("stream", "tools")
    /\ Push(Calls(holder, own, rounds, n))
    /\ pending' = n
    /\ UNCHANGED <<llmFlag, rounds, attempt, heard, own, spoken>>

\* The token drops the request at any await; the flag is seen between chunks.
Interrupted ==
    /\ \/ Goes("request", "cancelled") /\ holder \in cancelled
       \/ Goes("stream", "cancelled") /\ (holder \in cancelled \/ llmFlag)
    /\ KeepHeard
    /\ UNCHANGED <<llmFlag, call, spoken>>

\* A tool's result, its error or its timeout: nothing here looks at the token.
ToolReturns ==
    /\ Goes("tools", IF pending = 1 THEN "call" ELSE "tools")
    /\ Push(Result(holder, rounds, pending))
    /\ pending' = pending - 1
    /\ rounds' = IF pending = 1 THEN rounds + 1 ELSE rounds
    /\ UNCHANGED <<llmFlag, attempt, heard, own, spoken>>

\* handle_turn returns, after the final response if there is one, and the task
\* releases the mutex.
TurnEnds ==
    /\ holder # 0 /\ pc \in Outcomes
    /\ status' = [status EXCEPT ![holder] = pc]
    /\ holder' = 0
    /\ pc' = "idle"
    /\ rounds' = 0 /\ attempt' = 0 /\ heard' = {} /\ own' = {} /\ pending' = 0
    /\ UNCHANGED <<turn, cancelled, llmFlag, memory, config, spoken>>

HandleTurn ==
    \/ CallLlm
    \/ RequestFails
    \/ StreamStarts
    \/ Piece
    \/ StreamBreaks
    \/ Answered
    \/ \E n \in 1..MaxToolCalls : CallsTools(n)
    \/ Interrupted
    \/ ToolReturns
    \/ TurnEnds

Next ==
    \/ TriggerAgent
    \/ CancelTurn
    \/ \E p \in Prompts \cup {NoPrompt} : ReloadConfig(p)
    \/ \E t \in Turns : AgentLock(t)
    \/ HandleTurn

Spec == Init /\ [][Next]_vars

\* The mutex is fair, requests time out after 60 s and tools after 30 s.
FairSpec == Spec /\ (\A t \in Turns : WF_vars(AgentLock(t))) /\ WF_vars(HandleTurn)

-----------------------------------------------------------------------------
(* Properties *)

TypeOK ==
    /\ turn \in 0..MaxTurns /\ holder \in 0..turn
    /\ status \in [Turns -> {"none", "waiting", "active"} \cup Outcomes]
    /\ pc \in {"idle", "call", "request", "stream", "tools"} \cup Outcomes
    /\ cancelled \subseteq 1..turn /\ llmFlag \in BOOLEAN
    /\ rounds \in 0..MaxRounds /\ attempt \in 0..Attempts
    /\ own \subseteq Nat /\ Cardinality(own) <= MaxPieces /\ heard \subseteq Nat
    /\ pending \in 0..MaxToolCalls
    /\ Len(messages) <= MaxMessages
    /\ loaded \in BOOLEAN /\ attached \in BOOLEAN
    /\ prompt \in Prompts \cup {NoPrompt} /\ reloads \in 0..MaxReloads
    /\ spoken \in [Turns -> 0..MaxRounds * MaxPieces]

\* Whatever was trimmed, reloaded or lost by the backend: the memory starts with
\* the prompt the session has now, and holds no other.
PromptFirst ==
    loaded =>
        /\ HasPrompt(messages) <=> prompt # NoPrompt
        /\ HasPrompt(messages) => messages[1] = System(prompt)
        /\ \A i \in 2..Len(messages) : messages[i].role # "system"

\* Where the messages of the turn under way are.
OwnAt == {i \in DOMAIN messages : messages[i].turn = holder}

IsCalls(m) == m.role = "assistant" /\ m.tool # <<>>

\* What may come next in the transcript of turn t: the calls of a round after the
\* last result of the round before, or after the user's words; a result after the
\* one before it, the first one after the calls.
Follows(t, m, next) ==
    LET r == next.tool[1]
        k == next.tool[2]
    IN  /\ next.tool # <<>> /\ k > 0
        /\ \/ IsCalls(next) /\ m = IF r = 0 THEN User(t) ELSE Result(t, r - 1, 1)
           \/ /\ next = Result(t, r, k)
              /\ m = Result(t, r, k + 1) \/ (IsCalls(m) /\ m.tool = <<r, k>>)

\* What the window drops next, a prompt apart.
Oldest(ms) == IF HasPrompt(ms) THEN 2 ELSE 1

\* The turn under way has the window to itself and has lost its first words, or more.
Cut ==
    /\ Len(messages) = MaxMessages
    /\ OwnAt = Oldest(messages)..MaxMessages
    /\ messages[Oldest(messages)].role # "user"

\* The messages from the n-th on are the transcript of the turn under way, or as much of
\* its end as the window has room for: the user's words, then, round by round, the tool
\* calls and all their results.
TranscriptFrom(n) ==
    /\ messages[n] = User(holder) \/ Cut
    /\ OwnAt = n..Len(messages)
    /\ \A i \in (n + 1)..Len(messages) : Follows(holder, messages[i - 1], messages[i])
    /\ IF rounds = 0 THEN messages[n] = User(holder) /\ Len(messages) = n
                     ELSE messages[Len(messages)] = Result(holder, rounds - 1, 1)

\* Every request shows the model the turn's transcript at the end of the memory, whole, or
\* else what fits of it in a window that has room for nothing but the prompt besides: no
\* message of the turn goes while one of an earlier turn is there, none from the middle of
\* it, and no other turn's come between.
LlmSeesTurn == pc = "request" => \E n \in DOMAIN messages : TranscriptFrom(n)

\* When a turn ends other than by an error, the memory holds every piece of text the
\* caller was sent, once and in the order it was sent in: interrupted speech is kept,
\* and retries repeat nothing.  Only a turn cut by the window has lost some, and then
\* the first of them.
SpokenIsRemembered ==
    LET kept == UNION {messages[i].text : i \in OwnAt}
    IN  pc \in Outcomes \ {"failed"} =>
            /\ kept \subseteq 1..spoken[holder]
            /\ \A p \in 1..spoken[holder] : p \notin kept => Cut /\ \A q \in kept : p < q
            /\ \A i, j \in OwnAt : i < j =>
                  \A p \in messages[i].text, q \in messages[j].text : p < q

\* As long as the backend is attached it holds what the agent remembers.
BackendInStep == attached /\ loaded => stored = messages

\* The conversation, between any two steps of a turn: one prompt, the session's own,
\* and the same messages in the backend.
MemoryInv == TypeOK /\ PromptFirst /\ BackendInStep

\* Mutex order, tools, retries and failures notwithstanding, every turn triggered
\* ends and gives the agent back.
EveryTurnEnds == \A t \in Turns : (turn >= t) ~> (status[t] \in Outcomes)

-----------------------------------------------------------------------------
(* Refinement *)

\* The task has called the LLM for the first time.
Called == holder # 0 /\ ~(pc = "call" /\ rounds = 0)

\* The task of the turn that holds the mutex, by where handle_turn is.
HolderState ==
    IF ~Called THEN "waiting"
    ELSE IF pc = "answered" THEN "finishing"
    ELSE IF pc \in Outcomes THEN "stopping" ELSE "streaming"

AgentState(t) ==
    IF status[t] = "active" THEN HolderState
    ELSE IF status[t] \in Outcomes \ {"answered"} THEN "unanswered" ELSE status[t]

Task == INSTANCE AgentTask WITH
    MaxPartials <- MaxRounds * MaxPieces,
    agent <- [t \in Turns |-> AgentState(t)],
    partials <- spoken,
    lock <- IF Called THEN holder ELSE 0,
    agentCancelled <- cancelled

\* To the orchestrator the agent is one task per turn, alone under the mutex,
\* that answers at most once, after its partial responses, and never once it was
\* cancelled before its first request.
ImplementsAgentTask == Task!Spec

=============================================================================
