------------------------------ MODULE AgentTask ------------------------------
(***************************************************************************)
(* The agent tasks of a session as the orchestrator sees them: one per turn, *)
(* exclusive under the AgentCore mutex, each sending partial responses and   *)
(* then at most one final response.  Orchestrator takes its agent steps from *)
(* here; AgentCore, with its rounds of tools, retries and memory, implements *)
(* them.                                                                   *)
(***************************************************************************)
EXTENDS Naturals

CONSTANTS Turns, MaxPartials

VARIABLES
    agent,          \* agent[t]: the agent task of turn t
    partials,       \* partials[t]: partial responses turn t has sent
    lock,           \* holder of the AgentCore mutex, 0 if free
    agentCancelled  \* turns whose token is cancelled

taskVars == <<agent, partials, lock, agentCancelled>>

States == {"none", "waiting", "streaming", "finishing", "stopping", "answered", "unanswered"}

Init ==
    /\ agent = [t \in Turns |-> "none"]
    /\ partials = [t \in Turns |-> 0]
    /\ lock = 0
    /\ agentCancelled = {}

Moves(t, from, to) == agent[t] = from /\ agent' = [agent EXCEPT ![t] = to]

Spawn(t) ==
    /\ Moves(t, "none", "waiting")
    /\ agentCancelled' \in {agentCancelled, agentCancelled \cup {t}}
    /\ UNCHANGED <<partials, lock>>

Cancel(S) ==
    /\ agentCancelled' = agentCancelled \cup S
    /\ UNCHANGED <<agent, partials, lock>>

\* The task has the mutex and calls the LLM.  If its token is already cancelled
\* the select around the call ends it before the HTTP request can have answered.
Lock(t) ==
    /\ Moves(t, "waiting", IF t \in agentCancelled THEN "stopping" ELSE "streaming")
    /\ lock = 0
    /\ lock' = t
    /\ UNCHANGED <<partials, agentCancelled>>

Speak(t) ==
    /\ agent[t] = "streaming"
    /\ partials[t] < MaxPartials
    /\ partials' = [partials EXCEPT ![t] = @ + 1]
    /\ UNCHANGED <<agent, lock, agentCancelled>>

\* The LLM call returned Ok: what follows does not look at the token any more.
Complete(t) == Moves(t, "streaming", "finishing") /\ UNCHANGED <<partials, lock, agentCancelled>>

\* The call was cancelled or failed, or the rounds of tools ran out.
Stop(t) == Moves(t, "streaming", "stopping") /\ UNCHANGED <<partials, lock, agentCancelled>>

\* The final response is sent, and the mutex released.
Answer(t) ==
    /\ Moves(t, "finishing", "answered")
    /\ lock' = 0
    /\ UNCHANGED <<partials, agentCancelled>>

End(t) ==
    /\ Moves(t, "stopping", "unanswered")
    /\ lock' = 0
    /\ UNCHANGED <<partials, agentCancelled>>

Next ==
    \/ \E S \in SUBSET Turns : Cancel(S)
    \/ \E t \in Turns :
          \/ Spawn(t) \/ Lock(t) \/ Speak(t) \/ Complete(t) \/ Stop(t) \/ Answer(t) \/ End(t)

Spec == Init /\ [][Next]_taskVars
=============================================================================
