-------------------------- MODULE ConversationMemory --------------------------
(***************************************************************************)
(* agent/src/memory.rs as operators on message sequences: what push, the    *)
(* trimming and set_system_prompt make of the messages.  Loading and saving *)
(* are AgentCore's, which owns the memory.                                  *)
(*                                                                         *)
(* A message is its role and what the properties tell apart: the turn it      *)
(* belongs to; the set of what its text is made of, the prompt or the pieces  *)
(* streamed in the turn, by their numbers; the round and index of a tool call.*)
(***************************************************************************)
EXTENDS Naturals, Sequences

CONSTANT MaxMessages        \* max_turns * 2 (40)

ASSUME WindowAssumption == MaxMessages \in Nat /\ MaxMessages >= 2

NoPrompt == 0

Msg(role, turn, text, tool) == [role |-> role, turn |-> turn, text |-> text, tool |-> tool]

System(p)           == Msg("system", 0, {p}, <<>>)
User(t)             == Msg("user", t, {}, <<>>)
Assistant(t, S)     == Msg("assistant", t, S, <<>>)
Calls(t, S, r, k)   == Msg("assistant", t, S, <<r, k>>)    \* k tool calls of round r
Result(t, r, k)     == Msg("tool", t, {}, <<r, k>>)

HasPrompt(ms) == ms # <<>> /\ ms[1].role = "system"

\* Mutant: the oldest message goes, whatever it is.
DropFirst(ms) == Tail(ms)

\* The body of trim_to_max_turns' loop: the oldest message goes, but not the
\* system prompt.
DropOldest(ms) ==
    IF HasPrompt(ms) /\ Len(ms) > 1
    THEN <<ms[1]>> \o SubSeq(ms, 3, Len(ms))
    ELSE Tail(ms)

\* Mutant: the window is max_turns messages instead of max_turns * 2.
TrimmedToTurns(ms) == IF Len(ms) > MaxMessages \div 2 THEN DropOldest(ms) ELSE ms

\* trim_to_max_turns runs after each message added, so it drops at most one.
Trimmed(ms) == IF Len(ms) > MaxMessages THEN DropOldest(ms) ELSE ms

Pushed(ms, m) == Trimmed(Append(ms, m))

\* apply_system_prompt_if_missing, then the trim, on what was loaded.
Prompted(ms, p) ==
    IF p = NoPrompt \/ HasPrompt(ms) THEN ms ELSE Trimmed(<<System(p)>> \o ms)

\* set_system_prompt: replaced, inserted or removed.
Reprompted(ms, p) ==
    IF p # NoPrompt
    THEN IF HasPrompt(ms) THEN [ms EXCEPT ![1] = System(p)] ELSE Trimmed(<<System(p)>> \o ms)
    ELSE IF HasPrompt(ms) THEN Tail(ms) ELSE ms
=============================================================================
