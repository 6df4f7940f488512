---- MODULE AgentCoreProofs ----
(***************************************************************************)
(* Proofs about AgentCore, for any number of turns, rounds, tool calls,    *)
(* attempts and reloads and a window of any length: the memory begins with *)
(* the session's prompt and holds no other, whatever is trimmed, reloaded  *)
(* or lost by the backend; and the agent is to the orchestrator what       *)
(* AgentTask says, although it asks the model many times in a turn.  And    *)
(* about CallMetrics, for any metrics, tools, updates and turns: what the  *)
(* model was told is recorded is reported, and a turn runs the tools it    *)
(* offered.                                                                *)
(***************************************************************************)
EXTENDS AgentCore, CallMetrics, FiniteSetTheorems, TLAPS

----
(* The operators of the memory *)

Message == [role : {"system", "user", "assistant", "tool"}, turn : Nat,
            text : SUBSET (Nat \cup Prompts), tool : Seq(Nat)]

\* The messages that a turn adds.
Spoken == {m \in Message : m.role # "system"}

\* A conversation that fits the window and begins with the prompt p, if there is one.
Conversation(ms, p) ==
  /\ ms \in Seq(Message)
  /\ Len(ms) <= MaxMessages
  /\ HasPrompt(ms) <=> p # NoPrompt
  /\ HasPrompt(ms) => ms[1] = System(p)
  /\ \A i \in 2 .. Len(ms) : ms[i].role # "system"

LEMMA TurnMessages ==
  ASSUME NEW t \in Nat, NEW S \in SUBSET Nat, NEW r \in Nat, NEW k \in Nat
  PROVE  /\ User(t) \in Spoken /\ Assistant(t, S) \in Spoken
         /\ Calls(t, S, r, k) \in Spoken /\ Result(t, r, k) \in Spoken
<1>1. <<>> \in Seq(Nat) /\ <<r, k>> \in Seq(Nat) OBVIOUS
<1>2. User(t) \in Spoken BY <1>1 DEF User, Msg, Message, Spoken
<1>3. Assistant(t, S) \in Spoken BY <1>1 DEF Assistant, Msg, Message, Spoken
<1>4. Calls(t, S, r, k) \in Spoken BY <1>1 DEF Calls, Msg, Message, Spoken
<1>5. Result(t, r, k) \in Spoken BY <1>1 DEF Result, Msg, Message, Spoken
<1> QED BY <1>2, <1>3, <1>4, <1>5

LEMMA PromptMessage ==
  ASSUME NEW p \in Prompts \cup {NoPrompt}
  PROVE  System(p) \in Message /\ System(p).role = "system"
<1>1. <<>> \in Seq(Nat) OBVIOUS
<1> QED BY <1>1 DEF System, Msg, Message, NoPrompt

\* What is left of a sequence without its second element.
LEMMA SecondDropped ==
  ASSUME NEW S, NEW s \in Seq(S), Len(s) >= 2,
         NEW new, new = <<s[1]>> \o SubSeq(s, 3, Len(s))
  PROVE  /\ new \in Seq(S) /\ Len(new) = Len(s) - 1 /\ new[1] = s[1]
         /\ \A i \in 2 .. Len(new) : i + 1 \in 2 .. Len(s) /\ new[i] = s[i + 1]
<1> DEFINE rest == SubSeq(s, 3, Len(s))
<1>1. Len(s) \in Nat OBVIOUS
<1>2. \A i \in 3 .. Len(s) : s[i] \in S BY <1>1
<1>3. rest \in Seq(S)
  <2>1. \A i \in 3 .. Len(s) : s[i] \in S BY <1>2
  <2> QED BY <1>1, <2>1
<1>4. Len(rest) = Len(s) - 2
  <2>1. CASE Len(s) = 2 BY <2>1
  <2>2. CASE Len(s) > 2 BY <1>1, <2>2
  <2>3. \A n \in Nat : n >= 2 => n = 2 \/ n > 2 OBVIOUS
  <2>4. Len(s) = 2 \/ Len(s) > 2 BY <1>1, <2>3
  <2> HIDE DEF rest
  <2> QED BY <2>1, <2>2, <2>4
<1>5. \A i \in 1 .. Len(rest) : rest[i] = s[i + 2]
  <2> SUFFICES ASSUME NEW i \in 1 .. Len(rest) PROVE rest[i] = s[i + 2] OBVIOUS
  <2>1. i \in 1 .. Len(s) - 2 BY <1>1, <1>4
  <2> QED BY <1>1, <2>1
<1>6. s[1] \in S BY <1>1
<1>7. new = <<s[1]>> \o rest OBVIOUS
<1> HIDE DEF rest
<1>8. new \in Seq(S) /\ Len(new) = 1 + Len(rest) BY <1>3, <1>6, <1>7
<1>9. new[1] = s[1] BY <1>3, <1>6, <1>7
<1>10. ASSUME NEW i \in 2 .. Len(new) PROVE i + 1 \in 2 .. Len(s) /\ new[i] = s[i + 1]
  <2>1. i - 1 \in 1 .. Len(rest) /\ i - 1 + 2 = i + 1 BY <1>1, <1>4, <1>8
  <2>2. new[i] = rest[i - 1] BY <1>3, <1>6, <1>7, <2>1
  <2>3. rest[i - 1] = s[i - 1 + 2] BY <1>5, <2>1
  <2> QED BY <1>1, <1>4, <1>8, <2>1, <2>2, <2>3
<1> QED BY <1>1, <1>4, <1>8, <1>9, <1>10

\* A message that is added pushes the oldest out of a full window, but never the prompt.
LEMMA PushedIs ==
  ASSUME NEW p, NEW ms, Conversation(ms, p), NEW m \in Spoken
  PROVE  Conversation(Pushed(ms, m), p)
<1> DEFINE all == Append(ms, m)
<1>1. ms \in Seq(Message) /\ Len(ms) \in Nat /\ Len(ms) <= MaxMessages /\ MaxMessages \in Nat /\ MaxMessages > 0
  BY WindowAssumption DEF Conversation
<1>2. m \in Message /\ m.role # "system" BY DEF Spoken
<1>3. /\ all \in Seq(Message) /\ Len(all) = Len(ms) + 1
      /\ \A i \in 1 .. Len(ms) : all[i] = ms[i]
      /\ all[Len(ms) + 1] = m
  BY <1>1, <1>2
<1> HIDE DEF all
<1>4. HasPrompt(all) <=> HasPrompt(ms)
  <2>1. CASE Len(ms) = 0
    <3>1. ms = <<>> /\ all[1] = m BY <1>1, <1>3, <2>1
    <3> QED BY <1>2, <3>1 DEF HasPrompt
  <2>2. CASE Len(ms) > 0
    <3>1. ms # <<>> /\ all # <<>> /\ all[1] = ms[1] BY <1>1, <1>3, <2>2
    <3> QED BY <3>1 DEF HasPrompt
  <2> QED BY <1>1, <2>1, <2>2
<1>5. \A i \in 2 .. Len(all) : all[i].role # "system"
  <2> SUFFICES ASSUME NEW i \in 2 .. Len(all) PROVE all[i].role # "system" OBVIOUS
  <2>1. CASE i <= Len(ms) BY <1>1, <1>3, <2>1 DEF Conversation
  <2>2. CASE i > Len(ms)
    <3>1. i = Len(ms) + 1 BY <1>1, <1>3, <2>2
    <3> QED BY <1>2, <1>3, <3>1
  <2> QED BY <1>1, <2>1, <2>2
<1>6. HasPrompt(all) => all[1] = System(p)
  <2>1. HasPrompt(ms) => Len(ms) > 0 BY <1>1 DEF HasPrompt
  <2> QED BY <1>1, <1>3, <1>4, <2>1 DEF Conversation
<1>7. CASE Len(all) <= MaxMessages
  <2>1. Pushed(ms, m) = all BY <1>1, <1>3, <1>7 DEF Pushed, Trimmed, all
  <2> QED BY <1>3, <1>4, <1>5, <1>6, <1>7, <2>1 DEF Conversation
<1>8. CASE Len(all) > MaxMessages
  <2>1. Pushed(ms, m) = DropOldest(all) BY <1>8 DEF Pushed, Trimmed, all
  <2>2. Len(all) = MaxMessages + 1 BY <1>1, <1>3, <1>8
  <2>3. CASE HasPrompt(all)
    <3> DEFINE new == <<all[1]>> \o SubSeq(all, 3, Len(all))
    <3>1. DropOldest(all) = new BY <1>1, <2>2, <2>3 DEF DropOldest
    <3>2. Len(all) >= 2 /\ new = <<all[1]>> \o SubSeq(all, 3, Len(all)) BY <1>1, <2>2
    <3> HIDE DEF new
    <3>3. /\ new \in Seq(Message) /\ Len(new) = Len(all) - 1 /\ new[1] = all[1]
          /\ \A i \in 2 .. Len(new) : i + 1 \in 2 .. Len(all) /\ new[i] = all[i + 1]
      BY <1>3, <3>2, SecondDropped
    <3>4. HasPrompt(new)
      <4>1. new # <<>> BY <1>1, <2>2, <3>3
      <4> QED BY <2>3, <3>3, <4>1 DEF HasPrompt
    <3>5. Len(new) <= MaxMessages BY <1>1, <2>2, <3>3
    <3>6. \A i \in 2 .. Len(new) : new[i].role # "system" BY <1>5, <3>3
    <3>7. Conversation(new, p) BY <1>4, <1>6, <2>3, <3>3, <3>4, <3>5, <3>6 DEF Conversation
    <3> QED BY <2>1, <3>1, <3>7
  <2>4. CASE ~HasPrompt(all)
    <3> DEFINE new == Tail(all)
    <3>1. DropOldest(all) = new BY <2>4 DEF DropOldest
    <3>2. /\ new \in Seq(Message) /\ Len(new) = Len(all) - 1
          /\ \A i \in 1 .. Len(new) : i + 1 \in 2 .. Len(all) /\ new[i] = all[i + 1]
      BY <1>1, <1>3, <2>2
    <3> HIDE DEF new
    <3>3. \A i \in 1 .. Len(new) : new[i].role # "system" BY <1>5, <3>2
    <3>4. ~HasPrompt(new)
      <4>1. new # <<>> => 1 \in 1 .. Len(new) BY <3>2
      <4> QED BY <3>3, <4>1 DEF HasPrompt
    <3>5. Len(new) <= MaxMessages /\ Len(new) \in Nat BY <1>1, <2>2, <3>2
    <3>6. Conversation(new, p)
      <4>1. p = NoPrompt BY <1>4, <2>4 DEF Conversation
      <4>2. \A i \in 2 .. Len(new) : new[i].role # "system" BY <3>3, <3>5
      <4> QED BY <3>2, <3>4, <3>5, <4>1, <4>2 DEF Conversation
    <3> QED BY <2>1, <3>1, <3>6
  <2> QED BY <2>3, <2>4
<1> QED BY <1>1, <1>3, <1>7, <1>8

\* A new memory begins with the prompt.
LEMMA PromptedIs ==
  ASSUME NEW p \in Prompts \cup {NoPrompt}
  PROVE  Conversation(Prompted(<<>>, p), p)
<1>1. ~HasPrompt(<<>>) /\ Len(<<>>) = 0 /\ <<>> \in Seq(Message) BY DEF HasPrompt
<1>2. CASE p = NoPrompt
  <2> DEFINE new == <<>>
  <2>1. Prompted(<<>>, p) = new BY <1>2 DEF Prompted
  <2>2. ~HasPrompt(new) /\ Len(new) = 0 /\ new \in Seq(Message) BY <1>1
  <2> HIDE DEF new
  <2>3. Conversation(new, p)
    <3>1. 2 .. Len(new) = {} BY <2>2
    <3> QED BY <1>2, <2>2, <3>1, WindowAssumption DEF Conversation
  <2> QED BY <2>1, <2>3
<1>3. CASE p # NoPrompt
  <2> DEFINE new == <<System(p)>>
  <2>1. new \in Seq(Message) /\ Len(new) = 1 /\ new[1] = System(p) /\ new # <<>> BY PromptMessage
  <2>2. Prompted(<<>>, p) = Trimmed(new \o <<>>) BY <1>1, <1>3 DEF Prompted
  <2>3. new \o <<>> = new OBVIOUS
  <2>4. Trimmed(new) = new BY <2>1, WindowAssumption DEF Trimmed
  <2> HIDE DEF new
  <2>5. HasPrompt(new) BY <2>1, PromptMessage DEF HasPrompt
  <2>6. Conversation(new, p) BY <1>3, <2>1, <2>5, WindowAssumption DEF Conversation
  <2> QED BY <2>2, <2>3, <2>4, <2>6
<1> QED BY <1>2, <1>3

\* A new prompt takes the place of the old one, whichever of them there is.
LEMMA RepromptedIs ==
  ASSUME NEW p, NEW q \in Prompts \cup {NoPrompt}, NEW ms, Conversation(ms, p)
  PROVE  Conversation(Reprompted(ms, q), q)
<1>1. ms \in Seq(Message) /\ Len(ms) \in Nat /\ Len(ms) <= MaxMessages /\ MaxMessages \in Nat /\ MaxMessages > 0
  BY WindowAssumption DEF Conversation
<1>2. \A i \in 2 .. Len(ms) : ms[i].role # "system" BY DEF Conversation
<1>3. System(q) \in Message /\ System(q).role = "system" BY PromptMessage
<1>4. CASE q # NoPrompt /\ HasPrompt(ms)
  <2> DEFINE new == [ms EXCEPT ![1] = System(q)]
  <2>1. Reprompted(ms, q) = new BY <1>4 DEF Reprompted
  <2>2. Len(ms) >= 1 BY <1>1, <1>4 DEF HasPrompt
  <2>3. /\ new \in Seq(Message) /\ Len(new) = Len(ms) /\ new[1] = System(q)
        /\ \A i \in 2 .. Len(ms) : new[i] = ms[i]
    BY <1>1, <1>3, <2>2
  <2> HIDE DEF new
  <2>4. new # <<>> BY <2>2, <2>3
  <2>5. HasPrompt(new) BY <1>3, <2>3, <2>4 DEF HasPrompt
  <2>6. Conversation(new, q) BY <1>1, <1>2, <1>4, <2>3, <2>5 DEF Conversation
  <2> QED BY <2>1, <2>6
<1>5. CASE q # NoPrompt /\ ~HasPrompt(ms)
  <2> DEFINE all == <<System(q)>> \o ms
  <2>1. Reprompted(ms, q) = Trimmed(all) BY <1>5 DEF Reprompted
  <2>2. /\ all \in Seq(Message) /\ Len(all) = Len(ms) + 1 /\ all[1] = System(q)
        /\ \A i \in 2 .. Len(all) : i - 1 \in 1 .. Len(ms) /\ all[i] = ms[i - 1]
    BY <1>1, <1>3
  <2>3. \A i \in 1 .. Len(ms) : ms[i].role # "system"
    <3> SUFFICES ASSUME NEW i \in 1 .. Len(ms) PROVE ms[i].role # "system" OBVIOUS
    <3>1. CASE i = 1
      <4>1. ms # <<>> BY <1>1
      <4> QED BY <1>5, <3>1, <4>1 DEF HasPrompt
    <3>2. CASE i # 1
      <4>1. i \in 2 .. Len(ms) BY <1>1, <3>2
      <4> QED BY <1>2, <4>1
    <3> QED BY <3>1, <3>2
  <2> HIDE DEF all
  <2>4. \A i \in 2 .. Len(all) : all[i].role # "system" BY <2>2, <2>3
  <2>5. HasPrompt(all)
    <3>1. all # <<>> BY <1>1, <2>2
    <3> QED BY <1>3, <2>2, <3>1 DEF HasPrompt
  <2>6. CASE Len(all) <= MaxMessages
    <3>1. Trimmed(all) = all BY <1>1, <2>2, <2>6 DEF Trimmed
    <3> QED BY <1>5, <2>1, <2>2, <2>4, <2>5, <2>6, <3>1 DEF Conversation
  <2>7. CASE Len(all) > MaxMessages
    <3> DEFINE new == <<all[1]>> \o SubSeq(all, 3, Len(all))
    <3>1. Len(all) = MaxMessages + 1 BY <1>1, <2>2, <2>7
    <3>2. Trimmed(all) = new BY <1>1, <2>5, <2>7, <3>1 DEF Trimmed, DropOldest
    <3>3. Len(all) >= 2 /\ new = <<all[1]>> \o SubSeq(all, 3, Len(all)) BY <1>1, <3>1
    <3> HIDE DEF new
    <3>4. /\ new \in Seq(Message) /\ Len(new) = Len(all) - 1 /\ new[1] = all[1]
          /\ \A i \in 2 .. Len(new) : i + 1 \in 2 .. Len(all) /\ new[i] = all[i + 1]
      BY <2>2, <3>3, SecondDropped
    <3>5. HasPrompt(new)
      <4>1. new # <<>> BY <1>1, <3>1, <3>4
      <4> QED BY <1>3, <2>2, <3>4, <4>1 DEF HasPrompt
    <3>6. Len(new) <= MaxMessages BY <1>1, <3>1, <3>4
    <3>7. \A i \in 2 .. Len(new) : new[i].role # "system" BY <2>4, <3>4
    <3> QED BY <1>5, <2>1, <2>2, <3>2, <3>4, <3>5, <3>6, <3>7 DEF Conversation
  <2> QED BY <1>1, <2>2, <2>6, <2>7
<1>6. CASE q = NoPrompt /\ HasPrompt(ms)
  <2> DEFINE new == Tail(ms)
  <2>1. Reprompted(ms, q) = new BY <1>6 DEF Reprompted
  <2>2. Len(ms) >= 1 BY <1>1, <1>6 DEF HasPrompt
  <2>3. /\ new \in Seq(Message) /\ Len(new) = Len(ms) - 1
        /\ \A i \in 1 .. Len(new) : i + 1 \in 2 .. Len(ms) /\ new[i] = ms[i + 1]
    BY <1>1, <2>2
  <2> HIDE DEF new
  <2>4. \A i \in 1 .. Len(new) : new[i].role # "system" BY <1>2, <2>3
  <2>5. ~HasPrompt(new)
    <3>1. new # <<>> => 1 \in 1 .. Len(new) BY <2>3
    <3> QED BY <2>4, <3>1 DEF HasPrompt
  <2>6. \A i \in 2 .. Len(new) : new[i].role # "system" BY <1>1, <2>3, <2>4
  <2>7. Len(new) <= MaxMessages BY <1>1, <2>3
  <2> QED BY <1>6, <2>1, <2>3, <2>5, <2>6, <2>7 DEF Conversation
<1>7. CASE q = NoPrompt /\ ~HasPrompt(ms)
  <2>1. Reprompted(ms, q) = ms BY <1>7 DEF Reprompted
  <2> QED BY <1>1, <1>2, <1>7, <2>1 DEF Conversation
<1> QED BY <1>4, <1>5, <1>6, <1>7

----
(* The inductive invariant *)

Typed ==
  /\ turn \in 0 .. MaxTurns /\ holder \in 0 .. turn
  /\ status \in [Turns -> {"none", "waiting", "active"} \cup Outcomes]
  /\ pc \in {"idle", "call", "request", "stream", "tools"} \cup Outcomes
  /\ cancelled \subseteq 1 .. turn /\ llmFlag \in BOOLEAN
  /\ rounds \in 0 .. MaxRounds /\ attempt \in 0 .. Attempts
  /\ heard \subseteq Nat /\ own \subseteq Nat /\ IsFiniteSet(own) /\ Cardinality(own) <= MaxPieces
  /\ pending \in 0 .. MaxToolCalls
  /\ loaded \in BOOLEAN /\ attached \in BOOLEAN
  /\ prompt \in Prompts \cup {NoPrompt} /\ reloads \in 0 .. MaxReloads
  /\ spoken \in [Turns -> Nat]

\* Whoever holds the mutex is in handle_turn, and nobody else.
LockInv ==
  /\ \A t \in Turns : status[t] = "active" <=> holder = t
  /\ \A t \in Turns : status[t] = "none" <=> t > turn
  /\ pc = "idle" <=> holder = 0

\* The rounds of a turn: a request is sent only when one is left, and begins without
\* text, whatever attempts went before it.
RoundInv ==
  /\ heard = own
  /\ pc = "idle" => rounds = 0
  /\ pc = "request" => own = {}
  /\ pc \in {"request", "stream", "tools"} => rounds < MaxRounds
  /\ pc = "tools" => pending > 0

\* The pieces of text that r whole rounds may say.
Room(r) == r * MaxPieces

\* What the turn under way may have said up to now.
Allowed == IF pc = "call" THEN Room(rounds) ELSE Room(rounds) + Cardinality(own)

SpokenInv ==
  /\ \A t \in Turns : spoken[t] <= Room(MaxRounds)
  /\ \A t \in Turns : status[t] \in {"none", "waiting"} => spoken[t] = 0
  /\ pc \in {"call", "request", "stream", "tools"} => spoken[holder] <= Allowed
  /\ pc \in {"request", "stream", "tools"} => \A p \in own : p <= spoken[holder]

\* What the agent remembers, from the first use of the memory on.
RecallInv ==
  /\ loaded => Conversation(messages, prompt)
  /\ ~loaded => messages = <<>> /\ stored = <<>>
  /\ BackendInStep

IInv == Typed /\ LockInv /\ RoundInv /\ SpokenInv /\ RecallInv

----
(* Type, mutex and rounds *)

Control == Typed /\ LockInv /\ RoundInv

LEMMA InitControl == Init => Control
<1> SUFFICES ASSUME Init PROVE Control OBVIOUS
<1> USE AgentAssumption DEF Init, Turns
<1>1. Typed
  <2>1. spoken \in [Turns -> Nat] /\ status \in [Turns -> {"none", "waiting", "active"} \cup Outcomes] OBVIOUS
  <2>2. 0 \in 0 .. MaxTurns /\ 0 \in 0 .. 0 /\ 0 \in 0 .. MaxRounds /\ 0 \in 0 .. Attempts OBVIOUS
  <2>3. IsFiniteSet({}) /\ Cardinality({}) <= MaxPieces BY FS_EmptySet
  <2>4. 0 \in 0 .. MaxToolCalls /\ 0 \in 0 .. MaxReloads OBVIOUS
  <2> QED BY <2>1, <2>2, <2>3, <2>4 DEF Typed
<1>2. LockInv BY DEF LockInv
<1>3. RoundInv BY DEF RoundInv
<1> QED BY <1>1, <1>2, <1>3 DEF Control

\* The steps of other tasks leave the turn under way alone.
LEMMA OthersKeepControl ==
  ASSUME Control, TriggerAgent \/ CancelTurn \/ \E p \in Prompts \cup {NoPrompt} : ReloadConfig(p)
  PROVE  Control'
<1> USE AgentAssumption DEF Control, Typed, LockInv, RoundInv, Turns, call, memory, config, control
<1>1. CASE TriggerAgent
  <2>1. /\ turn' \in 0 .. MaxTurns /\ holder' \in 0 .. turn' /\ cancelled' \subseteq 1 .. turn'
        /\ turn' = turn + 1 /\ turn + 1 \in Turns
    BY <1>1 DEF TriggerAgent
  <2>2. /\ status' \in [Turns -> {"none", "waiting", "active"} \cup Outcomes]
        /\ \A t \in Turns : status'[t] = IF t = turn + 1 THEN "waiting" ELSE status[t]
    BY <1>1 DEF TriggerAgent
  <2>3. UNCHANGED <<holder, pc, cancelled, llmFlag, call, memory, config, spoken>> BY <1>1 DEF TriggerAgent
  <2>4. Typed' BY <2>1, <2>2, <2>3
  <2>5. LockInv' BY <2>1, <2>2, <2>3
  <2>6. RoundInv' BY <2>3
  <2> QED BY <2>4, <2>5, <2>6
<1>2. CASE CancelTurn
  <2>1. cancelled' \subseteq 1 .. turn BY <1>2 DEF CancelTurn
  <2> QED BY <1>2, <2>1 DEF CancelTurn
<1>3. ASSUME NEW p \in Prompts \cup {NoPrompt}, ReloadConfig(p) PROVE Control'
  <2>1. loaded' \in BOOLEAN /\ attached' \in BOOLEAN BY <1>3 DEF ReloadConfig, Remember
  <2>2. reloads' \in 0 .. MaxReloads /\ prompt' = p BY <1>3 DEF ReloadConfig
  <2>3. UNCHANGED <<control, pc, llmFlag, call, spoken>> BY <1>3 DEF ReloadConfig
  <2> QED BY <2>1, <2>2, <2>3
<1> QED BY <1>1, <1>2, <1>3

\* A step of the turn that holds the mutex, in terms of what it changes.
LEMMA HolderKeepsControl ==
  ASSUME Control, NEW from, NEW to, Goes(from, to), to # "idle", from # "idle",
         to \in {"call", "request", "stream", "tools"} \cup Outcomes,
         llmFlag' \in BOOLEAN, loaded' \in BOOLEAN, attached' \in BOOLEAN,
         rounds' \in 0 .. MaxRounds, attempt' \in 0 .. Attempts,
         own' \subseteq Nat, IsFiniteSet(own'), Cardinality(own') <= MaxPieces, heard' = own', pending' \in 0 .. MaxToolCalls,
         spoken' \in [Turns -> Nat],
         to = "request" => own' = {},
         to \in {"request", "stream", "tools"} => rounds' < MaxRounds,
         to = "tools" => pending' > 0
  PROVE  Control'
<1> USE DEF Control, Goes, control, config
<1>1. Typed' BY DEF Typed
<1>2. LockInv' BY DEF LockInv
<1>3. RoundInv' BY DEF RoundInv
<1> QED BY <1>1, <1>2, <1>3

\* The memory's flags, whatever is pushed.
LEMMA RememberTyped == ASSUME NEW ms, Remember(ms) PROVE loaded' = TRUE /\ attached' \in BOOLEAN
BY DEF Remember

LEMMA TurnKeepsControl ==
  ASSUME Control, (\E t \in Turns : AgentLock(t)) \/ HandleTurn
  PROVE  Control'
<1> USE AgentAssumption
<1>1. ASSUME NEW t \in Turns, AgentLock(t) PROVE Control'
  <2>1. /\ status' \in [Turns -> {"none", "waiting", "active"} \cup Outcomes]
        /\ \A u \in Turns : status'[u] = IF u = t THEN "active" ELSE status[u]
    BY <1>1 DEF AgentLock, Control, Typed
  <2>2. /\ holder = 0 /\ status[t] = "waiting" /\ holder' = t /\ pc' = "call"
        /\ UNCHANGED <<turn, cancelled, llmFlag, call, config, spoken>>
    BY <1>1 DEF AgentLock
  <2>3. loaded' \in BOOLEAN /\ attached' \in BOOLEAN BY <1>1, RememberTyped DEF AgentLock, Push
  <2>4. t \in 1 .. turn
    <3>1. ~(t > turn) BY <2>2 DEF Control, LockInv
    <3> QED BY <3>1 DEF Control, Typed, Turns
  <2>5. Typed' BY <2>1, <2>2, <2>3, <2>4 DEF Control, Typed, call, config
  <2>6. LockInv' BY <2>1, <2>2, <2>4 DEF Control, LockInv, Turns
  <2>7. RoundInv' BY <2>2 DEF Control, RoundInv, LockInv, call
  <2> QED BY <2>5, <2>6, <2>7 DEF Control
<1>2. CASE CallLlm
  <2> USE DEF Control, Typed, RoundInv, Outcomes, call, memory
  <2>1. CASE Goes("call", "exhausted") /\ UNCHANGED <<llmFlag, call, memory, spoken>>
    BY <2>1, HolderKeepsControl
  <2>2. CASE Goes("call", "cancelled") /\ llmFlag' \in {FALSE, llmFlag} /\ UNCHANGED <<call, memory, spoken>>
    BY <2>2, HolderKeepsControl
  <2>3. CASE /\ Goes("call", "request") /\ rounds < MaxRounds /\ llmFlag' = FALSE
             /\ attempt' = 1 /\ heard' = {} /\ own' = {}
             /\ UNCHANGED <<rounds, pending, memory, spoken>>
    <3>1. rounds' \in 0 .. MaxRounds /\ attempt' \in 0 .. Attempts BY <2>3
    <3>2. own' \subseteq Nat /\ IsFiniteSet(own') /\ Cardinality(own') <= MaxPieces /\ heard' = own'
      BY <2>3, FS_EmptySet
    <3>4. pending' \in 0 .. MaxToolCalls BY <2>3
    <3>3. loaded' \in BOOLEAN /\ attached' \in BOOLEAN BY <2>3
    <3> QED BY <2>3, <3>1, <3>2, <3>3, <3>4, HolderKeepsControl
  <2> QED BY <1>2, <2>1, <2>2, <2>3 DEF CallLlm
<1>3. CASE RequestFails
  <2> USE DEF Control, Typed, RoundInv, Outcomes, call, memory
  <2>1. CASE /\ Goes("request", "request") /\ attempt < Attempts
             /\ attempt' = attempt + 1 /\ own' = {} /\ llmFlag' = FALSE
             /\ UNCHANGED <<rounds, heard, pending, memory, spoken>>
    <3>1. rounds < MaxRounds /\ heard = {} BY <2>1 DEF Goes
    <3>2. attempt' \in 0 .. Attempts BY <2>1
    <3>3. IsFiniteSet(own') /\ Cardinality(own') <= MaxPieces BY <2>1, FS_EmptySet
    <3> QED BY <2>1, <3>1, <3>2, <3>3, HolderKeepsControl
  <2>2. CASE Goes("request", "failed") /\ UNCHANGED <<llmFlag, call, memory, spoken>>
    BY <2>2, HolderKeepsControl
  <2> QED BY <1>3, <2>1, <2>2 DEF RequestFails
<1>4. CASE StreamStarts
  <2> USE DEF Control, Typed, RoundInv, Outcomes, call, memory
  <2>1. Goes("request", "stream") /\ UNCHANGED <<llmFlag, call, memory, spoken>> BY <1>4 DEF StreamStarts
  <2>2. rounds < MaxRounds BY <2>1 DEF Goes
  <2> QED BY <2>1, <2>2, HolderKeepsControl
<1>5. CASE Piece
  <2> USE DEF Control, Typed, RoundInv, Outcomes, memory
  <2>1. /\ Goes("stream", "stream") /\ Cardinality(own) < MaxPieces
        /\ own' = own \cup {spoken[holder] + 1} /\ heard' = heard \cup {spoken[holder] + 1}
        /\ spoken' = [spoken EXCEPT ![holder] = @ + 1]
        /\ UNCHANGED <<llmFlag, rounds, attempt, pending, memory>>
    BY <1>5 DEF Piece
  <2>2. rounds < MaxRounds BY <2>1 DEF Goes
  <2>3. own' \subseteq Nat /\ IsFiniteSet(own') /\ Cardinality(own') <= MaxPieces /\ heard' = own'
    <3>1. holder \in Turns BY <2>1 DEF Goes, Turns
    <3>2. spoken[holder] + 1 \in Nat BY <3>1
    <3>3. own' \subseteq Nat /\ heard' = own' BY <2>1, <3>2
    <3>4. PICK x : own' = own \cup {x} BY <2>1
    <3>5. /\ IsFiniteSet(own')
          /\ Cardinality(own') = IF x \in own THEN Cardinality(own) ELSE Cardinality(own) + 1
      BY <3>4, FS_AddElement
    <3>6. Cardinality(own) \in Nat BY FS_CardinalityType
    <3> QED BY <2>1, <3>3, <3>5, <3>6
  <2>4. spoken' \in [Turns -> Nat]
    <3>1. \A u \in Turns : spoken[u] \in Nat /\ spoken[u] + 1 \in Nat OBVIOUS
    <3> QED BY <2>1, <3>1
  <2> QED BY <2>1, <2>2, <2>3, <2>4, HolderKeepsControl
<1>6. CASE StreamBreaks
  <2> USE DEF Control, Typed, RoundInv, Outcomes, call, memory
  <2>1. Goes("stream", "failed") /\ UNCHANGED <<llmFlag, call, memory, spoken>> BY <1>6 DEF StreamBreaks
  <2> QED BY <2>1, HolderKeepsControl
<1>7. CASE Answered
  <2> USE DEF Control, Typed, RoundInv, Outcomes, call
  <2>1. Goes("stream", "answered") /\ UNCHANGED <<llmFlag, call, spoken>> BY <1>7 DEF Answered
  <2>2. loaded' \in BOOLEAN /\ attached' \in BOOLEAN BY <1>7, RememberTyped DEF Answered, Push
  <2> QED BY <2>1, <2>2, HolderKeepsControl
<1>8. ASSUME NEW n \in 1 .. MaxToolCalls, CallsTools(n) PROVE Control'
  <2> USE DEF Control, Typed, RoundInv, Outcomes
  <2>1. /\ Goes("stream", "tools") /\ pending' = n
        /\ UNCHANGED <<llmFlag, rounds, attempt, heard, own, spoken>>
    BY <1>8 DEF CallsTools
  <2>2. loaded' \in BOOLEAN /\ attached' \in BOOLEAN BY <1>8, RememberTyped DEF CallsTools, Push
  <2>3. rounds < MaxRounds BY <2>1 DEF Goes
  <2>4. pending' \in 0 .. MaxToolCalls /\ pending' > 0 BY <2>1
  <2> QED BY <2>1, <2>2, <2>3, <2>4, HolderKeepsControl
<1>9. CASE Interrupted
  <2> USE DEF Control, Typed, RoundInv, Outcomes, call
  <2>1. /\ Goes("request", "cancelled") \/ Goes("stream", "cancelled")
        /\ UNCHANGED <<llmFlag, call, spoken>>
    BY <1>9 DEF Interrupted
  <2>2. loaded' \in BOOLEAN /\ attached' \in BOOLEAN
    <3>1. CASE heard # {} BY <1>9, <3>1, RememberTyped DEF Interrupted, KeepHeard, Push
    <3>2. CASE ~(heard # {}) BY <1>9, <3>2 DEF Interrupted, KeepHeard, memory
    <3> QED BY <3>1, <3>2
  <2>3. CASE Goes("request", "cancelled") BY <2>1, <2>2, <2>3, HolderKeepsControl
  <2>4. CASE Goes("stream", "cancelled") BY <2>1, <2>2, <2>4, HolderKeepsControl
  <2> QED BY <2>1, <2>3, <2>4
<1>10. CASE ToolReturns
  <2> USE DEF Control, Typed, RoundInv, Outcomes
  <2>1. /\ Goes("tools", IF pending = 1 THEN "call" ELSE "tools")
        /\ pending' = pending - 1
        /\ rounds' = IF pending = 1 THEN rounds + 1 ELSE rounds
        /\ UNCHANGED <<llmFlag, attempt, heard, own, spoken>>
    BY <1>10 DEF ToolReturns
  <2>2. loaded' \in BOOLEAN /\ attached' \in BOOLEAN BY <1>10, RememberTyped DEF ToolReturns, Push
  <2>3. rounds < MaxRounds /\ pending > 0 BY <2>1 DEF Goes
  <2>4. CASE pending = 1
    <3>1. Goes("tools", "call") BY <2>1, <2>4
    <3>2. rounds' \in 0 .. MaxRounds /\ pending' \in 0 .. MaxToolCalls BY <2>1, <2>3, <2>4
    <3> QED BY <2>1, <2>2, <3>1, <3>2, HolderKeepsControl
  <2>5. CASE pending # 1
    <3>1. Goes("tools", "tools") BY <2>1, <2>5
    <3>2. rounds' = rounds /\ pending' \in 0 .. MaxToolCalls /\ pending' > 0 BY <2>1, <2>3, <2>5
    <3> QED BY <2>1, <2>2, <2>3, <3>1, <3>2, HolderKeepsControl
  <2> QED BY <2>4, <2>5
<1>11. CASE TurnEnds
  <2>1. /\ holder # 0 /\ pc \in Outcomes /\ holder' = 0 /\ pc' = "idle"
        /\ rounds' = 0 /\ attempt' = 0 /\ heard' = {} /\ own' = {} /\ pending' = 0
        /\ status' = [status EXCEPT ![holder] = pc]
        /\ UNCHANGED <<turn, cancelled, llmFlag, memory, config, spoken>>
    BY <1>11 DEF TurnEnds
  <2>2. /\ status' \in [Turns -> {"none", "waiting", "active"} \cup Outcomes]
        /\ \A u \in Turns : status'[u] = IF u = holder THEN pc ELSE status[u]
    BY <2>1 DEF Control, Typed
  <2>3. holder \in Turns /\ holder <= turn BY <2>1 DEF Control, Typed, Turns
  <2>4. Typed' BY <2>1, <2>2, FS_EmptySet DEF Control, Typed, memory, config
  <2>5. LockInv' BY <2>1, <2>2, <2>3 DEF Control, Typed, LockInv, Turns, Outcomes
  <2>6. RoundInv' BY <2>1 DEF RoundInv
  <2> QED BY <2>4, <2>5, <2>6 DEF Control
<1> QED BY <1>1, <1>2, <1>3, <1>4, <1>5, <1>6, <1>7, <1>8, <1>9, <1>10, <1>11 DEF HandleTurn

LEMMA StepKeepsControl == Control /\ [Next]_vars => Control'
<1> SUFFICES ASSUME Control, [Next]_vars PROVE Control' OBVIOUS
<1>1. CASE UNCHANGED vars
  BY <1>1 DEF vars, control, call, memory, config, Control, Typed, LockInv, RoundInv
<1> QED BY <1>1, OthersKeepControl, TurnKeepsControl DEF Next

----
(* What a turn says *)

LEMMA RoomGrows ==
  /\ \A r \in Nat : Room(r) \in Nat /\ Room(r + 1) = Room(r) + MaxPieces
  /\ \A r \in Nat : r <= MaxRounds => Room(r) <= Room(MaxRounds)
<1>1. \A r, m \in Nat : r * m \in Nat /\ (r + 1) * m = r * m + m OBVIOUS
<1>2. \A r, d, m \in Nat : r * m <= (r + d) * m
  <2> SUFFICES ASSUME NEW r \in Nat, NEW d \in Nat, NEW m \in Nat PROVE r * m <= (r + d) * m OBVIOUS
  <2>1. (r + d) * m = r * m + d * m OBVIOUS
  <2>2. r * m \in Nat /\ d * m \in Nat OBVIOUS
  <2> QED BY <2>1, <2>2
<1>3. ASSUME NEW r \in Nat, r <= MaxRounds PROVE Room(r) <= Room(MaxRounds)
  <2>1. MaxRounds - r \in Nat /\ MaxRounds = r + (MaxRounds - r) BY <1>3, AgentAssumption
  <2>2. r * MaxPieces <= (r + (MaxRounds - r)) * MaxPieces BY <1>2, <2>1, AgentAssumption
  <2> QED BY <2>1, <2>2 DEF Room
<1> QED BY <1>1, <1>3, AgentAssumption DEF Room

LEMMA InitSpoken == Init => SpokenInv
<1> SUFFICES ASSUME Init PROVE SpokenInv OBVIOUS
<1>1. Room(MaxRounds) \in Nat BY RoomGrows, AgentAssumption
<1> QED BY <1>1 DEF Init, SpokenInv

\* A response that begins leaves room for the rest of its round: a request is sent only
\* when a round is left, and a retry only before the first piece.
LEMMA RoomLeft ==
  ASSUME Control, SpokenInv, pc = "stream", Cardinality(own) < MaxPieces
  PROVE  holder \in Turns /\ spoken[holder] < Room(MaxRounds)
<1>1. rounds \in Nat /\ rounds + 1 <= MaxRounds BY AgentAssumption DEF Control, Typed, RoundInv
<1>2. Room(rounds) \in Nat /\ Room(rounds + 1) = Room(rounds) + MaxPieces /\ Room(rounds + 1) <= Room(MaxRounds)
  BY <1>1, RoomGrows
<1>3. Room(MaxRounds) \in Nat BY RoomGrows, AgentAssumption
<1>4. holder \in Turns BY AgentAssumption DEF Control, Typed, LockInv, Turns
<1>5. spoken[holder] <= Room(rounds) + Cardinality(own) BY DEF SpokenInv, Allowed
<1>6. spoken[holder] \in Nat /\ Cardinality(own) \in Nat /\ MaxPieces \in Nat
  BY <1>4, AgentAssumption, FS_CardinalityType DEF Control, Typed
<1> QED BY <1>2, <1>3, <1>4, <1>5, <1>6

LEMMA StepKeepsSpoken == Control /\ SpokenInv /\ [Next]_vars => SpokenInv'
<1> SUFFICES ASSUME Control, SpokenInv, [Next]_vars PROVE SpokenInv' OBVIOUS
<1> DEFINE room == Room(MaxRounds)
<1>1. room' = room BY DEF Room
<1>2. CASE UNCHANGED vars
  BY <1>2 DEF vars, control, call, memory, config, SpokenInv, Allowed, Room
<1>3. CASE TriggerAgent
  <2>1. /\ \A t \in Turns : status'[t] = IF t = turn + 1 THEN "waiting" ELSE status[t]
        /\ \A t \in Turns : t = turn + 1 => status[t] = "none"
    BY <1>3 DEF TriggerAgent, Control, Typed, LockInv, Turns
  <2> QED BY <1>3, <2>1 DEF TriggerAgent, SpokenInv, Allowed, Room, call
<1>4. CASE CancelTurn BY <1>4 DEF CancelTurn, SpokenInv, Allowed, Room, call
<1>5. ASSUME NEW p, ReloadConfig(p) PROVE SpokenInv'
  BY <1>5 DEF ReloadConfig, SpokenInv, Allowed, Room, call, control
<1>6. ASSUME NEW t \in Turns, AgentLock(t) PROVE SpokenInv'
  <2>1. /\ status[t] = "waiting" /\ holder = 0 /\ holder' = t /\ pc' = "call"
        /\ status' = [status EXCEPT ![t] = "active"] /\ UNCHANGED <<call, spoken>>
    BY <1>6 DEF AgentLock
  <2>2. \A u \in Turns : status'[u] = IF u = t THEN "active" ELSE status[u]
    BY <2>1 DEF Control, Typed
  <2>3. rounds \in Nat BY AgentAssumption DEF Control, Typed
  <2>4. Room(rounds) \in Nat BY <2>3, RoomGrows
  <2>5. spoken[t] = 0 BY <2>1 DEF SpokenInv
  <2>6. spoken'[holder'] <= Allowed' BY <2>1, <2>4, <2>5 DEF Allowed, Room, call
  <2> QED BY <2>1, <2>2, <2>6 DEF SpokenInv, Room
<1>7. CASE CallLlm
  <2>1. UNCHANGED <<status, holder, spoken, rounds>> /\ pc = "call" BY <1>7 DEF CallLlm, Goes, control, call
  <2>2. pc' = "request" => own' = {} BY <1>7 DEF CallLlm, Goes
  <2>3. pc' \in {"request", "exhausted", "cancelled"} BY <1>7 DEF CallLlm, Goes
  <2>4. Room(rounds) + 0 = Room(rounds)
    <3>1. rounds \in Nat BY AgentAssumption DEF Control, Typed
    <3> QED BY <3>1, RoomGrows
  <2>5. pc' = "request" => Allowed' = Allowed
    <3>1. Cardinality({}) = 0 BY FS_EmptySet
    <3> QED BY <2>1, <2>2, <2>4, <3>1 DEF Allowed, Room
  <2> QED BY <2>1, <2>2, <2>3, <2>5 DEF SpokenInv, Room
<1>8. CASE RequestFails
  <2>1. UNCHANGED <<status, holder, spoken, rounds>> /\ pc = "request"
    BY <1>8 DEF RequestFails, Goes, control, call
  <2>2. pc' \in {"request", "failed"} BY <1>8 DEF RequestFails, Goes
  <2>3. pc' = "request" => own' = own BY <1>8 DEF RequestFails, Goes, Control, RoundInv
  <2>4. pc' = "request" => Allowed' = Allowed BY <2>1, <2>3 DEF Allowed, Room
  <2> QED BY <2>1, <2>2, <2>3, <2>4 DEF SpokenInv, Room
<1>9. CASE StreamStarts
  BY <1>9 DEF StreamStarts, Goes, control, call, SpokenInv, Allowed, Room
<1>10. CASE Piece
  <2>1. /\ pc = "stream" /\ pc' = "stream" /\ Cardinality(own) < MaxPieces
        /\ own' = own \cup {spoken[holder] + 1}
        /\ spoken' = [spoken EXCEPT ![holder] = @ + 1] /\ UNCHANGED <<status, holder, rounds>>
    BY <1>10 DEF Piece, Goes, control
  <2>2. holder \in Turns /\ spoken[holder] < Room(MaxRounds) BY <2>1, RoomLeft
  <2>3. \A t \in Turns : spoken'[t] = IF t = holder THEN spoken[t] + 1 ELSE spoken[t]
    BY <2>1, <2>2 DEF Control, Typed
  <2>4. /\ spoken[holder] \in Nat /\ Cardinality(own) \in Nat /\ Room(rounds) \in Nat /\ Room(MaxRounds) \in Nat
    <3>1. rounds \in Nat BY AgentAssumption DEF Control, Typed
    <3> QED BY <2>2, <3>1, RoomGrows, AgentAssumption, FS_CardinalityType DEF Control, Typed
  <2>5. \A t \in Turns : spoken'[t] <= Room(MaxRounds) BY <2>2, <2>3, <2>4 DEF SpokenInv
  <2>6. status[holder] = "active" BY <2>2 DEF Control, LockInv
  <2>7. \A t \in Turns : status'[t] \in {"none", "waiting"} => spoken'[t] = 0
    BY <2>1, <2>3, <2>6 DEF SpokenInv
  <2>8. spoken[holder] <= Room(rounds) + Cardinality(own) BY <2>1 DEF SpokenInv, Allowed
  <2>9. spoken'[holder'] <= Allowed'
    <3>1. Allowed' = Room(rounds) + Cardinality(own') BY <2>1 DEF Allowed, Room
    <3>2. spoken'[holder'] = spoken[holder] + 1 BY <2>1, <2>2, <2>3
    <3>3. PICK x : x = spoken[holder] + 1 OBVIOUS
    <3>4. x \notin own
      <4>1. \A p \in own : p <= spoken[holder] BY <2>1 DEF SpokenInv
      <4> QED BY <2>4, <3>3, <4>1
    <3>5. Cardinality(own') = Cardinality(own) + 1
      <4>1. own' = own \cup {x} /\ IsFiniteSet(own) BY <2>1, <3>3 DEF Control, Typed
      <4> QED BY <3>4, <4>1, FS_AddElement
    <3> QED BY <2>4, <2>8, <3>1, <3>2, <3>5
  <2>10. \A p \in own' : p <= spoken'[holder']
    <3>1. \A p \in own : p <= spoken[holder] /\ p \in Nat BY <2>1 DEF SpokenInv, Control, Typed
    <3>2. spoken'[holder'] = spoken[holder] + 1 BY <2>1, <2>2, <2>3
    <3> QED BY <2>1, <2>4, <3>1, <3>2
  <2> QED BY <2>1, <2>5, <2>7, <2>9, <2>10 DEF SpokenInv, Room
<1>11. CASE StreamBreaks \/ Answered \/ Interrupted
  <2>1. /\ UNCHANGED <<status, spoken>> /\ pc' \in {"failed", "answered", "cancelled"}
    BY <1>11 DEF StreamBreaks, Answered, Interrupted, Goes, control
  <2> QED BY <2>1 DEF SpokenInv, Room
<1>12. ASSUME NEW n, CallsTools(n) PROVE SpokenInv'
  BY <1>12 DEF CallsTools, Goes, control, SpokenInv, Allowed, Room
<1>13. CASE ToolReturns
  <2>1. /\ UNCHANGED <<status, holder, spoken, own>> /\ pc = "tools"
        /\ pc' = IF pending = 1 THEN "call" ELSE "tools"
        /\ rounds' = IF pending = 1 THEN rounds + 1 ELSE rounds
    BY <1>13 DEF ToolReturns, Goes, control
  <2>2. CASE pending = 1
    <3>1. /\ holder \in Turns /\ rounds \in Nat
          /\ Cardinality(own) \in Nat /\ Cardinality(own) <= MaxPieces /\ MaxPieces \in Nat
      BY <2>1, AgentAssumption, FS_CardinalityType DEF Control, Typed, LockInv, Turns
    <3>2. Room(rounds) \in Nat /\ Room(rounds + 1) = Room(rounds) + MaxPieces BY <3>1, RoomGrows
    <3>3. spoken[holder] \in Nat /\ spoken[holder] <= Room(rounds) + Cardinality(own)
      BY <2>1, <3>1 DEF SpokenInv, Allowed, Control, Typed
    <3>4. Allowed' = Room(rounds + 1) BY <2>1, <2>2 DEF Allowed, Room
    <3>5. spoken'[holder'] <= Allowed' BY <2>1, <3>1, <3>2, <3>3, <3>4
    <3> QED BY <2>1, <2>2, <3>5 DEF SpokenInv, Room
  <2>3. CASE pending # 1 BY <2>1, <2>3 DEF SpokenInv, Allowed, Room
  <2> QED BY <2>2, <2>3
<1>14. CASE TurnEnds
  <2>1. /\ pc' = "idle" /\ spoken' = spoken /\ pc \in Outcomes /\ holder \in Turns
        /\ status' = [status EXCEPT ![holder] = pc]
    BY <1>14, AgentAssumption DEF TurnEnds, Control, Typed, Turns
  <2>2. \A t \in Turns : status'[t] = IF t = holder THEN pc ELSE status[t]
    BY <2>1 DEF Control, Typed
  <2> QED BY <2>1, <2>2 DEF SpokenInv, Room, Outcomes
<1> QED BY <1>2, <1>3, <1>4, <1>5, <1>6, <1>7, <1>8, <1>9, <1>10, <1>11, <1>12, <1>13, <1>14
        DEF Next, HandleTurn

----
(* What the agent remembers *)

LEMMA InitRecall == Init => RecallInv
BY DEF Init, RecallInv, BackendInStep

\* The memory as a turn or a reload finds it, read from the backend or not.
LEMMA LoadedIs ==
  ASSUME Control, RecallInv
  PROVE  Conversation(Loaded, prompt)
<1>1. CASE loaded BY <1>1 DEF Loaded, RecallInv
<1>2. CASE ~loaded BY <1>2, PromptedIs DEF Loaded, Control, Typed
<1> QED BY <1>1, <1>2

LEMMA RememberKeeps ==
  ASSUME NEW ms, Remember(ms), Conversation(ms, prompt')
  PROVE  RecallInv'
BY DEF Remember, RecallInv, BackendInStep

LEMMA PushKeeps ==
  ASSUME Control, RecallInv, NEW m \in Spoken, Push(m), prompt' = prompt
  PROVE  RecallInv'
<1>1. Conversation(Loaded, prompt) BY LoadedIs
<1>2. Conversation(Pushed(Loaded, m), prompt) BY <1>1, PushedIs
<1>3. Conversation(Pushed(Loaded, m), prompt') BY <1>2
<1>4. Remember(Pushed(Loaded, m)) BY DEF Push
<1> QED BY <1>3, <1>4, RememberKeeps

LEMMA StepKeepsRecall == Control /\ RecallInv /\ [Next]_vars => RecallInv'
<1> SUFFICES ASSUME Control, RecallInv, [Next]_vars PROVE RecallInv' OBVIOUS
<1>1. /\ holder \in Nat /\ own \in SUBSET Nat /\ heard \in SUBSET Nat /\ rounds \in Nat /\ pending \in Nat
      /\ prompt \in Prompts \cup {NoPrompt}
  BY AgentAssumption DEF Control, Typed
<1>2. CASE UNCHANGED <<memory, prompt>>
  BY <1>2 DEF memory, RecallInv, BackendInStep, Conversation
<1>3. ASSUME NEW p \in Prompts \cup {NoPrompt}, ReloadConfig(p) PROVE RecallInv'
  <2>1. prompt' = p BY <1>3 DEF ReloadConfig
  <2> DEFINE new == Reprompted(Loaded, p)
  <2>2. Conversation(Loaded, prompt) BY LoadedIs
  <2>3. Conversation(new, p) BY <2>2, RepromptedIs
  <2>4. \/ new = messages /\ UNCHANGED <<messages, attached, stored>> /\ loaded' = TRUE
        \/ Remember(new)
    BY <1>3 DEF ReloadConfig
  <2> HIDE DEF new
  <2>5. Conversation(new, prompt') BY <2>1, <2>3
  <2>6. CASE new = messages /\ UNCHANGED <<messages, attached, stored>> /\ loaded' = TRUE
    <3>1. Conversation(messages', prompt') BY <2>5, <2>6
    <3>2. attached => stored = messages BY DEF RecallInv, BackendInStep
    <3> QED BY <2>6, <3>1, <3>2 DEF RecallInv, BackendInStep
  <2>7. CASE Remember(new) BY <2>5, <2>7, RememberKeeps
  <2> QED BY <2>4, <2>6, <2>7
<1>4. ASSUME NEW t \in Turns, AgentLock(t) PROVE RecallInv'
  <2>1. t \in Nat BY DEF Turns
  <2>2. Push(User(t)) /\ prompt' = prompt BY <1>4 DEF AgentLock, config
  <2>3. User(t) \in Spoken BY <2>1, TurnMessages
  <2> QED BY <2>2, <2>3, PushKeeps
<1>5. CASE Answered
  <2>1. Push(Assistant(holder, own)) /\ prompt' = prompt BY <1>5 DEF Answered, Goes, config
  <2>2. Assistant(holder, own) \in Spoken BY <1>1, TurnMessages
  <2> QED BY <2>1, <2>2, PushKeeps
<1>6. ASSUME NEW n \in 1 .. MaxToolCalls, CallsTools(n) PROVE RecallInv'
  <2>1. Push(Calls(holder, own, rounds, n)) /\ prompt' = prompt BY <1>6 DEF CallsTools, Goes, config
  <2>2. n \in Nat OBVIOUS
  <2>3. Calls(holder, own, rounds, n) \in Spoken BY <1>1, <2>2, TurnMessages
  <2> QED BY <2>1, <2>3, PushKeeps
<1>7. CASE Interrupted
  <2>1. KeepHeard /\ prompt' = prompt BY <1>7 DEF Interrupted, Goes, config
  <2>2. CASE heard # {}
    <3>1. Push(Assistant(holder, heard)) BY <2>1, <2>2 DEF KeepHeard
    <3>2. Assistant(holder, heard) \in Spoken BY <1>1, TurnMessages
    <3> QED BY <2>1, <3>1, <3>2, PushKeeps
  <2>3. CASE ~(heard # {}) BY <1>2, <2>1, <2>3 DEF KeepHeard
  <2> QED BY <2>2, <2>3
<1>8. CASE ToolReturns
  <2>1. Push(Result(holder, rounds, pending)) /\ prompt' = prompt BY <1>8 DEF ToolReturns, Goes, config
  <2>2. Result(holder, rounds, pending) \in Spoken BY <1>1, TurnMessages
  <2> QED BY <2>1, <2>2, PushKeeps
<1>9. CASE \/ TriggerAgent \/ CancelTurn \/ CallLlm \/ RequestFails \/ StreamStarts \/ Piece
           \/ StreamBreaks \/ TurnEnds \/ UNCHANGED vars
  <2>1. UNCHANGED <<memory, prompt>>
    BY <1>9 DEF TriggerAgent, CancelTurn, CallLlm, RequestFails, StreamStarts, Piece, StreamBreaks,
                TurnEnds, Goes, config, vars
  <2> QED BY <1>2, <2>1
<1> QED BY <1>3, <1>4, <1>5, <1>6, <1>7, <1>8, <1>9 DEF Next, HandleTurn

----
LEMMA InitIInv == Init => IInv
BY InitControl, InitSpoken, InitRecall DEF IInv, Control

LEMMA StepKeeps == IInv /\ [Next]_vars => IInv'
BY StepKeepsControl, StepKeepsSpoken, StepKeepsRecall DEF IInv, Control

LEMMA Invariant == Spec => []IInv
BY InitIInv, StepKeeps, PTL DEF Spec

\* Whatever is said, trimmed, reloaded, cut off or lost by the backend, in any number of
\* turns and in a window of any length: the memory begins with the prompt that the session
\* has now and holds no other, the backend holds the same messages as long as it is used,
\* and no turn says more than its rounds allow.  memory.rs, core.rs 64-190
THEOREM MemoryCorrect == Spec => []MemoryInv
<1>1. IInv => MemoryInv
  <2> SUFFICES ASSUME IInv PROVE MemoryInv OBVIOUS
  <2>1. loaded => Conversation(messages, prompt) BY DEF IInv, RecallInv
  <2>2. PromptFirst BY <2>1 DEF PromptFirst, Conversation
  <2>3. Len(messages) <= MaxMessages
    <3>1. CASE loaded BY <2>1, <3>1 DEF Conversation
    <3>2. CASE ~loaded BY <3>2, WindowAssumption DEF IInv, RecallInv
    <3> QED BY <3>1, <3>2
  <2>4. spoken \in [Turns -> 0 .. MaxRounds * MaxPieces]
    <3>1. \A t \in Turns : spoken[t] \in Nat /\ spoken[t] <= Room(MaxRounds) BY DEF IInv, SpokenInv, Typed
    <3>2. Room(MaxRounds) \in Nat BY RoomGrows, AgentAssumption
    <3>3. \A t \in Turns : spoken[t] \in 0 .. Room(MaxRounds) BY <3>1, <3>2
    <3>4. spoken \in [Turns -> Nat] BY DEF IInv, Typed
    <3>5. spoken \in [Turns -> 0 .. Room(MaxRounds)] BY <3>3, <3>4
    <3> QED BY <3>5 DEF Room
  <2>5. TypeOK BY <2>3, <2>4 DEF IInv, Typed, TypeOK
  <2> QED BY <2>2, <2>5 DEF IInv, RecallInv, MemoryInv
<1> QED BY <1>1, Invariant, PTL

----
(* The transcript of the turn under way *)

\* The messages of turn t are the last ones, from the user's words on, or all that the
\* window has room for beside the prompt.
OwnFrom(ms, t, n) ==
  /\ n \in 1 .. Len(ms)
  /\ ms[n] = User(t) \/ (ms[n].role # "user" /\ n = Oldest(ms) /\ Len(ms) = MaxMessages)
  /\ \A i \in 1 .. Len(ms) : ms[i].turn = t <=> i >= n

Linked(ms, t, n) == \A i \in n + 1 .. Len(ms) : Follows(t, ms[i - 1], ms[i])

\* Piece p went with the beginning of the transcript, before all that is left of it.
Forgotten(ms, n, U, p) ==
  /\ ms[n].role # "user"
  /\ \A q \in U : p < q
  /\ \A i \in n .. Len(ms) : \A q \in ms[i].text : p < q

\* From the n-th message on the texts are, with the pieces of U, the pieces 1 .. K in order.
Tells(ms, n, K, U) ==
  /\ \A p \in 1 .. K : p \in U \/ (\E i \in n .. Len(ms) : p \in ms[i].text) \/ Forgotten(ms, n, U, p)
  /\ U \subseteq 1 .. K
  /\ \A i \in n .. Len(ms) : \A p \in ms[i].text : p \in 1 .. K /\ \A q \in U : p < q
  /\ \A i, j \in n .. Len(ms) : i < j => \A p \in ms[i].text, q \in ms[j].text : p < q

\* The pieces of a response that is not in the memory yet.
Unkept == IF pc \in {"request", "stream"} THEN own ELSE {}

\* The last message of a transcript of r whole rounds.
LastOf(t, r) == IF r = 0 THEN User(t) ELSE Result(t, r - 1, 1)

\* Where the transcript under way, from the n-th message on, has come to.
Reaches(n) ==
  /\ pc \in {"call", "request", "stream"} =>
       messages[Len(messages)] = LastOf(holder, rounds) /\ (rounds = 0 => n = Len(messages))
  /\ pc = "tools" => Follows(holder, messages[Len(messages)], Result(holder, rounds, pending))

InTurn == {"call", "request", "stream", "tools"}

\* What the memory holds of the turn under way, from the n-th message on.
Under(n) ==
  /\ OwnFrom(messages, holder, n)
  /\ Tells(messages, n, spoken[holder], Unkept)
  /\ pc \in InTurn => Linked(messages, holder, n) /\ Reaches(n)

\* A turn that has not had the agent yet has left no message.
FreshInv ==
  /\ holder # 0 => loaded
  /\ \A t \in Turns : status[t] \in {"none", "waiting"} =>
       \A i \in 1 .. Len(messages) : messages[i].turn # t

TurnInv == pc \in InTurn \cup (Outcomes \ {"failed"}) => \E n \in 1 .. Len(messages) : Under(n)

TranscriptInv == FreshInv /\ TurnInv

LEMMA PushedAt ==
  ASSUME NEW p, NEW ms, Conversation(ms, p), NEW m \in Spoken
  PROVE  \E d \in {0, 1} :
           /\ Len(Pushed(ms, m)) = Len(ms) + 1 - d
           /\ d = 1 <=> Len(ms) = MaxMessages
           /\ Pushed(ms, m)[Len(ms) + 1 - d] = m
           /\ \A i \in 1 .. Len(ms) - d :
                \/ i + d \in 1 .. Len(ms) /\ Pushed(ms, m)[i] = ms[i + d]
                \/ i < Oldest(ms) /\ Pushed(ms, m)[i] = ms[i]
<1> DEFINE all == Append(ms, m)
<1> DEFINE new == Pushed(ms, m)
<1>1. ms \in Seq(Message) /\ Len(ms) \in Nat /\ Len(ms) <= MaxMessages /\ MaxMessages \in Nat /\ MaxMessages >= 2
  BY WindowAssumption DEF Conversation
<1>2. m \in Message BY DEF Spoken
<1>3. /\ all \in Seq(Message) /\ Len(all) = Len(ms) + 1
      /\ \A i \in 1 .. Len(ms) : all[i] = ms[i]
      /\ all[Len(ms) + 1] = m
  BY <1>1, <1>2
<1>4. new = IF Len(all) > MaxMessages THEN DropOldest(all) ELSE all BY DEF Pushed, Trimmed
<1>5. Len(ms) > 0 => (HasPrompt(all) <=> HasPrompt(ms))
  <2> HIDE DEF all
  <2>1. Len(ms) > 0 => ms # <<>> /\ all # <<>> /\ all[1] = ms[1] BY <1>1, <1>3
  <2> QED BY <2>1 DEF HasPrompt
<1> HIDE DEF all, new
<1>6. CASE Len(all) <= MaxMessages
  <2>1. new = all BY <1>1, <1>3, <1>4, <1>6
  <2>2. Len(new) = Len(ms) + 1 - 0 /\ new[Len(ms) + 1 - 0] = m BY <1>1, <1>3, <2>1
  <2>3. \A i \in 1 .. Len(ms) - 0 : i + 0 \in 1 .. Len(ms) /\ new[i] = ms[i + 0] BY <1>1, <1>3, <2>1
  <2>4. Len(ms) # MaxMessages BY <1>1, <1>3, <1>6
  <2> QED BY <2>2, <2>3, <2>4 DEF new
<1>7. CASE Len(all) > MaxMessages
  <2>1. new = DropOldest(all) BY <1>4, <1>7
  <2>2. Len(ms) = MaxMessages /\ Len(all) = Len(ms) + 1 /\ Len(ms) >= 2 BY <1>1, <1>3, <1>7
  <2>3. CASE HasPrompt(ms)
    <3>1. Oldest(ms) = 2 BY <2>3 DEF Oldest
    <3>2. Len(all) >= 2 /\ new = <<all[1]>> \o SubSeq(all, 3, Len(all))
      BY <1>1, <1>5, <2>1, <2>2, <2>3 DEF DropOldest
    <3>3. /\ Len(new) = Len(all) - 1 /\ new[1] = all[1]
          /\ \A i \in 2 .. Len(new) : i + 1 \in 2 .. Len(all) /\ new[i] = all[i + 1]
      BY <1>3, <3>2, SecondDropped
    <3>4. Len(new) = Len(ms) + 1 - 1 BY <1>1, <2>2, <3>3
    <3>5. new[Len(ms) + 1 - 1] = m
      <4>1. Len(ms) \in 2 .. Len(new) /\ Len(ms) + 1 - 1 = Len(ms) BY <1>1, <2>2, <3>4
      <4> QED BY <1>3, <3>3, <4>1
    <3>6. ASSUME NEW i \in 1 .. Len(ms) - 1
          PROVE  \/ i + 1 \in 1 .. Len(ms) /\ new[i] = ms[i + 1]
                 \/ i < Oldest(ms) /\ new[i] = ms[i]
      <4>1. CASE i = 1
        <5>1. new[1] = ms[1] BY <1>1, <1>3, <2>2, <3>3
        <5> QED BY <3>1, <4>1, <5>1
      <4>2. CASE i # 1
        <5>1. i \in 2 .. Len(new) /\ i + 1 \in 1 .. Len(ms) BY <1>1, <2>2, <3>4, <4>2
        <5> QED BY <1>3, <3>3, <5>1
      <4> QED BY <4>1, <4>2
    <3> QED BY <2>2, <3>4, <3>5, <3>6 DEF new
  <2>4. CASE ~HasPrompt(ms)
    <3>1. new = Tail(all) BY <1>5, <2>1, <2>2, <2>4 DEF DropOldest
    <3>2. Len(new) = Len(all) - 1 /\ \A i \in 1 .. Len(new) : new[i] = all[i + 1] BY <1>1, <1>3, <2>2, <3>1
    <3>3. Len(new) = Len(ms) + 1 - 1 BY <1>1, <2>2, <3>2
    <3>4. new[Len(ms) + 1 - 1] = m
      <4>1. Len(ms) \in 1 .. Len(new) /\ Len(ms) + 1 - 1 = Len(ms) BY <1>1, <2>2, <3>3
      <4> QED BY <1>3, <3>2, <4>1
    <3>5. ASSUME NEW i \in 1 .. Len(ms) - 1
          PROVE  i + 1 \in 1 .. Len(ms) /\ new[i] = ms[i + 1]
      <4>1. i \in 1 .. Len(new) /\ i + 1 \in 1 .. Len(ms) BY <1>1, <2>2, <3>3
      <4> QED BY <1>3, <3>2, <4>1
    <3> QED BY <2>2, <3>3, <3>4, <3>5 DEF new
  <2> QED BY <2>3, <2>4
<1> QED BY <1>1, <1>3, <1>6, <1>7

\* What comes after another message in a transcript is not the user's.
LEMMA FollowsRole ==
  ASSUME NEW t, NEW m, NEW next, Follows(t, m, next)
  PROVE  next.role # "user"
<1>1. IsCalls(next) \/ next = Result(t, next.tool[1], next.tool[2]) BY DEF Follows
<1> QED BY <1>1 DEF IsCalls, Result, Msg

\* From the k-th message on, new is what ms is from the n-th on, without the first if that
\* was cut, and m.
Grown(ms, n, new, k, d, m) ==
  /\ k + d = n \/ k + d = n + 1
  /\ k + d # n \/ ms[n].role # "user" => new[k].role # "user"
  /\ Len(new) = Len(ms) + 1 - d
  /\ new[Len(ms) + 1 - d] = m
  /\ \A i \in k .. Len(ms) - d : i + d \in n .. Len(ms) /\ new[i] = ms[i + d]

\* A message of the turn whose messages are the last ones joins them at the end; if the
\* window is full of them, the first goes.
LEMMA PushOwn ==
  ASSUME NEW p, NEW ms, Conversation(ms, p), NEW t \in Nat, t # 0, NEW n, OwnFrom(ms, t, n),
         Linked(ms, t, n), NEW m \in Spoken, m.turn = t, m.role # "user"
  PROVE  \E k \in Nat, d \in {0, 1} :
           OwnFrom(Pushed(ms, m), t, k) /\ Grown(ms, n, Pushed(ms, m), k, d, m)
<1> DEFINE new == Pushed(ms, m)
<1>1. Len(ms) \in Nat /\ Len(ms) <= MaxMessages /\ MaxMessages \in Nat /\ MaxMessages >= 2
  BY WindowAssumption DEF Conversation
<1>2. PICK d \in {0, 1} :
        /\ Len(new) = Len(ms) + 1 - d
        /\ d = 1 <=> Len(ms) = MaxMessages
        /\ new[Len(ms) + 1 - d] = m
        /\ \A i \in 1 .. Len(ms) - d :
             \/ i + d \in 1 .. Len(ms) /\ new[i] = ms[i + d]
             \/ i < Oldest(ms) /\ new[i] = ms[i]
  BY PushedAt
<1>3. Oldest(new) = Oldest(ms) BY PushedIs DEF Conversation, Oldest
<1> HIDE DEF new
<1>4. /\ n \in 1 .. Len(ms)
      /\ ms[n] = User(t) \/ (ms[n].role # "user" /\ n = Oldest(ms) /\ Len(ms) = MaxMessages)
      /\ \A i \in 1 .. Len(ms) : ms[i].turn = t <=> i >= n
  BY DEF OwnFrom
<1>5. Oldest(ms) \in {1, 2} /\ (Oldest(ms) = 2 => n # 1)
  <2>1. Oldest(ms) = 2 => ms[1] = System(p) BY DEF Oldest, Conversation
  <2>2. ASSUME Oldest(ms) = 2, n = 1 PROVE FALSE
    <3>1. ms[1].turn = t BY <1>1, <1>4, <2>2
    <3> QED BY <2>1, <2>2, <3>1 DEF System, Msg
  <2> QED BY <2>2 DEF Oldest
<1>6. d \in Nat /\ n \in Nat /\ n >= Oldest(ms) BY <1>4, <1>5
<1> DEFINE k == IF d = 1 /\ n = Oldest(ms) THEN n ELSE n - d
<1>7. /\ k \in Nat /\ k >= 1 /\ (k + d = n \/ k + d = n + 1) /\ k <= n
      /\ d = 1 => k >= Oldest(ms)
      /\ k + d # n => d = 1 /\ n = Oldest(ms) /\ k = n
  BY <1>5, <1>6
<1> HIDE DEF k
<1>8. ASSUME NEW i \in k .. Len(ms) - d PROVE i + d \in n .. Len(ms) /\ new[i] = ms[i + d]
  <2>1. i \in 1 .. Len(ms) - d /\ i + d \in n .. Len(ms) BY <1>1, <1>6, <1>7
  <2>2. CASE d = 0
    <3>1. i \in 1 .. Len(ms) /\ i + d = i BY <2>1, <2>2
    <3> QED BY <1>2, <2>1, <3>1
  <2>3. CASE d = 1
    <3>1. ~(i < Oldest(ms)) BY <1>5, <1>7, <2>1, <2>3
    <3> QED BY <1>2, <2>1, <3>1
  <2> QED BY <2>2, <2>3
<1>9. k \in 1 .. Len(new) /\ k \in k .. Len(new)
  <2>1. Len(new) = Len(ms) + 1 - d /\ n <= Len(ms) BY <1>2, <1>4
  <2>2. d = 1 => Len(ms) >= 2 BY <1>1, <1>2
  <2>3. CASE k + d = n BY <1>1, <1>6, <1>7, <2>1, <2>3
  <2>4. CASE k + d # n BY <1>1, <1>5, <1>6, <1>7, <2>1, <2>2, <2>4
  <2> QED BY <2>3, <2>4
<1>10. k + d # n \/ ms[n].role # "user" => new[k].role # "user"
  <2>1. CASE k = Len(ms) + 1 - d BY <1>2, <2>1
  <2>2. CASE k # Len(ms) + 1 - d
    <3>1. k \in k .. Len(ms) - d BY <1>1, <1>2, <1>6, <1>9, <2>2
    <3>2. new[k] = ms[k + d] /\ k + d <= Len(ms) BY <1>8, <3>1
    <3>3. CASE k + d = n BY <3>2, <3>3
    <3>4. CASE k + d # n
      <4>1. k + d \in n + 1 .. Len(ms) BY <1>1, <1>6, <1>7, <3>2, <3>4
      <4>2. \A i \in n + 1 .. Len(ms) : Follows(t, ms[i - 1], ms[i]) BY DEF Linked
      <4>3. PICK i \in n + 1 .. Len(ms) : i = k + d BY <4>1
      <4>4. Follows(t, ms[i - 1], ms[i]) BY <4>2
      <4> QED BY <3>2, <4>3, <4>4, FollowsRole
    <3> QED BY <3>3, <3>4
  <2> QED BY <2>1, <2>2
<1>11. new[k] = User(t) \/ (new[k].role # "user" /\ k = Oldest(new) /\ Len(new) = MaxMessages)
  <2>1. CASE k + d # n BY <1>1, <1>2, <1>3, <1>7, <1>10, <2>1
  <2>2. CASE k + d = n
    <3>1. k \in k .. Len(ms) - d BY <1>1, <1>4, <1>6, <1>7, <2>2
    <3>2. new[k] = ms[n] BY <1>8, <2>2, <3>1
    <3>3. CASE ms[n] = User(t) BY <3>2, <3>3
    <3>4. CASE n = Oldest(ms) /\ Len(ms) = MaxMessages
      <4>1. d = 1 BY <1>2, <3>4
      <4>2. k = n BY <3>4, <4>1 DEF k
      <4> QED BY <1>6, <2>2, <4>1, <4>2
    <3> QED BY <1>4, <3>3, <3>4
  <2> QED BY <2>1, <2>2
<1>12. ASSUME NEW i \in 1 .. Len(new) PROVE new[i].turn = t <=> i >= k
  <2>1. CASE i = Len(ms) + 1 - d
    <3>1. i >= k BY <1>2, <1>9, <2>1
    <3> QED BY <1>2, <2>1, <3>1
  <2>2. CASE i # Len(ms) + 1 - d
    <3>1. i \in 1 .. Len(ms) - d BY <1>1, <1>2, <1>6, <2>2
    <3>2. CASE i >= k
      <4>1. i \in k .. Len(ms) - d BY <1>7, <3>1, <3>2
      <4>2. i + d \in n .. Len(ms) /\ new[i] = ms[i + d] BY <1>8, <4>1
      <4>3. i + d \in 1 .. Len(ms) /\ i + d >= n BY <1>6, <1>4, <4>2
      <4> QED BY <1>4, <3>2, <4>2, <4>3
    <3>3. CASE ~(i >= k)
      <4>1. i < n /\ i \in 1 .. Len(ms) BY <1>1, <1>6, <1>7, <3>1, <3>3
      <4>2. CASE i < Oldest(ms) /\ new[i] = ms[i] BY <1>4, <1>6, <3>3, <4>1, <4>2
      <4>3. CASE i + d \in 1 .. Len(ms) /\ new[i] = ms[i + d] /\ i + d < n BY <1>4, <1>6, <3>3, <4>3
      <4>4. CASE i + d >= n
        <5>1. k + d # n /\ d = 1 /\ i + 1 = n /\ n = Oldest(ms) BY <1>2, <1>6, <1>7, <3>1, <3>3, <4>4
        <5>2. i = 1 /\ Oldest(ms) = 2 BY <1>5, <3>1, <5>1
        <5>3. HasPrompt(new) BY <1>3, <5>2 DEF Oldest
        <5>4. new[1] = System(p)
          <6>1. Conversation(new, p) BY PushedIs DEF new
          <6> QED BY <5>3, <6>1 DEF Conversation
        <5>5. new[i].turn = 0 BY <5>2, <5>4 DEF System, Msg
        <5> QED BY <3>3, <5>5
      <4> QED BY <1>2, <1>6, <3>1, <4>1, <4>2, <4>3, <4>4
    <3> QED BY <3>2, <3>3
  <2> QED BY <2>1, <2>2
<1>13. OwnFrom(new, t, k) BY <1>9, <1>11, <1>12 DEF OwnFrom
<1>14. Len(new) = Len(ms) + 1 - d /\ new[Len(ms) + 1 - d] = m BY <1>2
<1>15. Grown(ms, n, new, k, d, m) BY <1>7, <1>8, <1>10, <1>14 DEF Grown
<1> QED BY <1>7, <1>13, <1>15 DEF new

\* A transcript that is shifted, or cut at its beginning, with one message more.
LEMMA LinkedGrows ==
  ASSUME NEW ms, NEW new, NEW t, NEW n \in Nat, NEW k \in Nat, NEW d \in {0, 1}, NEW m,
         Len(ms) \in Nat, Grown(ms, n, new, k, d, m), Linked(ms, t, n), Follows(t, ms[Len(ms)], m)
  PROVE  Linked(new, t, k)
<1>g. /\ k + d >= n /\ Len(new) = Len(ms) + 1 - d /\ new[Len(ms) + 1 - d] = m
      /\ \A i \in k .. Len(ms) - d : i + d \in n .. Len(ms) /\ new[i] = ms[i + d]
  BY DEF Grown
<1> SUFFICES ASSUME NEW i \in k + 1 .. Len(new) PROVE Follows(t, new[i - 1], new[i])
  BY DEF Linked
<1>0. d \in Nat OBVIOUS
<1>1. i - 1 \in k .. Len(ms) - d /\ i \in Nat BY <1>0, <1>g
<1>2. CASE i = Len(ms) + 1 - d
  <2>1. i - 1 + d = Len(ms) BY <1>0, <1>2
  <2>2. new[i - 1] = ms[Len(ms)] BY <1>1, <1>g, <2>1
  <2> QED BY <1>2, <1>g, <2>2
<1>3. CASE i # Len(ms) + 1 - d
  <2>1. i \in k .. Len(ms) - d /\ i + d \in n + 1 .. Len(ms) /\ i - 1 + d = i + d - 1 BY <1>0, <1>1, <1>3, <1>g
  <2>2. new[i] = ms[i + d] /\ new[i - 1] = ms[i + d - 1] BY <1>1, <1>g, <2>1
  <2>3. Follows(t, ms[i + d - 1], ms[i + d]) BY <2>1 DEF Linked
  <2> QED BY <2>2, <2>3
<1> QED BY <1>2, <1>3

\* The response that was under way takes its place behind the others; what a cut takes
\* from the beginning is forgotten.
LEMMA TellsGrows ==
  ASSUME NEW ms, NEW new, NEW n \in Nat, NEW k \in Nat, NEW d \in {0, 1}, NEW m,
         Len(ms) \in Nat, n <= Len(ms), k <= Len(new), Grown(ms, n, new, k, d, m),
         NEW K \in Nat, NEW U, Tells(ms, n, K, U), m.text = U
  PROVE  Tells(new, k, K, {})
<1> DEFINE last == Len(ms) + 1 - d
<1>g. /\ k + d = n \/ k + d = n + 1
      /\ k + d # n \/ ms[n].role # "user" => new[k].role # "user"
      /\ Len(new) = last /\ new[last] = m
      /\ \A i \in k .. Len(ms) - d : i + d \in n .. Len(ms) /\ new[i] = ms[i + d]
  BY DEF Grown
<1>0. d \in Nat /\ last \in Nat /\ Len(new) = last BY <1>g
<1>1. ASSUME NEW i \in k .. Len(new) PROVE i = last \/ (i \in k .. Len(ms) - d /\ i < last)
  <2>1. i \in Nat /\ k <= i /\ i <= last BY <1>0
  <2>2. CASE d = 0 BY <2>1, <2>2
  <2>3. CASE d = 1 BY <2>1, <2>3
  <2> QED BY <2>2, <2>3
<1>2. last \in k .. Len(new) BY <1>0
<1>3. \A i \in k .. Len(ms) - d : i + d \in n .. Len(ms) /\ i + d >= k + d /\ new[i] = ms[i + d]
  BY <1>0, <1>g
<1>4. new[last].text = U BY <1>g
<1> HIDE DEF last
<1>5. ASSUME NEW p \in 1 .. K
      PROVE  (\E i \in k .. Len(new) : p \in new[i].text) \/ Forgotten(new, k, {}, p)
  <2>1. CASE p \in U BY <1>2, <1>4, <2>1
  <2>2. ASSUME NEW j \in n .. Len(ms), p \in ms[j].text, j >= k + d
        PROVE  \E i \in k .. Len(new) : p \in new[i].text
    <3>1. j - d \in k .. Len(ms) - d /\ j - d \in k .. Len(new) /\ j - d + d = j
      <4>1. j \in Nat /\ j <= Len(ms) /\ k + d <= j BY <2>2
      <4>2. CASE d = 0 BY <1>0, <2>2, <4>1, <4>2 DEF last
      <4>3. CASE d = 1 BY <1>0, <2>2, <4>1, <4>3 DEF last
      <4> QED BY <4>2, <4>3
    <3>2. new[j - d] = ms[j] BY <1>3, <3>1
    <3> QED BY <2>2, <3>1, <3>2
  <2>3. ASSUME NEW j \in n .. Len(ms), p \in ms[j].text, ~(j >= k + d)
        PROVE  Forgotten(new, k, {}, p)
    <3>1. new[k].role # "user" BY <1>0, <1>g, <2>3
    <3>2. ASSUME NEW i \in k .. Len(new), NEW q \in new[i].text PROVE p < q
      <4>1. CASE i = last BY <1>4, <2>3, <3>2, <4>1 DEF Tells
      <4>2. CASE i # last
        <5>1. i + d \in n .. Len(ms) /\ i + d >= k + d /\ new[i] = ms[i + d] BY <1>1, <1>3, <4>2
        <5>2. j < i + d BY <1>0, <2>3, <5>1
        <5> QED BY <2>3, <3>2, <5>1, <5>2 DEF Tells
      <4> QED BY <4>1, <4>2
    <3> QED BY <3>1, <3>2 DEF Forgotten
  <2>4. CASE Forgotten(ms, n, U, p)
    <3>1. new[k].role # "user" BY <1>g, <2>4 DEF Forgotten
    <3>2. ASSUME NEW i \in k .. Len(new), NEW q \in new[i].text PROVE p < q
      <4>1. CASE i = last BY <1>4, <2>4, <3>2, <4>1 DEF Forgotten
      <4>2. CASE i # last
        <5>1. i + d \in n .. Len(ms) /\ new[i] = ms[i + d] BY <1>1, <1>3, <4>2
        <5> QED BY <2>4, <3>2, <5>1 DEF Forgotten
      <4> QED BY <4>1, <4>2
    <3> QED BY <3>1, <3>2 DEF Forgotten
  <2>5. p \in U \/ (\E j \in n .. Len(ms) : p \in ms[j].text) \/ Forgotten(ms, n, U, p) BY DEF Tells
  <2> QED BY <2>1, <2>2, <2>3, <2>4, <2>5
<1>6. ASSUME NEW i \in k .. Len(new), NEW p \in new[i].text PROVE p \in 1 .. K
  <2>1. CASE i = last BY <1>4, <1>6, <2>1 DEF Tells
  <2>2. CASE i # last
    <3>1. i + d \in n .. Len(ms) /\ new[i] = ms[i + d] BY <1>1, <1>3, <2>2
    <3> QED BY <1>6, <3>1 DEF Tells
  <2> QED BY <2>1, <2>2
<1>7. ASSUME NEW i \in k .. Len(new), NEW j \in k .. Len(new), i < j,
             NEW p \in new[i].text, NEW q \in new[j].text
      PROVE  p < q
  <2>1. i \in k .. Len(ms) - d BY <1>0, <1>1, <1>7
  <2>2. i + d \in n .. Len(ms) /\ new[i] = ms[i + d] BY <1>3, <2>1
  <2>3. CASE j = last BY <1>4, <1>7, <2>2, <2>3 DEF Tells
  <2>4. CASE j # last
    <3>1. j + d \in n .. Len(ms) /\ new[j] = ms[j + d] BY <1>1, <1>3, <2>4
    <3>2. i + d < j + d BY <1>0, <1>7
    <3> QED BY <1>7, <2>2, <3>1, <3>2 DEF Tells
  <2> QED BY <2>3, <2>4
<1> QED BY <1>5, <1>6, <1>7 DEF Tells

\* What a message does to the memory of the turn that says it.
LEMMA PushUnder ==
  ASSUME Control, RecallInv, FreshInv, NEW n, Under(n), NEW m \in Spoken, m.turn = holder,
         m.role # "user", holder # 0, pc \in {"stream", "tools"}, Push(m), m.text = Unkept,
         holder' = holder, spoken' = spoken, Unkept' = {}
  PROVE  \E k \in 1 .. Len(messages') :
           /\ OwnFrom(messages', holder', k)
           /\ Tells(messages', k, spoken'[holder'], Unkept')
           /\ Follows(holder, messages[Len(messages)], m) => Linked(messages', holder', k)
           /\ messages'[Len(messages')] = m
<1>1. loaded /\ Conversation(messages, prompt) /\ Loaded = messages BY DEF FreshInv, RecallInv, Loaded
<1>2. messages' = Pushed(messages, m) BY <1>1 DEF Push, Remember
<1>3. PICK t \in Turns : t = holder BY AgentAssumption DEF Control, Typed, Turns
<1>4. t \in Nat /\ t # 0 /\ spoken[t] \in Nat /\ OwnFrom(messages, t, n)
      /\ Tells(messages, n, spoken[t], Unkept) /\ Linked(messages, t, n)
  BY <1>3 DEF Turns, Control, Typed, Under, InTurn
<1>5. m.turn = t BY <1>3
<1>6. PICK k \in Nat, d \in {0, 1} :
        OwnFrom(Pushed(messages, m), t, k) /\ Grown(messages, n, Pushed(messages, m), k, d, m)
  BY <1>1, <1>4, <1>5, PushOwn
<1>7. n \in Nat /\ n <= Len(messages) /\ Len(messages) \in Nat
  BY <1>1, <1>4 DEF OwnFrom, Conversation
<1>8. k \in 1 .. Len(messages') /\ k <= Len(messages') /\ OwnFrom(messages', t, k)
  BY <1>2, <1>6 DEF OwnFrom
<1>9. Tells(Pushed(messages, m), k, spoken[t], {})
  BY <1>2, <1>4, <1>6, <1>7, <1>8, TellsGrows
<1>10. Follows(t, messages[Len(messages)], m) => Linked(Pushed(messages, m), t, k)
  BY <1>4, <1>6, <1>7, LinkedGrows
<1>11. messages'[Len(messages')] = m BY <1>2, <1>6 DEF Grown
<1> QED BY <1>2, <1>3, <1>8, <1>9, <1>10, <1>11

\* A prompt, or a message that was there before.
FromOld(new, ms) == \A i \in 1 .. Len(new) : new[i].turn = 0 \/ \E j \in 1 .. Len(ms) : new[i] = ms[j]

LEMMA PushedFrom ==
  ASSUME NEW p, NEW ms, Conversation(ms, p), NEW m \in Spoken
  PROVE  /\ Len(Pushed(ms, m)) >= 1 /\ Len(Pushed(ms, m)) \in Nat
         /\ Pushed(ms, m)[Len(Pushed(ms, m))] = m
         /\ \A i \in 1 .. Len(Pushed(ms, m)) - 1 : \E j \in 1 .. Len(ms) : Pushed(ms, m)[i] = ms[j]
<1> DEFINE new == Pushed(ms, m)
<1>1. Len(ms) \in Nat /\ MaxMessages \in Nat /\ MaxMessages >= 2 BY WindowAssumption DEF Conversation
<1>2. PICK d \in {0, 1} :
        /\ Len(new) = Len(ms) + 1 - d
        /\ d = 1 <=> Len(ms) = MaxMessages
        /\ new[Len(ms) + 1 - d] = m
        /\ \A i \in 1 .. Len(ms) - d :
             \/ i + d \in 1 .. Len(ms) /\ new[i] = ms[i + d]
             \/ i < Oldest(ms) /\ new[i] = ms[i]
  BY PushedAt
<1> HIDE DEF new
<1>3. Len(new) >= 1 /\ Len(new) \in Nat /\ new[Len(new)] = m BY <1>1, <1>2
<1>4. ASSUME NEW i \in 1 .. Len(new) - 1 PROVE \E j \in 1 .. Len(ms) : new[i] = ms[j]
  <2>1. i \in 1 .. Len(ms) - d /\ i \in 1 .. Len(ms) BY <1>1, <1>2
  <2> QED BY <1>2, <2>1
<1> QED BY <1>3, <1>4 DEF new

LEMMA RepromptedFrom ==
  ASSUME NEW p, NEW q \in Prompts \cup {NoPrompt}, NEW ms, Conversation(ms, p)
  PROVE  FromOld(Reprompted(ms, q), ms)
<1>1. ms \in Seq(Message) /\ Len(ms) \in Nat /\ Len(ms) <= MaxMessages /\ MaxMessages \in Nat /\ MaxMessages >= 2
  BY WindowAssumption DEF Conversation
<1>2. System(q) \in Message /\ System(q).turn = 0 /\ System(q).role = "system"
  BY PromptMessage DEF System, Msg
<1>3. CASE q # NoPrompt /\ HasPrompt(ms)
  <2> DEFINE new == [ms EXCEPT ![1] = System(q)]
  <2>1. Reprompted(ms, q) = new BY <1>3 DEF Reprompted
  <2>2. Len(ms) >= 1 BY <1>1, <1>3 DEF HasPrompt
  <2>3. Len(new) = Len(ms) /\ new[1] = System(q) /\ \A i \in 2 .. Len(ms) : new[i] = ms[i]
    BY <1>1, <1>2, <2>2
  <2> HIDE DEF new
  <2>4. FromOld(new, ms)
    <3> SUFFICES ASSUME NEW i \in 1 .. Len(new)
                 PROVE  new[i].turn = 0 \/ \E j \in 1 .. Len(ms) : new[i] = ms[j]
      BY DEF FromOld
    <3>1. i = 1 \/ (i \in 2 .. Len(ms) /\ i \in 1 .. Len(ms)) BY <1>1, <2>3
    <3> QED BY <1>2, <2>3, <3>1
  <2> QED BY <2>1, <2>4
<1>4. CASE q # NoPrompt /\ ~HasPrompt(ms)
  <2> DEFINE all == <<System(q)>> \o ms
  <2>1. Reprompted(ms, q) = Trimmed(all) BY <1>4 DEF Reprompted
  <2>2. /\ all \in Seq(Message) /\ Len(all) = Len(ms) + 1 /\ all[1] = System(q)
        /\ \A i \in 2 .. Len(all) : i - 1 \in 1 .. Len(ms) /\ all[i] = ms[i - 1]
    BY <1>1, <1>2
  <2> HIDE DEF all
  <2>3. HasPrompt(all)
    <3>1. all # <<>> BY <1>1, <2>2
    <3> QED BY <1>2, <2>2, <3>1 DEF HasPrompt
  <2>4. CASE Len(all) <= MaxMessages
    <3>1. Trimmed(all) = all BY <1>1, <2>2, <2>4 DEF Trimmed
    <3>2. FromOld(all, ms)
      <4> SUFFICES ASSUME NEW i \in 1 .. Len(all)
                   PROVE  all[i].turn = 0 \/ \E j \in 1 .. Len(ms) : all[i] = ms[j]
        BY DEF FromOld
      <4>1. i = 1 \/ i \in 2 .. Len(all) BY <1>1, <2>2
      <4> QED BY <1>2, <2>2, <4>1
    <3> QED BY <2>1, <3>1, <3>2
  <2>5. CASE Len(all) > MaxMessages
    <3> DEFINE new == <<all[1]>> \o SubSeq(all, 3, Len(all))
    <3>1. Len(all) = MaxMessages + 1 BY <1>1, <2>2, <2>5
    <3>2. Trimmed(all) = new BY <1>1, <2>3, <2>5, <3>1 DEF Trimmed, DropOldest
    <3>3. Len(all) >= 2 /\ new = <<all[1]>> \o SubSeq(all, 3, Len(all)) BY <1>1, <3>1
    <3> HIDE DEF new
    <3>4. /\ Len(new) = Len(all) - 1 /\ new[1] = all[1]
          /\ \A i \in 2 .. Len(new) : i + 1 \in 2 .. Len(all) /\ new[i] = all[i + 1]
      BY <2>2, <3>3, SecondDropped
    <3>5. FromOld(new, ms)
      <4> SUFFICES ASSUME NEW i \in 1 .. Len(new)
                   PROVE  new[i].turn = 0 \/ \E j \in 1 .. Len(ms) : new[i] = ms[j]
        BY DEF FromOld
      <4>1. CASE i = 1 BY <1>2, <2>2, <3>4, <4>1
      <4>2. CASE i # 1
        <5>1. i \in 2 .. Len(new) BY <4>2
        <5>2. i + 1 \in 2 .. Len(all) /\ new[i] = all[i + 1] BY <3>4, <5>1
        <5> QED BY <2>2, <5>2
      <4> QED BY <4>1, <4>2
    <3> QED BY <2>1, <3>2, <3>5
  <2> QED BY <1>1, <2>2, <2>4, <2>5
<1>5. CASE q = NoPrompt /\ HasPrompt(ms)
  <2> DEFINE new == Tail(ms)
  <2>1. Reprompted(ms, q) = new BY <1>5 DEF Reprompted
  <2>2. Len(ms) >= 1 BY <1>1, <1>5 DEF HasPrompt
  <2>3. Len(new) = Len(ms) - 1 /\ \A i \in 1 .. Len(new) : i + 1 \in 1 .. Len(ms) /\ new[i] = ms[i + 1]
    BY <1>1, <2>2
  <2> HIDE DEF new
  <2> QED BY <2>1, <2>3 DEF FromOld
<1>6. CASE q = NoPrompt /\ ~HasPrompt(ms)
  <2>1. Reprompted(ms, q) = ms BY <1>6 DEF Reprompted
  <2> QED BY <2>1 DEF FromOld
<1> QED BY <1>3, <1>4, <1>5, <1>6

\* The memory as it is found has no message of a turn that has not begun.
LEMMA LoadedFresh ==
  ASSUME FreshInv, RecallInv, Control, NEW t \in Turns, status[t] \in {"none", "waiting"}
  PROVE  \A i \in 1 .. Len(Loaded) : Loaded[i].turn # t
<1>1. CASE loaded BY <1>1 DEF FreshInv, Loaded
<1>2. CASE ~loaded
  <2>1. Loaded = Prompted(<<>>, prompt) BY <1>2 DEF Loaded
  <2>2. ~HasPrompt(<<>>) BY DEF HasPrompt
  <2>3. CASE prompt = NoPrompt
    <3>1. Loaded = <<>> BY <2>1, <2>3 DEF Prompted
    <3>2. Len(Loaded) = 0 BY <3>1
    <3> QED BY <3>2
  <2>4. CASE prompt # NoPrompt
    <3> DEFINE new == <<System(prompt)>>
    <3>1. Len(new) = 1 /\ new[1] = System(prompt) /\ new \o <<>> = new OBVIOUS
    <3>2. Prompted(<<>>, prompt) = Trimmed(new \o <<>>) BY <2>2, <2>4 DEF Prompted
    <3>3. Trimmed(new) = new BY <3>1, WindowAssumption DEF Trimmed
    <3>4. Loaded = new BY <2>1, <3>1, <3>2, <3>3
    <3>5. System(prompt).turn = 0 /\ t # 0 BY DEF System, Msg, Turns
    <3> HIDE DEF new
    <3>6. \A i \in 1 .. Len(new) : i = 1 BY <3>1
    <3>7. \A i \in 1 .. Len(new) : new[i].turn # t BY <3>1, <3>5, <3>6
    <3> QED BY <3>4, <3>7
  <2> QED BY <2>3, <2>4
<1> QED BY <1>1, <1>2

LEMMA InitTranscript == Init => TranscriptInv
<1> SUFFICES ASSUME Init PROVE TranscriptInv OBVIOUS
<1>1. holder = 0 /\ pc = "idle" /\ messages = <<>> BY DEF Init
<1>2. 1 .. Len(messages) = {} BY <1>1
<1> QED BY <1>1, <1>2 DEF TranscriptInv, FreshInv, TurnInv, InTurn, Outcomes

LEMMA PushKeepsFresh ==
  ASSUME Control, RecallInv, FreshInv, NEW m \in Spoken, Push(m),
         \A t \in Turns : status'[t] \in {"none", "waiting"} => status[t] \in {"none", "waiting"} /\ m.turn # t
  PROVE  FreshInv'
<1>1. messages' = Pushed(Loaded, m) /\ loaded' = TRUE BY DEF Push, Remember
<1>2. Conversation(Loaded, prompt) BY LoadedIs
<1>3. /\ Len(messages') \in Nat /\ messages'[Len(messages')] = m
      /\ \A i \in 1 .. Len(messages') - 1 : \E j \in 1 .. Len(Loaded) : messages'[i] = Loaded[j]
  BY <1>1, <1>2, PushedFrom
<1>4. ASSUME NEW t \in Turns, status'[t] \in {"none", "waiting"}, NEW i \in 1 .. Len(messages')
      PROVE  messages'[i].turn # t
  <2>1. status[t] \in {"none", "waiting"} /\ m.turn # t BY <1>4
  <2>2. CASE i = Len(messages') BY <1>3, <2>1, <2>2
  <2>3. CASE i # Len(messages')
    <3>1. i \in 1 .. Len(messages') - 1 BY <1>3, <2>3
    <3>2. PICK j \in 1 .. Len(Loaded) : messages'[i] = Loaded[j] BY <1>3, <3>1
    <3> QED BY <2>1, <3>2, LoadedFresh
  <2> QED BY <2>2, <2>3
<1> QED BY <1>1, <1>4 DEF FreshInv

\* The messages a turn adds are its own.
LEMMA TurnOf ==
  ASSUME NEW t, NEW S, NEW r, NEW k
  PROVE  User(t).turn = t /\ Assistant(t, S).turn = t /\ Calls(t, S, r, k).turn = t /\ Result(t, r, k).turn = t
BY DEF User, Assistant, Calls, Result, Msg

LEMMA HolderPushesFresh ==
  ASSUME Control, RecallInv, FreshInv, NEW m \in Spoken, Push(m), m.turn = holder, status' = status, holder # 0
  PROVE  FreshInv'
<1>1. \A t \in Turns : status'[t] \in {"none", "waiting"} => status[t] \in {"none", "waiting"} /\ m.turn # t
  BY DEF Control, LockInv
<1> QED BY <1>1, PushKeepsFresh

LEMMA StepKeepsFresh == Control /\ RecallInv /\ FreshInv /\ [Next]_vars => FreshInv'
<1> SUFFICES ASSUME Control, RecallInv, FreshInv, [Next]_vars PROVE FreshInv' OBVIOUS
<1>1. /\ holder \in Nat /\ own \in SUBSET Nat /\ heard \in SUBSET Nat /\ rounds \in Nat /\ pending \in Nat
      /\ prompt \in Prompts \cup {NoPrompt}
  BY AgentAssumption DEF Control, Typed
<1>2. CASE UNCHANGED <<memory, holder, status>> BY <1>2 DEF memory, FreshInv
<1>3. CASE TriggerAgent
  <2>1. /\ \A t \in Turns : status'[t] = IF t = turn + 1 THEN "waiting" ELSE status[t]
        /\ \A t \in Turns : t = turn + 1 => status[t] = "none"
        /\ UNCHANGED <<memory, holder>>
    BY <1>3 DEF TriggerAgent, Control, Typed, LockInv, Turns
  <2> QED BY <2>1 DEF memory, FreshInv
<1>4. ASSUME NEW p \in Prompts \cup {NoPrompt}, ReloadConfig(p) PROVE FreshInv'
  <2>1. holder = 0 /\ UNCHANGED <<holder, status>> BY <1>4 DEF ReloadConfig, control
  <2>2. messages' = Reprompted(Loaded, p) BY <1>4 DEF ReloadConfig, Remember
  <2>3. FromOld(Reprompted(Loaded, p), Loaded) BY LoadedIs, RepromptedFrom
  <2>4. FromOld(messages', Loaded) BY <2>2, <2>3
  <2>5. ASSUME NEW t \in Turns, status'[t] \in {"none", "waiting"}, NEW i \in 1 .. Len(messages')
        PROVE  messages'[i].turn # t
    <3>1. \A j \in 1 .. Len(Loaded) : Loaded[j].turn # t BY <2>1, <2>5, LoadedFresh
    <3>2. t # 0 BY DEF Turns
    <3> QED BY <2>4, <3>1, <3>2 DEF FromOld
  <2> QED BY <2>1, <2>5 DEF FreshInv
<1>5. ASSUME NEW t \in Turns, AgentLock(t) PROVE FreshInv'
  <2>1. t \in Nat BY DEF Turns
  <2>2. Push(User(t)) /\ User(t) \in Spoken /\ User(t).turn = t
    BY <1>5, <2>1, TurnMessages, TurnOf DEF AgentLock
  <2>3. \A u \in Turns : status'[u] = IF u = t THEN "active" ELSE status[u]
    BY <1>5 DEF AgentLock, Control, Typed
  <2> HIDE DEF AgentLock
  <2> QED BY <2>2, <2>3, PushKeepsFresh
<1>6. CASE TurnEnds
  <2>1. /\ UNCHANGED memory /\ holder' = 0 /\ pc \in Outcomes
        /\ status' = [status EXCEPT ![holder] = pc]
    BY <1>6 DEF TurnEnds
  <2>2. \A u \in Turns : status'[u] = IF u = holder THEN pc ELSE status[u]
    BY <2>1 DEF Control, Typed
  <2> QED BY <2>1, <2>2 DEF memory, FreshInv, Outcomes
<1>7. CASE Answered
  <2>1. Push(Assistant(holder, own)) /\ status' = status /\ holder # 0 BY <1>7 DEF Answered, Goes, control
  <2>2. Assistant(holder, own) \in Spoken /\ Assistant(holder, own).turn = holder BY <1>1, TurnMessages, TurnOf
  <2> QED BY <2>1, <2>2, HolderPushesFresh
<1>8. ASSUME NEW n \in 1 .. MaxToolCalls, CallsTools(n) PROVE FreshInv'
  <2>1. Push(Calls(holder, own, rounds, n)) /\ status' = status /\ holder # 0 BY <1>8 DEF CallsTools, Goes, control
  <2>2. n \in Nat OBVIOUS
  <2>3. Calls(holder, own, rounds, n) \in Spoken /\ Calls(holder, own, rounds, n).turn = holder
    BY <1>1, <2>2, TurnMessages, TurnOf
  <2> QED BY <2>1, <2>3, HolderPushesFresh
<1>9. CASE Interrupted
  <2>1. KeepHeard /\ status' = status /\ holder' = holder /\ holder # 0 BY <1>9 DEF Interrupted, Goes, control
  <2>2. CASE heard # {}
    <3>1. Push(Assistant(holder, heard)) BY <2>1, <2>2 DEF KeepHeard
    <3>2. Assistant(holder, heard) \in Spoken /\ Assistant(holder, heard).turn = holder
      BY <1>1, TurnMessages, TurnOf
    <3> QED BY <2>1, <3>1, <3>2, HolderPushesFresh
  <2>3. CASE heard = {} BY <1>2, <2>1, <2>3 DEF KeepHeard
  <2> QED BY <2>2, <2>3
<1>10. CASE ToolReturns
  <2>1. Push(Result(holder, rounds, pending)) /\ status' = status /\ holder # 0
    BY <1>10 DEF ToolReturns, Goes, control
  <2>2. Result(holder, rounds, pending) \in Spoken /\ Result(holder, rounds, pending).turn = holder
    BY <1>1, TurnMessages, TurnOf
  <2> QED BY <2>1, <2>2, HolderPushesFresh
<1>11. CASE \/ CancelTurn \/ CallLlm \/ RequestFails \/ StreamStarts \/ Piece \/ StreamBreaks \/ UNCHANGED vars
  <2>1. UNCHANGED <<memory, holder, status>>
    BY <1>11 DEF CancelTurn, CallLlm, RequestFails, StreamStarts, Piece, StreamBreaks, Goes, control, vars
  <2> QED BY <1>2, <2>1
<1> QED BY <1>3, <1>4, <1>5, <1>6, <1>7, <1>8, <1>9, <1>10, <1>11 DEF Next, HandleTurn

\* A step that neither adds a message nor says anything.
LEMMA SameUnder ==
  ASSUME NEW n \in Nat, Under(n), UNCHANGED <<messages, holder, spoken>>, Unkept' = Unkept,
         pc' \in InTurn => pc \in InTurn /\ (Reaches(n) => Reaches(n)')
  PROVE  Under(n)'
BY DEF Under, OwnFrom, Tells, Forgotten, Linked, InTurn

\* The user's words begin the transcript.
LEMMA LockTurn == ASSUME Control, SpokenInv, RecallInv, FreshInv, NEW t \in Turns, AgentLock(t) PROVE TurnInv'
<1>1. /\ holder = 0 /\ status[t] = "waiting" /\ holder' = t /\ pc' = "call" /\ Push(User(t))
      /\ UNCHANGED <<call, spoken>>
  BY DEF AgentLock
<1>2. rounds' = 0 /\ spoken'[t] = 0
  BY <1>1 DEF Control, LockInv, RoundInv, SpokenInv, call
<1>3. messages' = Pushed(Loaded, User(t)) BY <1>1 DEF Push, Remember
<1>4. t \in Nat /\ User(t) \in Spoken /\ User(t).text = {} /\ User(t).turn = t
  <2>1. t \in Nat BY DEF Turns
  <2> QED BY <2>1, TurnMessages DEF User, Msg
<1>5. Conversation(Loaded, prompt) BY LoadedIs
<1>6. \A i \in 1 .. Len(Loaded) : Loaded[i].turn # t BY <1>1, LoadedFresh
<1>7. /\ Len(messages') \in Nat /\ Len(messages') >= 1 /\ messages'[Len(messages')] = User(t)
      /\ \A i \in 1 .. Len(messages') - 1 : \E j \in 1 .. Len(Loaded) : messages'[i] = Loaded[j]
  BY <1>3, <1>4, <1>5, PushedFrom
<1>8. PICK n \in Nat : n = Len(messages') BY <1>7
<1>9. OwnFrom(messages', t, n)
  <2>1. n \in 1 .. Len(messages') BY <1>7, <1>8
  <2>2. ASSUME NEW i \in 1 .. Len(messages') PROVE messages'[i].turn = t <=> i >= n
    <3>1. CASE i = n BY <1>4, <1>7, <1>8, <3>1
    <3>2. CASE i # n
      <4>1. i \in 1 .. Len(messages') - 1 /\ ~(i >= n) BY <1>8, <3>2
      <4> QED BY <1>6, <1>7, <4>1
    <3> QED BY <3>1, <3>2
  <2> QED BY <1>7, <1>8, <2>1, <2>2 DEF OwnFrom
<1>10. Tells(messages', n, 0, {})
  <2>1. \A i \in n .. Len(messages') : messages'[i].text = {} BY <1>4, <1>7, <1>8
  <2> QED BY <2>1 DEF Tells
<1>11. Linked(messages', t, n)
  <2>1. n + 1 .. Len(messages') = {} BY <1>8
  <2> QED BY <2>1 DEF Linked
<1>12. Reaches(n)' BY <1>1, <1>2, <1>7, <1>8 DEF Reaches, LastOf
<1>14. Unkept' = {} BY <1>1 DEF Unkept
<1>15. Under(n)'
  <2>1. OwnFrom(messages, holder, n)' BY <1>1, <1>9 DEF OwnFrom
  <2>2. Tells(messages, n, spoken[holder], Unkept)' BY <1>1, <1>2, <1>10, <1>14 DEF Tells
  <2>3. Linked(messages, holder, n)' BY <1>1, <1>11 DEF Linked
  <2> QED BY <1>12, <2>1, <2>2, <2>3 DEF Under
<1>16. n \in 1 .. Len(messages') BY <1>7, <1>8
<1> QED BY <1>15, <1>16 DEF TurnInv

\* A step that leaves the memory alone.
LEMMA QuietTurn ==
  ASSUME Control, SpokenInv, TurnInv, CallLlm \/ RequestFails \/ StreamStarts \/ StreamBreaks
  PROVE  TurnInv'
<1>1. CASE pc' = "failed" BY <1>1 DEF TurnInv, InTurn, Outcomes
<1>2. CASE pc' # "failed"
  <2>1. /\ UNCHANGED <<messages, holder, spoken, rounds, pending>>
        /\ pc \in {"call", "request"} /\ pc' \in {"request", "stream", "cancelled", "exhausted"}
        /\ pc' = "request" => own' = {}
        /\ pc = "request" => own = {}
        /\ pc' = "stream" => pc = "request" /\ own' = own
    BY <1>2 DEF CallLlm, RequestFails, StreamStarts, StreamBreaks, Goes, memory, control, call, Control, RoundInv
  <2>2. PICK n \in 1 .. Len(messages) : Under(n) BY <2>1 DEF TurnInv, InTurn
  <2>3. Unkept' = Unkept BY <2>1 DEF Unkept
  <2>4. Reaches(n) => Reaches(n)' BY <2>1 DEF Reaches
  <2>5. Under(n)' BY <2>1, <2>2, <2>3, <2>4, SameUnder DEF InTurn
  <2>6. n \in 1 .. Len(messages') BY <2>1
  <2> QED BY <2>5, <2>6 DEF TurnInv
<1> QED BY <1>1, <1>2

\* A piece that is sent is the next one, and comes after all the memory has.
LEMMA PieceTurn ==
  ASSUME Control, SpokenInv, TurnInv, Piece
  PROVE  TurnInv'
<1>1. /\ pc = "stream" /\ pc' = "stream" /\ holder # 0
      /\ own' = own \cup {spoken[holder] + 1} /\ spoken' = [spoken EXCEPT ![holder] = @ + 1]
      /\ UNCHANGED <<messages, holder, rounds, pending>>
  BY DEF Piece, Goes, control, memory
<1>2. PICK t \in Turns : t = holder BY <1>1, AgentAssumption DEF Control, Typed, Turns
<1>3. PICK K \in Nat : K = spoken[t] BY <1>2 DEF Control, Typed
<1>4. spoken'[t] = K + 1 BY <1>1, <1>2, <1>3 DEF Control, Typed
<1>5. PICK n \in 1 .. Len(messages) : Under(n) BY <1>1 DEF TurnInv, InTurn
<1>6. Tells(messages, n, K, own) BY <1>1, <1>2, <1>3, <1>5 DEF Under, Unkept
<1>7. Tells(messages, n, K + 1, own \cup {K + 1})
  <2>1. ASSUME NEW p \in 1 .. K + 1
        PROVE  \/ p \in own \cup {K + 1} \/ \E i \in n .. Len(messages) : p \in messages[i].text
               \/ Forgotten(messages, n, own \cup {K + 1}, p)
    <3>1. CASE p = K + 1 BY <3>1
    <3>2. CASE p # K + 1
      <4>1. p \in 1 .. K /\ p < K + 1 BY <3>2
      <4>2. Forgotten(messages, n, own, p) => Forgotten(messages, n, own \cup {K + 1}, p)
        BY <4>1 DEF Forgotten
      <4> QED BY <1>6, <4>1, <4>2 DEF Tells
    <3> QED BY <3>1, <3>2
  <2>2. own \cup {K + 1} \subseteq 1 .. K + 1
    <3>1. own \subseteq 1 .. K BY <1>6 DEF Tells
    <3> QED BY <3>1
  <2>3. ASSUME NEW i \in n .. Len(messages), NEW p \in messages[i].text
        PROVE  p \in 1 .. K + 1 /\ \A q \in own \cup {K + 1} : p < q
    <3>1. p \in 1 .. K /\ \A q \in own : p < q BY <1>6 DEF Tells
    <3> QED BY <3>1
  <2>4. \A i, j \in n .. Len(messages) : i < j =>
          \A p \in messages[i].text, q \in messages[j].text : p < q
    BY <1>6 DEF Tells
  <2> QED BY <2>1, <2>2, <2>3, <2>4 DEF Tells
<1>8. Unkept' = own \cup {K + 1} BY <1>1, <1>2, <1>3 DEF Unkept
<1>9. Tells(messages, n, spoken[holder], Unkept)' BY <1>1, <1>2, <1>4, <1>7, <1>8 DEF Tells, Forgotten
<1>10. Under(n)' BY <1>1, <1>5, <1>9 DEF Under, OwnFrom, Linked, InTurn, Reaches
<1> QED BY <1>1, <1>5, <1>10 DEF TurnInv

\* A response that is complete or cut off is remembered, after all that was said before.
LEMMA ResponseTurn ==
  ASSUME Control, RecallInv, FreshInv, TurnInv, Answered \/ Interrupted
  PROVE  TurnInv'
<1>1. /\ pc \in {"request", "stream"} /\ pc' \in {"answered", "cancelled"} /\ holder # 0
      /\ UNCHANGED <<holder, spoken>> /\ heard = own
  BY DEF Answered, Interrupted, Goes, control, Control, RoundInv
<1>2. PICK n \in 1 .. Len(messages) : Under(n) BY <1>1 DEF TurnInv, InTurn
<1>3. Unkept' = {} /\ Unkept = own BY <1>1 DEF Unkept
<1>4. pc' \notin InTurn BY <1>1 DEF InTurn
<1>5. CASE Push(Assistant(holder, own)) /\ pc = "stream"
  <2>1. /\ Assistant(holder, own) \in Spoken /\ Assistant(holder, own).turn = holder
        /\ Assistant(holder, own).text = own /\ Assistant(holder, own).role # "user"
    <3>1. holder \in Nat /\ own \in SUBSET Nat /\ 0 \in Nat BY DEF Control, Typed
    <3> QED BY <3>1, TurnMessages DEF Assistant, Msg
  <2>2. \E k \in 1 .. Len(messages') :
          OwnFrom(messages', holder', k) /\ Tells(messages', k, spoken'[holder'], Unkept')
    BY <1>1, <1>2, <1>3, <1>5, <2>1, PushUnder
  <2>3. PICK k \in 1 .. Len(messages') :
          OwnFrom(messages', holder', k) /\ Tells(messages', k, spoken'[holder'], Unkept')
    BY <2>2
  <2>4. Under(k)' BY <1>4, <2>3 DEF Under
  <2> QED BY <2>4 DEF TurnInv
<1>6. CASE UNCHANGED messages /\ own = {}
  <2>1. Unkept' = Unkept BY <1>3, <1>6
  <2>2. n \in Nat OBVIOUS
  <2>3. Under(n)' BY <1>1, <1>2, <1>4, <1>6, <2>1, <2>2, SameUnder
  <2> QED BY <1>6, <2>3 DEF TurnInv
<1>7. CASE Answered BY <1>5, <1>7 DEF Answered, Goes
<1>8. CASE Interrupted
  <2>1. CASE own # {}
    <3>1. pc = "stream" BY <1>1, <2>1 DEF Control, RoundInv
    <3>2. Push(Assistant(holder, own)) BY <1>1, <1>8, <2>1 DEF Interrupted, KeepHeard
    <3> QED BY <1>5, <3>1, <3>2
  <2>2. CASE own = {} BY <1>1, <1>6, <1>8, <2>2 DEF Interrupted, KeepHeard, memory
  <2> QED BY <2>1, <2>2
<1> QED BY <1>7, <1>8

\* Calls follow the user's words or the last result of the round before.
LEMMA CallsTurn ==
  ASSUME Control, RecallInv, FreshInv, TurnInv, NEW c \in 1 .. MaxToolCalls, CallsTools(c)
  PROVE  TurnInv'
<1>1. /\ pc = "stream" /\ pc' = "tools" /\ holder # 0 /\ pending' = c
      /\ UNCHANGED <<holder, spoken, rounds>> /\ Push(Calls(holder, own, rounds, c))
  BY DEF CallsTools, Goes, control
<1>2. /\ holder \in Nat /\ own \in SUBSET Nat /\ rounds \in Nat /\ c \in Nat /\ c > 0 /\ c <= MaxToolCalls
      /\ MaxToolCalls \in Nat
  BY AgentAssumption DEF Control, Typed
<1>3. PICK m \in Spoken : m = Calls(holder, own, rounds, c) BY <1>2, TurnMessages
<1>4. /\ m.turn = holder /\ m.text = own /\ m.tool = <<rounds, c>> /\ m.role = "assistant"
  BY <1>3 DEF Calls, Msg
<1>5. m.tool # <<>> /\ m.tool[1] = rounds /\ m.tool[2] = c /\ IsCalls(m) BY <1>4 DEF IsCalls
<1>6. PICK n \in 1 .. Len(messages) : Under(n) BY <1>1 DEF TurnInv, InTurn
<1>7. Unkept' = {} /\ Unkept = own BY <1>1 DEF Unkept
<1>8. Reaches(n) BY <1>1, <1>6 DEF Under, InTurn
<1>9. Follows(holder, messages[Len(messages)], m)
  <2>1. messages[Len(messages)] = LastOf(holder, rounds) BY <1>1, <1>8 DEF Reaches
  <2> QED BY <1>2, <1>5, <2>1 DEF Follows, LastOf
<1>10. PICK k \in 1 .. Len(messages') :
         /\ OwnFrom(messages', holder', k)
         /\ Tells(messages', k, spoken'[holder'], Unkept')
         /\ Linked(messages', holder', k)
         /\ messages'[Len(messages')] = m
  BY <1>1, <1>3, <1>4, <1>6, <1>7, <1>9, PushUnder
<1>11. Reaches(k)'
  <2>1. Follows(holder, m, Result(holder, rounds, c))
    <3>1. Result(holder, rounds, c).tool = <<rounds, c>> BY DEF Result, Msg
    <3>2. /\ Result(holder, rounds, c).tool # <<>> /\ Result(holder, rounds, c).tool[1] = rounds
          /\ Result(holder, rounds, c).tool[2] = c
      BY <3>1
    <3> QED BY <1>2, <1>4, <1>5, <3>2 DEF Follows
  <2> QED BY <1>1, <1>10, <2>1 DEF Reaches
<1>12. Under(k)' BY <1>10, <1>11 DEF Under
<1> QED BY <1>12 DEF TurnInv

\* Results follow the calls one by one.
LEMMA ResultTurn ==
  ASSUME Control, RecallInv, FreshInv, TurnInv, ToolReturns
  PROVE  TurnInv'
<1>1. /\ pc = "tools" /\ pc' = (IF pending = 1 THEN "call" ELSE "tools") /\ holder # 0
      /\ pending' = pending - 1 /\ rounds' = (IF pending = 1 THEN rounds + 1 ELSE rounds)
      /\ UNCHANGED <<holder, spoken>> /\ Push(Result(holder, rounds, pending))
  BY DEF ToolReturns, Goes, control
<1>2. /\ holder \in Nat /\ rounds \in Nat /\ pending \in Nat /\ pending > 0 /\ MaxToolCalls \in Nat
  BY <1>1, AgentAssumption DEF Control, Typed, RoundInv
<1>3. PICK m \in Spoken : m = Result(holder, rounds, pending)
  <2>1. {} \in SUBSET Nat OBVIOUS
  <2> QED BY <1>2, <2>1, TurnMessages
<1>4. m.turn = holder /\ m.text = {} /\ m.role # "user" BY <1>3 DEF Result, Msg
<1>5. PICK n \in 1 .. Len(messages) : Under(n) BY <1>1 DEF TurnInv, InTurn
<1>6. Unkept' = {} /\ Unkept = {} BY <1>1 DEF Unkept
<1>7. Reaches(n) BY <1>1, <1>5 DEF Under, InTurn
<1>8. Follows(holder, messages[Len(messages)], m) BY <1>1, <1>3, <1>7 DEF Reaches
<1>9. PICK k \in 1 .. Len(messages') :
        /\ OwnFrom(messages', holder', k)
        /\ Tells(messages', k, spoken'[holder'], Unkept')
        /\ Linked(messages', holder', k)
        /\ messages'[Len(messages')] = m
  BY <1>1, <1>3, <1>4, <1>5, <1>6, <1>8, PushUnder
<1>10. CASE pending = 1
  <2>1. messages'[Len(messages')] = LastOf(holder, rounds + 1)
    <3>1. rounds + 1 # 0 /\ rounds + 1 - 1 = rounds BY <1>2
    <3>2. LastOf(holder, rounds + 1) = Result(holder, rounds + 1 - 1, 1) BY <1>2, <3>1 DEF LastOf
    <3>3. LastOf(holder, rounds + 1) = Result(holder, rounds, 1) BY <3>1, <3>2
    <3>4. m = Result(holder, rounds, 1) BY <1>3, <1>10
    <3> QED BY <1>9, <3>3, <3>4
  <2>2. Reaches(k)' BY <1>1, <1>2, <1>10, <2>1 DEF Reaches, LastOf
  <2>3. Under(k)' BY <1>9, <2>2 DEF Under
  <2> QED BY <2>3 DEF TurnInv
<1>11. CASE pending # 1
  <2>1. Follows(holder, m, Result(holder, rounds, pending - 1))
    <3>1. Result(holder, rounds, pending - 1).tool = <<rounds, pending - 1>> BY DEF Result, Msg
    <3>2. /\ Result(holder, rounds, pending - 1).tool # <<>>
          /\ Result(holder, rounds, pending - 1).tool[1] = rounds
          /\ Result(holder, rounds, pending - 1).tool[2] = pending - 1
      BY <3>1
    <3>3. pending - 1 > 0 /\ pending - 1 + 1 = pending BY <1>2, <1>11
    <3> QED BY <1>3, <3>2, <3>3 DEF Follows
  <2>2. Reaches(k)' BY <1>1, <1>9, <1>11, <2>1 DEF Reaches
  <2>3. Under(k)' BY <1>9, <2>2 DEF Under
  <2> QED BY <2>3 DEF TurnInv
<1> QED BY <1>10, <1>11

LEMMA StepKeepsTurn == IInv /\ TranscriptInv /\ [Next]_vars => TurnInv'
<1> SUFFICES ASSUME Control, SpokenInv, RecallInv, FreshInv, TurnInv, [Next]_vars PROVE TurnInv'
  BY DEF IInv, Control, TranscriptInv
<1>1. CASE TriggerAgent \/ CancelTurn \/ UNCHANGED vars
  <2>1. UNCHANGED <<messages, holder, spoken, pc, own, rounds, pending>>
    BY <1>1 DEF TriggerAgent, CancelTurn, vars, control, call, memory
  <2>2. CASE pc \in InTurn \cup (Outcomes \ {"failed"})
    <3>1. PICK n \in 1 .. Len(messages) : Under(n) BY <2>2 DEF TurnInv
    <3>2. Unkept' = Unkept BY <2>1 DEF Unkept
    <3>3. Under(n)' BY <2>1, <3>1, <3>2, SameUnder DEF Reaches
    <3> QED BY <2>1, <3>1, <3>3 DEF TurnInv
  <2>3. CASE pc \notin InTurn \cup (Outcomes \ {"failed"}) BY <2>1, <2>3 DEF TurnInv, InTurn, Outcomes
  <2> QED BY <2>2, <2>3
<1>2. CASE \E p \in Prompts \cup {NoPrompt} : ReloadConfig(p)
  <2>1. pc' = "idle" BY <1>2 DEF ReloadConfig, Control, LockInv
  <2> QED BY <2>1 DEF TurnInv, InTurn, Outcomes
<1>3. CASE TurnEnds
  <2>1. pc' = "idle" BY <1>3 DEF TurnEnds
  <2> QED BY <2>1 DEF TurnInv, InTurn, Outcomes
<1> QED BY <1>1, <1>2, <1>3, LockTurn, QuietTurn, PieceTurn, ResponseTurn, CallsTurn, ResultTurn
        DEF Next, HandleTurn

LEMMA StepKeepsTranscript ==
  IInv /\ TranscriptInv /\ [Next]_vars => TranscriptInv'
BY StepKeepsFresh, StepKeepsTurn DEF IInv, Control, TranscriptInv

\* A transcript that does not begin with the user's words was cut.
LEMMA CutOrWhole ==
  ASSUME Control, RecallInv, FreshInv, pc # "idle", NEW n, Under(n)
  PROVE  /\ OwnAt = n .. Len(messages) /\ n \in DOMAIN messages
         /\ messages[n] = User(holder) \/ Cut
         /\ messages[n].role # "user" => Cut
<1>1. Len(messages) \in Nat /\ DOMAIN messages = 1 .. Len(messages)
  BY DEF Control, LockInv, FreshInv, RecallInv, Conversation
<1>2. OwnFrom(messages, holder, n) BY DEF Under
<1>3. OwnAt = n .. Len(messages) /\ n \in DOMAIN messages BY <1>1, <1>2 DEF OwnAt, OwnFrom
<1>4. CASE messages[n] = User(holder)
  <2>1. messages[n].role = "user" BY <1>4 DEF User, Msg
  <2> QED BY <1>3, <1>4, <2>1
<1>5. CASE messages[n].role # "user" /\ n = Oldest(messages) /\ Len(messages) = MaxMessages
  BY <1>3, <1>5 DEF Cut
<1> QED BY <1>2, <1>3, <1>4, <1>5 DEF OwnFrom

\* What the invariant says of a request, and of a turn that ends.
LEMMA TranscriptGoal == IInv /\ TranscriptInv => LlmSeesTurn /\ SpokenIsRemembered
<1> SUFFICES ASSUME Control, RecallInv, FreshInv, TurnInv PROVE LlmSeesTurn /\ SpokenIsRemembered
  BY DEF IInv, Control, TranscriptInv
<1>1. LlmSeesTurn
  <2> SUFFICES ASSUME pc = "request" PROVE \E n \in DOMAIN messages : TranscriptFrom(n) BY DEF LlmSeesTurn
  <2>1. PICK n \in 1 .. Len(messages) : Under(n) BY DEF TurnInv, InTurn
  <2>2. /\ Linked(messages, holder, n) /\ messages[Len(messages)] = LastOf(holder, rounds)
        /\ rounds = 0 => n = Len(messages)
    BY <2>1 DEF Under, Reaches, InTurn
  <2>3. /\ OwnAt = n .. Len(messages) /\ n \in DOMAIN messages
        /\ messages[n] = User(holder) \/ Cut
    BY <2>1, CutOrWhole
  <2>4. TranscriptFrom(n) BY <2>2, <2>3 DEF TranscriptFrom, Linked, LastOf
  <2> QED BY <2>3, <2>4
<1>2. SpokenIsRemembered
  <2> DEFINE kept == UNION {messages[i].text : i \in OwnAt}
  <2> SUFFICES ASSUME pc \in Outcomes \ {"failed"}
               PROVE  /\ kept \subseteq 1 .. spoken[holder]
                      /\ \A p \in 1 .. spoken[holder] : p \notin kept => Cut /\ \A q \in kept : p < q
                      /\ \A i, j \in OwnAt : i < j =>
                           \A p \in messages[i].text, q \in messages[j].text : p < q
    BY DEF SpokenIsRemembered
  <2>1. PICK n \in 1 .. Len(messages) : Under(n) BY DEF TurnInv
  <2>2. OwnAt = n .. Len(messages) /\ (messages[n].role # "user" => Cut)
    BY <2>1, CutOrWhole DEF Outcomes
  <2>3. Tells(messages, n, spoken[holder], {}) BY <2>1 DEF Under, Unkept, Outcomes
  <2>4. ASSUME NEW p \in 1 .. spoken[holder], p \notin kept PROVE Cut /\ \A q \in kept : p < q
    <3>1. Forgotten(messages, n, {}, p) BY <2>2, <2>3, <2>4 DEF Tells
    <3> QED BY <2>2, <3>1 DEF Forgotten
  <2>5. kept \subseteq 1 .. spoken[holder] BY <2>2, <2>3 DEF Tells
  <2>6. \A i, j \in OwnAt : i < j => \A p \in messages[i].text, q \in messages[j].text : p < q
    BY <2>2, <2>3 DEF Tells
  <2> QED BY <2>4, <2>5, <2>6
<1> QED BY <1>1, <1>2

LEMMA TranscriptKept == Spec => [](IInv /\ TranscriptInv)
BY InitIInv, InitTranscript, StepKeeps, StepKeepsTranscript, PTL DEF Spec

\* In a window of any length, whatever prompts are loaded, other turns said and other tasks
\* do: each request shows the model the turn's transcript at the end of the memory, whole or
\* as much of its end as there is room for beside the prompt.  core.rs 64-190, memory.rs
THEOREM SeesTurn == Spec => []LlmSeesTurn
BY TranscriptKept, TranscriptGoal, PTL

\* The memory of a turn that ends otherwise than by an error has each piece of text the
\* caller was sent, once and in order, whatever was retried, interrupted or cancelled, but
\* for the first pieces of a turn that outgrew the window.
\* core.rs 64-190, providers/openai.rs, providers/fallback.rs
THEOREM RemembersTurn == Spec => []SpokenIsRemembered
BY TranscriptKept, TranscriptGoal, PTL

----
(* The refinement of AgentTask *)

\* A step in which one task moves.
LEMMA OneMoves ==
  ASSUME NEW h \in Turns, NEW from, NEW to,
         AgentState(h) = from, AgentState(h)' = to,
         \A t \in Turns \ {h} : AgentState(t)' = AgentState(t)
  PROVE  Task!Moves(h, from, to)
BY DEF Task!Moves

\* A step in which none does.
LEMMA NoneMoves ==
  ASSUME \A t \in Turns : AgentState(t)' = AgentState(t)
  PROVE  [t \in Turns |-> AgentState(t)]' = [t \in Turns |-> AgentState(t)]
OBVIOUS

\* A step of the holder moves its own task, if any.
LEMMA HolderMoves ==
  ASSUME Control, Control', NEW h \in Turns, h = holder,
         NEW from, NEW to, HolderState = from, HolderState' = to,
         holder' = holder, status' = status
  PROVE  /\ Task!Moves(h, from, to)
         /\ from = to => [t \in Turns |-> AgentState(t)]' = [t \in Turns |-> AgentState(t)]
<1>1. status[h] = "active" /\ status'[h] = "active" BY DEF Control, LockInv
<1>2. AgentState(h) = from BY <1>1 DEF AgentState
<1>3. AgentState(h)' = to BY <1>1 DEF AgentState
<1>4. \A t \in Turns \ {h} : AgentState(t)' = AgentState(t)
  BY DEF Control, LockInv, AgentState
<1>5. Task!Moves(h, from, to) BY <1>2, <1>3, <1>4, OneMoves
<1>6. from = to => \A t \in Turns : AgentState(t)' = AgentState(t)
  BY <1>2, <1>3, <1>4
<1> QED BY <1>5, <1>6, NoneMoves

\* What a step between two places of handle_turn is to the orchestrator, once the model
\* has been asked.
LEMMA CalledMoves ==
  ASSUME Control, Control', Called, Called', holder' = holder, status' = status, cancelled' = cancelled,
         spoken' = spoken,
         NEW from, NEW to, HolderState = from, HolderState' = to,
         \/ from = to
         \/ from = "streaming" /\ to \in {"finishing", "stopping"}
  PROVE  [Task!Next]_(Task!taskVars)
<1>1. PICK h \in Turns : h = holder
  BY AgentAssumption DEF Called, Control, Typed, Turns
<1>2. /\ Task!Moves(h, from, to)
      /\ from = to => [t \in Turns |-> AgentState(t)]' = [t \in Turns |-> AgentState(t)]
  BY <1>1, HolderMoves
<1>3. (IF Called THEN holder ELSE 0)' = IF Called THEN holder ELSE 0 OBVIOUS
<1>4. CASE from = to BY <1>2, <1>3, <1>4 DEF Task!taskVars
<1>5. CASE from = "streaming" /\ to = "finishing"
  <2>1. Task!Complete(h) BY <1>2, <1>3, <1>5 DEF Task!Complete
  <2> QED BY <2>1 DEF Task!Next
<1>6. CASE from = "streaming" /\ to = "stopping"
  <2>1. Task!Stop(h) BY <1>2, <1>3, <1>6 DEF Task!Stop
  <2> QED BY <2>1 DEF Task!Next
<1> QED BY <1>4, <1>5, <1>6

\* The first request of a turn is the step at which its task has the mutex.
LEMMA FirstCall ==
  ASSUME Control, Control', CallLlm, rounds = 0
  PROVE  [Task!Next]_(Task!taskVars)
<1>0. holder # 0 BY DEF CallLlm, Goes
<1>1. PICK h \in Turns : h = holder
  BY <1>0, AgentAssumption DEF Control, Typed, Turns
<1>2. /\ pc = "call" /\ holder # 0
      /\ holder' = holder /\ status' = status /\ cancelled' = cancelled /\ spoken' = spoken
      /\ pc' = IF holder \in cancelled THEN "cancelled" ELSE "request"
  BY AgentAssumption DEF CallLlm, Goes, control
<1>3. ~Called /\ Called' BY <1>2 DEF Called
<1> DEFINE to == IF h \in cancelled THEN "stopping" ELSE "streaming"
<1>4. HolderState = "waiting" /\ HolderState' = to
  BY <1>1, <1>2, <1>3 DEF HolderState, Outcomes
<1> HIDE DEF to
<1>5. Task!Moves(h, "waiting", to) BY <1>1, <1>2, <1>4, HolderMoves
<1>6. (IF Called THEN holder ELSE 0) = 0 /\ (IF Called THEN holder ELSE 0)' = h
  BY <1>1, <1>2, <1>3
<1>7. Task!Lock(h) BY <1>2, <1>5, <1>6 DEF Task!Lock, to
<1> QED BY <1>7 DEF Task!Next

LEMMA SpeakMoves ==
  ASSUME Control, Control', SpokenInv, Piece
  PROVE  [Task!Next]_(Task!taskVars)
<1>1. /\ pc = "stream" /\ pc' = "stream" /\ Cardinality(own) < MaxPieces /\ holder # 0
      /\ holder' = holder /\ status' = status /\ cancelled' = cancelled
      /\ spoken' = [spoken EXCEPT ![holder] = @ + 1]
  BY DEF Piece, Goes, control
<1>2. PICK h \in Turns : h = holder
  BY <1>1, AgentAssumption DEF Control, Typed, Turns
<1>3. spoken[h] < MaxRounds * MaxPieces BY <1>1, <1>2, RoomLeft DEF Room
<1>4. Called /\ Called' BY <1>1 DEF Called
<1>5. HolderState = "streaming" /\ HolderState' = "streaming" BY <1>1, <1>4 DEF HolderState, Outcomes
<1>6. [t \in Turns |-> AgentState(t)]' = [t \in Turns |-> AgentState(t)]
  BY <1>1, <1>2, <1>5, HolderMoves
<1>7. AgentState(h) = "streaming" BY <1>2, <1>5 DEF AgentState, Control, LockInv
<1>8. (IF Called THEN holder ELSE 0)' = IF Called THEN holder ELSE 0 BY <1>1, <1>4
<1>9. Task!Speak(h) BY <1>1, <1>2, <1>3, <1>6, <1>7, <1>8 DEF Task!Speak
<1> QED BY <1>9 DEF Task!Next

LEMMA EndMoves ==
  ASSUME Control, Control', TurnEnds
  PROVE  [Task!Next]_(Task!taskVars)
<1>1. /\ holder # 0 /\ pc \in Outcomes /\ holder' = 0 /\ pc' = "idle"
      /\ status' = [status EXCEPT ![holder] = pc]
      /\ UNCHANGED <<cancelled, spoken>>
  BY DEF TurnEnds
<1>2. PICK h \in Turns : h = holder
  BY <1>1, AgentAssumption DEF Control, Typed, Turns
<1>3. \A t \in Turns : status'[t] = IF t = h THEN pc ELSE status[t]
  BY <1>1, <1>2 DEF Control, Typed
<1>4. Called /\ ~Called' BY <1>1 DEF Called, Outcomes
<1>5. (IF Called THEN holder ELSE 0)' = 0 BY <1>4
<1>6. \A t \in Turns \ {h} : AgentState(t)' = AgentState(t)
  BY <1>1, <1>2, <1>3 DEF Control, LockInv, AgentState
<1>7. status[h] = "active" BY <1>2 DEF Control, LockInv
<1>8. AgentState(h) = HolderState BY <1>7 DEF AgentState
<1>9. CASE pc = "answered"
  <2>1. AgentState(h) = "finishing" BY <1>4, <1>8, <1>9 DEF HolderState
  <2>2. AgentState(h)' = "answered" BY <1>3, <1>9 DEF AgentState
  <2>3. Task!Moves(h, "finishing", "answered") BY <1>6, <2>1, <2>2, OneMoves
  <2>4. Task!Answer(h) BY <1>1, <1>5, <2>3 DEF Task!Answer
  <2> QED BY <2>4 DEF Task!Next
<1>10. CASE pc # "answered"
  <2>1. AgentState(h) = "stopping" BY <1>1, <1>4, <1>8, <1>10 DEF HolderState
  <2>2. AgentState(h)' = "unanswered" BY <1>1, <1>3, <1>10 DEF AgentState, Outcomes
  <2>3. Task!Moves(h, "stopping", "unanswered") BY <1>6, <2>1, <2>2, OneMoves
  <2>4. Task!End(h) BY <1>1, <1>5, <2>3 DEF Task!End
  <2> QED BY <2>4 DEF Task!Next
<1> QED BY <1>9, <1>10

LEMMA TurnImplements ==
  ASSUME Control, Control', SpokenInv, HandleTurn
  PROVE  [Task!Next]_(Task!taskVars)
<1>1. CASE CallLlm /\ rounds = 0 BY <1>1, FirstCall
<1>2. CASE CallLlm /\ rounds # 0
  <2>1. /\ pc = "call" /\ holder # 0 /\ rounds' = rounds
        /\ pc' \in {"exhausted", "cancelled", "request"}
        /\ holder' = holder /\ status' = status /\ cancelled' = cancelled /\ spoken' = spoken
    BY <1>2 DEF CallLlm, Goes, control, call
  <2>2. Called /\ Called' BY <1>2, <2>1 DEF Called
  <2>3. HolderState = "streaming" BY <2>1, <2>2 DEF HolderState, Outcomes
  <2>4. HolderState' \in {"streaming", "stopping"} BY <2>1, <2>2 DEF HolderState, Outcomes
  <2> QED BY <2>1, <2>2, <2>3, <2>4, CalledMoves
<1>3. CASE Piece BY <1>3, SpeakMoves
<1>4. CASE TurnEnds BY <1>4, EndMoves
<1>5. CASE RequestFails \/ StreamStarts \/ StreamBreaks \/ Answered \/ Interrupted \/ ToolReturns
           \/ \E n \in 1 .. MaxToolCalls : CallsTools(n)
  <2>1. /\ pc \in {"request", "stream", "tools"} /\ holder # 0
        /\ holder' = holder /\ status' = status /\ cancelled' = cancelled /\ spoken' = spoken
    BY <1>5 DEF RequestFails, StreamStarts, StreamBreaks, Answered, Interrupted, ToolReturns, CallsTools,
                Goes, control
  <2>2. Called BY <2>1 DEF Called
  <2>3. pc' \in {"request", "stream", "tools", "call"} \cup Outcomes
    BY <1>5 DEF RequestFails, StreamStarts, StreamBreaks, Answered, Interrupted, ToolReturns, CallsTools,
                Goes, Outcomes
  <2>4. pc' = "call" => rounds' # 0
    <3>1. rounds \in Nat BY AgentAssumption DEF Control, Typed
    <3>2. pc' = "call" => rounds' = rounds + 1
      BY <1>5 DEF RequestFails, StreamStarts, StreamBreaks, Answered, Interrupted, ToolReturns, CallsTools,
                  Goes, Outcomes
    <3> QED BY <3>1, <3>2
  <2>5. Called' BY <2>1, <2>4 DEF Called
  <2>6. HolderState = "streaming" BY <2>1, <2>2 DEF HolderState, Outcomes
  <2>7. HolderState' \in {"streaming", "finishing", "stopping"} BY <2>5 DEF HolderState
  <2> QED BY <2>1, <2>2, <2>5, <2>6, <2>7, CalledMoves
<1> QED BY <1>1, <1>2, <1>3, <1>4, <1>5 DEF HandleTurn

\* The steps of the orchestrator, of a reload and of the mutex.
LEMMA OthersImplement ==
  ASSUME Control, Control',
         \/ TriggerAgent \/ CancelTurn
         \/ \E p \in Prompts \cup {NoPrompt} : ReloadConfig(p)
         \/ \E t \in Turns : AgentLock(t)
  PROVE  [Task!Next]_(Task!taskVars)
<1>1. CASE TriggerAgent
  <2>1. turn + 1 \in Turns BY <1>1 DEF TriggerAgent, Control, Typed, Turns
  <2>2. PICK u \in Turns : u = turn + 1 BY <2>1
  <2>3. /\ \A t \in Turns : status'[t] = IF t = u THEN "waiting" ELSE status[t]
        /\ UNCHANGED <<holder, pc, cancelled, rounds, spoken>>
    BY <1>1, <2>2 DEF TriggerAgent, Control, Typed, call
  <2>4. status[u] = "none" BY <2>2 DEF Control, Typed, LockInv, Turns
  <2>5. Called' = Called /\ HolderState' = HolderState BY <2>3 DEF Called, HolderState
  <2>6. AgentState(u) = "none" /\ AgentState(u)' = "waiting" BY <2>3, <2>4 DEF AgentState, Outcomes
  <2>7. \A t \in Turns \ {u} : AgentState(t)' = AgentState(t) BY <2>3, <2>5 DEF AgentState
  <2>8. Task!Moves(u, "none", "waiting") BY <2>6, <2>7, OneMoves
  <2>9. (IF Called THEN holder ELSE 0)' = IF Called THEN holder ELSE 0 BY <2>3, <2>5
  <2>10. Task!Spawn(u) BY <2>3, <2>8, <2>9 DEF Task!Spawn
  <2> QED BY <2>10 DEF Task!Next
<1>2. CASE CancelTurn
  <2>1. PICK S \in SUBSET Turns : cancelled' = cancelled \cup S
    <3>1. {turn} \ {0} \in SUBSET Turns BY AgentAssumption DEF Control, Typed, Turns
    <3> QED BY <1>2, <3>1 DEF CancelTurn
  <2>2. UNCHANGED <<status, holder, pc, rounds, spoken>> BY <1>2 DEF CancelTurn, call
  <2>3. Called' = Called /\ HolderState' = HolderState BY <2>2 DEF Called, HolderState
  <2>4. \A t \in Turns : AgentState(t)' = AgentState(t) BY <2>2, <2>3 DEF AgentState
  <2>5. (IF Called THEN holder ELSE 0)' = IF Called THEN holder ELSE 0 BY <2>2, <2>3
  <2>6. Task!Cancel(S) BY <2>1, <2>2, <2>4, <2>5, NoneMoves DEF Task!Cancel
  <2> QED BY <2>6 DEF Task!Next
<1>3. ASSUME NEW p \in Prompts \cup {NoPrompt}, ReloadConfig(p) PROVE [Task!Next]_(Task!taskVars)
  <2>1. UNCHANGED <<status, holder, pc, rounds, spoken, cancelled>> BY <1>3 DEF ReloadConfig, control, call
  <2>2. Called' = Called /\ HolderState' = HolderState BY <2>1 DEF Called, HolderState
  <2>3. \A t \in Turns : AgentState(t)' = AgentState(t) BY <2>1, <2>2 DEF AgentState
  <2>4. (IF Called THEN holder ELSE 0)' = IF Called THEN holder ELSE 0 BY <2>1, <2>2
  <2> QED BY <2>1, <2>3, <2>4, NoneMoves DEF Task!taskVars
<1>4. ASSUME NEW u \in Turns, AgentLock(u) PROVE [Task!Next]_(Task!taskVars)
  <2>1. /\ holder = 0 /\ status[u] = "waiting" /\ holder' = u /\ pc' = "call"
        /\ status' = [status EXCEPT ![u] = "active"]
        /\ UNCHANGED <<cancelled, rounds, spoken>>
    BY <1>4 DEF AgentLock, call
  <2>2. \A t \in Turns : status'[t] = IF t = u THEN "active" ELSE status[t]
    BY <2>1 DEF Control, Typed
  <2>3. rounds' = 0 BY <2>1 DEF Control, LockInv, RoundInv
  <2>4. ~Called /\ ~Called' BY <2>1, <2>3 DEF Called
  <2>5. (IF Called THEN holder ELSE 0)' = IF Called THEN holder ELSE 0 BY <2>4
  <2>6. AgentState(u) = "waiting" BY <2>1 DEF AgentState, Outcomes
  <2>7. AgentState(u)' = "waiting" BY <2>2, <2>4 DEF AgentState, HolderState
  <2>8. \A t \in Turns \ {u} : AgentState(t)' = AgentState(t)
    <3>1. \A t \in Turns : status[t] # "active" BY <2>1 DEF Control, LockInv, Turns
    <3> QED BY <2>2, <3>1 DEF AgentState
  <2>9. \A t \in Turns : AgentState(t)' = AgentState(t) BY <2>6, <2>7, <2>8
  <2> QED BY <2>1, <2>5, <2>9, NoneMoves DEF Task!taskVars
<1> QED BY <1>1, <1>2, <1>3, <1>4

\* To the orchestrator the agent, with all its rounds of tools, its retries and its memory,
\* is one task per turn: alone under the mutex from its first request on, stopped before it
\* when the turn is already cancelled, with one answer at most, after its partial responses.
\* core.rs 64-190, orchestrator.rs
THEOREM AgentIsTask == Spec => ImplementsAgentTask
<1>1. Init => Task!Init
  <2> SUFFICES ASSUME Init PROVE Task!Init OBVIOUS
  <2>1. holder = 0 /\ cancelled = {} /\ spoken = [t \in Turns |-> 0] /\ \A t \in Turns : status[t] = "none"
    BY DEF Init
  <2>2. ~Called BY <2>1 DEF Called
  <2>3. \A t \in Turns : AgentState(t) = "none" BY <2>1 DEF AgentState, Outcomes
  <2> QED BY <2>1, <2>2, <2>3 DEF Task!Init
<1>2. IInv /\ IInv' /\ [Next]_vars => [Task!Next]_(Task!taskVars)
  <2> SUFFICES ASSUME Control, Control', SpokenInv, [Next]_vars PROVE [Task!Next]_(Task!taskVars)
    BY DEF IInv, Control
  <2>1. CASE UNCHANGED vars
    <3>1. UNCHANGED <<status, holder, pc, rounds, spoken, cancelled>> BY <2>1 DEF vars, control, call
    <3>2. Called' = Called /\ HolderState' = HolderState BY <3>1 DEF Called, HolderState
    <3>3. \A t \in Turns : AgentState(t)' = AgentState(t) BY <3>1, <3>2 DEF AgentState
    <3>4. (IF Called THEN holder ELSE 0)' = IF Called THEN holder ELSE 0 BY <3>1, <3>2
    <3> QED BY <3>1, <3>3, <3>4, NoneMoves DEF Task!taskVars
  <2>2. CASE HandleTurn BY <2>2, TurnImplements
  <2>3. CASE Next /\ ~HandleTurn BY <2>3, OthersImplement DEF Next
  <2> QED BY <2>1, <2>2, <2>3
<1> QED BY <1>1, <1>2, Invariant, PTL DEF Spec, ImplementsAgentTask, Task!Spec

----
(* CallMetrics: the agent's mutex and tools as the reload task and the connection's     *)
(* handler meet them                                                                    *)

\* The mutex is held by what runs under it, and tools run between two requests.
MutexInv ==
  /\ mutex = "turn" <=> step # "idle"
  /\ step # "tools" => calls = <<>>
  /\ mutex = "reload" => update # None /\ promptOf = update
  /\ handler \notin {"bridge", "abort"} => mutex # "reload" /\ update = None

\* Prompt and tools are of one version except while a reload, or what is left of one
\* that was aborted, is between them.
AgreeInv ==
  /\ step # "idle" => offered = toolsOf
  /\ handler = "bridge" /\ mutex # "reload" => promptOf = toolsOf

\* Once the map has been copied without a turn under way no tool runs any more.
QuietInv ==
  handler = "ended" /\ ~overtaken => step # "asks" /\ calls = <<>>

RecordInv ==
  /\ told = captured
  /\ record # None =>
       /\ handler = "ended"
       /\ \A k \in Keys : IF k \in Reserved THEN record[k] = "counted"
                          ELSE ~overtaken => record[k] = captured[k]

CaptureInv == MutexInv /\ AgreeInv /\ QuietInv /\ RecordInv

----
LEMMA InitCapture == CaptureInit => CaptureInv
BY DEF CaptureInit, CaptureInv, MutexInv, AgreeInv, QuietInv, RecordInv

\* The steps of a turn leave the handler and the reload task alone.
LEMMA CaptureTurnKeeps == ASSUME CaptureInv, Turn PROVE CaptureInv'
<1> USE DEF CaptureInv, MutexInv, AgreeInv, QuietInv, RecordInv, agentVars, mapVars, callVars
<1>1. CASE StartTurn BY <1>1 DEF StartTurn
<1>2. CASE Ask BY <1>2 DEF Ask, Leaves, TurnCancelled, Stopped
<1>3. CASE EndTurn BY <1>3 DEF EndTurn, Leaves
<1>4. CASE AnswerWithCalls
  <2>1. mutex = "turn" /\ ~(handler = "ended" /\ ~overtaken) BY <1>4 DEF AnswerWithCalls
  <2>2. UNCHANGED <<promptOf, toolsOf, mutex, offered, update, captured, told, handler, record, overtaken>>
    BY <1>4 DEF AnswerWithCalls
  <2>3. step' = "tools" BY <1>4 DEF AnswerWithCalls
  <2> QED BY <2>1, <2>2, <2>3
<1>5. CASE RunTool
  <2>1. mutex = "turn" /\ ~(handler = "ended" /\ ~overtaken) BY <1>5 DEF RunTool
  <2>2. UNCHANGED <<promptOf, toolsOf, mutex, step, offered, update, handler, record, overtaken>>
    BY <1>5 DEF RunTool
  <2>3. told' = captured' BY <1>5 DEF RunTool, Captured
  <2> QED BY <1>5, <2>1, <2>2, <2>3 DEF RunTool
<1> QED BY <1>1, <1>2, <1>3, <1>4, <1>5 DEF Turn

LEMMA CaptureReloadKeeps == ASSUME CaptureInv, Reload PROVE CaptureInv'
<1> USE DEF CaptureInv, MutexInv, AgreeInv, QuietInv, RecordInv, agentVars, turnVars, mapVars, callVars
<1>1. ASSUME NEW v \in Versions, HearUpdate(v) PROVE CaptureInv'
  <2>1. v # None BY MetricsAssumption DEF Versions
  <2> QED BY <1>1, <2>1 DEF HearUpdate
<1>2. CASE ReloadPrompt BY <1>2 DEF ReloadPrompt
<1>3. CASE ReloadTools BY <1>3 DEF ReloadTools
<1> QED BY <1>1, <1>2, <1>3 DEF Reload

\* The copy is the only step at which the record and the map meet.
LEMMA CaptureHandlerKeeps == ASSUME CaptureInv, Handler PROVE CaptureInv'
<1> USE DEF CaptureInv, MutexInv, AgreeInv, QuietInv, RecordInv, agentVars, turnVars, mapVars, Moves
<1>1. CASE BridgeEnds BY <1>1 DEF BridgeEnds
<1>2. CASE AbortReload BY <1>2 DEF AbortReload
<1>3. CASE Terminate BY <1>3 DEF Terminate
<1>4. CASE Uncount BY <1>4 DEF Uncount
<1>5. CASE Finalise
  <2>1. record' # None => \A k \in Keys : record'[k] = IF k \in Reserved THEN "counted" ELSE captured[k]
    BY <1>5 DEF Finalise, Merged
  <2>2. ~overtaken' => step = "idle" BY <1>5 DEF Finalise
  <2>3. UNCHANGED <<promptOf, toolsOf, mutex, step, offered, calls, update, captured, told>> /\ handler' = "ended"
    BY <1>5 DEF Finalise
  <2> QED BY <2>1, <2>2, <2>3, <1>5 DEF Finalise
<1> QED BY <1>1, <1>2, <1>3, <1>4, <1>5 DEF Handler

LEMMA CaptureKeeps == CaptureInv /\ [CaptureNext]_captureVars => CaptureInv'
<1> SUFFICES ASSUME CaptureInv, [CaptureNext]_captureVars PROVE CaptureInv'
  OBVIOUS
<1>1. CASE UNCHANGED captureVars
  BY <1>1 DEF captureVars, agentVars, turnVars, mapVars, callVars,
              CaptureInv, MutexInv, AgreeInv, QuietInv, RecordInv
<1>2. CASE BargeIn
  BY <1>2 DEF BargeIn, agentVars, mapVars, callVars,
              CaptureInv, MutexInv, AgreeInv, QuietInv, RecordInv
<1> QED BY <1>1, <1>2, CaptureTurnKeeps, CaptureReloadKeeps, CaptureHandlerKeeps DEF CaptureNext

----
LEMMA MinOfTwo == ASSUME NEW a \in Int, NEW b \in Int PROVE Min({a, b}) \in {a, b} /\ Min({a, b}) <= b
<1>1. \E x \in {a, b} : \A y \in {a, b} : x <= y
  <2>1. a <= b \/ b <= a OBVIOUS
  <2> QED BY <2>1
<1> QED BY <1>1 DEF Min

LEMMA InitCaptureTyped == CaptureInit => CaptureTypeOK
<1> SUFFICES ASSUME CaptureInit PROVE CaptureTypeOK
  OBVIOUS
<1>1. 1 \in Versions BY MetricsAssumption DEF Versions
<1>2. captured \in [Keys -> Values \cup {None}] /\ told \in [Keys -> Values \cup {None}]
  BY DEF CaptureInit, NothingYet
<1>3. <<>> \in Seq(ToolCalls) OBVIOUS
<1>4. 0 \in 0 .. MaxIterations /\ 0 \in 0 .. MaxCallTurns BY MetricsAssumption
<1> QED BY <1>1, <1>2, <1>3, <1>4 DEF CaptureInit, CaptureTypeOK

LEMMA CaptureTurnTyped == ASSUME CaptureTypeOK, Turn PROVE CaptureTypeOK'
<1> USE MetricsAssumption DEF CaptureTypeOK, agentVars, mapVars, callVars
<1>1. CASE StartTurn
  <2>1. turns' \in 0 .. MaxCallTurns /\ iterations' \in 0 .. MaxIterations BY <1>1 DEF StartTurn
  <2>2. /\ mutex' = "turn" /\ step' = "tools" /\ offered' = toolsOf /\ interrupted' = FALSE
        /\ UNCHANGED <<promptOf, toolsOf, calls, update, captured, told, handler, record, overtaken>>
    BY <1>1 DEF StartTurn
  <2> QED BY <2>1, <2>2
<1>2. CASE Ask BY <1>2 DEF Ask, Leaves
<1>3. CASE EndTurn BY <1>3 DEF EndTurn, Leaves
<1>4. CASE AnswerWithCalls
  <2>1. calls' \in Seq(ToolCalls)
    <3>1. PICK n \in 1 .. MaxCalls : calls' \in [1 .. n -> ToolCalls] BY <1>4 DEF AnswerWithCalls
    <3>2. n \in Nat OBVIOUS
    <3> QED BY <3>1, <3>2
  <2>2. iterations' \in 0 .. MaxIterations
    <3>1. iterations + 1 \in Int /\ MaxIterations \in Int OBVIOUS
    <3>2. Min({iterations + 1, MaxIterations}) \in {iterations + 1, MaxIterations}
          /\ Min({iterations + 1, MaxIterations}) <= MaxIterations
      BY <3>1, MinOfTwo
    <3>3. iterations' = Min({iterations + 1, MaxIterations}) BY <1>4 DEF AnswerWithCalls
    <3> QED BY <3>2, <3>3
  <2> QED BY <1>4, <2>1, <2>2 DEF AnswerWithCalls
<1>5. CASE RunTool
  <2>1. calls # <<>> /\ calls \in Seq(ToolCalls) BY <1>5 DEF RunTool
  <2>2. Head(calls) \in ToolCalls /\ Tail(calls) \in Seq(ToolCalls) BY <2>1
  <2>3. Head(calls).value \in Values BY <2>2 DEF ToolCalls
  <2>4. captured' \in [Keys -> Values \cup {None}] /\ told' \in [Keys -> Values \cup {None}]
    BY <1>5, <2>3 DEF RunTool, Captured
  <2> QED BY <1>5, <2>2, <2>4 DEF RunTool
<1> QED BY <1>1, <1>2, <1>3, <1>4, <1>5 DEF Turn

LEMMA CaptureTyped == CaptureTypeOK /\ CaptureInv /\ [CaptureNext]_captureVars => CaptureTypeOK'
<1> SUFFICES ASSUME CaptureTypeOK, CaptureInv, [CaptureNext]_captureVars PROVE CaptureTypeOK'
  OBVIOUS
<1>1. CASE UNCHANGED captureVars
  BY <1>1 DEF captureVars, agentVars, turnVars, mapVars, callVars, CaptureTypeOK
<1>2. CASE BargeIn BY <1>2 DEF BargeIn, agentVars, mapVars, callVars, CaptureTypeOK
<1>3. CASE Reload
  <2> USE DEF CaptureTypeOK, agentVars, turnVars, mapVars, callVars
  <2>1. ASSUME NEW v \in Versions, HearUpdate(v) PROVE CaptureTypeOK' BY <2>1 DEF HearUpdate
  <2>2. CASE ReloadPrompt
    <3>1. update \in Versions BY <2>2 DEF ReloadPrompt
    <3> QED BY <2>2, <3>1 DEF ReloadPrompt
  <2>3. CASE ReloadTools
    <3>1. update \in Versions
      <4>1. mutex = "reload" BY <2>3 DEF ReloadTools
      <4> QED BY <4>1 DEF CaptureInv, MutexInv
    <3> QED BY <2>3, <3>1 DEF ReloadTools
  <2> QED BY <1>3, <2>1, <2>2, <2>3 DEF Reload
<1>4. CASE Handler
  <2> USE DEF CaptureTypeOK, agentVars, turnVars, mapVars, Moves
  <2>1. CASE BridgeEnds BY <2>1 DEF BridgeEnds
  <2>2. CASE AbortReload BY <2>2 DEF AbortReload
  <2>3. CASE Terminate BY <2>3 DEF Terminate
  <2>4. CASE Uncount BY <2>4 DEF Uncount
  <2>5. CASE Finalise BY <2>5 DEF Finalise
  <2> QED BY <1>4, <2>1, <2>2, <2>3, <2>4, <2>5 DEF Handler
<1> QED BY <1>1, <1>2, <1>3, <1>4, CaptureTurnTyped DEF CaptureNext

----
\* For any number of turns, tools and reloads: the record of a call has what the model
\* was told is recorded, unless a turn was under way when the map was copied; and a turn
\* runs the tools it offered, under the prompt that came with them.
THEOREM MetricsCorrect == CaptureSpec => []MetricsInv
<1>1. CaptureInit => CaptureTypeOK /\ CaptureInv BY InitCaptureTyped, InitCapture
<1>2. CaptureTypeOK /\ CaptureInv /\ [CaptureNext]_captureVars => CaptureTypeOK' /\ CaptureInv'
  BY CaptureTyped, CaptureKeeps
<1>3. CaptureTypeOK /\ CaptureInv => MetricsInv
  BY DEF CaptureInv, MutexInv, AgreeInv, RecordInv, Reported, SameCampaign, MetricsInv
<1> QED BY <1>1, <1>2, <1>3, PTL DEF CaptureSpec
====
