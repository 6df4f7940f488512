---- MODULE WebSocketCall ----
(***************************************************************************)
(* A WebSocket call between WsBackend, the client of the load test, and    *)
(* the server's end of it (WebSocketBridge).                               *)
(***************************************************************************)
EXTENDS WebSocketBridge

CONSTANTS
  Turns,   \* turns_per_session
  Drops    \* whether the connection may be lost

ASSUME TurnsAssumption == Turns \in Nat \ {0} /\ Drops \in BOOLEAN

VARIABLES
  at,         \* where the client is
  said,       \* the samples it has sent
  rx,         \* the queue between its RX task and its main loop
  got,        \* the answers it has taken for each turn, as a set of utterances
  timedOut    \* whether it has given up waiting for an answer

clientVars == <<at, said, rx, got, timedOut>>
vars == <<serverVars, clientVars>>

Init ==
  /\ ServerInit
  /\ at = "connect" /\ said = 0 /\ rx = <<>>
  /\ got = [turn \in 1..Turns |-> {}]
  /\ timedOut = FALSE

clientOnly == <<pc, bridgeVars, audio, pipeVars, egress, overruns>>

\* The turn the client is in, by what it has said.
CurrentTurn == IF at = "speak" THEN said \div Turn + 1 ELSE said \div Turn

\* The samples of its next message: frames, but for the last one of its speech.
NextMessage ==
  LET inTurn == said % Turn
      size == IF inTurn < Speech /\ Speech - inTurn < FrameSamples
              THEN Speech - inTurn ELSE FrameSamples
  IN [i \in 1..size |-> said + i - 1]

\* sink.send: it waits for room, and fails when the connection is gone, which
\* ends the call with an error.
Sends(message) == open /\ Len(up) < NetCap /\ up' = Append(up, message)
SendFails == ~open /\ UNCHANGED up

ClientStarts ==
  /\ at = "connect"
  /\ \/ Sends([kind |-> "start"]) /\ at' = "await ready"
     \/ SendFails /\ at' = "done"
  /\ UNCHANGED <<down, open, clientOnly, said, rx, got, timedOut>>

\* The RX task: audio, session_ready and tts_complete go to the main loop.
ClientReceives ==
  /\ at # "done"
  /\ down # <<>>
  /\ down' = Tail(down)
  /\ rx' = IF Head(down)[1] = "started" THEN rx ELSE Append(rx, Head(down))
  /\ UNCHANGED <<up, open, clientOnly, at, said, got, timedOut>>

\* It has left its loop: the queue is closed.
RxClosed == ~open /\ down = <<>> /\ rx = <<>>

\* session_ready, or 2 s, or the end of the queue; anything else is dropped.
AwaitReady ==
  /\ at = "await ready"
  /\ \/ /\ rx # <<>>
        /\ at' = IF Head(rx)[1] = "ready" THEN "speak" ELSE at
        /\ rx' = Tail(rx)
     \/ at' = "speak" /\ UNCHANGED rx
  /\ UNCHANGED <<netVars, clientOnly, said, got, timedOut>>

\* One message of speech or silence, at the pace of speech.
ClientSpeaks ==
  /\ at = "speak"
  /\ \/ /\ Sends([kind |-> "binary", samples |-> NextMessage])
        /\ said' = said + Len(NextMessage)
        /\ at' = IF said' % Turn = 0 THEN "await answer" ELSE at
     \/ SendFails /\ at' = "done" /\ UNCHANGED said
  /\ UNCHANGED <<down, open, clientOnly, rx, got, timedOut>>

TurnOver == at' = IF CurrentTurn = Turns THEN "drain" ELSE "speak"

\* Mutant: any message ends the turn.
AwaitAnything ==
  /\ at = "await answer"
  /\ \/ rx # <<>> /\ rx' = Tail(rx)
     \/ RxClosed /\ UNCHANGED rx
  /\ got' = IF rx # <<>> /\ Head(rx)[1] = "audio"
            THEN [got EXCEPT ![CurrentTurn] = @ \cup {Head(rx)[2]}] ELSE got
  /\ TurnOver
  /\ UNCHANGED <<netVars, clientOnly, said, timedOut>>

\* The audio of the answer, until tts_complete or the end of the queue.
AwaitAnswer ==
  /\ at = "await answer"
  /\ \/ /\ rx # <<>>
        /\ rx' = Tail(rx)
        /\ got' = IF Head(rx)[1] = "audio"
                  THEN [got EXCEPT ![CurrentTurn] = @ \cup {Head(rx)[2]}] ELSE got
        /\ IF Head(rx)[1] = "complete" THEN TurnOver ELSE UNCHANGED at
     \/ RxClosed /\ TurnOver /\ UNCHANGED <<rx, got>>
  /\ UNCHANGED <<netVars, clientOnly, said, timedOut>>

\* turn_timeout_ms
TurnTimesOut ==
  /\ at = "await answer"
  /\ TurnOver
  /\ timedOut' = TRUE
  /\ UNCHANGED <<netVars, clientOnly, said, rx, got>>

\* What is left in the queue counts for the last turn; then session_end, whose
\* failure nobody sees, and the connection is closed.
ClientEnds ==
  /\ at = "drain"
  /\ got' = [got EXCEPT ![Turns] = @ \cup {e[2] : e \in {d \in Range(rx) : d[1] = "audio"}}]
  /\ rx' = <<>>
  /\ Sends([kind |-> "end"]) \/ SendFails
  /\ at' = "done"
  /\ open' = FALSE
  /\ UNCHANGED <<down, clientOnly, said, timedOut>>

ConnectionLost ==
  /\ Drops /\ open
  /\ open' = FALSE
  /\ UNCHANGED <<up, down, clientOnly, clientVars>>

----
Server ==
  \/ SessionStart \/ StartSession \/ SendReady
  \/ BridgeReceives \/ BridgeLosesClient \/ BridgeFeeds \/ BridgeTakes \/ BridgeSends
  \/ Cancel \/ \E t \in Tasks : Join(t) \/ JoinTimesOut(t)

FrontEnd == FrontTakes \/ FrontSends \/ VadLast

Orchestrator == Orchestrate \/ FlushSentences \/ SentencesFlushed

Client == ClientStarts \/ AwaitReady \/ ClientSpeaks \/ AwaitAnswer \/ TurnTimesOut \/ ClientEnds

Next ==
  \/ (Server \/ FrontEnd \/ Orchestrator \/ Speak \/ \E t \in Tasks : TaskEnds(t)) /\ UNCHANGED clientVars
  \/ Client \/ ClientReceives
  \/ ConnectionLost

Spec == Init /\ [][Next]_vars

\* Every task of server and client runs when it can, and time passes: the waits
\* with a limit end.
FairSpec ==
  /\ Spec
  /\ WF_vars(Server /\ UNCHANGED clientVars)
  /\ WF_vars(FrontEnd /\ UNCHANGED clientVars)
  /\ WF_vars((Orchestrate \/ SentencesFlushed) /\ UNCHANGED clientVars)
  /\ WF_vars(Speak /\ UNCHANGED clientVars)
  /\ \A t \in Tasks : WF_vars(TaskEnds(t) /\ UNCHANGED clientVars)
  /\ WF_vars(Client) /\ WF_vars(ClientReceives)

----
(* Properties *)

Pcs == {"wait", "start", "ready", "select", "feed", "send", "cancel"} \cup
       {AtJoin[t] : t \in Tasks} \cup {"closed"}

TypeOK ==
  /\ pc \in Pcs
  /\ at \in {"connect", "await ready", "speak", "await answer", "drain", "done"}
  /\ Len(up) <= NetCap /\ Len(down) <= NetCap
  /\ Len(audio) <= AudioCap /\ Len(egress) <= EgressCap /\ Len(bus) <= BusCap
  /\ Len(decoder.residual) < FrameSamples
  /\ said \in 0..(Turns * Turn)
  /\ \A turn \in 1..Turns : got[turn] \subseteq 1..Turns
  /\ flushing \in BOOLEAN /\ tasks \subseteq Tasks /\ overruns \in 0..3

\* The frames on their way from the decoder to the front end, in order.
Framed == heard \o audio \o feeding

\* Whatever the sizes of the client's messages, the front end gets their samples
\* in order, none lost and none twice, in frames whose times count up from 0: what
\* it has heard, what is on the way to it and what the decoder keeps back are what
\* the client has sent, from the first sample on.  handler.rs 124-148, 880-893
AudioIntact ==
  /\ \A i \in DOMAIN Framed :
        Framed[i] = [samples |-> [j \in 1..FrameSamples |-> (i - 1) * FrameSamples + j - 1],
                     time |-> i - 1]
  /\ \A j \in DOMAIN decoder.residual :
        decoder.residual[j] = Len(Framed) * FrameSamples + j - 1
  /\ up = <<>> /\ pc \in {"select", "feed", "send"} =>
        Len(Framed) * FrameSamples + Len(decoder.residual) = said

\* As long as no answer came too late for the client, each turn of its report
\* holds the answer to what was said in it, and no other.  ws_backend.rs 238-283
TurnGetsOwnAnswer ==
  ~timedOut => \A turn \in 1..Turns : got[turn] \subseteq {turn}

\* The state of a call at both of its ends.
CallInv == TypeOK /\ TurnGetsOwnAnswer

\* The bridge waits for room in the audio channel, and so does not empty egress nor see
\* the end of the connection; the VAD waits for room on the bus.
Blocked ==
  /\ pc = "feed" /\ feeding # <<>> /\ Len(audio) = AudioCap
  /\ found # <<>> /\ Len(bus) = BusCap

\* The ring: the orchestrator, which empties the bus, waits for room in egress.
Ring == Blocked /\ OrchestratorWaits

\* The wedge: it waits for room in the text channel, and the TTS task for room on the bus.
Wedge == Blocked /\ flushing /\ HasAudio

\* A call ends, the client's report is made and the server's handler returns, whatever
\* is lost; only the ring of waits, or the orchestrator's own behind it, can stop it.
\* handler.rs 875-925, orchestrator.rs 536
CallEnds == <>(Ring \/ Wedge \/ (pc = "closed" /\ at = "done"))

\* Nothing of the session outlives its handler for long, also a task that terminate
\* did not wait for: its channels close when the handler returns.  session.rs 872-908
NoTaskLeft == pc = "closed" ~> tasks = {}

====
