---- MODULE AsteriskCalls ----
(***************************************************************************)
(* Calls through Asterisk with both of their ends: the transport           *)
(* (AriCalls), and the load test's Asterisk backend as a caller            *)
(* (run_single_outbound_call), which is an ARI application of its own.     *)
(* What it dials enters the transport's application; the two legs are      *)
(* connected when the transport answers, and end together.  A call may     *)
(* also come from somebody else, of whom nothing is known.                 *)
(*                                                                         *)
(* Every ? of the backend returns with what it has: dialled, that is       *)
(* hanging in the air.  Samples are not modelled.                          *)
(***************************************************************************)
EXTENDS AriCalls

VARIABLES
  at,         \* where the backend is with each call
  dialled,    \* its channel: none, ringing, up, gone
  ownMedia,   \* the calls whose external media channel,
  ownBridge,  \* and bridge, of the backend's Asterisk has
  monitor,    \* the StasisStarts that the monitor has passed on: "media", "call"
  seen,       \* those that wait_for_stasis_start has read
  reader      \* the task that records: none, running, stopped

backendVars == <<at, dialled, ownMedia, ownBridge, monitor, seen, reader>>
allVars == <<vars, backendVars>>

BackendSteps == {"idle", "media", "awaitMedia", "originate", "awaitCall", "bridge", "addCall",
                 "addMedia", "play", "stop", "hangupCall", "hangupMedia", "destroy", "join",
                 "ok", "failed"}

BackendTypeOK ==
  /\ TypeOK
  /\ at \in [Calls -> BackendSteps]
  /\ dialled \in [Calls -> {"none", "ringing", "up", "gone"}]
  /\ ownMedia \subseteq Calls /\ ownBridge \subseteq Calls
  /\ \A c \in Calls : \A i \in DOMAIN monitor[c] : monitor[c][i] \in {"media", "call"}
  /\ seen \in [Calls -> SUBSET {"media", "call"}]
  /\ reader \in [Calls -> {"none", "running", "stopped"}]
  /\ \A c \in Calls : at[c] \in {"idle", "ok", "failed"} => reader[c] # "running"

BackendInit ==
  /\ Init
  /\ at = [c \in Calls |-> "idle"]
  /\ dialled = [c \in Calls |-> "none"]
  /\ ownMedia = {} /\ ownBridge = {}
  /\ monitor = [c \in Calls |-> <<>>]
  /\ seen = [c \in Calls |-> {}]
  /\ reader = [c \in Calls |-> "none"]

\* A step of the backend's.
Gets(c, from, to) ==
  /\ at[c] = from
  /\ at' = [at EXCEPT ![c] = to]

\* A request that fails ends the call with an error; dropping the stop channel ends
\* the reader.
Fails(c, from) ==
  /\ Gets(c, from, "failed")
  /\ Fault(c)
  /\ reader' = [reader EXCEPT ![c] = IF @ = "running" THEN "stopped" ELSE @]

\* The transport and Asterisk's other end stay as they are.
Apart == UNCHANGED <<routingVars, asteriskVars, loopVars, cancelled, pc, campaign, session, pipeVars>>

----
(* The legs *)

\* What the backend dialled, or somebody else, is put through to the application.
LegEnters(c) ==
  /\ at[c] = "idle" \/ dialled[c] = "ringing"
  /\ Enters(c)
  /\ UNCHANGED backendVars

\* When one leg goes the other does.
Disconnects(c) == dialled' = [dialled EXCEPT ![c] = IF @ = "none" THEN @ ELSE "gone"]

CallerHangsUp(c) ==
  /\ HangsUp(c)
  /\ Disconnects(c)
  /\ UNCHANGED <<at, ownMedia, ownBridge, monitor, seen, reader>>

\* Nobody answers.
RingsOut(c) ==
  /\ dialled[c] = "ringing" /\ leg[c] = "none"
  /\ Disconnects(c)
  /\ UNCHANGED <<vars, at, ownMedia, ownBridge, monitor, seen, reader>>

\* The transport's answer connects the legs, and the backend's enters its application.
LegAnswered(c) ==
  /\ Answer(c)
  /\ IF dialled[c] = "ringing" /\ pc'[c] = "media"
     THEN /\ dialled' = [dialled EXCEPT ![c] = "up"]
          /\ monitor' = [monitor EXCEPT ![c] = Append(@, "call")]
     ELSE UNCHANGED <<dialled, monitor>>
  /\ UNCHANGED <<at, ownMedia, ownBridge, seen, reader>>

\* The transport hangs up.
LegHungUp(c) ==
  /\ HangUp(c)
  /\ IF leg'[c] = "gone" THEN Disconnects(c) ELSE UNCHANGED dialled
  /\ UNCHANGED <<at, ownMedia, ownBridge, monitor, seen, reader>>

----
(* run_single_outbound_call *)

\* AriAppMonitor::connect and the socket, or an error before anything was made.
Connect(c) ==
  /\ leg[c] = "none"
  /\ \/ Gets(c, "idle", "media") /\ UNCHANGED faultVars
     \/ Gets(c, "idle", "failed") /\ Fault(c)
  /\ Apart /\ UNCHANGED <<dialled, ownMedia, ownBridge, monitor, seen, reader>>

\* create_external_media; the channel enters the backend's second application.
OwnMedia(c) ==
  /\ \/ /\ Gets(c, "media", "awaitMedia")
        /\ ownMedia' = ownMedia \cup {c}
        /\ monitor' = [monitor EXCEPT ![c] = Append(@, "media")]
        /\ UNCHANGED <<reader, faultVars>>
     \/ Fails(c, "media") /\ UNCHANGED <<ownMedia, monitor>>
  /\ Apart /\ UNCHANGED <<dialled, ownBridge, seen>>

\* One turn of wait_for_stasis_start: the next channel the monitor saw, or what was
\* read before; or the time is up.
Await(c, kind, from, to) ==
  /\ \/ /\ kind \in seen[c]
        /\ Gets(c, from, to)
        /\ UNCHANGED <<monitor, seen>>
     \/ /\ kind \notin seen[c] /\ monitor[c] # <<>>
        /\ monitor' = [monitor EXCEPT ![c] = Tail(@)]
        /\ seen' = [seen EXCEPT ![c] = @ \cup {Head(monitor[c])}]
        /\ Gets(c, from, IF Head(monitor[c]) = kind THEN to ELSE from)
     \/ /\ kind \notin seen[c]
        /\ Gets(c, from, "failed")
        /\ UNCHANGED <<monitor, seen>>
  /\ Apart /\ UNCHANGED <<faultVars, dialled, ownMedia, ownBridge, reader>>

AwaitMedia(c) == Await(c, "media", "awaitMedia", "originate")

Dial(c) ==
  /\ \/ /\ Gets(c, "originate", "awaitCall")
        /\ dialled' = [dialled EXCEPT ![c] = "ringing"]
        /\ UNCHANGED <<reader, faultVars>>
     \/ Fails(c, "originate") /\ UNCHANGED dialled
  /\ Apart /\ UNCHANGED <<ownMedia, ownBridge, monitor, seen>>

AwaitCall(c) == Await(c, "call", "awaitCall", "bridge")

OwnBridge(c) ==
  /\ \/ /\ Gets(c, "bridge", "addCall")
        /\ ownBridge' = ownBridge \cup {c}
        /\ UNCHANGED <<reader, faultVars>>
     \/ Fails(c, "bridge") /\ UNCHANGED ownBridge
  /\ Apart /\ UNCHANGED <<dialled, ownMedia, monitor, seen>>

\* add_to_bridge of the call, which Asterisk refuses when it has gone,
AddCall(c) ==
  /\ \/ dialled[c] = "up" /\ Gets(c, "addCall", "addMedia") /\ UNCHANGED <<reader, faultVars>>
     \/ dialled[c] = "gone" /\ Gets(c, "addCall", "failed") /\ UNCHANGED <<reader, faultVars>>
     \/ Fails(c, "addCall")
  /\ Apart /\ UNCHANGED <<dialled, ownMedia, ownBridge, monitor, seen>>

\* and of the media channel; then the reader starts.
AddMedia(c) ==
  /\ \/ /\ Gets(c, "addMedia", "play")
        /\ reader' = [reader EXCEPT ![c] = "running"]
        /\ UNCHANGED faultVars
     \/ Fails(c, "addMedia")
  /\ Apart /\ UNCHANGED <<dialled, ownMedia, ownBridge, monitor, seen>>

\* play_audio, and the time to record; a hang-up is not noticed.
Play(c) ==
  /\ \/ Gets(c, "play", "stop") /\ UNCHANGED <<reader, faultVars>>
     \/ Fails(c, "play")
  /\ Apart /\ UNCHANGED <<dialled, ownMedia, ownBridge, monitor, seen>>

StopReader(c) ==
  /\ Gets(c, "stop", "hangupCall")
  /\ reader' = [reader EXCEPT ![c] = "stopped"]
  /\ Apart /\ UNCHANGED <<faultVars, dialled, ownMedia, ownBridge, monitor, seen>>

\* Mutant: without its bridge the call will end.
HangUpNothing(c) ==
  /\ Gets(c, "hangupCall", "hangupMedia")
  /\ UNCHANGED <<vars, dialled, ownMedia, ownBridge, monitor, seen, reader>>

\* hangup_channel of the call: the other leg goes with it,
HangUpDialled(c) ==
  /\ Gets(c, "hangupCall", "hangupMedia")
  /\ \/ /\ dialled[c] = "up" /\ leg[c] = "up"
        /\ HangsUp(c)
        /\ Disconnects(c)
     \/ /\ dialled[c] = "gone"
        /\ UNCHANGED <<vars, dialled>>
     \/ /\ Fault(c)
        /\ Apart /\ UNCHANGED dialled
  /\ UNCHANGED <<ownMedia, ownBridge, monitor, seen, reader>>

\* of the media channel, and destroy_bridge; what fails is not looked at.
HangUpOwnMedia(c) ==
  /\ Gets(c, "hangupMedia", "destroy")
  /\ \/ ownMedia' = ownMedia \ {c} /\ UNCHANGED faultVars
     \/ Fault(c) /\ UNCHANGED ownMedia
  /\ Apart /\ UNCHANGED <<dialled, ownBridge, monitor, seen, reader>>

DestroyOwnBridge(c) ==
  /\ Gets(c, "destroy", "join")
  /\ \/ ownBridge' = ownBridge \ {c} /\ UNCHANGED faultVars
     \/ Fault(c) /\ UNCHANGED ownBridge
  /\ Apart /\ UNCHANGED <<dialled, ownMedia, monitor, seen, reader>>

\* The reader is joined, within 3 s.
Join(c) ==
  /\ reader[c] = "stopped"
  /\ Gets(c, "join", "ok")
  /\ Apart /\ UNCHANGED <<faultVars, dialled, ownMedia, ownBridge, monitor, seen, reader>>

----
Backend(c) ==
  \/ OwnMedia(c) \/ AwaitMedia(c) \/ Dial(c) \/ AwaitCall(c) \/ OwnBridge(c) \/ AddCall(c)
  \/ AddMedia(c) \/ Play(c) \/ StopReader(c) \/ HangUpDialled(c) \/ HangUpOwnMedia(c)
  \/ DestroyOwnBridge(c) \/ Join(c)

\* A handler's next step.
Handle(c) ==
  \/ Proceed(c) /\ UNCHANGED backendVars
  \/ LegAnswered(c) \/ LegHungUp(c)

Next ==
  \/ RoutingNext /\ UNCHANGED <<callVars, backendVars>>
  \/ (RunReads \/ SocketCloses) /\ UNCHANGED backendVars
  \/ \E c \in Calls :
       \/ Around(c) /\ UNCHANGED backendVars
       \/ LegEnters(c) \/ CallerHangsUp(c) \/ RingsOut(c)
       \/ Handle(c) \/ Connect(c) \/ Backend(c)

Spec == BackendInit /\ [][Next]_allVars

\* The loop, the handlers and the backend go on, and Asterisk answers every request.
\* Nothing is assumed of callers, sessions and clerks.
FairSpec ==
  /\ Spec
  /\ WF_allVars(RunReads /\ UNCHANGED backendVars)
  /\ \A c \in Calls : WF_allVars(Handle(c)) /\ WF_allVars(Backend(c))

----
(* Properties *)

\* The state of the calls at the server, at the load test and in Asterisk.
AriInv == BackendTypeOK /\ NothingLeft

\* A load test's call that came to its end has left no channel, no bridge and no call
\* at the server that nobody will hang up, unless a request failed.
LoadCallClean ==
  \A c \in Calls : at[c] = "ok" /\ c \notin refused =>
    c \notin ownMedia \cup ownBridge /\ dialled[c] = "gone" /\ leg[c] = "gone"

\* A call whose caller has hung up comes to its end, at whatever step the hang-up falls,
\* while the event socket is up; the session need not end by itself.
HangUpEndsCall == \A c \in Calls : leg[c] = "gone" ~> (pc[c] = "done" \/ ~socket)

====
