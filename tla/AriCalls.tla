---- MODULE AriCalls ----
(***************************************************************************)
(* The Asterisk transport: the loop that reads ARI's events, the registry  *)
(* of calls, and the handler of each call, one action per request to       *)
(* Asterisk (handle_stasis_start, run_bridge, cleanup).                    *)
(*                                                                         *)
(* Asterisk is external: a leg that is in the application, the external    *)
(* media channel and the mixing bridge of each call, and the events it     *)
(* sends, in order, while the socket is up.  The session is what fills the *)
(* egress channel and may end by itself; RTP is counted in packets.        *)
(***************************************************************************)
EXTENDS PhoneRouting, Sequences, FiniteSets

CONSTANTS
  Calls,       \* channels that enter the application
  EgressCap,   \* capacity of the egress channel (200)
  AudioCap,    \* capacity of the audio channel (50)
  MaxFaults    \* bound: requests to Asterisk that fail for no reason of the call's

ASSUME CapAssumption == {EgressCap, AudioCap} \subseteq Nat \ {0} /\ MaxFaults \in Nat

VARIABLES
  leg,         \* the caller's channel: none, up (in the application), gone
  media,       \* whether Asterisk has the call's external media channel,
  bridge,      \* and its bridge
  events,      \* the events under way from Asterisk
  socket,      \* whether the event socket is up
  registered,  \* the calls in the registry
  cancelled,   \* the calls whose token is cancelled
  pc,          \* where each handler is
  campaign,    \* the campaign each call is routed to, until its reload task ends
  session,     \* each pipeline session: none, failed to start, active, over (by itself), terminated
  audio,       \* frames in the audio channel
  egress,      \* events in the egress channel
  refused,     \* calls one of whose requests failed
  faults

asteriskVars == <<leg, media, bridge>>
loopVars == <<events, socket, registered>>
pipeVars == <<audio, egress>>
faultVars == <<refused, faults>>
callVars == <<asteriskVars, loopVars, cancelled, pc, campaign, session, pipeVars, faultVars>>
vars == <<routingVars, callVars>>

Steps == {"none", "route", "answer", "media", "bridge", "add", "session", "run",
          "abort", "terminate", "destroy", "hangupMedia", "hangup", "unregister", "done"}

TypeOK ==
  /\ RoutingTypeOK
  /\ leg \in [Calls -> {"none", "up", "gone"}]
  /\ media \subseteq Calls /\ bridge \subseteq Calls
  /\ registered \subseteq Calls /\ cancelled \subseteq Calls
  /\ pc \in [Calls -> Steps]
  /\ campaign \in [Calls -> Campaigns \cup {None}]
  /\ session \in [Calls -> {"none", "failed", "active", "over", "terminated"}]
  /\ audio \in [Calls -> 0..AudioCap]
  /\ egress \in [Calls -> 0..EgressCap]
  /\ refused \subseteq Calls /\ faults \in 0..MaxFaults
  /\ \A c \in registered : pc[c] \notin {"none", "done"}

Init ==
  /\ RoutingInit
  /\ leg = [c \in Calls |-> "none"] /\ media = {} /\ bridge = {}
  /\ events = <<>> /\ socket = TRUE /\ registered = {} /\ cancelled = {}
  /\ pc = [c \in Calls |-> "none"]
  /\ campaign = [c \in Calls |-> None]
  /\ session = [c \in Calls |-> "none"]
  /\ audio = [c \in Calls |-> 0] /\ egress = [c \in Calls |-> 0]
  /\ refused = {} /\ faults = 0

Moves(c, from, to) ==
  /\ pc[c] = from
  /\ pc' = [pc EXCEPT ![c] = to]

\* What Asterisk tells the application, while it listens.
Tells(kind, c) == events' = IF socket THEN Append(events, [kind |-> kind, call |-> c]) ELSE events

Fault(c) ==
  /\ faults < MaxFaults
  /\ faults' = faults + 1
  /\ refused' = refused \cup {c}

----
(* Asterisk and the caller *)

\* A caller is put through to the application, or a dialled contact answers.
Enters(c) ==
  /\ leg[c] = "none" /\ socket
  /\ leg' = [leg EXCEPT ![c] = "up"]
  /\ Tells("start", c)
  /\ UNCHANGED <<routingVars, media, bridge, socket, registered, cancelled, pc, campaign,
                 session, pipeVars, faultVars>>

\* The caller hangs up.
HangsUp(c) ==
  /\ leg[c] = "up"
  /\ leg' = [leg EXCEPT ![c] = "gone"]
  /\ Tells("end", c)
  /\ UNCHANGED <<routingVars, media, bridge, socket, registered, cancelled, pc, campaign,
                 session, pipeVars, faultVars>>

\* The caller presses # or *.
PressesKey(c) ==
  /\ leg[c] = "up" /\ pc[c] = "run" /\ c \notin cancelled
  /\ \A i \in DOMAIN events : events[i].kind # "key"
  /\ Tells("key", c)
  /\ UNCHANGED <<routingVars, asteriskVars, socket, registered, cancelled, pc, campaign,
                 session, pipeVars, faultVars>>

\* The event socket closes, and run ends; nothing connects again.
SocketCloses ==
  /\ socket
  /\ socket' = FALSE
  /\ events' = <<>>
  /\ UNCHANGED <<routingVars, asteriskVars, registered, cancelled, pc, campaign, session,
                 pipeVars, faultVars>>

----
(* AriTransport::run *)

\* StasisStart: the call is registered, and then its handler spawned.
RunStarts(c) ==
  /\ Moves(c, "none", "route")
  /\ registered' = registered \cup {c}
  /\ UNCHANGED cancelled

\* Mutant: a call that is still being set up has nothing to cancel.
RunCancelsBridged(c) ==
  /\ cancelled' = IF c \in registered /\ pc[c] = "run" THEN cancelled \cup {c} ELSE cancelled
  /\ UNCHANGED <<registered, pc>>

\* StasisEnd, ChannelHangupRequest, ChannelDestroyed, and the keys # and *.
RunCancels(c) ==
  /\ cancelled' = IF c \in registered THEN cancelled \cup {c} ELSE cancelled
  /\ UNCHANGED <<registered, pc>>

\* The next event; those of a media channel are of no registered call.
RunReads ==
  /\ events # <<>>
  /\ events' = Tail(events)
  /\ LET event == Head(events) IN
       \/ event.kind = "start" /\ RunStarts(event.call)
       \/ event.kind \in {"end", "key"} /\ RunCancels(event.call)
       \/ event.kind = "media" /\ UNCHANGED <<registered, cancelled, pc>>
  /\ UNCHANGED <<routingVars, asteriskVars, socket, campaign, session, pipeVars, faultVars>>

----
(* handle_stasis_start *)

\* The route of the caller's number, and with it the campaign's configuration.
Route(c) ==
  /\ Moves(c, "route", "answer")
  /\ \E k \in {route, None} : RouteRead(k) /\ campaign' = [campaign EXCEPT ![c] = k]
  /\ UNCHANGED <<routingVars, asteriskVars, loopVars, cancelled, session, pipeVars, faultVars>>

\* answer_channel: an error, since the caller has gone or for another reason, ends
\* the handler.
Answer(c) ==
  /\ \/ leg[c] = "up" /\ Moves(c, "answer", "media") /\ UNCHANGED faultVars
     \/ leg[c] = "gone" /\ Moves(c, "answer", "unregister") /\ UNCHANGED faultVars
     \/ Fault(c) /\ Moves(c, "answer", "unregister")
  /\ UNCHANGED <<routingVars, asteriskVars, loopVars, cancelled, campaign, session, pipeVars>>

\* The socket and create_external_media, which may have worked all the same when it
\* fails.  The new channel enters the application too.
CreateMedia(c) ==
  /\ \/ /\ Moves(c, "media", "bridge")
        /\ media' = media \cup {c}
        /\ Tells("media", c)
        /\ UNCHANGED faultVars
     \/ /\ Moves(c, "media", "unregister")
        /\ Fault(c)
        /\ media' \in {media, media \cup {c}}
        /\ UNCHANGED events
  /\ UNCHANGED <<routingVars, leg, bridge, socket, registered, cancelled, campaign, session, pipeVars>>

CreateBridge(c) ==
  /\ \/ /\ Moves(c, "bridge", "add")
        /\ bridge' = bridge \cup {c}
        /\ UNCHANGED faultVars
     \/ /\ Moves(c, "bridge", "unregister")
        /\ Fault(c)
        /\ bridge' \in {bridge, bridge \cup {c}}
  /\ UNCHANGED <<routingVars, leg, media, loopVars, cancelled, campaign, session, pipeVars>>

\* add_to_bridge: Asterisk refuses a channel that has gone.
AddToBridge(c) ==
  /\ \/ leg[c] = "up" /\ Moves(c, "add", "session") /\ UNCHANGED faultVars
     \/ leg[c] = "gone" /\ Moves(c, "add", "unregister") /\ UNCHANGED faultVars
     \/ Fault(c) /\ Moves(c, "add", "unregister")
  /\ UNCHANGED <<routingVars, asteriskVars, loopVars, cancelled, campaign, session, pipeVars>>

\* start_with_config_and_memory; if it fails what there is in Asterisk is released.
StartSession(c) ==
  /\ \/ Moves(c, "session", "run") /\ session' = [session EXCEPT ![c] = "active"]
     \/ Moves(c, "session", "destroy") /\ session' = [session EXCEPT ![c] = "failed"]
  /\ UNCHANGED <<routingVars, asteriskVars, loopVars, cancelled, campaign, pipeVars, faultVars>>

----
(* run_bridge *)

\* cancel.cancelled(), before everything else.  The bridge's ends of the channels go
\* with it, so that no send of the session waits any more.
BridgeCancelled(c) ==
  /\ c \in cancelled
  /\ Moves(c, "run", "abort")
  /\ audio' = [audio EXCEPT ![c] = 0] /\ egress' = [egress EXCEPT ![c] = 0]
  /\ UNCHANGED <<routingVars, asteriskVars, loopVars, cancelled, campaign, session, faultVars>>

\* A packet with a payload: a frame for the session, or lost when there is no room.
ReceiveRtp(c) ==
  /\ pc[c] = "run" /\ c \notin cancelled
  /\ leg[c] = "up" /\ {c} \subseteq media \cap bridge
  /\ audio[c] < AudioCap
  /\ audio' = [audio EXCEPT ![c] = @ + 1]
  /\ UNCHANGED <<routingVars, asteriskVars, loopVars, cancelled, pc, campaign, session, egress, faultVars>>

\* A chunk of speech goes out packet by packet, each at its time.
SendRtp(c) ==
  /\ pc[c] = "run" /\ c \notin cancelled
  /\ egress[c] > 0
  /\ egress' = [egress EXCEPT ![c] = @ - 1]
  /\ UNCHANGED <<routingVars, asteriskVars, loopVars, cancelled, pc, campaign, session, audio, faultVars>>

\* An error of the socket, reading or writing.
RtpFails(c) ==
  /\ pc[c] = "run" /\ c \notin cancelled
  /\ Fault(c)
  /\ cancelled' = cancelled \cup {c}
  /\ UNCHANGED <<routingVars, asteriskVars, loopVars, pc, campaign, session, pipeVars>>

\* SessionEnd, or the session's end of the channel is gone.
SeesSessionEnd(c) ==
  /\ c \notin cancelled
  /\ session[c] = "over" /\ egress[c] = 0
  /\ Moves(c, "run", "abort")
  /\ cancelled' = cancelled \cup {c}
  /\ audio' = [audio EXCEPT ![c] = 0]
  /\ UNCHANGED <<routingVars, asteriskVars, loopVars, campaign, session, egress, faultVars>>

----
(* What the session does meanwhile *)

TakesAudio(c) ==
  /\ session[c] = "active" /\ audio[c] > 0
  /\ audio' = [audio EXCEPT ![c] = @ - 1]
  /\ UNCHANGED <<routingVars, asteriskVars, loopVars, cancelled, pc, campaign, session, egress, faultVars>>

Speaks(c) ==
  /\ session[c] = "active" /\ pc[c] = "run" /\ egress[c] < EgressCap
  /\ egress' = [egress EXCEPT ![c] = @ + 1]
  /\ UNCHANGED <<routingVars, asteriskVars, loopVars, cancelled, pc, campaign, session, audio, faultVars>>

SessionEnds(c) ==
  /\ session[c] = "active" /\ pc[c] = "run"
  /\ session' = [session EXCEPT ![c] = "over"]
  /\ UNCHANGED <<routingVars, asteriskVars, loopVars, cancelled, pc, campaign, pipeVars, faultVars>>

----
(* The end of a call *)

\* The reload task of the call's campaign is aborted and waited for.
AbortReload(c) ==
  /\ Moves(c, "abort", "terminate")
  /\ campaign' = [campaign EXCEPT ![c] = None]
  /\ UNCHANGED <<routingVars, asteriskVars, loopVars, cancelled, session, pipeVars, faultVars>>

Terminate(c) ==
  /\ Moves(c, "terminate", "destroy")
  /\ session' = [session EXCEPT ![c] = "terminated"]
  /\ UNCHANGED <<routingVars, asteriskVars, loopVars, cancelled, campaign, pipeVars, faultVars>>

\* cleanup: destroy_bridge,
DestroyBridge(c) ==
  /\ Moves(c, "destroy", "hangupMedia")
  /\ \/ bridge' = bridge \ {c} /\ UNCHANGED faultVars
     \/ Fault(c) /\ UNCHANGED bridge
  /\ UNCHANGED <<routingVars, leg, media, loopVars, cancelled, campaign, session, pipeVars>>

\* hangup_channel of the media channel,
HangUpMedia(c) ==
  /\ Moves(c, "hangupMedia", "hangup")
  /\ \/ media' = media \ {c} /\ Tells("media", c) /\ UNCHANGED faultVars
     \/ Fault(c) /\ UNCHANGED <<media, events>>
  /\ UNCHANGED <<routingVars, leg, bridge, socket, registered, cancelled, campaign, session, pipeVars>>

\* Mutant: a caller that is still there is left to hang up.
HangUpNobody(c) ==
  /\ Moves(c, "hangup", "unregister")
  /\ UNCHANGED <<routingVars, asteriskVars, loopVars, cancelled, campaign, session, pipeVars, faultVars>>

\* and of the caller's, if it has not gone.
HangUp(c) ==
  /\ Moves(c, "hangup", "unregister")
  /\ \/ /\ leg' = [leg EXCEPT ![c] = "gone"]
        /\ IF leg[c] = "up" THEN Tells("end", c) ELSE UNCHANGED events
        /\ UNCHANGED faultVars
     \/ Fault(c) /\ UNCHANGED <<leg, events>>
  /\ UNCHANGED <<routingVars, media, bridge, socket, registered, cancelled, campaign, session, pipeVars>>

\* registry.unregister, however the handler ended.
Unregister(c) ==
  /\ Moves(c, "unregister", "done")
  /\ registered' = registered \ {c}
  /\ campaign' = [campaign EXCEPT ![c] = None]
  /\ UNCHANGED <<routingVars, asteriskVars, events, socket, cancelled, session, pipeVars, faultVars>>

----
\* The steps of a handler in which neither leg comes or goes.
Proceed(c) ==
  \/ Route(c) \/ CreateMedia(c) \/ CreateBridge(c) \/ AddToBridge(c)
  \/ StartSession(c) \/ BridgeCancelled(c) \/ SendRtp(c) \/ SeesSessionEnd(c)
  \/ AbortReload(c) \/ Terminate(c) \/ DestroyBridge(c) \/ HangUpMedia(c) \/ Unregister(c)

\* What happens to a call besides: in the bridge, in the session, at its keys.
Around(c) ==
  \/ PressesKey(c) \/ ReceiveRtp(c) \/ RtpFails(c) \/ TakesAudio(c) \/ Speaks(c) \/ SessionEnds(c)

----
(* Properties *)

Orphan(c) == c \in media \cup bridge

\* When the handler of a call that came to its session is done, whether the session
\* started, ended or was hung up on, Asterisk keeps nothing of it and the caller has
\* been hung up, unless a request failed.  (A caller who hangs up while the call is
\* being set up leaves the channel and the bridge behind: AddToBridge.)
NothingLeft ==
  \A c \in Calls :
    pc[c] = "done" /\ session[c] # "none" /\ c \notin refused => ~Orphan(c) /\ leg[c] = "gone"

====
