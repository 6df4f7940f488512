---- MODULE PlatformConnection ----
(***************************************************************************)
(* A WebSocket connection on the platform path, from its upgrade to its    *)
(* usage record: handle_connection_platform, one action per await that     *)
(* leaves something behind, with the reload task of its session and the    *)
(* campaign's configuration (CampaignConfig).  What the two ends say to    *)
(* each other while pc is "bridge" is WebSocketBridge.                     *)
(*                                                                         *)
(* Redis and the database outlive the server: active, record, usage and    *)
(* the configuration stay when it crashes, everything else is gone.        *)
(***************************************************************************)
EXTENDS CampaignConfig, FiniteSets

CONSTANTS
  Campaigners,    \* the calls whose query names the campaign
  MaxSessions,    \* the tenant's max_concurrent_sessions
  DefaultLimit,   \* the limit when the tenant cannot be read
  MaxLost,        \* bound: the calls one of whose writes fails
  Crashes         \* whether the server may crash

ASSUME CampaignersAssumption == Campaigners \subseteq Calls
ASSUME RecordAssumption == None \notin {"initiated", "completed"}
ASSUME LimitAssumption == MaxSessions \in Nat /\ DefaultLimit \in Nat

VARIABLES
  pc,       \* where each connection's handler is
  active,   \* the tenant's set of active sessions in Redis
  config,   \* the configuration of each call, then of its session
  session,  \* each pipeline session: none, active or terminated
  record,   \* each call record: None, initiated or completed
  usage,    \* the calls with a usage record
  lost,     \* calls one of whose writes to Redis or the database failed
  unsure    \* calls admitted on a count that did not hold any more

vars == <<configVars, listenVars, pc, active, config, session, record, usage, lost, unsure>>
callVars == <<config, session, record, usage, unsure>>

Steps == {"closed", "lookup", "fetch", "backfill", "limit", "add", "waiting",
          "abandon", "record", "start", "ready", "bridge", "abort", "terminate",
          "uncount", "finalise", "usage", "giveup", "rejected", "ended", "crashed"}

TypeOK ==
  /\ row \in 1..newest \cup {None}
  /\ cached \in 1..newest \cup {None}
  /\ listener \in [Calls -> {"off", "named", "armed", "on"}]
  /\ \A c \in Calls :
       /\ config[c] \in 1..newest \cup {None}
       /\ \A i \in 1..Len(inbox[c]) : inbox[c][i] \in 1..newest
       /\ listener[c] # "on" => inbox[c] = <<>>
  /\ pc \in [Calls -> Steps]
  /\ active \subseteq Calls
  /\ session \in [Calls -> {"none", "active", "terminated"}]
  /\ record \in [Calls -> {None, "initiated", "completed"}]
  /\ usage \subseteq Calls /\ lost \subseteq Calls /\ unsure \subseteq Calls

Init ==
  /\ ConfigInit
  /\ pc = [c \in Calls |-> "closed"]
  /\ active = {}
  /\ config = [c \in Calls |-> None]
  /\ session = [c \in Calls |-> "none"]
  /\ record = [c \in Calls |-> None]
  /\ usage = {} /\ lost = {} /\ unsure = {}

Moves(c, from, to) ==
  /\ pc[c] = from
  /\ pc' = [pc EXCEPT ![c] = to]

\* A write of call c fails: nothing is written, and nobody is told.
Loses(c) ==
  /\ Cardinality(lost \cup {c}) <= MaxLost
  /\ lost' = lost \cup {c}

\* A write to the set of active sessions, which may fail and then did nothing.
SetsActive(c, sessions) ==
  \/ active' = sessions /\ UNCHANGED lost
  \/ UNCHANGED active /\ Loses(c)

----
(* Before the session *)

\* ws_handler_platform: with a good token the call begins, and its query may name
\* a campaign; otherwise the answer is 401.
Upgrade(c) ==
  /\ \/ /\ c \in Campaigners
        /\ Moves(c, "closed", "lookup")
        /\ listener' = [listener EXCEPT ![c] = "named"]
     \/ /\ c \notin Campaigners
        /\ Moves(c, "closed", "limit")
        /\ UNCHANGED listener
     \/ /\ Moves(c, "closed", "rejected")
        /\ UNCHANGED listener
  /\ UNCHANGED <<configVars, inbox, active, callVars, lost>>

\* The copy in Redis,
LookUp(c) ==
  /\ \E version \in {cached, None} :
       /\ CopyRead(version)
       /\ config' = [config EXCEPT ![c] = version]
       /\ Moves(c, "lookup", IF version = None THEN "fetch" ELSE "limit")
  /\ UNCHANGED <<configVars, listenVars, active, session, record, usage, lost, unsure>>

\* else the row; without it the call goes on with no configuration,
Fetch(c) ==
  /\ \E version \in {row, None} :
       /\ RowRead(version)
       /\ config' = [config EXCEPT ![c] = version]
       /\ Moves(c, "fetch", IF version = None THEN "limit" ELSE "backfill")
  /\ UNCHANGED <<configVars, listenVars, active, session, record, usage, lost, unsure>>

\* and what was read becomes the copy.
BackFill(c) ==
  /\ Moves(c, "backfill", "limit")
  /\ BackFilled(config[c])
  /\ UNCHANGED <<row, newest, request, listenVars, active, callVars, lost>>

\* Mutant: one too many.
CountActiveLate(c) ==
  /\ Moves(c, "limit", IF Cardinality(active) > MaxSessions THEN "rejected" ELSE "add")
  /\ unsure' = IF \E d \in Calls : pc[d] = "add" THEN unsure \cup {c} ELSE unsure
  /\ UNCHANGED <<configVars, listenVars, active, config, session, record, usage, lost>>

\* The limit is the tenant's, or 10 if it cannot be read; the count is 0 if it
\* cannot be read.  (The count is what makes it unsure, see there.)
CountActive(c) ==
  /\ \E limit \in {MaxSessions, DefaultLimit}, count \in {Cardinality(active), 0} :
       /\ Moves(c, "limit", IF count >= limit THEN "rejected" ELSE "add")
       /\ unsure' = IF \/ limit # MaxSessions \/ count # Cardinality(active)
                       \/ \E d \in Calls : pc[d] = "add"
                    THEN unsure \cup {c} ELSE unsure
  /\ UNCHANGED <<configVars, listenVars, active, config, session, record, usage, lost>>

\* sadd
Register(c) ==
  /\ Moves(c, "add", "waiting")
  /\ SetsActive(c, active \cup {c})
  /\ UNCHANGED <<configVars, listenVars, callVars>>

\* wait_for_session_start: the client says what it wants within 10 s, or says
\* something else, goes away or lets the time pass.
SessionStart(c) ==
  /\ \E to \in {"record", "abandon"} : Moves(c, "waiting", to)
  /\ UNCHANGED <<configVars, listenVars, active, callVars, lost>>

\* The call record; the session starts whether it could be written or not.
CreateRecord(c) ==
  /\ Moves(c, "record", "start")
  /\ \/ record' = [record EXCEPT ![c] = "initiated"] /\ UNCHANGED lost
     \/ UNCHANGED record /\ Loses(c)
  /\ UNCHANGED <<configVars, listenVars, active, config, session, usage, unsure>>

\* The session, and the task that listens for changes if a campaign was named.
StartSession(c) ==
  /\ \/ /\ Moves(c, "start", "ready")
        /\ session' = [session EXCEPT ![c] = "active"]
        /\ listener' = [listener EXCEPT ![c] = IF @ = "named" THEN "armed" ELSE @]
     \/ /\ Moves(c, "start", "abandon")
        /\ UNCHANGED <<session, listener>>
  /\ UNCHANGED <<configVars, inbox, active, config, record, usage, lost, unsure>>

\* session_ready; if it cannot be sent the session ends, and nobody tells the
\* reload task.
SendReady(c) ==
  /\ \E to \in {"bridge", "giveup"} : Moves(c, "ready", to)
  /\ UNCHANGED <<configVars, listenVars, active, callVars, lost>>

\* Mutant: an early return that does not clean up.
GiveUpAtOnce(c) ==
  /\ Moves(c, "giveup", "ended")
  /\ session' = [session EXCEPT ![c] = "terminated"]
  /\ UNCHANGED <<configVars, listenVars, active, config, record, usage, lost, unsure>>

GiveUp(c) ==
  /\ Moves(c, "giveup", "abandon")
  /\ session' = [session EXCEPT ![c] = "terminated"]
  /\ UNCHANGED <<configVars, listenVars, active, config, record, usage, lost, unsure>>

\* cleanup_active_session: srem
Uncounts(c) ==
  /\ SetsActive(c, active \ {c})
  /\ unsure' = unsure \ ({c} \ active')
  /\ UNCHANGED <<configVars, listenVars, config, session, record, usage>>

\* of the early returns
Abandon(c) ==
  /\ Moves(c, "abandon", "ended")
  /\ Uncounts(c)

----
(* The session and its end *)

\* The reload task passes a change on to the session's agent.
Reload(c) ==
  /\ Hears(c)
  /\ config' = [config EXCEPT ![c] = Head(inbox[c])]
  /\ UNCHANGED <<pc, active, session, record, usage, lost, unsure>>

\* run_ws_bridge returns.
BridgeEnds(c) ==
  /\ Moves(c, "bridge", "abort")
  /\ UNCHANGED <<configVars, listenVars, active, callVars, lost>>

\* Mutant: the handle is dropped without abort.
AbortReloadDropped(c) ==
  /\ Moves(c, "abort", "terminate")
  /\ UNCHANGED <<configVars, listenVars, active, callVars, lost>>

AbortReload(c) ==
  /\ Moves(c, "abort", "terminate")
  /\ StopsListening(c)
  /\ UNCHANGED <<configVars, active, callVars, lost>>

Terminate(c) ==
  /\ Moves(c, "terminate", "uncount")
  /\ session' = [session EXCEPT ![c] = "terminated"]
  /\ config' = [config EXCEPT ![c] = None]
  /\ UNCHANGED <<configVars, listenVars, active, record, usage, lost, unsure>>

\* of a call that was bridged
Uncount(c) ==
  /\ Moves(c, "uncount", "finalise")
  /\ Uncounts(c)

\* finalize: an UPDATE by session id, of no row if none was created.
Finalised(cdr) == IF cdr = None THEN None ELSE "completed"

\* The upload of the recording that comes before it only adds the key to the row.
FinaliseRecord(c) ==
  /\ Moves(c, "finalise", "usage")
  /\ \/ record' = [record EXCEPT ![c] = Finalised(@)] /\ UNCHANGED lost
     \/ UNCHANGED record /\ Loses(c)
  /\ UNCHANGED <<configVars, listenVars, active, config, session, usage, unsure>>

\* record_call: an INSERT, not keyed by the call.
Recorded(c) == usage' = usage \cup {c}

RecordUsage(c) ==
  /\ Moves(c, "usage", "ended")
  /\ \/ Recorded(c) /\ UNCHANGED lost
     \/ UNCHANGED usage /\ Loses(c)
  /\ UNCHANGED <<configVars, listenVars, active, config, session, record, unsure>>

----
Open == {c \in Calls : pc[c] \notin {"closed", "rejected", "ended", "crashed"}}

\* The server dies with every connection, session and reload task.
Crash ==
  /\ Crashes
  /\ Open # {}
  /\ pc' = [c \in Calls |-> IF c \in Open THEN "crashed" ELSE pc[c]]
  /\ session' = [c \in Calls |-> IF session[c] = "active" THEN "terminated" ELSE session[c]]
  /\ listener' = [c \in Calls |-> "off"]
  /\ inbox' = [c \in Calls |-> <<>>]
  /\ config' = [c \in Calls |-> None]
  /\ UNCHANGED <<configVars, active, record, usage, lost, unsure>>

\* What the server does by itself; the client upgrades, and ends the bridge.
Handles(c) ==
  \/ LookUp(c) \/ Fetch(c) \/ BackFill(c) \/ CountActive(c) \/ Register(c)
  \/ SessionStart(c) \/ CreateRecord(c) \/ StartSession(c) \/ SendReady(c) \/ GiveUp(c)
  \/ Abandon(c) \/ AbortReload(c) \/ Terminate(c) \/ Uncount(c)
  \/ FinaliseRecord(c) \/ RecordUsage(c)

Listens(c) ==
  \/ Subscribe(c) /\ UNCHANGED <<pc, active, callVars, lost>>
  \/ Reload(c)

ConfigChanges == ConfigNext /\ UNCHANGED <<pc, active, callVars, lost>>

Next ==
  \/ \E c \in Calls : Upgrade(c) \/ BridgeEnds(c) \/ Handles(c) \/ Listens(c)
  \/ ConfigChanges
  \/ Crash

Spec == Init /\ [][Next]_vars

\* Redis, the database and the client's 10 s all answer or fail; tokio runs
\* every task that can run.  Nothing is assumed of the client, who may stay
\* for ever, of those who change the campaign, or of the server's luck.
FairSpec ==
  /\ Spec
  /\ \A c \in Calls : WF_vars(Handles(c)) /\ WF_vars(Listens(c))

----
(* Properties *)

\* The limit is read and taken in two steps.  Of the calls that were admitted on
\* a count that was good (nobody between the two steps, Redis and the database
\* answered) no more are counted than the limit allows, also when calls of a
\* crashed server are still counted.  handler.rs 470-490
LimitHeldUnlessRaced == Cardinality(active \ unsure) <= MaxSessions

\* A call that is over, by whatever return, has given back its place and, once it
\* was bridged, closed its record after its session ended and written its usage,
\* unless a write failed.  The record stays open only for a call that was never
\* bridged: the three early returns after it is created.  handler.rs 525-690
EndedMeansSettled ==
  \A c \in Calls \ lost :
    /\ pc[c] \in {"ended", "rejected"} => c \notin active /\ session[c] # "active"
    /\ c \in usage => /\ session[c] = "terminated"
                      /\ record[c] = "completed"
                      /\ c \notin active
    /\ record[c] = "completed" => session[c] = "terminated"

\* The state of the calls and of what outlives them.
SettledInv == TypeOK /\ EndedMeansSettled

\* When the bridge of a call for a campaign ends, its listener is stopped and it is
\* settled before long, unless the server crashes: neither a failed write nor a
\* failed upload stops the steps that follow.  handler.rs 619-690
CallsAccounted ==
  \A c \in Campaigners :
    pc[c] = "abort" ~> \/ pc[c] = "crashed"
                       \/ /\ pc[c] = "ended"
                          /\ listener[c] = "off"
                          /\ c \in lost \/ c \in usage

\* A session never goes back to an older configuration than the one it has, also
\* when it read the row before and hears of it after; if one request to the API
\* is answered before the next.  handler.rs 734-780, campaigns.rs 21-40
NewerPromptOnly ==
  [][\A c \in Calls :
       session[c] = "active" /\ config[c] # None /\ config'[c] \notin {config[c], None}
         => config'[c] > config[c]]_vars

====
