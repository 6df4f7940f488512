---- MODULE AsteriskCallsProofs ----
(***************************************************************************)
(* What holds of calls through Asterisk however many there are: a call     *)
(* that came to its session, and a call of the load test that came to its  *)
(* end, leave nothing behind; and calls are routed as the database says    *)
(* when a number is changed by one request at a time.                      *)
(***************************************************************************)
EXTENDS AsteriskCalls, TLAPS

Kinds == {"start", "end", "key", "media"}
Messages == [kind : Kinds, call : Calls]

\* What is under way from Asterisk.
EventsInv == events \in Seq(Messages) /\ monitor \in [Calls -> Seq({"media", "call"})]

\* The transport gives back, step by step, what it has acquired.
CleanInv ==
  \A c \in Calls :
    /\ pc[c] \in {"none", "route", "answer", "media", "bridge", "add", "session"} => session[c] = "none"
    /\ c \notin refused =>
         /\ pc[c] = "hangupMedia" => c \notin bridge
         /\ pc[c] = "hangup" => ~Orphan(c)
         /\ pc[c] \in {"unregister", "done"} /\ session[c] # "none" => ~Orphan(c) /\ leg[c] = "gone"

\* The monitor has told the backend, or is about to, that its call was answered.
HasCall(c) == "call" \in seen[c] \/ \E i \in 1..Len(monitor[c]) : monitor[c][i] = "call"

\* From then on the two legs come and go together, and the backend gives back what it has.
LegsInv ==
  \A c \in Calls :
    /\ at[c] \in {"idle", "media", "awaitMedia", "originate"} => dialled[c] = "none"
    /\ dialled[c] = "up" => leg[c] = "up"
    /\ HasCall(c) => dialled[c] = "up" \/ (dialled[c] = "gone" /\ leg[c] = "gone")
    /\ at[c] \in {"bridge", "addCall", "addMedia", "play", "stop", "hangupCall"} => "call" \in seen[c]
    /\ reader[c] = "running" => at[c] \in {"play", "stop"}
    /\ c \notin refused =>
         /\ at[c] \in {"hangupMedia", "destroy", "join", "ok"} => dialled[c] = "gone" /\ leg[c] = "gone"
         /\ at[c] \in {"destroy", "join", "ok"} => c \notin ownMedia
         /\ at[c] \in {"join", "ok"} => c \notin ownBridge

\* One request at a time writes what the row says.
RouteInv ==
  /\ \A a, b \in Pending : a = b
  /\ \A a \in Pending : writing[a].route = assigned
  /\ assigned # None => provisioned
  /\ RouteFollowsRow

IInv == BackendTypeOK /\ EventsInv /\ CleanInv /\ LegsInv /\ (Serial => RouteInv)

----
(* Queues *)

LEMMA SeqAppend ==
  ASSUME NEW S, NEW s \in Seq(S), NEW e \in S
  PROVE  /\ Append(s, e) \in Seq(S) /\ Len(Append(s, e)) = Len(s) + 1 /\ Len(s) \in Nat
         /\ \A i \in 1..Len(s) : Append(s, e)[i] = s[i]
         /\ Append(s, e)[Len(s) + 1] = e
OBVIOUS

LEMMA SeqTail ==
  ASSUME NEW S, NEW s \in Seq(S), s # <<>>
  PROVE  /\ Head(s) \in S /\ Head(s) = s[1] /\ 1 \in 1..Len(s)
         /\ Tail(s) \in Seq(S) /\ Len(Tail(s)) = Len(s) - 1
         /\ \A i \in 1..Len(Tail(s)) : i + 1 \in 1..Len(s) /\ Tail(s)[i] = s[i + 1]
OBVIOUS

LEMMA Told ==
  ASSUME events \in Seq(Messages), NEW kind \in Kinds, NEW c \in Calls, Tells(kind, c)
  PROVE  events' \in Seq(Messages)
<1>1. [kind |-> kind, call |-> c] \in Messages BY DEF Messages
<1> QED BY <1>1, SeqAppend DEF Tells

----
(* The transport *)

\* A step of Asterisk, of a caller or of a handler, without what it does to the other leg.
AriStep(c) ==
  Enters(c) \/ HangsUp(c) \/ Around(c) \/ Proceed(c) \/ Answer(c) \/ HangUp(c)

LEMMA AriTyped ==
  ASSUME TypeOK, NEW c \in Calls, AriStep(c)
  PROVE  TypeOK'
<1> USE CapAssumption DEF Moves, Fault, TypeOK, Steps, asteriskVars, loopVars, pipeVars, faultVars, routingVars
<1>0. RoutingTypeOK' BY DEF AriStep, Around, Proceed, Enters, HangsUp, PressesKey, ReceiveRtp,
   RtpFails, TakesAudio, Speaks, SessionEnds, Route, Answer, CreateMedia, CreateBridge, AddToBridge,
   StartSession, BridgeCancelled, SendRtp, SeesSessionEnd, AbortReload, Terminate, DestroyBridge,
   HangUpMedia, HangUp, Unregister, RoutingTypeOK, RouteRead
<1>1. CASE Enters(c) BY <1>0, <1>1 DEF Enters
<1>2. CASE HangsUp(c) BY <1>0, <1>2 DEF HangsUp
<1>3. CASE PressesKey(c) BY <1>0, <1>3 DEF PressesKey
<1>4. CASE ReceiveRtp(c) BY <1>0, <1>4 DEF ReceiveRtp
<1>5. CASE RtpFails(c) BY <1>0, <1>5 DEF RtpFails
<1>6. CASE TakesAudio(c) BY <1>0, <1>6 DEF TakesAudio
<1>7. CASE Speaks(c) BY <1>0, <1>7 DEF Speaks
<1>8. CASE SessionEnds(c) BY <1>0, <1>8 DEF SessionEnds
<1>9. CASE Route(c) BY <1>0, <1>9 DEF Route, RouteRead, RoutingTypeOK
<1>10. CASE Answer(c) BY <1>0, <1>10 DEF Answer
<1>11. CASE CreateMedia(c) BY <1>0, <1>11 DEF CreateMedia
<1>12. CASE CreateBridge(c) BY <1>0, <1>12 DEF CreateBridge
<1>13. CASE AddToBridge(c) BY <1>0, <1>13 DEF AddToBridge
<1>14. CASE StartSession(c) BY <1>0, <1>14 DEF StartSession
<1>15. CASE BridgeCancelled(c) BY <1>0, <1>15 DEF BridgeCancelled
<1>16. CASE SendRtp(c) BY <1>0, <1>16 DEF SendRtp
<1>17. CASE SeesSessionEnd(c) BY <1>0, <1>17 DEF SeesSessionEnd
<1>18. CASE AbortReload(c) BY <1>0, <1>18 DEF AbortReload
<1>19. CASE Terminate(c) BY <1>0, <1>19 DEF Terminate
<1>20. CASE DestroyBridge(c) BY <1>0, <1>20 DEF DestroyBridge
<1>21. CASE HangUpMedia(c) BY <1>0, <1>21 DEF HangUpMedia
<1>22. CASE HangUp(c) BY <1>0, <1>22 DEF HangUp
<1>23. CASE Unregister(c) BY <1>0, <1>23 DEF Unregister
<1> QED BY <1>1, <1>2, <1>3, <1>4, <1>5, <1>6, <1>7, <1>8, <1>9, <1>10, <1>11, <1>12, <1>13, <1>14,
   <1>15, <1>16, <1>17, <1>18, <1>19, <1>20, <1>21, <1>22, <1>23 DEF AriStep, Around, Proceed

LEMMA AriEvents ==
  ASSUME events \in Seq(Messages), NEW c \in Calls, AriStep(c)
  PROVE  events' \in Seq(Messages)
<1>1. CASE UNCHANGED events BY <1>1
<1>2. CASE \E kind \in Kinds : Tells(kind, c) BY <1>2, Told
<1> QED
  BY <1>1, <1>2 DEF AriStep, Around, Proceed, Enters, HangsUp, PressesKey, ReceiveRtp, RtpFails,
     TakesAudio, Speaks, SessionEnds, Route, Answer, CreateMedia, CreateBridge, AddToBridge,
     StartSession, BridgeCancelled, SendRtp, SeesSessionEnd, AbortReload, Terminate, DestroyBridge,
     HangUpMedia, HangUp, Unregister, Kinds, asteriskVars, loopVars

LEMMA AriCleans ==
  ASSUME TypeOK, CleanInv, NEW c \in Calls, AriStep(c)
  PROVE  CleanInv'
<1> USE DEF Moves, Fault, TypeOK, CleanInv, Orphan, asteriskVars, loopVars, pipeVars, faultVars
<1>1. CASE Enters(c) BY <1>1 DEF Enters
<1>2. CASE HangsUp(c) BY <1>2 DEF HangsUp
<1>3. CASE PressesKey(c) BY <1>3 DEF PressesKey
<1>4. CASE ReceiveRtp(c) BY <1>4 DEF ReceiveRtp
<1>5. CASE RtpFails(c) BY <1>5 DEF RtpFails
<1>6. CASE TakesAudio(c) BY <1>6 DEF TakesAudio
<1>7. CASE Speaks(c) BY <1>7 DEF Speaks
<1>8. CASE SessionEnds(c) BY <1>8 DEF SessionEnds
<1>9. CASE Route(c) BY <1>9 DEF Route
<1>10. CASE Answer(c) BY <1>10 DEF Answer
<1>11. CASE CreateMedia(c) BY <1>11 DEF CreateMedia
<1>12. CASE CreateBridge(c) BY <1>12 DEF CreateBridge
<1>13. CASE AddToBridge(c) BY <1>13 DEF AddToBridge
<1>14. CASE StartSession(c) BY <1>14 DEF StartSession
<1>15. CASE BridgeCancelled(c) BY <1>15 DEF BridgeCancelled
<1>16. CASE SendRtp(c) BY <1>16 DEF SendRtp
<1>17. CASE SeesSessionEnd(c) BY <1>17 DEF SeesSessionEnd
<1>18. CASE AbortReload(c) BY <1>18 DEF AbortReload
<1>19. CASE Terminate(c) BY <1>19 DEF Terminate
<1>20. CASE DestroyBridge(c) BY <1>20 DEF DestroyBridge
<1>21. CASE HangUpMedia(c) BY <1>21 DEF HangUpMedia
<1>22. CASE HangUp(c) BY <1>22 DEF HangUp
<1>23. CASE Unregister(c) BY <1>23 DEF Unregister
<1> QED BY <1>1, <1>2, <1>3, <1>4, <1>5, <1>6, <1>7, <1>8, <1>9, <1>10, <1>11, <1>12, <1>13, <1>14,
   <1>15, <1>16, <1>17, <1>18, <1>19, <1>20, <1>21, <1>22, <1>23 DEF AriStep, Around, Proceed

\* The loop reads an event, or its socket closes.
LEMMA LoopKeeps ==
  ASSUME IInv, RunReads \/ SocketCloses, UNCHANGED backendVars
  PROVE  IInv'
<1> USE DEF IInv
<1>1. CASE RunReads
  <2> USE <1>1 DEF RunReads
  <2>1. /\ events' = Tail(events) /\ events # <<>>
        /\ UNCHANGED <<routingVars, asteriskVars, socket, campaign, session, pipeVars, faultVars>>
    OBVIOUS
  <2>2. Head(events) \in Messages /\ events' \in Seq(Messages) BY <2>1, SeqTail DEF EventsInv
  <2>3. Head(events).call \in Calls BY <2>2 DEF Messages
  <2>4. PICK c \in Calls : RunStarts(c) \/ RunCancels(c) \/ UNCHANGED <<registered, cancelled,
     pc>> BY <2>3
  <2>5. TypeOK'
    <3>1. RoutingTypeOK' BY <2>1 DEF BackendTypeOK, TypeOK, RoutingTypeOK, routingVars
    <3>2. TypeOK BY DEF BackendTypeOK
    <3>3. /\ registered' \subseteq Calls /\ cancelled' \subseteq Calls /\ pc' \in [Calls -> Steps]
          /\ \A b \in registered' : pc'[b] \notin {"none", "done"}
      <4> HIDE <1>1 DEF RunReads
      <4>1. CASE RunStarts(c) BY <3>2, <4>1 DEF RunStarts, Moves, TypeOK, Steps
      <4>2. CASE RunCancels(c) BY <3>2, <4>2 DEF RunCancels, TypeOK
      <4>3. CASE UNCHANGED <<registered, cancelled, pc>> BY <3>2, <4>3 DEF TypeOK
      <4> QED BY <2>4, <4>1, <4>2, <4>3
    <3> HIDE <1>1 DEF RunReads
    <3> QED BY <2>1, <3>1, <3>2, <3>3 DEF TypeOK, asteriskVars, pipeVars, faultVars
  <2>6. BackendTypeOK' BY <2>5 DEF BackendTypeOK, backendVars
  <2>7. EventsInv' BY <2>2 DEF EventsInv, backendVars
  <2>8. CleanInv'
    BY <2>1, <2>4 DEF RunStarts, RunCancels, Moves, BackendTypeOK, TypeOK, CleanInv, Orphan,
       asteriskVars,
       faultVars
  <2>9. LegsInv' BY <2>1 DEF LegsInv, HasCall, backendVars, asteriskVars, faultVars
  <2>10. RouteInv => RouteInv' BY <2>1 DEF RouteInv, RouteFollowsRow, Dangling, Pending, routingVars
  <2> QED BY <2>6, <2>7, <2>8, <2>9, <2>10
<1>2. CASE SocketCloses
  <2> USE <1>2 DEF SocketCloses, asteriskVars, pipeVars, faultVars, backendVars
  <2>1. TypeOK' BY DEF BackendTypeOK, TypeOK, RoutingTypeOK, routingVars
  <2>2. BackendTypeOK' BY <2>1 DEF BackendTypeOK
  <2>3. EventsInv' BY DEF EventsInv
  <2>4. CleanInv' BY DEF CleanInv, Orphan
  <2>5. LegsInv' BY DEF LegsInv, HasCall
  <2>6. RouteInv => RouteInv' BY DEF RouteInv, RouteFollowsRow, Dangling, Pending, routingVars
  <2> QED BY <2>2, <2>3, <2>4, <2>5, <2>6
<1> QED BY <1>1, <1>2

----
(* The two legs *)

LEMMA LegStepsKeep ==
  ASSUME IInv, NEW c \in Calls,
         LegEnters(c) \/ CallerHangsUp(c) \/ LegAnswered(c) \/ LegHungUp(c)
  PROVE  BackendTypeOK' /\ EventsInv' /\ CleanInv' /\ LegsInv'
<1> USE DEF IInv
<1>0. TypeOK /\ events \in Seq(Messages) BY DEF BackendTypeOK, EventsInv
<1>1. AriStep(c) BY DEF AriStep, LegEnters, CallerHangsUp, LegAnswered, LegHungUp
<1>2. TypeOK' /\ events' \in Seq(Messages) /\ CleanInv' BY <1>0, <1>1, AriTyped, AriEvents, AriCleans
<1>3. leg \in [Calls -> {"none", "up", "gone"}] /\ dialled \in [Calls -> {"none", "ringing", "up", "gone"}]
  BY DEF BackendTypeOK, TypeOK
<1>4. CASE LegEnters(c)
  <2>1. LegsInv' BY <1>3, <1>4 DEF LegsInv, HasCall, LegEnters, Enters, backendVars, faultVars
  <2> QED BY <1>2, <1>4, <2>1 DEF LegEnters, BackendTypeOK, EventsInv, backendVars
<1>5. CASE CallerHangsUp(c)
  <2>1. LegsInv' BY <1>3, <1>5 DEF LegsInv, HasCall, CallerHangsUp, HangsUp, Disconnects, faultVars
  <2> QED BY <1>2, <1>5, <2>1 DEF CallerHangsUp, Disconnects, BackendTypeOK, EventsInv
<1>6. CASE LegHungUp(c)
  <2>1. LegsInv' BY <1>3, <1>6 DEF LegsInv, HasCall, LegHungUp, HangUp, Fault, Disconnects, faultVars
  <2> QED BY <1>2, <1>6, <2>1 DEF LegHungUp, Disconnects, BackendTypeOK, EventsInv
<1>7. CASE LegAnswered(c)
  <2> USE <1>7 DEF LegAnswered
  <2>1. UNCHANGED <<leg, at, ownMedia, ownBridge, seen, reader>> /\ refused \subseteq refused'
    BY DEF Answer, Fault, asteriskVars, faultVars
  <2>2. CASE dialled[c] = "ringing" /\ pc'[c] = "media"
    <3>1. leg[c] = "up"
      BY <1>0, <2>2 DEF Answer, Moves, TypeOK, Steps
    <3>2. /\ monitor[c] \in Seq({"media", "call"}) /\ monitor'[c] = Append(monitor[c], "call")
          /\ \A d \in Calls : d # c => monitor'[d] = monitor[d]
      BY <2>2 DEF EventsInv
    <3>3. monitor' \in [Calls -> Seq({"media", "call"})]
      <4>1. Append(monitor[c], "call") \in Seq({"media", "call"}) BY <3>2, SeqAppend
      <4> QED BY <2>2, <4>1 DEF EventsInv
    <3>4. dialled'[c] = "up" /\ \A d \in Calls : d # c => dialled'[d] = dialled[d]
      BY <1>3, <2>2
    <3>5. \A d \in Calls : d # c => HasCall(d)' = HasCall(d) BY <2>1, <3>2 DEF HasCall
    <3>6. LegsInv'
      BY <1>3, <2>1, <2>2, <3>1, <3>4, <3>5 DEF LegsInv
    <3>7. dialled' \in [Calls -> {"none", "ringing", "up", "gone"}] BY <1>3, <2>2
    <3>8. \A d \in Calls : \A i \in DOMAIN monitor'[d] : monitor'[d][i] \in {"media", "call"}
      BY <3>3
    <3>9. BackendTypeOK' BY <1>2, <2>1, <3>7, <3>8 DEF BackendTypeOK
    <3> QED BY <1>2, <3>3, <3>6, <3>9 DEF EventsInv
  <2>3. CASE UNCHANGED <<dialled, monitor>>
    <3>1. LegsInv' BY <2>1, <2>3 DEF LegsInv, HasCall
    <3> QED BY <1>2, <2>1, <2>3, <3>1 DEF BackendTypeOK, EventsInv
  <2> QED BY <2>2, <2>3
<1> QED BY <1>4, <1>5, <1>6, <1>7

LEMMA RingsOutKeeps ==
  ASSUME IInv, NEW c \in Calls, RingsOut(c)
  PROVE  IInv'
<1> USE DEF IInv, RingsOut
<1>1. dialled \in [Calls -> {"none", "ringing", "up", "gone"}] BY DEF BackendTypeOK
<1>2. TypeOK' /\ BackendTypeOK'
  BY DEF Disconnects, BackendTypeOK, TypeOK, RoutingTypeOK, vars, callVars, routingVars, asteriskVars,
     loopVars, pipeVars, faultVars
<1>3. EventsInv' BY DEF EventsInv, vars, callVars, loopVars
<1>4. CleanInv' BY DEF CleanInv, Orphan, vars, callVars, asteriskVars, faultVars
<1>5. LegsInv' BY <1>1 DEF Disconnects, LegsInv, HasCall, vars, callVars, asteriskVars, faultVars
<1>6. RouteInv => RouteInv' BY DEF RouteInv, RouteFollowsRow, Dangling, Pending, vars, routingVars
<1> QED BY <1>2, <1>3, <1>4, <1>5, <1>6

\* What is around a call, and the steps in which no leg comes or goes.
LEMMA HandlerKeeps ==
  ASSUME IInv, NEW c \in Calls, Around(c) \/ Proceed(c), UNCHANGED backendVars
  PROVE  BackendTypeOK' /\ EventsInv' /\ CleanInv' /\ LegsInv'
<1> USE DEF IInv
<1>0. TypeOK /\ events \in Seq(Messages) /\ AriStep(c) BY DEF BackendTypeOK, EventsInv, AriStep
<1>1. TypeOK' /\ events' \in Seq(Messages) /\ CleanInv' BY <1>0, AriTyped, AriEvents, AriCleans
<1>2. leg' = leg /\ refused \subseteq refused'
  BY DEF Around, Proceed, Enters, HangsUp, PressesKey, ReceiveRtp, RtpFails, TakesAudio, Speaks,
     SessionEnds, Route, Answer, CreateMedia, CreateBridge, AddToBridge, StartSession,
     BridgeCancelled, SendRtp, SeesSessionEnd, AbortReload, Terminate, DestroyBridge, HangUpMedia,
     HangUp, Unregister, Fault, asteriskVars, faultVars
<1>3. LegsInv' BY <1>2 DEF LegsInv, HasCall, backendVars
<1> QED BY <1>1, <1>3 DEF BackendTypeOK, EventsInv, backendVars

\* None of this is about the number.
LEMMA NumberApart ==
  ASSUME NEW c \in Calls,
         \/ Around(c) \/ Proceed(c) \/ LegEnters(c)
         \/ CallerHangsUp(c) \/ LegAnswered(c) \/ LegHungUp(c)
  PROVE  UNCHANGED routingVars
BY DEF Around, Proceed, LegEnters, CallerHangsUp, LegAnswered, LegHungUp, Enters, HangsUp, Answer,
   HangUp, Enters, HangsUp, PressesKey, ReceiveRtp, RtpFails, TakesAudio, Speaks, SessionEnds, Route,
   Answer, CreateMedia, CreateBridge, AddToBridge, StartSession, BridgeCancelled, SendRtp,
   SeesSessionEnd, AbortReload, Terminate, DestroyBridge, HangUpMedia, HangUp, Unregister

LEMMA NumberKept ==
  ASSUME RouteInv, UNCHANGED routingVars
  PROVE  RouteInv'
BY DEF RouteInv, RouteFollowsRow, Dangling, Pending, routingVars

----
(* The backend *)

LEMMA ApartKeeps ==
  ASSUME TypeOK, CleanInv, NEW c \in Calls, Apart, Fault(c) \/ UNCHANGED faultVars
  PROVE  /\ TypeOK' /\ CleanInv' /\ events' = events /\ leg' = leg /\ UNCHANGED routingVars
         /\ refused \subseteq refused'
<1> USE DEF Apart, Fault, asteriskVars, loopVars, pipeVars, faultVars
<1>1. RoutingTypeOK' BY DEF TypeOK, RoutingTypeOK, routingVars
<1>2. TypeOK' BY <1>1, CapAssumption DEF TypeOK
<1>3. CleanInv' BY DEF CleanInv, Orphan
<1> QED BY <1>2, <1>3

LEMMA AwaitKeeps ==
  ASSUME IInv, NEW c \in Calls, AwaitMedia(c) \/ AwaitCall(c)
  PROVE  IInv'
<1> USE DEF IInv
<1>0. PICK kind \in {"media", "call"}, from \in BackendSteps, to \in BackendSteps :
        /\ Await(c, kind, from, to)
        /\ kind = "media" => from = "awaitMedia" /\ to = "originate"
        /\ kind = "call" => from = "awaitCall" /\ to = "bridge"
  BY DEF AwaitMedia, AwaitCall, BackendSteps
<1>1. Apart /\ UNCHANGED <<faultVars, dialled, ownMedia, ownBridge, reader>> BY <1>0 DEF Await
<1>2. /\ TypeOK' /\ CleanInv' /\ events' = events /\ leg' = leg /\ UNCHANGED routingVars
      /\ refused' = refused
  BY <1>1, ApartKeeps DEF BackendTypeOK, faultVars
<1>3. RouteInv => RouteInv' BY <1>2, NumberKept
<1>4. /\ at \in [Calls -> BackendSteps] /\ seen \in [Calls -> SUBSET {"media", "call"}]
      /\ monitor \in [Calls -> Seq({"media", "call"})]
  BY DEF BackendTypeOK, EventsInv
<1>5. /\ at[c] = from /\ at' \in [Calls -> BackendSteps]
      /\ \A d \in Calls : d # c => at'[d] = at[d]
      /\ at'[c] \in {from, to, "failed"}
  BY <1>0, <1>4 DEF Await, Gets, BackendSteps
<1>6. /\ monitor' \in [Calls -> Seq({"media", "call"})] /\ seen' \in [Calls -> SUBSET {"media", "call"}]
      /\ \A d \in Calls : HasCall(d)' => HasCall(d)
      /\ \A d \in Calls : seen[d] \subseteq seen'[d]
      /\ at'[c] = to => kind \in seen'[c]
  <2>1. CASE UNCHANGED <<monitor, seen>> /\ (kind \in seen[c] \/ Gets(c, from, "failed"))
    <3>1. at'[c] = to => kind \in seen[c] BY <1>0, <1>4, <2>1 DEF Gets
    <3> QED BY <1>4, <2>1, <3>1 DEF HasCall
  <2>2. CASE /\ kind \notin seen[c] /\ monitor[c] # <<>>
             /\ monitor' = [monitor EXCEPT ![c] = Tail(@)]
             /\ seen' = [seen EXCEPT ![c] = @ \cup {Head(monitor[c])}]
             /\ Gets(c, from, IF Head(monitor[c]) = kind THEN to ELSE from)
    <3>1. /\ monitor[c] \in Seq({"media", "call"})
          /\ monitor'[c] = Tail(monitor[c]) /\ seen'[c] = seen[c] \cup {Head(monitor[c])}
          /\ \A d \in Calls : d # c => monitor'[d] = monitor[d] /\ seen'[d] = seen[d]
      BY <1>4, <2>2
    <3>2. /\ Head(monitor[c]) \in {"media", "call"} /\ Head(monitor[c]) = monitor[c][1]
          /\ 1 \in 1..Len(monitor[c])
          /\ Tail(monitor[c]) \in Seq({"media", "call"})
          /\ \A i \in 1..Len(Tail(monitor[c])) :
               i + 1 \in 1..Len(monitor[c]) /\ Tail(monitor[c])[i] = monitor[c][i + 1]
      BY <2>2, <3>1, SeqTail
    <3>3. HasCall(c)' => HasCall(c) BY <3>1, <3>2 DEF HasCall
    <3>4. \A d \in Calls : d # c => (HasCall(d)' => HasCall(d)) BY <3>1 DEF HasCall
    <3>5. at'[c] = to => kind \in seen'[c]
      BY <1>0, <1>4, <1>5, <2>2, <3>1 DEF Gets, BackendSteps
    <3>6. monitor' \in [Calls -> Seq({"media", "call"})] BY <1>4, <2>2, <3>2
    <3>7. seen' \in [Calls -> SUBSET {"media", "call"}] BY <1>4, <2>2, <3>2
    <3>8. \A d \in Calls : seen[d] \subseteq seen'[d] BY <3>1
    <3> QED BY <3>3, <3>4, <3>5, <3>6, <3>7, <3>8
  <2> QED BY <1>0, <2>1, <2>2 DEF Await
<1>7. LegsInv'
  BY <1>0, <1>1, <1>2, <1>5, <1>6 DEF LegsInv
<1>8. BackendTypeOK'
  <2>1. \A d \in Calls : at'[d] \in {"idle", "ok", "failed"} => reader'[d] # "running"
    BY <1>7 DEF LegsInv
  <2> QED BY <1>1, <1>2, <1>5, <1>6, <2>1 DEF BackendTypeOK
<1>9. EventsInv' BY <1>2, <1>6 DEF EventsInv
<1> QED BY <1>2, <1>3, <1>7, <1>8, <1>9

\* The steps of the backend in which no leg comes or goes and the monitor is not read.
OwnStep(c) ==
  \/ Connect(c) \/ Dial(c) \/ OwnBridge(c) \/ AddCall(c) \/ AddMedia(c) \/ Play(c)
  \/ StopReader(c) \/ HangUpOwnMedia(c) \/ DestroyOwnBridge(c) \/ Join(c)

LEMMA OwnStepKeeps ==
  ASSUME IInv, NEW c \in Calls, OwnStep(c)
  PROVE  IInv'
<1> USE DEF IInv
<1> DEFINE OwnTypeOK ==
      /\ at \in [Calls -> BackendSteps]
      /\ dialled \in [Calls -> {"none", "ringing", "up", "gone"}]
      /\ ownMedia \subseteq Calls /\ ownBridge \subseteq Calls
      /\ reader \in [Calls -> {"none", "running", "stopped"}]
<1>1. Apart /\ (Fault(c) \/ UNCHANGED faultVars) /\ UNCHANGED <<monitor, seen>>
  BY DEF OwnStep, Fails, Connect, Dial, OwnBridge, AddCall, AddMedia, Play, StopReader,
     HangUpOwnMedia, DestroyOwnBridge, Join
<1>2. /\ TypeOK' /\ CleanInv' /\ events' = events /\ leg' = leg /\ UNCHANGED routingVars
      /\ refused \subseteq refused'
  BY <1>1, ApartKeeps DEF BackendTypeOK
<1>3. RouteInv => RouteInv' BY <1>2, NumberKept
<1>4. EventsInv' BY <1>1, <1>2 DEF EventsInv
<1>5. OwnTypeOK /\ (\A d \in Calls : at[d] \in {"idle", "ok", "failed"} => reader[d] # "running")
  BY DEF BackendTypeOK
<1>6. (\A d \in Calls : HasCall(d)' = HasCall(d)) /\ (\A d \in Calls : seen'[d] = seen[d])
  BY <1>1 DEF HasCall
<1>7. OwnTypeOK' /\ LegsInv'
  <2> HIDE DEF OwnTypeOK
  <2> USE <1>2, <1>5, <1>6 DEF OwnTypeOK, BackendSteps, Gets, LegsInv
  <2>1. CASE Connect(c) BY <2>1 DEF Connect, Fails, Fault, faultVars
  <2>2. CASE Dial(c) BY <2>2 DEF Dial, Fails, Fault, faultVars
  <2>3. CASE OwnBridge(c) BY <2>3 DEF OwnBridge, Fails, Fault, faultVars
  <2>4. CASE AddCall(c) BY <2>4 DEF AddCall, Fails, Fault, faultVars
  <2>5. CASE AddMedia(c) BY <2>5 DEF AddMedia, Fails, Fault, faultVars
  <2>6. CASE Play(c) BY <2>6 DEF Play, Fails, Fault, faultVars
  <2>7. CASE StopReader(c) BY <2>7 DEF StopReader, Fails, Fault, faultVars
  <2>8. CASE HangUpOwnMedia(c) BY <2>8 DEF HangUpOwnMedia, Fails, Fault, faultVars
  <2>9. CASE DestroyOwnBridge(c) BY <2>9 DEF DestroyOwnBridge, Fails, Fault, faultVars
  <2>10. CASE Join(c) BY <2>10 DEF Join, Fails, Fault, faultVars
  <2> QED BY <2>1, <2>2, <2>3, <2>4, <2>5, <2>6, <2>7, <2>8, <2>9, <2>10 DEF OwnStep
<1>8. BackendTypeOK'
  <2>1. \A d \in Calls : at'[d] \in {"idle", "ok", "failed"} => reader'[d] # "running"
    BY <1>7 DEF LegsInv
  <2>2. \A d \in Calls : \A i \in DOMAIN monitor'[d] : monitor'[d][i] \in {"media", "call"}
    BY <1>1 DEF BackendTypeOK
  <2>3. seen' \in [Calls -> SUBSET {"media", "call"}] BY <1>1 DEF BackendTypeOK
  <2> QED BY <1>2, <1>7, <2>1, <2>2, <2>3 DEF BackendTypeOK
<1> QED BY <1>2, <1>3, <1>4, <1>7, <1>8

\* The backend's media channel is seen by the monitor.
LEMMA OwnMediaKeeps ==
  ASSUME IInv, NEW c \in Calls, OwnMedia(c)
  PROVE  IInv'
<1> USE DEF IInv
<1>1. Apart /\ (Fault(c) \/ UNCHANGED faultVars) /\ UNCHANGED <<dialled, ownBridge, seen>>
  BY DEF OwnMedia, Fails
<1>2. /\ TypeOK' /\ CleanInv' /\ events' = events /\ leg' = leg /\ UNCHANGED routingVars
      /\ refused \subseteq refused'
  BY <1>1, ApartKeeps DEF BackendTypeOK
<1>3. RouteInv => RouteInv' BY <1>2, NumberKept
<1>4. /\ at \in [Calls -> BackendSteps] /\ ownMedia \subseteq Calls
      /\ reader \in [Calls -> {"none", "running", "stopped"}]
      /\ monitor \in [Calls -> Seq({"media", "call"})]
  BY DEF BackendTypeOK, EventsInv
<1>5. /\ monitor' \in [Calls -> Seq({"media", "call"})]
      /\ \A d \in Calls : HasCall(d)' => HasCall(d)
  <2>1. CASE UNCHANGED monitor BY <1>1, <1>4, <2>1 DEF HasCall
  <2>2. CASE monitor' = [monitor EXCEPT ![c] = Append(@, "media")]
    <3>1. monitor[c] \in Seq({"media", "call"}) BY <1>4
    <3>2. /\ Append(monitor[c], "media") \in Seq({"media", "call"})
          /\ Len(Append(monitor[c], "media")) = Len(monitor[c]) + 1 /\ Len(monitor[c]) \in Nat
          /\ \A i \in 1..Len(monitor[c]) : Append(monitor[c], "media")[i] = monitor[c][i]
          /\ Append(monitor[c], "media")[Len(monitor[c]) + 1] = "media"
      BY <3>1, SeqAppend
    <3>3. monitor'[c] = Append(monitor[c], "media") /\ \A d \in Calls : d # c => monitor'[d] = monitor[d]
      BY <1>4, <2>2
    <3>4. HasCall(c)' => HasCall(c) BY <1>1, <3>2, <3>3 DEF HasCall
    <3>5. \A d \in Calls : d # c => (HasCall(d)' => HasCall(d)) BY <1>1, <3>3 DEF HasCall
    <3>6. monitor' \in [Calls -> Seq({"media", "call"})] BY <1>4, <2>2, <3>2
    <3> QED BY <3>4, <3>5, <3>6
  <2> QED BY <2>1, <2>2 DEF OwnMedia
<1>6. /\ at' \in [Calls -> BackendSteps] /\ ownMedia' \subseteq Calls
      /\ reader' \in [Calls -> {"none", "running", "stopped"}]
      /\ \A d \in Calls : at'[d] # at[d] =>
           d = c /\ at[c] = "media" /\ at'[c] \in {"awaitMedia", "failed"}
      /\ \A d \in Calls : reader'[d] = "running" => reader[d] = "running"
      /\ ownMedia' # ownMedia => ownMedia' = ownMedia \cup {c} /\ at'[c] = "awaitMedia"
  BY <1>4 DEF OwnMedia, Fails, Gets, BackendSteps
<1>7. LegsInv' BY <1>1, <1>2, <1>4, <1>5, <1>6 DEF LegsInv
<1>8. BackendTypeOK'
  <2>1. \A d \in Calls : at'[d] \in {"idle", "ok", "failed"} => reader'[d] # "running"
    BY <1>7 DEF LegsInv
  <2> QED BY <1>1, <1>2, <1>5, <1>6, <2>1 DEF BackendTypeOK
<1>9. EventsInv' BY <1>2, <1>5 DEF EventsInv
<1> QED BY <1>2, <1>3, <1>7, <1>8, <1>9

LEMMA HangUpDialledKeeps ==
  ASSUME IInv, NEW c \in Calls, HangUpDialled(c)
  PROVE  IInv'
<1> USE DEF IInv
<1>0. /\ TypeOK /\ events \in Seq(Messages) /\ UNCHANGED <<ownMedia, ownBridge, monitor, seen, reader>>
      /\ at[c] = "hangupCall" /\ at' = [at EXCEPT ![c] = "hangupMedia"]
      /\ at \in [Calls -> BackendSteps] /\ at' \in [Calls -> BackendSteps]
      /\ dialled \in [Calls -> {"none", "ringing", "up", "gone"}]
      /\ leg \in [Calls -> {"none", "up", "gone"}]
  BY DEF HangUpDialled, Gets, BackendTypeOK, EventsInv, TypeOK, BackendSteps
<1>1. /\ TypeOK' /\ events' \in Seq(Messages) /\ CleanInv' /\ UNCHANGED routingVars
      /\ dialled' \in [Calls -> {"none", "ringing", "up", "gone"}]
      /\ LegsInv'
  <2>1. CASE HangsUp(c) /\ Disconnects(c)
    <3>1. AriStep(c) BY <2>1 DEF AriStep
    <3>2. TypeOK' /\ events' \in Seq(Messages) /\ CleanInv'
      BY <1>0, <3>1, AriTyped, AriEvents, AriCleans
    <3>3. LegsInv' BY <1>0, <2>1 DEF LegsInv, HasCall, HangsUp, Disconnects, faultVars
    <3>4. UNCHANGED routingVars BY <2>1 DEF HangsUp
    <3>5. dialled' \in [Calls -> {"none", "ringing", "up", "gone"}] BY <1>0, <2>1 DEF Disconnects
    <3> QED BY <3>2, <3>3, <3>4, <3>5
  <2>2. CASE dialled[c] = "gone" /\ UNCHANGED <<vars, dialled>>
    <3>1. Apart /\ UNCHANGED faultVars BY <2>2 DEF Apart, vars, callVars
    <3>2. TypeOK' /\ CleanInv' /\ events' = events /\ leg' = leg /\ UNCHANGED routingVars
      BY <1>0, <3>1, ApartKeeps
    <3>3. LegsInv' BY <1>0, <2>2, <3>1, <3>2 DEF LegsInv, HasCall, faultVars
    <3> QED BY <1>0, <2>2, <3>2, <3>3
  <2>3. CASE Fault(c) /\ Apart /\ UNCHANGED dialled
    <3>1. TypeOK' /\ CleanInv' /\ events' = events /\ leg' = leg /\ UNCHANGED routingVars
      BY <1>0, <2>3, ApartKeeps
    <3>2. refused' = refused \cup {c} BY <2>3 DEF Fault
    <3>3. LegsInv' BY <1>0, <2>3, <3>1, <3>2 DEF LegsInv, HasCall
    <3> QED BY <1>0, <2>3, <3>1, <3>3
  <2> QED BY <2>1, <2>2, <2>3 DEF HangUpDialled
<1>2. BackendTypeOK' BY <1>0, <1>1 DEF BackendTypeOK
<1>3. EventsInv' BY <1>0, <1>1 DEF EventsInv
<1>4. RouteInv => RouteInv' BY <1>1, NumberKept
<1> QED BY <1>1, <1>2, <1>3, <1>4

----
(* The number *)

LEMMA NumberKeeps ==
  ASSUME IInv, RoutingNext, UNCHANGED <<callVars, backendVars>>
  PROVE  IInv'
<1> USE DEF IInv
<1>1. RoutingTypeOK BY DEF BackendTypeOK, TypeOK
<1>2. ASSUME NEW a \in Clerks, Assign(a) \/ Unassign(a) \/ DeleteNumber(a) \/ WriteRoute(a)
      PROVE  RoutingTypeOK'
  <2> USE DEF RoutingTypeOK, Begins
  <2>1. CASE Assign(a) BY <1>1, <2>1 DEF Assign
  <2>2. CASE Unassign(a) BY <1>1, <2>2 DEF Unassign
  <2>3. CASE DeleteNumber(a) BY <1>1, <2>3 DEF DeleteNumber
  <2>4. CASE WriteRoute(a) BY <1>1, <2>4 DEF WriteRoute, Idle
  <2> QED BY <1>2, <2>1, <2>2, <2>3, <2>4
<1>3. RoutingTypeOK'
  <2>1. ASSUME NEW gone \in Campaigns, DeleteCampaign(gone) PROVE RoutingTypeOK'
    BY <1>1, <2>1 DEF DeleteCampaign, RoutingTypeOK
  <2> QED BY <1>2, <2>1 DEF RoutingNext
<1>4. TypeOK'
  BY <1>3 DEF BackendTypeOK, TypeOK, callVars, asteriskVars, loopVars, pipeVars, faultVars
<1>5. BackendTypeOK' BY <1>4 DEF BackendTypeOK, backendVars
<1>6. EventsInv' BY DEF EventsInv, callVars, loopVars, backendVars
<1>7. CleanInv' BY DEF CleanInv, Orphan, callVars, asteriskVars, faultVars
<1>8. LegsInv' BY DEF LegsInv, HasCall, callVars, asteriskVars, faultVars, backendVars
<1>9. ASSUME Serial PROVE RouteInv'
  <2>0. RouteInv /\ Pending \subseteq Clerks BY <1>9 DEF Pending
  <2>1. ASSUME NEW a \in Clerks, Assign(a) \/ Unassign(a) \/ DeleteNumber(a) PROVE RouteInv'
    <3>1. /\ Pending = {} /\ Pending' = {a} /\ writing'[a].route = assigned'
          /\ assigned' # None => provisioned'
      BY <1>1, <1>9, <2>1 DEF Assign, Unassign, DeleteNumber, Begins, Pending, RoutingTypeOK
    <3> QED BY <3>1 DEF RouteInv, RouteFollowsRow
  <2>2. ASSUME NEW a \in Clerks, WriteRoute(a) PROVE RouteInv'
    <3>1. /\ a \in Pending /\ assigned' = assigned
          /\ route' = writing[a].route \/ routeLost'
      BY <2>2 DEF WriteRoute
    <3>2. Pending' = {} /\ provisioned' = provisioned BY <1>1, <2>0, <2>2, <3>1 DEF RouteInv, WriteRoute, Pending, Idle, RoutingTypeOK
    <3> QED BY <2>0, <3>1, <3>2 DEF RouteInv, RouteFollowsRow
  <2>3. ASSUME NEW gone \in Campaigns, DeleteCampaign(gone) PROVE RouteInv'
    <3>1. /\ Pending = {} /\ Pending' = {} /\ UNCHANGED <<provisioned, route, routeLost>>
          /\ existing' = existing \ {gone}
          /\ assigned' = IF assigned = gone THEN None ELSE assigned
      BY <1>9, <2>3 DEF DeleteCampaign, Pending
    <3>2. ~routeLost => route = assigned \/ Dangling BY <2>0, <3>1 DEF RouteInv, RouteFollowsRow
    <3>3. ~routeLost => route' = assigned' \/ Dangling'
      <4>1. CASE assigned = gone
        <5>1. assigned' = None /\ assigned # None BY <2>3, <3>1, <4>1, NoneAssumption
        <5>2. (route = gone \/ routeLost) /\ provisioned BY <2>0, <3>2, <4>1, <5>1 DEF Dangling, RouteInv
        <5> QED BY <2>3, <3>1, <5>1, <5>2 DEF Dangling
      <4>2. CASE assigned # gone BY <3>1, <3>2, <4>2 DEF Dangling
      <4> QED BY <4>1, <4>2
    <3>4. assigned' # None => provisioned' BY <2>0, <3>1 DEF RouteInv
    <3> QED BY <3>1, <3>3, <3>4 DEF RouteInv, RouteFollowsRow
  <2> QED BY <2>1, <2>2, <2>3 DEF RoutingNext
<1> QED BY <1>5, <1>6, <1>7, <1>8, <1>9

----
(* The invariant *)

LEMMA Initially ==
  ASSUME BackendInit
  PROVE  IInv
<1> USE DEF BackendInit, Init, RoutingInit
<1>1. RoutingTypeOK BY DEF RoutingTypeOK, Idle
<1>2. TypeOK BY <1>1, CapAssumption DEF TypeOK, Steps
<1>3. <<>> \in Seq(Messages) /\ <<>> \in Seq({"media", "call"}) OBVIOUS
<1>4. BackendTypeOK BY <1>2 DEF BackendTypeOK, BackendSteps
<1>5. EventsInv BY <1>3 DEF EventsInv
<1>6. CleanInv BY DEF CleanInv, Orphan
<1>7. LegsInv BY DEF LegsInv, HasCall
<1>8. RouteInv BY DEF RouteInv, RouteFollowsRow, Dangling, Pending, Idle
<1> QED BY <1>4, <1>5, <1>6, <1>7, <1>8 DEF IInv

LEMMA StepKeeps ==
  ASSUME IInv, [Next]_allVars
  PROVE  IInv'
<1>1. CASE RoutingNext /\ UNCHANGED <<callVars, backendVars>> BY <1>1, NumberKeeps
<1>2. CASE (RunReads \/ SocketCloses) /\ UNCHANGED backendVars BY <1>2, LoopKeeps
<1>3. ASSUME NEW c \in Calls, Around(c) \/ Proceed(c), UNCHANGED backendVars
      PROVE  IInv'
  BY <1>3, HandlerKeeps, NumberApart, NumberKept DEF IInv
<1>4. ASSUME NEW c \in Calls, LegEnters(c) \/ CallerHangsUp(c) \/ LegAnswered(c) \/ LegHungUp(c)
      PROVE  IInv'
  BY <1>4, LegStepsKeep, NumberApart, NumberKept DEF IInv
<1>5. ASSUME NEW c \in Calls, RingsOut(c) PROVE IInv' BY <1>5, RingsOutKeeps
<1>6. ASSUME NEW c \in Calls, Connect(c) \/ Backend(c)
      PROVE  IInv'
  BY <1>6, OwnStepKeeps, OwnMediaKeeps, AwaitKeeps, HangUpDialledKeeps DEF OwnStep, Backend
<1>7. CASE UNCHANGED allVars
  <2> USE <1>7 DEF allVars, vars, callVars, IInv
  <2>1. CleanInv' BY DEF CleanInv, Orphan, asteriskVars, faultVars
  <2>2. LegsInv' BY DEF LegsInv, HasCall, asteriskVars, faultVars, backendVars
  <2>3. EventsInv' BY DEF EventsInv, loopVars, backendVars
  <2>4. TypeOK'
    BY DEF BackendTypeOK, TypeOK, RoutingTypeOK, routingVars, asteriskVars, loopVars, pipeVars,
       faultVars
  <2>5. BackendTypeOK' BY <2>4 DEF BackendTypeOK, backendVars
  <2>6. RouteInv => RouteInv' BY NumberKept
  <2> QED BY <2>1, <2>2, <2>3, <2>5, <2>6
<1> QED BY <1>1, <1>2, <1>3, <1>4, <1>5, <1>6, <1>7 DEF Next, Handle

\* However many calls there are, at the server, at the load test and in Asterisk, the
\* state is what it may be, and the handler of a call that came to its session leaves
\* neither channel nor bridge nor caller behind (cleanup), unless a request failed.
THEOREM NothingIsLeft == Spec => []AriInv
<1>1. BackendInit => IInv BY Initially
<1>2. IInv /\ [Next]_allVars => IInv' BY StepKeeps
<1>3. IInv => AriInv BY DEF IInv, CleanInv, AriInv, NothingLeft
<1> QED BY <1>1, <1>2, <1>3, PTL DEF Spec

\* A load test's call that came to its end (run_single_outbound_call) leaves no channel,
\* no bridge and no call at the server, unless a request failed.
THEOREM LoadCallIsClean == Spec => []LoadCallClean
<1>1. BackendInit => IInv BY Initially
<1>2. IInv /\ [Next]_allVars => IInv' BY StepKeeps
<1>3. IInv => LoadCallClean BY DEF IInv, LegsInv, LoadCallClean
<1> QED BY <1>1, <1>2, <1>3, PTL DEF Spec

\* With requests one at a time, whatever the API does to a number leaves its route in
\* Redis as its row is (assign_campaign, unassign_campaign, delete_phone_number), unless
\* the last write of the route failed; and what it does to a campaign (delete_campaign)
\* leaves the route of its numbers to that campaign, and changes no other.
THEOREM RouteIsRow ==
  ASSUME Serial
  PROVE  Spec => []RouteFollowsRow
<1>1. BackendInit => IInv BY Initially
<1>2. IInv /\ [Next]_allVars => IInv' BY StepKeeps
<1>3. IInv => RouteFollowsRow BY DEF IInv, RouteInv
<1> QED BY <1>1, <1>2, <1>3, PTL DEF Spec

====
