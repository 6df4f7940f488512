---- MODULE PlatformConnectionProofs ----
(***************************************************************************)
(* What holds of platform calls however many there are: the limit is held  *)
(* but for the race between reading and taking it, every return settles    *)
(* its call, and, when requests to the API come one at a time, no session  *)
(* goes back to an older configuration.                                    *)
(***************************************************************************)
EXTENDS PlatformConnection, FiniteSetTheorems, TLAPS

\* The requests write versions that exist.
RequestInv ==
  /\ newest \in Nat \ {0}
  /\ request \in [Admins -> [pc : {"idle", "cache", "publish", "invalidate", "answered"},
                             campaign : 1..newest]]
  /\ inbox \in [Calls -> Seq(1..newest)]
  /\ config \in [Calls -> 1..newest \cup {None}]
  /\ record \in [Calls -> {None, "initiated", "completed"}]

\* Who has a place, or has been counted in and is about to take it, on a good count.
Held == (active \cup {c \in Calls : pc[c] = "add"}) \ unsure

LimitInv ==
  /\ IsFiniteSet(active) /\ IsFiniteSet(Held)
  /\ Cardinality(Held) <= MaxSessions

\* What each step of the handler finds, if no write of the call failed.
SettleInv ==
  \A c \in Calls \ lost :
    /\ pc[c] \in {"closed", "lookup", "fetch", "backfill", "limit", "rejected", "add"}
         => c \notin active /\ session[c] = "none" /\ record[c] = None
    /\ pc[c] \in {"waiting", "record"} => session[c] = "none" /\ record[c] = None
    /\ pc[c] = "start" => session[c] = "none" /\ record[c] = "initiated"
    /\ pc[c] \in {"ready", "bridge", "abort", "terminate", "giveup"}
         => session[c] = "active" /\ record[c] = "initiated"
    /\ pc[c] = "uncount" => session[c] = "terminated" /\ record[c] = "initiated"
    /\ pc[c] = "finalise" => session[c] = "terminated" /\ record[c] = "initiated" /\ c \notin active
    /\ pc[c] = "usage" => session[c] = "terminated" /\ record[c] = "completed" /\ c \notin active
    /\ pc[c] = "abandon" => session[c] # "active" /\ record[c] # "completed"
    /\ pc[c] = "ended" => session[c] # "active" /\ c \notin active
    /\ c \in usage => pc[c] = "ended" /\ session[c] = "terminated" /\ record[c] = "completed"
    /\ record[c] = "completed" => session[c] = "terminated"

\* With one request at a time only the newest version is on its way to the sessions, so
\* that what a session has, what it will hear next and what comes after is in order.
Rising(c) ==
  /\ \A i \in 1..Len(inbox[c]) : config[c] # None => config[c] <= inbox[c][i]
  /\ \A i, j \in 1..Len(inbox[c]) : i <= j => inbox[c][i] <= inbox[c][j]

OrderInv ==
  /\ \A a \in Admins : request[a].pc \in {"cache", "publish"} => request[a].campaign = newest
  /\ \A a, b \in Admins : request[a].pc \notin {"idle", "answered"} /\ request[b].pc \notin {"idle", "answered"}
       => a = b
  /\ \A c \in Calls : Rising(c)

\* Until its configuration has been read a call has no session and does not listen.
QuietInv ==
  \A c \in Calls : pc[c] \in {"closed", "lookup", "fetch", "backfill"} =>
    listener[c] \in {"off", "named"} /\ session[c] = "none"

IInv == TypeOK /\ RequestInv /\ QuietInv /\ LimitInv /\ SettleInv /\ (Serial => OrderInv)

----
(* Sequences *)

LEMMA SeqElements == ASSUME NEW S, NEW s \in Seq(S) PROVE Len(s) \in Nat /\ \A i \in 1..Len(s) : s[i] \in S
OBVIOUS

LEMMA SeqAppend ==
  ASSUME NEW S, NEW s \in Seq(S), NEW e \in S
  PROVE  /\ Append(s, e) \in Seq(S)
         /\ Len(Append(s, e)) = Len(s) + 1
         /\ \A i \in 1..Len(s) : Append(s, e)[i] = s[i]
         /\ Append(s, e)[Len(s) + 1] = e
OBVIOUS

LEMMA SeqTail ==
  ASSUME NEW S, NEW s \in Seq(S), s # <<>>
  PROVE  /\ Head(s) \in S /\ Head(s) = s[1] /\ 1 \in 1..Len(s)
         /\ Tail(s) \in Seq(S) /\ Len(Tail(s)) = Len(s) - 1
         /\ \A i \in 1..Len(Tail(s)) : i + 1 \in 1..Len(s) /\ Tail(s)[i] = s[i + 1]
OBVIOUS

----
(* The campaign's configuration *)

LEMMA ConfigTyped ==
  ASSUME TypeOK, RequestInv, ConfigNext, UNCHANGED <<pc, active, callVars, lost>>
  PROVE  TypeOK' /\ RequestInv'
<1> USE NoneAssumption, AdminsAssumption DEF callVars, listenVars, configVars
<1>1. ASSUME NEW a \in Admins, UpdateRow(a)
      PROVE  TypeOK' /\ RequestInv'
  <2> USE <1>1 DEF UpdateRow, At, Goes, Returned
  <2>1. newest' \in Nat \ {0} /\ newest <= newest' BY DEF RequestInv
  <2>2. 1..newest \subseteq 1..newest' BY <2>1 DEF RequestInv
  <2>3. request' \in [Admins -> [pc : {"idle", "cache", "publish", "invalidate", "answered"},
                                 campaign : 1..newest']]
    <3>1. CASE row = None
      <4>1. newest' = newest /\ request' = [request EXCEPT ![a].pc = "answered"] BY <3>1
      <4>2. [request EXCEPT ![a].pc = "answered"] \in
              [Admins -> [pc : {"idle", "cache", "publish", "invalidate", "answered"}, campaign : 1..newest]]
        BY DEF RequestInv
      <4> QED BY <4>1, <4>2
    <3>2. CASE row # None
      <4>1. newest' = newest + 1 /\ request' = [request EXCEPT ![a] = [pc |-> "cache", campaign |-> newest + 1]]
        BY <3>2, <2>1 DEF RequestInv
      <4>2. \A b \in Admins : request[b] \in [pc : {"idle", "cache", "publish", "invalidate", "answered"},
                                               campaign : 1..newest']
        BY <2>2 DEF RequestInv
      <4>3. newest + 1 \in 1..newest' BY <4>1 DEF RequestInv
      <4> QED BY <4>1, <4>2, <4>3 DEF RequestInv
    <3> QED BY <3>1, <3>2
  <2>4. inbox' \in [Calls -> Seq(1..newest')] BY <2>2 DEF RequestInv
  <2>5. config' \in [Calls -> 1..newest' \cup {None}] BY <2>2 DEF RequestInv
  <2>6. RequestInv' BY <2>1, <2>3, <2>4, <2>5 DEF RequestInv
  <2>7. row' \in 1..newest' \cup {None} BY <2>1 DEF TypeOK, RequestInv
  <2>8. TypeOK' BY <2>2, <2>5, <2>7 DEF TypeOK
  <2> QED BY <2>6, <2>8
<1>2. ASSUME NEW a \in Admins, DeleteRow(a)
      PROVE  TypeOK' /\ RequestInv'
  <2> USE <1>2 DEF DeleteRow, At, Goes
  <2>1. \A w \in {"answered", "invalidate"} :
          [request EXCEPT ![a].pc = w] \in
            [Admins -> [pc : {"idle", "cache", "publish", "invalidate", "answered"}, campaign : 1..newest]]
    BY DEF RequestInv
  <2>2. request' \in [Admins -> [pc : {"idle", "cache", "publish", "invalidate", "answered"},
                                 campaign : 1..newest]]
    <3>1. CASE row = None BY <3>1, <2>1
    <3>2. CASE row # None BY <3>2, <2>1
    <3> QED BY <3>1, <3>2
  <2>3. RequestInv' BY <2>2 DEF RequestInv
  <2>4. TypeOK' BY DEF TypeOK
  <2> QED BY <2>3, <2>4
<1>3. ASSUME NEW a \in Admins, RefreshCopy(a)
      PROVE  TypeOK' /\ RequestInv'
  <2> USE <1>3 DEF RefreshCopy, At, Goes
  <2>1. request[a].campaign \in 1..newest BY DEF RequestInv
  <2>2. request' \in [Admins -> [pc : {"idle", "cache", "publish", "invalidate", "answered"},
                                 campaign : 1..newest]]
    BY DEF RequestInv
  <2>3. RequestInv' BY <2>2 DEF RequestInv
  <2>4. TypeOK' BY <2>1 DEF TypeOK
  <2> QED BY <2>3, <2>4
<1>4. ASSUME NEW a \in Admins, PublishUpdate(a)
      PROVE  TypeOK' /\ RequestInv'
  <2> USE <1>4 DEF PublishUpdate, At, Goes
  <2>1. request[a].campaign \in 1..newest BY DEF RequestInv
  <2>2. inbox' \in [Calls -> Seq(1..newest)]
    <3>1. inbox \in [Calls -> Seq(1..newest)] BY DEF RequestInv
    <3>2. Told(request[a].campaign) \in [Calls -> Seq(1..newest)]
      <4>1. \A c \in Calls : Append(inbox[c], request[a].campaign) \in Seq(1..newest)
        BY <3>1, <2>1, SeqAppend
      <4> QED BY <3>1, <4>1 DEF Told
    <3> QED BY <3>1, <3>2
  <2>3. RequestInv' BY <2>2 DEF RequestInv
  <2>4. \A c \in Calls : \A i \in 1..Len(inbox'[c]) : inbox'[c][i] \in 1..newest BY <2>2, SeqElements
  <2>5. \A c \in Calls : listener[c] # "on" => inbox'[c] = <<>> BY DEF TypeOK, RequestInv, Told
  <2>6. TypeOK' BY <2>4, <2>5 DEF TypeOK
  <2> QED BY <2>3, <2>6
<1>5. ASSUME NEW a \in Admins, Invalidate(a)
      PROVE  TypeOK' /\ RequestInv'
  <2> USE <1>5 DEF Invalidate, At, Goes
  <2>1. request' \in [Admins -> [pc : {"idle", "cache", "publish", "invalidate", "answered"},
                                 campaign : 1..newest]]
    BY DEF RequestInv
  <2>2. RequestInv' BY <2>1 DEF RequestInv
  <2>3. TypeOK' BY DEF TypeOK
  <2> QED BY <2>2, <2>3
<1>6. CASE CopyExpires BY <1>6 DEF CopyExpires, TypeOK, RequestInv
<1> QED BY <1>1, <1>2, <1>3, <1>4, <1>5, <1>6 DEF ConfigNext, Answer

LEMMA ConfigOrdered ==
  ASSUME TypeOK, RequestInv, Serial, OrderInv, ConfigNext, UNCHANGED <<pc, active, callVars, lost>>
  PROVE  OrderInv'
<1> USE DEF callVars, listenVars, configVars, At, Goes
<1>1. ASSUME NEW a \in Admins, UpdateRow(a) PROVE OrderInv'
  <2> USE <1>1 DEF UpdateRow, Returned
  <2>1. \A b \in Admins : request[b].pc \in {"idle", "answered"} BY DEF Busy
  <2>2. \A b \in Admins : b # a => request'[b] = request[b] BY DEF RequestInv
  <2>3. request'[a].pc \in {"cache", "publish"} => request'[a].campaign = newest' BY DEF RequestInv
  <2>4. \A c \in Calls : Rising(c)' BY DEF OrderInv, Rising
  <2> QED BY <2>1, <2>2, <2>3, <2>4 DEF OrderInv
<1>2. ASSUME NEW a \in Admins, DeleteRow(a) PROVE OrderInv'
  BY <1>2 DEF DeleteRow, Busy, RequestInv, OrderInv, Rising
<1>3. ASSUME NEW a \in Admins, RefreshCopy(a) PROVE OrderInv'
  <2> USE <1>3 DEF RefreshCopy
  <2>0. PICK w \in {"publish", "answered"} : request' = [request EXCEPT ![a].pc = w] OBVIOUS
  <2>1. \A b \in Admins : request'[b].campaign = request[b].campaign BY <2>0 DEF RequestInv
  <2>2. \A b \in Admins : request'[b].pc \notin {"idle", "answered"} => request[b].pc \notin {"idle", "answered"}
    BY <2>0 DEF RequestInv
  <2>3. \A b \in Admins : request'[b].pc \in {"cache", "publish"} => request[b].pc \in {"cache", "publish"}
    BY <2>0 DEF RequestInv
  <2>4. \A c \in Calls : Rising(c)' BY DEF OrderInv, Rising
  <2> QED BY <2>1, <2>2, <2>3, <2>4 DEF OrderInv
<1>4. ASSUME NEW a \in Admins, PublishUpdate(a) PROVE OrderInv'
  <2> USE <1>4 DEF PublishUpdate
  <2>1. request[a].campaign = newest BY DEF OrderInv
  <2>2. ASSUME NEW c \in Calls PROVE Rising(c)'
    <3>1. CASE inbox'[c] = inbox[c] BY <3>1 DEF OrderInv, Rising
    <3>2. CASE inbox'[c] = Append(inbox[c], newest)
      <4>0. inbox[c] \in Seq(1..newest) /\ newest \in 1..newest BY DEF RequestInv
      <4>1. Len(inbox'[c]) = Len(inbox[c]) + 1 /\ Len(inbox[c]) \in Nat
        BY <3>2, <4>0, SeqAppend, SeqElements
      <4>2. \A i \in 1..Len(inbox[c]) : inbox'[c][i] = inbox[c][i] /\ inbox[c][i] \in 1..newest
        BY <3>2, <4>0, SeqAppend, SeqElements
      <4>3. inbox'[c][Len(inbox[c]) + 1] = newest BY <3>2, <4>0, SeqAppend
      <4>4. \A i \in 1..Len(inbox'[c]) : i \in 1..Len(inbox[c]) \/ i = Len(inbox[c]) + 1 BY <4>1
      <4>5. config[c] # None => config[c] \in 1..newest BY DEF RequestInv
      <4>6. newest \in Nat BY DEF RequestInv
      <4>7. \A i \in 1..Len(inbox'[c]) : config'[c] # None => config'[c] <= inbox'[c][i]
        BY <4>2, <4>3, <4>4, <4>5, <4>6 DEF OrderInv, Rising
      <4>8. \A i \in 1..Len(inbox'[c]) : inbox'[c][i] <= newest BY <4>2, <4>3, <4>4, <4>6
      <4>9. \A i, j \in 1..Len(inbox'[c]) : i <= j => inbox'[c][i] <= inbox'[c][j]
        <5> SUFFICES ASSUME NEW i \in 1..Len(inbox'[c]), NEW j \in 1..Len(inbox'[c]), i <= j
                     PROVE  inbox'[c][i] <= inbox'[c][j]
          OBVIOUS
        <5>1. CASE j = Len(inbox[c]) + 1 BY <5>1, <4>3, <4>8
        <5>2. CASE j \in 1..Len(inbox[c])
          <6>1. i \in 1..Len(inbox[c]) BY <5>2, <4>1
          <6> QED BY <5>2, <6>1, <4>2 DEF OrderInv, Rising
        <5> QED BY <5>1, <5>2, <4>4
      <4> QED BY <4>7, <4>9 DEF Rising
    <3> QED BY <2>1, <3>1, <3>2 DEF RequestInv, Told
  <2>3. \A b \in Admins : request'[b].campaign = request[b].campaign
          /\ (b # a => request'[b].pc = request[b].pc)
          /\ request'[a].pc = "answered"
    BY DEF RequestInv
  <2> QED BY <2>2, <2>3 DEF OrderInv
<1>5. ASSUME NEW a \in Admins, Invalidate(a) PROVE OrderInv'
  BY <1>5 DEF Invalidate, RequestInv, OrderInv, Rising
<1>6. CASE CopyExpires BY <1>6 DEF CopyExpires, OrderInv, Rising
<1> QED BY <1>1, <1>2, <1>3, <1>4, <1>5, <1>6 DEF ConfigNext, Answer

LEMMA ConfigKeeps == ASSUME IInv, ConfigChanges PROVE IInv'
<1> USE DEF IInv, ConfigChanges
<1>1. TypeOK' /\ RequestInv' BY ConfigTyped
<1>2. Serial => OrderInv' BY ConfigOrdered
<1>3. LimitInv' /\ SettleInv' BY DEF callVars, LimitInv, Held, SettleInv
<1>4. QuietInv'
  BY DEF ConfigNext, UpdateRow, DeleteRow, Answer, RefreshCopy, PublishUpdate, Invalidate, CopyExpires,
         listenVars, callVars, QuietInv
<1> QED BY <1>1, <1>2, <1>3, <1>4

----
(* The steps of a call *)

\* One step of a handler, the client's two included.
Handler(c) == Upgrade(c) \/ BridgeEnds(c) \/ Handles(c)

LEMMA HandlerTyped ==
  ASSUME TypeOK, RequestInv, QuietInv, NEW c \in Calls, Handler(c)
  PROVE  TypeOK' /\ RequestInv'
<1> USE DEF Moves, Steps, Loses, callVars, listenVars, configVars, TypeOK, RequestInv
<1>1. CASE Upgrade(c)
  <2>1. listener' \in [Calls -> {"off", "named", "armed", "on"}] BY <1>1 DEF Upgrade
  <2>2. \A d \in Calls : listener'[d] # "on" => inbox[d] = <<>> BY <1>1 DEF Upgrade, QuietInv
  <2>3. PICK to \in {"lookup", "limit", "rejected"} : pc' = [pc EXCEPT ![c] = to] BY <1>1 DEF Upgrade
  <2>4. UNCHANGED <<configVars, inbox, active, callVars, lost>> BY <1>1 DEF Upgrade
  <2>5. pc' \in [Calls -> Steps] BY <2>3
  <2> HIDE DEF Steps, Moves
  <2> QED BY <2>1, <2>2, <2>4, <2>5
<1>2. CASE LookUp(c) BY <1>2 DEF LookUp, CopyRead
<1>3. CASE Fetch(c) BY <1>3 DEF Fetch, RowRead
<1>4. CASE BackFill(c) BY <1>4 DEF BackFill, BackFilled
<1>5. CASE CountActive(c) BY <1>5 DEF CountActive
<1>6. CASE Register(c) BY <1>6 DEF Register, SetsActive
<1>7. CASE SessionStart(c) BY <1>7 DEF SessionStart
<1>8. CASE CreateRecord(c) BY <1>8 DEF CreateRecord, Loses
<1>9. CASE StartSession(c)
  <2>1. listener' \in [Calls -> {"off", "named", "armed", "on"}] BY <1>9 DEF StartSession
  <2>2. \A d \in Calls : listener'[d] # "on" => inbox[d] = <<>> BY <1>9 DEF StartSession, QuietInv
  <2>3. pc' \in [Calls -> Steps] /\ session' \in [Calls -> {"none", "active", "terminated"}]
    BY <1>9 DEF StartSession
  <2>4. UNCHANGED <<configVars, inbox, active, config, record, usage, lost, unsure>> BY <1>9 DEF StartSession
  <2> HIDE DEF Steps, Moves
  <2> QED BY <2>1, <2>2, <2>3, <2>4
<1>10. CASE SendReady(c) BY <1>10 DEF SendReady
<1>11. CASE GiveUp(c) BY <1>11 DEF GiveUp
<1>12. CASE Abandon(c) BY <1>12 DEF Abandon, Uncounts, SetsActive
<1>13. CASE BridgeEnds(c) BY <1>13 DEF BridgeEnds
<1>14. CASE AbortReload(c) BY <1>14 DEF AbortReload, StopsListening
<1>15. CASE Terminate(c) BY <1>15 DEF Terminate
<1>16. CASE Uncount(c) BY <1>16 DEF Uncount, Uncounts, SetsActive
<1>17. CASE FinaliseRecord(c) BY <1>17 DEF FinaliseRecord, Loses, Finalised
<1>18. CASE RecordUsage(c) BY <1>18 DEF RecordUsage, Loses, Recorded
<1> QED
  BY <1>1, <1>2, <1>3, <1>4, <1>5, <1>6, <1>7, <1>8, <1>9, <1>10, <1>11, <1>12, <1>13, <1>14, <1>15,
     <1>16, <1>17, <1>18 DEF Handler, Handles

\* Until it listens a call has nothing to hear, and only what it hears changes the
\* configuration of a session.
LEMMA HandlerOrdered ==
  ASSUME TypeOK, RequestInv, QuietInv, OrderInv, NEW c \in Calls, Handler(c)
  PROVE  OrderInv'
<1> USE DEF Moves, Loses, callVars, listenVars, configVars
<1>1. UNCHANGED <<newest, request>>
  BY DEF Handler, Handles, Upgrade, LookUp, Fetch, BackFill, CountActive, Register, SessionStart,
     CreateRecord, StartSession, SendReady, GiveUp, Abandon, BridgeEnds, AbortReload, Terminate,
     Uncount, FinaliseRecord, RecordUsage, Uncounts, BackFilled
<1>2. ASSUME NEW d \in Calls PROVE inbox'[d] \in {inbox[d], <<>>}
  BY DEF Handler, Handles, Upgrade, LookUp, Fetch, BackFill, CountActive, Register, SessionStart,
     CreateRecord, StartSession, SendReady, GiveUp, Abandon, BridgeEnds, AbortReload, Terminate,
     Uncount, FinaliseRecord, RecordUsage, Uncounts, StopsListening, RequestInv
<1>3. ASSUME NEW d \in Calls PROVE config'[d] \in {config[d], None} \/ inbox'[d] = <<>>
  <2>1. CASE LookUp(c) \/ Fetch(c)
    <3>1. pc[c] \in {"lookup", "fetch"} /\ inbox' = inbox BY <2>1 DEF LookUp, Fetch
    <3>2. inbox[c] = <<>> BY <3>1 DEF QuietInv, TypeOK
    <3>3. d # c => config'[d] = config[d] BY <2>1 DEF LookUp, Fetch, RequestInv
    <3> QED BY <3>1, <3>2, <3>3
  <2>2. CASE Terminate(c) BY <2>2 DEF Terminate, RequestInv
  <2>3. CASE UNCHANGED config BY <2>3
  <2> QED
    BY <2>1, <2>2, <2>3 DEF Handler, Handles, Upgrade, BackFill, CountActive, Register, SessionStart,
       CreateRecord, StartSession, SendReady, GiveUp, Abandon, BridgeEnds, AbortReload, Uncount,
       FinaliseRecord, RecordUsage, Uncounts
<1>4. \A d \in Calls : Rising(d)' BY <1>2, <1>3 DEF OrderInv, Rising
<1> QED BY <1>1, <1>4 DEF OrderInv

LEMMA HandlerQuiet ==
  ASSUME TypeOK, QuietInv, NEW c \in Calls, Handler(c)
  PROVE  QuietInv'
BY DEF Handler, Handles, Upgrade, LookUp, Fetch, BackFill, CountActive, Register, SessionStart,
       CreateRecord, StartSession, SendReady, GiveUp, Abandon, BridgeEnds, AbortReload, Terminate, Uncount,
       FinaliseRecord, RecordUsage, Uncounts, StopsListening, Moves, callVars, listenVars, TypeOK, QuietInv

----
(* The limit *)

\* When nobody gets a place who had none, the limit is held.
LEMMA LimitStays ==
  ASSUME LimitInv, Held' \subseteq Held, IsFiniteSet(active')
  PROVE  LimitInv'
<1>1. IsFiniteSet(Held') /\ Cardinality(Held') <= Cardinality(Held) BY FS_Subset DEF LimitInv
<1>2. Cardinality(Held) \in Nat /\ Cardinality(Held') \in Nat BY <1>1, FS_CardinalityType DEF LimitInv
<1> QED BY <1>1, <1>2, LimitAssumption DEF LimitInv

LEMMA HandlerLimited ==
  ASSUME TypeOK, LimitInv, NEW c \in Calls, Handler(c)
  PROVE  LimitInv'
<1> USE DEF Moves
<1>1. CASE CountActive(c)
  <2>1. PICK limit \in {MaxSessions, DefaultLimit}, count \in {Cardinality(active), 0} :
           /\ Moves(c, "limit", IF count >= limit THEN "rejected" ELSE "add")
           /\ unsure' = IF \/ limit # MaxSessions \/ count # Cardinality(active)
                           \/ \E d \in Calls : pc[d] = "add"
                        THEN unsure \cup {c} ELSE unsure
    BY <1>1 DEF CountActive
  <2>2. active' = active /\ IsFiniteSet(active') BY <1>1 DEF CountActive, LimitInv
  <2>3. \A d \in Calls : pc'[d] = "add" => d = c \/ pc[d] = "add" BY <2>1 DEF TypeOK
  <2>4. CASE c \in unsure' \/ pc'[c] # "add"
    <3>1. Held' \subseteq Held BY <2>1, <2>2, <2>3, <2>4 DEF Held
    <3> QED BY <3>1, <2>2, LimitStays
  <2>5. CASE c \notin unsure' /\ pc'[c] = "add"
    \* nobody else is between the two steps, and the count was below the limit
    <3>1. /\ limit = MaxSessions /\ count = Cardinality(active)
          /\ \A d \in Calls : pc[d] # "add"
      BY <2>1, <2>5
    <3>2. ~(Cardinality(active) >= MaxSessions) BY <2>1, <2>5, <3>1 DEF TypeOK
    <3>3. Held' \subseteq active \cup {c} BY <2>2, <2>3, <3>1 DEF Held
    <3>4. Cardinality(active) \in Nat /\ IsFiniteSet(active) BY FS_CardinalityType DEF LimitInv
    <3>5. IsFiniteSet(active \cup {c}) /\ Cardinality(active \cup {c}) \in Nat
          /\ Cardinality(active \cup {c}) <= Cardinality(active) + 1
      BY <3>4, FS_AddElement, FS_CardinalityType
    <3>6. IsFiniteSet(Held') /\ Cardinality(Held') <= Cardinality(active \cup {c})
      BY <3>3, <3>5, FS_Subset
    <3>7. Cardinality(Held') \in Nat BY <3>6, FS_CardinalityType
    <3> QED BY <2>2, <3>2, <3>4, <3>5, <3>6, <3>7, LimitAssumption DEF LimitInv
  <2> QED BY <2>4, <2>5
<1>2. CASE Register(c)
  <2>1. active' \in {active, active \cup {c}} /\ unsure' = unsure
    BY <1>2 DEF Register, SetsActive, callVars
  <2>2. IsFiniteSet(active') BY <2>1, FS_AddElement DEF LimitInv
  <2>3. Held' \subseteq Held BY <1>2, <2>1 DEF Register, Held, TypeOK
  <2> QED BY <2>2, <2>3, LimitStays
<1>3. CASE Abandon(c) \/ Uncount(c)
  <2>1. active' \in {active, active \ {c}} /\ unsure' = unsure \ ({c} \ active')
    BY <1>3 DEF Abandon, Uncount, Uncounts, SetsActive
  <2>2. \A d \in Calls : pc'[d] = "add" <=> pc[d] = "add" BY <1>3 DEF Abandon, Uncount, TypeOK
  <2>3. pc'[c] # "add" BY <1>3 DEF Abandon, Uncount, TypeOK
  <2>4. IsFiniteSet(active') BY <2>1, FS_RemoveElement DEF LimitInv
  <2>5. Held' \subseteq Held BY <2>1, <2>2, <2>3 DEF Held, TypeOK
  <2> QED BY <2>4, <2>5, LimitStays
<1>4. CASE /\ UNCHANGED <<active, unsure>>
           /\ \A d \in Calls : pc'[d] = "add" => pc[d] = "add"
  <2>1. Held' \subseteq Held BY <1>4 DEF Held
  <2> QED BY <1>4, <2>1, LimitStays DEF LimitInv
<1> QED
  BY <1>1, <1>2, <1>3, <1>4 DEF Handler, Handles, Upgrade, LookUp, Fetch, BackFill, SessionStart,
     CreateRecord, StartSession, SendReady, GiveUp, BridgeEnds, AbortReload, Terminate,
     FinaliseRecord, RecordUsage, callVars, TypeOK

----
(* The end of a call *)

LEMMA HandlerSettles ==
  ASSUME TypeOK, RequestInv, SettleInv, NEW c \in Calls, Handler(c)
  PROVE  SettleInv'
<1> USE RecordAssumption DEF Moves, Loses, callVars, TypeOK, RequestInv, SettleInv
<1>1. CASE Upgrade(c) BY <1>1 DEF Upgrade
<1>2. CASE LookUp(c) BY <1>2 DEF LookUp
<1>3. CASE Fetch(c) BY <1>3 DEF Fetch
<1>4. CASE BackFill(c) BY <1>4 DEF BackFill
<1>5. CASE CountActive(c) BY <1>5 DEF CountActive
<1>6. CASE Register(c) BY <1>6 DEF Register, SetsActive
<1>7. CASE SessionStart(c) BY <1>7 DEF SessionStart
<1>8. CASE CreateRecord(c) BY <1>8 DEF CreateRecord
<1>9. CASE StartSession(c) BY <1>9 DEF StartSession
<1>10. CASE SendReady(c) BY <1>10 DEF SendReady
<1>11. CASE GiveUp(c) BY <1>11 DEF GiveUp
<1>12. CASE Abandon(c) BY <1>12 DEF Abandon, Uncounts, SetsActive
<1>13. CASE BridgeEnds(c) BY <1>13 DEF BridgeEnds
<1>14. CASE AbortReload(c) BY <1>14 DEF AbortReload
<1>15. CASE Terminate(c) BY <1>15 DEF Terminate
<1>16. CASE Uncount(c) BY <1>16 DEF Uncount, Uncounts, SetsActive
<1>17. CASE FinaliseRecord(c)
  <2>1. c \notin lost' => record[c] = "initiated" /\ record'[c] = "completed"
    BY <1>17 DEF FinaliseRecord, Finalised
  <2>2. \A d \in Calls \ {c} : record'[d] = record[d] BY <1>17 DEF FinaliseRecord
  <2>3. \A d \in Calls : pc'[d] = IF d = c THEN "usage" ELSE pc[d] BY <1>17 DEF FinaliseRecord
  <2>4. pc[c] = "finalise" /\ UNCHANGED <<active, session, usage>> /\ lost \subseteq lost'
    BY <1>17 DEF FinaliseRecord
  <2> QED BY <2>1, <2>2, <2>3, <2>4
<1>18. CASE RecordUsage(c) BY <1>18 DEF RecordUsage, Recorded
<1> QED
  BY <1>1, <1>2, <1>3, <1>4, <1>5, <1>6, <1>7, <1>8, <1>9, <1>10, <1>11, <1>12, <1>13, <1>14, <1>15,
     <1>16, <1>17, <1>18 DEF Handler, Handles

----
LEMMA HandlerKeeps == ASSUME IInv, NEW c \in Calls, Handler(c) PROVE IInv'
BY HandlerTyped, HandlerOrdered, HandlerQuiet, HandlerLimited, HandlerSettles DEF IInv

\* What the listener does to the two variables it shares with the handler.
LEMMA ListenerKeeps == ASSUME IInv, NEW c \in Calls, Listens(c) PROVE IInv'
<1> USE DEF IInv
<1>1. UNCHANGED <<pc, active, session, record, usage, lost, unsure, configVars>>
  BY DEF Listens, Subscribe, Reload, Hears, callVars
<1>2. LimitInv' /\ SettleInv' BY <1>1 DEF LimitInv, Held, SettleInv
<1>3. QuietInv' BY <1>1 DEF Listens, Subscribe, Reload, Hears, QuietInv, TypeOK
<1>4. CASE Subscribe(c) /\ UNCHANGED <<pc, active, callVars, lost>>
  <2> USE <1>4 DEF Subscribe, callVars, configVars
  <2>1. RequestInv' BY DEF RequestInv
  <2>2. TypeOK'
    <3>1. listener' \in [Calls -> {"off", "named", "armed", "on"}] BY DEF TypeOK
    <3>2. \A d \in Calls : listener'[d] # "on" => inbox'[d] = <<>> BY DEF TypeOK
    <3> QED BY <3>1, <3>2 DEF TypeOK
  <2>3. OrderInv => OrderInv' BY DEF OrderInv, Rising
  <2> QED BY <1>2, <1>3, <2>1, <2>2, <2>3
<1>5. CASE Reload(c)
  <2> USE <1>5 DEF Reload, Hears, configVars
  <2>0. inbox[c] \in Seq(1..newest) /\ inbox[c] # <<>> BY DEF RequestInv
  <2>1. Head(inbox[c]) \in 1..newest /\ Tail(inbox[c]) \in Seq(1..newest) BY <2>0, SeqTail
  <2>2. RequestInv' BY <2>1 DEF RequestInv
  <2>3. TypeOK'
    <3>1. \A d \in Calls : config'[d] \in 1..newest \cup {None} BY <2>1 DEF TypeOK, RequestInv
    <3>2. \A d \in Calls : \A i \in 1..Len(inbox'[d]) : inbox'[d][i] \in 1..newest
      BY <2>2, SeqElements DEF RequestInv
    <3>3. \A d \in Calls : listener'[d] # "on" => inbox'[d] = <<>> BY DEF TypeOK, RequestInv
    <3> QED BY <3>1, <3>2, <3>3 DEF TypeOK
  <2>4. ASSUME OrderInv PROVE OrderInv'
    <3>1. ASSUME NEW d \in Calls PROVE Rising(d)'
      <4>1. CASE d # c BY <2>4, <4>1 DEF OrderInv, Rising, RequestInv
      <4>2. CASE d = c
        <5>1. config'[c] = inbox[c][1] /\ inbox'[c] = Tail(inbox[c]) /\ 1 \in 1..Len(inbox[c])
          BY <2>0, SeqTail DEF RequestInv
        <5>2. \A i \in 1..Len(inbox'[c]) : i + 1 \in 1..Len(inbox[c]) /\ inbox'[c][i] = inbox[c][i + 1]
          BY <5>1, <2>0, SeqTail
        <5>3. \A i, j \in 1..Len(inbox[c]) : i <= j => inbox[c][i] <= inbox[c][j]
          BY <2>4 DEF OrderInv, Rising
        <5>4. \A i \in 1..Len(inbox'[c]) : config'[c] <= inbox'[c][i] BY <5>1, <5>2, <5>3
        <5>5. \A i, j \in 1..Len(inbox'[c]) : i <= j => i + 1 <= j + 1 OBVIOUS
        <5>6. \A i, j \in 1..Len(inbox'[c]) : i <= j => inbox'[c][i] <= inbox'[c][j]
          BY <5>2, <5>3, <5>5
        <5> QED BY <4>2, <5>4, <5>6 DEF Rising
      <4> QED BY <4>1, <4>2
    <3> QED BY <2>4, <3>1 DEF OrderInv
  <2> QED BY <1>2, <1>3, <2>2, <2>3, <2>4
<1> QED BY <1>4, <1>5 DEF Listens

LEMMA CrashKeeps == ASSUME IInv, Crash PROVE IInv'
<1> USE DEF IInv, Crash, configVars
<1>1. TypeOK' BY NoneAssumption DEF TypeOK, Open, Steps
<1>2. RequestInv' BY DEF RequestInv
<1>3. QuietInv' BY DEF QuietInv
<1>4. \A c \in Calls : pc'[c] = "add" => pc[c] = "add" BY DEF TypeOK, Open
<1>5. LimitInv' BY <1>4, LimitStays DEF LimitInv, Held
<1>6. SettleInv' BY NoneAssumption DEF SettleInv, Open, TypeOK
<1>7. OrderInv => OrderInv' BY DEF OrderInv, Rising
<1> QED BY <1>1, <1>2, <1>3, <1>5, <1>6, <1>7

LEMMA NothingHappens == ASSUME IInv, UNCHANGED vars PROVE IInv'
BY DEF vars, configVars, listenVars, IInv, TypeOK, RequestInv, QuietInv, LimitInv, Held, SettleInv,
       OrderInv, Rising

LEMMA InitInv == Init => IInv
<1> SUFFICES ASSUME Init PROVE IInv OBVIOUS
<1> USE AdminsAssumption, NoneAssumption DEF Init, ConfigInit
<1>1. TypeOK /\ RequestInv BY DEF TypeOK, RequestInv, Steps
<1>2. QuietInv /\ SettleInv BY RecordAssumption DEF QuietInv, SettleInv
<1>3. OrderInv BY DEF OrderInv, Rising
<1>4. Held = {} BY DEF Held
<1>5. LimitInv BY <1>4, FS_EmptySet, LimitAssumption DEF LimitInv
<1> QED BY <1>1, <1>2, <1>3, <1>5 DEF IInv

LEMMA StepInv == IInv /\ [Next]_vars => IInv'
<1> SUFFICES ASSUME IInv, [Next]_vars PROVE IInv' OBVIOUS
<1>1. ASSUME NEW c \in Calls, Upgrade(c) \/ BridgeEnds(c) \/ Handles(c) PROVE IInv'
  BY <1>1, HandlerKeeps DEF Handler
<1>2. ASSUME NEW c \in Calls, Listens(c) PROVE IInv' BY <1>2, ListenerKeeps
<1> QED BY <1>1, <1>2, ConfigKeeps, CrashKeeps, NothingHappens DEF Next

\* For any number of connections and any limit, those that were admitted on a good count
\* never exceed it: the only way past the limit is between the read and the write of it.
THEOREM LimitHeld == Spec => []LimitHeldUnlessRaced
<1>1. IInv => LimitHeldUnlessRaced
  <2> SUFFICES ASSUME IInv PROVE LimitHeldUnlessRaced OBVIOUS
  <2>1. active \ unsure \subseteq Held BY DEF Held
  <2>2. IsFiniteSet(active \ unsure) /\ Cardinality(active \ unsure) <= Cardinality(Held)
    BY <2>1, FS_Subset DEF IInv, LimitInv
  <2>3. Cardinality(Held) \in Nat /\ Cardinality(active \ unsure) \in Nat
    BY <2>2, FS_CardinalityType DEF IInv, LimitInv
  <2> QED BY <2>2, <2>3, LimitAssumption DEF IInv, LimitInv, LimitHeldUnlessRaced
<1> QED BY InitInv, StepInv, <1>1, PTL DEF Spec

\* Whatever return a call ends by and whoever else is calling, it has given back its place
\* and, once it was bridged, closed its record before its usage was written.
THEOREM CallsSettled == Spec => []SettledInv
<1>1. IInv => SettledInv BY DEF IInv, SettleInv, SettledInv, EndedMeansSettled
<1> QED BY InitInv, StepInv, <1>1, PTL DEF Spec

\* When requests to the API are answered one at a time, no session goes back to an older
\* configuration, however its reading, the publishing and its hearing of it interleave.
THEOREM PromptsRise == ASSUME Serial PROVE Spec => NewerPromptOnly
<1> DEFINE Newer == \A c \in Calls :
                      session[c] = "active" /\ config[c] # None /\ config'[c] \notin {config[c], None}
                        => config'[c] > config[c]
<1>1. IInv /\ [Next]_vars => [Newer]_vars
  <2> SUFFICES ASSUME IInv, Next, NEW c \in Calls, session[c] = "active", config[c] # None,
                      config'[c] \notin {config[c], None}
               PROVE  config'[c] > config[c]
    OBVIOUS
  <2>1. pc[c] \notin {"closed", "lookup", "fetch", "backfill"} BY DEF IInv, QuietInv
  <2>2. ASSUME NEW d \in Calls, Handler(d) PROVE config'[c] \in {config[c], None}
    BY <2>1, <2>2 DEF Handler, Handles, Upgrade, LookUp, Fetch, BackFill, CountActive, Register,
       SessionStart, CreateRecord, StartSession, SendReady, GiveUp, Abandon, BridgeEnds, AbortReload,
       Terminate, Uncount, FinaliseRecord, RecordUsage, Uncounts, Moves, callVars, IInv, RequestInv
  <2>3. PICK d \in Calls : Listens(d)
    BY <2>2 DEF Next, ConfigChanges, Crash, callVars, Handler
  <2>4. d = c /\ inbox[c] # <<>> /\ config'[c] = Head(inbox[c])
    BY <2>3 DEF Listens, Subscribe, Reload, Hears, callVars, IInv, RequestInv
  <2>5. inbox[c] \in Seq(1..newest) /\ config[c] \in 1..newest /\ newest \in Nat BY DEF IInv, RequestInv
  <2>6. 1 \in 1..Len(inbox[c]) /\ config'[c] = inbox[c][1] /\ config'[c] \in 1..newest
    BY <2>4, <2>5, SeqTail
  <2>7. config[c] <= config'[c] BY <2>6 DEF IInv, OrderInv, Rising
  <2> QED BY <2>5, <2>6, <2>7
<1>2. ([][Newer]_vars) => NewerPromptOnly BY PTL DEF NewerPromptOnly
<1> QED BY InitInv, StepInv, <1>1, <1>2, PTL DEF Spec
====
