---- MODULE LoadCampaignProofs ----
(***************************************************************************)
(* For any number of calls and lines and any configurations: no call of    *)
(* the load test's phone misses what happens to its line, a campaign       *)
(* starts its calls within its limits, and its report has every call and   *)
(* what its recording says.  For files of any length and rate, packets of  *)
(* any size and all samples of 16 bits: the calls carry the audio that     *)
(* they were given.                                                        *)
(***************************************************************************)
EXTENDS LoadCampaign, FiniteSetTheorems, TLAPS

\* Where a call has a line and does not know yet what becomes of it.
Holding == {"accept", "look", "watch", "lookAgain", "wait"}

\* Such a line exists, and from the second look on it is watched.
HeldInv ==
  \A c \in Calls : at[c] \in Holding =>
    /\ lineOf[c] \in Lines
    /\ line[lineOf[c]] # "none"
    /\ at[c] \in {"lookAgain", "wait"} => lineOf[c] \in watched

\* What waits to be accepted has rung.
IncomingInv == \A i \in DOMAIN incoming : line[incoming[i]] # "none"

\* Calls that dial do not share lines.
OwnLine == config.inbound \/ \A c \in Calls : lineOf[c] \in {0, c}

PhoneInv == PhoneTypeOK /\ HeldInv /\ IncomingInv /\ OwnLine /\ ActiveIsSeen

\* A call whose result has been taken is over, and one that has no number yet has not
\* begun: when none is pending, no call waits for its line.
ResultsInv ==
  /\ index \in Nat
  /\ raw \in Seq(Calls)
  /\ \A c \in ToSet(raw) : at[c] \in Over
  /\ \A c \in Calls : c > index => at[c] = "unborn"

IInv == PhoneInv /\ ResultsInv

----
(* The far end and the library *)

LEMMA FarEndKeeps ==
  ASSUME PhoneInv, NEW l \in Lines, FarEnd(l), UNCHANGED config
  PROVE  PhoneInv' /\ at' = at
<1> USE DEF PhoneInv
<1>1. CASE FarEndAnswers(l)
  <2> USE <1>1 DEF FarEndAnswers, Changes
  <2>1. PhoneTypeOK' BY DEF PhoneTypeOK
  <2>2. HeldInv' BY DEF PhoneTypeOK, HeldInv
  <2>3. IncomingInv' BY DEF PhoneTypeOK, IncomingInv
  <2>4. OwnLine' BY DEF OwnLine
  <2>5. ActiveIsSeen' BY DEF PhoneTypeOK, HeldInv, Holding, ActiveIsSeen
  <2> QED BY <2>1, <2>2, <2>3, <2>4, <2>5
<1>2. CASE FarEndHangsUp(l)
  <2> USE <1>2 DEF FarEndHangsUp, Changes
  <2>1. PhoneTypeOK' BY DEF PhoneTypeOK
  <2>2. HeldInv' BY DEF PhoneTypeOK, HeldInv
  <2>3. IncomingInv' BY DEF PhoneTypeOK, IncomingInv
  <2>4. OwnLine' BY DEF OwnLine
  <2>5. ActiveIsSeen' BY DEF PhoneTypeOK, HeldInv, Holding, ActiveIsSeen
  <2> QED BY <2>1, <2>2, <2>3, <2>4, <2>5
<1>3. CASE RunsCallback(l)
  <2> USE <1>3 DEF RunsCallback
  <2>1. PhoneTypeOK' BY DEF PhoneTypeOK
  <2>2. HeldInv' BY DEF HeldInv
  <2>3. IncomingInv' BY DEF IncomingInv
  <2>4. OwnLine' BY DEF OwnLine
  <2>5. ActiveIsSeen'
    \* a call that waits watches its line, so that the message stays
    <3>1. SUFFICES ASSUME NEW c \in Calls, at'[c] = "wait", line'[lineOf'[c]] # "ringing"
                   PROVE  told'[lineOf'[c]] # {} \/ news'[lineOf'[c]] # {}
      BY DEF ActiveIsSeen
    <3>2. lineOf[c] \in Lines /\ lineOf[c] \in watched BY <3>1 DEF HeldInv, Holding
    <3>3. told[lineOf[c]] # {} \/ news[lineOf[c]] # {} BY <3>1 DEF ActiveIsSeen
    <3>4. CASE lineOf[c] = l BY <3>2, <3>4 DEF PhoneTypeOK
    <3>5. CASE lineOf[c] # l BY <3>2, <3>3, <3>5 DEF PhoneTypeOK
    <3> QED BY <3>4, <3>5
  <2> QED BY <2>1, <2>2, <2>3, <2>4, <2>5
<1>4. at' = at BY DEF FarEnd, FarEndAnswers, FarEndHangsUp, RunsCallback
<1> QED BY <1>1, <1>2, <1>3, <1>4 DEF FarEnd

LEMMA RingsKeeps ==
  ASSUME PhoneInv, NEW l \in Lines, Rings(l), UNCHANGED config
  PROVE  PhoneInv' /\ at' = at
<1> USE DEF PhoneInv, Rings
<1>1. PhoneTypeOK' BY PhoneAssumption DEF PhoneTypeOK
<1>2. HeldInv' BY DEF PhoneTypeOK, HeldInv
<1>3. IncomingInv'
  <2>1. CASE incoming' = incoming BY <2>1 DEF PhoneTypeOK, IncomingInv
  <2>2. CASE incoming' = Append(incoming, l)
    <3>1. \A i \in DOMAIN incoming' : incoming'[i] = l \/ (i \in DOMAIN incoming /\ incoming'[i] = incoming[i])
      BY <2>2 DEF PhoneTypeOK
    <3>2. \A i \in DOMAIN incoming : incoming[i] \in Lines BY DEF PhoneTypeOK
    <3> QED BY <3>1, <3>2 DEF PhoneTypeOK, IncomingInv
  <2> QED BY <2>1, <2>2
<1>4. OwnLine' BY DEF OwnLine
<1>5. ActiveIsSeen' BY DEF PhoneTypeOK, HeldInv, Holding, ActiveIsSeen
<1> QED BY <1>1, <1>2, <1>3, <1>4, <1>5

----
(* The steps of a call *)

LEMMA DialKeeps ==
  ASSUME PhoneInv, NEW c \in Calls, ~config.inbound, Dial(c), UNCHANGED config
  PROVE  PhoneInv'
<1> USE DEF PhoneInv, Dial, Goes
<1>1. PhoneTypeOK' BY DEF PhoneTypeOK, Phases, Over
<1>2. HeldInv' BY DEF PhoneTypeOK, HeldInv, Holding
<1>3. IncomingInv' BY DEF PhoneTypeOK, IncomingInv
<1>4. OwnLine' BY DEF PhoneTypeOK, OwnLine
<1>5. ActiveIsSeen'
  \* the line is this call's alone
  <2>1. SUFFICES ASSUME NEW d \in Calls, at'[d] = "wait", line'[lineOf'[d]] # "ringing"
                 PROVE  told'[lineOf'[d]] # {} \/ news'[lineOf'[d]] # {}
    BY DEF ActiveIsSeen
  <2>2. d # c BY <2>1 DEF PhoneTypeOK
  <2>3. at[d] = "wait" /\ lineOf'[d] = lineOf[d] BY <2>1, <2>2 DEF PhoneTypeOK
  <2>4. lineOf[d] # c BY <2>2, <2>3 DEF OwnLine, HeldInv, Holding, Lines, Calls
  <2>5. line'[lineOf[d]] = line[lineOf[d]] BY <2>3, <2>4 DEF PhoneTypeOK, HeldInv, Holding
  <2> QED BY <2>1, <2>3, <2>5 DEF ActiveIsSeen
<1> QED BY <1>1, <1>2, <1>3, <1>4, <1>5

LEMMA InviteKeeps ==
  ASSUME PhoneInv, NEW c \in Calls, config.inbound, AwaitInvite(c), UNCHANGED config
  PROVE  PhoneInv'
<1> USE DEF PhoneInv, AwaitInvite, Goes
<1>1. CASE incoming = <<>>
  <2> USE <1>1
  <2>1. PhoneTypeOK' BY DEF PhoneTypeOK, Phases, Over
  <2>2. HeldInv' BY DEF PhoneTypeOK, HeldInv, Holding
  <2>3. IncomingInv' BY DEF IncomingInv
  <2>4. OwnLine' BY DEF OwnLine
  <2>5. ActiveIsSeen' BY DEF PhoneTypeOK, ActiveIsSeen
  <2> QED BY <2>1, <2>2, <2>3, <2>4, <2>5
<1>2. CASE incoming # <<>>
  <2> USE <1>2
  <2>1. /\ Head(incoming) \in Lines
        /\ line[Head(incoming)] # "none"
        /\ Tail(incoming) \in Seq(Lines) /\ Len(Tail(incoming)) <= IncomingCap
        /\ \A i \in DOMAIN Tail(incoming) : i + 1 \in DOMAIN incoming /\ Tail(incoming)[i] = incoming[i + 1]
    BY PhoneAssumption DEF PhoneTypeOK, IncomingInv
  <2>2. PhoneTypeOK'
    <3>1. incoming' = Tail(incoming) /\ at' = [at EXCEPT ![c] = "accept"] BY <2>1
    <3>2. lineOf' \in [Calls -> Lines \cup {0}] BY <2>1 DEF PhoneTypeOK
    <3>3. at' \in [Calls -> Phases] BY <3>1 DEF PhoneTypeOK, Phases
    <3> QED BY <2>1, <3>1, <3>2, <3>3 DEF PhoneTypeOK
  <2>3. HeldInv' BY <2>1 DEF PhoneTypeOK, HeldInv, Holding
  <2>4. IncomingInv' BY <2>1 DEF IncomingInv
  <2>5. OwnLine' BY DEF OwnLine
  <2>6. ActiveIsSeen' BY DEF PhoneTypeOK, ActiveIsSeen
  <2> QED BY <2>2, <2>3, <2>4, <2>5, <2>6
<1> QED BY <1>1, <1>2

LEMMA AcceptKeeps ==
  ASSUME PhoneInv, NEW c \in Calls, Accept(c), UNCHANGED config
  PROVE  PhoneInv'
<1> USE DEF PhoneInv, Accept, Goes
<1>1. lineOf[c] \in Lines BY DEF HeldInv, Holding
<1>2. PhoneTypeOK' BY <1>1 DEF PhoneTypeOK, Phases, Over
<1>3. HeldInv' BY DEF PhoneTypeOK, HeldInv, Holding
<1>4. IncomingInv' BY DEF IncomingInv
<1>5. OwnLine' BY DEF OwnLine
<1>6. ActiveIsSeen' BY DEF PhoneTypeOK, ActiveIsSeen
<1> QED BY <1>2, <1>3, <1>4, <1>5, <1>6

\* The two looks at the line and the callback set between them: who goes on to wait has
\* seen the line ring after it was watched.
LEMMA WaitKeeps ==
  ASSUME PhoneInv, NEW c \in Calls, WaitForActive(c), UNCHANGED config
  PROVE  PhoneInv'
<1> USE DEF PhoneInv, Goes
<1>1. CASE FirstLook(c)
  <2> USE <1>1 DEF FirstLook, Looks
  <2>1. PhoneTypeOK' BY DEF PhoneTypeOK, Phases, Over
  <2>2. HeldInv' BY DEF PhoneTypeOK, HeldInv, Holding
  <2>3. IncomingInv' BY DEF IncomingInv
  <2>4. OwnLine' BY DEF OwnLine
  <2>5. ActiveIsSeen' BY DEF PhoneTypeOK, ActiveIsSeen
  <2> QED BY <2>1, <2>2, <2>3, <2>4, <2>5
<1>2. CASE Watch(c)
  <2> USE <1>2 DEF Watch
  <2>1. PhoneTypeOK' BY DEF PhoneTypeOK, HeldInv, Holding, Phases, Over
  <2>2. HeldInv' BY DEF PhoneTypeOK, HeldInv, Holding
  <2>3. IncomingInv' BY DEF IncomingInv
  <2>4. OwnLine' BY DEF OwnLine
  <2>5. ActiveIsSeen' BY DEF PhoneTypeOK, ActiveIsSeen
  <2> QED BY <2>1, <2>2, <2>3, <2>4, <2>5
<1>3. CASE SecondLook(c)
  <2> USE <1>3 DEF SecondLook, Looks
  <2>1. PhoneTypeOK' BY DEF PhoneTypeOK, Phases, Over
  <2>2. HeldInv' BY DEF PhoneTypeOK, HeldInv, Holding
  <2>3. IncomingInv' BY DEF IncomingInv
  <2>4. OwnLine' BY DEF OwnLine
  <2>5. at'[c] = "wait" => line[lineOf[c]] = "ringing"
    BY DEF PhoneTypeOK, HeldInv, Holding
  <2>6. ActiveIsSeen' BY <2>5 DEF PhoneTypeOK, ActiveIsSeen
  <2> QED BY <2>1, <2>2, <2>3, <2>4, <2>6
<1>4. CASE AwaitActive(c)
  <2> USE <1>4 DEF AwaitActive
  <2>1. PhoneTypeOK' BY DEF PhoneTypeOK, Phases, Over
  <2>2. HeldInv' BY DEF PhoneTypeOK, HeldInv, Holding
  <2>3. IncomingInv' BY DEF IncomingInv
  <2>4. OwnLine' BY DEF OwnLine
  <2>5. ActiveIsSeen' BY DEF PhoneTypeOK, ActiveIsSeen
  <2> QED BY <2>1, <2>2, <2>3, <2>4, <2>5
<1> QED BY <1>1, <1>2, <1>3, <1>4 DEF WaitForActive

LEMMA MeasureKeeps ==
  ASSUME PhoneInv, NEW c \in Calls, Measure(c), UNCHANGED config
  PROVE  PhoneInv'
<1> USE DEF PhoneInv, Measure, Settle, Play, EndCall, Collect, Changes, Goes
<1>1. PhoneTypeOK' BY DEF PhoneTypeOK, Phases, Over
<1>2. HeldInv' BY DEF PhoneTypeOK, HeldInv, Holding
<1>3. IncomingInv' BY DEF PhoneTypeOK, IncomingInv
<1>4. OwnLine' BY DEF OwnLine
<1>5. ActiveIsSeen'
  <2>1. \A d \in Calls : at'[d] = "wait" => at[d] = "wait" /\ lineOf'[d] = lineOf[d] BY DEF PhoneTypeOK
  <2>2. told' = told /\ \A l \in Lines : news[l] \subseteq news'[l] BY DEF PhoneTypeOK
  <2>3. \A l \in Lines : line'[l] = line[l] \/ news'[l] # {}
    <3>1. CASE UNCHANGED line BY <3>1
    <3>2. CASE news' = [news EXCEPT ![lineOf[c]] = @ \cup {"ended"}] /\ line' = [line EXCEPT ![lineOf[c]] = "ended"]
      <4>1. \A l \in Lines : l = lineOf[c] => news'[l] = news[l] \cup {"ended"} BY <3>2 DEF PhoneTypeOK
      <4>2. \A l \in Lines : l # lineOf[c] => line'[l] = line[l] BY <3>2 DEF PhoneTypeOK
      <4> QED BY <4>1, <4>2
    <3> QED BY <3>1, <3>2
  <2>4. \A d \in Calls : at[d] = "wait" => lineOf[d] \in Lines BY DEF HeldInv, Holding
  <2> QED BY <2>1, <2>2, <2>3, <2>4 DEF ActiveIsSeen
<1> QED BY <1>1, <1>2, <1>3, <1>4, <1>5

\* A call of another backend has no line.
LEMMA ElsewhereKeeps ==
  ASSUME PhoneInv, NEW c \in Calls, EndsElsewhere(c), UNCHANGED config
  PROVE  PhoneInv'
<1> USE DEF PhoneInv, EndsElsewhere, Goes
<1>1. PhoneTypeOK' BY DEF PhoneTypeOK, Phases, Over
<1>2. HeldInv' BY DEF PhoneTypeOK, HeldInv, Holding, Over
<1>3. IncomingInv' BY DEF IncomingInv
<1>4. OwnLine' BY DEF OwnLine
<1>5. ActiveIsSeen' BY DEF PhoneTypeOK, ActiveIsSeen, Over
<1> QED BY <1>1, <1>2, <1>3, <1>4, <1>5

\* A step of a call is the call's own, which has begun and is not over.
LEMMA OwnSteps ==
  ASSUME PhoneTypeOK, NEW c \in Calls, Call(c)
  PROVE  /\ at[c] \notin Over \cup {"unborn"}
         /\ \A d \in Calls \ {c} : at'[d] = at[d]
BY DEF PhoneTypeOK, Call, InboundCall, OutboundCall, WaitForActive, Measure, Dial, AwaitInvite,
       Accept, FirstLook, Watch, SecondLook, Looks, AwaitActive, Settle, Play, EndCall, Collect,
       EndsElsewhere, Goes, Over

LEMMA CallMoves ==
  ASSUME ResultsInv, PhoneTypeOK, NEW c \in Calls, Call(c)
  PROVE  ResultsInv'
<1>1. /\ at[c] \notin Over \cup {"unborn"}
      /\ \A d \in Calls \ {c} : at'[d] = at[d]
  BY OwnSteps
<1>2. UNCHANGED <<raw, index>> BY DEF Call, campaignVars
<1>3. ToSet(raw) \subseteq Calls BY DEF ResultsInv, ToSet
<1> QED BY <1>1, <1>2, <1>3 DEF ResultsInv

LEMMA CallKeeps ==
  ASSUME IInv, NEW c \in Calls, Call(c)
  PROVE  IInv'
<1>1. UNCHANGED config BY DEF Call, campaignVars
<1>2. PhoneInv'
  BY <1>1, DialKeeps, InviteKeeps, AcceptKeeps, WaitKeeps, MeasureKeeps, ElsewhereKeeps
     DEF IInv, Call, InboundCall, OutboundCall
<1> QED BY <1>2, CallMoves DEF IInv, PhoneInv

----
(* The campaign's steps *)

LEMMA ResultsInCalls == ASSUME ResultsInv PROVE ToSet(raw) \subseteq Calls
BY DEF ResultsInv, ToSet

LEMMA NothingMoves ==
  ASSUME IInv, UNCHANGED <<phoneVars, config, index, raw>>
  PROVE  IInv'
<1> USE DEF phoneVars
<1>1. PhoneInv'
  BY DEF IInv, PhoneInv, PhoneTypeOK, HeldInv, IncomingInv, OwnLine, ActiveIsSeen
<1>2. ResultsInv' BY DEF IInv, ResultsInv
<1> QED BY <1>1, <1>2 DEF IInv

LEMMA TakeResultKeeps ==
  ASSUME IInv, TakeResult, UNCHANGED config
  PROVE  IInv'
<1>1. PICK c \in Pending : at[c] \in Over /\ raw' = Append(raw, c) /\ UNCHANGED <<phoneVars, index>>
  BY DEF TakeResult
<1>2. c \in Calls BY DEF Pending
<1>3. PhoneInv'
  BY <1>1 DEF phoneVars, IInv, PhoneInv, PhoneTypeOK, HeldInv, IncomingInv, OwnLine, ActiveIsSeen
<1>4. raw' \in Seq(Calls) /\ \A i \in DOMAIN raw' : raw'[i] = c \/ (i \in DOMAIN raw /\ raw'[i] = raw[i])
  BY <1>1, <1>2 DEF IInv, ResultsInv
<1>5. \A d \in ToSet(raw') : d = c \/ d \in ToSet(raw) BY <1>4 DEF ToSet
<1>6. ResultsInv' BY <1>1, <1>4, <1>5 DEF phoneVars, IInv, ResultsInv
<1> QED BY <1>3, <1>6 DEF IInv

LEMMA SpawnKeeps ==
  ASSUME IInv, Spawn, UNCHANGED config
  PROVE  IInv'
<1> USE DEF Spawn
<1>1. FirstPhase \in {"invite", "failed", "dial", "elsewhere"} BY DEF FirstPhase
<1>2. index \in Nat BY DEF IInv, ResultsInv
<1>3. PhoneInv'
  <2> USE <1>1 DEF IInv, PhoneInv
  <2>1. PhoneTypeOK' BY DEF PhoneTypeOK, Phases, Over
  <2>2. HeldInv' BY DEF PhoneTypeOK, HeldInv, Holding
  <2>3. IncomingInv' BY DEF IncomingInv
  <2>4. OwnLine' BY DEF OwnLine
  <2>5. ActiveIsSeen' BY DEF PhoneTypeOK, ActiveIsSeen
  <2> QED BY <2>1, <2>2, <2>3, <2>4, <2>5
<1>4. ResultsInv'
  <2>1. \A c \in Calls : c # index + 1 => at'[c] = at[c] BY DEF IInv, PhoneInv, PhoneTypeOK
  <2>2. \A c \in ToSet(raw) : c # index + 1
    BY <1>2, ResultsInCalls DEF IInv, ResultsInv, Over, Calls
  <2>3. \A c \in ToSet(raw) : at'[c] \in Over BY <2>1, <2>2, ResultsInCalls DEF IInv, ResultsInv
  <2>4. \A c \in Calls : c > index' => c > index /\ c # index + 1 BY <1>2 DEF Calls
  <2>5. \A c \in Calls : c > index' => at'[c] = "unborn" BY <2>1, <2>4 DEF IInv, ResultsInv
  <2> QED BY <1>2, <2>3, <2>5 DEF IInv, ResultsInv
<1> QED BY <1>3, <1>4 DEF IInv

\* The phone goes when no call is pending: none waits for its line.
LEMMA DisconnectKeeps ==
  ASSUME IInv, Pending = {}, Disconnect, UNCHANGED <<config, index, raw>>
  PROVE  IInv'
<1> USE DEF Disconnect
<1>1. \A c \in Calls : at[c] \in Over \cup {"unborn"}
  BY DEF IInv, ResultsInv, Pending, Calls
<1>2. \A c \in Calls : at'[c] \notin Holding BY <1>1 DEF Holding, Over
<1>3. PhoneInv'
  <2> USE DEF IInv, PhoneInv
  <2>1. PhoneTypeOK'
    <3>1. incoming' \in Seq(Lines) /\ Len(incoming') <= IncomingCap BY PhoneAssumption
    <3>2. line' \in [Lines -> {"none", "ringing", "active", "ended"}] OBVIOUS
    <3>3. news' \in [Lines -> SUBSET {"active", "ended"}] /\ told' \in [Lines -> SUBSET {"active", "ended"}]
      OBVIOUS
    <3> QED BY <3>1, <3>2, <3>3 DEF PhoneTypeOK
  <2>2. HeldInv' BY <1>2 DEF HeldInv
  <2>3. IncomingInv' BY DEF IncomingInv
  <2>4. OwnLine' BY DEF OwnLine
  <2>5. ActiveIsSeen' BY <1>2 DEF ActiveIsSeen, Holding
  <2> QED BY <2>1, <2>2, <2>3, <2>4, <2>5
<1>4. ResultsInv' BY DEF IInv, ResultsInv
<1> QED BY <1>3, <1>4 DEF IInv

\* connect only registers the phone.
LEMMA BuildKeeps ==
  ASSUME IInv, Build
  PROVE  IInv'
<1>1. UNCHANGED <<config, index, raw, line, wanted, news, watched, told, incoming, at, lineOf>>
  BY DEF Build, Register, phoneVars
<1>2. registered' \in BOOLEAN BY DEF Build, Register, phoneVars, IInv, PhoneInv, PhoneTypeOK
<1>3. PhoneInv'
  BY <1>1, <1>2 DEF IInv, PhoneInv, PhoneTypeOK, HeldInv, IncomingInv, OwnLine, ActiveIsSeen
<1>4. ResultsInv' BY <1>1 DEF IInv, ResultsInv
<1> QED BY <1>3, <1>4 DEF IInv

LEMMA CampaignKeeps ==
  ASSUME IInv, RunCampaign
  PROVE  IInv'
<1>1. CASE LoadConfig BY <1>1, NothingMoves DEF LoadConfig
<1>2. CASE Build BY <1>2, BuildKeeps
<1>3. CASE NextSpawn BY <1>3, NothingMoves DEF NextSpawn, Loop
<1>4. CASE NextResult BY <1>4, DisconnectKeeps, TakeResultKeeps DEF NextResult, Loop
<1>5. CASE RampUp BY <1>5, NothingMoves DEF RampUp, Loop
<1>6. CASE RateLimit BY <1>6, SpawnKeeps, NothingMoves DEF RateLimit, Loop, Spawn
<1>7. CASE AwaitSlot BY <1>7, SpawnKeeps, TakeResultKeeps DEF AwaitSlot, Loop
<1>8. CASE ReportFails BY <1>8, NothingMoves DEF ReportFails
<1>9. CASE CallResults BY <1>9, NothingMoves DEF CallResults
<1>10. CASE Report BY <1>10, NothingMoves DEF Report
<1> QED BY <1>1, <1>2, <1>3, <1>4, <1>5, <1>6, <1>7, <1>8, <1>9, <1>10 DEF RunCampaign

LEMMA PhoneKeeps ==
  ASSUME IInv, Phone
  PROVE  IInv'
<1>1. UNCHANGED <<config, index, raw>> BY DEF Phone, campaignVars
<1>2. PhoneInv' /\ at' = at BY <1>1, FarEndKeeps, RingsKeeps DEF IInv, Phone
<1>3. ResultsInv' BY <1>1, <1>2 DEF IInv, ResultsInv
<1> QED BY <1>2, <1>3 DEF IInv

LEMMA Inductive == Spec => []IInv
<1>1. Init => IInv
  <2> SUFFICES ASSUME Init PROVE IInv OBVIOUS
  <2> USE DEF Init, PhoneInit
  <2>1. incoming \in Seq(Lines) /\ Len(incoming) <= IncomingCap BY PhoneAssumption
  <2>2. news \in [Lines -> SUBSET {"active", "ended"}] /\ told \in [Lines -> SUBSET {"active", "ended"}]
    OBVIOUS
  <2>3. PhoneTypeOK BY <2>1, <2>2 DEF PhoneTypeOK, Phases, Over
  <2>4. \A c \in Calls : at[c] = "unborn" /\ lineOf[c] = 0 OBVIOUS
  <2>5. HeldInv /\ IncomingInv /\ OwnLine /\ ActiveIsSeen
    BY <2>4 DEF HeldInv, Holding, IncomingInv, OwnLine, ActiveIsSeen
  <2>6. ResultsInv BY <2>4 DEF ResultsInv, ToSet
  <2> QED BY <2>3, <2>5, <2>6 DEF IInv, PhoneInv
<1>2. IInv /\ [Next]_vars => IInv'
  <2> SUFFICES ASSUME IInv, [Next]_vars PROVE IInv' OBVIOUS
  <2>1. CASE RunCampaign BY <2>1, CampaignKeeps
  <2>2. CASE Tick BY <2>2, NothingMoves DEF Tick
  <2>3. CASE Phone BY <2>3, PhoneKeeps
  <2>4. CASE \E c \in Calls : Call(c) BY <2>4, CallKeeps
  <2>5. CASE UNCHANGED vars BY <2>5, NothingMoves DEF vars, campaignVars
  <2> QED BY <2>1, <2>2, <2>3, <2>4, <2>5 DEF Next
<1> QED BY <1>1, <1>2, PTL DEF Spec

\* For any number of calls, lines and configurations, a call that waits for its line has
\* been told of what became of it, or will be (wait_for_active and the phone's callbacks).
THEOREM WakeUpNotLost == Spec => []ActiveIsSeen
<1>1. IInv => ActiveIsSeen BY DEF IInv, PhoneInv
<1> QED BY <1>1, Inductive, PTL

----
(* The limits of the campaign *)

\* The calls of a soak that were started after its end.
Late == {c \in 1 .. index : startedAt[c] >= deadline}

\* Where the loop is between its checks and the start of a call.
AboutToSpawn == {"rampUp", "rate", "slot"}

\* Every call was started in its time, and none in the future.
TimesInv ==
  /\ \A c \in 1 .. index :
       startedAt[c] <= now /\ startedAt[c] >= RampDelay(c - 1) /\ startedAt[c] >= RateDelay(c - 1)
  /\ pc \in {"rate", "slot"} => now >= RampDelay(index)

\* What has been checked at the top of the loop still holds when the call is started: only
\* the loop itself starts calls, and what ends meanwhile makes room.
LimitsInv ==
  /\ Cardinality(Pending) <= config.concurrency
  /\ config.total > 0 => index <= config.total
  /\ pc \in AboutToSpawn =>
       /\ index < MaxCalls
       /\ Cardinality(Pending) < config.concurrency
       /\ config.total > 0 => index < config.total
  /\ pc \in {"load", "build"} => index = 0

SoakInv ==
  config.soak > 0 =>
    /\ Cardinality(Late) <= 1
    /\ pc \in AboutToSpawn => Late = {}

CampaignTypeOK ==
  /\ config \in Configs
  /\ pc \in {"load", "build", "loop", "rampUp", "rate", "slot", "report", "summary"} \cup Stopped
  /\ now \in 0 .. MaxTime /\ deadline \in 0 .. MaxTime
  /\ index \in 0 .. MaxCalls
  /\ startedAt \in [Calls -> 0 .. MaxTime]

LoopInv == CampaignTypeOK /\ TimesInv /\ LimitsInv /\ SoakInv

\* Pending calls are as many as they are, and so are those that were late.
LEMMA PendingFinite ==
  ASSUME index \in Nat
  PROVE  IsFiniteSet(Pending) /\ Cardinality(Pending) \in Nat /\ IsFiniteSet(Late) /\ Cardinality(Late) \in Nat
<1>1. Pending \subseteq 1 .. MaxCalls BY DEF Pending, Calls
<1>2. IsFiniteSet(1 .. MaxCalls) /\ IsFiniteSet(1 .. index) BY PhoneAssumption, FS_Interval
<1>3. IsFiniteSet(Pending) BY <1>1, <1>2, FS_Subset
<1>4. IsFiniteSet(Late)
  <2>1. Late \subseteq 1 .. index BY DEF Late
  <2> QED BY <1>2, <2>1, FS_Subset
<1> QED BY <1>3, <1>4, FS_CardinalityType

LEMMA ConfigIs ==
  ASSUME config \in Configs
  PROVE  /\ config.concurrency \in Nat /\ config.total \in Nat /\ config.rampUp \in Nat /\ config.gap \in Nat
         /\ config.soak \in 0 .. MaxTime /\ MaxTime \in Nat
BY CampaignAssumption

\* What is proved of a quotient, which the prover knows nothing of by itself.
LEMMA Quotient ==
  ASSUME NEW a \in Nat, NEW b \in Nat, b > 0
  PROVE  a \div b \in Nat /\ b * (a \div b) <= a
OBVIOUS

LEMMA DelaysAreNumbers ==
  ASSUME config \in Configs, NEW i \in Nat
  PROVE  RampDelay(i) \in Nat /\ RateDelay(i) \in Nat
<1>1. i * config.rampUp \in Nat /\ i * config.gap \in Nat BY ConfigIs
<1>2. i < config.concurrency => (i * config.rampUp) \div config.concurrency \in Nat
  <2> DEFINE a == i * config.rampUp
             b == config.concurrency
  <2>1. a \in Nat /\ b \in Nat BY <1>1, ConfigIs
  <2> HIDE DEF a, b
  <2>2. i < b => a \div b \in Nat BY <2>1, Quotient
  <2> QED BY <2>2 DEF a, b
<1> QED BY <1>1, <1>2 DEF RampDelay, RateDelay

\* A result that is taken leaves fewer calls pending, and starts none.
LEMMA TakeResultLimits ==
  ASSUME IInv, LoopInv, TakeResult, pc' = "loop", UNCHANGED <<config, now, deadline>>
  PROVE  LoopInv'
<1>1. UNCHANGED <<index, startedAt>> BY DEF TakeResult
<1>2. Pending' \subseteq Pending
  <2>1. PICK c \in Pending : raw' = Append(raw, c) BY DEF TakeResult
  <2>2. c \in Calls BY DEF Pending
  <2>3. \A i \in DOMAIN raw : i \in DOMAIN raw' /\ raw'[i] = raw[i] BY <2>1, <2>2 DEF IInv, ResultsInv
  <2>4. ToSet(raw) \subseteq ToSet(raw') BY <2>3 DEF ToSet
  <2> QED BY <1>1, <2>4 DEF Pending
<1>3. Cardinality(Pending') <= Cardinality(Pending) /\ Cardinality(Pending') \in Nat /\ Cardinality(Pending) \in Nat
  <2>1. index \in Nat BY DEF IInv, ResultsInv
  <2>2. IsFiniteSet(Pending) BY <2>1, PendingFinite
  <2> QED BY <1>2, <2>2, FS_Subset, FS_CardinalityType
<1>4. config.concurrency \in Nat BY ConfigIs DEF LoopInv, CampaignTypeOK
<1>5. CampaignTypeOK' BY <1>1 DEF LoopInv, CampaignTypeOK
<1>6. TimesInv' BY <1>1 DEF LoopInv, TimesInv, RampDelay, RateDelay
<1>7. LimitsInv' BY <1>1, <1>3, <1>4 DEF LoopInv, LimitsInv, AboutToSpawn
<1>8. SoakInv' BY <1>1 DEF LoopInv, SoakInv, Late, AboutToSpawn
<1> QED BY <1>5, <1>6, <1>7, <1>8 DEF LoopInv

\* A call is started: the one that the checks were made for.
LEMMA SpawnLimits ==
  ASSUME IInv, LoopInv, Spawn, pc \in {"rate", "slot"}, now >= RateDelay(index), pc' = "loop",
         UNCHANGED <<config, now, deadline>>
  PROVE  LoopInv'
<1> USE DEF Spawn
<1>1. index \in Nat /\ index < MaxCalls /\ index + 1 \in Calls /\ index' = index + 1
  BY PhoneAssumption DEF LoopInv, CampaignTypeOK, LimitsInv, AboutToSpawn, Calls
<1>2. /\ startedAt' \in [Calls -> 0 .. MaxTime]
      /\ startedAt'[index + 1] = now
      /\ \A c \in 1 .. index : c \in Calls /\ startedAt'[c] = startedAt[c]
  <2>1. startedAt \in [Calls -> 0 .. MaxTime] /\ now \in 0 .. MaxTime BY DEF LoopInv, CampaignTypeOK
  <2>2. startedAt' = [startedAt EXCEPT ![index + 1] = now] OBVIOUS
  <2>3. 1 .. index \subseteq Calls /\ index + 1 \notin 1 .. index BY <1>1, PhoneAssumption DEF Calls
  <2>4. startedAt' \in [Calls -> 0 .. MaxTime] BY <2>1, <2>2
  <2>5. startedAt'[index + 1] = now BY <1>1, <2>1, <2>2
  <2>6. \A c \in 1 .. index : c \in Calls /\ startedAt'[c] = startedAt[c] BY <2>1, <2>2, <2>3
  <2> QED BY <2>4, <2>5, <2>6
<1>3. CampaignTypeOK' BY <1>1, <1>2, PhoneAssumption DEF LoopInv, CampaignTypeOK, Calls
<1>4. TimesInv'
  <2>1. now >= RampDelay(index) /\ now \in Nat BY DEF LoopInv, TimesInv, CampaignTypeOK
  <2>2. \A i : RampDelay(i)' = RampDelay(i) /\ RateDelay(i)' = RateDelay(i) BY DEF RampDelay, RateDelay
  <2>3. ASSUME NEW c \in 1 .. index + 1
        PROVE  startedAt'[c] <= now /\ startedAt'[c] >= RampDelay(c - 1) /\ startedAt'[c] >= RateDelay(c - 1)
    <3>1. CASE c = index + 1
      <4>1. c - 1 = index BY <1>1, <3>1
      <4> QED BY <1>2, <2>1, <3>1, <4>1
    <3>2. CASE c # index + 1
      <4>1. c \in 1 .. index BY <1>1, <3>2
      <4> QED BY <1>2, <4>1 DEF LoopInv, TimesInv
    <3> QED BY <3>1, <3>2
  <2> QED BY <1>1, <2>2, <2>3 DEF TimesInv
<1>5. LimitsInv'
  <2>1. Pending' \subseteq Pending \cup {index + 1}
    <3> SUFFICES ASSUME NEW c \in Pending' PROVE c \in Pending \/ c = index + 1 OBVIOUS
    <3>1. c \in Calls /\ c <= index + 1 /\ c \notin ToSet(raw) BY <1>1 DEF Pending
    <3>2. c \in Int BY <3>1 DEF Calls
    <3>3. c <= index \/ c = index + 1 BY <1>1, <3>1, <3>2
    <3> QED BY <3>1, <3>3 DEF Pending
  <2>2. IsFiniteSet(Pending) /\ Cardinality(Pending) \in Nat BY <1>1, PendingFinite
  <2>3. /\ IsFiniteSet(Pending \cup {index + 1})
        /\ Cardinality(Pending \cup {index + 1}) <= Cardinality(Pending) + 1
        /\ Cardinality(Pending \cup {index + 1}) \in Nat
    <3>1. /\ IsFiniteSet(Pending \cup {index + 1})
          /\ \/ Cardinality(Pending \cup {index + 1}) = Cardinality(Pending)
             \/ Cardinality(Pending \cup {index + 1}) = Cardinality(Pending) + 1
      BY <2>2, FS_AddElement
    <3> QED BY <2>2, <3>1
  <2>4. Cardinality(Pending') <= Cardinality(Pending \cup {index + 1}) /\ Cardinality(Pending') \in Nat
    BY <2>1, <2>3, FS_Subset, FS_CardinalityType
  <2>5. Cardinality(Pending) < config.concurrency /\ config.concurrency \in Nat
    BY ConfigIs DEF LoopInv, LimitsInv, AboutToSpawn, CampaignTypeOK
  <2>6. Cardinality(Pending') <= config.concurrency BY <2>2, <2>3, <2>4, <2>5
  <2>7. config.total > 0 => index' <= config.total
    BY <1>1, ConfigIs DEF LoopInv, LimitsInv, AboutToSpawn, CampaignTypeOK
  <2> QED BY <2>6, <2>7 DEF LimitsInv, AboutToSpawn
<1>6. SoakInv'
  <2> SUFFICES ASSUME config.soak > 0 PROVE Cardinality(Late') <= 1 BY DEF SoakInv, AboutToSpawn
  <2>1. Late = {} BY DEF LoopInv, SoakInv, AboutToSpawn
  <2>2. Late' \subseteq {index + 1}
    <3>1. ASSUME NEW c \in 1 .. index, startedAt'[c] >= deadline PROVE FALSE
      BY <1>2, <2>1, <3>1 DEF Late
    <3> QED BY <1>1, <3>1 DEF Late
  <2>3. IsFiniteSet({index + 1}) /\ Cardinality({index + 1}) = 1 BY FS_Singleton
  <2> QED BY <2>2, <2>3, FS_Subset
<1> QED BY <1>3, <1>4, <1>5, <1>6 DEF LoopInv

\* Nothing else starts or collects a call.
LEMMA OthersLimits ==
  ASSUME LoopInv, UNCHANGED <<config, deadline, index, startedAt, raw>>,
         now' \in 0 .. MaxTime, now <= now',
         pc' = pc \/ (pc' \in {"build", "loop", "report", "summary"} \cup Stopped /\ (pc' = "build" => pc = "load"))
  PROVE  LoopInv'
<1>1. CampaignTypeOK' BY DEF LoopInv, CampaignTypeOK, Stopped
<1>2. TimesInv'
  <2>1. \A i : RampDelay(i)' = RampDelay(i) /\ RateDelay(i)' = RateDelay(i) BY DEF RampDelay, RateDelay
  <2>2. pc' \in {"rate", "slot"} => pc \in {"rate", "slot"} BY DEF Stopped
  <2>3. RampDelay(index) \in Nat /\ now \in Nat /\ now' \in Nat
    BY DelaysAreNumbers DEF LoopInv, CampaignTypeOK
  <2>4. \A c \in 1 .. index : c \in Calls BY PhoneAssumption DEF LoopInv, CampaignTypeOK, Calls
  <2>5. ASSUME NEW c \in 1 .. index PROVE startedAt[c] <= now'
    <3>1. startedAt[c] \in Nat BY <2>4 DEF LoopInv, CampaignTypeOK
    <3>2. startedAt[c] <= now BY DEF LoopInv, TimesInv
    <3> QED BY <2>3, <3>1, <3>2
  <2>6. pc' \in {"rate", "slot"} => now' >= RampDelay(index) BY <2>2, <2>3 DEF LoopInv, TimesInv
  <2> QED BY <2>1, <2>5, <2>6 DEF LoopInv, TimesInv
<1>3. Pending' = Pending /\ Late' = Late BY DEF Pending, Late
<1>4. LimitsInv' /\ SoakInv' BY <1>3 DEF LoopInv, LimitsInv, SoakInv, AboutToSpawn, Stopped
<1> QED BY <1>1, <1>2, <1>4 DEF LoopInv

\* The deadline is set before any call has been started.
LEMMA BuildLimits ==
  ASSUME IInv, LoopInv, Build
  PROVE  LoopInv'
<1> USE DEF Build
<1>1. /\ pc = "build" /\ pc' \in {"loop", "aborted"} /\ deadline' \in 0 .. config.soak
      /\ UNCHANGED <<config, now, index, startedAt, raw>>
  BY DEF Steps
<1>2. index = 0 /\ now \in 0 .. MaxTime BY <1>1 DEF LoopInv, LimitsInv, CampaignTypeOK
<1>3. deadline' \in 0 .. MaxTime BY <1>1, ConfigIs DEF LoopInv, CampaignTypeOK
<1>4. CampaignTypeOK' BY <1>1, <1>3 DEF LoopInv, CampaignTypeOK, Stopped
<1>5. TimesInv' BY <1>1, <1>2 DEF TimesInv
<1>6. Pending' = Pending BY <1>1 DEF Pending
<1>7. LimitsInv' BY <1>1, <1>6 DEF LoopInv, LimitsInv, AboutToSpawn
<1>8. SoakInv'
  <2>1. Late' = {} BY <1>1, <1>2 DEF Late
  <2>2. Cardinality(Late') = 0 BY <2>1, FS_EmptySet
  <2> QED BY <1>1, <2>2 DEF SoakInv, AboutToSpawn
<1> QED BY <1>4, <1>5, <1>7, <1>8 DEF LoopInv

\* The checks at the top of the loop: before the deadline, no call was started after it.
LEMMA NextSpawnLimits ==
  ASSUME LoopInv, NextSpawn
  PROVE  LoopInv'
<1> USE DEF NextSpawn, Steps, Loop
<1>1. CampaignTypeOK' BY DEF LoopInv, CampaignTypeOK
<1>2. TimesInv' BY DEF LoopInv, TimesInv, RampDelay, RateDelay
<1>3. Pending' = Pending /\ Late' = Late BY DEF Pending, Late
<1>4. LimitsInv' BY <1>3 DEF LoopInv, LimitsInv, CanSpawn, AboutToSpawn
<1>5. SoakInv'
  <2>1. ASSUME config.soak > 0, NEW c \in Late PROVE FALSE
    <3>1. c \in 1 .. index /\ startedAt[c] >= deadline BY <2>1 DEF Late
    <3>2. c \in Calls BY <3>1, PhoneAssumption DEF LoopInv, CampaignTypeOK, Calls
    <3>3. startedAt[c] \in Int /\ now \in Int /\ deadline \in Int BY <3>2 DEF LoopInv, CampaignTypeOK
    <3>4. startedAt[c] <= now BY <3>1 DEF LoopInv, TimesInv
    <3>5. now < deadline BY <2>1 DEF CanSpawn
    <3> QED BY <3>1, <3>3, <3>4, <3>5
  <2> QED BY <1>3, <2>1 DEF LoopInv, SoakInv
<1> QED BY <1>1, <1>2, <1>4, <1>5 DEF LoopInv

\* The waits between the checks and the start change nothing of what was checked.
LEMMA WaitLimits ==
  ASSUME LoopInv, UNCHANGED <<config, now, deadline, index, startedAt, raw>>,
         \/ pc = "rampUp" /\ pc' = "rate" /\ now >= RampDelay(index)
         \/ pc = "rate" /\ pc' = "slot"
  PROVE  LoopInv'
<1>1. CampaignTypeOK' BY DEF LoopInv, CampaignTypeOK
<1>2. TimesInv' BY DEF LoopInv, TimesInv, RampDelay, RateDelay
<1>3. Pending' = Pending /\ Late' = Late BY DEF Pending, Late
<1>4. LimitsInv' BY <1>3 DEF LoopInv, LimitsInv, AboutToSpawn
<1>5. SoakInv' BY <1>3 DEF LoopInv, SoakInv, AboutToSpawn
<1> QED BY <1>1, <1>2, <1>4, <1>5 DEF LoopInv

LEMMA NowIsNow == ASSUME LoopInv, UNCHANGED now PROVE now' \in 0 .. MaxTime /\ now <= now'
BY DEF LoopInv, CampaignTypeOK

LEMMA RunCampaignLimits ==
  ASSUME IInv, LoopInv, RunCampaign
  PROVE  LoopInv'
<1> USE DEF Steps, Loop
<1>1. CASE LoadConfig BY <1>1, NowIsNow, OthersLimits DEF LoadConfig, Stopped
<1>2. CASE Build BY <1>2, BuildLimits
<1>3. CASE NextSpawn BY <1>3, NextSpawnLimits
<1>4. CASE NextResult
  <2>1. CASE TakeResult /\ pc' = "loop" BY <1>4, <2>1, TakeResultLimits DEF NextResult
  <2>2. CASE ~(TakeResult /\ pc' = "loop") BY <1>4, <2>2, NowIsNow, OthersLimits DEF NextResult
  <2> QED BY <2>1, <2>2
<1>5. CASE RampUp BY <1>5, WaitLimits DEF RampUp
<1>6. CASE RateLimit BY <1>6, SpawnLimits, WaitLimits DEF RateLimit
<1>7. CASE AwaitSlot BY <1>7, SpawnLimits, TakeResultLimits DEF AwaitSlot
<1>8. CASE ReportFails BY <1>8, NowIsNow, OthersLimits DEF ReportFails, Stopped
<1>9. CASE CallResults BY <1>9, NowIsNow, OthersLimits DEF CallResults
<1>10. CASE Report BY <1>10, NowIsNow, OthersLimits DEF Report, Stopped
<1> QED BY <1>1, <1>2, <1>3, <1>4, <1>5, <1>6, <1>7, <1>8, <1>9, <1>10 DEF RunCampaign

LEMMA LimitsInductive == Spec => [](IInv /\ LoopInv)
<1>1. Init => LoopInv
  <2> SUFFICES ASSUME Init PROVE LoopInv OBVIOUS
  <2> USE DEF Init
  <2>1. CampaignTypeOK BY CampaignAssumption, PhoneAssumption DEF CampaignTypeOK
  <2>2. TimesInv BY DEF TimesInv
  <2>3. Pending = {} /\ Late = {} BY DEF Pending, Late, Calls
  <2>4. Cardinality(Pending) = 0 /\ Cardinality(Late) = 0 BY <2>3, FS_EmptySet
  <2>5. LimitsInv BY <2>4, ConfigIs DEF LimitsInv, AboutToSpawn
  <2>6. SoakInv BY <2>3, <2>4 DEF SoakInv
  <2> QED BY <2>1, <2>2, <2>5, <2>6 DEF LoopInv
<1>2. IInv /\ LoopInv /\ [Next]_vars => LoopInv'
  <2> SUFFICES ASSUME IInv, LoopInv, [Next]_vars PROVE LoopInv' OBVIOUS
  <2>1. CASE RunCampaign BY <2>1, RunCampaignLimits
  <2>2. CASE Tick
    <3>1. now' \in 0 .. MaxTime /\ now <= now' BY <2>2, ConfigIs DEF Tick, LoopInv, CampaignTypeOK
    <3> QED BY <2>2, <3>1, OthersLimits DEF Tick
  <2>3. CASE Phone BY <2>3, NowIsNow, OthersLimits DEF Phone, campaignVars
  <2>4. CASE \E c \in Calls : Call(c) BY <2>4, NowIsNow, OthersLimits DEF Call, campaignVars
  <2>5. CASE UNCHANGED vars BY <2>5, NowIsNow, OthersLimits DEF vars, campaignVars
  <2> QED BY <2>1, <2>2, <2>3, <2>4, <2>5 DEF Next
<1> QED BY <1>1, <1>2, Inductive, PTL DEF Spec

----
(* The audio of the calls: reading a file at 16 kHz *)

\* The position of the last sample is half a sample's width before the end.
LEMMA PositionInside ==
  ASSUME NEW n \in Nat, NEW r \in Nat, r > 0, NEW i \in Nat, i < OutputLen(n, r)
  PROVE  LeftIndex(i, r) \in Nat /\ LeftIndex(i, r) < n
<1> DEFINE q == OutputLen(n, r)
           p == i * r
<1>1. q \in Nat /\ (2 * r) * q <= 2 * n * CanonicalRate + r
  <2>1. 2 * n * CanonicalRate + r \in Nat /\ 2 * r \in Nat /\ 2 * r > 0 BY DEF CanonicalRate
  <2> QED BY <2>1, Quotient DEF OutputLen
<1> HIDE DEF q
<1>2. p \in Nat /\ p + r <= q * r
  <2>1. i < q BY DEF q
  <2>2. q - i - 1 \in Nat BY <2>1, <1>1
  <2>3. (q - i - 1) * r >= 0 BY <2>2
  <2>4. (q - i - 1) * r = q * r - i * r - r BY <2>2, <1>1
  <2>5. q * r \in Nat /\ i * r \in Nat BY <1>1
  <2> QED BY <2>3, <2>4, <2>5
<1>3. (2 * r) * q = 2 * (q * r) BY <1>1
<1>4. p < n * CanonicalRate
  <2>1. q * r \in Nat BY <1>1
  <2> HIDE DEF p
  <2> QED BY <1>1, <1>2, <1>3, <2>1 DEF CanonicalRate
<1>5. LeftIndex(i, r) \in Nat /\ CanonicalRate * LeftIndex(i, r) <= p
  BY <1>2, Quotient DEF LeftIndex, CanonicalRate
<1> HIDE DEF p
<1> QED BY <1>2, <1>4, <1>5 DEF CanonicalRate

\* No file of whatever length and rate makes the resampling read past its end.
THEOREM NoReadPastTheEnd ==
  ASSUME NEW n \in Nat, NEW r \in Nat, r > 0
  PROVE  Reads(n, r) \subseteq 0 .. n - 1
<1>1. OutputLen(n, r) \in Nat
  <2>1. 2 * n * CanonicalRate + r \in Nat /\ 2 * r \in Nat /\ 2 * r > 0 BY DEF CanonicalRate
  <2> QED BY <2>1, Quotient DEF OutputLen
<1>2. ASSUME NEW i \in 0 .. OutputLen(n, r) - 1
      PROVE  LeftIndex(i, r) \in 0 .. n - 1 /\ RightIndex(i, r, n) \in 0 .. n - 1
  <2>1. i \in Nat /\ i < OutputLen(n, r) BY <1>1
  <2>2. LeftIndex(i, r) \in Nat /\ LeftIndex(i, r) < n BY <2>1, PositionInside
  <2> QED BY <2>2 DEF RightIndex
<1> QED BY <1>2 DEF Reads

LEMMA FileIs ==
  ASSUME NEW w \in Wavs
  PROVE  Frames(w) \in Nat /\ w.rate \in Nat /\ w.rate > 0
<1>1. w.samples \in Nat /\ w.rate \in Nat /\ w.rate > 0
  <2>1. w.samples \in 0 .. MaxSamples /\ w.rate \in Rates BY DEF Wavs
  <2>2. 0 .. MaxSamples \subseteq Nat /\ \A x \in Rates : x \in Nat /\ x > 0 BY RatesAssumption
  <2> QED BY <2>1, <2>2
<1>2. w.samples \div 2 \in Nat BY <1>1
<1> QED BY <1>1, <1>2 DEF Frames

\* So none of the files of a run does (audio.rs 108-130).
THEOREM EveryFileInside == ReadsInside
<1> SUFFICES ASSUME NEW w \in Wavs PROVE Reads(Frames(w), w.rate) \subseteq 0 .. Frames(w) - 1
  BY DEF ReadsInside
<1> QED BY FileIs, NoReadPastTheEnd

LEMMA QuotientClose ==
  ASSUME NEW a \in Nat, NEW b \in Nat, b > 0
  PROVE  a < b * (a \div b) + b
OBVIOUS

\* Rounding to the nearest is at most half a sample off.
LEMMA RoundedLength ==
  ASSUME NEW n \in Nat, NEW r \in Nat, r > 0
  PROVE  /\ OutputLen(n, r) \in Nat
         /\ -r <= 2 * (OutputLen(n, r) * r - n * CanonicalRate)
         /\ 2 * (OutputLen(n, r) * r - n * CanonicalRate) <= r
<1> DEFINE q == OutputLen(n, r)
           a == 2 * n * CanonicalRate + r
           b == 2 * r
<1>1. a \in Nat /\ b \in Nat /\ b > 0 BY DEF CanonicalRate
<1>2. q = a \div b BY DEF OutputLen
<1> HIDE DEF a, b, q
<1>3. q \in Nat /\ b * q <= a /\ a < b * q + b BY <1>1, <1>2, Quotient, QuotientClose
<1>4. b * q = 2 * (q * r) /\ q * r \in Nat BY <1>3 DEF b
<1> DEFINE x == q * r
<1> HIDE DEF x
<1>5. b * q = 2 * x /\ x \in Nat BY <1>4 DEF x
<1>6. 2 * x <= 2 * n * 16000 + r /\ 2 * n * 16000 + r < 2 * x + 2 * r
  BY <1>3, <1>5 DEF a, b, CanonicalRate
<1>7. -r <= 2 * (x - n * 16000) /\ 2 * (x - n * 16000) <= r BY <1>5, <1>6
<1> QED BY <1>3, <1>7 DEF x, q, CanonicalRate

\* A file of whatever length and rate takes as long to play at 16 kHz.
THEOREM LengthIsKept == LengthKept
<1> SUFFICES ASSUME NEW w \in Wavs
             PROVE  LET error == NormalisedLen(w) * w.rate - Frames(w) * CanonicalRate
                    IN -w.rate <= 2 * error /\ 2 * error <= w.rate
  BY DEF LengthKept
<1> DEFINE n == Frames(w)
           r == w.rate
           len == NormalisedLen(w)
<1>1. n \in Nat /\ r \in Nat /\ r > 0 BY FileIs
<1>2. len = CASE r = 16000 -> n [] r = 8000 -> 2 * n [] OTHER -> IF n = 0 THEN 0 ELSE OutputLen(n, r)
  BY DEF NormalisedLen, CanonicalRate
<1> HIDE DEF n, r, len
<1> SUFFICES -r <= 2 * (len * r - n * 16000) /\ 2 * (len * r - n * 16000) <= r
  BY DEF n, r, len, CanonicalRate
<1>3. CASE r = 16000
  <2>1. len = n BY <1>2, <1>3
  <2> QED BY <1>1, <1>3, <2>1
<1>4. CASE r = 8000
  <2>1. len = 2 * n BY <1>2, <1>4
  <2> QED BY <1>1, <1>4, <2>1
<1>5. CASE r # 16000 /\ r # 8000 /\ n = 0
  <2>1. len = 0 BY <1>2, <1>5
  <2> QED BY <1>1, <1>5, <2>1
<1>6. CASE r # 16000 /\ r # 8000 /\ n # 0
  <2>1. len = OutputLen(n, r) BY <1>2, <1>6
  <2> QED BY <1>1, <2>1, RoundedLength DEF CanonicalRate
<1> QED BY <1>3, <1>4, <1>5, <1>6

----
(* The audio of the calls: the code of a telephone call *)

LEMMA Powers ==
  /\ 2 ^ 0 = 1 /\ 2 ^ 1 = 2 /\ 2 ^ 2 = 4 /\ 2 ^ 3 = 8 /\ 2 ^ 4 = 16 /\ 2 ^ 5 = 32 /\ 2 ^ 6 = 64
  /\ 2 ^ 7 = 128 /\ 2 ^ 8 = 256 /\ 2 ^ 9 = 512 /\ 2 ^ 10 = 1024 /\ 2 ^ 11 = 2048 /\ 2 ^ 12 = 4096
  /\ 2 ^ 13 = 8192 /\ 2 ^ 14 = 16384 /\ 2 ^ 15 = 32768
OBVIOUS

LEMMA Ends ==
  /\ DOMAIN SegmentEnds = 0 .. 7
  /\ SegmentEnds[0] = 255 /\ SegmentEnds[1] = 511 /\ SegmentEnds[2] = 1023 /\ SegmentEnds[3] = 2047
  /\ SegmentEnds[4] = 4095 /\ SegmentEnds[5] = 8191 /\ SegmentEnds[6] = 16383 /\ SegmentEnds[7] = 32767
BY Powers DEF SegmentEnds

LEMMA MinFirst ==
  ASSUME NEW S \in SUBSET Int, NEW a \in S, \A b \in S : a <= b
  PROVE  Min(S) = a
<1>1. \E x \in S : \A y \in S : x <= y OBVIOUS
<1>2. Min(S) \in S /\ \A b \in S : Min(S) <= b BY <1>1 DEF Min
<1>3. Min(S) <= a /\ a <= Min(S) /\ Min(S) \in Int /\ a \in Int BY <1>2
<1> QED BY <1>3

LEMMA MaxLast ==
  ASSUME NEW S \in SUBSET Int, NEW a \in S, \A b \in S : a >= b
  PROVE  Max(S) = a
<1>1. \E x \in S : \A y \in S : x >= y OBVIOUS
<1>2. Max(S) \in S /\ \A b \in S : Max(S) >= b BY <1>1 DEF Max
<1>3. Max(S) >= a /\ a >= Max(S) /\ Max(S) \in Int /\ a \in Int BY <1>2
<1> QED BY <1>3

\* The segment of a magnitude is the first that it fits in.
LEMMA SegmentOf ==
  ASSUME NEW m \in Nat, m <= 32767
  PROVE  /\ Segment(m) \in 0 .. 7
         /\ m <= SegmentEnds[Segment(m)]
         /\ \A i \in 0 .. 7 : i < Segment(m) => m > SegmentEnds[i]
<1> DEFINE S == {i \in DOMAIN SegmentEnds : m <= SegmentEnds[i]}
<1>1. S \subseteq 0 .. 7 /\ 7 \in S
  <2>1. S \subseteq 0 .. 7 BY Ends
  <2>2. m <= SegmentEnds[7] BY Ends
  <2> QED BY <2>1, <2>2, Ends
<1> HIDE DEF S
<1>2. \E x \in S : \A y \in S : x <= y
  <2> SUFFICES ASSUME \A x \in S : \E y \in S : y < x PROVE FALSE BY <1>1
  <2>1. 6 \in S \/ 5 \in S \/ 4 \in S \/ 3 \in S \/ 2 \in S \/ 1 \in S \/ 0 \in S BY <1>1
  <2>2. 5 \in S \/ 4 \in S \/ 3 \in S \/ 2 \in S \/ 1 \in S \/ 0 \in S BY <1>1, <2>1
  <2>3. 4 \in S \/ 3 \in S \/ 2 \in S \/ 1 \in S \/ 0 \in S BY <1>1, <2>2
  <2>4. 3 \in S \/ 2 \in S \/ 1 \in S \/ 0 \in S BY <1>1, <2>3
  <2>5. 2 \in S \/ 1 \in S \/ 0 \in S BY <1>1, <2>4
  <2>6. 1 \in S \/ 0 \in S BY <1>1, <2>5
  <2> QED BY <1>1, <2>6
<1>3. Min(S) \in S /\ \A y \in S : Min(S) <= y BY <1>2 DEF Min
<1>4. Segment(m) = Min(S) BY DEF Segment, S
<1>5. Segment(m) \in 0 .. 7 /\ m <= SegmentEnds[Segment(m)] BY <1>1, <1>3, <1>4 DEF S
<1>6. ASSUME NEW i \in 0 .. 7, i < Segment(m) PROVE m > SegmentEnds[i]
  <2>1. i \notin S
    <3>1. Segment(m) \in Int /\ i \in Int /\ ~(Segment(m) <= i) BY <1>5, <1>6
    <3> QED BY <1>3, <1>4, <3>1
  <2>2. SegmentEnds[i] \in Int BY Ends
  <2> QED BY <2>1, <2>2, Ends DEF S
<1> QED BY <1>5, <1>6

LEMMA SaturatedIs ==
  ASSUME NEW x \in Int
  PROVE  Saturated(x) = IF x > 32767 THEN 32767 ELSE IF x < -32768 THEN -32768 ELSE x
<1>1. Min({x, 32767}) = IF x > 32767 THEN 32767 ELSE x BY MinFirst
<1> DEFINE y == IF x > 32767 THEN 32767 ELSE x
<1>2. y \in Int /\ Max({-32768, y}) = IF y < -32768 THEN -32768 ELSE y BY MaxLast
<1> QED BY <1>1, <1>2 DEF Saturated

\* How far a sample is from silence.
Loudness(s) == IF s < 0 THEN -s ELSE s

LEMMA IsSample ==
  ASSUME NEW x \in Int, x >= -32768, x <= 32767
  PROVE  x \in Samples
<1> DEFINE lo == -32768
           hi == 32767
<1>1. lo \in Int /\ hi \in Int /\ lo <= x /\ x <= hi OBVIOUS
<1>2. Samples = lo .. hi BY DEF Samples
<1> HIDE DEF lo, hi
<1> QED BY <1>1, <1>2

LEMMA SampleIs ==
  ASSUME NEW s \in Samples
  PROVE  s \in Int /\ s >= -32768 /\ s <= 32767
<1> DEFINE lo == -32768
           hi == 32767
<1>1. Samples = lo .. hi /\ lo \in Int /\ hi \in Int BY DEF Samples
<1> HIDE DEF lo, hi
<1>2. s \in Int /\ s >= lo /\ s <= hi BY <1>1
<1> QED BY <1>2 DEF lo, hi

LEMMA LoudnessIs ==
  ASSUME NEW s \in Samples
  PROVE  Loudness(s) \in Nat /\ Loudness(s) <= 32768
<1>1. s \in Int /\ s >= -32768 /\ s <= 32767 BY SampleIs
<1>2. CASE s < 0 BY <1>1, <1>2 DEF Loudness
<1>3. CASE ~(s < 0) BY <1>1, <1>3 DEF Loudness
<1> QED BY <1>2, <1>3

LEMMA MagnitudeIs ==
  ASSUME NEW s \in Samples
  PROVE  /\ Magnitude(s) \in Nat /\ Magnitude(s) >= 132 /\ Magnitude(s) <= 32635
         /\ Magnitude(s) = IF Loudness(s) + 132 > 32635 THEN 32635 ELSE Loudness(s) + 132
<1> DEFINE x == Saturated(IF s < 0 THEN Bias - s ELSE s + Bias)
           n == Loudness(s)
<1>1. n \in Nat /\ n <= 32768 BY LoudnessIs
<1>2. x = Saturated(n + 132)
  <2>1. s \in Int BY SampleIs
  <2> QED BY <2>1 DEF Bias, Loudness
<1> HIDE DEF n
<1>3. x = IF n + 132 > 32767 THEN 32767 ELSE n + 132 BY <1>1, <1>2, SaturatedIs
<1> HIDE DEF x
<1>4. x \in Int BY <1>1, <1>3
<1>5. Magnitude(s) = IF x > 32635 THEN 32635 ELSE x BY <1>4, MinFirst DEF Clip, Magnitude, x
<1>6. Magnitude(s) = IF n + 132 > 32635 THEN 32635 ELSE n + 132 BY <1>1, <1>3, <1>5
<1>7. Magnitude(s) \in Nat /\ Magnitude(s) >= 132 /\ Magnitude(s) <= 32635 BY <1>1, <1>6
<1> QED BY <1>6, <1>7 DEF n

\* What comes back of a magnitude.
Restored(m) == (8 * ((m \div 2 ^ (Segment(m) + 3)) % 16) + Bias) * 2 ^ Segment(m)

\* A segment's magnitudes are cut into 16 steps, and each comes back as the middle of its step.
InSteps(m, p) ==
  /\ 128 * p <= m /\ m < 256 * p
  /\ Restored(m) = 8 * p * (m \div (8 * p)) + 4 * p

LEMMA RestoredIs ==
  ASSUME NEW m \in Nat, m >= 132, m <= 32767
  PROVE  \E p \in {1, 2, 4, 8, 16, 32, 64, 128} : InSteps(m, p)
<1> DEFINE k == Segment(m)
<1>1. k \in 0 .. 7 /\ m <= SegmentEnds[k] /\ \A i \in 0 .. 7 : i < k => m > SegmentEnds[i]
  BY SegmentOf
<1>2. Restored(m) = (8 * ((m \div 2 ^ (k + 3)) % 16) + 132) * 2 ^ k BY DEF Restored, Bias
<1> HIDE DEF k
<1>3. CASE k = 0
  <2>1. m >= 132 /\ m <= 255 BY <1>1, <1>3, Ends
  <2>2. (m \div 8) % 16 = m \div 8 - 16 BY <2>1
  <2>3. Restored(m) = (8 * ((m \div 8) % 16) + 132) * 1 BY <1>2, <1>3, Powers
  <2>4. Restored(m) = 8 * (m \div 8) + 4 BY <2>1, <2>2, <2>3
  <2>5. InSteps(m, 1) BY <2>1, <2>4 DEF InSteps
  <2> QED BY <2>5
<1>4. CASE k = 1
  <2>1. m >= 256 /\ m <= 511 BY <1>1, <1>4, Ends
  <2>2. (m \div 16) % 16 = m \div 16 - 16 BY <2>1
  <2>3. Restored(m) = (8 * ((m \div 16) % 16) + 132) * 2 BY <1>2, <1>4, Powers
  <2>4. Restored(m) = 16 * (m \div 16) + 8 BY <2>1, <2>2, <2>3
  <2>5. InSteps(m, 2) BY <2>1, <2>4 DEF InSteps
  <2> QED BY <2>5
<1>5. CASE k = 2
  <2>1. m >= 512 /\ m <= 1023 BY <1>1, <1>5, Ends
  <2>2. (m \div 32) % 16 = m \div 32 - 16 BY <2>1
  <2>3. Restored(m) = (8 * ((m \div 32) % 16) + 132) * 4 BY <1>2, <1>5, Powers
  <2>4. Restored(m) = 32 * (m \div 32) + 16 BY <2>1, <2>2, <2>3
  <2>5. InSteps(m, 4) BY <2>1, <2>4 DEF InSteps
  <2> QED BY <2>5
<1>6. CASE k = 3
  <2>1. m >= 1024 /\ m <= 2047 BY <1>1, <1>6, Ends
  <2>2. (m \div 64) % 16 = m \div 64 - 16 BY <2>1
  <2>3. Restored(m) = (8 * ((m \div 64) % 16) + 132) * 8 BY <1>2, <1>6, Powers
  <2>4. Restored(m) = 64 * (m \div 64) + 32 BY <2>1, <2>2, <2>3
  <2>5. InSteps(m, 8) BY <2>1, <2>4 DEF InSteps
  <2> QED BY <2>5
<1>7. CASE k = 4
  <2>1. m >= 2048 /\ m <= 4095 BY <1>1, <1>7, Ends
  <2>2. (m \div 128) % 16 = m \div 128 - 16 BY <2>1
  <2>3. Restored(m) = (8 * ((m \div 128) % 16) + 132) * 16 BY <1>2, <1>7, Powers
  <2>4. Restored(m) = 128 * (m \div 128) + 64 BY <2>1, <2>2, <2>3
  <2>5. InSteps(m, 16) BY <2>1, <2>4 DEF InSteps
  <2> QED BY <2>5
<1>8. CASE k = 5
  <2>1. m >= 4096 /\ m <= 8191 BY <1>1, <1>8, Ends
  <2>2. (m \div 256) % 16 = m \div 256 - 16 BY <2>1
  <2>3. Restored(m) = (8 * ((m \div 256) % 16) + 132) * 32 BY <1>2, <1>8, Powers
  <2>4. Restored(m) = 256 * (m \div 256) + 128 BY <2>1, <2>2, <2>3
  <2>5. InSteps(m, 32) BY <2>1, <2>4 DEF InSteps
  <2> QED BY <2>5
<1>9. CASE k = 6
  <2>1. m >= 8192 /\ m <= 16383 BY <1>1, <1>9, Ends
  <2>2. (m \div 512) % 16 = m \div 512 - 16 BY <2>1
  <2>3. Restored(m) = (8 * ((m \div 512) % 16) + 132) * 64 BY <1>2, <1>9, Powers
  <2>4. Restored(m) = 512 * (m \div 512) + 256 BY <2>1, <2>2, <2>3
  <2>5. InSteps(m, 64) BY <2>1, <2>4 DEF InSteps
  <2> QED BY <2>5
<1>10. CASE k = 7
  <2>1. m >= 16384 /\ m <= 32767 BY <1>1, <1>10, Ends
  <2>2. (m \div 1024) % 16 = m \div 1024 - 16 BY <2>1
  <2>3. Restored(m) = (8 * ((m \div 1024) % 16) + 132) * 128 BY <1>2, <1>10, Powers
  <2>4. Restored(m) = 1024 * (m \div 1024) + 512 BY <2>1, <2>2, <2>3
  <2>5. InSteps(m, 128) BY <2>1, <2>4 DEF InSteps
  <2> QED BY <2>5
<1> QED BY <1>1, <1>3, <1>4, <1>5, <1>6, <1>7, <1>8, <1>9, <1>10

StepSizes == {1, 2, 4, 8, 16, 32, 64, 128}

\* The middle of a step is in the segment, near all of the step, and in that step itself.
LEMMA MiddleOfStep ==
  ASSUME NEW m \in Nat, NEW p \in StepSizes, InSteps(m, p)
  PROVE  /\ Restored(m) \in Nat /\ 132 * p <= Restored(m) /\ Restored(m) <= 252 * p
         /\ Restored(m) - m <= 4 * p /\ m - Restored(m) <= 4 * p
         /\ 8 * p * (Restored(m) \div (8 * p)) + 4 * p = Restored(m)
<1>1. CASE p = 1
  <2>1. 128 <= m /\ m < 256 /\ Restored(m) = 8 * (m \div 8) + 4 BY <1>1 DEF InSteps
  <2>2. m \div 8 \in Nat BY <2>1
  <2>3. Restored(m) \in Nat /\ 132 <= Restored(m) /\ Restored(m) <= 252 BY <2>1, <2>2
  <2>4. Restored(m) - m <= 4 /\ m - Restored(m) <= 4 BY <2>1, <2>2
  <2>5. 8 * (Restored(m) \div 8) + 4 = Restored(m) BY <2>1, <2>2
  <2> QED BY <1>1, <2>3, <2>4, <2>5
<1>2. CASE p = 2
  <2>1. 256 <= m /\ m < 512 /\ Restored(m) = 16 * (m \div 16) + 8 BY <1>2 DEF InSteps
  <2>2. m \div 16 \in Nat BY <2>1
  <2>3. Restored(m) \in Nat /\ 264 <= Restored(m) /\ Restored(m) <= 504 BY <2>1, <2>2
  <2>4. Restored(m) - m <= 8 /\ m - Restored(m) <= 8 BY <2>1, <2>2
  <2>5. 16 * (Restored(m) \div 16) + 8 = Restored(m) BY <2>1, <2>2
  <2> QED BY <1>2, <2>3, <2>4, <2>5
<1>3. CASE p = 4
  <2>1. 512 <= m /\ m < 1024 /\ Restored(m) = 32 * (m \div 32) + 16 BY <1>3 DEF InSteps
  <2>2. m \div 32 \in Nat BY <2>1
  <2>3. Restored(m) \in Nat /\ 528 <= Restored(m) /\ Restored(m) <= 1008 BY <2>1, <2>2
  <2>4. Restored(m) - m <= 16 /\ m - Restored(m) <= 16 BY <2>1, <2>2
  <2>5. 32 * (Restored(m) \div 32) + 16 = Restored(m) BY <2>1, <2>2
  <2> QED BY <1>3, <2>3, <2>4, <2>5
<1>4. CASE p = 8
  <2>1. 1024 <= m /\ m < 2048 /\ Restored(m) = 64 * (m \div 64) + 32 BY <1>4 DEF InSteps
  <2>2. m \div 64 \in Nat BY <2>1
  <2>3. Restored(m) \in Nat /\ 1056 <= Restored(m) /\ Restored(m) <= 2016 BY <2>1, <2>2
  <2>4. Restored(m) - m <= 32 /\ m - Restored(m) <= 32 BY <2>1, <2>2
  <2>5. 64 * (Restored(m) \div 64) + 32 = Restored(m) BY <2>1, <2>2
  <2> QED BY <1>4, <2>3, <2>4, <2>5
<1>5. CASE p = 16
  <2>1. 2048 <= m /\ m < 4096 /\ Restored(m) = 128 * (m \div 128) + 64 BY <1>5 DEF InSteps
  <2>2. m \div 128 \in Nat BY <2>1
  <2>3. Restored(m) \in Nat /\ 2112 <= Restored(m) /\ Restored(m) <= 4032 BY <2>1, <2>2
  <2>4. Restored(m) - m <= 64 /\ m - Restored(m) <= 64 BY <2>1, <2>2
  <2>5. 128 * (Restored(m) \div 128) + 64 = Restored(m) BY <2>1, <2>2
  <2> QED BY <1>5, <2>3, <2>4, <2>5
<1>6. CASE p = 32
  <2>1. 4096 <= m /\ m < 8192 /\ Restored(m) = 256 * (m \div 256) + 128 BY <1>6 DEF InSteps
  <2>2. m \div 256 \in Nat BY <2>1
  <2>3. Restored(m) \in Nat /\ 4224 <= Restored(m) /\ Restored(m) <= 8064 BY <2>1, <2>2
  <2>4. Restored(m) - m <= 128 /\ m - Restored(m) <= 128 BY <2>1, <2>2
  <2>5. 256 * (Restored(m) \div 256) + 128 = Restored(m) BY <2>1, <2>2
  <2> QED BY <1>6, <2>3, <2>4, <2>5
<1>7. CASE p = 64
  <2>1. 8192 <= m /\ m < 16384 /\ Restored(m) = 512 * (m \div 512) + 256 BY <1>7 DEF InSteps
  <2>2. m \div 512 \in Nat BY <2>1
  <2>3. Restored(m) \in Nat /\ 8448 <= Restored(m) /\ Restored(m) <= 16128 BY <2>1, <2>2
  <2>4. Restored(m) - m <= 256 /\ m - Restored(m) <= 256 BY <2>1, <2>2
  <2>5. 512 * (Restored(m) \div 512) + 256 = Restored(m) BY <2>1, <2>2
  <2> QED BY <1>7, <2>3, <2>4, <2>5
<1>8. CASE p = 128
  <2>1. 16384 <= m /\ m < 32768 /\ Restored(m) = 1024 * (m \div 1024) + 512 BY <1>8 DEF InSteps
  <2>2. m \div 1024 \in Nat BY <2>1
  <2>3. Restored(m) \in Nat /\ 16896 <= Restored(m) /\ Restored(m) <= 32256 BY <2>1, <2>2
  <2>4. Restored(m) - m <= 512 /\ m - Restored(m) <= 512 BY <2>1, <2>2
  <2>5. 1024 * (Restored(m) \div 1024) + 512 = Restored(m) BY <2>1, <2>2
  <2> QED BY <1>8, <2>3, <2>4, <2>5
<1> QED BY <1>1, <1>2, <1>3, <1>4, <1>5, <1>6, <1>7, <1>8 DEF StepSizes

LEMMA RestoredNear ==
  ASSUME NEW m \in Nat, m >= 132, m <= 32767
  PROVE  /\ Restored(m) \in Nat /\ Restored(m) >= 132 /\ Restored(m) <= 32256
         /\ 32 * (Restored(m) - m) <= m /\ 32 * (m - Restored(m)) <= m
<1>1. PICK p \in StepSizes : InSteps(m, p) BY RestoredIs DEF StepSizes
<1>2. p \in Nat /\ p >= 1 /\ p <= 128 BY DEF StepSizes
<1>3. 128 * p <= m BY <1>1 DEF InSteps
<1> DEFINE r == Restored(m)
<1>4. /\ r \in Nat /\ 132 * p <= r /\ r <= 252 * p
      /\ r - m <= 4 * p /\ m - r <= 4 * p
  BY <1>1, MiddleOfStep
<1> HIDE DEF r
<1>5. r \in Nat /\ r >= 132 /\ r <= 32256 BY <1>2, <1>4
<1>6. 32 * (r - m) <= m /\ 32 * (m - r) <= m BY <1>2, <1>3, <1>4
<1> QED BY <1>5, <1>6 DEF r

\* Silence comes back as it is, and what is clipped as this.
LEMMA ExtremesRestored == Restored(132) = 132 /\ Restored(32635) = 32256
<1>1. Restored(132) = 132
  <2>1. PICK p \in StepSizes : InSteps(132, p) BY RestoredIs DEF StepSizes
  <2>2. p = 1 BY <2>1 DEF InSteps, StepSizes
  <2>3. 132 \div 8 = 16 OBVIOUS
  <2> QED BY <2>1, <2>2, <2>3 DEF InSteps
<1>2. Restored(32635) = 32256
  <2>1. PICK p \in StepSizes : InSteps(32635, p) BY RestoredIs DEF StepSizes
  <2>2. p = 128 BY <2>1 DEF InSteps, StepSizes
  <2>3. 32635 \div 1024 = 31 OBVIOUS
  <2> QED BY <2>1, <2>2, <2>3 DEF InSteps
<1> QED BY <1>1, <1>2

\* Two magnitudes in steps of different sizes are in different segments.
LEMMA StepSize ==
  ASSUME NEW m \in Nat, NEW n \in Nat, NEW p \in StepSizes, NEW q \in StepSizes,
         128 * p <= m, m < 256 * p, 128 * q <= n, n < 256 * q, m <= n
  PROVE  p = q \/ 2 * p <= q
BY DEF StepSizes

\* What has been through the code once is not changed by it any more.
LEMMA RestoredAgain ==
  ASSUME NEW m \in Nat, m >= 132, m <= 32767
  PROVE  Restored(Restored(m)) = Restored(m)
<1> DEFINE r == Restored(m)
<1>1. PICK p \in StepSizes : InSteps(m, p) BY RestoredIs DEF StepSizes
<1>2. r \in Nat /\ r >= 132 /\ r <= 32767 BY RestoredNear
<1>3. p \in Nat /\ 128 * p <= r /\ r < 256 * p /\ 8 * p * (r \div (8 * p)) + 4 * p = r
  <2>1. p \in Nat BY DEF StepSizes
  <2> QED BY <1>1, <2>1, MiddleOfStep
<1> HIDE DEF r
<1>4. PICK q \in StepSizes : InSteps(r, q) BY <1>2, RestoredIs DEF StepSizes
<1>5. q \in Nat /\ 128 * q <= r /\ r < 256 * q /\ Restored(r) = 8 * q * (r \div (8 * q)) + 4 * q
  BY <1>4 DEF InSteps, StepSizes
<1>6. p = q
  BY <1>2, <1>3, <1>5 DEF StepSizes
<1>7. Restored(r) = r BY <1>3, <1>5, <1>6
<1> QED BY <1>7 DEF r

\* A greater magnitude comes back as no smaller one.
LEMMA RestoredRises ==
  ASSUME NEW m \in Nat, NEW n \in Nat, m >= 132, m <= n, n <= 32767
  PROVE  Restored(m) <= Restored(n)
<1>1. PICK p \in StepSizes : InSteps(m, p) BY RestoredIs DEF StepSizes
<1>2. PICK q \in StepSizes : InSteps(n, q) BY RestoredIs DEF StepSizes
<1>3. p = q \/ 2 * p <= q BY <1>1, <1>2, StepSize DEF InSteps
<1>4. p \in Nat /\ q \in Nat BY DEF StepSizes
<1>5. CASE 2 * p <= q
  <2>1. Restored(m) \in Nat /\ Restored(m) <= 252 * p BY <1>1, MiddleOfStep
  <2>2. Restored(n) \in Nat /\ 132 * q <= Restored(n) BY <1>2, MiddleOfStep
  <2> QED BY <1>4, <1>5, <2>1, <2>2
<1>6. CASE p = q
  <2>1. 8 * p \in Nat /\ 8 * p > 0 BY DEF StepSizes
  <2>2. m \div (8 * p) <= n \div (8 * p) /\ m \div (8 * p) \in Nat /\ n \div (8 * p) \in Nat
    BY DEF StepSizes
  <2>3. Restored(m) = 8 * p * (m \div (8 * p)) + 4 * p /\ Restored(n) = 8 * p * (n \div (8 * p)) + 4 * p
    BY <1>1, <1>2, <1>6 DEF InSteps
  <2> QED BY <2>2, <2>3 DEF StepSizes
<1> QED BY <1>3, <1>5, <1>6

\* A code takes the segment and the step to the other end, so that what is heard is the
\* middle of the step.
LEMMA CodeCarries ==
  ASSUME NEW k \in 0 .. 7, NEW f \in 0 .. 15, NEW sign \in {0, 128}
  PROVE  MulawToLinear(255 - (sign + 16 * k + f))
           = IF sign = 128 THEN Saturated(Bias - (8 * f + Bias) * 2 ^ k)
             ELSE Saturated((8 * f + Bias) * 2 ^ k - Bias)
<1> DEFINE v == sign + 16 * k + f
<1>1. v \in Nat /\ v % 16 = f /\ (v % 128) \div 16 = k /\ (v >= 128 <=> sign = 128)
  <2>1. CASE sign = 0 BY <2>1
  <2>2. CASE sign = 128 BY <2>2
  <2> QED BY <2>1, <2>2
<1>2. 255 - (255 - v) = v BY <1>1
<1> HIDE DEF v
<1>3. MulawToLinear(255 - v) = IF v >= 128 THEN Saturated(Bias - (8 * (v % 16) + Bias) * 2 ^ ((v % 128) \div 16))
                               ELSE Saturated((8 * (v % 16) + Bias) * 2 ^ ((v % 128) \div 16) - Bias)
  BY <1>2 DEF MulawToLinear
<1>4. MulawToLinear(255 - v) = IF sign = 128 THEN Saturated(Bias - (8 * f + Bias) * 2 ^ k)
                               ELSE Saturated((8 * f + Bias) * 2 ^ k - Bias)
  BY <1>1, <1>3
<1> QED BY <1>4 DEF v

LEMMA PowersOfSteps == \A k \in 0 .. 7 : 2 ^ (k + 3) \in Nat /\ 2 ^ (k + 3) > 0
<1> SUFFICES ASSUME NEW k \in 0 .. 7 PROVE 2 ^ (k + 3) \in Nat /\ 2 ^ (k + 3) > 0 OBVIOUS
<1>1. k = 0 \/ k = 1 \/ k = 2 \/ k = 3 \/ k = 4 \/ k = 5 \/ k = 6 \/ k = 7 OBVIOUS
<1>2. CASE k = 0 BY <1>2, Powers
<1>3. CASE k = 1 BY <1>3, Powers
<1>4. CASE k = 2 BY <1>4, Powers
<1>5. CASE k = 3 BY <1>5, Powers
<1>6. CASE k = 4 BY <1>6, Powers
<1>7. CASE k = 5 BY <1>7, Powers
<1>8. CASE k = 6 BY <1>8, Powers
<1>9. CASE k = 7 BY <1>9, Powers
<1> QED BY <1>1, <1>2, <1>3, <1>4, <1>5, <1>6, <1>7, <1>8, <1>9

LEMMA HeardIs ==
  ASSUME NEW s \in Samples
  PROVE  Heard[s] = IF s < 0 THEN 132 - Restored(Magnitude(s)) ELSE Restored(Magnitude(s)) - 132
<1> DEFINE m == Magnitude(s)
           k == Segment(m)
           f == (m \div 2 ^ (k + 3)) % 16
           sign == IF s < 0 THEN 128 ELSE 0
           r == Restored(m)
<1>1. m \in Nat /\ m >= 132 /\ m <= 32767 BY MagnitudeIs
<1> HIDE DEF m
<1>2. k \in 0 .. 7 BY <1>1, SegmentOf
<1> HIDE DEF k
<1>3. 2 ^ (k + 3) \in Nat /\ 2 ^ (k + 3) > 0
  BY <1>2, PowersOfSteps
<1>4. f \in 0 .. 15
  <2> DEFINE d == 2 ^ (k + 3)
  <2>1. d \in Nat /\ d > 0 BY <1>3
  <2> HIDE DEF d
  <2>2. m \div d \in Int BY <1>1, <2>1
  <2>3. (m \div d) % 16 \in 0 .. 15 BY <2>2
  <2> QED BY <2>3 DEF d
<1>5. LinearToMulaw(s) = (IF s < 0 THEN 127 ELSE 255) - (16 * k + f) BY DEF LinearToMulaw, m, k
<1> HIDE DEF f
<1>6. LinearToMulaw(s) = 255 - (sign + 16 * k + f) BY <1>2, <1>4, <1>5
<1>7. sign \in {0, 128} OBVIOUS
<1>8. r = (8 * f + Bias) * 2 ^ k BY DEF Restored, f, k
<1>9. MulawToLinear(LinearToMulaw(s)) = IF sign = 128 THEN Saturated(Bias - r) ELSE Saturated(r - Bias)
  <2> HIDE DEF sign, r
  <2>1. MulawToLinear(255 - (sign + 16 * k + f))
          = IF sign = 128 THEN Saturated(Bias - (8 * f + Bias) * 2 ^ k)
            ELSE Saturated((8 * f + Bias) * 2 ^ k - Bias)
    BY <1>2, <1>4, <1>7, CodeCarries
  <2> QED BY <1>6, <1>8, <2>1
<1>10. r \in Nat /\ r >= 132 /\ r <= 32767 BY <1>1, RestoredNear
<1> HIDE DEF r
<1>11. Saturated(Bias - r) = 132 - r /\ Saturated(r - Bias) = r - 132 BY <1>10, SaturatedIs DEF Bias
<1>12. Heard[s] = IF s < 0 THEN 132 - r ELSE r - 132 BY <1>9, <1>11 DEF Heard
<1> QED BY <1>12 DEF r, m

LEMMA HeardAgain ==
  ASSUME NEW s \in Samples
  PROVE  Heard[s] \in Samples /\ Heard[Heard[s]] = Heard[s]
<1> DEFINE m == Magnitude(s)
           r == Restored(m)
           b == Heard[s]
<1>1. m \in Nat /\ m >= 132 /\ m <= 32635 BY MagnitudeIs
<1>2. b = IF s < 0 THEN 132 - r ELSE r - 132 BY HeardIs
<1> HIDE DEF m
<1>3. r \in Nat /\ r >= 132 /\ r <= 32256 BY <1>1, RestoredNear
<1>4. Restored(r) = r BY <1>1, RestoredAgain
<1> HIDE DEF r, b
<1>5. b \in Int /\ b >= -32635 /\ b <= 32635 BY <1>2, <1>3
<1>6. b \in Samples BY <1>5, IsSample
<1>7. Loudness(b) = r - 132 BY <1>2, <1>3, <1>5 DEF Loudness
<1>8. Magnitude(b) = r
  <2>1. Magnitude(b) = IF Loudness(b) + 132 > 32635 THEN 32635 ELSE Loudness(b) + 132
    BY <1>6, MagnitudeIs
  <2> QED BY <1>3, <1>7, <2>1
<1>9. Heard[b] = IF b < 0 THEN 132 - r ELSE r - 132 BY <1>4, <1>6, <1>8, HeardIs
<1>10. Heard[b] = b BY <1>2, <1>3, <1>9
<1> QED BY <1>6, <1>10 DEF b

\* Of all samples of 16 bits, the extremes included: near, of the same sign, and stable.
THEOREM CodeIsFaithful == CodecFaithful
<1> SUFFICES ASSUME NEW s \in Samples
             PROVE  LET back == Heard[s]
                        error == IF back > s THEN back - s ELSE s - back
                        loudness == IF s < 0 THEN -s ELSE s
                    IN /\ back # 0 => (back > 0 <=> s > 0)
                       /\ 32 * error <= loudness + Bias
                       /\ Heard[back] = back
  BY DEF CodecFaithful
<1> DEFINE m == Magnitude(s)
           r == Restored(m)
           b == Heard[s]
           n == Loudness(s)
           error == IF b > s THEN b - s ELSE s - b
<1>1. m \in Nat /\ m >= 132 /\ m <= 32635 /\ m = IF n + 132 > 32635 THEN 32635 ELSE n + 132
  BY MagnitudeIs
<1>2. b = IF s < 0 THEN 132 - r ELSE r - 132 BY HeardIs
<1>3. s \in Int /\ s >= -32768 /\ s <= 32767 /\ n = IF s < 0 THEN -s ELSE s BY SampleIs DEF Loudness
<1>4. n \in Nat /\ n <= 32768 BY LoudnessIs
<1>5. Heard[b] = b BY HeardAgain
<1> HIDE DEF m, n
<1>6. /\ r \in Nat /\ r >= 132
      /\ 32 * (r - m) <= m /\ 32 * (m - r) <= m
  BY <1>1, RestoredNear
<1> HIDE DEF r, b
<1>7. b # 0 => (b > 0 <=> s > 0)
  <2>1. CASE s < 0 BY <1>2, <1>3, <1>6, <2>1
  <2>2. CASE s = 0
    <3>1. m = 132 BY <1>1, <1>3, <2>2
    <3>2. r = 132 BY <3>1, ExtremesRestored DEF r
    <3> QED BY <1>2, <2>2, <3>2
  <2>3. CASE s > 0 BY <1>2, <1>3, <1>6, <2>3
  <2> QED BY <1>3, <2>1, <2>2, <2>3
<1>8. 32 * error <= n + 132
  <2>1. error = IF r - 132 > n THEN r - 132 - n ELSE n - (r - 132)
    <3>1. CASE s < 0 BY <1>2, <1>3, <1>6, <3>1
    <3>2. CASE ~(s < 0) BY <1>2, <1>3, <1>6, <3>2
    <3> QED BY <3>1, <3>2
  <2>2. CASE n + 132 > 32635
    <3>1. m = 32635 BY <1>1, <2>2
    <3>2. r = 32256 BY <3>1, ExtremesRestored DEF r
    <3> QED BY <1>4, <2>1, <2>2, <3>2
  <2>3. CASE ~(n + 132 > 32635) BY <1>1, <1>4, <1>6, <2>1, <2>3
  <2> QED BY <2>2, <2>3
<1> QED BY <1>3, <1>5, <1>7, <1>8 DEF Bias, b

\* The code keeps the order of all samples.
THEOREM CodeIsMonotone == CodecMonotone
<1> SUFFICES ASSUME NEW s \in Samples \ {32767} PROVE Heard[s + 1] >= Heard[s] BY DEF CodecMonotone
<1>1. s \in Samples /\ s + 1 \in Samples /\ s \in Int
  <2>1. s \in Samples /\ s # 32767 OBVIOUS
  <2>2. s \in Int /\ s >= -32768 /\ s <= 32767 BY <2>1, SampleIs
  <2> QED BY <2>1, <2>2, IsSample
<1> DEFINE m == Magnitude(s)
           n == Magnitude(s + 1)
<1>2. /\ m \in Nat /\ m >= 132 /\ m <= 32635 /\ n \in Nat /\ n >= 132 /\ n <= 32635
      /\ m = IF Loudness(s) + 132 > 32635 THEN 32635 ELSE Loudness(s) + 132
      /\ n = IF Loudness(s + 1) + 132 > 32635 THEN 32635 ELSE Loudness(s + 1) + 132
  BY <1>1, MagnitudeIs
<1>3. /\ Heard[s] = IF s < 0 THEN 132 - Restored(m) ELSE Restored(m) - 132
      /\ Heard[s + 1] = IF s + 1 < 0 THEN 132 - Restored(n) ELSE Restored(n) - 132
  BY <1>1, HeardIs
<1> HIDE DEF m, n
<1>4. /\ Restored(m) \in Nat /\ Restored(m) >= 132
      /\ Restored(n) \in Nat /\ Restored(n) >= 132
  BY <1>2, RestoredNear
<1>5. CASE s >= 0
  <2>1. Loudness(s) = s /\ Loudness(s + 1) = s + 1 BY <1>1, <1>5 DEF Loudness
  <2>2. m <= n BY <1>1, <1>2, <2>1
  <2>3. Restored(m) <= Restored(n) BY <1>2, <2>2, RestoredRises
  <2> QED BY <1>1, <1>3, <1>4, <1>5, <2>3
<1>6. CASE s = -1 BY <1>3, <1>4, <1>6
<1>7. CASE s < -1
  <2>1. Loudness(s) = -s /\ Loudness(s + 1) = -(s + 1) BY <1>1, <1>7 DEF Loudness
  <2>2. n <= m BY <1>1, <1>2, <1>7, <2>1
  <2>3. Restored(n) <= Restored(m) BY <1>2, <2>2, RestoredRises
  <2> QED BY <1>1, <1>3, <1>4, <1>7, <2>3
<1> QED BY <1>1, <1>5, <1>6, <1>7

----
(* The audio of the calls: the packets *)

\* The packets of any version and make are found out for what they are, whole or cut off.
THEOREM PayloadIsFound == PayloadFound
<1> SUFFICES ASSUME NEW version \in {1, 2}, NEW csrcs \in 0 .. MaxCsrcs, NEW extended \in BOOLEAN,
                    NEW words \in 0 .. MaxWords, NEW padding \in 0 .. MaxPadding,
                    NEW payload \in 0 .. MaxPayload
             PROVE  LET p == Packet(version, csrcs, extended, words, padding, payload)
                    IN /\ Payload(p) = IF p.version = 2 THEN p.start .. p.start + p.payload - 1 ELSE {}
                       /\ \A cut \in CutOff(p) :
                            Payload(cut) # {} => p.start \in Payload(cut) /\ Payload(cut) \subseteq p.start .. cut.len - 1
  BY DEF PayloadFound, Packets
<1> DEFINE extension == IF extended THEN 4 + 4 * words ELSE 0
           start == 12 + 4 * csrcs + extension
           len == start + payload + padding
           p == Packet(version, csrcs, extended, words, padding, payload)
<1>1. csrcs \in Nat /\ words \in Nat /\ padding \in Nat /\ payload \in Nat BY PacketAssumption
<1>2. extension \in Nat /\ (extended => extension >= 4) BY <1>1
<1>3. p = [version |-> version, csrcs |-> csrcs, extended |-> extended, words |-> words,
           padded |-> padding > 0, last |-> padding, start |-> start, payload |-> payload,
           sent |-> len, len |-> len]
  BY DEF Packet, HeaderLen
<1> DEFINE Parsed(l, last) ==
             LET end == l - (IF padding > 0 THEN last ELSE 0)
             IN IF \/ l < 12 \/ version # 2 \/ l < 12 + 4 * csrcs
                   \/ extended /\ l < 12 + 4 * csrcs + 4
                   \/ l < start \/ end < start
                THEN {} ELSE start .. end - 1
<1>4. \A q : /\ q.version = version /\ q.csrcs = csrcs /\ q.extended = extended /\ q.words = words
             /\ q.padded = (padding > 0)
             => Payload(q) = Parsed(q.len, q.last)
  BY <1>1 DEF Payload, HeaderLen, ExtensionLen
<1>5. Payload(p) = Parsed(len, padding) BY <1>3, <1>4
<1>6. \A cut \in CutOff(p) : cut.len \in 0 .. len - 1 /\ cut.last \in {0, 1, 255}
                            /\ Payload(cut) = Parsed(cut.len, cut.last)
  <2> SUFFICES ASSUME NEW cut \in CutOff(p)
               PROVE  /\ cut.len \in 0 .. len - 1 /\ cut.last \in {0, 1, 255}
                      /\ Payload(cut) = Parsed(cut.len, cut.last)
    OBVIOUS
  <2>1. p.sent = len BY <1>3
  <2> HIDE DEF p
  <2>2. PICK l \in 0 .. p.sent - 1, last \in {0, 1, 255} :
              cut = WithLast([p EXCEPT !.len = l], last)
    BY DEF CutOff
  <2> DEFINE shorter == [p EXCEPT !.len = l]
  <2>3. shorter = [version |-> version, csrcs |-> csrcs, extended |-> extended, words |-> words,
                   padded |-> padding > 0, last |-> padding, start |-> start, payload |-> payload,
                   sent |-> len, len |-> l]
    BY <1>3
  <2> HIDE DEF shorter
  <2>4. /\ cut.version = version /\ cut.csrcs = csrcs /\ cut.extended = extended /\ cut.words = words
        /\ cut.padded = (padding > 0) /\ cut.len = l /\ cut.last = last
    <3>1. cut = [shorter EXCEPT !.last = last] BY <2>2 DEF WithLast, shorter
    <3> QED BY <2>3, <3>1
  <2> HIDE DEF len
  <2>5. Payload(cut) = Parsed(cut.len, cut.last) BY <1>4, <2>4
  <2> QED BY <2>1, <2>2, <2>4, <2>5
<1>7. start \in Nat /\ start >= 12 + 4 * csrcs /\ (extended => start >= 12 + 4 * csrcs + 4) BY <1>1, <1>2
<1>8. p.version = version /\ p.start = start /\ p.payload = payload BY <1>3
<1> HIDE DEF p, extension, start
<1>9. Parsed(len, padding) = IF version = 2 THEN start .. start + payload - 1 ELSE {}
  <2>1. len - (IF padding > 0 THEN padding ELSE 0) = start + payload BY <1>1, <1>7
  <2>2. len >= start /\ len >= 12 /\ len >= 12 + 4 * csrcs /\ (extended => len >= 12 + 4 * csrcs + 4)
    BY <1>1, <1>7
  <2> QED BY <1>1, <1>7, <2>1, <2>2
<1>10. ASSUME NEW l \in Nat, NEW last \in {0, 1, 255}, Parsed(l, last) # {}
       PROVE  start \in Parsed(l, last) /\ Parsed(l, last) \subseteq start .. l - 1
  <2> DEFINE end == l - (IF padding > 0 THEN last ELSE 0)
  <2>1. Parsed(l, last) = start .. end - 1 BY <1>10
  <2>2. end \in Int /\ end <= l BY <1>1
  <2> HIDE DEF end
  <2> QED BY <1>7, <1>10, <2>1, <2>2
<1> HIDE DEF Parsed, len
<1>11. ASSUME NEW cut \in CutOff(p), Payload(cut) # {}
       PROVE  start \in Payload(cut) /\ Payload(cut) \subseteq start .. cut.len - 1
  <2>1. cut.len \in Nat BY <1>6
  <2> QED BY <1>6, <1>10, <1>11, <2>1
<1>12. Payload(p) = IF p.version = 2 THEN p.start .. p.start + p.payload - 1 ELSE {}
  BY <1>5, <1>8, <1>9
<1> QED BY <1>8, <1>11, <1>12 DEF p

----
(* The report: numbers and orders *)

\* Rust's saturating_sub.
LEMMA MaxZero == ASSUME NEW x \in Int PROVE Max({0, x}) = IF x > 0 THEN x ELSE 0
<1>1. {0, x} \in SUBSET Int OBVIOUS
<1>2. CASE x > 0
  <2>1. x \in {0, x} /\ \A y \in {0, x} : x >= y BY <1>2
  <2>2. Max({0, x}) = x BY <1>1, <2>1, MaxLast
  <2> QED BY <1>2, <2>2
<1>3. CASE ~(x > 0)
  <2>1. 0 \in {0, x} /\ \A y \in {0, x} : 0 >= y BY <1>3
  <2>2. Max({0, x}) = 0 BY <1>1, <2>1, MaxLast
  <2> QED BY <1>3, <2>2
<1> QED BY <1>2, <1>3

\* A set of numbers has a first one.
LEMMA NatMin ==
  ASSUME NEW S \in SUBSET Nat, S # {}
  PROVE  Min(S) \in S /\ \A n \in S : Min(S) <= n
<1> DEFINE R == {p \in Nat \X Nat : p[1] < p[2]}
<1>1. IsWellFoundedOn(R, Nat) BY NatLessThanWellFounded DEF OpToRel
<1>2. \A m, n \in Nat : <<m, n>> \in R <=> m < n OBVIOUS
<1> HIDE DEF R
<1>3. PICK m \in S : \A n \in S : ~ (<<n, m>> \in R) BY <1>1, WFMin
<1>4. \A n \in S : m <= n
  <2> TAKE n \in S
  <2>1. m \in Nat /\ n \in Nat /\ ~ (n < m) BY <1>2, <1>3
  <2> QED BY <2>1
<1>5. Min(S) = m BY <1>4, MinFirst
<1> QED BY <1>4, <1>5

\* A set of numbers that is bounded has a last one.
LEMMA NatMax ==
  ASSUME NEW S \in SUBSET Nat, S # {}, NEW bound \in Nat, \A n \in S : n <= bound
  PROVE  Max(S) \in S /\ \A n \in S : n <= Max(S)
<1> DEFINE T == {m \in Nat : bound - m \in S}
<1>1. \A n \in S : bound - n \in T
  <2> TAKE n \in S
  <2>1. n \in Nat /\ n <= bound OBVIOUS
  <2>2. bound - n \in Nat /\ bound - (bound - n) = n BY <2>1
  <2> QED BY <2>2
<1>2. T # {} BY <1>1
<1>3. T \in SUBSET Nat OBVIOUS
<1>4. Min(T) \in T /\ \A m \in T : Min(T) <= m BY <1>2, <1>3, NatMin
<1>5. bound - Min(T) \in S /\ Min(T) \in Nat BY <1>4
<1>6. \A n \in S : n <= bound - Min(T)
  <2> TAKE n \in S
  <2>1. Min(T) <= bound - n BY <1>1, <1>4
  <2>2. n \in Nat OBVIOUS
  <2> QED BY <1>5, <2>1, <2>2
<1> HIDE DEF T
<1>7. Max(S) = bound - Min(T)
  <2> DEFINE top == bound - Min(T)
  <2>1. top \in S /\ \A n \in S : top >= n
    <3> SUFFICES ASSUME NEW n \in S PROVE top >= n BY <1>5
    <3>1. n \in Nat OBVIOUS
    <3> QED BY <1>5, <1>6, <3>1
  <2>2. S \in SUBSET Int OBVIOUS
  <2> HIDE DEF top
  <2>3. Max(S) = top BY <2>1, <2>2, MaxLast
  <2> QED BY <2>3 DEF top
<1> QED BY <1>5, <1>6, <1>7

\* A finite set can be put in any order that tells its elements apart: each has as many
\* before it as its place says.
LEMMA OrderExists ==
  ASSUME NEW S, IsFiniteSet(S), NEW R,
         \A x \in S : <<x, x>> \notin R,
         \A x, y \in S : x # y => <<x, y>> \in R \/ <<y, x>> \in R,
         \A x, y, z \in S : <<x, y>> \in R /\ <<y, z>> \in R => <<x, z>> \in R
  PROVE  \E s \in SetToSeqs(S) : \A i, j \in DOMAIN s : i < j => <<s[i], s[j]>> \in R
<1> DEFINE n == Cardinality(S)
           Before(x) == {y \in S : <<y, x>> \in R}
           rank == [x \in S |-> Cardinality(Before(x)) + 1]
<1>1. n \in Nat BY FS_CardinalityType
<1>2. \A x \in S : IsFiniteSet(Before(x)) /\ Cardinality(Before(x)) \in Nat /\ rank[x] \in 1 .. n
  <2> TAKE x \in S
  <2>1. IsFiniteSet(Before(x)) BY FS_Subset
  <2>2. Cardinality(Before(x)) \in Nat BY <2>1, FS_CardinalityType
  <2>3. /\ IsFiniteSet(S \ {x})
        /\ Cardinality(S \ {x}) = n - 1 BY FS_RemoveElement
  <2>4. Before(x) \in SUBSET (S \ {x}) OBVIOUS
  <2> HIDE DEF n, Before
  <2>5. Cardinality(Before(x)) <= n - 1
    <3>1. Cardinality(Before(x)) <= Cardinality(S \ {x}) BY <2>3, <2>4, FS_Subset
    <3> QED BY <2>3, <3>1
  <2>6. Cardinality(Before(x)) + 1 \in 1 .. n BY <1>1, <2>2, <2>5
  <2> QED BY <2>1, <2>2, <2>6
<1>3. ASSUME NEW x \in S, NEW y \in S, <<x, y>> \in R
      PROVE  rank[x] < rank[y]
  <2>1. Before(x) \in SUBSET Before(y) BY <1>3
  <2>2. x \in Before(y) /\ x \notin Before(x) BY <1>3
  <2>3. Cardinality(Before(x)) <= Cardinality(Before(y)) /\ Cardinality(Before(x)) # Cardinality(Before(y))
    <3> HIDE DEF Before
    <3> QED BY <1>2, <2>1, <2>2, FS_Subset
  <2> HIDE DEF Before
  <2> QED BY <1>2, <2>3
<1>4. \A x, y \in S : rank[x] = rank[y] => x = y
  <2> SUFFICES ASSUME NEW x \in S, NEW y \in S, x # y, rank[x] = rank[y] PROVE FALSE OBVIOUS
  <2>1. rank[x] \in Int
    <3> HIDE DEF n, rank, Before
    <3> QED BY <1>1, <1>2
  <2>2. rank[x] < rank[y] \/ rank[y] < rank[x] BY <1>3
  <2> HIDE DEF rank
  <2> QED BY <2>1, <2>2
<1>5. rank \in Surjection(S, 1 .. n)
  <2>1. rank \in [S -> 1 .. n] BY <1>2
  <2> HIDE DEF rank
  <2>2. rank \in Injection(S, 1 .. n) BY <1>4, <2>1 DEF Injection, IsInjective
  <2>3. IsFiniteSet(1 .. n) /\ Cardinality(1 .. n) = n BY <1>1, FS_Interval
  <2> QED BY <2>2, <2>3, FS_Injection
<1> HIDE DEF rank, Before
<1> DEFINE s == [k \in 1 .. n |-> CHOOSE x \in S : rank[x] = k]
<1>6. \A k \in 1 .. n : s[k] \in S /\ rank[s[k]] = k
  <2>1. \A k \in 1 .. n : \E x \in S : rank[x] = k BY <1>5 DEF Surjection
  <2> QED BY <2>1
<1>7. s \in SetToSeqs(S)
  <2>1. s \in [1 .. n -> S] BY <1>6
  <2>2. \A i, j \in 1 .. n : i # j => s[i] # s[j] BY <1>6
  <2> HIDE DEF s
  <2> QED BY <2>1, <2>2 DEF SetToSeqs
<1>8. \A i, j \in 1 .. n : i < j => <<s[i], s[j]>> \in R
  <2> SUFFICES ASSUME NEW i \in 1 .. n, NEW j \in 1 .. n, i < j PROVE <<s[i], s[j]>> \in R OBVIOUS
  <2>1. s[i] # s[j] BY <1>6
  <2>2. ~ (<<s[j], s[i]>> \in R)
    <3> SUFFICES ASSUME <<s[j], s[i]>> \in R PROVE FALSE OBVIOUS
    <3>1. j < i BY <1>3, <1>6
    <3> QED BY <3>1
  <2> QED BY <1>6, <2>1, <2>2
<1>9. DOMAIN s = 1 .. n OBVIOUS
<1> QED BY <1>7, <1>8, <1>9

\* Such an order has every element.
LEMMA HasEach ==
  ASSUME NEW S, IsFiniteSet(S), NEW s \in SetToSeqs(S)
  PROVE  /\ Cardinality(S) \in Nat
         /\ s \in [1 .. Cardinality(S) -> S]
         /\ \A i, j \in 1 .. Cardinality(S) : s[i] = s[j] => i = j
         /\ \A x \in S : \E i \in 1 .. Cardinality(S) : s[i] = x
<1> DEFINE n == Cardinality(S)
<1>1. n \in Nat BY FS_CardinalityType
<1>2. s \in [1 .. n -> S] /\ \A i, j \in 1 .. n : i # j => s[i] # s[j] BY DEF SetToSeqs
<1>3. s \in Injection(1 .. n, S) BY <1>2 DEF Injection, IsInjective
<1>4. Cardinality(1 .. n) = n BY <1>1, FS_Interval
<1> HIDE DEF n
<1>5. s \in Surjection(1 .. n, S)
  <2>1. Cardinality(1 .. n) = Cardinality(S) BY <1>4 DEF n
  <2> QED BY <1>3, <2>1, FS_Injection
<1>6. \A x \in S : \E i \in 1 .. n : s[i] = x BY <1>5 DEF Surjection
<1> QED BY <1>1, <1>2, <1>6 DEF n

\* So much for what InOrder makes of such an order.
LEMMA Sorted ==
  ASSUME NEW S, IsFiniteSet(S), NEW R,
         \A x \in S : <<x, x>> \notin R,
         \A x, y \in S : x # y => <<x, y>> \in R \/ <<y, x>> \in R,
         \A x, y, z \in S : <<x, y>> \in R /\ <<y, z>> \in R => <<x, z>> \in R
  PROVE  /\ Cardinality(S) \in Nat
         /\ InOrder(S, R) \in [1 .. Cardinality(S) -> S]
         /\ \A i, j \in 1 .. Cardinality(S) : InOrder(S, R)[i] = InOrder(S, R)[j] => i = j
         /\ \A x \in S : \E i \in 1 .. Cardinality(S) : InOrder(S, R)[i] = x
         /\ \A i, j \in 1 .. Cardinality(S) : i < j => <<InOrder(S, R)[i], InOrder(S, R)[j]>> \in R
<1> DEFINE o == InOrder(S, R)
<1>1. \E s \in SetToSeqs(S) : \A i, j \in DOMAIN s : i < j => <<s[i], s[j]>> \in R BY OrderExists
<1>2. o \in SetToSeqs(S) /\ \A i, j \in DOMAIN o : i < j => <<o[i], o[j]>> \in R
  BY <1>1 DEF InOrder
<1> HIDE DEF o
<1>3. /\ Cardinality(S) \in Nat /\ o \in [1 .. Cardinality(S) -> S]
      /\ \A i, j \in 1 .. Cardinality(S) : o[i] = o[j] => i = j
      /\ \A x \in S : \E i \in 1 .. Cardinality(S) : o[i] = x
  BY <1>2, HasEach
<1>4. DOMAIN o = 1 .. Cardinality(S) BY <1>3
<1> QED BY <1>2, <1>3, <1>4 DEF o

\* Numbers can be put in their own order.
LEMMA Increasing ==
  ASSUME NEW S \in SUBSET Nat, IsFiniteSet(S)
  PROVE  LET o == InOrder(S, Smaller(S))
         IN /\ Cardinality(S) \in Nat
            /\ o \in [1 .. Cardinality(S) -> S]
            /\ \A i, j \in 1 .. Cardinality(S) : i < j => o[i] < o[j]
            /\ \A x \in S : \E i \in 1 .. Cardinality(S) : o[i] = x
<1> DEFINE R == Smaller(S)
           o == InOrder(S, R)
<1>1. \A x, y \in S : <<x, y>> \in R <=> x < y BY DEF Smaller
<1> HIDE DEF R
<1>2. /\ \A x \in S : <<x, x>> \notin R
      /\ \A x, y \in S : x # y => <<x, y>> \in R \/ <<y, x>> \in R
      /\ \A x, y, z \in S : <<x, y>> \in R /\ <<y, z>> \in R => <<x, z>> \in R
  BY <1>1
<1>3. /\ Cardinality(S) \in Nat /\ o \in [1 .. Cardinality(S) -> S]
      /\ \A x \in S : \E i \in 1 .. Cardinality(S) : o[i] = x
      /\ \A i, j \in 1 .. Cardinality(S) : i < j => <<o[i], o[j]>> \in R
  <2>1. /\ Cardinality(S) \in Nat
        /\ o \in [1 .. Cardinality(S) -> S]
        /\ \A i, j \in 1 .. Cardinality(S) : o[i] = o[j] => i = j
        /\ \A x \in S : \E i \in 1 .. Cardinality(S) : o[i] = x
        /\ \A i, j \in 1 .. Cardinality(S) : i < j => <<o[i], o[j]>> \in R
    BY <1>2, Sorted, Zenon
  <2> HIDE DEF o
  <2> QED BY <2>1
<1> HIDE DEF o, R
<1>4. \A i, j \in 1 .. Cardinality(S) : i < j => o[i] < o[j] BY <1>1, <1>3
<1> QED BY <1>3, <1>4 DEF o, R

----
(* The report: what is made of one call, analysis.rs *)

\* A region is voiced up to the window it ends with, which is silent or the last.
LEMMA RegionEndIs ==
  ASSUME NEW heard \in Seq(BOOLEAN), NEW i \in Starts(heard)
  PROVE  /\ i \in 1 .. Len(heard) /\ heard[i]
         /\ RegionEnd(heard, i) \in i .. Len(heard)
         /\ \A k \in i .. RegionEnd(heard, i) - 1 : heard[k]
         /\ heard[RegionEnd(heard, i)] => RegionEnd(heard, i) = Len(heard)
<1> DEFINE silent == {j \in DOMAIN heard : j > i /\ ~heard[j]}
<1>1. i \in 1 .. Len(heard) /\ heard[i] /\ Len(heard) \in Nat BY DEF Starts
<1>2. CASE silent = {}
  <2>1. RegionEnd(heard, i) = Len(heard) BY <1>2 DEF RegionEnd
  <2>2. \A k \in i .. Len(heard) : heard[k] BY <1>1, <1>2
  <2> QED BY <1>1, <2>1, <2>2
<1>3. CASE silent # {}
  <2>1. RegionEnd(heard, i) = Min(silent) BY <1>3 DEF RegionEnd
  <2>2. silent \in SUBSET Nat OBVIOUS
  <2>3. Min(silent) \in silent /\ \A j \in silent : Min(silent) <= j BY <1>3, <2>2, NatMin
  <2>4. Min(silent) \in i .. Len(heard) /\ ~heard[Min(silent)] BY <1>1, <2>3
  <2>5. \A k \in i .. Min(silent) - 1 : heard[k]
    <3> SUFFICES ASSUME NEW k \in i .. Min(silent) - 1, ~heard[k] PROVE FALSE OBVIOUS
    <3>1. k \in Nat /\ k < Min(silent) BY <1>1, <2>4
    <3>2. k # i BY <1>1
    <3>3. k \in silent BY <1>1, <2>4, <3>2
    <3>4. Min(silent) <= k /\ Min(silent) \in Int BY <2>3, <2>4, <3>3
    <3> HIDE DEF silent
    <3> QED BY <3>1, <3>4
  <2> QED BY <1>1, <2>1, <2>4, <2>5
<1> QED BY <1>2, <1>3

\* Every voiced window is in one.
LEMMA InARegion ==
  ASSUME NEW heard \in Seq(BOOLEAN), NEW m \in 1 .. Len(heard), heard[m]
  PROVE  \E i \in Starts(heard) : i <= m /\ \A k \in i .. m : heard[k]
<1> DEFINE back == {i \in 1 .. m : \A k \in i .. m : heard[k]}
<1>1. m \in back OBVIOUS
<1>2. back \in SUBSET Nat /\ back # {}
  <2>1. back \subseteq 1 .. m OBVIOUS
  <2>2. 1 .. m \subseteq Nat OBVIOUS
  <2> HIDE DEF back
  <2> QED BY <1>1, <2>1, <2>2
<1>3. Min(back) \in back /\ \A i \in back : Min(back) <= i BY <1>2, NatMin
<1>4. PICK i \in back : \A j \in back : i <= j BY <1>3
<1>5. i \in 1 .. m /\ \A k \in i .. m : heard[k] BY <1>4
<1>6. i = 1 \/ ~heard[i - 1]
  <2> SUFFICES ASSUME i # 1, heard[i - 1] PROVE FALSE BY Zenon
  <2>1. i - 1 \in 1 .. m /\ \A k \in i - 1 .. m : k = i - 1 \/ k \in i .. m BY <1>5
  <2>2. i - 1 \in back BY <1>5, <2>1
  <2> QED BY <1>4, <1>5, <2>2
<1>7. i \in DOMAIN heard /\ heard[i] BY <1>5
<1>8. i \in Starts(heard) BY <1>6, <1>7 DEF Starts
<1> QED BY <1>5, <1>8

\* Where the regions start, in order, and where each ends.
StartOf(heard) == InOrder(Starts(heard), Smaller(Starts(heard)))
EndOf(heard) == [k \in DOMAIN StartOf(heard) |-> RegionEnd(heard, StartOf(heard)[k])]

\* The starts are put in order, each once.
LEMMA StartsAre ==
  ASSUME NEW heard \in Seq(BOOLEAN)
  PROVE  /\ Cardinality(Starts(heard)) \in Nat
         /\ StartOf(heard) \in [1 .. Cardinality(Starts(heard)) -> Starts(heard)]
         /\ \A k, l \in DOMAIN StartOf(heard) : k < l => StartOf(heard)[k] < StartOf(heard)[l]
         /\ \A i \in Starts(heard) : \E k \in DOMAIN StartOf(heard) : StartOf(heard)[k] = i
<1>1. Starts(heard) \subseteq 1 .. Len(heard) BY DEF Starts
<1>2. IsFiniteSet(1 .. Len(heard)) BY FS_Interval
<1>3. IsFiniteSet(Starts(heard)) BY <1>1, <1>2, FS_Subset
<1>4. Starts(heard) \in SUBSET Nat BY <1>1
<1> QED BY <1>3, <1>4, Increasing DEF StartOf

\* The regions are those that begin at the starts.
LEMMA RegionsAre ==
  ASSUME NEW heard \in Seq(BOOLEAN)
  PROVE  /\ DOMAIN VoicedRegions(heard) = DOMAIN StartOf(heard)
         /\ Len(VoicedRegions(heard)) = Cardinality(Starts(heard))
         /\ \A k \in DOMAIN StartOf(heard) : /\ VoicedRegions(heard)[k].start = StartOf(heard)[k] - 1
                                            /\ VoicedRegions(heard)[k].end = EndOf(heard)[k]
<1> DEFINE o == StartOf(heard)
           R == [k \in DOMAIN o |-> [start |-> o[k] - 1, end |-> RegionEnd(heard, o[k])]]
<1>1. VoicedRegions(heard) = R BY DEF VoicedRegions, StartOf
<1>2. Cardinality(Starts(heard)) \in Nat /\ DOMAIN o = 1 .. Cardinality(Starts(heard)) BY StartsAre
<1>3. EndOf(heard) = [k \in DOMAIN o |-> RegionEnd(heard, o[k])] BY DEF EndOf
<1>4. R \in Seq({R[k] : k \in DOMAIN R}) /\ Len(R) = Cardinality(Starts(heard)) BY <1>2
<1> QED BY <1>1, <1>3, <1>4

\* Regions lie apart: each but the last ends with a silent window.
LEMMA RegionsApart ==
  ASSUME NEW heard \in Seq(BOOLEAN), NEW k \in DOMAIN StartOf(heard)
  PROVE  /\ StartOf(heard)[k] \in 1 .. Len(heard)
         /\ EndOf(heard)[k] \in StartOf(heard)[k] .. Len(heard)
         /\ \A j \in StartOf(heard)[k] .. EndOf(heard)[k] - 1 : heard[j]
         /\ heard[StartOf(heard)[k]]
         /\ heard[EndOf(heard)[k]] => EndOf(heard)[k] = Len(heard)
         /\ \A l \in DOMAIN StartOf(heard) :
              k < l => EndOf(heard)[k] < StartOf(heard)[l] /\ ~heard[EndOf(heard)[k]]
<1> DEFINE i == StartOf(heard)[k]
           e == EndOf(heard)[k]
<1>1. i \in Starts(heard) BY StartsAre
<1>2. e = RegionEnd(heard, i) BY DEF EndOf
<1> HIDE DEF i, e
<1>3. /\ i \in 1 .. Len(heard) /\ heard[i]
      /\ e \in i .. Len(heard)
      /\ \A j \in i .. e - 1 : heard[j]
      /\ heard[e] => e = Len(heard)
  BY <1>1, <1>2, RegionEndIs
<1>4. ASSUME NEW l \in DOMAIN StartOf(heard), k < l
      PROVE  e < StartOf(heard)[l] /\ ~heard[e]
  <2> DEFINE j == StartOf(heard)[l]
  <2>1. i < j BY <1>4, StartsAre DEF i
  <2>2. j \in Starts(heard) BY StartsAre
  <2> HIDE DEF j
  <2>3. j \in 1 .. Len(heard) /\ (j = 1 \/ ~heard[j - 1]) BY <2>2 DEF Starts
  <2>4. ~heard[j - 1] /\ j - 1 >= i BY <1>3, <2>1, <2>3
  <2>5. e < j BY <1>3, <2>3, <2>4
  <2>6. e # Len(heard) BY <1>3, <2>3, <2>5
  <2> QED BY <1>3, <2>5, <2>6 DEF j
<1> QED BY <1>3, <1>4 DEF i, e

\* A voiced window is inside a region, or the last of the recording.
LEMMA InSomeRegion ==
  ASSUME NEW heard \in Seq(BOOLEAN), NEW m \in 1 .. Len(heard), heard[m]
  PROVE  \E k \in DOMAIN StartOf(heard) :
            /\ StartOf(heard)[k] <= m
            /\ m < EndOf(heard)[k] \/ (m = EndOf(heard)[k] /\ m = Len(heard))
            /\ \A j \in StartOf(heard)[k] .. m : heard[j]
<1>1. PICK i \in Starts(heard) : i <= m /\ \A j \in i .. m : heard[j] BY InARegion
<1>2. PICK k \in DOMAIN StartOf(heard) : StartOf(heard)[k] = i BY StartsAre
<1> DEFINE e == EndOf(heard)[k]
<1>3. /\ i \in 1 .. Len(heard)
      /\ e \in i .. Len(heard)
      /\ heard[e] => e = Len(heard)
  BY <1>2, RegionsApart
<1> HIDE DEF e
<1>4. m < e \/ (m = e /\ m = Len(heard)) BY <1>1, <1>3
<1> QED BY <1>1, <1>2, <1>4 DEF e

\* Rust's find_map returns the first region that does not end before the playback does: the
\* response is the first voiced window from then on.
LEMMA ResponseIsFound ==
  ASSUME NEW heard \in Seq(BOOLEAN), NEW txEnd \in Nat
  PROVE  FirstResponse(VoicedRegions(heard), txEnd) = ReferenceResponse(heard, txEnd)
<1> DEFINE n == Len(heard)
           D == DOMAIN StartOf(heard)
           o == StartOf(heard)
           e == EndOf(heard)
           late == {k \in D : e[k] > txEnd}
           lateWindows == {i \in DOMAIN heard : heard[i] /\ (i > txEnd \/ (i = txEnd /\ i < Len(heard)))}
<1>1. D \subseteq Nat /\ n \in Nat BY StartsAre
<1>2. \A k \in D : /\ o[k] \in 1 .. n /\ heard[o[k]] /\ e[k] \in o[k] .. n
                   /\ \A j \in o[k] .. e[k] - 1 : heard[j]
  BY RegionsApart
<1>3. FirstResponse(VoicedRegions(heard), txEnd) =
        IF late = {} THEN None ELSE Max({0, o[Min(late)] - 1 - txEnd})
  <2>1. late = {k \in DOMAIN VoicedRegions(heard) : VoicedRegions(heard)[k].end > txEnd} BY RegionsAre
  <2>2. late # {} => Min(late) \in D
    <3>1. late \in SUBSET Nat BY <1>1
    <3> QED BY <3>1, NatMin
  <2>3. late # {} => VoicedRegions(heard)[Min(late)].start = o[Min(late)] - 1 BY <2>2, RegionsAre
  <2> QED BY <2>1, <2>3 DEF FirstResponse
<1>4. ReferenceResponse(heard, txEnd) =
        IF lateWindows = {} THEN None ELSE Max({0, Min(lateWindows) - 1 - txEnd})
  BY DEF ReferenceResponse
<1>5. \A i \in lateWindows : i \in 1 .. n /\ heard[i] /\ (i > txEnd \/ (i = txEnd /\ i < n)) OBVIOUS
<1>6. \A i \in 1 .. n : heard[i] /\ (i > txEnd \/ (i = txEnd /\ i < n)) => i \in lateWindows OBVIOUS
<1>7. \A k \in late : k \in D /\ e[k] > txEnd OBVIOUS
<1>8. \A k \in D : e[k] > txEnd => k \in late OBVIOUS
<1>9. \A k, l \in D : k < l => o[k] < o[l] BY StartsAre
<1>10. \A m \in 1 .. n : heard[m] => \E k \in D : o[k] <= m /\ (m < e[k] \/ (m = e[k] /\ m = n))
  BY InSomeRegion
<1> HIDE DEF late, lateWindows, D, o, e, n
\* a late window is in a late region
<1>11. \A i \in lateWindows : \E k \in late : o[k] <= i
  <2> TAKE i \in lateWindows
  <2>1. i \in 1 .. n /\ heard[i] /\ (i > txEnd \/ (i = txEnd /\ i < n)) BY <1>5
  <2>2. PICK k \in D : o[k] <= i /\ (i < e[k] \/ (i = e[k] /\ i = n)) BY <1>10, <2>1
  <2>3. e[k] \in Nat /\ i \in Nat BY <1>1, <1>2, <2>1
  <2>4. e[k] > txEnd BY <1>1, <2>1, <2>2, <2>3
  <2> QED BY <1>8, <2>2, <2>4
\* and a late region begins with one, or lies over the end of the playback
<1>12. \A k \in late : o[k] \in lateWindows \/ (o[k] <= txEnd /\ txEnd \in lateWindows)
  <2> TAKE k \in late
  <2>1. k \in D /\ e[k] > txEnd BY <1>7
  <2>2. /\ o[k] \in 1 .. n /\ heard[o[k]] /\ e[k] \in o[k] .. n
        /\ \A j \in o[k] .. e[k] - 1 : heard[j]
    BY <1>2, <2>1
  <2>3. CASE o[k] > txEnd BY <1>6, <2>2, <2>3
  <2>4. CASE o[k] <= txEnd
    <3>1. txEnd \in o[k] .. e[k] - 1 /\ txEnd \in 1 .. n /\ txEnd < n BY <1>1, <2>1, <2>2, <2>4
    <3>2. heard[txEnd] BY <2>2, <3>1
    <3> QED BY <1>6, <2>4, <3>1, <3>2
  <2> QED BY <1>1, <2>2, <2>3, <2>4
<1>13. late = {} <=> lateWindows = {} BY <1>11, <1>12
<1>14. CASE late # {}
  <2>1. late \in SUBSET Nat /\ lateWindows \in SUBSET Nat
    <3>1. late \subseteq Nat BY <1>1, <1>7
    <3>2. lateWindows \subseteq 1 .. n BY <1>5
    <3>3. 1 .. n \subseteq Nat BY <1>1
    <3> QED BY <3>1, <3>2, <3>3
  <2>2. PICK k \in late : k = Min(late) /\ \A l \in late : k <= l BY <1>14, <2>1, NatMin
  <2>3. PICK m \in lateWindows : m = Min(lateWindows) /\ \A i \in lateWindows : m <= i
    BY <1>13, <1>14, <2>1, NatMin
  <2>4. k \in D /\ o[k] \in Nat /\ m \in Nat /\ m >= txEnd
    <3>1. k \in D BY <1>7
    <3>2. m \in 1 .. n /\ (m > txEnd \/ m = txEnd) BY <1>5
    <3> QED BY <1>1, <1>2, <3>1, <3>2
  <2>5. CASE o[k] \in lateWindows
    <3>1. m <= o[k] BY <2>3, <2>5
    <3>2. PICK l \in late : o[l] <= m BY <1>11
    <3>3. k <= l /\ l \in D /\ k \in Nat /\ l \in Nat BY <1>7, <2>1, <2>2
    <3>4. o[k] <= o[l] /\ o[l] \in Nat BY <1>2, <1>9, <2>4, <3>3
    <3>5. m = o[k] BY <2>4, <3>1, <3>2, <3>4
    <3> QED BY <1>3, <1>4, <1>13, <1>14, <2>2, <2>3, <3>5
  <2>6. CASE o[k] <= txEnd /\ txEnd \in lateWindows
    <3>1. m = txEnd BY <2>3, <2>4, <2>6
    <3>2. m - 1 - txEnd \in Int /\ ~(m - 1 - txEnd > 0) BY <2>4, <3>1
    <3>3. o[k] - 1 - txEnd \in Int /\ ~(o[k] - 1 - txEnd > 0) BY <2>4, <2>6
    <3>4. Max({0, m - 1 - txEnd}) = 0 /\ Max({0, o[k] - 1 - txEnd}) = 0 BY <3>2, <3>3, MaxZero
    <3> QED BY <1>3, <1>4, <1>13, <1>14, <2>2, <2>3, <3>4
  <2> QED BY <1>12, <2>5, <2>6
<1> QED BY <1>3, <1>4, <1>13, <1>14

\* What is between two regions is the silence between two voiced windows, less its first.
LEMMA GapsAre ==
  ASSUME NEW heard \in Seq(BOOLEAN)
  PROVE  /\ DOMAIN Gaps(VoicedRegions(heard)) =
              {k \in DOMAIN StartOf(heard) : k + 1 \in DOMAIN StartOf(heard)}
         /\ \A k \in DOMAIN Gaps(VoicedRegions(heard)) :
              /\ Gaps(VoicedRegions(heard))[k] = StartOf(heard)[k + 1] - 1 - EndOf(heard)[k]
              /\ Gaps(VoicedRegions(heard))[k] \in 0 .. Len(heard)
<1> DEFINE n == Cardinality(Starts(heard))
           D == DOMAIN StartOf(heard)
           o == StartOf(heard)
           e == EndOf(heard)
           regions == VoicedRegions(heard)
<1>1. n \in Nat /\ D = 1 .. n BY StartsAre
<1>2. Max({0, n - 1}) = IF n - 1 > 0 THEN n - 1 ELSE 0 BY <1>1, MaxZero
<1>3. Gaps(regions) = [k \in 1 .. Max({0, n - 1}) |-> Max({0, regions[k + 1].start - regions[k].end})]
  BY RegionsAre DEF Gaps
<1>4. /\ \A k \in D : regions[k].start = o[k] - 1 /\ regions[k].end = e[k] BY RegionsAre
<1>5. \A k \in D : o[k] \in 1 .. Len(heard) /\ e[k] \in o[k] .. Len(heard) BY RegionsApart
<1>6. \A k, l \in D : k < l => e[k] < o[l] BY RegionsApart
<1> HIDE DEF n, o, e, regions, D
<1>7. 1 .. Max({0, n - 1}) = {k \in D : k + 1 \in D} BY <1>1, <1>2
<1>8. ASSUME NEW k \in D, k + 1 \in D
      PROVE  /\ Max({0, regions[k + 1].start - regions[k].end}) = o[k + 1] - 1 - e[k]
             /\ o[k + 1] - 1 - e[k] \in 0 .. Len(heard)
  <2>1. k < k + 1 BY <1>1
  <2>2. e[k] < o[k + 1] BY <1>6, <1>8, <2>1
  <2>3. /\ o[k + 1] \in 1 .. Len(heard) /\ e[k] \in Nat BY <1>5, <1>8
  <2>4. o[k + 1] - 1 - e[k] \in 0 .. Len(heard) BY <2>2, <2>3
  <2>5. Max({0, o[k + 1] - 1 - e[k]}) = o[k + 1] - 1 - e[k]
    <3> DEFINE x == o[k + 1] - 1 - e[k]
    <3>1. x \in Int /\ x >= 0 BY <2>4
    <3> HIDE DEF x
    <3>2. Max({0, x}) = x BY <3>1, MaxZero
    <3> QED BY <3>2 DEF x
  <2> QED BY <1>4, <1>8, <2>4, <2>5
<1> QED BY <1>3, <1>7, <1>8 DEF D, o, e, regions

\* The pairs of voiced windows with nothing but silence between them.
Silences(heard) ==
  {p \in (DOMAIN heard) \X (DOMAIN heard) :
     p[1] < p[2] /\ \A k \in p[1] .. p[2] : heard[k] <=> k \in {p[1], p[2]}}

\* A gap lies in a silence between two voiced windows,
LEMMA GapIsSilence ==
  ASSUME NEW heard \in Seq(BOOLEAN), NEW k \in DOMAIN StartOf(heard), k + 1 \in DOMAIN StartOf(heard)
  PROVE  <<EndOf(heard)[k] - 1, StartOf(heard)[k + 1]>> \in Silences(heard)
<1> DEFINE D == DOMAIN StartOf(heard)
           o == StartOf(heard)
           e == EndOf(heard)
           p == e[k] - 1
           q == o[k + 1]
<1>1. D \subseteq Nat /\ k < k + 1 BY StartsAre
<1>2. /\ o[k] \in 1 .. Len(heard) /\ e[k] \in o[k] .. Len(heard)
      /\ \A j \in o[k] .. e[k] - 1 : heard[j]
      /\ heard[o[k]] /\ ~heard[e[k]] /\ e[k] < q
  BY <1>1, RegionsApart
<1>3. q \in 1 .. Len(heard) /\ heard[q] BY RegionsApart
<1>4. \A m \in 1 .. Len(heard) : heard[m] =>
        \E l \in D : o[l] <= m /\ \A j \in o[l] .. m : heard[j]
  BY InSomeRegion
<1>5. \A l, m \in D : l < m => o[l] < o[m] BY StartsAre
<1>6. \A l \in D : o[l] \in Nat BY RegionsApart
<1> HIDE DEF D, o, e
<1>7. p \in 1 .. Len(heard) /\ heard[p] /\ p < q
  <2>1. o[k] # e[k] BY <1>2
  <2>2. p \in o[k] .. e[k] - 1 BY <1>2, <2>1
  <2> QED BY <1>2, <1>3, <2>2
<1>8. ASSUME NEW m \in p .. q, heard[m], m # p, m # q PROVE FALSE
  <2>1. m \in e[k] .. q - 1 /\ m \in 1 .. Len(heard) BY <1>2, <1>3, <1>7, <1>8
  <2>2. PICK l \in D : o[l] <= m /\ \A j \in o[l] .. m : heard[j] BY <1>4, <1>8, <2>1
  <2>3. l \in Nat /\ k \in Nat BY <1>1 DEF D
  <2>4. CASE l <= k
    <3>1. o[l] <= o[k] BY <1>5, <1>6, <2>3, <2>4 DEF D
    <3>2. e[k] \in o[l] .. m BY <1>2, <1>6, <2>1, <3>1
    <3> QED BY <1>2, <2>2, <3>2
  <2>5. CASE l > k
    <3>1. k + 1 <= l /\ k + 1 \in D BY <2>3, <2>5 DEF D
    <3>2. q <= o[l] BY <1>5, <1>6, <2>3, <3>1
    <3> QED BY <1>3, <1>6, <2>1, <2>2, <3>2
  <2> QED BY <2>3, <2>4, <2>5
<1> HIDE DEF p, q
<1>9. \A m \in p .. q : heard[m] <=> m \in {p, q} BY <1>3, <1>7, <1>8
<1> QED BY <1>3, <1>7, <1>9 DEF Silences, p, q, o, e

\* and a silence of more than nothing holds a gap.
LEMMA SilenceIsGap ==
  ASSUME NEW heard \in Seq(BOOLEAN), NEW p \in DOMAIN heard, NEW q \in DOMAIN heard,
         <<p, q>> \in Silences(heard), q > p + 1
  PROVE  \E k \in DOMAIN StartOf(heard) :
            /\ k + 1 \in DOMAIN StartOf(heard)
            /\ EndOf(heard)[k] = p + 1
            /\ StartOf(heard)[k + 1] = q
<1> DEFINE D == DOMAIN StartOf(heard)
           o == StartOf(heard)
           e == EndOf(heard)
<1>1. /\ p \in 1 .. Len(heard) /\ q \in 1 .. Len(heard) /\ p < q
      /\ \A k \in p .. q : heard[k] <=> k \in {p, q}
  BY DEF Silences
<1>2. heard[p] /\ heard[q] /\ ~heard[p + 1] /\ ~heard[q - 1] BY <1>1
<1>3. PICK k \in D : /\ o[k] <= p /\ (p < e[k] \/ (p = e[k] /\ p = Len(heard)))
                     /\ \A j \in o[k] .. p : heard[j]
  BY <1>1, <1>2, InSomeRegion
<1>4. /\ o[k] \in 1 .. Len(heard) /\ e[k] \in o[k] .. Len(heard)
      /\ \A j \in o[k] .. e[k] - 1 : heard[j]
      /\ \A l \in D : k < l => e[k] < o[l]
  BY RegionsApart
<1>5. q \in Starts(heard) BY <1>1, <1>2 DEF Starts
<1>6. PICK l \in D : o[l] = q BY <1>5, StartsAre
<1>7. \A i, j \in D : i < j => o[i] < o[j] BY StartsAre
<1>8. \A i \in D : o[i] \in 1 .. Len(heard) /\ heard[o[i]] BY RegionsApart
<1>9. PICK n \in Nat : D = 1 .. n BY StartsAre
<1> HIDE DEF D, o, e
<1>10. e[k] = p + 1
  <2>1. p < e[k] BY <1>1, <1>3
  <2>2. p + 1 \notin o[k] .. e[k] - 1 BY <1>2, <1>4
  <2> QED BY <1>1, <1>3, <1>4, <2>1, <2>2
<1>11. k < l
  <2>1. l \in Nat /\ k \in Nat BY <1>9
  <2>2. o[l] > o[k] BY <1>1, <1>3, <1>4, <1>6
  <2>3. l < k => o[l] < o[k] BY <1>7
  <2> QED BY <1>4, <1>6, <1>1, <2>1, <2>2, <2>3
<1>12. k + 1 \in D BY <1>9, <1>11
<1>13. l = k + 1
  <2> SUFFICES ASSUME l # k + 1 PROVE FALSE OBVIOUS
  <2>1. k + 1 < l /\ k < k + 1 BY <1>9, <1>11
  <2>2. e[k] < o[k + 1] /\ o[k + 1] < q BY <1>4, <1>6, <1>7, <1>12, <2>1
  <2>3. o[k + 1] \in p .. q /\ o[k + 1] # p /\ o[k + 1] # q BY <1>1, <1>8, <1>10, <1>12, <2>2
  <2> QED BY <1>1, <1>8, <1>12, <2>3
<1> QED BY <1>6, <1>10, <1>12, <1>13 DEF D, o, e

\* The longest gap is therefore the longest silence.
LEMMA LongestGapIs ==
  ASSUME NEW heard \in Seq(BOOLEAN)
  PROVE  Max({0} \cup ToSet(Gaps(VoicedRegions(heard)))) = ReferenceGap(heard)
<1> DEFINE gaps == Gaps(VoicedRegions(heard))
           G == {0} \cup ToSet(gaps)
           H == {0} \cup {p[2] - p[1] - 2 : p \in Silences(heard)}
<1>1. ReferenceGap(heard) = Max(H) BY DEF ReferenceGap, Silences
<1>2. \A p \in Silences(heard) : /\ p[1] \in DOMAIN heard /\ p[2] \in DOMAIN heard
                                 /\ p = <<p[1], p[2]>>
  BY DEF Silences
<1>3. \A g \in G : g \in 0 .. Len(heard)
  <2>1. \A g \in G : g = 0 \/ \E k \in DOMAIN gaps : g = gaps[k] BY DEF ToSet
  <2>2. \A k \in DOMAIN gaps : gaps[k] \in 0 .. Len(heard) BY GapsAre
  <2> HIDE DEF G, gaps
  <2> QED BY <2>1, <2>2
<1>4. G \in SUBSET Nat /\ G # {} /\ Len(heard) \in Nat /\ \A g \in G : g <= Len(heard)
  <2>1. 0 .. Len(heard) \subseteq Nat /\ 0 \in G OBVIOUS
  <2> HIDE DEF G
  <2> QED BY <1>3, <2>1
<1>5. PICK top \in G : top = Max(G) /\ \A g \in G : g <= top BY <1>4, NatMax
<1>6. top \in H
  <2>1. CASE top = 0 BY <2>1
  <2>2. CASE top # 0
    <3>1. PICK k \in DOMAIN gaps : gaps[k] = top BY <2>2 DEF ToSet
    <3> DEFINE p == <<EndOf(heard)[k] - 1, StartOf(heard)[k + 1]>>
    <3>2. /\ k \in DOMAIN StartOf(heard) /\ k + 1 \in DOMAIN StartOf(heard)
          /\ top = StartOf(heard)[k + 1] - 1 - EndOf(heard)[k]
      BY <3>1, GapsAre
    <3>3. p \in Silences(heard) BY <3>2, GapIsSilence
    <3>4. EndOf(heard)[k] \in Int /\ StartOf(heard)[k + 1] \in Int BY <3>2, RegionsApart
    <3>5. p[2] - p[1] - 2 = top BY <3>2, <3>4
    <3> HIDE DEF p
    <3> QED BY <3>3, <3>5
  <2> QED BY <2>1, <2>2
<1>7. \A h \in H : h \in Int /\ h <= top
  <2> SUFFICES ASSUME NEW p \in Silences(heard) PROVE p[2] - p[1] - 2 \in Int /\ p[2] - p[1] - 2 <= top
    <3>1. 0 \in G /\ 0 <= top BY <1>5
    <3> QED BY <3>1
  <2>1. p[1] \in DOMAIN heard /\ p[2] \in DOMAIN heard /\ p[1] \in Nat /\ p[2] \in Nat BY <1>2
  <2>2. p[2] - p[1] - 2 \in Int BY <2>1
  <2>3. CASE p[2] > p[1] + 1
    <3>1. PICK k \in DOMAIN StartOf(heard) : /\ k + 1 \in DOMAIN StartOf(heard)
                                             /\ EndOf(heard)[k] = p[1] + 1
                                             /\ StartOf(heard)[k + 1] = p[2]
      BY <1>2, <2>1, <2>3, SilenceIsGap
    <3>2. k \in DOMAIN gaps /\ gaps[k] = p[2] - 1 - (p[1] + 1) BY <3>1, GapsAre
    <3>3. gaps[k] \in G BY <3>2 DEF ToSet
    <3>4. gaps[k] = p[2] - p[1] - 2 BY <2>1, <3>2
    <3> QED BY <1>5, <2>2, <3>3, <3>4
  <2>4. CASE ~(p[2] > p[1] + 1)
    <3>1. top \in Nat BY <1>4
    <3>2. p[2] - p[1] - 2 <= 0 BY <2>1, <2>4
    <3> QED BY <2>2, <3>1, <3>2
  <2> QED BY <2>3, <2>4
<1>8. Max(H) = top
  <2> HIDE DEF H, G
  <2>1. H \in SUBSET Int /\ \A h \in H : top >= h
    <3>1. \A h \in H : top \in Int /\ top >= h BY <1>4, <1>5, <1>7
    <3> QED BY <1>7, <3>1
  <2> QED BY <1>6, <2>1, MaxLast
<1> QED BY <1>1, <1>5, <1>8

\* What the analysis of any recording says.
LEMMA AnalysisIs ==
  ASSUME NEW heard \in Seq(BOOLEAN), NEW txEnd \in Nat
  PROVE  /\ Analysis(heard, txEnd).firstResponse = ReferenceResponse(heard, txEnd)
         /\ \/ Analysis(heard, txEnd).firstResponse = None
            \/ Analysis(heard, txEnd).firstResponse \in Nat
         /\ Analysis(heard, txEnd).longestGap = ReferenceGap(heard)
         /\ Analysis(heard, txEnd).longestGap \in Nat
         /\ Analysis(heard, txEnd).stutters \in Nat
         /\ \A i \in DOMAIN Analysis(heard, txEnd).gaps :
              /\ Analysis(heard, txEnd).gaps[i] \in Nat
              /\ Analysis(heard, txEnd).gaps[i] <= Analysis(heard, txEnd).longestGap
<1> DEFINE regions == VoicedRegions(heard)
           gaps == Gaps(regions)
           G == {0} \cup ToSet(gaps)
           a == Analysis(heard, txEnd)
           short == {i \in DOMAIN gaps : gaps[i] > 0 /\ gaps[i] < StutterGap}
<1>1. /\ a.firstResponse = FirstResponse(regions, txEnd)
      /\ a.longestGap = Max(G)
      /\ a.stutters = Cardinality(short)
      /\ a.gaps = gaps
  BY DEF Analysis
<1> HIDE DEF a
<1>2. a.firstResponse = None \/ a.firstResponse \in Nat
  <2> DEFINE late == {i \in DOMAIN heard : heard[i] /\ (i > txEnd \/ (i = txEnd /\ i < Len(heard)))}
  <2>1. ReferenceResponse(heard, txEnd) = IF late = {} THEN None ELSE Max({0, Min(late) - 1 - txEnd})
    BY DEF ReferenceResponse
  <2>2. late \in SUBSET Nat OBVIOUS
  <2> HIDE DEF late
  <2>3. CASE late = {} BY <1>1, <2>1, <2>3, ResponseIsFound
  <2>4. CASE late # {}
    <3>1. Min(late) \in Nat BY <2>2, <2>4, NatMin
    <3> DEFINE x == Min(late) - 1 - txEnd
    <3>2. x \in Int BY <3>1
    <3> HIDE DEF x
    <3>3. Max({0, x}) \in Nat BY <3>2, MaxZero
    <3> QED BY <1>1, <2>1, <2>4, <3>3, ResponseIsFound DEF x
  <2> QED BY <2>3, <2>4
<1>3. a.longestGap = ReferenceGap(heard) BY <1>1, LongestGapIs
<1>4. \A i \in DOMAIN gaps : gaps[i] \in 0 .. Len(heard) BY GapsAre
<1>5. Max(G) \in Nat /\ \A i \in DOMAIN gaps : gaps[i] \in Nat /\ gaps[i] <= Max(G)
  <2>1. \A g \in G : g = 0 \/ \E k \in DOMAIN gaps : g = gaps[k] BY DEF ToSet
  <2>2. \A k \in DOMAIN gaps : gaps[k] \in G BY DEF ToSet
  <2>3. 0 \in G OBVIOUS
  <2> HIDE DEF G, gaps
  <2>4. \A g \in G : g \in Nat /\ g <= Len(heard) BY <1>4, <2>1
  <2>5. G \in SUBSET Nat /\ G # {} /\ Len(heard) \in Nat BY <2>3, <2>4
  <2>6. Max(G) \in G /\ \A g \in G : g <= Max(G) BY <2>4, <2>5, NatMax
  <2> QED BY <2>2, <2>4, <2>6
<1>6. Cardinality(short) \in Nat
  <2>1. DOMAIN gaps \subseteq DOMAIN StartOf(heard) BY GapsAre
  <2>2. DOMAIN StartOf(heard) = 1 .. Cardinality(Starts(heard)) /\ Cardinality(Starts(heard)) \in Nat
    BY StartsAre
  <2>3. IsFiniteSet(1 .. Cardinality(Starts(heard))) BY <2>2, FS_Interval
  <2>4. short \in SUBSET (1 .. Cardinality(Starts(heard))) BY <2>1, <2>2
  <2> HIDE DEF short
  <2> QED BY <2>3, <2>4, FS_Subset, FS_CardinalityType
<1> HIDE DEF regions, gaps, G, short
<1> QED BY <1>1, <1>2, <1>3, <1>5, <1>6, ResponseIsFound DEF a, regions

----
(* The report: what is made of all of them, report.rs *)

\* What is known of the result of a call, and of those of a campaign of n.
ResultIs(r) ==
  /\ \E i \in 1 .. 4 : r.outcome = Outcomes[i]
  /\ r.analysis # None =>
       /\ r.analysis.firstResponse = None \/ r.analysis.firstResponse \in Nat
       /\ r.analysis.longestGap \in Nat
       /\ r.analysis.stutters \in Nat
       /\ \A i \in DOMAIN r.analysis.gaps :
            r.analysis.gaps[i] \in Nat /\ r.analysis.gaps[i] <= r.analysis.longestGap

ResultsAre(calls, n) ==
  /\ n \in Nat
  /\ DOMAIN calls = 1 .. n /\ Len(calls) = n
  /\ \A c \in 1 .. n : ResultIs(calls[c])

LEMMA CallsAreFinite ==
  ASSUME NEW calls, NEW n, ResultsAre(calls, n)
  PROVE  /\ Answered(calls) \subseteq Analysed(calls) /\ Analysed(calls) \subseteq 1 .. n
         /\ IsFiniteSet(Analysed(calls)) /\ IsFiniteSet(Answered(calls)) /\ IsFiniteSet(1 .. n)
         /\ Cardinality(1 .. n) = n
<1>1. IsFiniteSet(1 .. n) /\ Cardinality(1 .. n) = n BY FS_Interval DEF ResultsAre
<1>2. Answered(calls) \subseteq Analysed(calls) /\ Analysed(calls) \subseteq 1 .. n
  BY DEF Answered, Analysed, ResultsAre
<1>3. IsFiniteSet(Analysed(calls)) BY <1>1, <1>2, FS_Subset
<1>4. IsFiniteSet(Answered(calls)) BY <1>2, <1>3, FS_Subset
<1> QED BY <1>1, <1>2, <1>3, <1>4

\* The responses are in order.
LEMMA ResponsesSorted ==
  ASSUME NEW calls, NEW n, ResultsAre(calls, n)
  PROVE  /\ FirstResponses(calls) \in Seq(Nat) /\ Len(FirstResponses(calls)) \in Nat
         /\ DOMAIN FirstResponses(calls) = 1 .. Len(FirstResponses(calls))
         /\ \A i \in DOMAIN FirstResponses(calls) : FirstResponses(calls)[i] \in Nat
         /\ \A i, j \in DOMAIN FirstResponses(calls) :
              i <= j => FirstResponses(calls)[i] <= FirstResponses(calls)[j]
<1> DEFINE S == Answered(calls)
           Response(c) == calls[c].analysis.firstResponse
           Sooner(c, d) == Response(c) < Response(d) \/ (Response(c) = Response(d) /\ c < d)
           R == {p \in S \X S : Response(p[1]) < Response(p[2])
                                \/ (Response(p[1]) = Response(p[2]) /\ p[1] < p[2])}
           order == InOrder(S, R)
<1>1. \A c \in S : c \in Nat /\ Response(c) \in Nat
  <2>1. \A c \in S : c \in 1 .. n /\ calls[c].analysis # None /\ Response(c) # None
    BY DEF Answered, Analysed, ResultsAre
  <2> QED BY <2>1 DEF ResultsAre, ResultIs
<1>2. \A c, d \in S : <<c, d>> \in R <=> Sooner(c, d) OBVIOUS
<1>3. IsFiniteSet(S) BY CallsAreFinite
<1> HIDE DEF S, R
<1>4. /\ \A x \in S : <<x, x>> \notin R
      /\ \A x, y \in S : x # y => <<x, y>> \in R \/ <<y, x>> \in R
      /\ \A x, y, z \in S : <<x, y>> \in R /\ <<y, z>> \in R => <<x, z>> \in R
  <2> HIDE DEF Response
  <2> QED BY <1>1, <1>2
<1>5. /\ Cardinality(S) \in Nat /\ order \in [1 .. Cardinality(S) -> S]
      /\ \A i, j \in 1 .. Cardinality(S) : i < j => <<order[i], order[j]>> \in R
  BY <1>3, <1>4, Sorted
<1>6. FirstResponses(calls) = [k \in DOMAIN order |-> Response(order[k])]
  BY DEF FirstResponses, S, R
<1> HIDE DEF order
<1>7. \A i, j \in DOMAIN order : i < j => Sooner(order[i], order[j]) BY <1>2, <1>5
<1>8. \A k \in DOMAIN order : Response(order[k]) \in Nat BY <1>1, <1>5
<1>9. \A i, j \in DOMAIN order : i <= j => Response(order[i]) <= Response(order[j])
  <2> SUFFICES ASSUME NEW i \in DOMAIN order, NEW j \in DOMAIN order, i <= j
               PROVE  Response(order[i]) <= Response(order[j])
    OBVIOUS
  <2>1. i \in Nat /\ j \in Nat BY <1>5
  <2>2. i = j \/ Sooner(order[i], order[j]) BY <1>7, <2>1
  <2>3. Response(order[i]) \in Nat /\ Response(order[j]) \in Nat BY <1>8
  <2> HIDE DEF Response
  <2> QED BY <2>2, <2>3
<1> HIDE DEF Response
<1>10. FirstResponses(calls) \in Seq(Nat) /\ Len(FirstResponses(calls)) = Cardinality(S)
  BY <1>5, <1>6, <1>8
<1>11. DOMAIN FirstResponses(calls) = DOMAIN order BY <1>6
<1> QED BY <1>5, <1>6, <1>8, <1>9, <1>10, <1>11

\* The one in the middle has half of them on either side, itself included.
LEMMA MedianIs ==
  ASSUME NEW calls, NEW n, ResultsAre(calls, n), FirstResponses(calls) # <<>>
  PROVE  LET responses == FirstResponses(calls)
             p50 == Percentile(responses, 50)
         IN /\ 2 * Cardinality({i \in DOMAIN responses : responses[i] <= p50}) >= Len(responses)
            /\ 2 * Cardinality({i \in DOMAIN responses : responses[i] >= p50}) >= Len(responses)
<1> DEFINE responses == FirstResponses(calls)
           m == Len(responses)
           k == ((m - 1) * 50) \div 100 + 1
           p50 == Percentile(responses, 50)
           below == {i \in DOMAIN responses : responses[i] <= p50}
           above == {i \in DOMAIN responses : responses[i] >= p50}
<1>1. /\ responses \in Seq(Nat) /\ m \in Nat /\ DOMAIN responses = 1 .. m
      /\ \A i \in DOMAIN responses : responses[i] \in Nat
      /\ \A i, j \in DOMAIN responses : i <= j => responses[i] <= responses[j]
  BY ResponsesSorted
<1>2. p50 = responses[k] BY DEF Percentile
<1>3. responses # <<>> OBVIOUS
<1> HIDE DEF responses, p50
<1>4. m # 0 BY <1>1, <1>3
<1>5. k \in 1 .. m /\ 2 * k >= m /\ 2 * (m - k + 1) >= m
  <2> HIDE DEF m
  <2> QED BY <1>1, <1>4
<1> HIDE DEF k, m
<1>6. 1 .. k \subseteq below /\ k .. m \subseteq above BY <1>1, <1>2, <1>5
<1>7. below \subseteq 1 .. m /\ above \subseteq 1 .. m BY <1>1
<1> HIDE DEF below, above
<1>8. IsFiniteSet(1 .. m) /\ Cardinality(1 .. k) = k /\ Cardinality(k .. m) = m - k + 1
  BY <1>1, <1>5, FS_Interval
<1>9. IsFiniteSet(below) /\ IsFiniteSet(above) BY <1>7, <1>8, FS_Subset
<1>10. /\ Cardinality(below) >= k /\ Cardinality(below) \in Nat
       /\ Cardinality(above) >= m - k + 1 /\ Cardinality(above) \in Nat
  <2>1. Cardinality(1 .. k) <= Cardinality(below) BY <1>6, <1>9, FS_Subset
  <2>2. Cardinality(k .. m) <= Cardinality(above) BY <1>6, <1>9, FS_Subset
  <2> QED BY <1>8, <1>9, <2>1, <2>2, FS_CardinalityType
<1>11. 2 * Cardinality(below) >= m /\ 2 * Cardinality(above) >= m BY <1>1, <1>5, <1>10
<1> QED BY <1>11 DEF below, above, m, responses, p50

\* What has a number, or one of some.
InBin(S, f, b) == {x \in S : f[x] = b}
InBins(S, f, a, b) == {x \in S : f[x] \in a .. b}

\* Bins are counted one after the other.
LEMMA SplitOff ==
  ASSUME NEW S, IsFiniteSet(S), NEW f, NEW a \in Int, NEW b \in Int, a <= b
  PROVE  Cardinality(InBins(S, f, a, b)) = Cardinality(InBin(S, f, a)) + Cardinality(InBins(S, f, a + 1, b))
<1> DEFINE all == InBins(S, f, a, b)
           first == InBin(S, f, a)
           rest == InBins(S, f, a + 1, b)
<1>1. a \in a .. b /\ a \notin a + 1 .. b /\ \A v : v \in a .. b <=> (v = a \/ v \in a + 1 .. b) OBVIOUS
<1>2. all = first \cup rest /\ first \cap rest = {} BY <1>1 DEF InBin, InBins
<1>3. IsFiniteSet(first) /\ IsFiniteSet(rest) BY FS_Subset DEF InBin, InBins
<1>4. Cardinality(first) \in Nat /\ Cardinality(rest) \in Nat BY <1>3, FS_CardinalityType
<1>5. Cardinality(first \cap rest) = 0 BY <1>2, FS_EmptySet
<1> HIDE DEF all, first, rest
<1>6. Cardinality(first \cup rest) = Cardinality(first) + Cardinality(rest) - 0
  BY <1>3, <1>5, FS_Union
<1>7. Cardinality(all) = Cardinality(first) + Cardinality(rest) BY <1>2, <1>4, <1>6
<1> QED BY <1>7 DEF all, first, rest

LEMMA LastBin ==
  ASSUME NEW S, NEW f, NEW a \in Int
  PROVE  InBins(S, f, a, a) = InBin(S, f, a)
<1>1. \A v : v \in a .. a <=> v = a OBVIOUS
<1> QED BY <1>1 DEF InBin, InBins

LEMMA FiveBins ==
  ASSUME NEW S, IsFiniteSet(S), NEW f, \A x \in S : f[x] \in 0 .. 4, NEW bins,
         \A b \in 0 .. 4 : bins[b] = Cardinality(InBin(S, f, b))
  PROVE  bins[0] + bins[1] + bins[2] + bins[3] + bins[4] = Cardinality(S)
<1> DEFINE In(b) == Cardinality(InBin(S, f, b))
           From(b) == Cardinality(InBins(S, f, b, 4))
<1>1. \A b \in 0 .. 4 : In(b) \in Nat BY FS_Subset, FS_CardinalityType DEF InBin
<1>2. From(4) = In(4) BY LastBin
<1>3. From(3) = In(3) + From(4) /\ From(2) = In(2) + From(3) /\ From(1) = In(1) + From(2)
      /\ From(0) = In(0) + From(1)
  <2>1. ASSUME NEW b \in 0 .. 3 PROVE From(b) = In(b) + From(b + 1)
    <3>1. b \in Int /\ b <= 4 OBVIOUS
    <3> QED BY <3>1, SplitOff
  <2>2. \A b \in 0 .. 3 : From(b) = In(b) + From(b + 1) BY <2>1
  <2> HIDE DEF From, In
  <2>3. From(3) = In(3) + From(3 + 1) /\ From(2) = In(2) + From(2 + 1)
        /\ From(1) = In(1) + From(1 + 1) /\ From(0) = In(0) + From(0 + 1)
    BY <2>2
  <2> QED BY <2>3
<1>4. InBins(S, f, 0, 4) = S BY DEF InBins
<1>5. From(0) = Cardinality(S) BY <1>4
<1>6. bins[0] = In(0) /\ bins[1] = In(1) /\ bins[2] = In(2) /\ bins[3] = In(3) /\ bins[4] = In(4)
  OBVIOUS
<1> HIDE DEF From, In
<1> QED BY <1>1, <1>2, <1>3, <1>5, <1>6

LEMMA SevenBins ==
  ASSUME NEW S, IsFiniteSet(S), NEW f, \A x \in S : f[x] \in 0 .. 6, NEW bins,
         \A b \in 0 .. 6 : bins[b] = Cardinality(InBin(S, f, b))
  PROVE  bins[0] + bins[1] + bins[2] + bins[3] + bins[4] + bins[5] + bins[6] = Cardinality(S)
<1> DEFINE In(b) == Cardinality(InBin(S, f, b))
           From(b) == Cardinality(InBins(S, f, b, 6))
<1>1. \A b \in 0 .. 6 : In(b) \in Nat BY FS_Subset, FS_CardinalityType DEF InBin
<1>2. From(6) = In(6) BY LastBin
<1>3. From(5) = In(5) + From(6) /\ From(4) = In(4) + From(5) /\ From(3) = In(3) + From(4)
      /\ From(2) = In(2) + From(3) /\ From(1) = In(1) + From(2) /\ From(0) = In(0) + From(1)
  <2>1. ASSUME NEW b \in 0 .. 5 PROVE From(b) = In(b) + From(b + 1)
    <3>1. b \in Int /\ b <= 6 OBVIOUS
    <3> QED BY <3>1, SplitOff
  <2>2. \A b \in 0 .. 5 : From(b) = In(b) + From(b + 1) BY <2>1
  <2> HIDE DEF From, In
  <2>3. From(5) = In(5) + From(5 + 1) /\ From(4) = In(4) + From(4 + 1)
        /\ From(3) = In(3) + From(3 + 1) /\ From(2) = In(2) + From(2 + 1)
        /\ From(1) = In(1) + From(1 + 1) /\ From(0) = In(0) + From(0 + 1)
    BY <2>2
  <2> QED BY <2>3
<1>4. InBins(S, f, 0, 6) = S BY DEF InBins
<1>5. From(0) = Cardinality(S) BY <1>4
<1>6. bins[0] = In(0) /\ bins[1] = In(1) /\ bins[2] = In(2) /\ bins[3] = In(3) /\ bins[4] = In(4)
      /\ bins[5] = In(5) /\ bins[6] = In(6)
  OBVIOUS
<1> HIDE DEF From, In
<1> QED BY <1>1, <1>2, <1>3, <1>5, <1>6

\* A time is beyond as many edges as there may be.
LEMMA BinIs ==
  ASSUME NEW time, NEW m \in Nat, NEW edges \in Seq(Nat), Len(edges) = m
  PROVE  Cardinality({e \in DOMAIN edges : time * WindowMs > edges[e]}) \in 0 .. m
<1> DEFINE passed == {e \in DOMAIN edges : time * WindowMs > edges[e]}
<1>1. passed \in SUBSET (1 .. m) OBVIOUS
<1>2. IsFiniteSet(1 .. m) /\ Cardinality(1 .. m) = m BY FS_Interval
<1> HIDE DEF passed
<1>3. IsFiniteSet(passed) /\ Cardinality(passed) <= m BY <1>1, <1>2, FS_Subset
<1>4. Cardinality(passed) \in Nat BY <1>3, FS_CardinalityType
<1>5. Cardinality(passed) \in 0 .. m BY <1>3, <1>4
<1> QED BY <1>5 DEF passed

\* Each call is in a bin of responses, or without one.
LEMMA ResponsesBinned ==
  ASSUME NEW calls, NEW n, ResultsAre(calls, n)
  PROVE  LET bins == FirstResponseBins(calls).answered
         IN bins[0] + bins[1] + bins[2] + bins[3] + bins[4] + FirstResponseBins(calls).unanswered = n
<1> DEFINE S == Answered(calls)
           edges == <<250, 500, 1000, 2000>>
           Time(c) == calls[c].analysis.firstResponse
           f == [c \in S |-> Cardinality({e \in DOMAIN edges : Time(c) * WindowMs > edges[e]})]
           bins == FirstResponseBins(calls).answered
<1>1. IsFiniteSet(S) BY CallsAreFinite
<1>2. edges \in Seq(Nat) /\ Len(edges) = 4 OBVIOUS
<1>3. bins = [b \in 0 .. Len(edges) |->
                Cardinality({c \in S : Cardinality({e \in DOMAIN edges : Time(c) * WindowMs > edges[e]}) = b})]
  <2> DEFINE time == [c \in S |-> Time(c)]
  <2>1. bins = Binned(time, edges) BY DEF FirstResponseBins
  <2>2. \A b : {c \in S : Cardinality({e \in DOMAIN edges : time[c] * WindowMs > edges[e]}) = b}
               = {c \in S : Cardinality({e \in DOMAIN edges : Time(c) * WindowMs > edges[e]}) = b}
    <3> HIDE DEF S, edges, Time
    <3> QED OBVIOUS
  <2>3. DOMAIN time = S OBVIOUS
  <2> HIDE DEF S, edges, Time, time, bins
  <2> QED BY <2>1, <2>2, <2>3 DEF Binned
<1>4. FirstResponseBins(calls).unanswered = n - Cardinality(S) BY DEF FirstResponseBins, ResultsAre
<1> HIDE DEF S, edges, bins, Time
<1>5. \A c \in S : f[c] \in 0 .. 4 BY <1>2, BinIs
<1>6. \A b \in 0 .. 4 : bins[b] = Cardinality(InBin(S, f, b))
  <2> TAKE b \in 0 .. 4
  <2>1. {c \in S : Cardinality({e \in DOMAIN edges : Time(c) * WindowMs > edges[e]}) = b} = InBin(S, f, b)
    BY DEF InBin
  <2> HIDE DEF f
  <2> QED BY <1>2, <1>3, <2>1
<1> HIDE DEF f
<1>7. bins[0] + bins[1] + bins[2] + bins[3] + bins[4] = Cardinality(S) BY <1>1, <1>5, <1>6, FiveBins
<1>8. Cardinality(S) \in Nat /\ n \in Nat BY <1>1, FS_CardinalityType DEF ResultsAre
<1>9. bins[0] + bins[1] + bins[2] + bins[3] + bins[4] + FirstResponseBins(calls).unanswered = n
  BY <1>4, <1>7, <1>8
<1> QED BY <1>9 DEF bins

\* A call without a gap adds none to the histogram of all.
LEMMA GapsBinned ==
  ASSUME NEW calls, NEW n, ResultsAre(calls, n)
  PROVE  LET bins == LongestGapBins(calls)
         IN /\ bins[0] + bins[1] + bins[2] + bins[3] + bins[4] + bins[5] + bins[6] = Cardinality(Analysed(calls))
            /\ bins[0] = Cardinality(Analysed(calls)) => \A b \in 0 .. 5 : AllGapBins(calls)[b] = 0
<1> DEFINE S == Analysed(calls)
           edges == <<0, 250, 500, 1000, 2000, 5000>>
           Time(c) == calls[c].analysis.longestGap
           Passed(c) == {e \in DOMAIN edges : Time(c) * WindowMs > edges[e]}
           f == [c \in S |-> Cardinality(Passed(c))]
           bins == LongestGapBins(calls)
<1>1. IsFiniteSet(S) BY CallsAreFinite
<1>2. edges \in Seq(Nat) /\ Len(edges) = 6 /\ 1 \in DOMAIN edges /\ edges[1] = 0 OBVIOUS
<1>3. bins = [b \in 0 .. Len(edges) |->
                Cardinality({c \in S : Cardinality({e \in DOMAIN edges : Time(c) * WindowMs > edges[e]}) = b})]
  <2> DEFINE time == [c \in S |-> Time(c)]
  <2>1. bins = Binned(time, edges) BY DEF LongestGapBins
  <2>2. \A b : {c \in S : Cardinality({e \in DOMAIN edges : time[c] * WindowMs > edges[e]}) = b}
               = {c \in S : Cardinality({e \in DOMAIN edges : Time(c) * WindowMs > edges[e]}) = b}
    <3> HIDE DEF S, edges, Time
    <3> QED OBVIOUS
  <2>3. DOMAIN time = S OBVIOUS
  <2> HIDE DEF S, edges, Time, time, bins
  <2> QED BY <2>1, <2>2, <2>3 DEF Binned
<1>4. \A c \in S : c \in 1 .. n /\ calls[c].analysis # None BY DEF Analysed, ResultsAre
<1>5. \A c \in S : Time(c) \in Nat BY <1>4 DEF ResultsAre, ResultIs
<1> HIDE DEF S, edges, bins, Time
<1>6. \A c \in S : f[c] \in 0 .. 6 BY <1>2, BinIs
<1>7. \A b \in 0 .. 6 : bins[b] = Cardinality(InBin(S, f, b))
  <2> TAKE b \in 0 .. 6
  <2>1. {c \in S : Cardinality({e \in DOMAIN edges : Time(c) * WindowMs > edges[e]}) = b} = InBin(S, f, b)
    BY DEF InBin
  <2> HIDE DEF f
  <2> QED BY <1>2, <1>3, <2>1
<1>8. bins[0] + bins[1] + bins[2] + bins[3] + bins[4] + bins[5] + bins[6] = Cardinality(S)
  <2> HIDE DEF f
  <2> QED BY <1>1, <1>6, <1>7, SevenBins
<1>9. ASSUME bins[0] = Cardinality(S), NEW b \in 0 .. 5 PROVE AllGapBins(calls)[b] = 0
  <2>1. \A c \in S : f[c] = 0
    <3> HIDE DEF f
    <3>1. Cardinality(InBin(S, f, 0)) = Cardinality(S) /\ InBin(S, f, 0) \in SUBSET S
      BY <1>7, <1>9 DEF InBin
    <3>2. InBin(S, f, 0) = S BY <1>1, <3>1, FS_Subset
    <3> QED BY <3>2 DEF InBin
  <2>2. \A c \in S : Time(c) = 0
    <3> TAKE c \in S
    <3>1. Cardinality(Passed(c)) = 0 BY <2>1
    <3>2. IsFiniteSet(DOMAIN edges) BY <1>2, FS_Interval
    <3>3. IsFiniteSet(Passed(c)) BY <3>2, FS_Subset
    <3>4. Passed(c) = {} BY <3>1, <3>3, FS_EmptySet
    <3>5. ~(Time(c) * WindowMs > 0) BY <1>2, <3>4
    <3>6. Time(c) \in Nat /\ WindowMs \in Nat /\ WindowMs > 0 BY <1>5, AnalysisAssumption
    <3> DEFINE t == Time(c)
    <3> HIDE DEF t
    <3>7. t > 0 /\ t \in Nat => t * WindowMs > 0 BY <3>6
    <3> QED BY <3>5, <3>6, <3>7 DEF t
  <2>3. \A c \in S : {i \in DOMAIN calls[c].analysis.gaps : calls[c].analysis.gaps[i] > 0} = {}
    <3> SUFFICES ASSUME NEW c \in S, NEW i \in DOMAIN calls[c].analysis.gaps, calls[c].analysis.gaps[i] > 0
                 PROVE  FALSE
      OBVIOUS
    <3>1. calls[c].analysis.gaps[i] \in Nat /\ calls[c].analysis.gaps[i] <= 0
      BY <1>4, <2>2 DEF ResultsAre, ResultIs, Time
    <3> QED BY <3>1
  <2>4. AllGaps(calls) = {}
    <3> SUFFICES ASSUME NEW g \in AllGaps(calls) PROVE FALSE OBVIOUS
    <3>1. PICK c \in S : \E i \in {i \in DOMAIN calls[c].analysis.gaps : calls[c].analysis.gaps[i] > 0} : g = <<c, i>>
      BY DEF AllGaps, S
    <3> QED BY <2>3, <3>1
  <2> DEFINE gapEdges == <<250, 500, 1000, 2000, 5000>>
             time == [g \in AllGaps(calls) |-> calls[g[1]].analysis.gaps[g[2]]]
             Of(g) == Cardinality({e \in DOMAIN gapEdges : time[g] * WindowMs > gapEdges[e]})
  <2>5. AllGapBins(calls) = Binned(time, gapEdges) BY DEF AllGapBins
  <2>6. Len(gapEdges) = 5 /\ DOMAIN time = {} BY <2>4
  <2> HIDE DEF gapEdges, time
  <2>7. Binned(time, gapEdges) = [d \in 0 .. Len(gapEdges) |-> Cardinality({g \in DOMAIN time : Of(g) = d})]
    BY DEF Binned
  <2>8. {g \in DOMAIN time : Of(g) = b} = {} BY <2>6
  <2> HIDE DEF Of
  <2>9. AllGapBins(calls)[b] = Cardinality({}) BY <2>5, <2>6, <2>7, <2>8
  <2> QED BY <2>9, FS_EmptySet
<1> QED BY <1>8, <1>9 DEF S, bins

\* The order of reports: by five numbers, the first that differs decides.
Above(r, s) ==
  \/ r[1] > s[1]
  \/ r[1] = s[1] /\ r[2] > s[2]
  \/ r[1] = s[1] /\ r[2] = s[2] /\ r[3] > s[3]
  \/ r[1] = s[1] /\ r[2] = s[2] /\ r[3] = s[3] /\ r[4] > s[4]
  \/ r[1] = s[1] /\ r[2] = s[2] /\ r[3] = s[3] /\ r[4] = s[4] /\ r[5] > s[5]

Ranks == Int \X Int \X Int \X Int \X Int

\* Every result has a rank,
LEMMA RankIs == ASSUME NEW r, ResultIs(r) PROVE Rank(r) \in Ranks
<1> DEFINE outcome == CHOOSE i \in DOMAIN Outcomes : Outcomes[i] = r.outcome
           a == r.analysis
<1>1. outcome \in Int
  <2>1. \E i \in 1 .. 4 : Outcomes[i] = r.outcome BY DEF ResultIs
  <2>2. DOMAIN Outcomes = 1 .. 4 BY DEF Outcomes
  <2>3. outcome \in 1 .. 4 BY <2>1, <2>2
  <2> HIDE DEF outcome
  <2> QED BY <2>3
<1>2. Rank(r) = IF a = None THEN <<outcome, 1, 0, 0, 0>>
                ELSE IF a.firstResponse = None THEN <<outcome, 1, 0, a.longestGap, a.stutters>>
                ELSE <<outcome, 0, a.firstResponse, a.longestGap, a.stutters>>
  BY DEF Rank
<1>3. a # None => /\ a.firstResponse = None \/ a.firstResponse \in Nat
                  /\ a.longestGap \in Nat /\ a.stutters \in Nat
  BY DEF ResultIs
<1> HIDE DEF outcome, a
<1> QED BY <1>1, <1>2, <1>3 DEF Ranks

\* the order of ranks is the lexicographic one,
LEMMA OutranksIs == ASSUME NEW r \in Ranks, NEW s \in Ranks PROVE Outranks(r, s) <=> Above(r, s)
<1>1. DOMAIN r = 1 .. 5 BY DEF Ranks
<1>2. ASSUME Outranks(r, s) PROVE Above(r, s)
  <2>1. PICK i \in 1 .. 5 : r[i] > s[i] /\ \A j \in 1 .. i - 1 : r[j] = s[j]
    BY <1>1, <1>2 DEF Outranks
  <2>2. CASE i = 1 BY <2>1, <2>2 DEF Above
  <2>3. CASE i = 2 BY <2>1, <2>3 DEF Above
  <2>4. CASE i = 3 BY <2>1, <2>4 DEF Above
  <2>5. CASE i = 4 BY <2>1, <2>5 DEF Above
  <2>6. CASE i = 5 BY <2>1, <2>6 DEF Above
  <2> QED BY <2>2, <2>3, <2>4, <2>5, <2>6
<1>3. ASSUME Above(r, s) PROVE Outranks(r, s)
  <2>1. \A i \in 1 .. 5 : r[i] > s[i] /\ (\A j \in 1 .. i - 1 : r[j] = s[j]) => Outranks(r, s)
    BY <1>1 DEF Outranks
  <2>2. CASE r[1] > s[1]
    <3>1. \A j \in 1 .. 1 - 1 : r[j] = s[j] OBVIOUS
    <3> QED BY <2>1, <2>2, <3>1
  <2>3. CASE r[1] = s[1] /\ r[2] > s[2]
    <3>1. \A j \in 1 .. 2 - 1 : j = 1 OBVIOUS
    <3> QED BY <2>1, <2>3, <3>1
  <2>4. CASE r[1] = s[1] /\ r[2] = s[2] /\ r[3] > s[3]
    <3>1. \A j \in 1 .. 3 - 1 : j = 1 \/ j = 2 OBVIOUS
    <3> QED BY <2>1, <2>4, <3>1
  <2>5. CASE r[1] = s[1] /\ r[2] = s[2] /\ r[3] = s[3] /\ r[4] > s[4]
    <3>1. \A j \in 1 .. 4 - 1 : j = 1 \/ j = 2 \/ j = 3 OBVIOUS
    <3> QED BY <2>1, <2>5, <3>1
  <2>6. CASE r[1] = s[1] /\ r[2] = s[2] /\ r[3] = s[3] /\ r[4] = s[4] /\ r[5] > s[5]
    <3>1. \A j \in 1 .. 5 - 1 : j = 1 \/ j = 2 \/ j = 3 \/ j = 4 OBVIOUS
    <3> QED BY <2>1, <2>6, <3>1
  <2> QED BY <1>3, <2>2, <2>3, <2>4, <2>5, <2>6 DEF Above
<1> QED BY <1>2, <1>3

\* and any two of them can be compared.
LEMMA RanksAreOrdered ==
  /\ \A r \in Ranks : ~Above(r, r)
  /\ \A r, s \in Ranks : Above(r, s) => ~Above(s, r)
  /\ \A r, s \in Ranks : r = s \/ Above(r, s) \/ Above(s, r)
  /\ \A r, s, t \in Ranks : Above(r, s) /\ Above(s, t) => Above(r, t)
<1> USE DEF Above
<1>1. \A r \in Ranks : r[1] \in Int /\ r[2] \in Int /\ r[3] \in Int /\ r[4] \in Int /\ r[5] \in Int
  BY DEF Ranks
<1>2. \A r, s \in Ranks :
        r[1] = s[1] /\ r[2] = s[2] /\ r[3] = s[3] /\ r[4] = s[4] /\ r[5] = s[5] => r = s
  BY DEF Ranks
<1>3. \A r, s \in Ranks : Above(r, s) => ~Above(s, r) BY <1>1
<1>4. \A r, s \in Ranks : r = s \/ Above(r, s) \/ Above(s, r) BY <1>1, <1>2
<1>5. \A r, s, t \in Ranks : Above(r, s) /\ Above(s, t) => Above(r, t) BY <1>1
<1> QED BY <1>1, <1>3, <1>4, <1>5

\* The calls shown come from the worst to the best.
LEMMA WorstFirst ==
  ASSUME NEW calls, NEW n, ResultsAre(calls, n)
  PROVE  \A i, j \in DOMAIN InspectionCalls(calls) :
           i < j => ~Outranks(Rank(calls[InspectionCalls(calls)[j]]), Rank(calls[InspectionCalls(calls)[i]]))
<1> DEFINE S == DOMAIN calls
           RankOf(c) == Rank(calls[c])
           First(c, d) == Outranks(RankOf(c), RankOf(d)) \/ (RankOf(c) = RankOf(d) /\ c < d)
           R == {p \in S \X S : Outranks(RankOf(p[1]), RankOf(p[2]))
                                \/ (RankOf(p[1]) = RankOf(p[2]) /\ p[1] < p[2])}
           order == InOrder(S, R)
           m == Min({8, Len(calls)})
<1>1. S = 1 .. n /\ n \in Nat /\ Len(calls) = n BY DEF ResultsAre
<1>2. \A c \in S : RankOf(c) \in Ranks BY RankIs DEF ResultsAre
<1>3. \A c, d \in S : <<c, d>> \in R <=> First(c, d) OBVIOUS
<1>4. IsFiniteSet(S) BY <1>1, FS_Interval
<1> HIDE DEF S, R, RankOf
<1>5. \A c, d \in S : First(c, d) <=> Above(RankOf(c), RankOf(d)) \/ (RankOf(c) = RankOf(d) /\ c < d)
  BY <1>2, OutranksIs
<1> HIDE DEF First
<1>6. /\ \A x \in S : <<x, x>> \notin R
      /\ \A x, y \in S : x # y => <<x, y>> \in R \/ <<y, x>> \in R
      /\ \A x, y, z \in S : <<x, y>> \in R /\ <<y, z>> \in R => <<x, z>> \in R
  <2>1. \A x \in S : x \in Nat BY <1>1
  <2>2. \A x \in S : <<x, x>> \notin R BY <1>2, <1>3, <1>5, <2>1, RanksAreOrdered
  <2>3. \A x, y \in S : x # y => <<x, y>> \in R \/ <<y, x>> \in R
    <3> SUFFICES ASSUME NEW x \in S, NEW y \in S, x # y PROVE First(x, y) \/ First(y, x) BY <1>3
    <3>1. RankOf(x) = RankOf(y) \/ Above(RankOf(x), RankOf(y)) \/ Above(RankOf(y), RankOf(x))
      BY <1>2, RanksAreOrdered
    <3>2. x < y \/ y < x BY <2>1
    <3> QED BY <1>5, <3>1, <3>2
  <2>4. \A x, y, z \in S : <<x, y>> \in R /\ <<y, z>> \in R => <<x, z>> \in R
    <3> SUFFICES ASSUME NEW x \in S, NEW y \in S, NEW z \in S, First(x, y), First(y, z) PROVE First(x, z)
      BY <1>3
    <3>1. x < y /\ y < z => x < z BY <2>1
    <3>2. Above(RankOf(x), RankOf(y)) /\ Above(RankOf(y), RankOf(z)) => Above(RankOf(x), RankOf(z))
      BY <1>2, RanksAreOrdered
    <3> QED BY <1>5, <3>1, <3>2
  <2> QED BY <2>2, <2>3, <2>4
<1>7. Cardinality(S) = n BY <1>1, FS_Interval
<1>8. InspectionCalls(calls) = SubSeq(order, 1, m)
  BY DEF InspectionCalls, S, R, RankOf
<1>9. /\ order \in [1 .. n -> S]
       /\ \A i, j \in 1 .. n : i < j => <<order[i], order[j]>> \in R
  BY <1>4, <1>6, <1>7, Sorted
<1> HIDE DEF order
<1>10. m \in 0 .. n
  <2>1. CASE n <= 8
    <3>1. m = n
      <4>1. {8, n} \in SUBSET Int /\ \A b \in {8, n} : n <= b BY <1>1, <2>1
      <4> QED BY <1>1, <4>1, MinFirst
    <3> QED BY <1>1, <3>1
  <2>2. CASE n > 8
    <3>1. m = 8
      <4>1. {8, n} \in SUBSET Int /\ \A b \in {8, n} : 8 <= b BY <1>1, <2>2
      <4> QED BY <1>1, <4>1, MinFirst
    <3> QED BY <1>1, <2>2, <3>1
  <2> QED BY <1>1, <2>1, <2>2
<1> HIDE DEF m
<1>11. SubSeq(order, 1, m) = [i \in 1 .. m |-> order[i]]
  <2>1. order \in Seq(S) /\ Len(order) = n BY <1>1, <1>9
  <2> QED BY <1>1, <1>10, <2>1
<1> SUFFICES ASSUME NEW i \in 1 .. m, NEW j \in 1 .. m, i < j
             PROVE  ~Outranks(RankOf(order[j]), RankOf(order[i]))
  BY <1>8, <1>11 DEF RankOf
<1>12. i \in 1 .. n /\ j \in 1 .. n BY <1>1, <1>10
<1>13. order[i] \in S /\ order[j] \in S /\ First(order[i], order[j]) BY <1>3, <1>9, <1>12
<1>14. RankOf(order[i]) \in Ranks /\ RankOf(order[j]) \in Ranks BY <1>2, <1>13
<1>15. Above(RankOf(order[i]), RankOf(order[j])) \/ RankOf(order[i]) = RankOf(order[j])
  BY <1>5, <1>13
<1>16. ~Above(RankOf(order[j]), RankOf(order[i])) BY <1>14, <1>15, RanksAreOrdered
<1> QED BY <1>14, <1>16, OutranksIs

----
(* The report: the campaign *)

\* Every call that was started has a result, taken once.
CollectedInv ==
  /\ \A i, j \in DOMAIN raw : raw[i] = raw[j] => i = j
  /\ pc \in {"report", "summary", "done"} => Pending = {}

\* The results are those of the calls that were started, in order, and the report is
\* made of them; no call of the report is still to be heard of.
ResultsMade ==
  /\ results.txEnd \in 1 .. 2
  /\ results.heard \in [{c \in 1 .. index : at[c] = "heard"} -> Seq(BOOLEAN)]
  /\ results.calls = [c \in 1 .. index |->
                        CallResult(c, IF at[c] = "heard" THEN results.heard[c] ELSE <<>>, results.txEnd)]

ReportMade ==
  report = [summary |-> Summary(results.calls), responseBins |-> FirstResponseBins(results.calls),
            longestBins |-> LongestGapBins(results.calls), gapBins |-> AllGapBins(results.calls),
            inspected |-> InspectionCalls(results.calls)]

ReportInv ==
  /\ CollectedInv
  /\ pc \in {"summary", "done"} => ResultsMade
  /\ pc = "done" => ReportMade

\* Numbers that rise and leave none out are the first ones.
RisesTo(s, m, n) ==
  /\ s \in [1 .. m -> 1 .. n]
  /\ \A i, j \in 1 .. m : i < j => s[i] < s[j]
  /\ \A k \in 1 .. n : \E i \in 1 .. m : s[i] = k

LEMMA CountsUp ==
  ASSUME NEW m \in Nat, NEW n \in Nat, NEW s, RisesTo(s, m, n)
  PROVE  m = n /\ \A i \in 1 .. m : s[i] = i
<1> USE DEF RisesTo
<1> DEFINE wrong == {i \in 1 .. m : s[i] # i}
<1>1. wrong = {}
  <2> SUFFICES ASSUME wrong # {} PROVE FALSE OBVIOUS
  <2>1. wrong \in SUBSET Nat OBVIOUS
  <2>2. PICK i \in wrong : \A j \in wrong : i <= j BY <2>1, NatMin
  <2>3. i \in 1 .. m /\ s[i] # i /\ s[i] \in 1 .. n OBVIOUS
  <2>4. \A j \in 1 .. m : j < i => s[j] = j BY <2>2
  <2> HIDE DEF wrong
  <2>5. CASE s[i] < i
    <3>1. s[i] \in 1 .. m BY <2>3, <2>5
    <3>2. s[s[i]] = s[i] /\ s[s[i]] < s[i] BY <2>3, <2>4, <2>5, <3>1
    <3> QED BY <2>3, <3>2
  <2>6. CASE s[i] > i
    <3>1. i \in 1 .. n BY <2>3, <2>6
    <3>2. PICK j \in 1 .. m : s[j] = i BY <3>1
    <3>3. ~(j < i) BY <2>4, <3>2
    <3>4. j = i \/ i < j BY <2>3, <3>3
    <3>5. j = i \/ s[i] < s[j] BY <2>3, <3>4
    <3> QED BY <2>3, <2>6, <3>2, <3>5
  <2> QED BY <2>3, <2>5, <2>6
<1>2. \A i \in 1 .. m : s[i] = i BY <1>1
<1>3. ~(m < n)
  <2> SUFFICES ASSUME m < n PROVE FALSE OBVIOUS
  <2>1. n \in 1 .. n OBVIOUS
  <2>2. PICK i \in 1 .. m : s[i] = n BY <2>1
  <2> QED BY <1>2, <2>2
<1>4. ~(n < m)
  <2> SUFFICES ASSUME n < m PROVE FALSE OBVIOUS
  <2>1. m \in 1 .. m /\ s[m] \in 1 .. n /\ s[m] = m BY <1>2
  <2> QED BY <2>1
<1> QED BY <1>2, <1>3, <1>4

\* The order in which the results were collected is forgotten.
LEMMA SortedIs ==
  ASSUME ResultsInv, CollectedInv, ToSet(raw) = 1 .. index
  PROVE  LET order == InOrder(DOMAIN raw, ByCall)
         IN DOMAIN order = 1 .. index /\ \A i \in 1 .. index : raw[order[i]] = i
<1> DEFINE S == DOMAIN raw
           Earlier(i, j) == raw[i] < raw[j] \/ (raw[i] = raw[j] /\ i < j)
           order == InOrder(S, ByCall)
           m == Cardinality(S)
<1>1. raw \in Seq(Calls) /\ S = 1 .. Len(raw) /\ Len(raw) \in Nat /\ index \in Nat BY DEF ResultsInv
<1>2. \A i \in S : raw[i] \in Nat /\ i \in Nat
  <2> TAKE i \in S
  <2>1. i \in 1 .. Len(raw) /\ raw[i] \in Calls BY <1>1
  <2> QED BY <2>1 DEF Calls
<1>3. IsFiniteSet(S) BY <1>1, FS_Interval
<1>4. \A i, j \in S : <<i, j>> \in ByCall <=> Earlier(i, j) BY DEF ByCall
<1>5. \A i, j \in S : raw[i] = raw[j] => i = j BY DEF CollectedInv
<1> HIDE DEF S
<1>6. /\ \A x \in S : <<x, x>> \notin ByCall
      /\ \A x, y \in S : x # y => <<x, y>> \in ByCall \/ <<y, x>> \in ByCall
      /\ \A x, y, z \in S : <<x, y>> \in ByCall /\ <<y, z>> \in ByCall => <<x, z>> \in ByCall
  BY <1>2, <1>4
<1> HIDE DEF Earlier
<1>7. /\ m \in Nat /\ order \in [1 .. m -> S]
      /\ \A i, j \in 1 .. m : order[i] = order[j] => i = j
      /\ \A x \in S : \E i \in 1 .. m : order[i] = x
      /\ \A i, j \in 1 .. m : i < j => <<order[i], order[j]>> \in ByCall
  BY <1>3, <1>6, Sorted
<1> HIDE DEF order
<1>8. \A i, j \in 1 .. m : i < j => Earlier(order[i], order[j]) BY <1>4, <1>7
<1> HIDE DEF m
<1> DEFINE t == [k \in 1 .. m |-> raw[order[k]]]
<1>9. t \in [1 .. m -> 1 .. index]
  <2>1. \A i \in S : raw[i] \in ToSet(raw) BY DEF S, ToSet
  <2> QED BY <1>7, <2>1
<1>10. \A i, j \in 1 .. m : i < j => t[i] < t[j]
  <2> TAKE i, j \in 1 .. m
  <2> HAVE i < j
  <2>1. order[i] \in S /\ order[j] \in S /\ order[i] # order[j] BY <1>7
  <2>2. raw[order[i]] # raw[order[j]] BY <1>5, <2>1
  <2>3. Earlier(order[i], order[j]) BY <1>8, <1>7
  <2>4. raw[order[i]] < raw[order[j]] BY <2>2, <2>3 DEF Earlier
  <2> QED BY <2>4
<1>11. \A k \in 1 .. index : \E i \in 1 .. m : t[i] = k
  <2> TAKE k \in 1 .. index
  <2>1. PICK x \in S : raw[x] = k BY DEF S, ToSet
  <2>2. PICK i \in 1 .. m : order[i] = x BY <1>7
  <2> QED BY <2>1, <2>2
<1> HIDE DEF t
<1>12. m = index /\ \A i \in 1 .. m : t[i] = i
  <2>1. m \in Nat /\ index \in Nat BY <1>1, <1>7
  <2>2. RisesTo(t, m, index) BY <1>9, <1>10, <1>11 DEF RisesTo
  <2> QED BY <2>1, <2>2, CountsUp
<1>13. DOMAIN order = 1 .. index /\ \A i \in 1 .. index : raw[order[i]] = i
  BY <1>7, <1>12 DEF t
<1> QED BY <1>13 DEF order, S

\* When none is pending, the calls that were started are over, and no other has begun.
LEMMA AllOver ==
  ASSUME IInv, LoopInv, Pending = {}
  PROVE  /\ ToSet(raw) = 1 .. index
         /\ \A c \in 1 .. index : at[c] \in Over
         /\ \A c \in Calls : at[c] \in Over \cup {"unborn"}
<1>1. index \in 0 .. MaxCalls /\ MaxCalls \in Nat BY PhoneAssumption DEF LoopInv, CampaignTypeOK
<1>2. ToSet(raw) \subseteq Calls BY ResultsInCalls DEF IInv
<1>3. \A c \in Calls : c > index => at[c] = "unborn" BY DEF IInv, ResultsInv
<1>4. \A c \in ToSet(raw) : at[c] \in Over BY DEF IInv, ResultsInv
<1>5. \A c \in 1 .. index : c \in Calls /\ c <= index /\ c \in ToSet(raw) BY <1>1 DEF Pending, Calls
<1>6. \A c \in ToSet(raw) : c \in 1 .. index BY <1>1, <1>2, <1>3, <1>4 DEF Over, Calls
<1>7. \A c \in Calls : c \in 1 .. index \/ c > index BY <1>1 DEF Calls
<1> QED BY <1>3, <1>4, <1>5, <1>6, <1>7

\* A step that leaves the campaign alone, and its calls once they are reported.
LEMMA NothingReported ==
  ASSUME ReportInv, UNCHANGED <<index, raw, results, report>>, pc' = pc,
         pc \in {"report", "summary", "done"} => at' = at
  PROVE  ReportInv'
<1>1. CollectedInv' BY DEF ReportInv, CollectedInv, Pending
<1>2. ASSUME pc \in {"summary", "done"}, ResultsMade PROVE ResultsMade'
  <2>1. at' = at BY <1>2
  <2> QED BY <1>2, <2>1 DEF ResultsMade, CallResult
<1>3. ReportMade => ReportMade' BY DEF ReportMade
<1> QED BY <1>1, <1>2, <1>3 DEF ReportInv

\* While the loop runs, and after a failure, there is no report.
LEMMA NotReportedYet ==
  ASSUME ReportInv, UNCHANGED <<index, raw>>,
         \/ pc' \notin {"report", "summary", "done"}
         \/ pc' = "report" /\ Pending = {}
  PROVE  ReportInv'
BY DEF ReportInv, CollectedInv, Pending

LEMMA SpawnReported ==
  ASSUME ReportInv, Spawn, pc' = "loop"
  PROVE  ReportInv'
BY DEF Spawn, ReportInv, CollectedInv

LEMMA TakeResultReported ==
  ASSUME ResultsInv, ReportInv, TakeResult, pc' = "loop"
  PROVE  ReportInv'
<1>1. PICK c \in Pending : raw' = Append(raw, c) BY DEF TakeResult
<1>2. c \in Calls /\ \A i \in DOMAIN raw : raw[i] # c BY DEF Pending, ToSet
<1>3. raw \in Seq(Calls) /\ Len(raw) \in Nat BY DEF ResultsInv
<1>4. /\ DOMAIN raw' = 1 .. Len(raw) + 1 /\ DOMAIN raw = 1 .. Len(raw)
      /\ raw'[Len(raw) + 1] = c
      /\ \A i \in 1 .. Len(raw) : raw'[i] = raw[i]
  BY <1>1, <1>2, <1>3
<1>5. ASSUME NEW i \in DOMAIN raw', NEW j \in DOMAIN raw', raw'[i] = raw'[j], ~(j < i)
      PROVE  i = j
  <2>1. CASE j \in 1 .. Len(raw)
    <3>1. i \in 1 .. Len(raw) BY <1>3, <1>4, <1>5, <2>1
    <3> QED BY <1>4, <1>5, <2>1, <3>1 DEF ReportInv, CollectedInv
  <2>2. CASE j = Len(raw) + 1 /\ i # j
    <3>1. i \in 1 .. Len(raw) BY <1>3, <1>4, <2>2
    <3> QED BY <1>2, <1>4, <1>5, <2>2, <3>1
  <2> QED BY <1>3, <1>4, <2>1, <2>2
<1>6. CollectedInv'
  <2>1. \A i, j \in DOMAIN raw' : i \in Int /\ j \in Int BY <1>3, <1>4
  <2> QED BY <1>5, <2>1 DEF CollectedInv
<1> QED BY <1>6 DEF ReportInv

\* What run_campaign makes of the results: one of each call, in order.
LEMMA CallResultsReported ==
  ASSUME IInv, LoopInv, ReportInv, CallResults
  PROVE  ReportInv'
<1>0. /\ pc = "report" /\ pc' = "summary"
      /\ UNCHANGED <<phoneVars, config, now, deadline, index, startedAt, raw, report>>
  BY Zenon DEF CallResults, Steps
<1>1. Pending = {} BY <1>0 DEF ReportInv, CollectedInv
<1>2. CollectedInv' BY <1>0 DEF ReportInv, CollectedInv, Pending
<1>3. ToSet(raw) = 1 .. index BY <1>1, AllOver
<1> DEFINE had == {c \in ToSet(raw) : at[c] = "heard"}
           order == InOrder(DOMAIN raw, ByCall)
           Result(c, heard, txEnd) == CallResult(c, IF at[c] = "heard" THEN heard[c] ELSE <<>>, txEnd)
<1>4. PICK txEnd \in 1 .. 2, heard \in [had -> Recordings(Cardinality(had))] :
        results' = [heard |-> heard, txEnd |-> txEnd,
                    calls |-> [i \in DOMAIN order |-> Result(raw[order[i]], heard, txEnd)]]
  BY Zenon DEF CallResults
<1>5. DOMAIN order = 1 .. index /\ \A i \in 1 .. index : raw[order[i]] = i
  BY <1>3, SortedIs DEF IInv, ReportInv
<1>6. Recordings(Cardinality(had)) \subseteq Seq(BOOLEAN)
  <2>1. index \in 0 .. MaxCalls /\ MaxCalls \in Nat BY PhoneAssumption DEF LoopInv, CampaignTypeOK
  <2>2. IsFiniteSet(1 .. index) /\ Cardinality(1 .. index) = index
    <3>1. index \in Nat BY <2>1
    <3> QED BY <3>1, FS_Interval
  <2>3. had \subseteq 1 .. index BY <1>3
  <2> HIDE DEF had
  <2>4. Cardinality(had) \in Nat /\ Cardinality(had) <= index
    <3>1. IsFiniteSet(had) /\ Cardinality(had) <= Cardinality(1 .. index) BY <2>2, <2>3, FS_Subset
    <3> QED BY <2>2, <3>1, FS_CardinalityType
  <2>5. Cardinality(had) \in 0 .. MaxCalls BY <2>1, <2>4
  <2> QED BY <2>5, CampaignAssumption
<1> HIDE DEF order
<1>7. /\ results'.heard = heard /\ results'.txEnd = txEnd
      /\ results'.calls = [i \in 1 .. index |-> Result(i, heard, txEnd)]
  <2> HIDE DEF Result
  <2>1. [i \in DOMAIN order |-> Result(raw[order[i]], heard, txEnd)] = [i \in 1 .. index |-> Result(i, heard, txEnd)]
    BY <1>5
  <2> QED BY <1>4, <2>1
<1>8. UNCHANGED <<at, index>> BY <1>0 DEF phoneVars
<1>9. ResultsMade'
  <2>1. heard \in [{c \in 1 .. index : at[c] = "heard"} -> Seq(BOOLEAN)] BY <1>3, <1>6
  <2>2. [i \in 1 .. index |-> Result(i, heard, txEnd)]
          = [c \in 1 .. index |->
               CallResult(c, IF at[c] = "heard" THEN heard[c] ELSE <<>>, txEnd)'] BY <1>8 DEF CallResult
  <2> HIDE DEF Result
  <2> QED BY <1>4, <1>7, <1>8, <2>1, <2>2 DEF ResultsMade, CallResult
<1> QED BY <1>0, <1>2, <1>9 DEF ReportInv

\* The report is made of them.
LEMMA ReportReported ==
  ASSUME ReportInv, Report
  PROVE  ReportInv'
<1> USE DEF Report, Steps, phoneVars
<1>1. CollectedInv' BY DEF ReportInv, CollectedInv, Pending
<1>2. ResultsMade' BY DEF ReportInv, ResultsMade, CallResult
<1>3. ReportMade' BY DEF ReportMade
<1> QED BY <1>1, <1>2, <1>3 DEF ReportInv

LEMMA RunCampaignReported ==
  ASSUME IInv, LoopInv, ReportInv, RunCampaign
  PROVE  ReportInv'
<1> USE DEF Steps, Loop
<1>1. CASE LoadConfig BY <1>1, NotReportedYet DEF LoadConfig
<1>2. CASE Build BY <1>2, NotReportedYet DEF Build
<1>3. CASE NextSpawn BY <1>3, NotReportedYet DEF NextSpawn
<1>4. CASE NextResult BY <1>4, NotReportedYet, TakeResultReported DEF NextResult, IInv
<1>5. CASE RampUp BY <1>5, NotReportedYet DEF RampUp
<1>6. CASE RateLimit BY <1>6, NotReportedYet, SpawnReported DEF RateLimit
<1>7. CASE AwaitSlot BY <1>7, SpawnReported, TakeResultReported DEF AwaitSlot, IInv
<1>8. CASE ReportFails BY <1>8, NotReportedYet DEF ReportFails
<1>9. CASE CallResults BY <1>9, CallResultsReported
<1>10. CASE Report BY <1>10, ReportReported
<1> QED BY <1>1, <1>2, <1>3, <1>4, <1>5, <1>6, <1>7, <1>8, <1>9, <1>10 DEF RunCampaign

\* A call that is over does nothing more: the report is of what it came to.
LEMMA CallReported ==
  ASSUME IInv, LoopInv, ReportInv, NEW c \in Calls, Call(c)
  PROVE  ReportInv'
<1>1. UNCHANGED <<pc, index, raw, results, report>> BY DEF Call, campaignVars
<1>2. pc \notin {"report", "summary", "done"}
  <2> SUFFICES ASSUME pc \in {"report", "summary", "done"} PROVE FALSE OBVIOUS
  <2>1. Pending = {} BY DEF ReportInv, CollectedInv
  <2> QED BY <2>1, AllOver, OwnSteps DEF IInv, PhoneInv
<1> QED BY <1>1, <1>2, NothingReported

LEMMA ReportInductive == Spec => [](IInv /\ LoopInv /\ ReportInv)
<1>1. Init => ReportInv BY DEF Init, ReportInv, CollectedInv
<1>2. IInv /\ LoopInv /\ ReportInv /\ [Next]_vars => ReportInv'
  <2> SUFFICES ASSUME IInv, LoopInv, ReportInv, [Next]_vars PROVE ReportInv' OBVIOUS
  <2>1. CASE RunCampaign BY <2>1, RunCampaignReported
  <2>2. CASE Tick BY <2>2, NothingReported DEF Tick, phoneVars
  <2>3. CASE Phone
    <3>1. UNCHANGED <<config, pc, index, raw, results, report>> BY <2>3 DEF Phone, campaignVars
    <3>2. at' = at BY <2>3, <3>1, FarEndKeeps, RingsKeeps DEF IInv, Phone
    <3> QED BY <3>1, <3>2, NothingReported
  <2>4. CASE \E c \in Calls : Call(c) BY <2>4, CallReported
  <2>5. CASE UNCHANGED vars BY <2>5, NothingReported DEF vars, campaignVars, phoneVars
  <2> QED BY <2>1, <2>2, <2>3, <2>4, <2>5 DEF Next
<1> QED BY <1>1, <1>2, LimitsInductive, PTL DEF Spec

\* What is reported of one call that is over.
LEMMA ResultOf ==
  ASSUME NEW c, at[c] \in Over, NEW heard \in Seq(BOOLEAN), NEW txEnd \in Nat
  PROVE  LET result == CallResult(c, heard, txEnd)
         IN /\ result.index = c
            /\ at[c] = "failed" <=> result.outcome = "failed"
            /\ at[c] # "failed" =>
                 /\ result.analysis.firstResponse = ReferenceResponse(heard, txEnd)
                 /\ result.analysis.longestGap = ReferenceGap(heard)
                 /\ result.outcome = "success" <=> result.analysis.firstResponse # None
            /\ ResultIs(result)
<1> DEFINE result == CallResult(c, heard, txEnd)
           a == Analysis(heard, txEnd)
<1>1. Outcomes[1] = "success" /\ Outcomes[2] = "completed_without_response"
      /\ Outcomes[3] = "no_audio" /\ Outcomes[4] = "failed"
  BY DEF Outcomes
<1>2. CASE at[c] = "failed"
  <2>1. result = [index |-> c, outcome |-> "failed", analysis |-> None] BY <1>2 DEF CallResult
  <2> QED BY <1>1, <1>2, <2>1 DEF ResultIs
<1>3. CASE at[c] # "failed"
  <2>1. result = [index |-> c, outcome |-> CallOutcome(a), analysis |-> a] BY <1>3 DEF CallResult
  <2>2. /\ a.firstResponse = ReferenceResponse(heard, txEnd)
        /\ a.firstResponse = None \/ a.firstResponse \in Nat
        /\ a.longestGap = ReferenceGap(heard)
        /\ a.longestGap \in Nat /\ a.stutters \in Nat
        /\ \A i \in DOMAIN a.gaps : a.gaps[i] \in Nat /\ a.gaps[i] <= a.longestGap
    BY AnalysisIs
  <2>3. /\ CallOutcome(a) \in {"success", "completed_without_response", "no_audio"}
        /\ CallOutcome(a) = "success" <=> a.firstResponse # None
    BY DEF CallOutcome
  <2> HIDE DEF a
  <2>4. result.index = c /\ result.outcome = CallOutcome(a) /\ result.analysis = a BY <2>1
  <2> HIDE DEF result
  <2>5. ResultIs(result) BY <1>1, <2>2, <2>3, <2>4 DEF ResultIs
  <2>6. result.outcome # "failed" BY <2>3, <2>4
  <2> QED BY <1>3, <2>2, <2>3, <2>4, <2>5, <2>6 DEF result
<1> QED BY <1>2, <1>3

\* For any campaign, whatever order its calls end in and whatever they heard: its report
\* has each call once and in order, with what its recording says, a median of the
\* responses, histograms that count every call, and the worst calls first (run_campaign,
\* analysis.rs, CampaignSummary::compute, report.rs).
THEOREM EveryCallReported == Spec => []CallsReported
<1>1. IInv /\ LoopInv /\ ReportInv => CallsReported
  <2> SUFFICES ASSUME IInv, LoopInv, ReportInv, pc = "done" PROVE CallsReported BY DEF CallsReported
  <2> DEFINE calls == results.calls
             heard == results.heard
             txEnd == results.txEnd
             recording == [c \in 1 .. index |-> IF at[c] = "heard" THEN heard[c] ELSE <<>>]
             summary == report.summary
             inspected == report.inspected
  <2>1. index \in Nat BY DEF IInv, ResultsInv
  <2>2. \A c \in 1 .. index : at[c] \in Over BY AllOver DEF ReportInv, CollectedInv
  <2>3. ResultsMade /\ ReportMade BY DEF ReportInv
  <2>4. txEnd \in Nat BY <2>3 DEF ResultsMade
  <2>5. ASSUME NEW c \in 1 .. index PROVE recording[c] \in Seq(BOOLEAN)
    <3>1. <<>> \in Seq(BOOLEAN) OBVIOUS
    <3>2. at[c] = "heard" => heard[c] \in Seq(BOOLEAN)
      <4>1. heard \in [{d \in 1 .. index : at[d] = "heard"} -> Seq(BOOLEAN)] BY <2>3 DEF ResultsMade
      <4> HIDE DEF heard
      <4> QED BY <4>1
    <3> HIDE DEF heard
    <3> QED BY <3>1, <3>2
  <2>6. \A c \in 1 .. index : at[c] = "heard" => recording[c] = heard[c] OBVIOUS
  <2>7. calls = [c \in 1 .. index |-> CallResult(c, recording[c], txEnd)] BY <2>3 DEF ResultsMade
  <2> HIDE DEF recording, calls, txEnd, heard
  <2>8. DOMAIN calls = 1 .. index /\ Len(calls) = index BY <2>1, <2>7
  <2>9. ASSUME NEW c \in 1 .. index
        PROVE  /\ calls[c].index = c
               /\ at[c] = "failed" <=> calls[c].outcome = "failed"
               /\ at[c] # "failed" =>
                    /\ calls[c].analysis.firstResponse = ReferenceResponse(recording[c], txEnd)
                    /\ calls[c].analysis.longestGap = ReferenceGap(recording[c])
                    /\ calls[c].outcome = "success" <=> calls[c].analysis.firstResponse # None
               /\ ResultIs(calls[c])
    <3>1. calls[c] = CallResult(c, recording[c], txEnd) BY <2>7
    <3>2. at[c] \in Over /\ recording[c] \in Seq(BOOLEAN) BY <2>2, <2>5
    <3> QED BY <2>4, <3>1, <3>2, ResultOf
  <2>10. ResultsAre(calls, index) BY <2>1, <2>8, <2>9 DEF ResultsAre
  <2>11. /\ summary = Summary(calls) /\ report.responseBins = FirstResponseBins(calls)
         /\ report.longestBins = LongestGapBins(calls) /\ report.gapBins = AllGapBins(calls)
         /\ inspected = InspectionCalls(calls)
    BY <2>3 DEF ReportMade, calls
  <2>12. summary.calls = calls /\ summary.p50 = Percentile(FirstResponses(calls), 50)
    BY <2>11 DEF Summary
  <2>13. \A c \in 1 .. index :
           /\ summary.calls[c].index = c
           /\ (at[c] = "failed") <=> (summary.calls[c].outcome = "failed")
           /\ at[c] = "heard" =>
                /\ summary.calls[c].analysis.firstResponse = ReferenceResponse(heard[c], txEnd)
                /\ summary.calls[c].analysis.longestGap = ReferenceGap(heard[c])
                /\ (summary.calls[c].outcome = "success")
                     <=> (summary.calls[c].analysis.firstResponse # None)
    BY <2>6, <2>9, <2>12
  <2>14. FirstResponses(calls) # <<>> =>
           LET responses == FirstResponses(calls)
           IN /\ 2 * Cardinality({i \in DOMAIN responses : responses[i] <= summary.p50}) >= Len(responses)
              /\ 2 * Cardinality({i \in DOMAIN responses : responses[i] >= summary.p50}) >= Len(responses)
    BY <2>10, <2>12, MedianIs
  <2>15. LET bins == report.responseBins.answered
         IN bins[0] + bins[1] + bins[2] + bins[3] + bins[4] + report.responseBins.unanswered = index
    BY <2>10, <2>11, ResponsesBinned
  <2>16. LET bins == report.longestBins
         IN /\ bins[0] + bins[1] + bins[2] + bins[3] + bins[4] + bins[5] + bins[6]
                 = Cardinality(Analysed(calls))
            /\ bins[0] = Cardinality(Analysed(calls)) => \A b \in 0 .. 5 : report.gapBins[b] = 0
    BY <2>10, <2>11, GapsBinned
  <2>17. \A i, j \in DOMAIN inspected :
           i < j => ~Outranks(Rank(calls[inspected[j]]), Rank(calls[inspected[i]]))
    BY <2>10, <2>11, WorstFirst
  <2> HIDE DEF summary, inspected
  <2> QED BY <2>8, <2>12, <2>13, <2>14, <2>15, <2>16, <2>17 DEF CallsReported, summary, inspected, heard, txEnd
<1> QED BY <1>1, ReportInductive, PTL

----
\* For any number of calls and configurations, a campaign starts no call too early, none
\* beyond its concurrency or its total and at most one after its soak, and what its calls
\* carry is the file that it was given (run_campaign, audio.rs, rtp.rs).
THEOREM CampaignCorrect == Spec => []CampaignInv
<1>1. AudioKept
  BY EveryFileInside, LengthIsKept, CodeIsFaithful, CodeIsMonotone, PayloadIsFound DEF AudioKept
<1>2. IInv /\ LoopInv => TypeOK
  BY DEF IInv, PhoneInv, ResultsInv, LoopInv, CampaignTypeOK, TypeOK
<1>3. IInv /\ LoopInv => LimitsKept
  BY DEF LoopInv, TimesInv, LimitsInv, SoakInv, Late, LimitsKept
<1> QED BY <1>1, <1>2, <1>3, LimitsInductive, PTL DEF CampaignInv
====
