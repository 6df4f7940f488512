-------------------------- MODULE AudioFanoutProofs --------------------------
(***************************************************************************)
(* The fanout and the VAD never wait for each other, whatever the           *)
(* capacities of the two channels between them and the VAD's thresholds;    *)
(* what the front end puts on the bus is what SpeechEvents promises; and    *)
(* what it captures of an utterance is all of it and nothing of another.    *)
(*                                                                         *)
(* NeverWedged rests on the bias of the fanout's select: it takes a frame   *)
(* only when the speech state channel is empty.  From then until the frame  *)
(* is handed over, each change of the speech state costs the VAD a frame of *)
(* its queue, and only the fanout can refill that queue.                    *)
(*                                                                         *)
(* The rest rests on FrontInv, which counts.  The frames the VAD has taken  *)
(* (Taken) are those received less those on their way; they fix where its   *)
(* utterances begin and end (SpacingInv, CountersInv).  The changes it has  *)
(* told the fanout (ToldChanges) are the ends and beginnings it has found   *)
(* less the one it has still to tell; those that the fanout has heard       *)
(* (HeardChanges) follow from the captures it has opened and closed; the    *)
(* difference is on the channel (ChangesInv).                               *)
(***************************************************************************)
EXTENDS AudioFanout, Integers, TLAPS

\* The change of the speech state that the VAD has decided on and not yet sent.
Pending == IF vad \in {"opening", "ending", "closing"} THEN 1 ELSE 0

QueuesOK ==
    /\ vadQueue \in Seq(Nat)
    /\ Len(vadQueue) <= VadCap
    /\ speechState \in Seq(BOOLEAN)
    /\ vad \in VadStates

Balance == fanout = "sending" => Len(speechState) + Pending + Len(vadQueue) <= VadCap + 1

Inv == QueuesOK /\ voiced \in Seq(BOOLEAN) /\ Balance

LEMMA Capacities == VadCap \in Nat \ {0} /\ StateCap \in Nat \ {0}
  BY AudioFanoutAssumption

\* The queues and the balance hold at the start.
LEMMA InvInit == Init => Inv
  BY Capacities DEF Init, Inv, QueuesOK, Balance, VadStates

\* A step of the fanout keeps them: taking a frame needs an empty speech state
\* channel, and handing it over leaves "sending".
LEMMA InvFanout ==
    ASSUME Inv, FanoutStep \/ \E v \in BOOLEAN : FanoutFrame(v)
    PROVE  Inv'
<1> USE Capacities DEF Inv, QueuesOK, Balance, VadStates
<1>1. CASE FanoutReapsTask
  BY <1>1 DEF FanoutReapsTask, fanoutFrame, vadVars, Pending
<1>2. CASE FanoutOpens \/ FanoutCloses
  <2>1. \E b \in BOOLEAN : FanoutHears(b)
    BY <1>2 DEF FanoutOpens, FanoutCloses
  <2>2. /\ speechState # <<>> /\ speechState' = Tail(speechState)
        /\ fanout' = "select" /\ vadQueue' = vadQueue /\ vad' = vad /\ voiced' = voiced
    BY <2>1 DEF FanoutHears, fanoutFrame, vadVars
  <2>3. speechState' \in Seq(BOOLEAN)
    BY <2>2
  <2>4. QueuesOK'
    BY <2>2, <2>3
  <2>5. Balance' /\ voiced' \in Seq(BOOLEAN)
    BY <2>2
  <2> QED
    BY <2>4, <2>5
<1>3. CASE FanoutSends
  <2>1. /\ fanout' = "select" /\ speechState' = speechState /\ voiced' = voiced /\ vad' = vad
        /\ \/ vadQueue' = vadQueue
           \/ Len(vadQueue) < VadCap /\ vadQueue' = Append(vadQueue, Len(voiced))
    BY <1>3 DEF FanoutSends, fanoutFrame, vadVars
  <2>2. Len(voiced) \in Nat
    OBVIOUS
  <2>3. vadQueue' \in Seq(Nat) /\ Len(vadQueue') <= VadCap
    <3>1. CASE vadQueue' = vadQueue
      BY <3>1
    <3>2. CASE Len(vadQueue) < VadCap /\ vadQueue' = Append(vadQueue, Len(voiced))
      <4>1. \A n \in Nat : Append(vadQueue, n) \in Seq(Nat) /\ Len(Append(vadQueue, n)) = Len(vadQueue) + 1
        OBVIOUS
      <4>2. Len(vadQueue) \in Nat
        OBVIOUS
      <4> HIDE DEF Inv, QueuesOK
      <4> QED
        BY <2>2, <3>2, <4>1, <4>2
    <3> QED
      BY <2>1, <3>1, <3>2
  <2> QED
    BY <2>1, <2>3
<1>4. CASE FanoutStops
  BY <1>4 DEF FanoutStops, fanoutFrame, vadVars
<1>5. CASE \E v \in BOOLEAN : FanoutFrame(v)
  <2>1. PICK v \in BOOLEAN : FanoutFrame(v)
    BY <1>5
  <2>2. speechState = <<>> /\ speechState' = <<>> /\ vadQueue' = vadQueue /\ vad' = vad
    BY <2>1 DEF FanoutFrame, TakesFrame, fanoutFrame, vadVars
  <2>3. voiced' \in Seq(BOOLEAN)
    BY <2>1 DEF FanoutFrame
  <2>4. Pending' <= 1 /\ Pending' \in Nat
    BY DEF Pending
  <2> QED
    BY <2>2, <2>3, <2>4
<1> QED
  BY <1>1, <1>2, <1>3, <1>4, <1>5 DEF FanoutStep

\* Telling the fanout adds at most one change to its channel.
LEMMA Telling ==
    ASSUME speechState \in Seq(BOOLEAN), NEW b \in BOOLEAN, TellFanout(b)
    PROVE  speechState' \in Seq(BOOLEAN) /\ Len(speechState') <= Len(speechState) + 1
<1>1. CASE speechState' = Append(speechState, b)
  BY <1>1
<1>2. CASE speechState' = speechState
  BY <1>2
<1> QED
  BY <1>1, <1>2 DEF TellFanout

\* A step of the VAD keeps them: it takes a frame for every change it decides on.
LEMMA InvVad == ASSUME Inv, VadStep PROVE Inv'
<1> USE Capacities DEF Inv, QueuesOK, Balance, VadStates, vadFrame, fanoutVars
<1>1. CASE VadVoiced
  <2>1. /\ vad = "recv" /\ vad' \in {"recv", "opening"}
        /\ vadQueue # <<>> /\ vadQueue' = Tail(vadQueue)
        /\ speechState' = speechState /\ fanout' = fanout /\ voiced' = voiced
    BY <1>1 DEF VadVoiced, VadTakes
  <2> QED
    BY <2>1 DEF Pending
<1>2. CASE VadSilent
  <2>1. /\ vad = "recv" /\ vad' \in {"recv", "ending"}
        /\ vadQueue # <<>> /\ vadQueue' = Tail(vadQueue)
        /\ speechState' = speechState /\ fanout' = fanout /\ voiced' = voiced
    BY <1>2 DEF VadSilent, VadTakes
  <2> QED
    BY <2>1 DEF Pending
<1>3. CASE VadOpens
  <2>1. /\ vad = "opening" /\ vad' = "starting"
        /\ fanout' = fanout /\ vadQueue' = vadQueue /\ voiced' = voiced
    BY <1>3 DEF VadOpens, VadMoves
  <2>2. speechState' \in Seq(BOOLEAN) /\ Len(speechState') <= Len(speechState) + 1
    BY <1>3, Telling DEF VadOpens
  <2> QED
    BY <2>1, <2>2 DEF Pending
<1>4. CASE VadStarts
  BY <1>4 DEF VadStarts, VadMoves, Pending
<1>5. CASE VadEnds
  <2>1. CASE VadMoves("ending", "closing") /\ UNCHANGED speechState
    BY <2>1 DEF VadMoves, Pending
  <2>2. CASE VadMoves("closing", "recv") /\ TellFanout(FALSE)
    <3>1. /\ vad = "closing" /\ vad' = "recv"
          /\ fanout' = fanout /\ vadQueue' = vadQueue /\ voiced' = voiced
      BY <2>2 DEF VadMoves
    <3>2. speechState' \in Seq(BOOLEAN) /\ Len(speechState') <= Len(speechState) + 1
      BY <2>2, Telling
    <3> QED
      BY <3>1, <3>2 DEF Pending
  <2> QED
    BY <1>5, <2>1, <2>2 DEF VadEnds
<1>6. CASE VadStreamEnds
  BY <1>6 DEF VadStreamEnds, VadMoves, Pending
<1>7. CASE VadLast
  BY <1>7 DEF VadLast, VadMoves, Pending
<1>8. CASE VadCancelled
  BY <1>8 DEF VadCancelled, VadMoves, Pending
<1> QED
  BY <1>1, <1>2, <1>3, <1>4, <1>5, <1>6, <1>7, <1>8 DEF VadStep

\* Nothing else touches the two channels.
LEMMA InvNext == ASSUME Inv, [Next]_vars PROVE Inv'
<1> USE DEF Inv, QueuesOK, Balance, Pending, vadVars, fanoutVars
<1>1. CASE \E u \in Utterances : AsrStep(u)
  BY <1>1 DEF AsrStep, AsrCollected, AsrPartial, AsrFinal, AsrFails, AsrCancelled, AsrReports,
              TaskMoves, asrFrame
<1>2. CASE DrainBus \/ AudioEnds \/ Shutdown
  BY <1>2 DEF DrainBus, AudioEnds, Shutdown
<1>3. CASE UNCHANGED vars
  BY <1>3 DEF vars
<1> QED
  BY <1>1, <1>2, <1>3, InvFanout, InvVad DEF Next

\* The fanout never waits for the VAD while the VAD waits for the fanout
\* (session.rs, the select of the fanout and the channels it creates).
THEOREM NeverWedged == Spec => []NoAudioDeadlock
<1>1. Inv => NoAudioDeadlock
  <2> SUFFICES ASSUME Inv, Wedged PROVE FALSE
    BY DEF NoAudioDeadlock
  <2>1. Len(speechState) + 1 + VadCap <= VadCap + 1
    BY DEF Inv, Balance, Wedged, Pending
  <2>2. Len(speechState) \in Nat /\ Len(speechState) >= 1
    BY Capacities DEF Inv, QueuesOK, Wedged
  <2> QED
    BY <2>1, <2>2, Capacities
<1> QED
  BY <1>1, InvInit, InvNext, PTL DEF Spec-----------------------------------------------------------------------------
(* What is captured. *)

\* The utterances that the VAD has found, and those that it has found to be over.
Found == Len(onset)
Over == Len(offset)

\* The frames that the VAD has taken.
Taken == Len(voiced) - Len(vadQueue) - (IF fanout = "sending" THEN 1 ELSE 0)

\* The frame with which the VAD found utterance k.
Decision(k) == onset[k] + MinVoiced - 1

\* How many changes of the speech state the fanout has heard.
HeardChanges == 2 * opened - (IF current.open THEN 1 ELSE 0)

\* How many changes the VAD has told it.
ToldChanges == Found + Over - Pending

\* The fanout hears what the VAD tells, until its end or the session's.
Alive == fanout # "gone" /\ ~shutdown

VadInv ==
    /\ vad = "gone" => ~Alive
    /\ vad \in {"opening", "starting", "last"} => isSpeaking
    /\ vad \in {"ending", "closing"} => ~isSpeaking
    /\ vad = "last" => fanout = "gone"
    /\ Found = Over + (IF isSpeaking THEN 1 ELSE 0)
    /\ vad # "gone" =>
        /\ started = Found - (IF vad \in {"opening", "starting"} THEN 1 ELSE 0)
        /\ ended = Over - (IF vad = "ending" THEN 1 ELSE 0)
    /\ started <= Found /\ ended <= Found

\* The frames of the utterances: each begins after the one before, and is at least
\* as long as the thresholds; it ends with silence.
SpacingInv ==
    /\ \A k \in 1 .. Found :
        /\ onset[k] > (k - 1) * (MinVoiced + MinSilent)
        /\ k > 1 => onset[k] > offset[k - 1]
        /\ Decision(k) <= Taken
    /\ \A k \in 1 .. Over :
        /\ Decision(k) + MinSilent <= offset[k]
        /\ offset[k] <= Taken
        /\ \A f \in offset[k] - MinSilent + 1 .. offset[k] : ~voiced[f]

\* The VAD's queue and its counters.
CountersInv ==
    vad # "gone" =>
        /\ \A i \in DOMAIN vadQueue : vadQueue[i] = Taken + i
        /\ vad = "opening" => Decision(Found) = Taken
        /\ ~isSpeaking => voicedRun < MinVoiced /\ voicedRun <= Taken
        /\ ~isSpeaking /\ Over > 0 => offset[Over] + voicedRun <= Taken
        /\ isSpeaking => Decision(Found) + silentRun <= Taken
        /\ isSpeaking => \A f \in Taken - silentRun + 1 .. Taken : ~voiced[f]

\* The changes on their way to the fanout, and what it has made of those before.
ChangesInv ==
    /\ opened <= Found
    /\ \A u \in Utterances : task[u] = "none" <=> u > opened
    /\ \A i \in DOMAIN asrDone : task[asrDone[i]] = "done"
    /\ Alive =>
        /\ Len(speechState) = ToldChanges - HeardChanges
        /\ \A i \in DOMAIN speechState : speechState[i] <=> (HeardChanges + i) % 2 = 1
        /\ current.open => current.turn = opened /\ opened > 0 /\ task[opened] = "reading"

\* The pre-buffer, and what it is put into.
BufferInv ==
    /\ Len(preBuffer) <= Len(voiced)
    /\ \A i \in DOMAIN preBuffer : preBuffer[i] = Len(voiced) - Len(preBuffer) + i
    /\ \A u \in Utterances : captured[u] \subseteq 1 .. Len(voiced)

FrontInv ==
    /\ TypeOK /\ Taken >= 0
    /\ VadInv /\ SpacingInv /\ CountersInv /\ ChangesInv /\ BufferInv

\* When the VAD has found an utterance, the frames it has yet to take and those it
\* needed fit into the pre-buffer but for n.
VadWithin(n) ==
    vad = "opening" => Len(voiced) - Taken + MinVoiced <= PreBuffer + n

\* The VAD is at work on its frames soon enough for the whole onset.
VadKeepsUp == VadWithin(0)

\* The capture that is open holds the frames up to the last one.
OpenCapture(n) ==
    opened > 0 /\ \E first \in 1 .. onset[opened] + n :
        /\ captured[opened] = first .. Len(voiced)
        /\ first <= Len(voiced) /\ onset[opened] <= Len(voiced)

\* Then the pre-buffer still holds an utterance which the fanout has yet to hear of,
\* but for its first n frames, and has been filling since before it began.
PaceInv(n) ==
    /\ \A k \in 1 .. Found :
        Alive /\ k > opened /\ ~(k = Found /\ vad = "opening") => Len(voiced) < onset[k] + PreBuffer + n
    /\ \/ Len(preBuffer) >= PreBuffer
       \/ Len(preBuffer) = Len(voiced)
       \/ opened > 0 /\ Len(voiced) - Len(preBuffer) < onset[opened] + PreBuffer + n
    /\ current.open => OpenCapture(n)

\* What the bus has seen of what the fanout has opened and closed.
OnBusInv ==
    /\ ended <= started
    /\ fanout # "gone" =>
        /\ opened <= started + 1
        /\ opened - (IF current.open THEN 1 ELSE 0) <= ended
        /\ current.open => current.turn = opened

\* An utterance begins after the end of every one before it.
OrderInv == \A k \in 1 .. Found : \A j \in 1 .. k - 1 : onset[k] > offset[j]

-----------------------------------------------------------------------------
(* What the steps do to the frames on their way. *)

\* The assumptions on the constants, in the form the steps below use.
LEMMA Thresholds ==
    /\ MaxFrames \in Nat /\ MaxUtterances \in Nat
    /\ MinVoiced \in Nat /\ MinVoiced >= 1 /\ MinSilent \in Nat /\ MinSilent >= 1
    /\ PreBuffer \in Nat /\ PreBuffer >= 1
    /\ VadCap \in Nat /\ StateCap \in Nat /\ DoneCap \in Nat /\ BusCap \in Nat
    /\ MaxFrames < MaxUtterances * (MinVoiced + MinSilent) + MinVoiced
<1>1. \A n \in Nat \ {0} : n \in Nat /\ n >= 1
  OBVIOUS
<1> QED
  BY <1>1, AudioFanoutAssumption

\* The counts are numbers.
LEMMA Numbers ==
    ASSUME TypeOK
    PROVE  /\ Found \in Nat /\ Over \in Nat /\ Len(voiced) \in Nat /\ Len(vadQueue) \in Nat
           /\ Len(preBuffer) \in Nat /\ Len(speechState) \in Nat
           /\ Taken \in Int /\ Pending \in 0 .. 1 /\ HeardChanges \in Int /\ opened \in Nat
           /\ \A k \in 1 .. Found : onset[k] \in Nat /\ onset[k] >= 1 /\ Decision(k) \in Int
           /\ \A k \in 1 .. Over : offset[k] \in Nat
           /\ \A i \in DOMAIN vadQueue : vadQueue[i] \in Nat
           /\ started \in Nat /\ ended \in Nat /\ voicedRun \in Nat /\ silentRun \in Nat
<1>1. Found \in Nat /\ Over \in Nat /\ Len(voiced) \in Nat /\ Len(vadQueue) \in Nat
      /\ Len(preBuffer) \in Nat /\ Len(speechState) \in Nat
  BY DEF TypeOK, Found, Over
<1>2. Taken \in Int
  BY <1>1 DEF Taken
<1>3. Pending \in 0 .. 1 /\ opened \in Nat /\ started \in Nat /\ ended \in Nat
      /\ voicedRun \in Nat /\ silentRun \in Nat
  BY DEF TypeOK, Pending
<1>4. HeardChanges \in Int
  BY <1>3 DEF HeardChanges
<1>0. \A f \in Frames : f \in Nat /\ f >= 1
  BY Thresholds DEF Frames
<1>5. \A k \in 1 .. Found : onset[k] \in Nat /\ onset[k] >= 1
  <2>1. \A k \in 1 .. Len(onset) : onset[k] \in Frames
    BY DEF TypeOK
  <2> QED
    BY <1>0, <2>1 DEF Found
<1>6. \A k \in 1 .. Found : Decision(k) \in Int
  BY <1>5, Thresholds DEF Decision
<1>7. \A k \in 1 .. Over : offset[k] \in Nat
  <2>1. \A k \in 1 .. Len(offset) : offset[k] \in Frames
    BY DEF TypeOK
  <2> QED
    BY <1>0, <2>1 DEF Over
<1>8. \A i \in DOMAIN vadQueue : vadQueue[i] \in Nat
  <2>1. \A i \in DOMAIN vadQueue : vadQueue[i] \in Frames
    BY DEF TypeOK
  <2> QED
    BY <1>0, <2>1
<1> QED
  BY <1>1, <1>2, <1>3, <1>4, <1>5, <1>6, <1>7, <1>8

\* The steps that move no frame.
Moving == FanoutSends \/ VadVoiced \/ VadSilent \/ \E v \in BOOLEAN : FanoutFrame(v)

\* Every other step leaves the frames, and what the VAD makes of them, alone.
LEMMA Still ==
    ASSUME [Next]_vars, ~Moving
    PROVE  /\ UNCHANGED <<voiced, vadQueue, isSpeaking, voicedRun, silentRun, onset, offset>>
           /\ fanout' = fanout \/ (fanout = "select" /\ fanout' = "gone")
           /\ Taken' = Taken /\ Found' = Found /\ Over' = Over
           /\ Len(voiced') = Len(voiced)
<1>1. /\ UNCHANGED <<voiced, vadQueue, isSpeaking, voicedRun, silentRun, onset, offset>>
      /\ fanout' = fanout \/ (fanout = "select" /\ fanout' = "gone")
  <2>1. CASE UNCHANGED vars
    BY <2>1 DEF vars, vadVars, fanoutVars
  <2>2. CASE FanoutStep
    BY <2>2 DEF FanoutStep, Moving, FanoutReapsTask, FanoutOpens, FanoutCloses, FanoutHears, FanoutStops,
                fanoutFrame, vadVars
  <2>3. CASE VadStep
    BY <2>3 DEF VadStep, Moving, VadOpens, VadStarts, VadEnds, VadStreamEnds, VadLast, VadCancelled,
                VadMoves, vadFrame, fanoutVars
  <2>4. CASE \E u \in Utterances : AsrStep(u)
    BY <2>4 DEF AsrStep, AsrCollected, AsrPartial, AsrFinal, AsrFails, AsrCancelled, AsrReports,
                TaskMoves, asrFrame, vadVars, fanoutVars
  <2>5. CASE DrainBus \/ AudioEnds \/ Shutdown
    BY <2>5 DEF DrainBus, AudioEnds, Shutdown, vadVars, fanoutVars
  <2> QED
    BY <2>1, <2>2, <2>3, <2>4, <2>5 DEF Next, Moving
<1> QED
  BY <1>1 DEF Taken, Found, Over

\* The fanout receives a frame: it is not yet the VAD's.
LEMMA FrameMoves ==
    ASSUME FrontInv, NEW v \in BOOLEAN, FanoutFrame(v)
    PROVE  /\ Alive /\ fanout = "select" /\ fanout' = "sending" /\ speechState = <<>>
           /\ voiced' \in Seq(BOOLEAN) /\ Len(voiced') = Len(voiced) + 1 /\ Len(voiced') <= MaxFrames
           /\ \A f \in 1 .. Len(voiced) : voiced'[f] = voiced[f]
           /\ Taken' = Taken
           /\ UNCHANGED <<vadQueue, vadVars, shutdown, Found, Over, opened, current, speechState, asrDone, task>>
<1>1. TypeOK BY DEF FrontInv
<1>2. voiced \in Seq(BOOLEAN) /\ Len(vadQueue) \in Nat BY <1>1, Numbers DEF TypeOK
<1>3. voiced' = Append(voiced, v) BY DEF FanoutFrame
<1>4. voiced' \in Seq(BOOLEAN) /\ Len(voiced') = Len(voiced) + 1
      /\ \A f \in 1 .. Len(voiced) : voiced'[f] = voiced[f]
  BY <1>2, <1>3
<1>5. Len(voiced) < MaxFrames BY DEF FanoutFrame
<1>6. UNCHANGED <<vadQueue, vadVars, shutdown, opened, current, speechState, asrDone, task>>
      /\ fanout = "select" /\ fanout' = "sending" /\ speechState = <<>> /\ ~shutdown
  BY DEF FanoutFrame, fanoutFrame, endVars, TakesFrame
<1>7. Found' = Found /\ Over' = Over BY <1>6 DEF vadVars, Found, Over
<1>8. Taken' = Taken BY <1>2, <1>4, <1>6 DEF Taken
<1>9. Len(voiced) \in Nat BY <1>2
<1>10. Len(voiced') <= MaxFrames BY <1>4, <1>5, <1>9, Thresholds
<1> QED BY <1>4, <1>6, <1>7, <1>8, <1>10 DEF Alive

\* The fanout hands the frame over; once the VAD is gone it is lost.
LEMMA SendMoves ==
    ASSUME FrontInv, FanoutSends
    PROVE  /\ fanout = "sending" /\ fanout' = "select"
           /\ Taken' >= Taken /\ Taken' \in Int
           /\ vad # "gone" => /\ Taken' = Taken /\ Len(vadQueue') = Len(vadQueue) + 1
                              /\ vadQueue' \in Seq(Frames) /\ Len(vadQueue') <= VadCap
                              /\ \A i \in DOMAIN vadQueue' :
                                    vadQueue'[i] = IF i = Len(vadQueue) + 1 THEN Len(voiced) ELSE vadQueue[i]
           /\ vad = "gone" => vadQueue' = vadQueue
           /\ UNCHANGED <<voiced, vadVars, shutdown, Found, Over, opened, current, speechState, asrDone, task,
                          preBuffer, captured>>
<1>1. TypeOK /\ Taken >= 0 BY DEF FrontInv
<1>2. vadQueue \in Seq(Frames) /\ Len(vadQueue) \in Nat /\ Len(voiced) \in Nat /\ Taken \in Int
  BY <1>1, Numbers DEF TypeOK
<1>3. UNCHANGED <<voiced, vadVars, shutdown, opened, current, speechState, asrDone, task, preBuffer, captured>>
      /\ fanout = "sending" /\ fanout' = "select"
  BY DEF FanoutSends, fanoutFrame, endVars
<1>4. Found' = Found /\ Over' = Over BY <1>3 DEF vadVars, Found, Over
<1>5. CASE vad = "gone"
  <2>1. vadQueue' = vadQueue BY <1>5 DEF FanoutSends
  <2>2. Taken' = Taken + 1 BY <1>2, <1>3, <2>1 DEF Taken
  <2> QED BY <1>2, <1>3, <1>4, <1>5, <2>1, <2>2
<1>6. CASE vad # "gone"
  <2>1. Len(vadQueue) < VadCap /\ vadQueue' = Append(vadQueue, Len(voiced)) BY <1>6 DEF FanoutSends
  <2>2. Len(voiced) \in Frames
    <3>1. Len(voiced) = Taken + Len(vadQueue) + 1 BY <1>2, <1>3 DEF Taken
    <3>2. Len(voiced) >= 1 BY <1>1, <1>2, <3>1
    <3>3. Len(voiced) <= MaxFrames BY <1>1 DEF TypeOK
    <3> QED BY <1>2, <3>2, <3>3, Thresholds DEF Frames
  <2>3. Len(vadQueue') = Len(vadQueue) + 1 /\ vadQueue' \in Seq(Frames)
        /\ \A i \in DOMAIN vadQueue' :
              vadQueue'[i] = IF i = Len(vadQueue) + 1 THEN Len(voiced) ELSE vadQueue[i]
    BY <1>2, <2>1, <2>2
  <2>4. Len(vadQueue') <= VadCap BY <1>2, <2>1, <2>3, Thresholds
  <2>5. Taken' = Taken BY <1>2, <1>3, <2>3 DEF Taken
  <2> QED BY <1>2, <1>3, <1>4, <1>6, <2>3, <2>4, <2>5
<1> QED BY <1>5, <1>6

\* The VAD takes the frame after the last it took.
LEMMA TakeMoves ==
    ASSUME FrontInv, VadTakes
    PROVE  /\ vad = "recv" /\ Head(vadQueue) = Taken + 1 /\ Taken + 1 \in 1 .. Len(voiced) /\ Taken + 1 \in Frames
           /\ Taken' = Taken + 1
           /\ vadQueue' \in Seq(Frames) /\ Len(vadQueue') <= VadCap
           /\ \A i \in DOMAIN vadQueue' : i + 1 \in DOMAIN vadQueue /\ vadQueue'[i] = vadQueue[i + 1]
           /\ UNCHANGED <<voiced, fanoutVars, asrDone, task, captured, endVars, speechState, eventVars>>
<1>1. TypeOK /\ Taken >= 0 BY DEF FrontInv
<1>2. vadQueue \in Seq(Frames) /\ Len(vadQueue) \in Nat /\ Len(voiced) \in Nat /\ Taken \in Int
      /\ Len(vadQueue) <= VadCap
  BY <1>1, Numbers DEF TypeOK
<1>3. UNCHANGED <<voiced, fanoutVars, asrDone, task, captured, endVars, speechState, eventVars>>
      /\ vad = "recv" /\ vadQueue # <<>> /\ vadQueue' = Tail(vadQueue)
  BY DEF VadTakes, vadFrame
<1>4. /\ Len(vadQueue') = Len(vadQueue) - 1 /\ vadQueue' \in Seq(Frames)
      /\ \A i \in DOMAIN vadQueue' : i + 1 \in DOMAIN vadQueue /\ vadQueue'[i] = vadQueue[i + 1]
      /\ Head(vadQueue) = vadQueue[1] /\ 1 \in DOMAIN vadQueue /\ Len(vadQueue) >= 1
  BY <1>2, <1>3
<1>5. Head(vadQueue) = Taken + 1 BY <1>3, <1>4 DEF FrontInv, CountersInv
<1>6. Taken' = Taken + 1 BY <1>2, <1>3, <1>4 DEF Taken, fanoutVars
<1>7. Taken + Len(vadQueue) <= Len(voiced) BY <1>2 DEF Taken
<1>8. Taken + 1 \in 1 .. Len(voiced) BY <1>1, <1>2, <1>4, <1>7
<1>9. Taken + 1 \in Frames BY <1>1, <1>2, <1>8, Thresholds DEF TypeOK, Frames
<1>10. Len(vadQueue') <= VadCap BY <1>2, <1>4, Thresholds
<1> QED BY <1>3, <1>4, <1>5, <1>6, <1>8, <1>9, <1>10

-----------------------------------------------------------------------------
(* The VAD's utterances. *)

\* The VAD takes a voiced frame, and perhaps finds an utterance.
LEMMA VoicedMoves ==
    ASSUME FrontInv, VadVoiced
    PROVE  /\ VadTakes /\ voiced[Taken + 1] /\ silentRun' = 0 /\ voicedRun' = voicedRun + 1
           /\ offset' = offset /\ Over' = Over
           /\ \/ /\ ~(~isSpeaking /\ voicedRun + 1 >= MinVoiced)
                 /\ UNCHANGED <<isSpeaking, vad, onset, Found>>
              \/ /\ ~isSpeaking /\ voicedRun + 1 = MinVoiced
                 /\ isSpeaking' = TRUE /\ vad' = "opening"
                 /\ onset' \in Seq(Frames) /\ Found' = Found + 1
                 /\ \A k \in 1 .. Found : onset'[k] = onset[k]
                 /\ onset'[Found + 1] = Taken + 1 - voicedRun
                 /\ onset'[Found + 1] + MinVoiced - 1 = Taken + 1
<1>1. VadTakes /\ voiced[Taken + 1] /\ silentRun' = 0 /\ voicedRun' = voicedRun + 1 /\ offset' = offset
  BY TakeMoves DEF VadVoiced
<1>2. TypeOK /\ vad # "gone" BY <1>1, TakeMoves DEF FrontInv
<1>3. CASE ~isSpeaking /\ voicedRun + 1 >= MinVoiced
  <2>1. isSpeaking' = TRUE /\ vad' = "opening" /\ onset' = Append(onset, Taken + 1 - voicedRun)
    <3>1. isSpeaking' = TRUE /\ vad' = "opening" /\ onset' = Append(onset, Head(vadQueue) - voicedRun)
      BY <1>3 DEF VadVoiced
    <3>2. Head(vadQueue) = Taken + 1 BY <1>1, TakeMoves
    <3>3. Head(vadQueue) - voicedRun = Taken + 1 - voicedRun
      <4>1. Taken \in Int /\ voicedRun \in Nat BY <1>2, Numbers
      <4> QED BY <3>2, <4>1
    <3>4. onset' = Append(onset, Taken + 1 - voicedRun) BY <3>1, <3>3
    <3> QED BY <3>1, <3>4
  <2>2. voicedRun < MinVoiced /\ voicedRun <= Taken BY <1>2, <1>3 DEF FrontInv, CountersInv
  <2>3. voicedRun \in Nat /\ Taken \in Int /\ Found \in Nat BY <1>2, Numbers
  <2>4. voicedRun + 1 = MinVoiced BY <1>3, <2>2, <2>3, Thresholds
  <2>5. Taken + 1 - voicedRun \in Frames
    <3>1. Taken + 1 \in Frames BY <1>1, TakeMoves
    <3> QED BY <2>2, <2>3, <3>1, Thresholds DEF Frames
  <2>6. onset \in Seq(Frames) BY <1>2 DEF TypeOK
  <2>7. onset' \in Seq(Frames) /\ Len(onset') = Len(onset) + 1
        /\ (\A k \in 1 .. Len(onset) : onset'[k] = onset[k])
        /\ onset'[Len(onset) + 1] = Taken + 1 - voicedRun
    BY <2>1, <2>5, <2>6
  <2>8. Found' = Found + 1 /\ (\A k \in 1 .. Found : onset'[k] = onset[k])
        /\ onset'[Found + 1] = Taken + 1 - voicedRun
    BY <2>7 DEF Found
  <2>9. onset'[Found + 1] + MinVoiced - 1 = Taken + 1
    BY <2>3, <2>4, <2>8, Thresholds
  <2> QED BY <1>1, <1>3, <2>1, <2>4, <2>7, <2>8, <2>9 DEF Over
<1>4. CASE ~(~isSpeaking /\ voicedRun + 1 >= MinVoiced)
  <2>1. UNCHANGED <<isSpeaking, vad, onset>> BY <1>4 DEF VadVoiced
  <2> QED BY <1>1, <1>4, <2>1 DEF Found, Over
<1> QED BY <1>3, <1>4

\* The VAD takes a silent frame, which is perhaps the last of an utterance.
LEMMA SilentMoves ==
    ASSUME FrontInv, VadSilent
    PROVE  /\ VadTakes /\ ~voiced[Taken + 1] /\ silentRun' = silentRun + 1
           /\ voicedRun' = IF isSpeaking' THEN voicedRun ELSE 0
           /\ onset' = onset /\ Found' = Found
           /\ \/ /\ ~(isSpeaking /\ silentRun + 1 >= MinSilent)
                 /\ UNCHANGED <<isSpeaking, vad, offset, Over>>
              \/ /\ isSpeaking /\ silentRun + 1 >= MinSilent
                 /\ isSpeaking' = FALSE /\ vad' = "ending"
                 /\ offset' \in Seq(Frames) /\ Over' = Over + 1
                 /\ \A k \in 1 .. Over : offset'[k] = offset[k]
                 /\ offset'[Over + 1] = Taken + 1
<1>1. VadTakes /\ ~voiced[Taken + 1] /\ silentRun' = silentRun + 1 /\ onset' = onset
      /\ voicedRun' = IF isSpeaking' THEN voicedRun ELSE 0
  BY TakeMoves DEF VadSilent
<1>2. TypeOK BY DEF FrontInv
<1>3. CASE isSpeaking /\ silentRun + 1 >= MinSilent
  <2>1. isSpeaking' = FALSE /\ vad' = "ending" /\ offset' = Append(offset, Taken + 1)
    BY <1>1, <1>3, TakeMoves DEF VadSilent
  <2>2. Taken + 1 \in Frames BY <1>1, TakeMoves
  <2>3. offset \in Seq(Frames) BY <1>2 DEF TypeOK
  <2>4. offset' \in Seq(Frames) /\ Len(offset') = Len(offset) + 1
        /\ (\A k \in 1 .. Len(offset) : offset'[k] = offset[k])
        /\ offset'[Len(offset) + 1] = Taken + 1
    BY <2>1, <2>2, <2>3
  <2> QED BY <1>1, <1>3, <2>1, <2>4 DEF Found, Over
<1>4. CASE ~(isSpeaking /\ silentRun + 1 >= MinSilent)
  <2>1. UNCHANGED <<isSpeaking, vad, offset>> BY <1>4 DEF VadSilent
  <2> QED BY <1>1, <1>4, <2>1 DEF Found, Over
<1> QED BY <1>3, <1>4

\* The last frames of an utterance, and those of a silence, are frames.
LEMMA PastFrames ==
    ASSUME FrontInv
    PROVE  /\ Taken <= Len(voiced)
           /\ \A k \in 1 .. Over : /\ offset[k] - MinSilent + 1 >= 1 /\ offset[k] <= Len(voiced)
                                   /\ k \in 1 .. Found
<1>1. TypeOK BY DEF FrontInv
<1>2. Taken <= Len(voiced) BY <1>1, Numbers DEF Taken
<1>3. ASSUME NEW k \in 1 .. Over
      PROVE  offset[k] - MinSilent + 1 >= 1 /\ offset[k] <= Len(voiced) /\ k \in 1 .. Found
  <2>1. Found >= Over BY <1>1, Numbers DEF FrontInv, VadInv
  <2>2. k \in 1 .. Found BY <1>1, <2>1, Numbers
  <2>3. Decision(k) + MinSilent <= offset[k] /\ offset[k] <= Taken BY DEF FrontInv, SpacingInv
  <2>4. onset[k] \in Nat /\ onset[k] >= 1 /\ offset[k] \in Nat BY <1>1, <2>2, Numbers
  <2>5. Decision(k) >= 1 /\ Decision(k) \in Int BY <2>4, Thresholds DEF Decision
  <2>6. Len(voiced) \in Nat /\ Taken \in Int BY <1>1, Numbers
  <2> QED BY <1>2, <2>2, <2>3, <2>4, <2>5, <2>6, Thresholds
<1> QED BY <1>2, <1>3

\* Utterances keep their frames, and new ones come after them.
LEMMA SpacingNext ==
    ASSUME FrontInv, [Next]_vars
    PROVE  SpacingInv'
<1>0. TypeOK /\ SpacingInv /\ Taken >= 0 BY DEF FrontInv
<1>n. /\ Found \in Nat /\ Over \in Nat /\ Taken \in Int /\ Len(voiced) \in Nat
      /\ \A k \in 1 .. Found : onset[k] \in Nat /\ Decision(k) \in Int
      /\ \A k \in 1 .. Over : offset[k] \in Nat
  BY <1>0, Numbers
<1>a. ASSUME NEW k \in 1 .. Found
      PROVE  onset[k] > (k - 1) * (MinVoiced + MinSilent) /\ Decision(k) <= Taken
             /\ (k > 1 => onset[k] > offset[k - 1])
  BY <1>0 DEF SpacingInv
<1>b. ASSUME NEW k \in 1 .. Over
      PROVE  Decision(k) + MinSilent <= offset[k] /\ offset[k] <= Taken
             /\ \A f \in offset[k] - MinSilent + 1 .. offset[k] : ~voiced[f]
  BY <1>0 DEF SpacingInv
<1>1. CASE ~Moving
  <2>1. UNCHANGED <<voiced, onset, offset, Taken, Found, Over>> BY <1>1, Still
  <2> QED BY <1>0, <2>1 DEF SpacingInv, Decision
<1>2. CASE \E v \in BOOLEAN : FanoutFrame(v)
  <2>1. PICK v \in BOOLEAN : FanoutFrame(v) BY <1>2
  <2>2. UNCHANGED <<onset, offset, Taken, Found, Over>> BY <2>1, FrameMoves DEF vadVars
  <2>3. \A f \in 1 .. Len(voiced) : voiced'[f] = voiced[f] BY <2>1, FrameMoves
  <2>4. \A k \in 1 .. Over : \A f \in offset[k] - MinSilent + 1 .. offset[k] : f \in 1 .. Len(voiced)
    BY <1>n, PastFrames, Thresholds
  <2>5. \A k \in 1 .. Over : \A f \in offset[k] - MinSilent + 1 .. offset[k] : ~voiced'[f]
    BY <1>b, <2>3, <2>4
  <2> QED BY <1>a, <1>b, <2>2, <2>5 DEF SpacingInv, Decision
<1>3. CASE FanoutSends
  <2>1. UNCHANGED <<voiced, onset, offset, Found, Over>> /\ Taken' >= Taken /\ Taken' \in Int
    BY <1>3, SendMoves DEF vadVars
  <2>2. \A k \in 1 .. Found : Decision(k) <= Taken' BY <1>a, <1>n, <2>1
  <2>3. \A k \in 1 .. Over : offset[k] <= Taken' BY <1>b, <1>n, <2>1
  <2> QED BY <1>a, <1>b, <2>1, <2>2, <2>3 DEF SpacingInv, Decision
<1>4. CASE VadVoiced
  <2>1. /\ voiced' = voiced /\ offset' = offset /\ Over' = Over /\ Taken' = Taken + 1 /\ vad # "gone"
    BY <1>4, VoicedMoves, TakeMoves
  <2>2. CASE UNCHANGED <<onset, Found>>
    <3>1. \A k \in 1 .. Found : Decision(k) <= Taken + 1 BY <1>a, <1>n
    <3>2. \A k \in 1 .. Over : offset[k] <= Taken + 1 BY <1>b, <1>n
    <3> QED BY <1>a, <1>b, <2>1, <2>2, <3>1, <3>2 DEF SpacingInv, Decision
  <2>3. CASE ~UNCHANGED <<onset, Found>>
    <3>1. /\ ~isSpeaking /\ Found' = Found + 1
          /\ \A k \in 1 .. Found : onset'[k] = onset[k]
          /\ onset'[Found + 1] = Taken + 1 - voicedRun
          /\ onset'[Found + 1] + MinVoiced - 1 = Taken + 1
      BY <1>4, <2>3, VoicedMoves
    <3>2. Found = Over /\ voicedRun <= Taken /\ voicedRun \in Nat
      BY <1>0, <1>n, <2>1, <3>1, Numbers DEF FrontInv, VadInv, CountersInv
    <3>3. Found > 0 => offset[Found] + voicedRun <= Taken
      BY <2>1, <3>1, <3>2 DEF FrontInv, CountersInv
    <3>4. onset'[Found + 1] > Found * (MinVoiced + MinSilent)
      <4>1. CASE Found = 0
        <5>1. 0 * (MinVoiced + MinSilent) = 0 BY Thresholds
        <5> QED BY <1>n, <3>1, <3>2, <4>1, <5>1
      <4>2. CASE Found > 0
        <5>1. Found \in 1 .. Found /\ Found \in 1 .. Over BY <1>n, <3>2, <4>2
        <5>2. onset[Found] > (Found - 1) * (MinVoiced + MinSilent) BY <1>a, <5>1
        <5>3. offset[Found] >= onset[Found] + MinVoiced - 1 + MinSilent BY <1>b, <5>1 DEF Decision
        <5>4. (Found - 1) * (MinVoiced + MinSilent) + (MinVoiced + MinSilent)
                = Found * (MinVoiced + MinSilent)
          BY <1>n, Thresholds
        <5> DEFINE w == (Found - 1) * (MinVoiced + MinSilent)
                   z == Found * (MinVoiced + MinSilent)
        <5>5. w \in Int /\ z \in Int /\ w + (MinVoiced + MinSilent) = z BY <1>n, <5>4, Thresholds
        <5>6. onset[Found] > w BY <5>2
        <5>7. onset[Found] \in Nat /\ offset[Found] \in Nat BY <1>n, <5>1
        <5> HIDE DEF w, z
        <5>8. onset'[Found + 1] > z
          <6>1. onset'[Found + 1] = Taken + 1 - voicedRun BY <3>1
          <6>2. offset[Found] + voicedRun <= Taken BY <3>3, <4>2
          <6>3. voicedRun \in Nat /\ Taken \in Int BY <1>n, <3>2
          <6>4. MinVoiced \in Nat /\ MinSilent \in Nat BY Thresholds
          <6> QED BY <5>3, <5>5, <5>6, <5>7, <6>1, <6>2, <6>3, <6>4
        <5> QED BY <5>8 DEF z
      <4> QED BY <1>n, <4>1, <4>2
    <3>5. ASSUME NEW k \in 1 .. Found'
          PROVE  onset'[k] > (k - 1) * (MinVoiced + MinSilent) /\ Decision(k)' <= Taken'
                 /\ (k > 1 => onset'[k] > offset'[k - 1])
      <4>1. CASE k = Found + 1
        <5>1. k > 1 => offset[k - 1] \in Nat BY <1>n, <3>2, <4>1
        <5>2. k > 1 => onset'[k] > offset[k - 1] BY <1>n, <3>1, <3>2, <3>3, <4>1, <5>1
        <5>3. k - 1 = Found BY <1>n, <4>1
        <5>4. Decision(k)' = Taken + 1 BY <3>1, <4>1 DEF Decision
        <5> QED BY <1>n, <2>1, <3>4, <4>1, <5>2, <5>3, <5>4
      <4>2. CASE k # Found + 1
        <5>1. k \in 1 .. Found BY <1>n, <3>1, <4>2
        <5>2. onset'[k] = onset[k] BY <3>1, <5>1
        <5> QED BY <1>a, <1>n, <2>1, <5>1, <5>2 DEF Decision
      <4> QED BY <4>1, <4>2
    <3>6. ASSUME NEW k \in 1 .. Over
          PROVE  Decision(k)' + MinSilent <= offset[k] /\ offset[k] <= Taken'
      <4>1. k \in 1 .. Found BY <3>2
      <4>2. onset'[k] = onset[k] BY <3>1, <4>1
      <4> QED BY <1>b, <1>n, <2>1, <4>1, <4>2 DEF Decision
    <3> QED BY <1>b, <2>1, <3>5, <3>6 DEF SpacingInv
  <2> QED BY <2>2, <2>3
<1>5. CASE VadSilent
  <2>1. /\ voiced' = voiced /\ onset' = onset /\ Found' = Found /\ Taken' = Taken + 1 /\ vad # "gone"
    BY <1>5, SilentMoves, TakeMoves
  <2>2. CASE UNCHANGED <<offset, Over>>
    <3>1. \A k \in 1 .. Found : Decision(k) <= Taken + 1 BY <1>a, <1>n
    <3>2. \A k \in 1 .. Over : offset[k] <= Taken + 1 BY <1>b, <1>n
    <3> QED BY <1>a, <1>b, <2>1, <2>2, <3>1, <3>2 DEF SpacingInv, Decision
  <2>3. CASE ~UNCHANGED <<offset, Over>>
    <3>1. /\ isSpeaking /\ silentRun + 1 >= MinSilent /\ Over' = Over + 1
          /\ \A k \in 1 .. Over : offset'[k] = offset[k]
          /\ offset'[Over + 1] = Taken + 1 /\ ~voiced[Taken + 1]
      BY <1>5, <2>3, SilentMoves
    <3>2. Found = Over + 1 /\ silentRun \in Nat
      BY <1>0, <3>1, Numbers DEF FrontInv, VadInv
    <3>3. Decision(Found) + silentRun <= Taken /\ \A f \in Taken - silentRun + 1 .. Taken : ~voiced[f]
      BY <2>1, <3>1 DEF FrontInv, CountersInv
    <3>4. ASSUME NEW k \in 1 .. Found
          PROVE  Decision(k) <= Taken' /\ (k > 1 => onset[k] > offset'[k - 1])
      <4>1. k > 1 => k - 1 \in 1 .. Over BY <1>n, <3>2
      <4>2. k > 1 => offset'[k - 1] = offset[k - 1] BY <3>1, <4>1
      <4> QED BY <1>a, <1>n, <2>1, <4>2
    <3>5. ASSUME NEW k \in 1 .. Over'
          PROVE  Decision(k) + MinSilent <= offset'[k] /\ offset'[k] <= Taken'
                 /\ \A f \in offset'[k] - MinSilent + 1 .. offset'[k] : ~voiced[f]
      <4>1. CASE k = Over + 1
        <5>1. \A f \in Taken + 1 - MinSilent + 1 .. Taken + 1 :
                 f = Taken + 1 \/ f \in Taken - silentRun + 1 .. Taken
          BY <1>n, <3>1, <3>2, Thresholds
        <5>2. \A f \in Taken + 1 - MinSilent + 1 .. Taken + 1 : ~voiced[f] BY <3>1, <3>3, <5>1
        <5>3. Decision(k) \in Int BY <1>n, <3>2, <4>1
        <5>4. Decision(k) + MinSilent <= Taken + 1
          BY <1>n, <3>1, <3>2, <3>3, <4>1, <5>3, Thresholds
        <5>5. offset'[k] = Taken + 1 BY <3>1, <4>1
        <5>6. Decision(k) + MinSilent <= Taken + 1 /\ Taken + 1 <= Taken' BY <1>n, <2>1, <5>4
        <5>7. Decision(k) + MinSilent <= offset'[k] /\ offset'[k] <= Taken' BY <5>5, <5>6
        <5>8. \A f \in offset'[k] - MinSilent + 1 .. offset'[k] : ~voiced[f]
          <6>1. offset'[k] - MinSilent + 1 = Taken + 1 - MinSilent + 1 BY <1>n, <5>5, Thresholds
          <6> QED BY <5>2, <5>5, <6>1
        <5> QED BY <5>7, <5>8
      <4>2. CASE k # Over + 1
        <5>1. k \in 1 .. Over BY <1>n, <3>1, <4>2
        <5>2. offset'[k] = offset[k] BY <3>1, <5>1
        <5> QED BY <1>b, <1>n, <2>1, <5>1, <5>2
      <4> QED BY <4>1, <4>2
    <3> QED BY <1>a, <2>1, <3>4, <3>5 DEF SpacingInv, Decision
  <2> QED BY <2>2, <2>3
<1> QED BY <1>1, <1>2, <1>3, <1>4, <1>5 DEF Moving

\* What is over stays over.
LEMMA StaysGone ==
    ASSUME [Next]_vars
    PROVE  (fanout = "gone" => fanout' = "gone") /\ (shutdown => shutdown') /\ (Alive' => Alive)
<1>1. (fanout = "gone" => fanout' = "gone") /\ (shutdown => shutdown')
  <2>1. CASE UNCHANGED vars
    BY <2>1 DEF vars, fanoutVars, endVars
  <2>2. CASE FanoutStep \/ \E v \in BOOLEAN : FanoutFrame(v)
    <3>1. shutdown' = shutdown
      BY <2>2 DEF FanoutStep, FanoutReapsTask, FanoutOpens, FanoutCloses, FanoutHears, FanoutSends, FanoutStops,
                  FanoutFrame, fanoutFrame, endVars
    <3>2. fanout # "gone"
      BY <2>2 DEF FanoutStep, FanoutReapsTask, FanoutOpens, FanoutCloses, FanoutHears, FanoutSends, FanoutStops,
                  FanoutFrame, TakesFrame
    <3> QED
      BY <3>1, <3>2
  <2>3. CASE VadStep
    BY <2>3 DEF VadStep, VadVoiced, VadSilent, VadTakes, VadOpens, VadStarts, VadEnds, VadStreamEnds, VadLast,
                VadCancelled, VadMoves, vadFrame, fanoutVars, endVars
  <2>4. CASE \E u \in Utterances : AsrStep(u)
    BY <2>4 DEF AsrStep, AsrCollected, AsrPartial, AsrFinal, AsrFails, AsrCancelled, AsrReports,
                TaskMoves, asrFrame, fanoutVars, endVars
  <2>5. CASE DrainBus \/ AudioEnds \/ Shutdown
    BY <2>5 DEF DrainBus, AudioEnds, Shutdown, fanoutVars, endVars
  <2> QED
    BY <2>1, <2>2, <2>3, <2>4, <2>5 DEF Next
<1> QED
  BY <1>1 DEF Alive

\* Only the VAD's steps change what it says.
LEMMA OthersLeaveVad ==
    ASSUME [Next]_vars, ~VadStep
    PROVE  UNCHANGED <<vadVars, started, ended, Found, Over>>
<1>1. UNCHANGED <<vadVars, started, ended>>
  <2>1. CASE UNCHANGED vars
    BY <2>1 DEF vars, eventVars
  <2>2. CASE FanoutStep \/ \E v \in BOOLEAN : FanoutFrame(v)
    BY <2>2 DEF FanoutStep, FanoutReapsTask, FanoutOpens, FanoutCloses, FanoutHears, FanoutSends, FanoutStops,
                FanoutFrame, fanoutFrame, eventVars
  <2>3. CASE \E u \in Utterances : AsrStep(u)
    BY <2>3 DEF AsrStep, AsrCollected, AsrPartial, AsrFinal, AsrFails, AsrCancelled, AsrReports,
                TaskMoves, asrFrame
  <2>4. CASE DrainBus \/ AudioEnds \/ Shutdown
    BY <2>4 DEF DrainBus, AudioEnds, Shutdown, eventVars
  <2> QED
    BY <2>1, <2>2, <2>3, <2>4 DEF Next
<1> QED
  BY <1>1 DEF vadVars, Found, Over

\* The VAD never takes fewer frames than it has taken.
LEMMA TakenNext ==
    ASSUME FrontInv, [Next]_vars
    PROVE  Taken' >= 0
<1>1. Taken >= 0 /\ Taken \in Int BY Numbers DEF FrontInv
<1>2. CASE ~Moving BY <1>1, <1>2, Still
<1>3. CASE \E v \in BOOLEAN : FanoutFrame(v)
  <2>1. Taken' = Taken BY <1>3, FrameMoves
  <2> QED BY <1>1, <2>1
<1>4. CASE FanoutSends
  <2>1. Taken' >= Taken /\ Taken' \in Int BY <1>4, SendMoves
  <2> QED BY <1>1, <2>1
<1>5. CASE VadVoiced \/ VadSilent
  <2>1. Taken' = Taken + 1 BY <1>5, TakeMoves DEF VadVoiced, VadSilent
  <2> QED BY <1>1, <2>1
<1> QED BY <1>2, <1>3, <1>4, <1>5 DEF Moving

\* What the VAD has announced follows from where it is.
LEMMA VadNext ==
    ASSUME FrontInv, [Next]_vars
    PROVE  VadInv'
<1>0. TypeOK /\ VadInv BY DEF FrontInv
<1>n. Found \in Nat /\ Over \in Nat /\ started \in Nat /\ ended \in Nat BY <1>0, Numbers
<1>1. CASE ~VadStep
  BY <1>0, <1>1, OthersLeaveVad, StaysGone DEF VadInv, vadVars
<1>2. CASE VadVoiced
  <2>1. /\ vad = "recv" /\ vad' \in {"recv", "opening"} /\ UNCHANGED <<started, ended, fanout, shutdown, Over>>
        /\ (vad' = "recv" => isSpeaking' = isSpeaking /\ Found' = Found)
        /\ (vad' = "opening" => ~isSpeaking /\ isSpeaking' /\ Found' = Found + 1)
    BY <1>2, VoicedMoves, TakeMoves DEF eventVars, fanoutVars, endVars
  <2> QED BY <1>0, <1>n, <2>1 DEF VadInv
<1>3. CASE VadSilent
  <2>1. /\ vad = "recv" /\ vad' \in {"recv", "ending"} /\ UNCHANGED <<started, ended, fanout, shutdown, Found>>
        /\ (vad' = "recv" => isSpeaking' = isSpeaking /\ Over' = Over)
        /\ (vad' = "ending" => isSpeaking /\ ~isSpeaking' /\ Over' = Over + 1)
    BY <1>3, SilentMoves, TakeMoves DEF eventVars, fanoutVars, endVars
  <2> QED BY <1>0, <1>n, <2>1 DEF VadInv
<1>4. CASE VadStep /\ ~VadVoiced /\ ~VadSilent
  <2>1. UNCHANGED <<isSpeaking, fanout, shutdown, Found, Over>>
    BY <1>4 DEF VadStep, VadOpens, VadStarts, VadEnds, VadStreamEnds, VadLast, VadCancelled, VadMoves,
                vadFrame, fanoutVars, endVars, Found, Over
  <2>2. CASE VadOpens
    <3>1. vad = "opening" /\ vad' = "starting" /\ UNCHANGED <<started, ended>>
      BY <2>2 DEF VadOpens, VadMoves, eventVars
    <3> QED BY <1>0, <1>n, <2>1, <3>1 DEF VadInv
  <2>3. CASE VadStarts
    <3>1. vad = "starting" /\ vad' = "recv" /\ started' = started + 1 /\ ended' = ended
      BY <2>3 DEF VadStarts, VadMoves
    <3> QED BY <1>0, <1>n, <2>1, <3>1 DEF VadInv
  <2>4. CASE VadEnds
    <3>1. \/ vad = "ending" /\ vad' = "closing" /\ ended' = ended + 1 /\ started' = started
          \/ vad = "closing" /\ vad' = "recv" /\ UNCHANGED <<started, ended>>
      BY <2>4 DEF VadEnds, VadMoves, eventVars
    <3> QED BY <1>0, <1>n, <2>1, <3>1 DEF VadInv
  <2>5. CASE VadStreamEnds
    <3>1. fanout = "gone" /\ vad = "recv" /\ vad' = (IF isSpeaking THEN "last" ELSE "gone")
          /\ UNCHANGED <<started, ended>>
      BY <2>5 DEF VadStreamEnds, VadMoves, eventVars
    <3> QED BY <1>0, <1>n, <2>1, <3>1 DEF VadInv, Alive
  <2>6. CASE VadLast
    <3>1. vad = "last" /\ vad' = "gone" /\ ended' = ended + 1 /\ started' = started
      BY <2>6 DEF VadLast, VadMoves
    <3> QED BY <1>0, <1>n, <2>1, <3>1 DEF VadInv, Alive
  <2>7. CASE VadCancelled
    <3>1. shutdown /\ vad' = "gone" /\ UNCHANGED <<started, ended>>
      BY <2>7 DEF VadCancelled, VadMoves, eventVars
    <3> QED BY <1>0, <1>n, <2>1, <3>1 DEF VadInv, Alive
  <2> QED BY <1>4, <2>2, <2>3, <2>4, <2>5, <2>6, <2>7 DEF VadStep
<1> QED BY <1>1, <1>2, <1>3, <1>4

\* The VAD's counters count the frames since its last decision.
LEMMA CountersNext ==
    ASSUME FrontInv, [Next]_vars
    PROVE  CountersInv'
<1>0. TypeOK /\ VadInv /\ SpacingInv /\ CountersInv /\ Taken >= 0 BY DEF FrontInv
<1>n. /\ Found \in Nat /\ Over \in Nat /\ Taken \in Int /\ Len(voiced) \in Nat /\ Len(vadQueue) \in Nat
      /\ voicedRun \in Nat /\ silentRun \in Nat
      /\ \A k \in 1 .. Over : offset[k] \in Nat
  BY <1>0, Numbers
<1>1. CASE ~Moving
  <2>1. UNCHANGED <<voiced, vadQueue, isSpeaking, voicedRun, silentRun, onset, offset, Taken, Found, Over>>
    BY <1>1, Still
  <2>2. vad' = "opening" => vad = "opening"
    <3>1. CASE ~VadStep BY <3>1, OthersLeaveVad DEF vadVars
    <3>2. CASE VadStep
      BY <1>1, <3>2 DEF VadStep, Moving, VadOpens, VadStarts, VadEnds, VadStreamEnds, VadLast, VadCancelled,
                        VadMoves
    <3> QED BY <3>1, <3>2
  <2>3. vad' # "gone" => vad # "gone"
    <3>1. CASE ~VadStep BY <3>1, OthersLeaveVad DEF vadVars
    <3>2. CASE VadStep
      BY <1>1, <3>2 DEF VadStep, Moving, VadOpens, VadStarts, VadEnds, VadStreamEnds, VadLast, VadCancelled,
                        VadMoves
    <3> QED BY <3>1, <3>2
  <2> QED BY <1>0, <2>1, <2>2, <2>3 DEF CountersInv, Decision
<1>2. CASE \E v \in BOOLEAN : FanoutFrame(v)
  <2>1. PICK v \in BOOLEAN : FanoutFrame(v) BY <1>2
  <2>2. UNCHANGED <<vad, vadQueue, isSpeaking, voicedRun, silentRun, onset, offset, Taken, Found, Over>>
        /\ \A f \in 1 .. Len(voiced) : voiced'[f] = voiced[f]
    BY <2>1, FrameMoves DEF vadVars
  <2>3. vad # "gone" /\ isSpeaking => \A f \in Taken - silentRun + 1 .. Taken : f \in 1 .. Len(voiced)
    <3> SUFFICES ASSUME vad # "gone", isSpeaking, NEW f \in Taken - silentRun + 1 .. Taken
                 PROVE  f \in 1 .. Len(voiced)
      OBVIOUS
    <3>1. Decision(Found) + silentRun <= Taken BY <1>0 DEF CountersInv
    <3>2. Found \in 1 .. Found BY <1>0, <1>n DEF VadInv
    <3>3. onset[Found] \in Nat /\ onset[Found] >= 1 BY <1>0, <3>2, Numbers
    <3>4. Decision(Found) \in Int /\ Decision(Found) >= 1 BY <3>3, Thresholds DEF Decision
    <3>5. Taken <= Len(voiced) BY PastFrames
    <3> QED BY <1>n, <3>1, <3>4, <3>5
  <2> QED BY <1>0, <2>2, <2>3 DEF CountersInv, Decision
<1>3. CASE FanoutSends
  <2>1. CASE vad = "gone"
    <3>1. vad' = "gone" BY <1>3, <2>1, SendMoves DEF vadVars
    <3> QED BY <3>1 DEF CountersInv
  <2>2. CASE vad # "gone"
    <3>1. UNCHANGED <<voiced, vad, isSpeaking, voicedRun, silentRun, onset, offset, Taken, Found, Over>>
      BY <1>3, <2>2, SendMoves DEF vadVars
    <3>2. /\ Len(vadQueue') = Len(vadQueue) + 1 /\ vadQueue' \in Seq(Frames)
          /\ \A i \in DOMAIN vadQueue' :
                vadQueue'[i] = IF i = Len(vadQueue) + 1 THEN Len(voiced) ELSE vadQueue[i]
      BY <1>3, <2>2, SendMoves
    <3>3. \A i \in DOMAIN vadQueue' : vadQueue'[i] = Taken + i
      <4> SUFFICES ASSUME NEW i \in DOMAIN vadQueue' PROVE vadQueue'[i] = Taken + i
        OBVIOUS
      <4>1. i \in Nat /\ i >= 1 /\ i <= Len(vadQueue) + 1 BY <3>2
      <4>2. CASE i = Len(vadQueue) + 1
        <5>1. Len(voiced) = Taken + Len(vadQueue) + 1 BY <1>n, <1>3, SendMoves DEF Taken
        <5> QED BY <1>n, <3>2, <4>2, <5>1
      <4>3. CASE i # Len(vadQueue) + 1
        <5>1. vadQueue \in Seq(Frames) BY <1>0 DEF TypeOK
        <5>2. i \in DOMAIN vadQueue BY <1>n, <4>1, <4>3, <5>1
        <5> QED BY <1>0, <2>2, <3>2, <4>3, <5>2 DEF CountersInv
      <4> QED BY <4>2, <4>3
    <3> QED BY <1>0, <2>2, <3>1, <3>3 DEF CountersInv, Decision
  <2> QED BY <2>1, <2>2
<1>4. ASSUME VadTakes
      PROVE  \A i \in DOMAIN vadQueue' : vadQueue'[i] = Taken' + i
  <2>1. /\ Taken' = Taken + 1 /\ vad # "gone"
        /\ \A i \in DOMAIN vadQueue' : i + 1 \in DOMAIN vadQueue /\ vadQueue'[i] = vadQueue[i + 1]
        /\ vadQueue' \in Seq(Frames)
    BY <1>4, TakeMoves
  <2>2. \A i \in DOMAIN vadQueue' : i \in Nat BY <2>1
  <2>3. \A i \in DOMAIN vadQueue' : vadQueue'[i] = Taken + (i + 1)
    BY <1>0, <2>1 DEF CountersInv
  <2> QED BY <1>n, <2>1, <2>2, <2>3
<1>5. CASE VadVoiced
  <2>1. /\ VadTakes /\ vad = "recv" /\ Taken' = Taken + 1 /\ silentRun' = 0 /\ voicedRun' = voicedRun + 1
        /\ UNCHANGED <<voiced, offset, Over>>
    BY <1>5, VoicedMoves, TakeMoves
  <2>2. \A f \in Taken' - silentRun' + 1 .. Taken' : ~voiced'[f] BY <1>n, <2>1
  <2>3. CASE UNCHANGED <<isSpeaking, vad, onset, Found>> /\ ~(~isSpeaking /\ voicedRun + 1 >= MinVoiced)
    <3>1. ~isSpeaking => voicedRun' < MinVoiced /\ voicedRun' <= Taken'
      <4> SUFFICES ASSUME ~isSpeaking PROVE voicedRun' < MinVoiced /\ voicedRun' <= Taken'
        OBVIOUS
      <4>1. voicedRun <= Taken BY <1>0, <2>1 DEF CountersInv
      <4> QED BY <1>n, <2>1, <2>3, <4>1, Thresholds
    <3>2. ~isSpeaking /\ Over > 0 => offset[Over] + voicedRun' <= Taken'
      <4> SUFFICES ASSUME ~isSpeaking, Over > 0 PROVE offset[Over] + voicedRun' <= Taken'
        OBVIOUS
      <4>1. offset[Over] + voicedRun <= Taken BY <1>0, <2>1 DEF CountersInv
      <4>2. offset[Over] \in Nat BY <1>n
      <4> QED BY <1>n, <2>1, <4>1, <4>2
    <3>3. isSpeaking => Decision(Found)' + silentRun' <= Taken'
      <4> SUFFICES ASSUME isSpeaking PROVE Decision(Found)' + silentRun' <= Taken'
        OBVIOUS
      <4>1. Found \in 1 .. Found BY <1>0, <1>n DEF VadInv
      <4>2. Decision(Found) <= Taken BY <1>0, <4>1 DEF SpacingInv
      <4>3. Decision(Found) \in Int BY <1>0, <4>1, Numbers
      <4>4. Decision(Found)' = Decision(Found) BY <2>3 DEF Decision
      <4> QED BY <1>n, <2>1, <4>2, <4>3, <4>4
    <3>4. vad' # "opening" BY <2>1, <2>3
    <3> QED BY <1>4, <2>1, <2>2, <2>3, <3>1, <3>2, <3>3, <3>4 DEF CountersInv
  <2>4. CASE ~(UNCHANGED <<isSpeaking, vad, onset, Found>> /\ ~(~isSpeaking /\ voicedRun + 1 >= MinVoiced))
    <3>1. isSpeaking' = TRUE /\ Found' = Found + 1 /\ onset'[Found + 1] + MinVoiced - 1 = Taken + 1
      BY <1>5, <2>4, VoicedMoves
    <3>2. Decision(Found)' = Taken' BY <2>1, <3>1 DEF Decision
    <3>3. Decision(Found)' + silentRun' <= Taken' BY <1>n, <2>1, <3>2
    <3> QED BY <1>4, <2>1, <2>2, <3>1, <3>2, <3>3 DEF CountersInv
  <2> QED BY <2>3, <2>4
<1>6. CASE VadSilent
  <2>1. /\ VadTakes /\ vad = "recv" /\ Taken' = Taken + 1 /\ silentRun' = silentRun + 1 /\ ~voiced[Taken + 1]
        /\ voicedRun' = (IF isSpeaking' THEN voicedRun ELSE 0)
        /\ UNCHANGED <<voiced, onset, Found>>
    BY <1>6, SilentMoves, TakeMoves
  <2>2. CASE UNCHANGED <<isSpeaking, vad, offset, Over>> /\ ~(isSpeaking /\ silentRun + 1 >= MinSilent)
    <3>1. ~isSpeaking => voicedRun' = 0 /\ voicedRun' < MinVoiced /\ voicedRun' <= Taken'
      BY <1>0, <1>n, <2>1, <2>2, Thresholds
    <3>2. ~isSpeaking /\ Over > 0 => offset[Over] + voicedRun' <= Taken'
      <4> SUFFICES ASSUME ~isSpeaking, Over > 0 PROVE offset[Over] + voicedRun' <= Taken'
        OBVIOUS
      <4>1. offset[Over] + voicedRun <= Taken BY <1>0, <2>1 DEF CountersInv
      <4>2. offset[Over] \in Nat BY <1>n
      <4> QED BY <1>n, <2>1, <3>1, <4>1, <4>2
    <3>3. isSpeaking => Decision(Found)' + silentRun' <= Taken'
      <4> SUFFICES ASSUME isSpeaking PROVE Decision(Found)' + silentRun' <= Taken'
        OBVIOUS
      <4>1. Found \in 1 .. Found BY <1>0, <1>n DEF VadInv
      <4>2. Decision(Found) + silentRun <= Taken BY <1>0, <2>1 DEF CountersInv
      <4>3. Decision(Found) \in Int BY <1>0, <4>1, Numbers
      <4>4. Decision(Found)' = Decision(Found) BY <2>1 DEF Decision
      <4> QED BY <1>n, <2>1, <4>2, <4>3, <4>4
    <3>4. isSpeaking => \A f \in Taken' - silentRun' + 1 .. Taken' : ~voiced'[f]
      <4> SUFFICES ASSUME isSpeaking, NEW f \in Taken' - silentRun' + 1 .. Taken' PROVE ~voiced'[f]
        OBVIOUS
      <4>1. \A g \in Taken - silentRun + 1 .. Taken : ~voiced[g] BY <1>0, <2>1 DEF CountersInv
      <4>2. f = Taken + 1 \/ f \in Taken - silentRun + 1 .. Taken BY <1>n, <2>1
      <4> QED BY <2>1, <4>1, <4>2
    <3>5. vad' # "opening" BY <2>1, <2>2
    <3> QED BY <1>4, <2>1, <2>2, <3>1, <3>2, <3>3, <3>4, <3>5 DEF CountersInv
  <2>3. CASE ~(UNCHANGED <<isSpeaking, vad, offset, Over>> /\ ~(isSpeaking /\ silentRun + 1 >= MinSilent))
    <3>1. isSpeaking' = FALSE /\ vad' = "ending" /\ Over' = Over + 1 /\ offset'[Over + 1] = Taken + 1
      BY <1>6, <2>3, SilentMoves
    <3>2. voicedRun' = 0 BY <2>1, <3>1
    <3>3. voicedRun' < MinVoiced /\ voicedRun' <= Taken' BY <1>0, <1>n, <2>1, <3>2, Thresholds
    <3>4. offset'[Over'] + voicedRun' <= Taken' BY <1>n, <2>1, <3>1, <3>2
    <3> QED BY <1>4, <2>1, <3>1, <3>3, <3>4 DEF CountersInv
  <2> QED BY <2>2, <2>3
<1> QED BY <1>1, <1>2, <1>3, <1>5, <1>6 DEF Moving

-----------------------------------------------------------------------------
(* What the fanout hears of them. *)

\* Changes of the speech state alternate, so that one of each kind is heard in turn.
LEMMA HearsIs ==
    ASSUME FrontInv, NEW b \in BOOLEAN, FanoutHears(b)
    PROVE  /\ Alive /\ fanout = "select" /\ asrDone = <<>>
           /\ current.open = ~b
           /\ b => opened + 1 <= Found /\ Len(speechState) >= 1
                   /\ HeardChanges + 1 <= ToldChanges /\ HeardChanges = 2 * opened
           /\ speechState' \in Seq(BOOLEAN) /\ Len(speechState') = Len(speechState) - 1
           /\ \A i \in DOMAIN speechState' : speechState'[i] <=> (HeardChanges + 1 + i) % 2 = 1
           /\ UNCHANGED <<voiced, fanout, vadQueue, asrDone, vadVars, started, ended, bus, shutdown, audioEnded>>
           /\ Found' = Found /\ Over' = Over /\ Pending' = Pending
<1>0. TypeOK /\ VadInv /\ ChangesInv BY DEF FrontInv
<1>1. /\ fanout = "select" /\ ~shutdown /\ asrDone = <<>> /\ speechState # <<>> /\ Head(speechState) = b
      /\ speechState' = Tail(speechState)
      /\ UNCHANGED <<voiced, fanout, vadQueue, asrDone, vadVars, started, ended, bus, shutdown, audioEnded>>
  BY DEF FanoutHears, fanoutFrame, eventVars, endVars
<1>2. Alive BY <1>1 DEF Alive
<1>3. Found' = Found /\ Over' = Over /\ Pending' = Pending BY <1>1 DEF vadVars, Found, Over, Pending
<1>4. speechState \in Seq(BOOLEAN) BY <1>0 DEF TypeOK
<1>5. /\ speechState' \in Seq(BOOLEAN) /\ Len(speechState') = Len(speechState) - 1
      /\ \A i \in DOMAIN speechState' : i \in Nat /\ i + 1 \in DOMAIN speechState
                                         /\ speechState'[i] = speechState[i + 1]
      /\ 1 \in DOMAIN speechState /\ Head(speechState) = speechState[1] /\ Len(speechState) >= 1
  BY <1>1, <1>4
<1>6. /\ Len(speechState) = ToldChanges - HeardChanges
      /\ \A i \in DOMAIN speechState : speechState[i] <=> (HeardChanges + i) % 2 = 1
  BY <1>0, <1>2 DEF ChangesInv
<1>7. b <=> (HeardChanges + 1) % 2 = 1 BY <1>1, <1>5, <1>6
<1>8. opened \in Nat /\ HeardChanges \in Int /\ Found \in Nat /\ Over \in Nat /\ Pending \in 0 .. 1
      /\ Len(speechState) \in Nat
  BY <1>0, Numbers
<1>9. current.open \in BOOLEAN BY <1>0 DEF TypeOK
<1>10. ASSUME current.open PROVE ~b
  <2>1. HeardChanges + 1 = 2 * opened BY <1>8, <1>10 DEF HeardChanges
  <2> QED BY <1>7, <1>8, <2>1
<1>11. ASSUME ~current.open PROVE b /\ HeardChanges = 2 * opened
  <2>1. HeardChanges = 2 * opened BY <1>8, <1>11 DEF HeardChanges
  <2> QED BY <1>7, <1>8, <2>1
<1>12. b => HeardChanges = 2 * opened BY <1>10, <1>11
<1>t. ToldChanges = Found + Over - Pending /\ ToldChanges \in Int BY <1>8 DEF ToldChanges
<1>13. HeardChanges + 1 <= ToldChanges BY <1>5, <1>6, <1>8, <1>t
<1>14. Over <= Found BY <1>0, <1>8 DEF VadInv
<1>15. b => opened + 1 <= Found BY <1>8, <1>12, <1>13, <1>14, <1>t
<1>16. \A i \in DOMAIN speechState' : speechState'[i] <=> (HeardChanges + 1 + i) % 2 = 1
  <2> SUFFICES ASSUME NEW i \in DOMAIN speechState'
               PROVE  speechState'[i] <=> (HeardChanges + 1 + i) % 2 = 1
    OBVIOUS
  <2>1. i \in Nat /\ i + 1 \in DOMAIN speechState /\ speechState'[i] = speechState[i + 1] BY <1>5
  <2>2. speechState[i + 1] <=> (HeardChanges + (i + 1)) % 2 = 1 BY <1>6, <2>1
  <2>3. HeardChanges + (i + 1) = HeardChanges + 1 + i BY <1>8, <2>1
  <2> QED BY <2>1, <2>2, <2>3
<1>17. current.open = ~b BY <1>9, <1>10, <1>11
<1> QED BY <1>1, <1>2, <1>3, <1>5, <1>12, <1>13, <1>15, <1>16, <1>17

\* It opens a capture for each utterance, with what the pre-buffer holds.
LEMMA OpensIs ==
    ASSUME FrontInv, FanoutOpens
    PROVE  /\ FanoutHears(TRUE) /\ ~current.open
           /\ opened' = opened + 1 /\ opened + 1 \in Utterances
           /\ current' = [turn |-> opened + 1, open |-> TRUE]
           /\ task' = [task EXCEPT ![opened + 1] = "reading"]
           /\ captured' = [captured EXCEPT ![opened + 1] = {preBuffer[i] : i \in DOMAIN preBuffer}]
           /\ preBuffer' = <<>>
<1>1. FanoutHears(TRUE) BY DEF FanoutOpens
<1>2. current.open = FALSE BY <1>1, HearsIs
<1>3. /\ opened < MaxUtterances /\ opened' = opened + 1
      /\ current' = [turn |-> opened + 1, open |-> TRUE]
      /\ task' = [task EXCEPT ![opened + 1] = "reading"]
      /\ captured' = [captured EXCEPT ![opened + 1] = {preBuffer[i] : i \in DOMAIN preBuffer}]
      /\ preBuffer' = <<>>
  BY <1>2 DEF FanoutOpens
<1>4. opened \in Nat BY Numbers DEF FrontInv
<1>5. opened + 1 \in Utterances BY <1>3, <1>4, Thresholds DEF Utterances
<1> QED BY <1>1, <1>2, <1>3, <1>5

\* It closes the capture that is open.
LEMMA ClosesIs ==
    ASSUME FrontInv, FanoutCloses
    PROVE  /\ FanoutHears(FALSE) /\ current.open
           /\ current' = [current EXCEPT !.open = FALSE]
           /\ UNCHANGED <<preBuffer, opened, task, captured>>
<1>1. FanoutHears(FALSE) BY DEF FanoutCloses
<1>2. current.open = TRUE BY <1>1, HearsIs
<1> QED BY <1>1, <1>2 DEF FanoutCloses

\* A step that leaves the changes alone, and what the fanout has made of them.
NothingTold ==
    /\ UNCHANGED <<opened, task, asrDone>>
    /\ Alive' => UNCHANGED <<current, speechState>>
    /\ Found' >= Found /\ Found' \in Nat /\ Over' \in Nat /\ Pending' \in 0 .. 1
    /\ Alive' => ToldChanges' = ToldChanges

\* Such a step keeps the balance of the changes.
LEMMA ChangesStay ==
    ASSUME FrontInv, [Next]_vars, NothingTold
    PROVE  ChangesInv'
<1>0. TypeOK /\ ChangesInv BY DEF FrontInv
<1>1. opened' <= Found' BY <1>0, Numbers DEF ChangesInv, NothingTold
<1>2. Alive' => Alive BY StaysGone
<1>3. Alive' => current' = current /\ HeardChanges' = HeardChanges BY DEF HeardChanges, NothingTold
<1>4. /\ \A u \in Utterances : task'[u] = "none" <=> u > opened'
      /\ \A i \in DOMAIN asrDone' : task'[asrDone'[i]] = "done"
  BY <1>0 DEF ChangesInv, NothingTold
<1>5. ASSUME Alive'
      PROVE  /\ Len(speechState') = ToldChanges' - HeardChanges'
             /\ \A i \in DOMAIN speechState' : speechState'[i] <=> (HeardChanges' + i) % 2 = 1
             /\ current'.open => current'.turn = opened' /\ opened' > 0 /\ task'[opened'] = "reading"
  <2>1. current' = current /\ HeardChanges' = HeardChanges /\ speechState' = speechState
        /\ opened' = opened /\ task' = task
    BY <1>3, <1>5 DEF NothingTold
  <2>2. /\ Len(speechState) = ToldChanges - HeardChanges
        /\ \A i \in DOMAIN speechState : speechState[i] <=> (HeardChanges + i) % 2 = 1
        /\ current.open => current.turn = opened /\ opened > 0 /\ task[opened] = "reading"
    BY <1>0, <1>2, <1>5 DEF ChangesInv
  <2>3. ToldChanges' = ToldChanges BY <1>5 DEF NothingTold
  <2>4. Len(speechState') = ToldChanges' - HeardChanges' BY <2>1, <2>2, <2>3
  <2>5. \A i \in DOMAIN speechState' : speechState'[i] <=> (HeardChanges' + i) % 2 = 1 BY <2>1, <2>2
  <2>6. current'.open => current'.turn = opened' /\ opened' > 0 /\ task'[opened'] = "reading" BY <2>1, <2>2
  <2> QED BY <2>4, <2>5, <2>6
<1> QED BY <1>1, <1>4, <1>5 DEF ChangesInv

\* A step that tells the fanout of change b.
Tells(b) ==
    /\ Alive' => speechState' = Append(speechState, b)
    /\ UNCHANGED <<opened, task, asrDone, current, Found, Over>>
    /\ Pending = 1 /\ Pending' = 0
    /\ b <=> (Found + Over) % 2 = 1

\* So does one that tells the fanout of a change: they alternate.
LEMMA ChangesTold ==
    ASSUME FrontInv, [Next]_vars, NEW b \in BOOLEAN, Tells(b)
    PROVE  ChangesInv'
<1>0. TypeOK /\ ChangesInv BY DEF FrontInv
<1>1. Alive' => Alive BY StaysGone
<1>2. HeardChanges' = HeardChanges BY DEF HeardChanges, Tells
<1>3. speechState \in Seq(BOOLEAN) /\ Len(speechState) \in Nat /\ HeardChanges \in Int /\ Found \in Nat /\ Over \in Nat
  BY <1>0, Numbers DEF TypeOK
<1>4. ASSUME Alive'
      PROVE  /\ Len(speechState') = Found + Over - HeardChanges
             /\ \A i \in DOMAIN speechState' : speechState'[i] <=> (HeardChanges + i) % 2 = 1
             /\ current.open => current.turn = opened /\ opened > 0 /\ task[opened] = "reading"
  <2>1. speechState' = Append(speechState, b) BY <1>4 DEF Tells
  <2>2. Len(speechState') = Len(speechState) + 1
        /\ \A i \in DOMAIN speechState' :
              i \in Nat /\ IF i = Len(speechState) + 1 THEN speechState'[i] = b
                           ELSE i \in DOMAIN speechState /\ speechState'[i] = speechState[i]
    BY <1>3, <2>1
  <2>t. Len(speechState) = ToldChanges - HeardChanges BY <1>0, <1>1, <1>4 DEF ChangesInv
  <2>s. ToldChanges = Found + Over - 1 BY <1>3 DEF ToldChanges, Tells
  <2>u. Len(speechState) = Found + Over - 1 - HeardChanges BY <1>3, <2>t, <2>s
  <2>v. /\ \A i \in DOMAIN speechState : speechState[i] <=> (HeardChanges + i) % 2 = 1
        /\ current.open => current.turn = opened /\ opened > 0 /\ task[opened] = "reading"
    BY <1>0, <1>1, <1>4 DEF ChangesInv
  <2>3. /\ Len(speechState) = Found + Over - 1 - HeardChanges
        /\ \A i \in DOMAIN speechState : speechState[i] <=> (HeardChanges + i) % 2 = 1
        /\ current.open => current.turn = opened /\ opened > 0 /\ task[opened] = "reading"
    BY <2>u, <2>v
  <2>4. HeardChanges + (Len(speechState) + 1) = Found + Over BY <1>3, <2>3
  <2>5. \A i \in DOMAIN speechState' : speechState'[i] <=> (HeardChanges + i) % 2 = 1
    <3> SUFFICES ASSUME NEW i \in DOMAIN speechState'
                 PROVE  speechState'[i] <=> (HeardChanges + i) % 2 = 1
      OBVIOUS
    <3>1. CASE i = Len(speechState) + 1
      <4>1. speechState'[i] = b BY <2>2, <3>1
      <4>2. HeardChanges + i = Found + Over BY <2>4, <3>1
      <4>3. b <=> (Found + Over) % 2 = 1 BY DEF Tells
      <4> QED BY <4>1, <4>2, <4>3
    <3>2. CASE i # Len(speechState) + 1
      <4>1. i \in DOMAIN speechState /\ speechState'[i] = speechState[i] BY <2>2, <3>2
      <4> QED BY <2>3, <4>1
    <3> QED BY <3>1, <3>2
  <2>6. Len(speechState') = Found + Over - HeardChanges BY <1>3, <2>2, <2>3
  <2> QED BY <2>3, <2>5, <2>6
<1>5. ASSUME Alive' PROVE Len(speechState') = ToldChanges' - HeardChanges'
  <2>1. Found' = Found /\ Over' = Over /\ Pending' = 0 BY DEF Tells
  <2>2. ToldChanges' = Found + Over BY <1>3, <2>1 DEF ToldChanges
  <2>3. Len(speechState') = Found + Over - HeardChanges BY <1>4, <1>5
  <2> QED BY <1>2, <1>3, <2>2, <2>3
<1> QED BY <1>0, <1>2, <1>4, <1>5 DEF ChangesInv, Tells

\* What the ASR tasks do to each other's state: none begins, and none whose capture
\* is open stops reading, except at the end of the session.
LEMMA AsrMoves ==
    ASSUME FrontInv, NEW u \in Utterances, AsrStep(u)
    PROVE  /\ UNCHANGED <<voiced, fanoutVars, vadQueue, speechState, vadVars, captured, started, ended, endVars,
                          Found, Over, Pending>>
           /\ task' \in [Utterances -> TaskStates]
           /\ \A w \in Utterances : task'[w] = "none" <=> task[w] = "none"
           /\ \A w \in Utterances : task[w] = "done" => task'[w] = "done"
           /\ Alive /\ current.open => task'[opened] = "reading"
           /\ asrDone' \in Seq(Utterances) /\ Len(asrDone') <= DoneCap
           /\ \A i \in DOMAIN asrDone' : task'[asrDone'[i]] = "done"
           /\ bus' \in 0 .. BusCap
<1>0. TypeOK /\ ChangesInv BY DEF FrontInv
<1>1. PICK from \in {"reading", "request", "partial", "reporting"}, to \in TaskStates \ {"none"} :
          TaskMoves(u, from, to)
  <2>1. CASE AsrCollected(u)
    BY <2>1 DEF AsrCollected, TaskStates
  <2>2. CASE AsrCancelled(u)
    BY <2>2 DEF AsrCancelled, TaskStates
  <2> QED BY <2>1, <2>2 DEF AsrStep, AsrPartial, AsrFinal, AsrFails, AsrReports, TaskStates
<1>2. task[u] = from /\ task' = [task EXCEPT ![u] = to]
      /\ UNCHANGED <<voiced, fanoutVars, vadQueue, speechState, vadVars, captured, started, ended, endVars>>
  BY <1>1 DEF TaskMoves, asrFrame
<1>3. task \in [Utterances -> TaskStates] BY <1>0 DEF TypeOK
<1>4. /\ task' \in [Utterances -> TaskStates]
      /\ \A w \in Utterances : task'[w] = IF w = u THEN to ELSE task[w]
  BY <1>2, <1>3
<1>5. /\ \A w \in Utterances : task'[w] = "none" <=> task[w] = "none"
      /\ \A w \in Utterances : task[w] = "done" => task'[w] = "done"
  BY <1>1, <1>2, <1>4
<1>6. ASSUME Alive, current.open PROVE task'[opened] = "reading"
  <2>1. current.turn = opened /\ opened > 0 /\ task[opened] = "reading" BY <1>0, <1>6 DEF ChangesInv
  <2>2. opened \in Utterances /\ opened \in Nat BY <1>0, <2>1, Thresholds DEF TypeOK, Utterances
  <2>3. CASE u # opened BY <1>4, <2>1, <2>2, <2>3
  <2>4. CASE u = opened
    <3>1. current = [turn |-> u, open |-> TRUE] BY <1>0, <1>6, <2>1, <2>4 DEF TypeOK
    <3>2. ~AsrCollected(u) BY <3>1 DEF AsrCollected, CaptureOpen
    <3>3. ~(opened > u \/ shutdown) BY <1>6, <2>2, <2>4 DEF Alive
    <3>4. ~AsrCancelled(u) BY <3>3 DEF AsrCancelled
    <3>5. task[u] = "reading" BY <2>1, <2>4
    <3> QED BY <3>2, <3>4, <3>5 DEF AsrStep, AsrPartial, AsrFinal, AsrFails, AsrReports, TaskMoves
  <2> QED BY <2>3, <2>4
<1>7. asrDone' = asrDone \/ (AsrReports(u) /\ asrDone' = Append(asrDone, u) /\ Len(asrDone) < DoneCap)
  BY DEF AsrStep, AsrCollected, AsrPartial, AsrFinal, AsrFails, AsrCancelled, AsrReports
<1>8. asrDone \in Seq(Utterances) /\ Len(asrDone) \in Nat /\ Len(asrDone) <= DoneCap BY <1>0 DEF TypeOK
<1>9. /\ asrDone' \in Seq(Utterances) /\ Len(asrDone') <= DoneCap
      /\ \A i \in DOMAIN asrDone' : task'[asrDone'[i]] = "done"
  <2>1. CASE asrDone' = asrDone
    <3>1. \A i \in DOMAIN asrDone : asrDone[i] \in Utterances BY <1>8
    <3> QED BY <1>0, <1>5, <1>8, <2>1, <3>1 DEF ChangesInv
  <2>2. CASE AsrReports(u) /\ asrDone' = Append(asrDone, u) /\ Len(asrDone) < DoneCap
    <3>1. task' = [task EXCEPT ![u] = "done"] BY <2>2 DEF AsrReports, TaskMoves
    <3>2. task'[u] = "done" BY <1>3, <3>1
    <3>3. asrDone' \in Seq(Utterances) /\ Len(asrDone') = Len(asrDone) + 1
          /\ \A i \in DOMAIN asrDone' :
                IF i = Len(asrDone) + 1 THEN asrDone'[i] = u ELSE i \in DOMAIN asrDone /\ asrDone'[i] = asrDone[i]
      BY <1>8, <2>2
    <3>4. \A i \in DOMAIN asrDone : asrDone[i] \in Utterances BY <1>8
    <3>5. Len(asrDone') <= DoneCap BY <1>8, <2>2, <3>3, Thresholds
    <3>6. ASSUME NEW i \in DOMAIN asrDone' PROVE task'[asrDone'[i]] = "done"
      BY <1>0, <1>5, <3>2, <3>3, <3>4 DEF ChangesInv
    <3> QED BY <3>3, <3>5, <3>6
  <2> QED BY <1>7, <2>1, <2>2
<1>10. bus' \in 0 .. BusCap
  <2>1. bus \in 0 .. BusCap BY <1>0 DEF TypeOK
  <2>2. bus' = bus \/ (bus < BusCap /\ bus' = bus + 1)
    BY DEF AsrStep, AsrCollected, AsrPartial, AsrFinal, AsrFails, AsrCancelled, AsrReports, Put
  <2> QED BY <2>1, <2>2, Thresholds
<1>11. UNCHANGED <<Found, Over, Pending>> BY <1>2 DEF vadVars, Found, Over, Pending
<1> QED BY <1>2, <1>4, <1>5, <1>6, <1>9, <1>10, <1>11

\* Steps of others, that the fanout and the VAD know nothing of.
LEMMA OtherSteps ==
    ASSUME TypeOK, UNCHANGED vars \/ DrainBus \/ AudioEnds \/ Shutdown
    PROVE  NothingTold /\ UNCHANGED <<fanoutVars, vadQueue, voiced, captured, speechState, vadVars, started, ended>>
<1>1. UNCHANGED <<voiced, fanoutVars, vadQueue, speechState, asrDone, vadVars, task, captured, started, ended>>
  BY DEF vars, DrainBus, AudioEnds, Shutdown, eventVars
<1>2. /\ UNCHANGED <<opened, task, asrDone, current, speechState>>
      /\ Found' = Found /\ Over' = Over /\ Pending' = Pending
  BY <1>1 DEF fanoutVars, vadVars, Found, Over, Pending
<1>3. ToldChanges' = ToldChanges BY <1>2 DEF ToldChanges
<1>4. Found \in Nat /\ Over \in Nat /\ Pending \in 0 .. 1 BY Numbers
<1> QED BY <1>1, <1>2, <1>3, <1>4 DEF NothingTold

\* The VAD's steps: it finds an utterance, or its end, before it tells the fanout.
LEMMA VadTells ==
    ASSUME FrontInv, VadStep
    PROVE  NothingTold \/ (VadOpens /\ Tells(TRUE)) \/ (VadEnds /\ Tells(FALSE))
<1>0. TypeOK /\ VadInv BY DEF FrontInv
<1>n. Found \in Nat /\ Over \in Nat /\ Pending \in 0 .. 1 BY <1>0, Numbers
<1>1. UNCHANGED <<opened, task, asrDone, current, shutdown, fanout>>
  <2>1. CASE VadVoiced \/ VadSilent
    BY <2>1 DEF VadVoiced, VadSilent, VadTakes, vadFrame, fanoutVars, endVars
  <2>2. CASE ~(VadVoiced \/ VadSilent)
    BY <2>2 DEF VadStep, VadOpens, VadStarts, VadEnds, VadStreamEnds, VadLast, VadCancelled, VadMoves,
                vadFrame, fanoutVars, endVars
  <2> QED BY <2>1, <2>2
<1>2. CASE VadVoiced
  <2>1. vad = "recv" /\ speechState' = speechState /\ Over' = Over
        /\ \/ vad' = vad /\ Found' = Found
           \/ vad' = "opening" /\ Found' = Found + 1
    BY <1>2, VoicedMoves, TakeMoves
  <2>2. Pending = 0 /\ Pending' \in 0 .. 1 BY <2>1 DEF Pending
  <2>3. CASE Pending' = 0
    <3>1. Found' = Found /\ Over' = Over BY <2>1, <2>3 DEF Pending
    <3>2. ToldChanges = Found + Over /\ ToldChanges' = Found + Over BY <1>n, <2>2, <2>3, <3>1 DEF ToldChanges
    <3>3. Found' \in Nat /\ Over' \in Nat /\ Found' >= Found BY <1>n, <3>1
    <3> QED BY <1>1, <2>1, <2>2, <3>2, <3>3 DEF NothingTold
  <2>4. CASE Pending' = 1
    <3>1. Found' = Found + 1 /\ Over' = Over BY <2>1, <2>4 DEF Pending
    <3>2. ToldChanges = Found + Over /\ ToldChanges' = Found + Over BY <1>n, <2>2, <2>4, <3>1 DEF ToldChanges
    <3>3. Found' \in Nat /\ Over' \in Nat /\ Found' >= Found BY <1>n, <3>1
    <3> QED BY <1>1, <2>1, <2>2, <3>2, <3>3 DEF NothingTold
  <2>5. Pending' = 0 \/ Pending' = 1 BY DEF Pending
  <2> QED BY <2>3, <2>4, <2>5
<1>3. CASE VadSilent
  <2>1. vad = "recv" /\ speechState' = speechState /\ Found' = Found
        /\ \/ vad' = vad /\ Over' = Over
           \/ vad' = "ending" /\ Over' = Over + 1
    BY <1>3, SilentMoves, TakeMoves
  <2>2. Pending = 0 /\ Pending' \in 0 .. 1 BY <2>1 DEF Pending
  <2>3. CASE Pending' = 0
    <3>1. Over' = Over /\ Found' = Found BY <2>1, <2>3 DEF Pending
    <3>2. ToldChanges = Found + Over /\ ToldChanges' = Found + Over BY <1>n, <2>2, <2>3, <3>1 DEF ToldChanges
    <3>3. Found' \in Nat /\ Over' \in Nat /\ Found' >= Found BY <1>n, <3>1
    <3> QED BY <1>1, <2>1, <2>2, <3>2, <3>3 DEF NothingTold
  <2>4. CASE Pending' = 1
    <3>1. Over' = Over + 1 /\ Found' = Found BY <2>1, <2>4 DEF Pending
    <3>2. ToldChanges = Found + Over /\ ToldChanges' = Found + Over BY <1>n, <2>2, <2>4, <3>1 DEF ToldChanges
    <3>3. Found' \in Nat /\ Over' \in Nat /\ Found' >= Found BY <1>n, <3>1
    <3> QED BY <1>1, <2>1, <2>2, <3>2, <3>3 DEF NothingTold
  <2>5. Pending' = 0 \/ Pending' = 1 BY DEF Pending
  <2> QED BY <2>3, <2>4, <2>5
<1>4. CASE VadStep /\ ~VadVoiced /\ ~VadSilent
  <2>0. Found' = Found /\ Over' = Over
    BY <1>4 DEF VadStep, VadOpens, VadStarts, VadEnds, VadStreamEnds, VadLast, VadCancelled, VadMoves, Found, Over
  <2>p. Pending' \in 0 .. 1 BY DEF Pending
  <2>q. Found' \in Nat /\ Over' \in Nat /\ Found' >= Found BY <1>n, <2>0
  <2>1. CASE VadOpens
    <3>1. vad = "opening" /\ vad' = "starting" /\ TellFanout(TRUE) BY <2>1 DEF VadOpens, VadMoves
    <3>2. Pending = 1 /\ Pending' = 0 BY <3>1 DEF Pending
    <3>3. Alive' => speechState' = Append(speechState, TRUE) BY <1>1, <3>1 DEF TellFanout, Alive
    <3>4. Found = Over + 1 BY <1>0, <3>1 DEF VadInv
    <3>5. (Found + Over) % 2 = 1 BY <1>n, <3>4
    <3> QED BY <1>1, <2>0, <2>1, <3>2, <3>3, <3>5 DEF Tells
  <2>2. CASE VadMoves("closing", "recv") /\ TellFanout(FALSE) /\ VadEnds
    <3>1. vad = "closing" /\ vad' = "recv" BY <2>2 DEF VadMoves
    <3>2. Pending = 1 /\ Pending' = 0 BY <3>1 DEF Pending
    <3>3. Alive' => speechState' = Append(speechState, FALSE) BY <1>1, <2>2 DEF TellFanout, Alive
    <3>4. Found = Over BY <1>0, <1>n, <3>1 DEF VadInv
    <3>5. ~((Found + Over) % 2 = 1) BY <1>n, <3>4
    <3> QED BY <1>1, <2>0, <2>2, <3>2, <3>3, <3>5 DEF Tells
  <2>3. CASE VadStarts \/ (VadMoves("ending", "closing") /\ UNCHANGED <<started, speechState>>)
    <3>1. speechState' = speechState /\ Pending' = Pending
      BY <2>3 DEF VadStarts, VadMoves, Pending
    <3>2. ToldChanges' = ToldChanges BY <2>0, <3>1 DEF ToldChanges
    <3> QED BY <1>1, <2>q, <2>p, <3>1, <3>2 DEF NothingTold
  <2>4. CASE VadStreamEnds \/ VadLast \/ VadCancelled
    <3>1. ~Alive'
      <4>1. VadLast => vad = "last" BY DEF VadLast, VadMoves
      <4> QED BY <1>0, <1>1, <2>4, <4>1 DEF VadStreamEnds, VadCancelled, VadInv, Alive
    <3> QED BY <1>1, <2>q, <2>p, <3>1 DEF NothingTold
  <2> QED BY <1>4, <2>1, <2>2, <2>3, <2>4 DEF VadStep, VadEnds
<1> QED BY <1>2, <1>3, <1>4

\* No change of the speech state is lost or heard twice.
LEMMA ChangesNext ==
    ASSUME FrontInv, [Next]_vars
    PROVE  ChangesInv'
<1>0. TypeOK /\ VadInv /\ ChangesInv BY DEF FrontInv
<1>n. /\ Found \in Nat /\ Over \in Nat /\ Pending \in 0 .. 1 /\ opened \in Nat /\ HeardChanges \in Int
      /\ task \in [Utterances -> TaskStates] /\ Len(speechState) \in Nat
      /\ current \in [turn : 0 .. MaxUtterances, open : BOOLEAN]
      /\ asrDone \in Seq(Utterances)
  BY <1>0, Numbers DEF TypeOK
<1>t. ToldChanges \in Int BY <1>n DEF ToldChanges
<1>1. CASE UNCHANGED vars \/ DrainBus \/ AudioEnds \/ Shutdown
  BY <1>0, <1>1, OtherSteps, ChangesStay
<1>2. CASE \E v \in BOOLEAN : FanoutFrame(v)
  <2>1. UNCHANGED <<opened, task, asrDone, current, speechState>> /\ Found' = Found /\ Over' = Over
        /\ Pending' = Pending
    BY <1>2, FrameMoves DEF vadVars, Pending
  <2>2. ToldChanges' = ToldChanges BY <2>1 DEF ToldChanges
  <2>3. NothingTold BY <1>n, <2>1, <2>2 DEF NothingTold
  <2> QED BY <2>3, ChangesStay
<1>3. CASE FanoutSends
  <2>1. UNCHANGED <<opened, task, asrDone, current, speechState>> /\ Found' = Found /\ Over' = Over
        /\ Pending' = Pending
    BY <1>3, SendMoves DEF vadVars, Pending
  <2>2. ToldChanges' = ToldChanges BY <2>1 DEF ToldChanges
  <2>3. NothingTold BY <1>n, <2>1, <2>2 DEF NothingTold
  <2> QED BY <2>3, ChangesStay
<1>4. CASE FanoutReapsTask
  <2>1. /\ fanout = "select" /\ ~shutdown /\ asrDone # <<>> /\ asrDone' = Tail(asrDone)
        /\ current' = IF current.turn = Head(asrDone) THEN NoTurn ELSE current
        /\ UNCHANGED <<opened, task, speechState, vadVars>>
    BY <1>4 DEF FanoutReapsTask, fanoutFrame
  <2>2. Alive BY <2>1 DEF Alive
  <2>3. /\ 1 \in DOMAIN asrDone /\ Head(asrDone) = asrDone[1]
        /\ \A i \in DOMAIN asrDone' : i + 1 \in DOMAIN asrDone /\ asrDone'[i] = asrDone[i + 1]
    BY <1>n, <2>1
  <2>4. task[Head(asrDone)] = "done" BY <1>0, <2>3 DEF ChangesInv
  <2>5. ASSUME current.open PROVE current' = current
    <3>1. current.turn = opened /\ opened > 0 /\ task[opened] = "reading" BY <1>0, <2>2, <2>5 DEF ChangesInv
    <3>2. current' = current BY <2>1, <2>4, <3>1
    <3> QED BY <3>2
  <2>7. current'.open = current.open /\ (current.open => current' = current)
    <3>1. CASE current.open BY <2>5, <3>1
    <3>2. CASE ~current.open
      <4>1. NoTurn.open = FALSE /\ current.open = FALSE BY <1>n, <3>2 DEF NoTurn
      <4> QED BY <2>1, <4>1
    <3> QED BY <3>1, <3>2
  <2>8. HeardChanges' = HeardChanges /\ ToldChanges' = ToldChanges /\ Found' = Found
    BY <2>1, <2>7 DEF HeardChanges, ToldChanges, vadVars, Found, Over, Pending
  <2>9. \A i \in DOMAIN asrDone' : task'[asrDone'[i]] = "done" BY <1>0, <2>1, <2>3 DEF ChangesInv
  <2>10. current'.open => current'.turn = opened' /\ opened' > 0 /\ task'[opened'] = "reading"
    BY <1>0, <2>1, <2>2, <2>7 DEF ChangesInv
  <2>11. Len(speechState') = ToldChanges' - HeardChanges'
         /\ \A i \in DOMAIN speechState' : speechState'[i] <=> (HeardChanges' + i) % 2 = 1
    BY <1>0, <2>1, <2>2, <2>8 DEF ChangesInv
  <2>12. opened' <= Found' /\ \A u \in Utterances : task'[u] = "none" <=> u > opened'
    BY <1>0, <2>1, <2>8 DEF ChangesInv
  <2> QED BY <2>9, <2>10, <2>11, <2>12 DEF ChangesInv
<1>5. CASE FanoutOpens
  <2>1. /\ FanoutHears(TRUE) /\ opened' = opened + 1 /\ opened + 1 \in Utterances
        /\ current' = [turn |-> opened + 1, open |-> TRUE]
        /\ task' = [task EXCEPT ![opened + 1] = "reading"]
    BY <1>5, OpensIs
  <2>2. /\ Alive /\ asrDone = <<>> /\ asrDone' = asrDone /\ opened + 1 <= Found /\ HeardChanges = 2 * opened
        /\ Found' = Found /\ Over' = Over /\ Pending' = Pending
        /\ Len(speechState') = Len(speechState) - 1
        /\ \A i \in DOMAIN speechState' : speechState'[i] <=> (HeardChanges + 1 + i) % 2 = 1
    BY <2>1, HearsIs
  <2>3. HeardChanges' = HeardChanges + 1
    <3>1. HeardChanges' = 2 * (opened + 1) - 1 BY <2>1 DEF HeardChanges
    <3> QED BY <1>n, <2>2, <3>1
  <2>4. ToldChanges' = ToldChanges BY <2>2 DEF ToldChanges
  <2>5. Len(speechState) = ToldChanges - HeardChanges BY <1>0, <2>2 DEF ChangesInv
  <2>6. Len(speechState') = ToldChanges' - HeardChanges' BY <1>n, <1>t, <2>2, <2>3, <2>4, <2>5
  <2>7. \A i \in DOMAIN speechState' : speechState'[i] <=> (HeardChanges' + i) % 2 = 1 BY <2>2, <2>3
  <2>8. /\ task'[opened + 1] = "reading"
        /\ \A u \in Utterances : u # opened + 1 => task'[u] = task[u]
    BY <1>n, <2>1
  <2>9. \A u \in Utterances : task'[u] = "none" <=> u > opened'
    <3> SUFFICES ASSUME NEW u \in Utterances PROVE task'[u] = "none" <=> u > opened'
      OBVIOUS
    <3>1. u \in Nat BY DEF Utterances
    <3>2. task[u] = "none" <=> u > opened BY <1>0 DEF ChangesInv
    <3>3. CASE u = opened + 1 BY <1>n, <2>1, <2>8, <3>3
    <3>4. CASE u # opened + 1
      <4>1. u > opened' <=> u > opened BY <1>n, <2>1, <3>1, <3>4
      <4> QED BY <2>8, <3>2, <3>4, <4>1
    <3> QED BY <3>3, <3>4
  <2>10. current'.turn = opened' /\ opened' > 0 /\ task'[opened'] = "reading" BY <1>n, <2>1, <2>8
  <2>11. opened' <= Found' BY <2>1, <2>2
  <2>12. \A i \in DOMAIN asrDone' : task'[asrDone'[i]] = "done" BY <2>2
  <2> QED BY <2>6, <2>7, <2>9, <2>10, <2>11, <2>12 DEF ChangesInv
<1>6. CASE FanoutCloses
  <2>1. /\ FanoutHears(FALSE) /\ current.open
        /\ current' = [current EXCEPT !.open = FALSE]
        /\ UNCHANGED <<opened, task>>
    BY <1>6, ClosesIs
  <2>2. /\ Alive /\ asrDone = <<>> /\ asrDone' = asrDone
        /\ Found' = Found /\ Over' = Over /\ Pending' = Pending
        /\ Len(speechState') = Len(speechState) - 1
        /\ \A i \in DOMAIN speechState' : speechState'[i] <=> (HeardChanges + 1 + i) % 2 = 1
    BY <2>1, HearsIs
  <2>3. HeardChanges' = HeardChanges + 1
    <3>1. current'.open = FALSE BY <1>n, <2>1
    <3>2. HeardChanges' = 2 * opened BY <1>n, <2>1, <3>1 DEF HeardChanges
    <3>3. HeardChanges = 2 * opened - 1 BY <2>1 DEF HeardChanges
    <3> QED BY <1>n, <3>2, <3>3
  <2>4. ToldChanges' = ToldChanges BY <2>2 DEF ToldChanges
  <2>5. Len(speechState) = ToldChanges - HeardChanges BY <1>0, <2>2 DEF ChangesInv
  <2>6. Len(speechState') = ToldChanges' - HeardChanges' BY <1>n, <1>t, <2>2, <2>3, <2>4, <2>5
  <2>7. \A i \in DOMAIN speechState' : speechState'[i] <=> (HeardChanges' + i) % 2 = 1 BY <2>2, <2>3
  <2>8. ~current'.open BY <1>n, <2>1
  <2>9. opened' <= Found' /\ \A u \in Utterances : task'[u] = "none" <=> u > opened'
    BY <1>0, <2>1, <2>2 DEF ChangesInv
  <2>12. \A i \in DOMAIN asrDone' : task'[asrDone'[i]] = "done" BY <2>2
  <2> QED BY <2>6, <2>7, <2>8, <2>9, <2>12 DEF ChangesInv
<1>7. CASE FanoutStops
  <2>1. fanout' = "gone" /\ asrDone' = <<>> /\ UNCHANGED <<opened, task, onset>>
    BY <1>7 DEF FanoutStops, fanoutFrame, vadVars
  <2>2. ~Alive' BY <2>1 DEF Alive
  <2>3. Found' = Found BY <2>1 DEF Found
  <2> QED BY <1>0, <2>1, <2>2, <2>3 DEF ChangesInv
<1>8. CASE VadStep
  <2>1. CASE NothingTold BY <2>1, ChangesStay
  <2>2. CASE Tells(TRUE) BY <2>2, ChangesTold
  <2>3. CASE Tells(FALSE) BY <2>3, ChangesTold
  <2> QED BY <1>8, <2>1, <2>2, <2>3, VadTells
<1>9. CASE \E u \in Utterances : AsrStep(u)
  <2>1. PICK u \in Utterances : AsrStep(u) BY <1>9
  <2>2. /\ UNCHANGED <<fanoutVars, speechState, shutdown, Found, Over, Pending>>
        /\ \A w \in Utterances : task'[w] = "none" <=> task[w] = "none"
        /\ \A i \in DOMAIN asrDone' : task'[asrDone'[i]] = "done"
        /\ Alive /\ current.open => task'[opened] = "reading"
    BY <2>1, AsrMoves DEF endVars
  <2>3. HeardChanges' = HeardChanges /\ ToldChanges' = ToldChanges /\ Alive' = Alive
        /\ current' = current /\ opened' = opened
    BY <2>2 DEF HeardChanges, ToldChanges, Alive, fanoutVars
  <2> QED BY <1>0, <2>2, <2>3 DEF ChangesInv
<1> QED BY <1>1, <1>2, <1>3, <1>4, <1>5, <1>6, <1>7, <1>8, <1>9 DEF Next, FanoutStep

\* Multiples of a number are ordered as their factors.
LEMMA FactorsOrdered ==
    ASSUME NEW a \in Nat, NEW b \in Nat, NEW w \in Nat, a * w < b * w
    PROVE  a < b
<1> SUFFICES ASSUME a >= b PROVE FALSE
  OBVIOUS
<1>1. PICK d \in Nat : a = b + d
  <2>1. a - b \in Nat /\ a = b + (a - b) OBVIOUS
  <2> QED BY <2>1
<1>2. a * w = b * w + d * w BY <1>1
<1>3. d * w \in Nat /\ b * w \in Nat OBVIOUS
<1> QED BY <1>2, <1>3

\* Utterances are too long for more of them than MaxUtterances.
LEMMA FoundBounded ==
    ASSUME FrontInv
    PROVE  Found <= MaxUtterances
<1>0. TypeOK /\ SpacingInv BY DEF FrontInv
<1>1. Found \in Nat /\ Taken \in Int /\ Len(voiced) \in Nat /\ Len(voiced) <= MaxFrames
  BY <1>0, Numbers DEF TypeOK
<1> SUFFICES ASSUME Found >= 1 PROVE Found <= MaxUtterances
  BY <1>1, Thresholds
<1>2. Found \in 1 .. Found BY <1>1
<1> DEFINE w == MinVoiced + MinSilent
           n == Found - 1
<1>3. onset[Found] > n * w /\ onset[Found] \in Nat /\ onset[Found] + MinVoiced - 1 <= Taken
  BY <1>0, <1>2, Numbers DEF SpacingInv, Decision
<1>4. Taken <= MaxFrames BY <1>1, PastFrames, Thresholds
<1>5. w \in Nat /\ n \in Nat /\ MaxFrames < MaxUtterances * w + MinVoiced BY <1>1, Thresholds
<1> HIDE DEF n, w
<1>6. n * w \in Nat /\ MaxUtterances * w \in Nat BY <1>5, Thresholds
<1>7. n * w < MaxUtterances * w
  <2> DEFINE p == n * w
             q == MaxUtterances * w
  <2>1. p \in Nat /\ q \in Nat /\ onset[Found] > p /\ MaxFrames < q + MinVoiced BY <1>3, <1>5, <1>6
  <2> HIDE DEF p, q
  <2>2. p < q BY <1>1, <1>3, <1>4, <2>1, Thresholds
  <2> QED BY <2>2 DEF p, q
<1>8. n < MaxUtterances BY <1>5, <1>7, FactorsOrdered, Thresholds
<1> QED BY <1>1, <1>8, Thresholds DEF n

-----------------------------------------------------------------------------
(* What the pre-buffer holds. *)

\* The pre-buffer holds the frames up to the last, no more than PreBuffer of them.
LEMMA FrameKept ==
    ASSUME FrontInv, NEW v \in BOOLEAN, FanoutFrame(v)
    PROVE  /\ preBuffer' \in Seq(Frames) /\ Len(preBuffer') <= PreBuffer /\ Len(preBuffer') <= Len(voiced')
           /\ Len(preBuffer') = IF Len(preBuffer) + 1 > PreBuffer THEN Len(preBuffer) ELSE Len(preBuffer) + 1
           /\ \A i \in DOMAIN preBuffer' : preBuffer'[i] = Len(voiced') - Len(preBuffer') + i
<1> DEFINE f == Len(voiced) + 1
           longer == Append(preBuffer, f)
<1>0. TypeOK /\ BufferInv BY DEF FrontInv
<1>1. Len(voiced') = Len(voiced) + 1 /\ Len(voiced') <= MaxFrames BY FrameMoves
<1>2. preBuffer \in Seq(Frames) /\ Len(preBuffer) \in Nat /\ Len(preBuffer) <= PreBuffer /\ Len(voiced) \in Nat
      /\ Len(preBuffer) <= Len(voiced)
  BY <1>0, Numbers DEF TypeOK, BufferInv
<1>3. f \in Frames BY <1>1, <1>2, Thresholds DEF Frames
<1>4. preBuffer' = IF Len(longer) > PreBuffer THEN Tail(longer) ELSE longer
  BY DEF FanoutFrame, Pushed
<1> HIDE DEF f
<1>5. longer \in Seq(Frames) /\ Len(longer) = Len(preBuffer) + 1
      /\ \A i \in 1 .. Len(longer) : longer[i] = IF i = Len(preBuffer) + 1 THEN f ELSE preBuffer[i]
  BY <1>2, <1>3
<1>6. \A i \in 1 .. Len(longer) : longer[i] = Len(voiced) - Len(preBuffer) + i
  <2> SUFFICES ASSUME NEW i \in 1 .. Len(longer) PROVE longer[i] = Len(voiced) - Len(preBuffer) + i
    OBVIOUS
  <2>1. CASE i = Len(preBuffer) + 1 BY <1>2, <1>5, <2>1 DEF f
  <2>2. CASE i # Len(preBuffer) + 1
    <3>1. i \in DOMAIN preBuffer BY <1>2, <1>5, <2>2
    <3> QED BY <1>0, <1>5, <2>2, <3>1 DEF BufferInv
  <2> QED BY <2>1, <2>2
<1> HIDE DEF longer
<1>7. CASE Len(preBuffer) + 1 > PreBuffer
  <2>1. preBuffer' = Tail(longer) BY <1>4, <1>5, <1>7
  <2>2. /\ preBuffer' \in Seq(Frames) /\ Len(preBuffer') = Len(preBuffer)
        /\ \A i \in DOMAIN preBuffer' : i \in Nat /\ i + 1 \in 1 .. Len(longer) /\ preBuffer'[i] = longer[i + 1]
    BY <1>2, <1>5, <2>1
  <2>3. \A i \in DOMAIN preBuffer' : preBuffer'[i] = Len(voiced) - Len(preBuffer) + (i + 1)
    BY <1>6, <2>2
  <2>4. \A i \in DOMAIN preBuffer' : preBuffer'[i] = Len(voiced') - Len(preBuffer') + i
    BY <1>1, <1>2, <2>2, <2>3
  <2> QED BY <1>1, <1>2, <1>7, <2>2, <2>4
<1>8. CASE ~(Len(preBuffer) + 1 > PreBuffer)
  <2>1. preBuffer' = longer BY <1>4, <1>5, <1>8
  <2>2. /\ preBuffer' \in Seq(Frames) /\ Len(preBuffer') = Len(preBuffer) + 1
        /\ \A i \in DOMAIN preBuffer' : i \in Nat /\ preBuffer'[i] = Len(voiced) - Len(preBuffer) + i
    BY <1>2, <1>5, <1>6, <2>1
  <2>4. \A i \in DOMAIN preBuffer' : preBuffer'[i] = Len(voiced') - Len(preBuffer') + i
    BY <1>1, <1>2, <2>2
  <2> QED BY <1>1, <1>2, <1>8, <2>2, <2>4, Thresholds
<1> QED BY <1>7, <1>8

\* The capture that is open takes the frame too.
LEMMA FrameCaptured ==
    ASSUME FrontInv, NEW v \in BOOLEAN, FanoutFrame(v)
    PROVE  /\ current.open => opened \in Utterances /\ current.turn = opened
           /\ captured' \in [Utterances -> SUBSET Frames]
           /\ \A u \in Utterances : captured'[u] = IF current.open /\ u = opened
                                                   THEN captured[u] \cup {Len(voiced) + 1} ELSE captured[u]
<1>0. TypeOK /\ ChangesInv BY DEF FrontInv
<1>1. Alive BY FrameMoves
<1>2. current.open => opened \in Utterances /\ current.turn = opened
  BY <1>0, <1>1, Thresholds DEF ChangesInv, TypeOK, Utterances
<1>3. captured' = IF current.open THEN [captured EXCEPT ![current.turn] = @ \cup {Len(voiced) + 1}] ELSE captured
  BY DEF FanoutFrame
<1>4. Len(voiced) + 1 \in Frames
  <2>1. Len(voiced) \in Nat /\ Len(voiced) + 1 <= MaxFrames BY <1>0, Numbers, FrameMoves
  <2> QED BY <2>1, Thresholds DEF Frames
<1>5. captured \in [Utterances -> SUBSET Frames] BY <1>0 DEF TypeOK
<1> QED BY <1>2, <1>3, <1>4, <1>5

\* The other steps leave the pre-buffer and the captures alone, but for the opening
\* of a capture.
LEMMA OthersKeep ==
    ASSUME FrontInv, [Next]_vars, ~FanoutOpens, \A v \in BOOLEAN : ~FanoutFrame(v)
    PROVE  UNCHANGED <<voiced, preBuffer, captured, opened>>
<1>0. TypeOK BY DEF FrontInv
<1>1. CASE UNCHANGED vars \/ DrainBus \/ AudioEnds \/ Shutdown
  BY <1>0, <1>1, OtherSteps DEF fanoutVars
<1>2. CASE FanoutReapsTask \/ FanoutCloses \/ FanoutSends \/ FanoutStops
  BY <1>2 DEF FanoutReapsTask, FanoutCloses, FanoutSends, FanoutStops, FanoutHears
<1>3. CASE VadStep
  BY <1>3 DEF VadStep, VadVoiced, VadSilent, VadTakes, VadOpens, VadStarts, VadEnds, VadStreamEnds, VadLast,
              VadCancelled, VadMoves, vadFrame, fanoutVars
<1>4. CASE \E u \in Utterances : AsrStep(u)
  BY <1>4, AsrMoves DEF fanoutVars
<1> QED BY <1>1, <1>2, <1>3, <1>4 DEF Next, FanoutStep

\* The captures hold frames that were received.
LEMMA BufferNext ==
    ASSUME FrontInv, [Next]_vars
    PROVE  BufferInv'
<1>0. TypeOK /\ BufferInv BY DEF FrontInv
<1>1. CASE \E v \in BOOLEAN : FanoutFrame(v)
  <2>1. PICK v \in BOOLEAN : FanoutFrame(v) BY <1>1
  <2>2. Len(voiced') = Len(voiced) + 1 /\ Len(voiced) \in Nat BY <1>0, <2>1, FrameMoves, Numbers
  <2>3. /\ Len(preBuffer') <= Len(voiced')
        /\ \A i \in DOMAIN preBuffer' : preBuffer'[i] = Len(voiced') - Len(preBuffer') + i
    BY <2>1, FrameKept
  <2>4. \A u \in Utterances : captured[u] \subseteq 1 .. Len(voiced) BY <1>0 DEF BufferInv
  <2>5. \A u \in Utterances : captured'[u] \subseteq captured[u] \cup {Len(voiced) + 1}
    BY <2>1, FrameCaptured
  <2>6. \A u \in Utterances : captured'[u] \subseteq 1 .. Len(voiced') BY <2>2, <2>4, <2>5
  <2> QED BY <2>3, <2>6 DEF BufferInv
<1>2. CASE FanoutOpens
  <2>1. /\ preBuffer' = <<>> /\ opened + 1 \in Utterances
        /\ captured' = [captured EXCEPT ![opened + 1] = {preBuffer[i] : i \in DOMAIN preBuffer}]
    BY <1>2, OpensIs
  <2>2. voiced' = voiced BY <1>2, OpensIs, HearsIs
  <2>3. captured \in [Utterances -> SUBSET Frames] /\ Len(voiced) \in Nat /\ Len(preBuffer) \in Nat
        /\ preBuffer \in Seq(Frames)
    BY <1>0, Numbers DEF TypeOK
  <2>4. \A i \in DOMAIN preBuffer : preBuffer[i] \in 1 .. Len(voiced)
    BY <1>0, <2>3 DEF BufferInv
  <2>5. \A u \in Utterances : captured'[u] \subseteq 1 .. Len(voiced)
    BY <1>0, <2>1, <2>3, <2>4 DEF BufferInv
  <2>6. Len(preBuffer') = 0 /\ DOMAIN preBuffer' = {} BY <2>1
  <2> QED BY <2>2, <2>3, <2>5, <2>6 DEF BufferInv
<1>3. CASE ~FanoutOpens /\ \A v \in BOOLEAN : ~FanoutFrame(v)
  BY <1>0, <1>3, OthersKeep DEF BufferInv
<1> QED BY <1>1, <1>2, <1>3

-----------------------------------------------------------------------------
(* The types. *)

\* The fanout's frames and captures.
LEMMA AudioTypes ==
    ASSUME FrontInv, [Next]_vars
    PROVE  /\ voiced' \in Seq(BOOLEAN) /\ Len(voiced') <= MaxFrames
           /\ preBuffer' \in Seq(Frames) /\ Len(preBuffer') <= PreBuffer
           /\ captured' \in [Utterances -> SUBSET Frames]
           /\ opened' \in 0 .. MaxUtterances
<1>0. TypeOK BY DEF FrontInv
<1>1. CASE \E v \in BOOLEAN : FanoutFrame(v)
  BY <1>0, <1>1, FrameMoves, FrameKept, FrameCaptured DEF TypeOK
<1>2. CASE FanoutOpens
  <2>1. /\ preBuffer' = <<>> /\ opened + 1 \in Utterances /\ opened' = opened + 1 /\ voiced' = voiced
        /\ captured' = [captured EXCEPT ![opened + 1] = {preBuffer[i] : i \in DOMAIN preBuffer}]
    BY <1>2, OpensIs, HearsIs
  <2>2. preBuffer \in Seq(Frames) /\ captured \in [Utterances -> SUBSET Frames] BY <1>0 DEF TypeOK
  <2>3. {preBuffer[i] : i \in DOMAIN preBuffer} \subseteq Frames BY <2>2
  <2>4. captured' \in [Utterances -> SUBSET Frames] BY <2>1, <2>2, <2>3
  <2>5. opened' \in 0 .. MaxUtterances BY <2>1, Thresholds DEF Utterances
  <2>6. preBuffer' \in Seq(Frames) /\ Len(preBuffer') <= PreBuffer
    <3>1. Len(preBuffer') = 0 /\ preBuffer' \in Seq(Frames) BY <2>1
    <3> QED BY <3>1, Thresholds
  <2> QED BY <1>0, <2>1, <2>4, <2>5, <2>6 DEF TypeOK
<1>3. CASE ~FanoutOpens /\ \A v \in BOOLEAN : ~FanoutFrame(v)
  BY <1>0, <1>3, OthersKeep DEF TypeOK
<1> QED BY <1>1, <1>2, <1>3

\* The VAD's queue, counters and decisions.
LEMMA VadTypes ==
    ASSUME FrontInv, [Next]_vars
    PROVE  /\ vadQueue' \in Seq(Frames) /\ Len(vadQueue') <= VadCap
           /\ isSpeaking' \in BOOLEAN /\ voicedRun' \in Nat /\ silentRun' \in Nat
           /\ onset' \in Seq(Frames) /\ offset' \in Seq(Frames)
<1>0. TypeOK BY DEF FrontInv
<1>n. voicedRun + 1 \in Nat /\ silentRun + 1 \in Nat BY <1>0 DEF TypeOK
<1>1. CASE ~Moving BY <1>0, <1>1, Still DEF TypeOK
<1>2. CASE \E v \in BOOLEAN : FanoutFrame(v) BY <1>0, <1>2, FrameMoves DEF TypeOK, vadVars
<1>3. CASE FanoutSends
  <2>1. vadQueue' \in Seq(Frames) /\ Len(vadQueue') <= VadCap BY <1>0, <1>3, SendMoves DEF TypeOK
  <2> QED BY <1>0, <1>3, <2>1, SendMoves DEF TypeOK, vadVars
<1>4. CASE VadVoiced
  <2>1. vadQueue' \in Seq(Frames) /\ Len(vadQueue') <= VadCap BY <1>4, VoicedMoves, TakeMoves
  <2>2. voicedRun' \in Nat /\ silentRun' \in Nat BY <1>n, <1>4, VoicedMoves
  <2>3. isSpeaking' \in BOOLEAN /\ onset' \in Seq(Frames) /\ offset' \in Seq(Frames)
    BY <1>0, <1>4, VoicedMoves DEF TypeOK
  <2> QED BY <2>1, <2>2, <2>3
<1>5. CASE VadSilent
  <2>1. vadQueue' \in Seq(Frames) /\ Len(vadQueue') <= VadCap BY <1>5, SilentMoves, TakeMoves
  <2>2. voicedRun' \in Nat /\ silentRun' \in Nat
    <3>1. silentRun' = silentRun + 1 /\ voicedRun' = (IF isSpeaking' THEN voicedRun ELSE 0) BY <1>5, SilentMoves
    <3> QED BY <1>0, <1>n, <3>1 DEF TypeOK
  <2>3. isSpeaking' \in BOOLEAN /\ onset' \in Seq(Frames) /\ offset' \in Seq(Frames)
    BY <1>0, <1>5, SilentMoves DEF TypeOK
  <2> QED BY <2>1, <2>2, <2>3
<1> QED BY <1>1, <1>2, <1>3, <1>4, <1>5 DEF Moving

\* SpeechStarted and SpeechEnded are sent once for each utterance.
LEMMA EventTypes ==
    ASSUME FrontInv, [Next]_vars
    PROVE  /\ vad' \in VadStates
           /\ started' \in 0 .. MaxUtterances /\ ended' \in 0 .. MaxUtterances
           /\ bus' \in 0 .. BusCap
           /\ audioEnded' \in BOOLEAN /\ shutdown' \in BOOLEAN
           /\ fanout' \in {"select", "sending", "gone"}
<1>0. TypeOK /\ VadInv BY DEF FrontInv
<1>n. started \in Nat /\ ended \in Nat /\ Found \in Nat /\ Over \in Nat /\ Found <= MaxUtterances
  BY <1>0, Numbers, FoundBounded
<1>1. CASE UNCHANGED vars \/ AudioEnds \/ Shutdown
  BY <1>0, <1>1 DEF TypeOK, vars, AudioEnds, Shutdown, vadVars, eventVars, fanoutVars, endVars
<1>2. CASE DrainBus
  <2>1. bus' \in 0 .. BusCap BY <1>0, <1>2, Thresholds DEF TypeOK, DrainBus
  <2> QED BY <1>0, <1>2, <2>1 DEF TypeOK, DrainBus, vadVars, fanoutVars, endVars
<1>3. CASE FanoutStep \/ \E v \in BOOLEAN : FanoutFrame(v)
  <2>1. UNCHANGED <<vadVars, eventVars, endVars>> /\ fanout' \in {"select", "sending", "gone"}
    BY <1>0, <1>3 DEF FanoutStep, FanoutReapsTask, FanoutOpens, FanoutCloses, FanoutHears, FanoutSends, FanoutStops,
                FanoutFrame, fanoutFrame, TypeOK
  <2> QED BY <1>0, <2>1 DEF TypeOK, vadVars, eventVars, endVars
<1>4. CASE VadStep
  <2>1. UNCHANGED <<fanout, audioEnded, shutdown>>
    <3>1. CASE VadVoiced \/ VadSilent
      BY <3>1 DEF VadVoiced, VadSilent, VadTakes, vadFrame, fanoutVars, endVars
    <3>2. CASE ~(VadVoiced \/ VadSilent)
      BY <1>4, <3>2 DEF VadStep, VadOpens, VadStarts, VadEnds, VadStreamEnds, VadLast, VadCancelled, VadMoves,
                  vadFrame, fanoutVars, endVars
    <3> QED BY <3>1, <3>2
  <2>2. CASE VadVoiced \/ VadSilent
    <3>1. vad' \in VadStates /\ UNCHANGED eventVars
      BY <2>2, VoicedMoves, SilentMoves, TakeMoves DEF VadStates
    <3> QED BY <1>0, <2>1, <3>1 DEF TypeOK, eventVars
  <2>3. CASE ~VadVoiced /\ ~VadSilent
    <3>1. vad' \in VadStates /\ (UNCHANGED bus \/ Put)
      BY <1>4, <2>3 DEF VadStep, VadOpens, VadStarts, VadEnds, VadStreamEnds, VadLast, VadCancelled, VadMoves,
                  eventVars, VadStates
    <3>2. bus' \in 0 .. BusCap
      <4>1. bus \in 0 .. BusCap BY <1>0 DEF TypeOK
      <4>2. BusCap \in Nat BY Thresholds
      <4>3. CASE UNCHANGED bus BY ONLY <4>1, <4>3
      <4>4. CASE Put
        <5>1. bus < BusCap /\ bus' = bus + 1 BY <4>4 DEF Put
        <5> QED BY ONLY <4>1, <4>2, <5>1
      <4> QED BY <3>1, <4>3, <4>4
    <3>3. started' \in 0 .. MaxUtterances
      <4>1. CASE VadStarts
        <5>1. vad = "starting" /\ started' = started + 1 BY <4>1 DEF VadStarts, VadMoves
        <5>2. started = Found - 1 BY <1>0, <5>1 DEF VadInv
        <5> QED BY <1>n, <5>1, <5>2, Thresholds
      <4>2. CASE ~VadStarts
        <5>1. started' = started
          BY <1>4, <2>3, <4>2 DEF VadStep, VadOpens, VadEnds, VadStreamEnds, VadLast, VadCancelled, eventVars
        <5> QED BY <1>0, <5>1 DEF TypeOK
      <4> QED BY <4>1, <4>2
    <3>4. ended' \in 0 .. MaxUtterances
      <4>1. CASE vad \in {"ending", "last"} /\ ended' = ended + 1
        <5>1. ended = Over - 1 \/ (ended = Over /\ Found = Over + 1)
          <6>1. CASE vad = "ending" BY <1>0, <6>1 DEF VadInv
          <6>2. CASE vad = "last" BY <1>0, <1>n, <6>2 DEF VadInv
          <6> QED BY <4>1, <6>1, <6>2
        <5>2. Over <= Found BY <1>0, <1>n DEF VadInv
        <5> QED BY <1>n, <4>1, <5>1, <5>2, Thresholds
      <4>2. CASE ended' = ended BY <1>0, <4>2 DEF TypeOK
      <4>3. (vad \in {"ending", "last"} /\ ended' = ended + 1) \/ ended' = ended
        BY <1>4, <2>3 DEF VadStep, VadOpens, VadStarts, VadEnds, VadStreamEnds, VadLast, VadCancelled, VadMoves,
                    eventVars
      <4> QED BY <4>1, <4>2, <4>3
    <3> QED BY <1>0, <2>1, <3>1, <3>2, <3>3, <3>4 DEF TypeOK
  <2> QED BY <2>2, <2>3
<1>5. CASE \E u \in Utterances : AsrStep(u)
  <2>1. UNCHANGED <<vad, started, ended, fanout, audioEnded, shutdown>> /\ bus' \in 0 .. BusCap
    BY <1>5, AsrMoves DEF vadVars, fanoutVars, endVars
  <2> QED BY <1>0, <2>1 DEF TypeOK
<1> QED BY <1>1, <1>2, <1>3, <1>4, <1>5 DEF Next

\* The other channels, and the tasks at their ends.
LEMMA ChannelTypes ==
    ASSUME FrontInv, [Next]_vars
    PROVE  /\ speechState' \in Seq(BOOLEAN) /\ Len(speechState') <= StateCap
           /\ asrDone' \in Seq(Utterances) /\ Len(asrDone') <= DoneCap
           /\ current' \in [turn : 0 .. MaxUtterances, open : BOOLEAN]
           /\ task' \in [Utterances -> TaskStates]
<1>0. TypeOK BY DEF FrontInv
<1>n. /\ speechState \in Seq(BOOLEAN) /\ Len(speechState) \in Nat /\ Len(speechState) <= StateCap
      /\ asrDone \in Seq(Utterances) /\ Len(asrDone) \in Nat /\ Len(asrDone) <= DoneCap
      /\ current \in [turn : 0 .. MaxUtterances, open : BOOLEAN]
      /\ task \in [Utterances -> TaskStates]
      /\ StateCap \in Nat /\ DoneCap \in Nat /\ MaxUtterances \in Nat
  BY <1>0, Thresholds DEF TypeOK
<1>0a. NoTurn \in [turn : 0 .. MaxUtterances, open : BOOLEAN] BY <1>n DEF NoTurn
<1>1. CASE UNCHANGED <<speechState, asrDone, current, task>>
  BY <1>n, <1>1
<1>2. CASE FanoutReapsTask
  <2>1. UNCHANGED <<speechState, task>> /\ asrDone # <<>> /\ asrDone' = Tail(asrDone)
        /\ (current' = NoTurn \/ current' = current)
    BY <1>2 DEF FanoutReapsTask
  <2>2. asrDone' \in Seq(Utterances) /\ Len(asrDone') <= DoneCap BY <1>n, <2>1
  <2> QED BY <1>n, <1>0a, <2>1, <2>2
<1>3. CASE FanoutOpens
  <2>1. /\ FanoutHears(TRUE) /\ opened + 1 \in Utterances
        /\ current' = [turn |-> opened + 1, open |-> TRUE]
        /\ task' = [task EXCEPT ![opened + 1] = "reading"]
    BY <1>3, OpensIs
  <2>2. speechState' \in Seq(BOOLEAN) /\ Len(speechState') = Len(speechState) - 1 /\ asrDone' = asrDone
    BY <2>1, HearsIs
  <2>3. opened + 1 \in 0 .. MaxUtterances BY <1>n, <2>1 DEF Utterances
  <2>4. current' \in [turn : 0 .. MaxUtterances, open : BOOLEAN] BY <2>1, <2>3
  <2>5. task' \in [Utterances -> TaskStates] BY <1>n, <2>1 DEF TaskStates
  <2>6. Len(speechState') <= StateCap BY <1>n, <2>2
  <2> QED BY <1>n, <2>2, <2>4, <2>5, <2>6
<1>4. CASE FanoutCloses
  <2>1. FanoutHears(FALSE) /\ current' = [current EXCEPT !.open = FALSE] /\ task' = task
    BY <1>4, ClosesIs
  <2>2. speechState' \in Seq(BOOLEAN) /\ Len(speechState') = Len(speechState) - 1 /\ asrDone' = asrDone
    BY <2>1, HearsIs
  <2>3. current' \in [turn : 0 .. MaxUtterances, open : BOOLEAN] BY <1>n, <2>1
  <2>4. Len(speechState') <= StateCap BY <1>n, <2>2
  <2> QED BY <1>n, <2>1, <2>2, <2>3, <2>4
<1>5. CASE FanoutStops
  <2>1. current' = NoTurn /\ speechState' = <<>> /\ asrDone' = <<>> /\ task' = task BY <1>5 DEF FanoutStops
  <2>2. speechState' \in Seq(BOOLEAN) /\ Len(speechState') = 0 /\ asrDone' \in Seq(Utterances) /\ Len(asrDone') = 0
    BY <2>1
  <2> QED BY <1>n, <1>0a, <2>1, <2>2
<1>6. CASE VadOpens \/ VadEnds
  <2>1. UNCHANGED <<asrDone, current, task>>
    BY <1>6 DEF VadOpens, VadEnds, VadMoves, vadFrame, fanoutVars
  <2>2. PICK b \in BOOLEAN :
            speechState' = speechState \/ (Len(speechState) < StateCap /\ speechState' = Append(speechState, b))
    BY <1>6 DEF VadOpens, VadEnds, TellFanout
  <2>3. speechState' \in Seq(BOOLEAN) /\ Len(speechState') <= StateCap
    <3>1. CASE speechState' = speechState BY <1>n, <3>1
    <3>2. CASE Len(speechState) < StateCap /\ speechState' = Append(speechState, b)
      <4>1. speechState' \in Seq(BOOLEAN) /\ Len(speechState') = Len(speechState) + 1 BY <1>n, <3>2
      <4> QED BY <1>n, <3>2, <4>1
    <3> QED BY <2>2, <3>1, <3>2
  <2> QED BY <1>n, <2>1, <2>3
<1>7. CASE \E u \in Utterances : AsrStep(u)
  <2>1. PICK u \in Utterances : AsrStep(u) BY <1>7
  <2> QED BY <1>n, <2>1, AsrMoves DEF fanoutVars
<1>8. CASE VadStep /\ ~VadOpens /\ ~VadEnds
  BY <1>1, <1>8 DEF VadStep, VadVoiced, VadSilent, VadTakes, VadStarts, VadStreamEnds, VadLast, VadCancelled,
                    VadMoves, vadFrame, fanoutVars
<1>9. CASE FanoutSends \/ \E v \in BOOLEAN : FanoutFrame(v)
  BY <1>1, <1>9 DEF FanoutSends, FanoutFrame
<1>10. CASE UNCHANGED vars \/ DrainBus \/ AudioEnds \/ Shutdown
  BY <1>1, <1>10 DEF vars, fanoutVars, DrainBus, AudioEnds, Shutdown
<1> QED BY <1>2, <1>3, <1>4, <1>5, <1>6, <1>7, <1>8, <1>9, <1>10 DEF Next, FanoutStep

\* The parts together.
LEMMA FrontNext ==
    ASSUME FrontInv, [Next]_vars
    PROVE  FrontInv'
<1>1. TypeOK' BY AudioTypes, VadTypes, EventTypes, ChannelTypes DEF TypeOK
<1> QED BY <1>1, TakenNext, VadNext, SpacingNext, CountersNext, ChangesNext, BufferNext DEF FrontInv

\* The front end starts with nothing received.
LEMMA FrontInit ==
    ASSUME Init
    PROVE  FrontInv
<1>1. /\ Len(voiced) = 0 /\ Len(preBuffer) = 0 /\ Len(vadQueue) = 0 /\ Len(speechState) = 0 /\ Len(asrDone) = 0
      /\ Found = 0 /\ Over = 0 /\ Taken = 0 /\ Pending = 0 /\ HeardChanges = 0 /\ ToldChanges = 0
      /\ DOMAIN preBuffer = {} /\ DOMAIN vadQueue = {} /\ DOMAIN speechState = {} /\ DOMAIN asrDone = {}
  <2>1. Len(<<>>) = 0 /\ DOMAIN <<>> = {} OBVIOUS
  <2>2. /\ voiced = <<>> /\ preBuffer = <<>> /\ vadQueue = <<>> /\ speechState = <<>> /\ asrDone = <<>>
        /\ onset = <<>> /\ offset = <<>> /\ fanout = "select" /\ opened = 0 /\ ~current.open /\ vad = "recv"
    BY DEF Init, NoTurn
  <2>f. Found = 0 /\ Over = 0 BY <2>1, <2>2 DEF Found, Over
  <2>p. Pending = 0 BY <2>2 DEF Pending
  <2>o. opened = 0 /\ ~current.open BY <2>2
  <2>y. opened \in Nat /\ ~current.open BY <2>o
  <2>z. HeardChanges = 2 * opened BY <2>y DEF HeardChanges
  <2>h. HeardChanges = 0 BY <2>o, <2>z
  <2>3. Found = 0 /\ Over = 0 /\ Pending = 0 /\ HeardChanges = 0 BY <2>f, <2>p, <2>h
  <2>4. Taken = 0 BY <2>1, <2>2 DEF Taken
  <2>5. ToldChanges = 0 BY <2>3 DEF ToldChanges
  <2> QED BY <2>1, <2>2, <2>3, <2>4, <2>5
<1>2. TypeOK
  <2>1. /\ voiced \in Seq(BOOLEAN) /\ preBuffer \in Seq(Frames) /\ vadQueue \in Seq(Frames)
        /\ speechState \in Seq(BOOLEAN) /\ asrDone \in Seq(Utterances)
        /\ onset \in Seq(Frames) /\ offset \in Seq(Frames)
    BY DEF Init
  <2>2. current \in [turn : 0 .. MaxUtterances, open : BOOLEAN] /\ opened \in 0 .. MaxUtterances
        /\ started \in 0 .. MaxUtterances /\ ended \in 0 .. MaxUtterances /\ bus \in 0 .. BusCap
    BY Thresholds DEF Init, NoTurn
  <2>3. task \in [Utterances -> TaskStates] /\ captured \in [Utterances -> SUBSET Frames]
    BY DEF Init, TaskStates
  <2>4. /\ fanout \in {"select", "sending", "gone"} /\ vad \in VadStates
        /\ isSpeaking \in BOOLEAN /\ voicedRun \in Nat /\ silentRun \in Nat
        /\ audioEnded \in BOOLEAN /\ shutdown \in BOOLEAN
    BY DEF Init, VadStates
  <2>5. /\ Len(voiced) <= MaxFrames /\ Len(preBuffer) <= PreBuffer /\ Len(vadQueue) <= VadCap
        /\ Len(speechState) <= StateCap /\ Len(asrDone) <= DoneCap
    BY <1>1, Thresholds
  <2> QED BY <2>1, <2>2, <2>3, <2>4, <2>5 DEF TypeOK
<1>3. VadInv
  <2>1. vad = "recv" /\ ~isSpeaking /\ started = 0 /\ ended = 0 BY DEF Init
  <2>2. Found = 0 /\ Over = 0 BY <1>1
  <2>3. Found = Over + (IF isSpeaking THEN 1 ELSE 0) BY <2>1, <2>2
  <2>v. vad \notin {"opening", "starting"} /\ vad # "ending" BY <2>1
  <2>w. started = Found /\ ended = Over /\ Found \in Nat /\ Over \in Nat BY <2>1, <2>2
  <2>4. started = Found - (IF vad \in {"opening", "starting"} THEN 1 ELSE 0) BY <2>v, <2>w
  <2>5. ended = Over - (IF vad = "ending" THEN 1 ELSE 0) BY <2>v, <2>w
  <2>6. started <= Found /\ ended <= Found BY <2>1, <2>2
  <2> QED BY <2>1, <2>3, <2>4, <2>5, <2>6 DEF VadInv
<1>4. SpacingInv BY <1>1 DEF SpacingInv
<1>5. CountersInv BY <1>1, Thresholds DEF Init, CountersInv
<1>6. ChangesInv
  <2>1. \A u \in Utterances : u > 0 BY DEF Utterances
  <2> QED BY <1>1, <2>1 DEF Init, ChangesInv, NoTurn
<1>7. BufferInv BY <1>1 DEF Init, BufferInv
<1> QED BY <1>1, <1>2, <1>3, <1>4, <1>5, <1>6, <1>7 DEF FrontInv

\* Everything the VAD finds it tells the fanout once and in order, and the fanout
\* opens one ASR task for each utterance (vad component.rs run, session.rs fanout).
THEOREM FrontCorrect == Spec => []FrontInv
<1>1. Init => FrontInv BY FrontInit
<1>2. FrontInv /\ [Next]_vars => FrontInv' BY FrontNext
<1> QED BY <1>1, <1>2, PTL DEF Spec

-----------------------------------------------------------------------------
(* What the bus has seen of it. *)

\* SpeechStarted and SpeechEnded alternate.
LEMMA EventsAlternate ==
    ASSUME FrontInv
    PROVE  /\ vad \in {"starting", "opening", "closing"} => started = ended
           /\ vad \in {"ending", "last"} => started = ended + 1
           /\ vad # "gone" => started = ended \/ started = ended + 1
           /\ vad # "gone" => started >= Found - 1
           /\ vad # "gone" /\ started < Found => started = ended
<1>0. TypeOK /\ VadInv BY DEF FrontInv
<1>n. started \in Nat /\ ended \in Nat /\ Found \in Nat /\ Over \in Nat BY <1>0, Numbers
<1>1. CASE vad \in {"opening", "starting"}
  <2>1. Found = Over + 1 /\ started = Found - 1 /\ ended = Over BY <1>0, <1>n, <1>1 DEF VadInv
  <2> QED BY <1>n, <1>1, <2>1
<1>2. CASE vad = "ending"
  <2>1. Found = Over /\ started = Found /\ ended = Over - 1 BY <1>0, <1>n, <1>2 DEF VadInv
  <2> QED BY <1>n, <1>2, <2>1
<1>3. CASE vad \in {"closing", "last", "recv"}
  <2>1. started = Found /\ ended = Over BY <1>0, <1>n, <1>3 DEF VadInv
  <2>2. Found = Over \/ Found = Over + 1 BY <1>0, <1>n DEF VadInv
  <2>3. vad = "closing" => Found = Over BY <1>0, <1>n DEF VadInv
  <2>4. vad = "last" => Found = Over + 1 BY <1>0, <1>n DEF VadInv
  <2> QED BY <1>n, <1>3, <2>1, <2>2, <2>3, <2>4
<1> QED BY <1>0, <1>1, <1>2, <1>3 DEF TypeOK, VadStates

\* While the session lives, the fanout opens no capture before the VAD is about to
\* put SpeechStarted on the bus, and closes none before SpeechEnded is on it.
LEMMA HeardOnBus ==
    ASSUME FrontInv, Alive
    PROVE  OnBusInv
<1>0. TypeOK /\ VadInv /\ ChangesInv BY DEF FrontInv
<1>n. /\ started \in Nat /\ ended \in Nat /\ Found \in Nat /\ Over \in Nat /\ Pending \in 0 .. 1
      /\ opened \in Nat /\ Len(speechState) \in Nat /\ HeardChanges \in Int
  BY <1>0, Numbers
<1>t. ToldChanges \in Int BY <1>n DEF ToldChanges
<1>1. HeardChanges <= ToldChanges
  <2>1. Len(speechState) = ToldChanges - HeardChanges BY <1>0 DEF ChangesInv
  <2> QED BY <1>n, <1>t, <2>1
<1>2. vad # "gone" BY <1>0 DEF VadInv
<1>3. ended <= started BY <1>2, <1>n, EventsAlternate
<1>4. current.open => current.turn = opened BY <1>0 DEF ChangesInv
<1>5. \/ ToldChanges <= 2 * ended
      \/ ToldChanges <= 2 * ended + 1 /\ ended <= started
  <2>1. CASE vad \in {"opening", "closing"}
    <3>1. Pending = 1 BY <2>1 DEF Pending
    <3>2. ended = Over BY <1>0, <1>n, <2>1 DEF VadInv
    <3>3. Found <= Over + 1 BY <1>0, <1>n DEF VadInv
    <3> QED BY <1>n, <3>1, <3>2, <3>3 DEF ToldChanges
  <2>2. CASE vad = "ending"
    <3>1. Pending = 1 BY <2>2 DEF Pending
    <3>2. ended = Over - 1 /\ Found = Over BY <1>0, <1>n, <2>2 DEF VadInv
    <3>3. ToldChanges = 2 * ended + 1 BY <1>n, <3>1, <3>2 DEF ToldChanges
    <3> QED BY <1>n, <1>3, <3>3
  <2>3. CASE vad \in {"starting", "recv", "last"}
    <3>1. Pending = 0 BY <2>3 DEF Pending
    <3>2. ended = Over BY <1>0, <1>n, <2>3 DEF VadInv
    <3>3. Found <= Over + 1 BY <1>0, <1>n DEF VadInv
    <3>4. ToldChanges <= 2 * ended + 1 BY <1>n, <3>1, <3>2, <3>3 DEF ToldChanges
    <3> QED BY <1>3, <3>4
  <2> QED BY <1>0, <1>2, <2>1, <2>2, <2>3 DEF TypeOK, VadStates
<1>6. CASE current.open
  <2>1. HeardChanges = 2 * opened - 1 BY <1>n, <1>6 DEF HeardChanges
  <2>2. opened <= ended + 1 BY <1>n, <1>t, <1>1, <1>5, <2>1
  <2> QED BY <1>n, <1>3, <1>4, <1>6, <2>2 DEF OnBusInv
<1>7. CASE ~current.open
  <2>1. HeardChanges = 2 * opened BY <1>n, <1>7 DEF HeardChanges
  <2>2. opened <= ended BY <1>n, <1>t, <1>1, <1>5, <2>1
  <2> QED BY <1>n, <1>3, <1>7, <2>2 DEF OnBusInv
<1> QED BY <1>6, <1>7

\* At the end of the session the fanout hears no more.
LEMMA EndsOnBus ==
    ASSUME FrontInv, OnBusInv, [Next]_vars, ~Alive'
    PROVE  OnBusInv'
<1>0. TypeOK /\ VadInv BY DEF FrontInv
<1>n. started \in Nat /\ ended \in Nat /\ opened \in Nat /\ current.open \in BOOLEAN BY <1>0, Numbers DEF TypeOK
<1>1. /\ started' \in Nat /\ ended' \in Nat /\ ended' <= started'
      /\ started' >= started /\ ended' >= ended
  <2>1. CASE ~VadStep BY <1>n, <2>1, OthersLeaveVad DEF OnBusInv
  <2>2. CASE VadStep
    <3>1. CASE VadStarts
      <4>1. started' = started + 1 /\ ended' = ended BY <3>1 DEF VadStarts
      <4> QED BY <1>n, <4>1 DEF OnBusInv
    <3>2. CASE vad \in {"ending", "last"} /\ ended' = ended + 1 /\ started' = started
      <4>1. started = ended + 1 BY <3>2, EventsAlternate
      <4> QED BY <1>n, <3>2, <4>1
    <3>3. CASE UNCHANGED <<started, ended>> BY <1>n, <3>3 DEF OnBusInv
    <3>4. VadStarts \/ (vad \in {"ending", "last"} /\ ended' = ended + 1 /\ started' = started)
            \/ UNCHANGED <<started, ended>>
      BY <2>2 DEF VadStep, VadVoiced, VadSilent, VadTakes, VadOpens, VadEnds, VadStreamEnds, VadLast, VadCancelled,
                  VadMoves, eventVars
    <3> QED BY <3>1, <3>2, <3>3, <3>4
  <2> QED BY <2>1, <2>2
<1>2. fanout' # "gone" => fanout # "gone" BY StaysGone
<1>3. ASSUME fanout' # "gone" PROVE opened' = opened /\ current' = current
  <2>1. shutdown' BY <1>3 DEF Alive
  <2>2. CASE shutdown
    <3>1. ~FanoutReapsTask /\ ~FanoutOpens /\ ~FanoutCloses /\ \A v \in BOOLEAN : ~FanoutFrame(v)
      BY <2>2 DEF FanoutReapsTask, FanoutOpens, FanoutCloses, FanoutHears, FanoutFrame, TakesFrame
    <3>2. ~FanoutStops BY <1>3 DEF FanoutStops
    <3>3. CASE UNCHANGED vars \/ DrainBus \/ AudioEnds \/ Shutdown
      BY <1>0, <3>3, OtherSteps DEF fanoutVars
    <3>4. CASE FanoutSends BY <3>4 DEF FanoutSends
    <3>5. CASE VadStep
      BY <3>5 DEF VadStep, VadVoiced, VadSilent, VadTakes, VadOpens, VadStarts, VadEnds, VadStreamEnds, VadLast,
                  VadCancelled, VadMoves, vadFrame, fanoutVars
    <3>6. CASE \E u \in Utterances : AsrStep(u) BY <3>6, AsrMoves DEF fanoutVars
    <3> QED BY <3>1, <3>2, <3>3, <3>4, <3>5, <3>6 DEF Next, FanoutStep
  <2>3. CASE ~shutdown
    <3>1. Shutdown
      <4>1. CASE UNCHANGED vars \/ DrainBus \/ AudioEnds
        BY <2>1, <2>3, <4>1 DEF vars, DrainBus, AudioEnds, endVars
      <4>2. CASE FanoutStep \/ \E v \in BOOLEAN : FanoutFrame(v)
        BY <2>1, <2>3, <4>2 DEF FanoutStep, FanoutReapsTask, FanoutOpens, FanoutCloses, FanoutHears, FanoutSends,
                    FanoutStops, FanoutFrame, fanoutFrame, endVars
      <4>3. CASE VadStep
        BY <2>1, <2>3, <4>3 DEF VadStep, VadVoiced, VadSilent, VadTakes, VadOpens, VadStarts, VadEnds,
                    VadStreamEnds, VadLast, VadCancelled, VadMoves, vadFrame, endVars
      <4>4. CASE \E u \in Utterances : AsrStep(u) BY <2>1, <2>3, <4>4, AsrMoves DEF endVars
      <4> QED BY <4>1, <4>2, <4>3, <4>4 DEF Next
    <3> QED BY <3>1 DEF Shutdown, fanoutVars
  <2> QED BY <2>2, <2>3
<1> QED BY <1>n, <1>1, <1>2, <1>3 DEF OnBusInv

\* A capture is opened at most one SpeechStarted early and closed only after its
\* SpeechEnded is on the bus (component.rs sends the event before the speech state).
THEOREM OnBusCorrect == Spec => []OnBusInv
<1>1. Init => OnBusInv
  <2> SUFFICES ASSUME Init PROVE OnBusInv
    OBVIOUS
  <2>1. FrontInv BY FrontInit
  <2>2. Alive BY DEF Init, Alive
  <2> QED BY <2>1, <2>2, HeardOnBus
<1>2. FrontInv /\ OnBusInv /\ [Next]_vars /\ ~Alive' => OnBusInv' BY EndsOnBus
<1>3. FrontInv /\ Alive => OnBusInv BY HeardOnBus
<1> QED BY <1>1, <1>2, <1>3, FrontCorrect, PTL DEF Spec

\* A step that moves no task, sends no event and leaves the fanout where it was.
LEMMA BusStutters ==
    ASSUME UNCHANGED <<task, started, ended>>, (fanout' = "gone") <=> (fanout = "gone")
    PROVE  UNCHANGED Abstract!speechVars
<1>1. \A u \in Utterances : AsrPhase(u)' = AsrPhase(u)
  BY DEF AsrPhase, Talking
<1>2. UNCHANGED <<started, Talking, fanout = "gone">> BY DEF Talking
<1>3. UNCHANGED [u \in Utterances |-> AsrPhase(u)] BY <1>1
<1> QED BY <1>2, <1>3 DEF Abstract!speechVars

\* What a step of one task does, when no event is sent.
LEMMA BusTask ==
    ASSUME TypeOK, NEW u \in Utterances, NEW to \in TaskStates,
           task' = [task EXCEPT ![u] = to], UNCHANGED <<started, ended, fanout>>
    PROVE  /\ UNCHANGED <<started, Talking, fanout = "gone">>
           /\ [w \in Utterances |-> AsrPhase(w)]' =
                 [[w \in Utterances |-> AsrPhase(w)] EXCEPT ![u] = AsrPhase(u)']
<1>1. \A w \in Utterances \ {u} : AsrPhase(w)' = AsrPhase(w)
  <2>1. \A w \in Utterances \ {u} : task'[w] = task[w] BY DEF TypeOK
  <2> QED BY <2>1 DEF AsrPhase, Talking
<1>2. UNCHANGED <<started, Talking, fanout = "gone">> BY DEF Talking
<1> QED BY <1>1, <1>2

\* Each step of the front end is a step of SpeechEvents, or one that it does not see.
LEMMA BusNext ==
    ASSUME FrontInv, OnBusInv, [Next]_vars
    PROVE  [Abstract!SpeechNext]_(Abstract!speechVars)
<1> DEFINE Phases == [u \in Utterances |-> AsrPhase(u)]
<1>0. TypeOK /\ VadInv /\ ChangesInv BY DEF FrontInv
<1>n. /\ started \in Nat /\ ended \in Nat /\ Found \in Nat /\ opened \in Nat /\ started <= MaxUtterances
      /\ task \in [Utterances -> TaskStates]
  BY <1>0, Numbers DEF TypeOK
<1>u. Abstract!Utterances = Utterances BY DEF Abstract!Utterances, Utterances
<1>1. CASE UNCHANGED vars \/ DrainBus \/ AudioEnds \/ Shutdown
  <2>1. UNCHANGED <<task, started, ended, fanout>>
    BY <1>1 DEF vars, fanoutVars, eventVars, DrainBus, AudioEnds, Shutdown
  <2> QED BY <2>1, BusStutters
<1>2. CASE FanoutReapsTask \/ FanoutCloses \/ FanoutSends \/ \E v \in BOOLEAN : FanoutFrame(v)
  <2>1. UNCHANGED <<task, started, ended>> /\ (fanout' = "gone" <=> fanout = "gone")
    BY <1>2 DEF FanoutReapsTask, FanoutCloses, FanoutHears, FanoutSends, FanoutFrame, TakesFrame, fanoutFrame, eventVars
  <2> QED BY <2>1, BusStutters
<1>3. CASE FanoutOpens
  <2>0. PICK u \in Utterances : u = opened + 1 BY <1>3, OpensIs
  <2>1. FanoutHears(TRUE) /\ task' = [task EXCEPT ![u] = "reading"]
    BY <1>3, <2>0, OpensIs
  <2>2. /\ Alive /\ fanout # "gone" /\ UNCHANGED <<started, ended, fanout>>
        /\ u <= Found /\ task[u] = "none" /\ task'[u] = "reading"
    <3>1. Alive /\ fanout # "gone" /\ UNCHANGED <<started, ended, fanout>> /\ opened + 1 <= Found
      BY <2>1, HearsIs
    <3>2. task[u] = "none" BY <1>0, <1>n, <2>0 DEF ChangesInv
    <3>3. task'[u] = "reading" BY <1>n, <2>1
    <3> QED BY <2>0, <3>1, <3>2, <3>3
  <2>3. /\ UNCHANGED <<started, Talking, fanout = "gone">>
        /\ Phases' = [Phases EXCEPT ![u] = AsrPhase(u)']
    <3>1. "reading" \in TaskStates BY DEF TaskStates
    <3> QED BY <1>0, <2>1, <2>2, <3>1, BusTask
  <2>4. u \in Nat BY DEF Utterances
  <2>5. CASE u <= started
    <3>1. AsrPhase(u)' = AsrPhase(u)
      <4>1. ~(u > started) /\ ~(u > started') BY <1>n, <2>2, <2>4, <2>5
      <4> QED BY <2>2, <2>3, <2>5, <4>1 DEF AsrPhase
    <3>2. Phases[u] = AsrPhase(u) OBVIOUS
    <3>3. Phases' = Phases BY <2>3, <3>1, <3>2
    <3> QED BY <2>3, <3>3 DEF Abstract!speechVars
  <2>6. CASE ~(u <= started)
    <3>1. vad # "gone" BY <1>0, <2>2 DEF VadInv
    <3>2. started >= Found - 1 BY <3>1, EventsAlternate
    <3>3. u = started + 1 /\ started < Found BY <1>n, <2>2, <2>4, <2>6, <3>2
    <3>4. started = ended BY <3>1, <3>3, EventsAlternate
    <3>5. ~Talking BY <1>n, <3>4 DEF Talking
    <3>6. Phases[u] = "none"
      <4>1. AsrPhase(u) = "none" BY <1>n, <2>2, <3>3 DEF AsrPhase
      <4> QED BY <4>1
    <3>7. AsrPhase(u)' = "capturing"
      <4>1. ~(u <= started') BY <2>2, <2>6
      <4> QED BY <2>2, <4>1 DEF AsrPhase
    <3>8. Phases' = [Phases EXCEPT ![started + 1] = "capturing"] BY <2>3, <3>3, <3>7
    <3>9. started < MaxUtterances BY <1>n, <3>3, Thresholds DEF Utterances
    <3>10. Abstract!OpenCapture BY <2>2, <2>3, <3>3, <3>5, <3>6, <3>8, <3>9 DEF Abstract!OpenCapture
    <3> QED BY <3>10 DEF Abstract!SpeechNext
  <2> QED BY <2>5, <2>6
<1>4. CASE FanoutStops
  <2>1. fanout = "select" /\ fanout' = "gone" /\ UNCHANGED <<task, started, ended>>
    BY <1>4 DEF FanoutStops, fanoutFrame, eventVars
  <2>2. \A u \in Utterances : Phases'[u] = AsrPhase(u)' /\ Phases[u] = AsrPhase(u) OBVIOUS
  <2>3. \A u \in Utterances : AsrPhase(u)' \in {"none", "done", "transcribing", "partial"}
    BY <2>1 DEF AsrPhase
  <2>4. \A u \in Utterances :
            IF AsrPhase(u) \in {"capturing", "transcribing"}
            THEN AsrPhase(u)' \in {"transcribing", "done"}
            ELSE AsrPhase(u)' = AsrPhase(u)
    <3> SUFFICES ASSUME NEW u \in Utterances
                 PROVE  IF AsrPhase(u) \in {"capturing", "transcribing"}
                        THEN AsrPhase(u)' \in {"transcribing", "done"}
                        ELSE AsrPhase(u)' = AsrPhase(u)
      OBVIOUS
    <3>1. CASE task[u] = "none" BY <2>1, <3>1 DEF AsrPhase
    <3>2. CASE task[u] = "reading" BY <2>1, <3>2 DEF AsrPhase
    <3>3. CASE task[u] \notin {"none", "reading"} BY <2>1, <3>3 DEF AsrPhase
    <3> QED BY <3>1, <3>2, <3>3
  <2>5. Phases' \in [Utterances -> Abstract!AsrStates] BY <2>2, <2>3 DEF Abstract!AsrStates
  <2>6. \A u \in Utterances :
            IF Phases[u] \in {"capturing", "transcribing"}
            THEN Phases'[u] \in {"transcribing", "done"}
            ELSE Phases'[u] = Phases[u]
    BY <2>2, <2>4
  <2>7. (fanout = "gone")' = TRUE /\ ~(fanout = "gone") /\ UNCHANGED <<started, Talking>> BY <2>1 DEF Talking
  <2>8. Abstract!HangUp BY <1>u, <2>5, <2>6, <2>7 DEF Abstract!HangUp
  <2> QED BY <2>8 DEF Abstract!SpeechNext
<1>5. CASE VadStarts
  <2>1. /\ vad = "starting" /\ started' = started + 1 /\ UNCHANGED <<ended, task, fanout>>
    BY <1>5 DEF VadStarts, VadMoves, vadFrame, fanoutVars
  <2>2. started = ended BY <2>1, EventsAlternate
  <2>3. started < MaxUtterances
    <3>1. started = Found - 1 BY <1>0, <2>1 DEF VadInv
    <3> QED BY <1>n, <3>1, FoundBounded, Thresholds
  <2>4. ~Talking /\ Talking' = TRUE BY <1>n, <2>1, <2>2 DEF Talking
  <2>5. \A u \in Utterances : u # started + 1 => AsrPhase(u)' = AsrPhase(u)
    <3> SUFFICES ASSUME NEW u \in Utterances, u # started + 1 PROVE AsrPhase(u)' = AsrPhase(u)
      OBVIOUS
    <3>1. u \in Nat BY DEF Utterances
    <3>2. (u > started') <=> (u > started) BY <1>n, <2>1, <3>1
    <3>3. (u <= started' /\ (u < started' \/ ~Talking')) <=> (u <= started /\ (u < started \/ ~Talking))
      BY <1>n, <2>1, <2>4, <3>1
    <3>4. u <= started => (u < started' \/ ~Talking') /\ (u < started \/ ~Talking) BY <1>n, <2>1, <2>4, <3>1
    <3>5. u > started \/ u <= started BY <1>n, <3>1
    <3> QED BY <2>1, <3>2, <3>3, <3>4, <3>5 DEF AsrPhase
  <2>6. PICK u \in Utterances : u = started + 1 BY <1>n, <2>3, Thresholds DEF Utterances
  <2>7. AsrPhase(u)' = IF AsrPhase(u) # "none" THEN AsrPhase(u)
                       ELSE IF fanout = "gone" THEN "done" ELSE "capturing"
    <3>1. /\ u > started /\ ~(u > started') /\ ~(u <= started) /\ ~(u < started') /\ Talking'
      BY <1>n, <2>1, <2>4, <2>6
    <3>2. CASE task[u] = "none" BY <2>1, <3>1, <3>2 DEF AsrPhase
    <3>3. CASE task[u] # "none" BY <2>1, <3>1, <3>3 DEF AsrPhase
    <3> QED BY <3>2, <3>3
  <2>8. Phases' = [Phases EXCEPT ![started + 1] =
                      IF @ # "none" THEN @ ELSE IF fanout = "gone" THEN "done" ELSE "capturing"]
    BY <2>5, <2>6, <2>7
  <2>9. UNCHANGED (fanout = "gone") BY <2>1
  <2>10. Abstract!StartUtterance BY <2>1, <2>3, <2>4, <2>8, <2>9 DEF Abstract!StartUtterance
  <2> QED BY <2>10 DEF Abstract!SpeechNext
<1>6. CASE VadEnds \/ VadLast
  <2>1. UNCHANGED <<task, started, fanout>>
    BY <1>6 DEF VadEnds, VadLast, VadMoves, vadFrame, fanoutVars, eventVars
  <2>2. CASE ended' = ended
    BY <2>1, <2>2, BusStutters
  <2>3. CASE vad \in {"ending", "last"} /\ ended' = ended + 1
    <3>1. started = ended + 1 BY <2>3, EventsAlternate
    <3>2. Talking /\ Talking' = FALSE BY <1>n, <2>1, <2>3, <3>1 DEF Talking
    <3>3. \A u \in Utterances : u # started => AsrPhase(u)' = AsrPhase(u)
      <4> SUFFICES ASSUME NEW u \in Utterances, u # started PROVE AsrPhase(u)' = AsrPhase(u)
        OBVIOUS
      <4>1. u \in Nat BY DEF Utterances
      <4>2. (u <= started /\ (u < started \/ ~Talking')) <=> (u <= started /\ (u < started \/ ~Talking))
        BY <1>n, <4>1
      <4>3. ~(u > started) => (u < started) BY <1>n, <4>1
      <4> QED BY <2>1, <4>2, <4>3 DEF AsrPhase
    <3>4. started \in Utterances BY <1>n, <3>1 DEF Utterances
    <3>5. AsrPhase(started)' = IF AsrPhase(started) = "capturing" THEN "transcribing" ELSE AsrPhase(started)
      <4>1. /\ ~(started > started) /\ ~(started < started) /\ started <= started /\ ~Talking' /\ Talking
        BY <1>n, <3>2
      <4>2. AsrPhase(started) = AsrPhase(started) OBVIOUS
      <4>3. CASE task[started] = "none" BY <2>1, <4>1, <4>3 DEF AsrPhase
      <4>4. CASE task[started] # "none" BY <2>1, <4>1, <4>4 DEF AsrPhase
      <4> QED BY <4>3, <4>4
    <3>6. Phases' = [Phases EXCEPT ![started] = IF @ = "capturing" THEN "transcribing" ELSE @]
      <4>1. Phases' = [u \in Utterances |-> IF u = started
                          THEN (IF AsrPhase(u) = "capturing" THEN "transcribing" ELSE AsrPhase(u))
                          ELSE AsrPhase(u)]
        BY <2>1, <3>3, <3>4, <3>5
      <4> QED BY <3>4, <4>1
    <3>7. UNCHANGED <<started, fanout = "gone">> BY <2>1
    <3>8. Abstract!EndUtterance BY <3>2, <3>6, <3>7 DEF Abstract!EndUtterance
    <3> QED BY <3>8 DEF Abstract!SpeechNext
  <2>4. ended' = ended \/ (vad \in {"ending", "last"} /\ ended' = ended + 1)
    BY <1>6 DEF VadEnds, VadLast, VadMoves, eventVars
  <2> QED BY <2>2, <2>3, <2>4
<1>7. CASE VadStep /\ ~VadStarts /\ ~VadEnds /\ ~VadLast
  <2>1. UNCHANGED <<task, started, ended, fanout>>
    <3>1. CASE VadVoiced \/ VadSilent
      BY <3>1 DEF VadVoiced, VadSilent, VadTakes, vadFrame, fanoutVars, eventVars
    <3>2. CASE ~(VadVoiced \/ VadSilent)
      BY <1>7, <3>2 DEF VadStep, VadOpens, VadStreamEnds, VadCancelled, VadMoves, vadFrame, fanoutVars, eventVars
    <3> QED BY <3>1, <3>2
  <2> QED BY <2>1, BusStutters
<1>8. CASE \E u \in Utterances : AsrStep(u)
  <2>1. PICK u \in Utterances : AsrStep(u) BY <1>8
  <2>2. ASSUME NEW from, NEW to \in TaskStates, TaskMoves(u, from, to)
        PROVE  /\ task[u] = from /\ UNCHANGED <<started, ended, fanout>> /\ task'[u] = to
               /\ UNCHANGED <<started, Talking, fanout = "gone">>
               /\ Phases' = [Phases EXCEPT ![u] = AsrPhase(u)']
               /\ Phases[u] = AsrPhase(u)
    <3>1. task[u] = from /\ task' = [task EXCEPT ![u] = to] /\ UNCHANGED <<started, ended, fanout>>
      BY <2>2 DEF TaskMoves, asrFrame, fanoutVars
    <3>2. task'[u] = to BY <1>n, <3>1
    <3> QED BY <1>0, <3>1, <3>2, BusTask
  <2>3. CASE AsrPartial(u)
    <3>1. TaskMoves(u, "request", "partial") BY <2>3 DEF AsrPartial
    <3>2. /\ task[u] = "request" /\ task'[u] = "partial" /\ UNCHANGED <<started, Talking, fanout = "gone">>
          /\ Phases' = [Phases EXCEPT ![u] = AsrPhase(u)'] /\ Phases[u] = AsrPhase(u)
      BY <2>2, <3>1 DEF TaskStates
    <3>3. AsrPhase(u) = "transcribing" /\ AsrPhase(u)' = "partial" BY <3>2 DEF AsrPhase
    <3>4. Abstract!PartialText(u) BY <3>2, <3>3 DEF Abstract!PartialText
    <3> QED BY <1>u, <3>4 DEF Abstract!SpeechNext
  <2>4. CASE AsrFinal(u)
    <3>1. TaskMoves(u, "partial", "reporting") BY <2>4 DEF AsrFinal
    <3>2. /\ task[u] = "partial" /\ task'[u] = "reporting" /\ UNCHANGED <<started, Talking, fanout = "gone">>
          /\ Phases' = [Phases EXCEPT ![u] = AsrPhase(u)'] /\ Phases[u] = AsrPhase(u)
      BY <2>2, <3>1 DEF TaskStates
    <3>3. AsrPhase(u) = "partial" /\ AsrPhase(u)' = "done" BY <3>2 DEF AsrPhase
    <3>4. Abstract!FinalText(u) BY <3>2, <3>3 DEF Abstract!FinalText
    <3> QED BY <1>u, <3>4 DEF Abstract!SpeechNext
  <2>5. ASSUME NEW from \in {"reading", "request", "partial"}, TaskMoves(u, from, "reporting")
        PROVE  Abstract!SpeechNext
    <3>1. /\ task[u] = from /\ task'[u] = "reporting" /\ UNCHANGED <<started, Talking, fanout = "gone">>
          /\ Phases' = [Phases EXCEPT ![u] = AsrPhase(u)'] /\ Phases[u] = AsrPhase(u)
      BY <2>2, <2>5 DEF TaskStates
    <3>2. AsrPhase(u) \in {"capturing", "transcribing", "partial"} BY <3>1 DEF AsrPhase
    <3>3. AsrPhase(u)' = "done" BY <3>1 DEF AsrPhase
    <3>4. Abstract!NoText(u) BY <3>1, <3>2, <3>3 DEF Abstract!NoText, Abstract!AsrLive
    <3> QED BY <1>u, <3>4 DEF Abstract!SpeechNext
  <2>6. CASE AsrFails(u) BY <2>5, <2>6 DEF AsrFails
  <2>7. CASE AsrCancelled(u) BY <2>5, <2>7 DEF AsrCancelled
  <2>8. CASE AsrCollected(u)
    <3>1. CASE captured[u] = {} BY <2>5, <2>8, <3>1 DEF AsrCollected
    <3>2. CASE captured[u] # {}
      <4>1. TaskMoves(u, "reading", "request") /\ ~CaptureOpen(u) BY <2>8, <3>2 DEF AsrCollected
      <4>2. /\ task[u] = "reading" /\ task'[u] = "request" /\ UNCHANGED <<started, Talking, fanout = "gone">>
            /\ Phases' = [Phases EXCEPT ![u] = AsrPhase(u)'] /\ Phases[u] = AsrPhase(u)
        BY <2>2, <4>1 DEF TaskStates
      <4>3. fanout # "gone" => u <= ended
        <5> SUFFICES ASSUME fanout # "gone" PROVE u <= ended
          OBVIOUS
        <5>1. u \in Nat /\ u <= opened
          <6>1. u \in Nat BY DEF Utterances
          <6>2. ~(u > opened) BY <1>0, <4>2 DEF ChangesInv
          <6> QED BY <1>n, <6>1, <6>2
        <5>2. CASE current.open
          <6>1. current.turn = opened /\ opened - 1 <= ended BY <5>2 DEF OnBusInv
          <6>2. u # opened BY <1>0, <4>1, <5>2, <6>1 DEF CaptureOpen, TypeOK
          <6> QED BY <1>n, <5>1, <6>1, <6>2
        <5>3. CASE ~current.open
          <6>1. opened <= ended BY <1>n, <5>3 DEF OnBusInv
          <6> QED BY <1>n, <5>1, <6>1
        <5> QED BY <5>2, <5>3
      <4>4. fanout = "gone" \/ (u <= started /\ (u < started \/ ~Talking))
        <5>1. u \in Nat BY DEF Utterances
        <5> QED BY <1>n, <4>3, <5>1 DEF OnBusInv, Talking
      <4>5. AsrPhase(u) = "transcribing" /\ AsrPhase(u)' = "transcribing" BY <4>2, <4>4 DEF AsrPhase
      <4>6. Phases' = Phases BY <4>2, <4>5
      <4> QED BY <4>2, <4>6 DEF Abstract!speechVars
    <3> QED BY <3>1, <3>2
  <2>9. CASE AsrReports(u)
    <3>1. TaskMoves(u, "reporting", "done") BY <2>9 DEF AsrReports
    <3>2. /\ task[u] = "reporting" /\ task'[u] = "done" /\ UNCHANGED <<started, Talking, fanout = "gone">>
          /\ Phases' = [Phases EXCEPT ![u] = AsrPhase(u)'] /\ Phases[u] = AsrPhase(u)
      BY <2>2, <3>1 DEF TaskStates
    <3>3. AsrPhase(u) = "done" /\ AsrPhase(u)' = "done" BY <3>2 DEF AsrPhase
    <3>4. Phases' = Phases BY <3>2, <3>3
    <3> QED BY <3>2, <3>4 DEF Abstract!speechVars
  <2> QED BY <2>1, <2>3, <2>4, <2>6, <2>7, <2>8, <2>9 DEF AsrStep
<1> QED BY <1>1, <1>2, <1>3, <1>4, <1>5, <1>6, <1>7, <1>8 DEF Next, FanoutStep

\* The fanout, the VAD and the ASR tasks with their channels put on the bus what
\* SpeechEvents promises, which is what Orchestrator is checked against
\* (session.rs fanout, component.rs run).
THEOREM SpeechOnBus == Spec => ImplementsSpeechEvents
<1>1. Init => Abstract!SpeechInit
  <2> SUFFICES ASSUME Init PROVE Abstract!SpeechInit
    OBVIOUS
  <2>1. /\ started = 0 /\ ended = 0 /\ fanout = "select" /\ task = [u \in Utterances |-> "none"]
    BY DEF Init
  <2>2. Talking = FALSE BY <2>1 DEF Talking
  <2>3. \A u \in Utterances : AsrPhase(u) = "none"
    <3>1. \A u \in Utterances : u > 0 BY DEF Utterances
    <3> QED BY <2>1, <3>1 DEF AsrPhase
  <2>4. Abstract!Utterances = Utterances BY DEF Abstract!Utterances, Utterances
  <2> QED BY <2>1, <2>2, <2>3, <2>4 DEF Abstract!SpeechInit
<1>2. FrontInv /\ OnBusInv /\ [Next]_vars => [Abstract!SpeechNext]_(Abstract!speechVars)
  BY BusNext
<1> QED BY <1>1, <1>2, FrontCorrect, OnBusCorrect, PTL DEF Spec, ImplementsSpeechEvents, Abstract!SpeechSpec

-----------------------------------------------------------------------------
(* No speech twice. *)

\* Each utterance begins after the end of every one before it.
LEMMA OrderNext ==
    ASSUME FrontInv, OrderInv, [Next]_vars
    PROVE  OrderInv'
<1>0. TypeOK /\ VadInv /\ SpacingInv /\ CountersInv BY DEF FrontInv
<1>n. /\ Found \in Nat /\ Over \in Nat /\ Taken \in Int /\ voicedRun \in Nat /\ Over <= Found
      /\ \A k \in 1 .. Found : onset[k] \in Nat
      /\ \A k \in 1 .. Over : offset[k] \in Nat
  BY <1>0, Numbers DEF VadInv
<1>1. CASE UNCHANGED <<onset, offset>>
  <2>1. Found' = Found BY <1>1 DEF Found
  <2> QED BY <1>1, <2>1 DEF OrderInv
<1>2. CASE VadVoiced /\ onset' # onset
  <2>1. /\ VadTakes /\ offset' = offset /\ ~isSpeaking /\ Found' = Found + 1
        /\ \A k \in 1 .. Found : onset'[k] = onset[k]
        /\ onset'[Found + 1] = Taken + 1 - voicedRun
    BY <1>2, VoicedMoves
  <2>2. vad # "gone" BY <2>1, TakeMoves
  <2>3. Over = Found BY <1>0, <1>n, <2>1 DEF VadInv
  <2>4. \A j \in 1 .. Found : offset[j] <= Taken - voicedRun
    <3> SUFFICES ASSUME NEW j \in 1 .. Found PROVE offset[j] <= Taken - voicedRun
      OBVIOUS
    <3>1. Found > 0 /\ Found \in 1 .. Found BY <1>n
    <3>2. offset[Found] + voicedRun <= Taken BY <1>0, <2>1, <2>2, <2>3, <3>1 DEF CountersInv
    <3>3. CASE j = Found BY <1>n, <2>3, <3>1, <3>2, <3>3
    <3>4. CASE j # Found
      <4>1. j \in 1 .. Found - 1 BY <1>n, <3>4
      <4>2. offset[j] < onset[Found] BY <3>1, <4>1 DEF OrderInv
      <4>3. onset[Found] <= offset[Found]
        <5>1. Decision(Found) + MinSilent <= offset[Found] BY <1>0, <2>3, <3>1 DEF SpacingInv
        <5> QED BY <1>n, <2>3, <3>1, <5>1, Thresholds DEF Decision
      <4>4. offset[j] \in Nat /\ offset[Found] \in Nat /\ onset[Found] \in Nat BY <1>n, <2>3, <3>1
      <4> QED BY <1>n, <3>2, <4>2, <4>3, <4>4
    <3> QED BY <3>3, <3>4
  <2> SUFFICES ASSUME NEW k \in 1 .. Found + 1, NEW j \in 1 .. k - 1 PROVE onset'[k] > offset[j]
    BY <2>1 DEF OrderInv
  <2>5. CASE k = Found + 1
    <3>1. j \in 1 .. Found BY <1>n, <2>5
    <3>2. offset[j] <= Taken - voicedRun /\ offset[j] \in Nat BY <1>n, <2>3, <2>4, <3>1
    <3>3. onset'[k] = Taken + 1 - voicedRun BY <2>1, <2>5
    <3> QED BY <1>n, <3>2, <3>3
  <2>6. CASE k # Found + 1
    <3>1. k \in 1 .. Found BY <1>n, <2>6
    <3> QED BY <2>1, <3>1 DEF OrderInv
  <2> QED BY <2>5, <2>6
<1>3. CASE VadSilent /\ offset' # offset
  <2>1. onset' = onset /\ Found' = Found /\ isSpeaking /\ \A k \in 1 .. Over : offset'[k] = offset[k]
    BY <1>3, SilentMoves
  <2>2. Found = Over + 1 BY <1>0, <1>n, <2>1 DEF VadInv
  <2> SUFFICES ASSUME NEW k \in 1 .. Found, NEW j \in 1 .. k - 1 PROVE onset[k] > offset'[j]
    BY <2>1 DEF OrderInv
  <2>3. j \in 1 .. Over BY <1>n, <2>2
  <2>4. offset'[j] = offset[j] BY <2>1, <2>3
  <2> QED BY <2>4 DEF OrderInv
<1>4. UNCHANGED <<onset, offset>> \/ (VadVoiced /\ onset' # onset) \/ (VadSilent /\ offset' # offset)
  <2>1. CASE ~Moving BY <2>1, Still
  <2>2. CASE FanoutSends \/ \E v \in BOOLEAN : FanoutFrame(v) BY <2>2, FrameMoves, SendMoves DEF vadVars
  <2>3. VadVoiced => offset' = offset BY VoicedMoves
  <2>4. VadSilent => onset' = onset BY SilentMoves
  <2> QED BY <2>1, <2>2, <2>3, <2>4 DEF Moving
<1> QED BY <1>1, <1>2, <1>3, <1>4

\* The ends of utterances that were over stay what they are.
LEMMA OffsetsStay ==
    ASSUME FrontInv, [Next]_vars, NEW w \in 1 .. Over
    PROVE  offset'[w] = offset[w]
<1>1. CASE offset' = offset BY <1>1
<1>2. CASE VadSilent BY <1>2, SilentMoves
<1>3. offset' = offset \/ VadSilent
  <2>1. CASE ~Moving BY <2>1, Still
  <2>2. CASE FanoutSends \/ \E v \in BOOLEAN : FanoutFrame(v) BY <2>2, FrameMoves, SendMoves DEF vadVars
  <2>3. VadVoiced => offset' = offset BY VoicedMoves
  <2> QED BY <2>1, <2>2, <2>3 DEF Moving
<1> QED BY <1>1, <1>2, <1>3

\* What the fanout has opened has been found, and all but the last of it is over.
LEMMA OpenedFound ==
    ASSUME FrontInv
    PROVE  /\ opened <= Found /\ opened \in Nat
           /\ \A u \in 1 .. opened : u \in 1 .. Found /\ u \in Utterances
           /\ \A u \in 1 .. opened : \A w \in 1 .. u - 1 : w \in 1 .. Over
<1>1. TypeOK /\ VadInv /\ ChangesInv BY DEF FrontInv
<1>2. Found \in Nat /\ Over \in Nat /\ opened \in Nat /\ opened <= Found /\ Found <= Over + 1
      /\ opened \in 0 .. MaxUtterances
  BY <1>1, Numbers DEF VadInv, ChangesInv, TypeOK
<1> QED BY <1>2, Thresholds DEF Utterances

\* The pre-buffer reaches back over the voiced frames needed to find an utterance and
\* the silence before it, and no further.
LEMMA OpensAfter ==
    ASSUME FrontInv, OrderInv, FanoutOpens, PreBuffer <= MinVoiced + MinSilent,
           NEW w \in 1 .. opened, NEW i \in DOMAIN preBuffer, voiced[preBuffer[i]]
    PROVE  preBuffer[i] > offset[w]
<1>0. TypeOK /\ VadInv /\ SpacingInv /\ BufferInv BY DEF FrontInv
<1>1. FanoutHears(TRUE) BY OpensIs
<1>2. opened + 1 <= Found /\ opened \in Nat /\ Found \in Nat /\ Over \in Nat /\ Taken \in Int /\ Len(voiced) \in Nat
  BY <1>0, <1>1, HearsIs, Numbers
<1>3. opened <= Over BY <1>0, <1>2 DEF VadInv
<1> DEFINE u == opened + 1
           f == preBuffer[i]
<1>4. u \in 1 .. Found /\ w \in 1 .. u - 1 /\ w \in 1 .. Over BY <1>2, <1>3
<1>5. onset[u] > offset[w] /\ onset[u] \in Nat /\ offset[w] \in Nat BY <1>0, <1>4, Numbers DEF OrderInv
<1>6. Decision(u) <= Taken /\ Decision(u) = onset[u] + MinVoiced - 1 BY <1>0, <1>4 DEF SpacingInv, Decision
<1>7. Taken <= Len(voiced) BY PastFrames
<1>8. Len(preBuffer) \in Nat /\ Len(preBuffer) <= PreBuffer /\ i \in 1 .. Len(preBuffer)
  BY <1>0, Numbers DEF TypeOK
<1>9. f = Len(voiced) - Len(preBuffer) + i BY <1>0 DEF BufferInv
<1>10. voiced[f] OBVIOUS
<1>11. \A g \in offset[w] - MinSilent + 1 .. offset[w] : ~voiced[g] BY <1>0, <1>4 DEF SpacingInv
<1> HIDE DEF u, f
<1>d. Decision(u) \in Int BY <1>5, <1>6, Thresholds
<1>12. f \in Int /\ f > Len(voiced) - PreBuffer BY <1>2, <1>8, <1>9, Thresholds
<1>13. Len(voiced) >= offset[w] + MinVoiced BY <1>2, <1>5, <1>6, <1>7, <1>d, Thresholds
<1>14. f >= offset[w] - MinSilent + 1 BY <1>2, <1>5, <1>12, <1>13, Thresholds
<1>15. ~(f <= offset[w]) BY <1>5, <1>10, <1>11, <1>12, <1>14, Thresholds
<1> QED BY <1>5, <1>12, <1>15 DEF f

\* No capture takes the speech of another utterance.
LEMMA NoSpeechTwiceNext ==
    ASSUME FrontInv, OrderInv, NoSpeechTwice, [Next]_vars, PreBuffer <= MinVoiced + MinSilent
    PROVE  NoSpeechTwice'
<1>0. TypeOK /\ BufferInv /\ VadInv BY DEF FrontInv
<1>n. Len(voiced) \in Nat /\ Found \in Nat /\ Over \in Nat /\ opened \in Nat BY <1>0, Numbers
<1>1. CASE ~FanoutOpens /\ \A v \in BOOLEAN : ~FanoutFrame(v)
  <2>1. UNCHANGED <<voiced, captured, opened>> BY <1>1, OthersKeep
  <2> SUFFICES ASSUME NEW u \in 1 .. opened, NEW w \in 1 .. u - 1, NEW f \in captured[u], voiced[f]
               PROVE  f > offset'[w]
    BY <2>1 DEF NoSpeechTwice
  <2>2. offset'[w] = offset[w] BY OpenedFound, OffsetsStay
  <2> QED BY <2>2 DEF NoSpeechTwice
<1>2. CASE \E v \in BOOLEAN : FanoutFrame(v)
  <2>1. PICK v \in BOOLEAN : FanoutFrame(v) BY <1>2
  <2>2. opened' = opened /\ \A f \in 1 .. Len(voiced) : voiced'[f] = voiced[f] BY <2>1, FrameMoves
  <2> SUFFICES ASSUME NEW u \in 1 .. opened, NEW w \in 1 .. u - 1, NEW f \in captured'[u], voiced'[f]
               PROVE  f > offset'[w]
    BY <2>2 DEF NoSpeechTwice
  <2>3. w \in 1 .. Over /\ u \in Utterances BY OpenedFound
  <2>4. offset'[w] = offset[w] /\ offset[w] <= Len(voiced) /\ offset[w] \in Nat
    BY <1>0, <2>3, OffsetsStay, PastFrames, Numbers
  <2>5. f = Len(voiced) + 1 \/ f \in captured[u] BY <2>1, <2>3, FrameCaptured
  <2>6. CASE f = Len(voiced) + 1 BY <1>n, <2>4, <2>6
  <2>7. CASE f \in captured[u]
    <3>1. f \in 1 .. Len(voiced) BY <1>0, <2>3, <2>7 DEF BufferInv
    <3> QED BY <2>2, <2>4, <2>7, <3>1 DEF NoSpeechTwice
  <2> QED BY <2>5, <2>6, <2>7
<1>3. CASE FanoutOpens
  <2>1. /\ opened' = opened + 1 /\ opened + 1 \in Utterances /\ voiced' = voiced /\ FanoutHears(TRUE)
        /\ captured' = [captured EXCEPT ![opened + 1] = {preBuffer[i] : i \in DOMAIN preBuffer}]
    BY <1>3, OpensIs, HearsIs
  <2>2. opened + 1 <= Found BY <2>1, HearsIs
  <2>3. offset' = offset BY <2>1, HearsIs DEF vadVars
  <2> SUFFICES ASSUME NEW u \in 1 .. opened + 1, NEW w \in 1 .. u - 1, NEW f \in captured'[u], voiced[f]
               PROVE  f > offset[w]
    BY <2>1, <2>3 DEF NoSpeechTwice
  <2>4. captured \in [Utterances -> SUBSET Frames] BY <1>0 DEF TypeOK
  <2>5. CASE u = opened + 1
    <3>1. captured'[u] = {preBuffer[i] : i \in DOMAIN preBuffer} BY <2>1, <2>4, <2>5
    <3>2. PICK i \in DOMAIN preBuffer : f = preBuffer[i] BY <3>1
    <3>3. w \in 1 .. opened BY <1>n, <2>5
    <3> QED BY <1>3, <3>2, <3>3, OpensAfter
  <2>6. CASE u # opened + 1
    <3>1. u \in 1 .. opened /\ u \in Utterances BY <1>n, <2>6, OpenedFound
    <3>2. captured'[u] = captured[u] BY <2>1, <2>4, <2>6, <3>1
    <3> QED BY <3>1, <3>2 DEF NoSpeechTwice
  <2> QED BY <2>5, <2>6
<1> QED BY <1>1, <1>2, <1>3

\* With a pre-buffer that spans no more than the voiced frames that announce an
\* utterance and the silence that ends one (15 frames against 10 + 40 in the
\* code's defaults), no speech is transcribed twice (session.rs pre_buffer).
THEOREM SpeechOnce ==
    ASSUME PreBuffer <= MinVoiced + MinSilent
    PROVE  Spec => [](TypeOK /\ NoSpeechTwice)
<1>1. Init => OrderInv /\ NoSpeechTwice
  <2> SUFFICES ASSUME Init PROVE OrderInv /\ NoSpeechTwice
    OBVIOUS
  <2>1. Found = 0 /\ opened = 0 BY DEF Init, Found
  <2> QED BY <2>1 DEF OrderInv, NoSpeechTwice
<1>2. FrontInv /\ (OrderInv /\ NoSpeechTwice) /\ [Next]_vars => (OrderInv /\ NoSpeechTwice)'
  BY OrderNext, NoSpeechTwiceNext
<1>3. FrontInv => TypeOK BY DEF FrontInv
<1> QED BY <1>1, <1>2, <1>3, FrontCorrect, PTL DEF Spec

-----------------------------------------------------------------------------
(* The onset is captured. *)

\* When the fanout takes a frame it has heard all that the VAD has told it.
LEMMA FrameHeardAll ==
    ASSUME FrontInv, NEW v \in BOOLEAN, FanoutFrame(v), NEW k \in 1 .. Found, k > opened
    PROVE  k = Found /\ vad = "opening"
<1>0. TypeOK /\ VadInv /\ ChangesInv BY DEF FrontInv
<1>1. Alive /\ speechState = <<>> BY FrameMoves
<1>n. /\ Found \in Nat /\ Over \in Nat /\ opened \in Nat /\ Pending \in 0 .. 1 /\ HeardChanges \in Int
  BY <1>0, Numbers
<1>t. ToldChanges \in Int BY <1>n DEF ToldChanges
<1>2. ToldChanges = HeardChanges
  <2>1. Len(speechState) = ToldChanges - HeardChanges BY <1>0, <1>1 DEF ChangesInv
  <2>2. Len(speechState) = 0 BY <1>1
  <2> QED BY <1>n, <1>t, <2>1, <2>2
<1>3. HeardChanges <= 2 * opened
  <2>1. CASE current.open
    <3>1. HeardChanges = 2 * opened - 1 BY <1>n, <2>1 DEF HeardChanges
    <3> QED BY <1>n, <3>1
  <2>2. CASE ~current.open
    <3>1. HeardChanges = 2 * opened BY <1>n, <2>2 DEF HeardChanges
    <3> QED BY <1>n, <3>1
  <2> QED BY <2>1, <2>2
<1>4. Found + Over - Pending <= 2 * opened BY <1>n, <1>t, <1>2, <1>3 DEF ToldChanges
<1>5. Found <= Over + 1 BY <1>0, <1>n DEF VadInv
<1>6. Found = opened + 1 /\ Over = opened /\ Pending = 1 BY <1>n, <1>4, <1>5
<1>7. isSpeaking BY <1>0, <1>n, <1>6 DEF VadInv
<1>8. vad = "opening" BY <1>0, <1>6, <1>7 DEF VadInv, Pending
<1> QED BY <1>n, <1>6, <1>8

\* The opening of a capture answers a change that the VAD has told.
LEMMA OpensTold ==
    ASSUME FrontInv, FanoutOpens
    PROVE  /\ opened + 1 \in 1 .. Found /\ opened \in Nat /\ Alive
           /\ ~(opened + 1 = Found /\ vad = "opening")
<1>0. TypeOK /\ VadInv BY DEF FrontInv
<1>1. FanoutHears(TRUE) BY OpensIs
<1>2. /\ Found \in Nat /\ Over \in Nat /\ opened \in Nat /\ Pending \in 0 .. 1 /\ Alive
      /\ opened + 1 <= Found /\ HeardChanges = 2 * opened /\ HeardChanges + 1 <= ToldChanges
  BY <1>0, <1>1, HearsIs, Numbers
<1>3. ASSUME opened + 1 = Found, vad = "opening" PROVE FALSE
  <2>1. Pending = 1 /\ isSpeaking BY <1>0, <1>3 DEF Pending, VadInv
  <2>2. Found = Over + 1 BY <1>0, <1>2, <2>1 DEF VadInv
  <2>3. ToldChanges = 2 * opened BY <1>2, <1>3, <2>1, <2>2 DEF ToldChanges
  <2> QED BY <1>2, <2>3
<1> QED BY <1>2, <1>3

\* Then the pre-buffer holds the onset, or misses at most n frames of it.
LEMMA OpensAtOnset ==
    ASSUME NEW n \in Nat, FrontInv, PaceInv(n), FanoutOpens,
           PreBuffer <= MinVoiced + MinSilent, PreBuffer + n < 2 * MinVoiced + MinSilent
    PROVE  /\ onset[opened + 1] + n > Len(voiced) - Len(preBuffer)
           /\ onset[opened + 1] <= Len(voiced)
           /\ Len(voiced) < onset[opened + 1] + PreBuffer + n
           /\ 1 <= Len(preBuffer) /\ Len(preBuffer) <= Len(voiced)
<1> DEFINE u == opened + 1
<1>0. TypeOK /\ VadInv /\ SpacingInv /\ BufferInv BY DEF FrontInv
<1>1. u \in 1 .. Found /\ opened \in Nat /\ Alive /\ ~(u = Found /\ vad = "opening") BY OpensTold
<1>2. /\ Found \in Nat /\ Over \in Nat /\ Taken \in Int /\ Len(voiced) \in Nat /\ Len(preBuffer) \in Nat
      /\ onset[u] \in Nat /\ onset[u] >= 1 /\ Taken <= Len(voiced)
      /\ Len(preBuffer) <= Len(voiced)
  BY <1>0, <1>1, Numbers, PastFrames DEF BufferInv
<1>3. Len(voiced) < onset[u] + PreBuffer + n
  <2>1. u > opened BY <1>1
  <2> QED BY <1>1, <2>1 DEF PaceInv
<1>4. onset[u] + MinVoiced - 1 <= Len(voiced)
  <2>1. Decision(u) <= Taken BY <1>0, <1>1 DEF SpacingInv
  <2> QED BY <1>2, <2>1, Thresholds DEF Decision
<1>5. CASE Len(preBuffer) >= PreBuffer BY <1>2, <1>3, <1>4, <1>5, Thresholds
<1>6. CASE Len(preBuffer) = Len(voiced) BY <1>2, <1>3, <1>4, <1>6, Thresholds
<1>7. CASE opened > 0 /\ Len(voiced) - Len(preBuffer) < onset[opened] + PreBuffer + n
  <2>1. opened \in 1 .. Found /\ opened \in 1 .. Over BY <1>0, <1>1, <1>2, <1>7 DEF VadInv
  <2>2. onset[u] > offset[opened]
    <3>1. u > 1 => onset[u] > offset[u - 1] BY <1>0, <1>1 DEF SpacingInv
    <3>2. u > 1 /\ u - 1 = opened BY <1>1, <1>7
    <3> QED BY <3>1, <3>2
  <2>3. Decision(opened) + MinSilent <= offset[opened] BY <1>0, <2>1 DEF SpacingInv
  <2>4. onset[opened] \in Nat /\ offset[opened] \in Nat BY <1>0, <2>1, Numbers
  <2>5. onset[opened] + MinVoiced + MinSilent <= onset[u]
    <3>1. onset[opened] + MinVoiced - 1 + MinSilent <= offset[opened] BY <2>3 DEF Decision
    <3> HIDE DEF u
    <3> QED BY <1>2, <2>2, <2>4, <3>1, Thresholds
  <2> HIDE DEF u
  <2>6. Len(voiced) - Len(preBuffer) < onset[u] + n BY <1>2, <1>7, <2>4, <2>5, Thresholds
  <2>7. 1 <= Len(preBuffer) BY <1>2, <1>4, <1>7, <2>4, <2>5, Thresholds
  <2> QED BY <1>2, <1>3, <1>4, <2>6, <2>7, Thresholds DEF u
<1> QED BY <1>5, <1>6, <1>7 DEF PaceInv

\* The pre-buffer as a stretch of frames.
LEMMA OpensStretch ==
    ASSUME NEW n \in Nat, FrontInv, PaceInv(n), FanoutOpens,
           PreBuffer <= MinVoiced + MinSilent, PreBuffer + n < 2 * MinVoiced + MinSilent
    PROVE  \E first \in 1 .. onset[opened + 1] + n :
               /\ captured'[opened + 1] = first .. Len(voiced)
               /\ first <= Len(voiced) /\ onset[opened + 1] <= Len(voiced)
<1> DEFINE o == opened + 1
<1> DEFINE first == Len(voiced) - Len(preBuffer) + 1
<1>0. TypeOK /\ BufferInv BY DEF FrontInv
<1>1. o \in Utterances /\ captured' = [captured EXCEPT ![o] = {preBuffer[i] : i \in DOMAIN preBuffer}]
  BY OpensIs
<1>2. captured'[o] = {preBuffer[i] : i \in DOMAIN preBuffer} BY <1>0, <1>1 DEF TypeOK
<1>3. /\ onset[o] + n > Len(voiced) - Len(preBuffer) /\ onset[o] <= Len(voiced)
      /\ 1 <= Len(preBuffer) /\ Len(preBuffer) <= Len(voiced)
  BY OpensAtOnset
<1>4. o \in 1 .. Found BY OpensTold
<1>5. Len(voiced) \in Nat /\ Len(preBuffer) \in Nat /\ onset[o] \in Nat BY <1>0, <1>4, Numbers
<1>6. \A i \in DOMAIN preBuffer : i \in 1 .. Len(preBuffer) /\ preBuffer[i] = Len(voiced) - Len(preBuffer) + i
  BY <1>0 DEF TypeOK, BufferInv
<1>7. ASSUME NEW f \in first .. Len(voiced) PROVE f \in {preBuffer[i] : i \in DOMAIN preBuffer}
  <2> DEFINE i == f - (Len(voiced) - Len(preBuffer))
  <2>1. i \in 1 .. Len(preBuffer) BY <1>5
  <2>2. i \in DOMAIN preBuffer BY <1>0, <2>1 DEF TypeOK
  <2>3. preBuffer[i] = f BY <1>5, <1>6, <2>2
  <2> QED BY <2>2, <2>3
<1>8. ASSUME NEW i \in DOMAIN preBuffer PROVE preBuffer[i] \in first .. Len(voiced)
  BY <1>5, <1>6
<1>9. {preBuffer[i] : i \in DOMAIN preBuffer} = first .. Len(voiced) BY <1>7, <1>8
<1> HIDE DEF o
<1>10. first \in 1 .. onset[o] + n /\ first <= Len(voiced) BY <1>3, <1>5
<1> HIDE DEF first
<1>11. captured'[o] = first .. Len(voiced) BY <1>2, <1>9
<1> QED BY <1>3, <1>10, <1>11 DEF o

\* The fanout hears of an utterance before its onset leaves the pre-buffer.
LEMMA PaceNext ==
    ASSUME NEW n \in Nat, FrontInv, PaceInv(n), VadWithin(n), [Next]_vars,
           PreBuffer <= MinVoiced + MinSilent, PreBuffer + n < 2 * MinVoiced + MinSilent
    PROVE  PaceInv(n)'
<1>0. TypeOK /\ VadInv /\ SpacingInv /\ CountersInv /\ ChangesInv /\ BufferInv BY DEF FrontInv
<1>n. /\ Found \in Nat /\ Over \in Nat /\ opened \in Nat /\ opened <= Found /\ Taken \in Int
      /\ Len(voiced) \in Nat /\ Len(preBuffer) \in Nat
      /\ \A k \in 1 .. Found : onset[k] \in Nat
  BY <1>0, Numbers DEF ChangesInv
<1>1. CASE \E v \in BOOLEAN : FanoutFrame(v)
  <2>1. PICK v \in BOOLEAN : FanoutFrame(v) BY <1>1
  <2>2. /\ UNCHANGED <<onset, vad, Found, opened, current>> /\ Len(voiced') = Len(voiced) + 1 /\ Alive
    BY <2>1, FrameMoves DEF vadVars
  <2>3. \A k \in 1 .. Found' : k > opened' => (k = Found' /\ vad' = "opening")
    BY <2>1, <2>2, FrameHeardAll
  <2>4. Len(preBuffer') = IF Len(preBuffer) + 1 > PreBuffer THEN Len(preBuffer) ELSE Len(preBuffer) + 1
    BY <2>1, FrameKept
  <2>5. \/ Len(preBuffer') >= PreBuffer
        \/ Len(preBuffer') = Len(voiced')
        \/ opened' > 0 /\ Len(voiced') - Len(preBuffer') < onset'[opened'] + PreBuffer + n
    <3>1. CASE Len(preBuffer) + 1 > PreBuffer BY <1>n, <2>4, <3>1, Thresholds
    <3>2. CASE ~(Len(preBuffer) + 1 > PreBuffer)
      <4>1. Len(preBuffer') = Len(preBuffer) + 1 BY <2>4, <3>2
      <4>2. Len(voiced') - Len(preBuffer') = Len(voiced) - Len(preBuffer) BY <1>n, <2>2, <4>1
      <4>3. ~(Len(preBuffer) >= PreBuffer) BY <1>n, <3>2, Thresholds
      <4>4. CASE Len(preBuffer) = Len(voiced) BY <2>2, <4>1, <4>4
      <4>5. CASE opened > 0 /\ Len(voiced) - Len(preBuffer) < onset[opened] + PreBuffer + n
        BY <2>2, <4>2, <4>5
      <4> QED BY <4>3, <4>4, <4>5 DEF PaceInv
    <3> QED BY <3>1, <3>2
  <2>6. ASSUME current'.open PROVE OpenCapture(n)'
    <3>1. current.open /\ opened \in Utterances /\ opened \in 1 .. Found
      BY <1>n, <2>1, <2>2, <2>6, FrameCaptured DEF Utterances
    <3>2. captured'[opened] = captured[opened] \cup {Len(voiced) + 1} BY <2>1, <3>1, FrameCaptured
    <3>3. PICK first \in 1 .. onset[opened] + n :
              /\ captured[opened] = first .. Len(voiced)
              /\ first <= Len(voiced) /\ onset[opened] <= Len(voiced)
      BY <3>1 DEF PaceInv, OpenCapture
    <3>4. onset[opened] \in Nat BY <1>n, <3>1
    <3>5. first \in Nat BY <3>3, <3>4
    <3>6. (first .. Len(voiced)) \cup {Len(voiced) + 1} = first .. Len(voiced) + 1 BY <1>n, <3>3, <3>5
    <3>7. captured'[opened] = first .. Len(voiced') BY <2>2, <3>2, <3>3, <3>6
    <3>8. first <= Len(voiced') /\ onset[opened] <= Len(voiced') BY <1>n, <2>2, <3>3, <3>4, <3>5
    <3>9. opened > 0 BY <3>1 DEF Utterances
    <3>10. /\ opened' > 0 /\ first \in 1 .. onset'[opened'] + n
           /\ captured'[opened'] = first .. Len(voiced')
           /\ first <= Len(voiced') /\ onset'[opened'] <= Len(voiced')
      BY <2>2, <3>3, <3>7, <3>8, <3>9
    <3> QED BY <3>10 DEF OpenCapture
  <2> QED BY <2>3, <2>5, <2>6 DEF PaceInv
<1>2. CASE FanoutOpens
  <2> DEFINE u == opened + 1
  <2>1. /\ opened' = u /\ u \in Utterances /\ preBuffer' = <<>> /\ FanoutHears(TRUE)
        /\ captured' = [captured EXCEPT ![u] = {preBuffer[i] : i \in DOMAIN preBuffer}]
    BY <1>2, OpensIs
  <2>2. UNCHANGED <<voiced, vad, onset, Found>> BY <2>1, HearsIs DEF vadVars
  <2>3. /\ onset[u] <= Len(voiced)
        /\ Len(voiced) < onset[u] + PreBuffer + n /\ u \in 1 .. Found
    BY <1>2, OpensAtOnset, OpensTold
  <2>4. ASSUME NEW k \in 1 .. Found', Alive', k > opened', ~(k = Found' /\ vad' = "opening")
        PROVE  Len(voiced') < onset'[k] + PreBuffer + n
    <3>1. Alive BY <2>4, StaysGone
    <3>2. k > opened BY <1>n, <2>1, <2>4
    <3>3. ~(k = Found /\ vad = "opening") /\ k \in 1 .. Found BY <2>2, <2>4
    <3>4. Len(voiced) < onset[k] + PreBuffer + n BY <3>1, <3>2, <3>3 DEF PaceInv
    <3> QED BY <2>2, <3>4
  <2>5. opened' > 0 /\ Len(voiced') - Len(preBuffer') < onset'[opened'] + PreBuffer + n
    <3>1. Len(preBuffer') = 0 BY <2>1
    <3>2. opened' > 0 BY <1>n, <2>1
    <3>3. onset'[opened'] = onset[u] /\ Len(voiced') = Len(voiced) BY <2>1, <2>2
    <3> HIDE DEF u
    <3>4. Len(voiced') - Len(preBuffer') = Len(voiced) BY <1>n, <3>1, <3>3
    <3> QED BY <2>3, <3>2, <3>3, <3>4
  <2>6. OpenCapture(n)'
    <3>1. PICK first \in 1 .. onset[u] + n :
              /\ captured'[u] = first .. Len(voiced)
              /\ first <= Len(voiced) /\ onset[u] <= Len(voiced)
      BY <1>2, OpensStretch
    <3>2. opened' > 0 BY <1>n, <2>1
    <3>3. onset'[opened'] = onset[u] /\ Len(voiced') = Len(voiced) /\ captured'[opened'] = captured'[u]
      BY <2>1, <2>2
    <3> QED BY <3>1, <3>2, <3>3 DEF OpenCapture
  <2> QED BY <2>4, <2>5, <2>6 DEF PaceInv
<1>3. CASE ~FanoutOpens /\ \A v \in BOOLEAN : ~FanoutFrame(v)
  <2>1. UNCHANGED <<voiced, preBuffer, captured, opened>> BY <1>3, OthersKeep
  <2>2. Alive' => Alive BY StaysGone
  <2>3. /\ \A k \in 1 .. Found : onset'[k] = onset[k]
        /\ \/ Found' = Found /\ (vad' = vad \/ vad # "opening" \/ VadOpens)
           \/ Found' = Found + 1 /\ vad' = "opening" /\ vad # "opening"
    <3>1. CASE VadVoiced
      <4>1. vad = "recv" BY <3>1, TakeMoves DEF VadVoiced
      <4> QED BY <3>1, <4>1, VoicedMoves
    <3>2. CASE VadSilent
      <4>1. vad = "recv" BY <3>2, TakeMoves DEF VadSilent
      <4> QED BY <3>2, <4>1, SilentMoves
    <3>3. CASE ~VadStep
      BY <3>3, OthersLeaveVad DEF vadVars
    <3>4. CASE VadStep /\ ~VadVoiced /\ ~VadSilent
      <4>1. onset' = onset /\ (vad # "opening" \/ VadOpens)
        BY <3>4 DEF VadStep, VadOpens, VadStarts, VadEnds, VadStreamEnds, VadLast, VadCancelled, VadMoves
      <4> QED BY <4>1 DEF Found
    <3> QED BY <3>1, <3>2, <3>3, <3>4
  <2>4. ASSUME NEW k \in 1 .. Found', Alive', k > opened', ~(k = Found' /\ vad' = "opening")
        PROVE  Len(voiced') < onset'[k] + PreBuffer + n
    <3>1. k \in 1 .. Found BY <1>n, <2>3, <2>4
    <3>2. onset'[k] = onset[k] /\ k > opened /\ Len(voiced') = Len(voiced) BY <2>1, <2>3, <2>4, <3>1
    <3>3. CASE k = Found /\ vad = "opening"
      <4>1. Decision(Found) = Taken BY <1>0, <3>3 DEF CountersInv
      <4>2. Len(voiced) - Taken + MinVoiced <= PreBuffer + n BY <3>3 DEF VadWithin
      <4>3. onset[k] \in Nat /\ onset[k] + MinVoiced - 1 = Taken BY <1>n, <3>1, <3>3, <4>1 DEF Decision
      <4>4. Len(voiced) < onset[k] + PreBuffer + n BY <1>n, <4>2, <4>3, Thresholds
      <4> QED BY <3>2, <4>4
    <3>4. CASE ~(k = Found /\ vad = "opening")
      <4>1. Len(voiced) < onset[k] + PreBuffer + n BY <2>2, <2>4, <3>1, <3>2, <3>4 DEF PaceInv
      <4> QED BY <3>2, <4>1
    <3> QED BY <3>3, <3>4
  <2>5. opened > 0 => onset'[opened] = onset[opened] BY <1>n, <2>3
  <2>6. \/ Len(preBuffer') >= PreBuffer
        \/ Len(preBuffer') = Len(voiced')
        \/ opened' > 0 /\ Len(voiced') - Len(preBuffer') < onset'[opened'] + PreBuffer + n
    BY <2>1, <2>5 DEF PaceInv
  <2>7. ASSUME current'.open PROVE OpenCapture(n)'
    <3>1. current.open /\ opened > 0
      <4>2. current' # NoTurn BY <2>7 DEF NoTurn
      <4>3. current' = current
        <5>1. CASE UNCHANGED vars \/ DrainBus \/ AudioEnds \/ Shutdown BY <1>0, <5>1, OtherSteps DEF fanoutVars
        <5>2. CASE FanoutReapsTask BY <4>2, <5>2 DEF FanoutReapsTask
        <5>3. CASE FanoutCloses
          <6>1. current' = [current EXCEPT !.open = FALSE] BY <5>3 DEF FanoutCloses
          <6> QED BY <1>0, <2>7, <6>1 DEF TypeOK
        <5>4. CASE FanoutSends BY <5>4 DEF FanoutSends
        <5>5. CASE FanoutStops BY <4>2, <5>5 DEF FanoutStops
        <5>6. CASE VadStep
          BY <5>6 DEF VadStep, VadVoiced, VadSilent, VadTakes, VadOpens, VadStarts, VadEnds, VadStreamEnds, VadLast,
                      VadCancelled, VadMoves, vadFrame, fanoutVars
        <5>7. CASE \E u \in Utterances : AsrStep(u) BY <5>7, AsrMoves DEF fanoutVars
        <5> QED BY <1>3, <5>1, <5>2, <5>3, <5>4, <5>5, <5>6, <5>7 DEF Next, FanoutStep
      <4>4. current.open BY <2>7, <4>3
      <4> QED BY <4>4 DEF PaceInv, OpenCapture
    <3> QED BY <2>1, <2>5, <3>1 DEF PaceInv, OpenCapture
  <2> QED BY <2>4, <2>6, <2>7 DEF PaceInv
<1> QED BY <1>1, <1>2, <1>3

\* The captures have no gap and begin in time.
LEMMA OnsetNext ==
    ASSUME NEW n \in Nat, FrontInv, PaceInv(n), CapturedWithin(n), [Next]_vars,
           PreBuffer <= MinVoiced + MinSilent, PreBuffer + n < 2 * MinVoiced + MinSilent
    PROVE  CapturedWithin(n)'
<1>0. TypeOK /\ BufferInv BY DEF FrontInv
<1>n. Len(voiced) \in Nat /\ Found \in Nat /\ opened \in Nat /\ \A k \in 1 .. Found : onset[k] \in Nat
  BY <1>0, Numbers
<1>1. ASSUME NEW u \in 1 .. opened PROVE onset'[u] = onset[u] /\ u \in Utterances /\ u \in 1 .. Found
  <2>1. u \in 1 .. Found /\ u \in Utterances BY OpenedFound
  <2>2. \A k \in 1 .. Found : onset'[k] = onset[k]
    <3>1. CASE ~Moving BY <3>1, Still
    <3>2. CASE FanoutSends \/ \E v \in BOOLEAN : FanoutFrame(v) BY <3>2, FrameMoves, SendMoves DEF vadVars
    <3>3. CASE VadVoiced BY <3>3, VoicedMoves
    <3>4. CASE VadSilent BY <3>4, SilentMoves
    <3> QED BY <3>1, <3>2, <3>3, <3>4 DEF Moving
  <2> QED BY <2>1, <2>2
<1>2. CASE ~FanoutOpens /\ \A v \in BOOLEAN : ~FanoutFrame(v)
  <2>1. UNCHANGED <<captured, opened>> BY <1>2, OthersKeep
  <2> QED BY <1>1, <2>1 DEF CapturedWithin
<1>3. CASE \E v \in BOOLEAN : FanoutFrame(v)
  <2>1. PICK v \in BOOLEAN : FanoutFrame(v) BY <1>3
  <2>2. opened' = opened BY <2>1, FrameMoves
  <2> SUFFICES ASSUME NEW u \in 1 .. opened
               PROVE  \E first \in 1 .. onset[u] + n, last \in Frames :
                          /\ captured'[u] = first .. last
                          /\ first <= last /\ onset[u] <= last
    BY <1>1, <2>2 DEF CapturedWithin
  <2>3. CASE current.open /\ u = opened
    <3>1. captured'[u] = captured[u] \cup {Len(voiced) + 1} BY <1>1, <2>1, <2>3, FrameCaptured
    <3>2. PICK first \in 1 .. onset[u] + n :
              /\ captured[u] = first .. Len(voiced)
              /\ first <= Len(voiced) /\ onset[u] <= Len(voiced)
      BY <2>3 DEF PaceInv, OpenCapture
    <3>3. onset[u] \in Nat /\ first \in Nat BY <1>n, <1>1, <3>2
    <3>4. (first .. Len(voiced)) \cup {Len(voiced) + 1} = first .. Len(voiced) + 1 BY <1>n, <3>2, <3>3
    <3>5. Len(voiced) + 1 \in Frames
      <4>1. Len(voiced) < MaxFrames BY <2>1 DEF FanoutFrame
      <4> QED BY <1>n, <4>1, Thresholds DEF Frames
    <3>6. first <= Len(voiced) + 1 /\ onset[u] <= Len(voiced) + 1 BY <1>n, <3>2, <3>3
    <3> QED BY <3>1, <3>2, <3>4, <3>5, <3>6
  <2>4. CASE ~(current.open /\ u = opened)
    <3>1. captured'[u] = captured[u] BY <1>1, <2>1, <2>4, FrameCaptured
    <3> QED BY <3>1 DEF CapturedWithin
  <2> QED BY <2>3, <2>4
<1>4. CASE FanoutOpens
  <2> DEFINE o == opened + 1
  <2>1. /\ opened' = o /\ o \in Utterances /\ o \in 1 .. Found /\ FanoutHears(TRUE)
        /\ captured' = [captured EXCEPT ![o] = {preBuffer[i] : i \in DOMAIN preBuffer}]
    BY <1>4, OpensIs, OpensTold
  <2>2. onset' = onset BY <2>1, HearsIs DEF vadVars
  <2>3. captured \in [Utterances -> SUBSET Frames] BY <1>0 DEF TypeOK
  <2>4. PICK first \in 1 .. onset[o] + n :
            /\ captured'[o] = first .. Len(voiced)
            /\ first <= Len(voiced) /\ onset[o] <= Len(voiced)
    BY <1>4, OpensStretch
  <2>5. Len(voiced) \in Frames
    <3>1. Len(voiced) <= MaxFrames BY <1>0 DEF TypeOK
    <3>2. onset[o] \in Nat BY <1>n, <2>1
    <3>3. first \in Nat /\ first >= 1
      <4> HIDE DEF o
      <4> QED BY <2>4, <3>2
    <3>4. Len(voiced) >= 1 BY <1>n, <2>4, <3>3
    <3> QED BY <1>n, <3>1, <3>4, Thresholds DEF Frames
  <2> SUFFICES ASSUME NEW u \in 1 .. o
               PROVE  \E f \in 1 .. onset[u] + n, last \in Frames :
                          /\ captured'[u] = f .. last
                          /\ f <= last /\ onset[u] <= last
    BY <2>1, <2>2 DEF CapturedWithin
  <2>6. CASE u = o BY <2>4, <2>5, <2>6
  <2>7. CASE u # o
    <3>1. u \in 1 .. opened BY <1>n, <2>7
    <3>2. captured'[u] = captured[u] BY <1>1, <2>1, <2>3, <2>7, <3>1
    <3> QED BY <3>1, <3>2 DEF CapturedWithin
  <2> QED BY <2>6, <2>7
<1> QED BY <1>2, <1>3, <1>4

\* There is nothing to capture at the start.
LEMMA PaceInit ==
    ASSUME NEW n \in Nat, Init
    PROVE  PaceInv(n) /\ CapturedWithin(n)
<1>1. Found = 0 /\ Len(preBuffer) = 0 /\ Len(voiced) = 0 /\ opened = 0 /\ ~current.open
  BY DEF Init, Found, NoTurn
<1> QED BY <1>1 DEF PaceInv, CapturedWithin

\* As long as the VAD decides while the onset is still in the pre-buffer, an
\* utterance is captured whole from its first voiced frame (session.rs pre_buffer).
THEOREM CapturesWhole ==
    ASSUME PreBuffer <= MinVoiced + MinSilent
    PROVE  Spec /\ []VadKeepsUp => []CapturedWithin(0)
<1>0. PreBuffer + 0 < 2 * MinVoiced + MinSilent BY Thresholds
<1>1. Init => PaceInv(0) /\ CapturedWithin(0) BY PaceInit
<1>2. FrontInv /\ VadKeepsUp /\ (PaceInv(0) /\ CapturedWithin(0)) /\ [Next]_vars
        => (PaceInv(0) /\ CapturedWithin(0))'
  BY <1>0, PaceNext, OnsetNext DEF VadKeepsUp
<1> QED BY <1>1, <1>2, FrontCorrect, PTL DEF Spec

\* However far the VAD is behind, an utterance is captured in one stretch that begins
\* at most Late frames after its first voiced one, and with nothing of another, if its
\* queue is shorter than an utterance (16 frames and 50 by the defaults of the code).
THEOREM CapturesAllButLate ==
    ASSUME PreBuffer <= MinVoiced + MinSilent, VadCap + 1 < MinVoiced + MinSilent
    PROVE  Spec => []CaptureInv
<1>0. Late \in Nat /\ PreBuffer + Late < 2 * MinVoiced + MinSilent
      /\ PreBuffer + Late >= MinVoiced + VadCap + 1
  BY Thresholds DEF Late
<1>1. FrontInv => VadWithin(Late)
  <2> SUFFICES ASSUME FrontInv PROVE VadWithin(Late)
    OBVIOUS
  <2>1. /\ Len(voiced) \in Nat /\ Len(vadQueue) \in Nat /\ Len(vadQueue) <= VadCap /\ Taken \in Int
    BY Numbers DEF FrontInv, TypeOK
  <2>2. Len(voiced) - Taken <= VadCap + 1 BY <2>1, Thresholds DEF Taken
  <2> QED BY <1>0, <2>1, <2>2, Thresholds DEF VadWithin
<1>2. Init => PaceInv(Late) /\ CapturedWithin(Late) BY <1>0, PaceInit
<1>3. FrontInv /\ (PaceInv(Late) /\ CapturedWithin(Late)) /\ [Next]_vars
        => (PaceInv(Late) /\ CapturedWithin(Late))'
  BY <1>0, <1>1, PaceNext, OnsetNext
<1>4. TypeOK /\ NoSpeechTwice /\ CapturedWithin(Late) => CaptureInv BY DEF CaptureInv, OnsetCaptured
<1>5. Spec => [](TypeOK /\ NoSpeechTwice) BY SpeechOnce
<1> QED BY <1>2, <1>3, <1>4, <1>5, FrontCorrect, PTL DEF Spec
=============================================================================
