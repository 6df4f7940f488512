---- MODULE WebSocketCallProofs ----
(***************************************************************************)
(* A call over WebSocket, for turns of any length, messages and frames of  *)
(* any size and channels of any capacity.                                  *)
(*                                                                         *)
(* The first half follows the samples: the messages that have not been     *)
(* read go on where the decoder stopped (UpInv), and a decoder that counts *)
(* on makes frames that count on.  The second half follows the events: the *)
(* five queues between the front end and the client are one way, Way, on   *)
(* which steps move an event on, drop it or bring a new one; what is       *)
(* claimed of the answers speaks of that way alone.                        *)
(***************************************************************************)
EXTENDS WebSocketCall, TLAPS

\* What the decoder has taken: its frames and what it keeps back.
Taken == Len(Framed) * FrameSamples + Len(decoder.residual)

\* What the front end has heard: the head of its next frame.
Heard == Len(heard) * FrameSamples

\* The messages, and how many samples one carries.
Messages == [kind : {"start", "end"}] \cup [kind : {"binary"}, samples : Seq(Nat)]
Size(message) == IF message.kind = "binary" THEN Len(message.samples) ELSE 0

\* The handler has not left its loop.
Reading == pc \in {"wait", "start", "ready", "select", "feed", "send"}

AudioFrames == [samples : Seq(Nat), time : Nat]
Items == {"started", "ended", "audio", "complete"} \X (1..Turns)
Found == {"started", "ended"} \X (1..Turns)
ToClient == Items \cup {<<"ready", 0>>}

Types ==
  /\ up \in Seq(Messages) /\ down \in Seq(ToClient) /\ rx \in Seq(ToClient)
  /\ open \in BOOLEAN /\ timedOut \in BOOLEAN
  /\ decoder \in [residual : Seq(Nat), next : Nat]
  /\ heard \in Seq(AudioFrames) /\ audio \in Seq(AudioFrames) /\ feeding \in Seq(AudioFrames)
  /\ found \in Found \cup {<<>>} /\ event \in Items \cup {<<>>}
  /\ bus \in Seq(Items) /\ egress \in Seq(Items)
  /\ answering \in ({"audio", "complete"} \X (1..Turns)) \cup {<<>>}
  /\ said \in Nat
  /\ got \in [1..Turns -> SUBSET (1..Turns)]

\* Where client and handler may be together.
StartsFirst == up # <<>> /\ up[1].kind = "start"
EndsAtDone == \A i \in DOMAIN up : up[i].kind = "end" => at = "done"
PlaceInv ==
  /\ open => at # "done" /\ Reading
  /\ pc = "wait" => (up = <<>> /\ at \in {"connect", "done"}) \/ StartsFirst
  /\ pc # "feed" => feeding = <<>>
  /\ pc = "send" <=> event # <<>>
  /\ EndsAtDone

\* What it has said, in whole messages of its turns.
SaidInv ==
  /\ at \in {"connect", "await ready"} => said = 0
  /\ at = "speak" => \E k \in 0..(Turns - 1), r \in 0..(Turn - 1) :
        /\ said = k * Turn + r
        /\ r < Speech \/ \E n \in 0..Turn : Turn - r = n * FrameSamples
  /\ at = "await answer" => \E k \in 1..Turns : said = k * Turn
  /\ at = "drain" => said = Turns * Turn
  /\ said <= Turns * Turn

\* The messages that the handler has yet to read go on where the decoder stopped.
UpInv ==
  \E p \in [0..Len(up) -> 0..said] :
    /\ p[0] = Taken /\ p[Len(up)] = said
    /\ \A i \in DOMAIN up :
         /\ p[i] = p[i - 1] + Size(up[i])
         /\ up[i].kind = "binary" =>
              up[i].samples = [j \in 1..Size(up[i]) |-> p[i - 1] + j - 1]

DecodeInv ==
  /\ AudioIntact
  /\ decoder.next = Len(Framed)
  /\ Len(decoder.residual) < FrameSamples
  /\ Taken <= said
  /\ Reading => UpInv

OverrunInv ==
  /\ pc \notin {"join vad", "join orchestrator", "closed"} => overruns = 0
  /\ pc = "join vad" => overruns \in 0..1
  /\ pc = "join orchestrator" => overruns \in 0..2
  /\ overruns \in 0..3

\* The first sample of the turn the client is in.
TurnBegin == (CurrentTurn - 1) * Turn

\* The front end hears no turn again that the client has left.
HearInv ==
  open /\ ~timedOut =>
    /\ TurnBegin + Speech <= Heard + Turn
    /\ Speaking => TurnBegin + FrameSamples <= Heard

\* The client is in a turn, and the front end has heard its speech to the end.
InTurn == at \in {"speak", "await answer", "drain"}
Answered == InTurn /\ ~Speaking /\ TurnBegin + Speech <= Heard

\* The events' way to the client, from its end: without a connection they get no
\* further than its own queues.
Way == <<rx, down, IF open /\ event # <<>> THEN <<event>> ELSE <<>>,
         IF open THEN egress ELSE <<>>, IF open THEN bus ELSE <<>>>>

\* Event a is on the way, and event b behind it.
On(W, a) == \E n \in 1..5 : \E i \in DOMAIN W[n] : W[n][i] = a
Behind(W, a, b) ==
  \E n, m \in 1..5 : \E i \in DOMAIN W[n], j \in DOMAIN W[m] :
    W[n][i] = a /\ W[m][j] = b /\ (n < m \/ (n = m /\ i < j))

\* The answers on the way are to what was said in the turn the client is in, and
\* nothing of one follows its completion.
AnswersInv ==
  at # "done" /\ ~timedOut =>
    /\ \A a \in ToClient : On(Way, a) /\ a[1] \in {"audio", "complete"} =>
         a[2] = CurrentTurn /\ InTurn /\ (open => Answered)
    /\ \A a, b \in ToClient : Behind(Way, a, b) /\ a[1] = "complete" =>
         b[1] \notin {"audio", "complete"}

\* What is still to be answered: one end of speech, found or on the bus, or the
\* answer that is under way; it is about the same turn, and none has been completed.
EndFound == found # <<>> /\ found[1] = "ended"
EndOnBus == \E a \in ToClient : On(Way, a) /\ a[1] = "ended"

PendingInv ==
  open /\ ~timedOut =>
    /\ EndFound \/ EndOnBus \/ answering # <<>> =>
         Answered /\ \A a \in ToClient : On(Way, a) => a[1] # "complete"
    /\ EndFound => found[2] = CurrentTurn /\ ~EndOnBus /\ answering = <<>>
    /\ EndOnBus => answering = <<>>
    /\ answering # <<>> => answering[2] = CurrentTurn
    /\ \A a \in ToClient : On(Way, a) /\ a[1] = "ended" => a[2] = CurrentTurn
    /\ \A a, b \in ToClient : Behind(Way, a, b) => a[1] # "ended" \/ b[1] # "ended"

\* All about the answers.
TurnsInv == HearInv /\ AnswersInv /\ PendingInv /\ TurnGetsOwnAnswer

IInv ==
  /\ TypeOK
  /\ Types /\ PlaceInv /\ SaidInv /\ DecodeInv /\ OverrunInv
  /\ TurnsInv

-----------------------------------------------------------------------------
(* Arithmetic and sequences. *)

LEMMA Sizes ==
  /\ FrameSamples \in Nat /\ FrameSamples > 0
  /\ Turn \in Nat /\ Speech \in Nat /\ 1 <= Speech /\ Speech <= Turn
  /\ Turns \in Nat /\ Turns >= 1
  BY FrameAssumption, TurnAssumption, TurnsAssumption

LEMMA DivMod ==
  ASSUME NEW n \in Nat, NEW b \in Nat, b > 0
  PROVE  n \div b \in Nat /\ n % b \in Nat /\ n % b < b /\ n = (n \div b) * b + (n % b)
OBVIOUS

LEMMA Distinct ==
  ASSUME NEW k \in Nat, NEW l \in Nat, NEW b \in Nat, k < l
  PROVE  (k + 1) * b <= l * b /\ (k + 1) * b = k * b + b
<1>1. l - k - 1 \in Nat OBVIOUS
<1>2. (l - k - 1) * b \in Nat BY <1>1
<1>3. (l - k - 1) * b = l * b - k * b - b OBVIOUS
<1>4. (k + 1) * b = k * b + b OBVIOUS
<1>5. l * b \in Nat /\ k * b \in Nat OBVIOUS
<1> QED BY <1>2, <1>3, <1>4, <1>5

LEMMA DivUnique ==
  ASSUME NEW n \in Nat, NEW b \in Nat, NEW k \in Nat, NEW r \in 0 .. b - 1, n = k * b + r
  PROVE  n \div b = k /\ n % b = r
<1>1. b > 0 OBVIOUS
<1> DEFINE q == n \div b
           m == n % b
<1>2. q \in Nat /\ m \in Nat /\ m < b /\ n = q * b + m BY <1>1, DivMod
<1> HIDE DEF q, m
<1>3. k * b \in Nat /\ q * b \in Nat BY <1>2
<1>4. ~ (k < q)
  <2> SUFFICES ASSUME k < q PROVE FALSE OBVIOUS
  <2>1. k * b + b <= q * b BY <1>2, Distinct
  <2> QED BY <2>1, <1>2, <1>3
<1>5. ~ (q < k)
  <2> SUFFICES ASSUME q < k PROVE FALSE OBVIOUS
  <2>1. q * b + b <= k * b BY <1>2, Distinct
  <2> QED BY <2>1, <1>2, <1>3
<1>6. q = k BY <1>2, <1>4, <1>5
<1> QED BY <1>2, <1>3, <1>6 DEF q, m

\* Taking the first of one sequence to the end of the one before.
LEMMA Passes ==
  ASSUME NEW S, NEW s \in Seq(S), NEW t \in Seq(S), t # <<>>
  PROVE  /\ Append(s, Head(t)) \o Tail(t) = s \o t
         /\ Append(s, Head(t)) \in Seq(S) /\ Tail(t) \in Seq(S) /\ Head(t) \in S
         /\ Len(Tail(t)) = Len(t) - 1 /\ Head(t) = t[1]
         /\ \A i \in DOMAIN Tail(t) : i + 1 \in DOMAIN t /\ Tail(t)[i] = t[i + 1]
OBVIOUS

LEMMA JoinsInOrder ==
  ASSUME NEW S, NEW s \in Seq(S), NEW t \in Seq(S), NEW u \in Seq(S)
  PROVE  /\ (s \o t) \o u = s \o (t \o u) /\ s \o t \in Seq(S) /\ s \o t \o u \in Seq(S)
         /\ Len(s \o t \o u) = Len(s) + Len(t) + Len(u)
         /\ \A i \in DOMAIN s : (s \o t \o u)[i] = s[i]
         /\ \A i \in DOMAIN u : (s \o t \o u)[Len(s) + Len(t) + i] = u[i]
         /\ t # <<>> => (s \o t \o u)[Len(s) + 1] = Head(t)
<1> DEFINE v == s \o t
<1>1. /\ v \in Seq(S) /\ Len(v) = Len(s) + Len(t)
      /\ \A i \in DOMAIN s : i \in DOMAIN v /\ v[i] = s[i]
      /\ t # <<>> => Len(s) + 1 \in DOMAIN v /\ v[Len(s) + 1] = Head(t)
  OBVIOUS
<1>2. (s \o t) \o u = s \o (t \o u) OBVIOUS
<1> HIDE DEF v
<1>3. /\ v \o u \in Seq(S) /\ Len(v \o u) = Len(v) + Len(u)
      /\ \A i \in DOMAIN v : (v \o u)[i] = v[i]
      /\ \A i \in DOMAIN u : (v \o u)[Len(v) + i] = u[i]
  <2>1. v \in Seq(S) BY <1>1
  <2>2. v \o u \in Seq(S) /\ Len(v \o u) = Len(v) + Len(u) BY <2>1
  <2>3. \A i \in DOMAIN v : (v \o u)[i] = v[i] BY <2>1
  <2>4. \A i \in DOMAIN u : (v \o u)[Len(v) + i] = u[i] BY <2>1
  <2> QED BY <2>2, <2>3, <2>4
<1>4. s \o t \o u = v \o u BY DEF v
<1> HIDE DEF v
<1>5. /\ Len(v \o u) = Len(s) + Len(t) + Len(u)
      /\ \A i \in DOMAIN s : (v \o u)[i] = s[i]
      /\ \A i \in DOMAIN u : (v \o u)[Len(s) + Len(t) + i] = u[i]
      /\ t # <<>> => (v \o u)[Len(s) + 1] = Head(t)
  BY <1>1, <1>3
<1> QED BY <1>1, <1>2, <1>3, <1>5 DEF v

LEMMA Parts ==
  ASSUME NEW S, NEW s \in Seq(S), NEW a \in Nat, NEW b \in Nat, a + b <= Len(s)
  PROVE  /\ SubSeq(s, a + 1, a + b) = [j \in 1..b |-> s[a + j]]
         /\ SubSeq(s, a + 1, a + b) \in Seq(S)
<1> DEFINE t == SubSeq(s, a + 1, a + b)
<1>1. a + b - (a + 1) + 1 = b /\ Len(s) \in Nat OBVIOUS
<1>2. Len(t) = b BY <1>1
<1>3. \A j \in 1..b : t[j] = s[a + j] BY <1>1
<1>4. t = [j \in 1..b |-> s[a + j]] OBVIOUS
<1>5. \A j \in 1..b : s[a + j] \in S OBVIOUS
<1> QED BY <1>4, <1>5

LEMMA SequenceOf ==
  ASSUME NEW S, NEW q \in Nat, NEW e, e = [i \in 1..q |-> e[i]], \A i \in 1..q : e[i] \in S
  PROVE  e \in Seq(S) /\ Len(e) = q
OBVIOUS

-----------------------------------------------------------------------------
(* The decoder. *)

\* The i-th frame of a call.
FrameOf(i) ==
    [samples |-> [j \in 1..FrameSamples |-> (i - 1) * FrameSamples + j - 1], time |-> i - 1]

LEMMA Multiples ==
  ASSUME NEW i \in Nat, NEW q \in Nat, 1 <= i, i <= q
  PROVE  /\ (i - 1) * FrameSamples \in Nat /\ i * FrameSamples = (i - 1) * FrameSamples + FrameSamples
         /\ i * FrameSamples <= q * FrameSamples /\ q * FrameSamples \in Nat
<1>1. (q - i) * FrameSamples \in Nat BY Sizes
<1>2. (q - i) * FrameSamples = q * FrameSamples - i * FrameSamples BY Sizes
<1>3. (i - 1) \in Nat /\ (i - 1) * FrameSamples = i * FrameSamples - FrameSamples BY Sizes
<1>4. (i - 1) * FrameSamples \in Nat /\ q * FrameSamples \in Nat /\ i * FrameSamples \in Nat BY <1>3, Sizes
<1> QED BY <1>1, <1>2, <1>3, <1>4, Sizes

\* The frames of samples that count up from the first one of frame f + 1.
CountsFrom(s, g) == \A j \in 1..Len(s) : s[j] = g + j - 1

LEMMA CountsOn ==
  ASSUME NEW s \in Seq(Nat), NEW g \in Nat, CountsFrom(s, g),
         NEW x \in Nat, NEW y \in Nat, 1 <= x, x <= y + 1, y <= Len(s)
  PROVE  /\ SubSeq(s, x, y) \in Seq(Nat) /\ Len(SubSeq(s, x, y)) = y - x + 1
         /\ CountsFrom(SubSeq(s, x, y), g + x - 1)
<1> DEFINE a == x - 1
           b == y - x + 1
           t == SubSeq(s, a + 1, a + b)
<1>1. a \in Nat /\ b \in Nat /\ a + b <= Len(s) /\ a + 1 = x /\ a + b = y OBVIOUS
<1>2. t = [j \in 1..b |-> s[a + j]] /\ t \in Seq(Nat)
  <2> HIDE DEF a, b
  <2> QED BY <1>1, Parts
<1>3. ASSUME NEW j \in 1..b PROVE t[j] = g + a + j - 1
  <2>1. a + j \in 1..Len(s) OBVIOUS
  <2>2. t[j] = s[a + j] BY <1>2
  <2> QED BY <2>1, <2>2 DEF CountsFrom
<1>4. Len(t) = b BY <1>1, <1>2
<1>5. CountsFrom(t, g + x - 1) BY <1>3, <1>4 DEF CountsFrom
<1> QED BY <1>1, <1>2, <1>4, <1>5

HasFrames(s, f, q) ==
  /\ s \in Seq(Nat) /\ f \in Nat /\ q \in Nat
  /\ CountsFrom(s, f * FrameSamples) /\ q * FrameSamples <= Len(s)

LEMMA Slices ==
  ASSUME NEW s, NEW f, NEW q, HasFrames(s, f, q), NEW i \in 1..q
  PROVE  Slice(s, i) = FrameOf(f + i).samples
<1> DEFINE a == (i - 1) * FrameSamples
           g == f * FrameSamples
<1>0. /\ s \in Seq(Nat) /\ f \in Nat /\ q \in Nat /\ g \in Nat
      /\ CountsFrom(s, g) /\ q * FrameSamples <= Len(s)
  BY Sizes DEF HasFrames
<1>1. i \in Nat /\ 1 <= i /\ i <= q BY <1>0
<1>2. a \in Nat /\ i * FrameSamples = a + FrameSamples /\ i * FrameSamples <= q * FrameSamples
  BY <1>0, <1>1, Multiples
<1>3. q * FrameSamples \in Nat BY <1>0, Sizes
<1>4. g + a = (f + i - 1) * FrameSamples BY <1>0, <1>1, Sizes
<1>5. Slice(s, i) = SubSeq(s, a + 1, a + FrameSamples) BY <1>2 DEF Slice
<1>6. FrameOf(f + i).samples = [j \in 1..FrameSamples |-> g + a + j - 1]
  BY <1>0, <1>1, <1>4 DEF FrameOf
<1> HIDE DEF a, g
<1>7. a + FrameSamples <= Len(s)
  <2> DEFINE u == q * FrameSamples
             v == i * FrameSamples
  <2>1. v = a + FrameSamples /\ v <= u /\ u <= Len(s) /\ u \in Nat BY <1>0, <1>2, <1>3
  <2> HIDE DEF u, v
  <2> QED BY <1>2, <2>1, Sizes
<1>8. SubSeq(s, a + 1, a + FrameSamples) = [j \in 1..FrameSamples |-> g + a + j - 1]
  <2> DEFINE x == a + 1
             y == a + FrameSamples
             t == SubSeq(s, x, y)
  <2>1. x \in Nat /\ y \in Nat /\ 1 <= x /\ x <= y + 1 /\ y <= Len(s)
        /\ y - x + 1 = FrameSamples /\ g + x - 1 = g + a
    BY <1>0, <1>2, <1>7, Sizes
  <2> HIDE DEF x, y
  <2>2. t \in Seq(Nat) /\ Len(t) = FrameSamples /\ CountsFrom(t, g + a)
    <3>1. t \in Seq(Nat) /\ Len(t) = y - x + 1 /\ CountsFrom(t, g + x - 1) BY <1>0, <2>1, CountsOn
    <3> QED BY <2>1, <3>1
  <2>3. \A j \in 1..FrameSamples : t[j] = g + a + j - 1 BY <2>2 DEF CountsFrom
  <2> HIDE DEF t
  <2>4. t = [j \in 1..FrameSamples |-> g + a + j - 1] BY <2>2, <2>3
  <2> QED BY <2>4 DEF t, x, y
<1> QED BY <1>5, <1>6, <1>8

LEMMA FrameType == \A i \in Nat : i >= 1 => FrameOf(i) \in AudioFrames
<1> SUFFICES ASSUME NEW i \in Nat, i >= 1 PROVE FrameOf(i) \in AudioFrames
  OBVIOUS
<1> DEFINE a == (i - 1) * FrameSamples
<1>1. a \in Nat BY Multiples
<1> HIDE DEF a
<1>2. \A j \in 1..FrameSamples : a + j - 1 \in Nat BY <1>1, Sizes
<1>3. [j \in 1..FrameSamples |-> a + j - 1] \in Seq(Nat) BY <1>2, Sizes
<1> QED BY <1>3 DEF FrameOf, AudioFrames, a

\* The samples of a message go on where a decoder stopped that has made f frames.
FollowsOn(d, f, m) ==
  /\ f \in Nat /\ d \in [residual : Seq(Nat), next : Nat] /\ m \in Seq(Nat)
  /\ d.next = f /\ \A i \in 1..Len(d.residual) : d.residual[i] = f * FrameSamples + i - 1
  /\ \A i \in 1..Len(m) : m[i] = f * FrameSamples + Len(d.residual) + i - 1

LEMMA FramesDecoded ==
  ASSUME NEW d, NEW f, NEW m, FollowsOn(d, f, m), NEW n, n = Len(Frames(d, m))
  PROVE  /\ n \in Nat /\ Frames(d, m) \in Seq(AudioFrames)
         /\ \A i \in 1..n : Frames(d, m)[i] = FrameOf(f + i)
         /\ Decoded(d, m) \in [residual : Seq(Nat), next : Nat]
         /\ Decoded(d, m).next = f + n
         /\ Len(Decoded(d, m).residual) < FrameSamples
         /\ \A i \in 1..Len(Decoded(d, m).residual) :
              Decoded(d, m).residual[i] = (f + n) * FrameSamples + i - 1
         /\ (f + n) * FrameSamples + Len(Decoded(d, m).residual)
              = f * FrameSamples + Len(d.residual) + Len(m)
<1> DEFINE s == d.residual \o m
           q == Len(s) \div FrameSamples
           c == q * FrameSamples
           g == f * FrameSamples
           k == Len(s) - c
           r == SubSeq(s, c + 1, Len(s))
<1>0. /\ f \in Nat /\ d \in [residual : Seq(Nat), next : Nat] /\ m \in Seq(Nat) /\ d.next = f
      /\ \A i \in 1..Len(d.residual) : d.residual[i] = g + i - 1
      /\ \A i \in 1..Len(m) : m[i] = g + Len(d.residual) + i - 1
  BY DEF FollowsOn
<1>1. s \in Seq(Nat) /\ Len(s) = Len(d.residual) + Len(m) /\ Len(s) \in Nat
  BY <1>0
<1>2. g \in Nat BY <1>0, Sizes
<1>3. CountsFrom(s, g)
  <2> HIDE DEF g
  <2> QED BY <1>0, <1>2 DEF CountsFrom
<1>4. Frames(d, m) = [i \in 1..q |-> [samples |-> Slice(s, i), time |-> f + i - 1]]
  BY <1>0 DEF Frames
<1>5. Decoded(d, m) = [residual |-> r, next |-> f + q] BY <1>0 DEF Decoded
<1> HIDE DEF s
<1>6. q \in Nat /\ c <= Len(s) /\ Len(s) - c < FrameSamples
  <2> DEFINE l == Len(s)
  <2>1. l \in Nat BY <1>1
  <2> HIDE DEF l
  <2> DEFINE w == l \div FrameSamples
             v == l % FrameSamples
  <2>2. w \in Nat /\ v \in Nat /\ v < FrameSamples /\ l = w * FrameSamples + v
    BY <2>1, DivMod, Sizes
  <2>3. q = w BY DEF l
  <2> HIDE DEF w, v, q
  <2>4. w * FrameSamples \in Nat BY <2>2, Sizes
  <2> QED BY <2>1, <2>2, <2>3, <2>4, Sizes DEF l
<1> HIDE DEF q
<1>7. (f + q) * FrameSamples = g + c /\ c \in Nat BY <1>0, <1>6, Sizes
<1>8. ASSUME NEW i \in 1..q PROVE Frames(d, m)[i] = FrameOf(f + i)
  <2>1. Slice(s, i) = FrameOf(f + i).samples
    <3>1. HasFrames(s, f, q) BY <1>0, <1>1, <1>3, <1>6 DEF HasFrames
    <3> QED BY <3>1, Slices
  <2>2. Frames(d, m)[i] = [samples |-> Slice(s, i), time |-> f + i - 1] BY <1>4
  <2> QED BY <1>0, <1>6, <2>1, <2>2 DEF FrameOf
<1>9. n = q /\ Frames(d, m) \in Seq(AudioFrames)
  <2>1. \A i \in 1..q : FrameOf(f + i) \in AudioFrames BY <1>0, <1>6, FrameType
  <2>2. \A i \in 1..q : Frames(d, m)[i] \in AudioFrames BY <1>8, <2>1
  <2>3. Frames(d, m) = [i \in 1..q |-> Frames(d, m)[i]] BY <1>4
  <2> QED BY <1>6, <2>2, <2>3, SequenceOf
<1> HIDE DEF c
<1>10. k \in Nat /\ c + k = Len(s) /\ k < FrameSamples BY <1>1, <1>6, <1>7
<1>11. r \in Seq(Nat) /\ Len(r) = k /\ CountsFrom(r, g + c)
  <2> DEFINE x == c + 1
             y == Len(s)
  <2>1. r = SubSeq(s, x, y) OBVIOUS
  <2> HIDE DEF r, g
  <2>2. x \in Nat /\ y \in Nat /\ 1 <= x /\ x <= y + 1 /\ y <= Len(s)
        /\ y - x + 1 = k /\ g + x - 1 = g + c
    BY <1>1, <1>2, <1>7, <1>10
  <2> HIDE DEF k, x, y
  <2>3. r \in Seq(Nat) /\ Len(r) = y - x + 1 /\ CountsFrom(r, g + x - 1)
    BY <2>1, <2>2, <1>1, <1>2, <1>3, CountsOn
  <2> QED BY <2>2, <2>3
<1> HIDE DEF r, k
<1>13. g + c + k = g + Len(d.residual) + Len(m)
  <2> DEFINE x == Len(d.residual)
             y == Len(m)
  <2>1. x \in Nat /\ y \in Nat /\ x + y = c + k BY <1>0, <1>1, <1>10
  <2> HIDE DEF x, y, g
  <2>2. g + c + k = g + x + y BY <1>2, <1>7, <1>10, <2>1
  <2> QED BY <2>2 DEF x, y
<1> DEFINE h == (f + n) * FrameSamples
<1>14. h = g + c BY <1>7, <1>9
<1>15. Decoded(d, m).residual = r /\ Decoded(d, m).next = f + n
       /\ Decoded(d, m) \in [residual : Seq(Nat), next : Nat]
  BY <1>0, <1>5, <1>6, <1>9, <1>11
<1>16. \A i \in 1..n : Frames(d, m)[i] = FrameOf(f + i) BY <1>8, <1>9
<1> HIDE DEF h, g
<1>17. \A i \in 1..Len(r) : r[i] = h + i - 1 BY <1>11, <1>14 DEF CountsFrom
<1>18. h + Len(r) = g + Len(d.residual) + Len(m) BY <1>11, <1>13, <1>14
<1> QED BY <1>6, <1>9, <1>10, <1>11, <1>15, <1>16, <1>17, <1>18 DEF h, g

LEMMA AudioIntactForm ==
  AudioIntact <=>
    /\ \A i \in DOMAIN Framed : Framed[i] = FrameOf(i)
    /\ \A j \in DOMAIN decoder.residual : decoder.residual[j] = Len(Framed) * FrameSamples + j - 1
    /\ up = <<>> /\ pc \in {"select", "feed", "send"} =>
          Len(Framed) * FrameSamples + Len(decoder.residual) = said
  BY DEF AudioIntact, FrameOf

-----------------------------------------------------------------------------
(* Turns, messages and frames. *)

LEMMA DivBetween ==
  ASSUME NEW n \in Nat, NEW b \in Nat, b > 0, NEW k \in Nat
  PROVE  (n < k * b => n \div b < k) /\ (k * b <= n => k <= n \div b)
<1> DEFINE q == n \div b
           m == n % b
<1>1. q \in Nat /\ m \in Nat /\ m < b /\ n = q * b + m BY DivMod
<1> HIDE DEF q, m
<1>2. q * b \in Nat /\ k * b \in Nat BY <1>1
<1>3. ASSUME n < k * b, k <= q PROVE FALSE
  <2>1. k = q \/ k < q BY <1>1, <1>3
  <2>2. k < q => k * b + b <= q * b BY <1>1, Distinct
  <2> QED BY <1>1, <1>2, <1>3, <2>1, <2>2
<1>4. ASSUME k * b <= n, q < k PROVE FALSE
  <2>1. q * b + b <= k * b BY <1>1, <1>4, Distinct
  <2> QED BY <1>1, <1>2, <1>4, <2>1
<1>5. n < k * b => q < k BY <1>1, <1>3
<1>6. k * b <= n => k <= q BY <1>1, <1>4
<1> QED BY <1>5, <1>6 DEF q

\* The turn the client is in.
LEMMA TurnIs ==
  ASSUME SaidInv, said \in Nat
  PROVE  /\ at = "speak" =>
              /\ CurrentTurn \in 1..Turns
              /\ (CurrentTurn - 1) * Turn <= said /\ said < CurrentTurn * Turn
         /\ at = "await answer" => CurrentTurn \in 1..Turns /\ said = CurrentTurn * Turn
         /\ at = "drain" => CurrentTurn = Turns /\ said = CurrentTurn * Turn
         /\ at \in {"connect", "await ready"} => CurrentTurn = 0 /\ said = 0
<1>1. ASSUME at = "speak"
      PROVE  /\ CurrentTurn \in 1..Turns
             /\ (CurrentTurn - 1) * Turn <= said /\ said < CurrentTurn * Turn
  <2>1. PICK k \in 0..(Turns - 1), r \in 0..(Turn - 1) : said = k * Turn + r
    BY <1>1 DEF SaidInv
  <2>2. k \in Nat /\ Turn \in Nat BY Sizes
  <2>3. CurrentTurn = k + 1 BY <1>1, <2>1, <2>2, DivUnique DEF CurrentTurn
  <2>4. (k + 1) * Turn = k * Turn + Turn /\ k * Turn \in Nat BY <2>2
  <2>5. k + 1 - 1 = k BY <2>2
  <2>6. k * Turn <= said /\ said < (k + 1) * Turn BY <2>1, <2>2, <2>4
  <2>7. k + 1 \in 1..Turns BY Sizes
  <2> QED BY <2>3, <2>5, <2>6, <2>7
<1>2. ASSUME NEW k \in Nat, said = k * Turn PROVE said \div Turn = k
  <2>1. said = k * Turn + 0 /\ 0 \in 0 .. Turn - 1 BY <1>2, Sizes
  <2> QED BY <2>1, DivUnique, Sizes
<1>3. ASSUME at = "await answer" PROVE CurrentTurn \in 1..Turns /\ said = CurrentTurn * Turn
  <2>1. PICK k \in 1..Turns : said = k * Turn BY <1>3 DEF SaidInv
  <2>2. k \in Nat BY Sizes
  <2>3. CurrentTurn = k BY <1>2, <1>3, <2>1, <2>2 DEF CurrentTurn
  <2> QED BY <2>1, <2>3
<1>4. at = "drain" => CurrentTurn = Turns /\ said = CurrentTurn * Turn
  BY <1>2, Sizes DEF SaidInv, CurrentTurn
<1>5. at \in {"connect", "await ready"} => CurrentTurn = 0 /\ said = 0
  <2>1. said = 0 => said = 0 * Turn BY Sizes
  <2> QED BY <1>2, <2>1 DEF SaidInv, CurrentTurn
<1> QED BY <1>1, <1>3, <1>4, <1>5

\* What it says next.
LEMMA NextIs ==
  ASSUME SaidInv, said \in Nat, at = "speak", NEW n, n = Len(NextMessage)
  PROVE  /\ n \in 1..FrameSamples /\ NextMessage \in Seq(Nat)
         /\ NextMessage = [j \in 1..n |-> said + j - 1]
         /\ \E k \in 0..(Turns - 1), r \in 1..Turn :
              /\ said + n = k * Turn + r /\ CurrentTurn = k + 1
              /\ r < Speech \/ \E x \in 0..Turn : Turn - r = x * FrameSamples
<1>1. PICK k \in 0..(Turns - 1), r \in 0..(Turn - 1) :
        /\ said = k * Turn + r
        /\ r < Speech \/ \E x \in 0..Turn : Turn - r = x * FrameSamples
  BY DEF SaidInv
<1>2. k \in Nat /\ r \in Nat /\ r < Turn /\ k * Turn \in Nat BY Sizes
<1>3. said % Turn = r /\ said \div Turn = k BY <1>1, <1>2, DivUnique, Sizes
<1> DEFINE size == IF r < Speech /\ Speech - r < FrameSamples THEN Speech - r ELSE FrameSamples
<1>4. size \in 1..FrameSamples BY <1>2, Sizes
<1>5. NextMessage = [j \in 1..size |-> said + j - 1] BY <1>3 DEF NextMessage
<1>6. r + size <= Turn /\ (r + size < Speech \/ \E x \in 0..Turn : Turn - (r + size) = x * FrameSamples)
  <2>1. CASE r < Speech /\ Speech - r < FrameSamples
    <3>1. size = Speech - r /\ r + size = Speech BY <1>2, <2>1, Sizes
    <3> QED BY <3>1, TurnAssumption, Sizes
  <2>2. CASE r < Speech /\ ~(Speech - r < FrameSamples)
    <3>1. size = FrameSamples /\ r + size <= Speech BY <1>2, <2>2, Sizes
    <3>2. r + size = Speech \/ r + size < Speech BY <1>2, <3>1, Sizes
    <3>3. PICK x \in 0..Turn : Turn - Speech = x * FrameSamples BY TurnAssumption
    <3>4. r + size <= Turn BY <1>2, <3>1, Sizes
    <3>5. CASE r + size = Speech BY <3>3, <3>4, <3>5
    <3> QED BY <3>2, <3>4, <3>5
  <2>3. CASE ~(r < Speech)
    <3>1. size = FrameSamples BY <2>3
    <3>2. PICK x \in 0..Turn : Turn - r = x * FrameSamples BY <1>1, <2>3
    <3>3. x # 0
      <4> SUFFICES ASSUME x = 0 PROVE FALSE OBVIOUS
      <4>1. x * FrameSamples = 0 BY Sizes
      <4> QED BY <1>2, <3>2, <4>1, Sizes
    <3>4. x - 1 \in 0..Turn /\ x \in Nat BY <3>3, Sizes
    <3>5. (x - 1) * FrameSamples = x * FrameSamples - FrameSamples /\ (x - 1) * FrameSamples \in Nat
      BY <3>4, Sizes
    <3> DEFINE y == x * FrameSamples
               z == (x - 1) * FrameSamples
    <3>6. Turn - r = y /\ z = y - FrameSamples /\ z \in Nat BY <3>2, <3>5
    <3> HIDE DEF y, z
    <3>7. Turn - (r + size) = z BY <1>2, <3>1, <3>6, Sizes
    <3>8. r + size <= Turn BY <1>2, <3>1, <3>6, <3>7, Sizes
    <3> QED BY <3>4, <3>7, <3>8 DEF z
  <2> QED BY <2>1, <2>2, <2>3
<1> HIDE DEF size
<1>7. n = size /\ NextMessage \in Seq(Nat)
  <2>1. \A j \in 1..size : said + j - 1 \in Nat BY <1>4
  <2> QED BY <1>4, <1>5, <2>1
<1>8. said + size = k * Turn + (r + size) /\ r + size \in 1..Turn
  <2> DEFINE u == k * Turn
  <2>1. said = u + r /\ u \in Nat BY <1>1, <1>2
  <2> HIDE DEF u
  <2>2. said + size = u + (r + size) BY <1>2, <1>4, <2>1, Sizes
  <2>3. r + size \in 1..Turn BY <1>2, <1>4, <1>6, Sizes
  <2> QED BY <2>2, <2>3 DEF u
<1>9. CurrentTurn = k + 1 BY <1>3 DEF CurrentTurn
<1> QED BY <1>4, <1>5, <1>6, <1>7, <1>8, <1>9

\* The i-th frame.
LEMMA FrameFacts ==
  ASSUME Types, DecodeInv, SaidInv, NEW i \in DOMAIN Framed, NEW h, h = (i - 1) * FrameSamples
  PROVE  /\ h \in Nat /\ h < said /\ h + FrameSamples = i * FrameSamples
         /\ i * FrameSamples <= Taken
         /\ Head(Framed[i].samples) = h
         /\ Utterance(Framed[i]) = (h \div Turn) + 1 /\ Utterance(Framed[i]) \in 1..Turns
         /\ Voiced(Framed[i]) <=> h % Turn < Speech
<1>1. Framed \in Seq(AudioFrames) /\ Len(Framed) \in Nat /\ i \in Nat /\ 1 <= i /\ i <= Len(Framed)
  BY DEF Types, Framed
<1>2. Framed[i] = FrameOf(i) BY AudioIntactForm DEF DecodeInv
<1>3. Head(Framed[i].samples) = h
  <2>1. Framed[i].samples[1] = (i - 1) * FrameSamples + 1 - 1 BY <1>2, Sizes DEF FrameOf
  <2>2. (i - 1) * FrameSamples \in Nat BY <1>1, Multiples
  <2>3. Framed[i] \in AudioFrames /\ Framed[i].samples \in Seq(Nat)
    <3>1. Framed[i] \in AudioFrames BY <1>1
    <3> QED BY <3>1 DEF AudioFrames
  <2>4. Framed[i].samples # <<>> BY <1>2, Sizes DEF FrameOf
  <2>5. Head(Framed[i].samples) = Framed[i].samples[1] BY <2>3, <2>4
  <2> QED BY <2>1, <2>2, <2>5
<1>4. /\ h \in Nat /\ i * FrameSamples = h + FrameSamples
      /\ i * FrameSamples <= Len(Framed) * FrameSamples /\ Len(Framed) * FrameSamples \in Nat
  BY <1>1, Multiples
<1>5. i * FrameSamples <= Taken /\ h < said
  <2> DEFINE u == Len(Framed) * FrameSamples
             v == i * FrameSamples
             w == Len(decoder.residual)
  <2>1. w \in Nat BY DEF Types
  <2>2. Taken = u + w BY DEF Taken
  <2>3. v = h + FrameSamples /\ v <= u /\ u \in Nat /\ h \in Nat BY <1>4
  <2>4. Taken <= said /\ said \in Nat BY DEF DecodeInv, Types
  <2> HIDE DEF u, v, w
  <2>5. v <= Taken /\ h < said BY <2>1, <2>2, <2>3, <2>4, Sizes
  <2> QED BY <2>5 DEF v
<1>6. h \div Turn \in Nat /\ h \div Turn < Turns
  <2>1. h < Turns * Turn
    <3> DEFINE z == Turns * Turn
    <3>1. z \in Nat BY Sizes
    <3>2. said <= z /\ said \in Nat BY DEF SaidInv, Types
    <3> HIDE DEF z
    <3>3. h < z BY <1>4, <1>5, <3>1, <3>2
    <3> QED BY <3>3 DEF z
  <2>2. h \in Nat /\ Turn \in Nat /\ Turn > 0 /\ Turns \in Nat BY <1>4, Sizes
  <2>3. h \div Turn \in Nat BY <2>2, DivMod
  <2> QED BY <2>1, <2>2, <2>3, DivBetween
<1>7. Utterance(Framed[i]) = (h \div Turn) + 1 BY <1>3 DEF Utterance
<1>8. Voiced(Framed[i]) <=> h % Turn < Speech BY <1>3 DEF Voiced
<1> DEFINE q == h \div Turn
<1>9. q + 1 \in 1..Turns
  <2>1. q \in Nat /\ q < Turns BY <1>6
  <2> HIDE DEF q
  <2> QED BY <2>1, Sizes
<1> QED BY <1>3, <1>4, <1>5, <1>7, <1>8, <1>9

\* The frame the front end takes next, and the one it took last.
LEMMA FrontFrames ==
  ASSUME Types
  PROVE  /\ Framed \in Seq(AudioFrames) /\ Len(heard) \in Nat
         /\ Len(Framed) = Len(heard) + Len(audio) + Len(feeding)
         /\ audio # <<>> => Len(heard) + 1 \in DOMAIN Framed /\ Head(audio) = Framed[Len(heard) + 1]
         /\ heard # <<>> => Len(heard) \in DOMAIN Framed /\ Last(heard) = Framed[Len(heard)]
<1>1. heard \in Seq(AudioFrames) /\ audio \in Seq(AudioFrames) /\ feeding \in Seq(AudioFrames)
  BY DEF Types
<1>2. /\ Framed \in Seq(AudioFrames) /\ Len(Framed) = Len(heard) + Len(audio) + Len(feeding)
      /\ \A i \in DOMAIN heard : Framed[i] = heard[i]
      /\ audio # <<>> => Framed[Len(heard) + 1] = Head(audio)
  BY <1>1, JoinsInOrder DEF Framed
<1>3. Len(heard) \in Nat /\ Len(audio) \in Nat /\ Len(feeding) \in Nat BY <1>1
<1>4. audio # <<>> => Len(audio) > 0 BY <1>1
<1>5. heard # <<>> => Len(heard) \in DOMAIN heard /\ Last(heard) = heard[Len(heard)]
  BY <1>1, <1>3 DEF Last
<1>6. DOMAIN Framed = 1..Len(Framed) /\ DOMAIN heard = 1..Len(heard) BY <1>1, <1>2
<1> QED BY <1>2, <1>3, <1>4, <1>5, <1>6

LEMMA ItemFacts ==
  /\ \A e \in Items : e[1] \in {"started", "ended", "audio", "complete"} /\ e[2] \in 1..Turns
                      /\ e # <<>> /\ e \in ToClient
  /\ \A e \in ToClient : e[1] # "ready" => e \in Items
  /\ \A k \in {"started", "ended", "audio", "complete"}, u \in 1..Turns :
       <<k, u>> \in Items /\ <<k, u>>[1] = k /\ <<k, u>>[2] = u
  /\ \A e \in Found : e \in Items /\ e[1] \in {"started", "ended"}
  /\ \A k \in {"started", "ended"}, u \in 1..Turns : <<k, u>> \in Found
  /\ <<"ready", 0>> \in ToClient
  BY DEF Items, Found, ToClient

-----------------------------------------------------------------------------
(* What is on its way up. *)

LEMMA QueueTypes ==
  ASSUME NEW S, NEW s \in Seq(S)
  PROVE  /\ s # <<>> => Tail(s) \in Seq(S) /\ Head(s) \in S
         /\ \A e \in S : Append(s, e) \in Seq(S)
OBVIOUS

LEMMA UpFirst ==
  ASSUME Types, up # <<>>, UpInv, NEW m, m = Head(up)
  PROVE  /\ m \in Messages /\ Size(m) \in Nat /\ Taken \in Nat /\ Taken + Size(m) <= said
         /\ m.kind = "binary" =>
              m.samples \in Seq(Nat) /\ m.samples = [j \in 1..Size(m) |-> Taken + j - 1]
         /\ Taken' = Taken + Size(m) /\ up' = Tail(up) /\ said' = said => UpInv'
<1>1. PICK p \in [0..Len(up) -> 0..said] :
        /\ p[0] = Taken /\ p[Len(up)] = said
        /\ \A i \in DOMAIN up :
             /\ p[i] = p[i - 1] + Size(up[i])
             /\ up[i].kind = "binary" =>
                  up[i].samples = [j \in 1..Size(up[i]) |-> p[i - 1] + j - 1]
  BY DEF UpInv
<1>2. up \in Seq(Messages) /\ said \in Nat /\ Len(up) \in Nat /\ Len(up) >= 1 BY DEF Types
<1>3. 1 \in DOMAIN up /\ m = up[1] /\ m \in Messages BY <1>2
<1>4. m.kind = "binary" => m.samples \in Seq(Nat) BY <1>3 DEF Messages
<1>5. Size(m) \in Nat BY <1>4 DEF Size
<1>6. Taken \in Nat /\ p[1] = Taken + Size(m) /\ p[1] <= said
  <2>1. 0 \in 0..Len(up) /\ 1 \in 0..Len(up) BY <1>2
  <2>2. p[0] \in 0..said /\ p[1] \in 0..said BY <1>1, <2>1
  <2>3. p[1] = p[1 - 1] + Size(up[1]) BY <1>1, <1>3
  <2>4. p[1] = p[0] + Size(m) BY <1>3, <2>3
  <2> QED BY <1>1, <1>2, <2>2, <2>4
<1>7. m.kind = "binary" => m.samples = [j \in 1..Size(m) |-> Taken + j - 1]
  <2>1. p[1 - 1] = Taken BY <1>1
  <2> QED BY <1>1, <1>3, <2>1
<1>8. ASSUME Taken' = Taken + Size(m), up' = Tail(up), said' = said PROVE UpInv'
  <2> DEFINE q == [i \in 0..Len(up') |-> p[i + 1]]
  <2>1. Len(up') = Len(up) - 1 /\ Len(up') \in Nat BY <1>2, <1>8
  <2>2. \A i \in DOMAIN up' : i + 1 \in DOMAIN up /\ up'[i] = up[i + 1] BY <1>2, <1>8
  <2>3. \A i \in 0..Len(up') : i + 1 \in 0..Len(up) BY <1>2, <2>1
  <2>4. q \in [0..Len(up') -> 0..said'] BY <1>8, <2>3
  <2>5. q[0] = Taken' /\ q[Len(up')] = said' BY <1>1, <1>2, <1>6, <1>8, <2>1
  <2>6. ASSUME NEW i \in DOMAIN up'
        PROVE  /\ q[i] = q[i - 1] + Size(up'[i])
               /\ up'[i].kind = "binary" =>
                    up'[i].samples = [j \in 1..Size(up'[i]) |-> q[i - 1] + j - 1]
    <3>1. i \in 0..Len(up') /\ i - 1 \in 0..Len(up') /\ i - 1 + 1 = i
      <4>1. DOMAIN up' = 1..Len(up') BY <1>2, <1>8
      <4> QED BY <2>1, <4>1
    <3> DEFINE k == i + 1
    <3>2. q[i] = p[k] /\ q[i - 1] = p[k - 1] BY <3>1
    <3>3. up'[i] = up[k] /\ k \in DOMAIN up BY <2>2
    <3> HIDE DEF q, k
    <3>4. /\ p[k] = p[k - 1] + Size(up[k])
          /\ up[k].kind = "binary" => up[k].samples = [j \in 1..Size(up[k]) |-> p[k - 1] + j - 1]
      BY <1>1, <3>3
    <3> QED BY <3>2, <3>3, <3>4
  <2> HIDE DEF q
  <2> QED BY <2>4, <2>5, <2>6 DEF UpInv, Size
<1> QED BY <1>3, <1>4, <1>5, <1>6, <1>7, <1>8

LEMMA UpGrows ==
  ASSUME Types, UpInv, NEW m \in Messages, up' = Append(up, m), Taken' = Taken,
         said' = said + Size(m),
         m.kind = "binary" => m.samples = [j \in 1..Size(m) |-> said + j - 1]
  PROVE  UpInv'
<1>1. PICK p \in [0..Len(up) -> 0..said] :
        /\ p[0] = Taken /\ p[Len(up)] = said
        /\ \A i \in DOMAIN up :
             /\ p[i] = p[i - 1] + Size(up[i])
             /\ up[i].kind = "binary" =>
                  up[i].samples = [j \in 1..Size(up[i]) |-> p[i - 1] + j - 1]
  BY DEF UpInv
<1> DEFINE l == Len(up)
           q == [i \in 0..(l + 1) |-> IF i = l + 1 THEN said' ELSE p[i]]
<1>2. up \in Seq(Messages) /\ said \in Nat /\ l \in Nat BY DEF Types
<1>3. Size(m) \in Nat /\ said' \in Nat /\ said <= said'
  <2>1. m.kind = "binary" => m.samples \in Seq(Nat) BY DEF Messages
  <2>2. Size(m) \in Nat BY <2>1 DEF Size
  <2> QED BY <1>2, <2>2
<1>4. Len(up') = l + 1 /\ up'[l + 1] = m /\ \A i \in 1..l : up'[i] = up[i] /\ i \in DOMAIN up
  BY <1>2
<1>5. DOMAIN up' = 1..(l + 1) BY <1>2
<1> HIDE DEF l
<1>6. q \in [0..(l + 1) -> 0..said']
  <2>1. \A i \in 0..(l + 1) : i # l + 1 => i \in 0..l BY <1>2
  <2>2. \A i \in 0..l : p[i] \in 0..said BY <1>1 DEF l
  <2>3. \A x \in 0..said : x \in 0..said' BY <1>2, <1>3
  <2> QED BY <1>3, <2>1, <2>2, <2>3
<1>7. q[0] = Taken' /\ q[l + 1] = said' BY <1>1, <1>2
<1>8. ASSUME NEW i \in 1..(l + 1)
      PROVE  /\ q[i] = q[i - 1] + Size(up'[i])
             /\ up'[i].kind = "binary" =>
                  up'[i].samples = [j \in 1..Size(up'[i]) |-> q[i - 1] + j - 1]
  <2>1. CASE i = l + 1
    <3>1. q[i] = said' /\ q[i - 1] = said BY <1>1, <1>2, <2>1 DEF l
    <3> HIDE DEF q
    <3> QED BY <1>4, <2>1, <3>1
  <2>2. CASE i # l + 1
    <3>1. i \in 1..l BY <1>2, <2>2
    <3>2. q[i] = p[i] /\ q[i - 1] = p[i - 1] BY <1>2, <3>1
    <3> HIDE DEF q
    <3> QED BY <1>1, <1>4, <3>1, <3>2
  <2> QED BY <2>1, <2>2
<1> HIDE DEF q
<1>9. q \in [0..Len(up') -> 0..said'] /\ q[Len(up')] = said' BY <1>4, <1>6, <1>7
<1>10. \A i \in DOMAIN up' :
         /\ q[i] = q[i - 1] + Size(up'[i])
         /\ up'[i].kind = "binary" =>
              up'[i].samples = [j \in 1..Size(up'[i]) |-> q[i - 1] + j - 1]
  BY <1>5, <1>8
<1> QED BY <1>7, <1>9, <1>10 DEF UpInv, Size

LEMMA UpStays ==
  ASSUME UpInv, up' = up, Taken' = Taken, said' = said
  PROVE  UpInv'
  BY DEF UpInv, Size

\* The bridge takes a message of audio.
LEMMA Received ==
  ASSUME Types, PlaceInv, DecodeInv, BridgeReceives, said' = said
  PROVE  /\ decoder' \in [residual : Seq(Nat), next : Nat] /\ feeding' \in Seq(AudioFrames)
         /\ DecodeInv'
<1>1. pc = "select" /\ up # <<>> /\ feeding = <<>> /\ UpInv
  BY DEF BridgeReceives, PlaceInv, DecodeInv, Reading
<1> DEFINE m == Head(up)
           f == Len(Framed)
           n == Len(Frames(decoder, m.samples))
<1>2. /\ m \in Messages /\ Size(m) \in Nat /\ Taken \in Nat /\ Taken + Size(m) <= said
      /\ m.kind = "binary" =>
           m.samples \in Seq(Nat) /\ m.samples = [j \in 1..Size(m) |-> Taken + j - 1]
      /\ Taken' = Taken + Size(m) /\ up' = Tail(up) /\ said' = said => UpInv'
  BY <1>1, UpFirst
<1>3. /\ heard' = heard /\ audio' = audio /\ up' = Tail(up)
  BY DEF BridgeReceives, pipeVars
<1>4. CASE m.kind # "binary"
  <2>1. UNCHANGED <<feeding, decoder>> /\ pc' \in {"select", "cancel"}
    BY <1>4 DEF BridgeReceives
  <2>2. Framed' = Framed /\ Taken' = Taken BY <1>3, <2>1 DEF Framed, Taken
  <2>3. Size(m) = 0 BY <1>4 DEF Size
  <2>4. UpInv' BY <1>2, <1>3, <2>2, <2>3
  <2>5. up' = <<>> => Taken' = said' 
    <3> SUFFICES ASSUME up' = <<>> PROVE Taken' = said' OBVIOUS
    <3>1. Len(up') = 0 BY up' = <<>>
    <3> QED BY <2>4, <3>1 DEF UpInv
  <2>6. AudioIntact' BY <2>1, <2>2, <2>5, AudioIntactForm DEF DecodeInv, AudioIntact, Taken
  <2> QED BY <2>1, <2>2, <2>4, <2>6 DEF DecodeInv, Types
<1>5. CASE m.kind = "binary"
  <2>1. feeding' = Frames(decoder, m.samples) /\ decoder' = Decoded(decoder, m.samples) /\ pc' = "feed"
    BY <1>5 DEF BridgeReceives
  <2> DEFINE c == Len(decoder.residual)
  <2>2. /\ f \in Nat /\ decoder \in [residual : Seq(Nat), next : Nat] /\ m.samples \in Seq(Nat)
        /\ decoder.next = f /\ c \in Nat
        /\ \A i \in 1..Len(decoder.residual) : decoder.residual[i] = f * FrameSamples + i - 1
    <3>1. decoder \in [residual : Seq(Nat), next : Nat] /\ decoder.residual \in Seq(Nat) BY DEF Types
    <3>2. DOMAIN decoder.residual = 1..Len(decoder.residual) /\ c \in Nat BY <3>1
    <3>3. f \in Nat BY FrontFrames
    <3>4. decoder.next = f BY DEF DecodeInv
    <3>5. \A i \in DOMAIN decoder.residual : decoder.residual[i] = f * FrameSamples + i - 1
      BY DEF DecodeInv, AudioIntact
    <3> QED BY <1>2, <1>5, <3>1, <3>2, <3>3, <3>4, <3>5
  <2>3. Taken = f * FrameSamples + c /\ Size(m) = Len(m.samples) BY <1>5 DEF Taken, Size
  <2>4. \A i \in 1..Len(m.samples) : m.samples[i] = f * FrameSamples + Len(decoder.residual) + i - 1
    BY <1>2, <1>5, <2>3
  <2> DEFINE fr == Frames(decoder, m.samples)
             de == Decoded(decoder, m.samples)
  <2>5. /\ n \in Nat /\ fr \in Seq(AudioFrames)
        /\ \A i \in 1..n : fr[i] = FrameOf(f + i)
        /\ de \in [residual : Seq(Nat), next : Nat]
        /\ de.next = f + n
        /\ Len(de.residual) < FrameSamples
        /\ \A i \in 1..Len(de.residual) : de.residual[i] = (f + n) * FrameSamples + i - 1
        /\ (f + n) * FrameSamples + Len(de.residual) = f * FrameSamples + Len(decoder.residual) + Len(m.samples)
    <3> DEFINE mm == m.samples
    <3>1. n = Len(Frames(decoder, mm)) OBVIOUS
    <3>2. mm \in Seq(Nat)
          /\ \A i \in 1..Len(mm) : mm[i] = f * FrameSamples + Len(decoder.residual) + i - 1 BY <2>2, <2>4
    <3> HIDE DEF mm, f, n
    <3>3. FollowsOn(decoder, f, mm) BY <2>2, <3>2 DEF FollowsOn
    <3> QED BY <3>1, <3>3, FramesDecoded DEF mm
  <2> HIDE DEF fr, de, n
  <2>6. decoder' = de /\ feeding' = fr BY <2>1 DEF fr, de
  <2>7. Len(fr) = n BY DEF n, fr
  <2>8. /\ Len(Framed') = f + n
        /\ \A i \in 1..f : Framed'[i] = Framed[i]
        /\ \A i \in 1..n : Framed'[f + i] = fr[i]
    <3>1. heard \o audio \in Seq(AudioFrames) /\ Framed = heard \o audio BY <1>1 DEF Types, Framed
    <3> DEFINE s == heard \o audio
               t == Framed'
    <3>2. t = s \o fr BY <1>3, <2>6 DEF Framed
    <3>3. s \in Seq(AudioFrames) /\ Framed = s /\ Len(s) = f BY <3>1
    <3>4. f \in Nat /\ n \in Nat /\ fr \in Seq(AudioFrames) BY <2>2, <2>5
    <3> HIDE DEF s, t, f
    <3>5. Len(t) = f + n /\ (\A i \in 1..f : t[i] = s[i]) /\ \A i \in 1..n : t[f + i] = fr[i]
      <4>1. /\ Len(s \o fr) = Len(s) + Len(fr)
            /\ \A i \in 1..Len(s) : (s \o fr)[i] = s[i]
            /\ \A i \in 1..Len(fr) : (s \o fr)[Len(s) + i] = fr[i]
        <5>1. s \in Seq(AudioFrames) BY <3>3
        <5>2. fr \in Seq(AudioFrames) BY <3>4
        <5> HIDE DEF fr
        <5> QED BY <5>1, <5>2
      <4>2. Len(s) = f /\ Len(fr) = n /\ t = s \o fr BY <2>7, <3>2, <3>3
      <4> HIDE DEF fr
      <4> QED BY <4>1, <4>2, Zenon
    <3> QED BY <3>3, <3>5 DEF t
  <2> HIDE DEF f
  <2>9. \A i \in 1..(f + n) : Framed'[i] = FrameOf(i)
    <3> SUFFICES ASSUME NEW i \in 1..(f + n) PROVE Framed'[i] = FrameOf(i)
      OBVIOUS
    <3>1. CASE i <= f
      <4>1. i \in 1..f BY <2>2, <2>5, <3>1
      <4>2. DOMAIN Framed = 1..f BY FrontFrames DEF f
      <4> QED BY <2>8, <4>1, <4>2, AudioIntactForm DEF DecodeInv
    <3>2. CASE ~(i <= f)
      <4>1. i - f \in 1..n /\ f + (i - f) = i BY <2>2, <2>5, <3>2
      <4>2. Framed'[f + (i - f)] = fr[i - f] /\ fr[i - f] = FrameOf(f + (i - f)) BY <2>5, <2>8, <4>1
      <4> QED BY <4>1, <4>2
    <3> QED BY <3>1, <3>2
  <2>10. DOMAIN Framed' = 1..(f + n)
    <3>1. Framed' \in Seq(AudioFrames) BY <1>3, <2>5, <2>6 DEF Framed, Types
    <3> QED BY <2>8, <3>1
  <2>11. Taken' = Taken + Size(m) BY <2>3, <2>5, <2>6, <2>8 DEF Taken
  <2>12. UpInv' /\ Taken' <= said' BY <1>2, <1>3, <2>11
  <2>13. up' = <<>> => Taken' = said'
    <3> SUFFICES ASSUME up' = <<>> PROVE Taken' = said' OBVIOUS
    <3>1. Len(up') = 0 BY up' = <<>>
    <3> QED BY <2>12, <3>1 DEF UpInv
  <2>14. DOMAIN decoder'.residual = 1..Len(de.residual) BY <2>5, <2>6
  <2>15. AudioIntact'
    <3>1. \A i \in DOMAIN Framed' : Framed'[i] = FrameOf(i) BY <2>9, <2>10
    <3>2. \A j \in DOMAIN decoder'.residual :
            decoder'.residual[j] = Len(Framed') * FrameSamples + j - 1
      BY <2>5, <2>6, <2>8, <2>14
    <3>3. up' = <<>> => Len(Framed') * FrameSamples + Len(decoder'.residual) = said' BY <2>13 DEF Taken
    <3> QED BY <3>1, <3>2, <3>3 DEF AudioIntact, FrameOf
  <2> QED BY <2>5, <2>6, <2>8, <2>12, <2>15 DEF DecodeInv
<1> QED BY <1>4, <1>5

-----------------------------------------------------------------------------
(* Types and places. *)


LEMMA TypesClient ==
  ASSUME Types, SaidInv, Client \/ ClientReceives \/ ConnectionLost
  PROVE  Types'
<1>0. UNCHANGED clientOnly
  BY DEF Client, ClientStarts, AwaitReady, ClientSpeaks, AwaitAnswer, TurnTimesOut, ClientEnds,
    ClientReceives, ConnectionLost
<1>1. /\ decoder' \in [residual : Seq(Nat), next : Nat]
      /\ heard' \in Seq(AudioFrames) /\ audio' \in Seq(AudioFrames) /\ feeding' \in Seq(AudioFrames)
      /\ found' \in Found \cup {<<>>} /\ event' \in Items \cup {<<>>}
      /\ bus' \in Seq(Items) /\ egress' \in Seq(Items)
      /\ answering' \in ({"audio", "complete"} \X (1..Turns)) \cup {<<>>}
  BY <1>0 DEF Types, clientOnly, bridgeVars, pipeVars
<1>2. ASSUME NEW m \in Messages, Sends(m) PROVE up' \in Seq(Messages)
  BY <1>2 DEF Sends, Types
<1>3. [kind |-> "start"] \in Messages /\ [kind |-> "end"] \in Messages
  BY DEF Messages
<1>4. CASE ClientStarts
  <2>1. up' \in Seq(Messages) BY <1>2, <1>3, <1>4 DEF ClientStarts, SendFails, Types
  <2> QED BY <1>1, <1>4, <2>1 DEF ClientStarts, Sends, SendFails, Types
<1>5. CASE ClientReceives
  <2>1. down' \in Seq(ToClient) /\ Head(down) \in ToClient /\ rx' \in Seq(ToClient)
    BY <1>5 DEF ClientReceives, Types
  <2> QED BY <1>1, <1>5, <2>1 DEF ClientReceives, Types
<1>6. CASE AwaitReady
  <2>1. rx \in Seq(ToClient) BY DEF Types
  <2>2. rx' = rx \/ (rx # <<>> /\ rx' = Tail(rx)) BY <1>6 DEF AwaitReady
  <2>3. rx' \in Seq(ToClient) BY <2>1, <2>2, QueueTypes
  <2> QED BY <1>1, <1>6, <2>3 DEF AwaitReady, Types, netVars
<1>7. CASE ClientSpeaks
  <2> DEFINE n == Len(NextMessage)
  <2>1. n \in 1..FrameSamples /\ NextMessage \in Seq(Nat) /\ said \in Nat /\ at = "speak"
    BY <1>7, NextIs DEF ClientSpeaks, Types
  <2>2. [kind |-> "binary", samples |-> NextMessage] \in Messages BY <2>1 DEF Messages
  <2>3. up' \in Seq(Messages) BY <1>2, <1>7, <2>2 DEF ClientSpeaks, SendFails, Types
  <2>4. n \in Nat BY <2>1, Sizes
  <2> HIDE DEF n
  <2>5. said' = said + n \/ said' = said BY <1>7 DEF ClientSpeaks, n
  <2>6. said' \in Nat BY <2>1, <2>4, <2>5
  <2> QED BY <1>1, <1>7, <2>3, <2>6 DEF ClientSpeaks, Sends, SendFails, Types
<1>8. CASE AwaitAnswer
  <2>1. rx' \in Seq(ToClient) /\ (rx # <<>> => Head(rx) \in ToClient)
    <3>1. rx \in Seq(ToClient) BY DEF Types
    <3>2. rx' = rx \/ (rx # <<>> /\ rx' = Tail(rx)) BY <1>8 DEF AwaitAnswer
    <3> QED BY <3>1, <3>2, QueueTypes
  <2>2. got' \in [1..Turns -> SUBSET (1..Turns)]
    <3>1. CASE rx # <<>> /\ Head(rx)[1] = "audio"
      <4>1. Head(rx)[2] \in 1..Turns BY <2>1, <3>1, ItemFacts
      <4>2. got' = got \/ got' = [got EXCEPT ![CurrentTurn] = @ \cup {Head(rx)[2]}]
        BY <1>8 DEF AwaitAnswer
      <4>3. got \in [1..Turns -> SUBSET (1..Turns)] BY DEF Types
      <4> QED BY <4>1, <4>2, <4>3
    <3>2. CASE ~(rx # <<>> /\ Head(rx)[1] = "audio")
      <4>1. got' = got BY <1>8, <3>2 DEF AwaitAnswer
      <4> QED BY <4>1 DEF Types
    <3> QED BY <3>1, <3>2
  <2> QED BY <1>1, <1>8, <2>1, <2>2 DEF AwaitAnswer, Types, netVars
<1>9. CASE TurnTimesOut
  BY <1>1, <1>9 DEF TurnTimesOut, Types, netVars
<1>10. CASE ClientEnds
  <2>1. up' \in Seq(Messages) BY <1>2, <1>3, <1>10 DEF ClientEnds, SendFails, Types
  <2>2. \A d \in Range(rx) : d[1] = "audio" => d[2] \in 1..Turns
    <3>1. \A d \in Range(rx) : d \in ToClient BY DEF Range, Types
    <3> QED BY <3>1, ItemFacts
  <2>3. got' \in [1..Turns -> SUBSET (1..Turns)]
    <3> DEFINE late == {e[2] : e \in {d \in Range(rx) : d[1] = "audio"}}
    <3>1. late \subseteq 1..Turns BY <2>2
    <3> HIDE DEF late
    <3>2. got' = [got EXCEPT ![Turns] = @ \cup late] BY <1>10 DEF ClientEnds, late
    <3> QED BY <3>1, <3>2 DEF Types
  <2>4. rx' \in Seq(ToClient) BY <1>10 DEF ClientEnds
  <2> QED BY <1>1, <1>10, <2>1, <2>3, <2>4 DEF ClientEnds, Types
<1>11. CASE ConnectionLost
  BY <1>1, <1>11 DEF ConnectionLost, Types, clientVars
<1> QED BY <1>4, <1>5, <1>6, <1>7, <1>8, <1>9, <1>10, <1>11 DEF Client

LEMMA TypesServer ==
  ASSUME Types, PlaceInv, SaidInv, DecodeInv, UNCHANGED clientVars,
         \/ Server \/ FrontEnd \/ Orchestrate \/ Speak \/ \E t \in Tasks : TaskEnds(t)
  PROVE  Types'
<1>1. said' = said /\ rx' = rx /\ got' = got /\ timedOut' = timedOut BY DEF clientVars
<1>2. CASE SessionStart
  <2>1. open' \in BOOLEAN BY <1>2 DEF SessionStart, Hangs
  <2>2. up' = up \/ (up # <<>> /\ up' = Tail(up)) BY <1>2 DEF SessionStart
  <2>3. up' \in Seq(Messages)
    <3>1. up \in Seq(Messages) BY DEF Types
    <3> QED BY <2>2, <3>1, QueueTypes
  <2> QED BY <1>1, <1>2, <2>1, <2>3 DEF SessionStart, bridgeVars, pipeVars, Types
<1>3. CASE StartSession
  BY <1>1, <1>3 DEF StartSession, Hangs, bridgeVars, Types
<1>4. CASE SendReady
  <2>1. down' = down \/ down' = Append(down, <<"ready", 0>>) BY <1>4 DEF SendReady
  <2>2. down' \in Seq(ToClient)
    <3>1. down \in Seq(ToClient) BY DEF Types
    <3>2. <<"ready", 0>> \in ToClient BY ItemFacts
    <3> QED BY <2>1, <3>1, <3>2
  <2> QED BY <1>1, <1>4, <2>2 DEF SendReady, bridgeVars, pipeVars, Types
<1>5. CASE BridgeReceives
  <2>1. up' \in Seq(Messages) /\ Head(up) \in Messages BY <1>5 DEF BridgeReceives, Types
  <2>2. decoder' \in [residual : Seq(Nat), next : Nat] /\ feeding' \in Seq(AudioFrames)
    BY <1>1, <1>5, Received
  <2> QED BY <1>1, <1>5, <2>1, <2>2 DEF BridgeReceives, pipeVars, Types
<1>6. CASE BridgeLosesClient
  BY <1>1, <1>6 DEF BridgeLosesClient, netVars, bridgeVars, pipeVars, Types
<1>7. CASE BridgeFeeds
  <2>1. feeding' \in Seq(AudioFrames) /\ audio' \in Seq(AudioFrames)
    <3>1. feeding \in Seq(AudioFrames) /\ audio \in Seq(AudioFrames) BY DEF Types
    <3>2. \/ UNCHANGED <<feeding, audio>>
          \/ feeding # <<>> /\ audio' = Append(audio, Head(feeding)) /\ feeding' = Tail(feeding)
      BY <1>7 DEF BridgeFeeds
    <3> QED BY <3>1, <3>2, QueueTypes
  <2> QED BY <1>1, <1>7, <2>1 DEF BridgeFeeds, netVars, pipeVars, Types
<1>8. CASE BridgeTakes
  <2>1. event' \in Items /\ egress' \in Seq(Items) BY <1>8 DEF BridgeTakes, Types
  <2> QED BY <1>1, <1>8, <2>1 DEF BridgeTakes, netVars, pipeVars, Types
<1>9. CASE BridgeSends
  <2>1. down' \in Seq(ToClient)
    <3>1. down \in Seq(ToClient) /\ event \in Items \cup {<<>>} BY DEF Types
    <3>2. event \in ToClient BY <1>9, <3>1, ItemFacts DEF BridgeSends, PlaceInv, Goes
    <3>3. down' = down \/ down' = Append(down, event) BY <1>9 DEF BridgeSends
    <3> QED BY <3>1, <3>2, <3>3, QueueTypes
  <2> QED BY <1>1, <1>9, <2>1 DEF BridgeSends, pipeVars, Types
<1>10. CASE Cancel \/ \E t \in Tasks : Join(t) \/ JoinTimesOut(t)
  BY <1>1, <1>10 DEF Cancel, Join, JoinTimesOut, Hangs, netVars, bridgeVars, pipeVars, Types
<1>11. CASE FrontTakes
  <2>1. Head(audio) \in AudioFrames /\ audio' \in Seq(AudioFrames) /\ heard' \in Seq(AudioFrames)
    BY <1>11 DEF FrontTakes, Types
  <2>2. Utterance(Head(audio)) \in 1..Turns
    BY <1>11, FrontFrames, FrameFacts DEF FrontTakes
  <2>3. found' \in Found \cup {<<>>} BY <1>11, <2>2, ItemFacts DEF FrontTakes
  <2> QED BY <1>1, <1>11, <2>1, <2>3 DEF FrontTakes, netVars, bridgeVars, Types
<1>12. CASE FrontSends
  <2>1. bus' \in Seq(Items) /\ found' = <<>>
    <3>1. bus \in Seq(Items) /\ found \in Items BY <1>12, ItemFacts DEF FrontSends, Types
    <3> QED BY <1>12, <3>1, QueueTypes DEF FrontSends
  <2> QED BY <1>1, <1>12, <2>1 DEF FrontSends, netVars, bridgeVars, Types
<1>13. CASE VadLast
  <2>1. Utterance(Last(heard)) \in 1..Turns
    BY <1>13, FrontFrames, FrameFacts DEF VadLast, Speaking
  <2>2. found' \in Found \cup {<<>>} BY <1>13, <2>1, ItemFacts DEF VadLast
  <2> QED BY <1>1, <1>13, <2>2 DEF VadLast, netVars, bridgeVars, Types
<1>14. CASE Orchestrate
  <2>1. Head(bus) \in Items /\ bus' \in Seq(Items) BY <1>14 DEF Orchestrate, Types
  <2>2. egress' \in Seq(Items) BY <1>14, <2>1 DEF Orchestrate, Types
  <2>3. Head(bus)[2] \in 1..Turns BY <2>1, ItemFacts
  <2>4. answering' \in ({"audio", "complete"} \X (1..Turns)) \cup {<<>>}
    BY <1>14, <2>3 DEF Orchestrate, Types
  <2> QED BY <1>1, <1>14, <2>1, <2>2, <2>4 DEF Orchestrate, netVars, bridgeVars, Types
<1>15. CASE Speak
  <2>1. answering \in {"audio", "complete"} \X (1..Turns) BY <1>15 DEF Speak, Types
  <2>2. answering \in Items /\ answering[2] \in 1..Turns BY <2>1 DEF Items
  <2>3. bus' \in Seq(Items) BY <1>15, <2>2 DEF Speak, Types
  <2>4. answering' \in ({"audio", "complete"} \X (1..Turns)) \cup {<<>>} BY <1>15, <2>2 DEF Speak
  <2> QED BY <1>1, <1>15, <2>3, <2>4 DEF Speak, netVars, bridgeVars, Types
<1>16. CASE \E t \in Tasks : TaskEnds(t)
  <2>1. PICK t \in Tasks : TaskEnds(t) BY <1>16
  <2>2. bus' \in Seq(Items) /\ found' \in Found \cup {<<>>}
    <3>1. bus' = bus \/ bus' = <<>> BY <2>1 DEF TaskEnds
    <3>2. found' = found \/ found' = <<>> BY <2>1 DEF TaskEnds
    <3>3. bus \in Seq(Items) /\ found \in Found \cup {<<>>} BY DEF Types
    <3> DEFINE none == <<>>
    <3>6. none \in Seq(Items) OBVIOUS
    <3>7. bus' = bus \/ bus' = none BY <3>1
    <3> HIDE DEF none
    <3>4. bus' \in Seq(Items) BY <3>3, <3>6, <3>7
    <3>5. found' \in Found \cup {<<>>} BY <3>2, <3>3
    <3> QED BY <3>4, <3>5
  <2>3. answering' = answering \/ answering' = <<>> BY <2>1 DEF TaskEnds
  <2> QED BY <1>1, <2>1, <2>2, <2>3 DEF TaskEnds, netVars, bridgeVars, Types
<1> QED
  BY <1>2, <1>3, <1>4, <1>5, <1>6, <1>7, <1>8, <1>9, <1>10, <1>11, <1>12, <1>13, <1>14, <1>15,
    <1>16 DEF Server, FrontEnd

LEMMA QueueItems ==
  ASSUME NEW S, NEW s \in Seq(S)
  PROVE  /\ s # <<>> =>
              /\ 1 \in DOMAIN s /\ Head(s) = s[1]
              /\ \A i \in DOMAIN Tail(s) : i + 1 \in DOMAIN s /\ Tail(s)[i] = s[i + 1]
         /\ \A e \in S : \A i \in DOMAIN Append(s, e) :
              \/ i \in DOMAIN s /\ Append(s, e)[i] = s[i]
              \/ i = Len(s) + 1 /\ Append(s, e)[i] = e
         /\ \A e \in S : Append(s, e) # <<>> /\ (s # <<>> => Append(s, e)[1] = s[1])
                         /\ (s = <<>> => Append(s, e)[1] = e)
<1>1. /\ s # <<>> => 1 \in DOMAIN s /\ Head(s) = s[1]
      /\ s # <<>> => \A i \in DOMAIN Tail(s) : i + 1 \in DOMAIN s /\ Tail(s)[i] = s[i + 1]
  OBVIOUS
<1>2. ASSUME NEW e \in S
      PROVE  /\ \A i \in DOMAIN Append(s, e) :
                  \/ i \in DOMAIN s /\ Append(s, e)[i] = s[i]
                  \/ i = Len(s) + 1 /\ Append(s, e)[i] = e
             /\ Append(s, e) # <<>>
  OBVIOUS
<1>3. ASSUME NEW e \in S, s # <<>> PROVE Append(s, e)[1] = s[1] BY <1>3
<1>4. ASSUME NEW e \in S, s = <<>> PROVE Append(s, e)[1] = e
  <2>1. Len(s) = 0 BY <1>4
  <2> QED BY <2>1
<1> QED BY <1>1, <1>2, <1>3, <1>4

LEMMA UpTakes ==
  ASSUME Types, up # <<>>, up' = Tail(up), EndsAtDone, at' = at
  PROVE  EndsAtDone'
<1>1. up \in Seq(Messages) BY DEF Types
<1> QED BY <1>1, QueueItems DEF EndsAtDone

LEMMA UpAppends ==
  ASSUME Types, NEW m \in Messages, up' = Append(up, m), EndsAtDone,
         m.kind = "end" => at' = "done", at = "done" => at' = "done"
  PROVE  /\ EndsAtDone' /\ up' # <<>> /\ (StartsFirst => StartsFirst')
         /\ (up = <<>> /\ m.kind = "start" => StartsFirst')
<1>1. up \in Seq(Messages) BY DEF Types
<1>2. \A i \in DOMAIN up' : up'[i] = m \/ (i \in DOMAIN up /\ up'[i] = up[i])
  BY <1>1, QueueItems
<1>3. EndsAtDone' BY <1>2 DEF EndsAtDone
<1> QED BY <1>1, <1>3, QueueItems DEF StartsFirst

LEMMA JoinPlaces ==
  \A t \in Tasks : \/ AtJoin[t] = "join fanout" /\ AfterJoin[t] = "join vad"
                   \/ AtJoin[t] = "join vad" /\ AfterJoin[t] = "join orchestrator"
                   \/ AtJoin[t] = "join orchestrator" /\ AfterJoin[t] = "closed"
<1>1. AtJoin["fanout"] = "join fanout" /\ AfterJoin["fanout"] = "join vad"
  BY DEF AtJoin, AfterJoin
<1>2. AtJoin["vad"] = "join vad" /\ AfterJoin["vad"] = "join orchestrator"
  BY DEF AtJoin, AfterJoin
<1>3. AtJoin["orchestrator"] = "join orchestrator" /\ AfterJoin["orchestrator"] = "closed"
  BY DEF AtJoin, AfterJoin
<1> QED BY <1>1, <1>2, <1>3 DEF Tasks

LEMMA PlaceClient ==
  ASSUME Types, PlaceInv, SaidInv, Client \/ ClientReceives \/ ConnectionLost
  PROVE  PlaceInv'
<1>0. UNCHANGED <<pc, feeding, event>>
  BY DEF Client, ClientStarts, AwaitReady, ClientSpeaks, AwaitAnswer, TurnTimesOut, ClientEnds,
    ClientReceives, ConnectionLost, clientOnly, bridgeVars
<1>1. /\ open => at # "done" /\ Reading
      /\ pc = "wait" => (up = <<>> /\ at \in {"connect", "done"}) \/ StartsFirst
      /\ pc # "feed" => feeding = <<>>
      /\ pc = "send" <=> event # <<>>
      /\ EndsAtDone
  BY DEF PlaceInv
<1>2. ASSUME up' = up, at # "done", open' = open \/ ~open', at' # "done" \/ ~open', open' => open,
             pc = "wait" => at' \in {"connect", "done"} \/ StartsFirst
      PROVE  PlaceInv'
  <2>1. EndsAtDone' BY <1>1, <1>2 DEF EndsAtDone
  <2>2. StartsFirst' <=> StartsFirst BY <1>2 DEF StartsFirst
  <2> QED BY <1>0, <1>1, <1>2, <2>1, <2>2 DEF PlaceInv, Reading
<1>3. ASSUME NEW m \in Messages, up' = Append(up, m), at # "done", at' # "done" \/ ~open', open' => open,
             m.kind = "end" => at' = "done",
             pc = "wait" => (up = <<>> /\ m.kind = "start") \/ StartsFirst
      PROVE  PlaceInv'
  <2>1. EndsAtDone' /\ (StartsFirst => StartsFirst') /\ (up = <<>> /\ m.kind = "start" => StartsFirst')
    BY <1>1, <1>3, UpAppends
  <2> QED BY <1>0, <1>1, <1>3, <2>1 DEF PlaceInv, Reading
<1>4. CASE ClientStarts
  <2>1. CASE Sends([kind |-> "start"])
    <3>1. [kind |-> "start"] \in Messages /\ [kind |-> "start"].kind = "start" BY DEF Messages
    <3> DEFINE m == [kind |-> "start"]
    <3>2. m \in Messages /\ m.kind = "start" BY <3>1
    <3>3. up' = Append(up, m) /\ open' = open BY <1>4, <2>1 DEF ClientStarts, Sends
    <3>4. at = "connect" /\ at' \in {"await ready", "done"} /\ (at' = "done" => ~open)
      BY <1>4 DEF ClientStarts, SendFails
    <3> HIDE DEF m
    <3> QED BY <1>1, <1>3, <3>2, <3>3, <3>4
  <2>2. CASE SendFails /\ at' = "done"
    BY <1>1, <1>2, <1>4, <2>2 DEF ClientStarts, SendFails
  <2> QED BY <1>4, <2>1, <2>2 DEF ClientStarts
<1>5. CASE ClientReceives
  BY <1>1, <1>2, <1>5 DEF ClientReceives
<1>6. CASE AwaitReady
  BY <1>1, <1>2, <1>6 DEF AwaitReady, netVars
<1>7. CASE ClientSpeaks
  <2>1. CASE Sends([kind |-> "binary", samples |-> NextMessage])
    <3> DEFINE m == [kind |-> "binary", samples |-> NextMessage]
    <3>1. NextMessage \in Seq(Nat) BY <1>7, NextIs DEF ClientSpeaks, Types
    <3>2. m \in Messages /\ m.kind = "binary" BY <3>1 DEF Messages
    <3>3. up' = Append(up, m) /\ open' = open /\ open BY <1>7, <2>1 DEF ClientSpeaks, Sends
    <3>4. at = "speak" /\ at' # "done" BY <1>7, <3>3 DEF ClientSpeaks, SendFails
    <3> HIDE DEF m
    <3> QED BY <1>1, <1>3, <3>2, <3>3, <3>4
  <2>2. CASE SendFails /\ at' = "done" /\ UNCHANGED said
    BY <1>1, <1>2, <1>7, <2>2 DEF ClientSpeaks, SendFails
  <2> QED BY <1>7, <2>1, <2>2 DEF ClientSpeaks
<1>8. CASE AwaitAnswer
  BY <1>1, <1>2, <1>8 DEF AwaitAnswer, TurnOver, netVars
<1>9. CASE TurnTimesOut
  BY <1>1, <1>2, <1>9 DEF TurnTimesOut, TurnOver, netVars
<1>10. CASE ClientEnds
  <2>1. CASE Sends([kind |-> "end"])
    <3> DEFINE m == [kind |-> "end"]
    <3>2. m \in Messages BY DEF Messages
    <3>3. up' = Append(up, m) /\ open' = FALSE BY <1>10, <2>1 DEF ClientEnds, Sends
    <3>4. at = "drain" /\ at' = "done" BY <1>10 DEF ClientEnds
    <3> HIDE DEF m
    <3> QED BY <1>1, <1>3, <3>2, <3>3, <3>4
  <2>2. CASE SendFails
    BY <1>1, <1>2, <1>10, <2>2 DEF ClientEnds, SendFails
  <2> QED BY <1>10, <2>1, <2>2 DEF ClientEnds
<1>11. CASE ConnectionLost
  BY <1>1, <1>2, <1>11 DEF ConnectionLost, clientVars
<1> QED BY <1>4, <1>5, <1>6, <1>7, <1>8, <1>9, <1>10, <1>11 DEF Client

LEMMA PlaceServer ==
  ASSUME Types, PlaceInv, UNCHANGED clientVars,
         \/ Server \/ FrontEnd \/ Orchestrate \/ Speak \/ \E t \in Tasks : TaskEnds(t)
  PROVE  PlaceInv'
<1>0. at' = at BY DEF clientVars
<1>1. /\ open => at # "done" /\ Reading
      /\ pc = "wait" => (up = <<>> /\ at \in {"connect", "done"}) \/ StartsFirst
      /\ pc # "feed" => feeding = <<>>
      /\ pc = "send" <=> event # <<>>
      /\ EndsAtDone
  BY DEF PlaceInv
<1>2. ASSUME up' = up PROVE EndsAtDone' /\ (StartsFirst <=> StartsFirst')
  BY <1>0, <1>1, <1>2 DEF EndsAtDone, StartsFirst
<1>3. CASE SessionStart
  <2>1. EndsAtDone'
    <3>1. up' = up \/ (up # <<>> /\ up' = Tail(up)) BY <1>3 DEF SessionStart
    <3> QED BY <1>0, <1>1, <1>2, <3>1, UpTakes
  <2>2. pc = "wait" /\ pc' \in {"start", "closed"}
    <3>1. pc = "wait" BY <1>3 DEF SessionStart, Goes
    <3>2. CASE up # <<>>
      <4>1. StartsFirst BY <1>1, <3>1, <3>2
      <4>2. up \in Seq(Messages) BY DEF Types
      <4>3. Head(up).kind = "start" BY <3>2, <4>1, <4>2, QueueItems DEF StartsFirst
      <4> QED BY <1>3, <3>2, <4>3 DEF SessionStart, Goes
    <3>3. CASE up = <<>> BY <1>3, <3>3 DEF SessionStart, Goes
    <3> QED BY <3>1, <3>2, <3>3
  <2> QED BY <1>0, <1>1, <1>3, <2>1, <2>2 DEF PlaceInv, SessionStart, Hangs, Reading, bridgeVars
<1>4. CASE StartSession
  BY <1>0, <1>1, <1>2, <1>4 DEF PlaceInv, StartSession, Goes, Hangs, Reading, bridgeVars
<1>5. CASE SendReady
  BY <1>0, <1>1, <1>2, <1>5 DEF PlaceInv, SendReady, Goes, Reading, bridgeVars
<1>6. CASE BridgeReceives
  <2>1. EndsAtDone' BY <1>0, <1>1, <1>6, UpTakes DEF BridgeReceives
  <2>2. Head(up).kind = "end" => ~open
    <3>1. up \in Seq(Messages) /\ up # <<>> BY <1>6 DEF Types, BridgeReceives
    <3>2. 1 \in DOMAIN up /\ Head(up) = up[1] BY <3>1, QueueItems
    <3> QED BY <1>1, <3>2 DEF EndsAtDone
  <2>3. pc = "select" /\ pc' \in {"select", "feed", "cancel"} /\ (pc' = "cancel" => ~open) /\ (pc' # "feed" => feeding' = feeding)
    BY <1>6, <2>2 DEF BridgeReceives
  <2> QED BY <1>0, <1>1, <1>6, <2>1, <2>3 DEF PlaceInv, BridgeReceives, Reading
<1>7. CASE BridgeLosesClient
  BY <1>0, <1>1, <1>2, <1>7 DEF PlaceInv, BridgeLosesClient, Goes, Reading, bridgeVars, netVars
<1>8. CASE BridgeFeeds
  BY <1>0, <1>1, <1>2, <1>8 DEF PlaceInv, BridgeFeeds, Reading, netVars
<1>9. CASE BridgeTakes
  <2>1. event' # <<>>
    <3>1. Head(egress) \in Items BY <1>9 DEF BridgeTakes, Types
    <3> QED BY <1>9, <3>1, ItemFacts DEF BridgeTakes
  <2> QED BY <1>0, <1>1, <1>2, <1>9, <2>1 DEF PlaceInv, BridgeTakes, Goes, Reading, netVars
<1>10. CASE BridgeSends
  BY <1>0, <1>1, <1>2, <1>10 DEF PlaceInv, BridgeSends, Goes, Reading
<1>11. CASE Cancel
  BY <1>0, <1>1, <1>2, <1>11 DEF PlaceInv, Cancel, Goes, Reading, netVars, bridgeVars
<1>12. CASE \E t \in Tasks : Join(t) \/ JoinTimesOut(t)
  <2>1. PICK t \in Tasks : Join(t) \/ JoinTimesOut(t) BY <1>12
  <2>2. /\ pc \in {"join fanout", "join vad", "join orchestrator"}
        /\ pc' \in {"join vad", "join orchestrator", "closed"}
    BY <2>1, JoinPlaces DEF Join, JoinTimesOut, Goes
  <2> QED
    BY <1>0, <1>1, <1>2, <2>1, <2>2 DEF PlaceInv, Join, JoinTimesOut, Hangs, Reading, bridgeVars
<1>13. CASE FrontEnd \/ Orchestrate \/ Speak \/ \E t \in Tasks : TaskEnds(t)
  <2>1. UNCHANGED <<netVars, pc, bridgeVars>>
    BY <1>13 DEF FrontEnd, FrontTakes, FrontSends, VadLast, Orchestrate, Speak, TaskEnds
  <2> QED BY <1>0, <1>1, <1>2, <2>1 DEF PlaceInv, Reading, netVars, bridgeVars
<1> QED
  BY <1>3, <1>4, <1>5, <1>6, <1>7, <1>8, <1>9, <1>10, <1>11, <1>12, <1>13 DEF Server

LEMMA SaidNext ==
  ASSUME Types, SaidInv, [Next]_vars
  PROVE  SaidInv'
<1>1. said \in Nat BY DEF Types
<1>2. CASE ClientStarts
  BY <1>2 DEF ClientStarts, SaidInv
<1>3. CASE AwaitReady
  <2>1. at = "await ready" /\ said' = said /\ said = 0 /\ at' \in {"await ready", "speak"}
    BY <1>3 DEF AwaitReady, SaidInv
  <2>2. 0 = 0 * Turn + 0 /\ 0 \in 0..(Turns - 1) /\ 0 \in 0..(Turn - 1) /\ 0 < Speech BY Sizes
  <2> QED BY <2>1, <2>2 DEF SaidInv
<1>4. CASE ClientSpeaks
  <2> DEFINE n == Len(NextMessage)
  <2>1. at = "speak" BY <1>4 DEF ClientSpeaks
  <2>2. PICK k \in 0..(Turns - 1), r \in 1..Turn :
          /\ said + n = k * Turn + r /\ CurrentTurn = k + 1
          /\ r < Speech \/ \E x \in 0..Turn : Turn - r = x * FrameSamples
    BY <1>1, <2>1, NextIs
  <2>3. n \in Nat BY <1>1, <2>1, NextIs, Sizes
  <2> HIDE DEF n
  <2>4. k \in Nat /\ k * Turn \in Nat /\ (k + 1) * Turn = k * Turn + Turn /\ Turns * Turn \in Nat
    BY Sizes
  <2>5. (k + 1) * Turn <= Turns * Turn
    <3>1. k + 1 = Turns \/ k + 1 < Turns BY Sizes
    <3>2. CASE k + 1 < Turns
      <4>1. (k + 1 + 1) * Turn <= Turns * Turn /\ (k + 1 + 1) * Turn = (k + 1) * Turn + Turn
        BY <2>4, <3>2, Distinct, Sizes
      <4> QED BY <2>4, <4>1, Sizes
    <3> QED BY <2>4, <3>1, <3>2, Sizes
  <2>6. said + n <= Turns * Turn
    <3> DEFINE u == k * Turn
               v == Turns * Turn
               w == (k + 1) * Turn
    <3>1. said + n = u + r /\ u \in Nat /\ w = u + Turn /\ w <= v /\ v \in Nat BY <2>2, <2>4, <2>5
    <3> HIDE DEF u, v, w
    <3>2. said + n <= v BY <1>1, <2>3, <3>1, Sizes
    <3> QED BY <3>2 DEF v
  <2>7. CASE said' = said + n /\ at' = IF said' % Turn = 0 THEN "await answer" ELSE at
    <3> DEFINE u == k * Turn
               w == (k + 1) * Turn
    <3>a. said + n = u + r BY <2>2
    <3>b. u \in Nat /\ w = u + Turn BY <2>4
    <3> HIDE DEF u, w
    <3>c. said' = u + r BY <2>7, <3>a
    <3>d. said' = said + n BY <2>7
    <3>e. said' \in Nat BY <1>1, <2>3, <3>d
    <3>0. said' = u + r /\ u \in Nat /\ w = u + Turn /\ said' \in Nat
      BY <3>b, <3>c, <3>e
    <3>1. CASE r = Turn
      <4>1. k + 1 \in 1..Turns /\ k + 1 \in Nat BY <2>4, Sizes
      <4>2. said' = w + 0 /\ said' = w /\ 0 \in 0..(Turn - 1) BY <3>0, <3>1, Sizes
      <4>3. said' % Turn = 0
        <5> DEFINE kk == k + 1
        <5>1. kk \in Nat /\ said' = kk * Turn + 0 BY <4>1, <4>2 DEF w
        <5> HIDE DEF kk, w
        <5>2. Turn \in Nat /\ 0 \in 0..(Turn - 1) BY Sizes
        <5> QED BY <3>0, <5>1, <5>2, DivUnique
      <4>4. \E kk \in 1..Turns : said' = kk * Turn BY <4>1, <4>2 DEF w
      <4> QED BY <2>6, <2>7, <4>3, <4>4 DEF SaidInv
    <3>2. CASE r # Turn
      <4>1. r \in 0..(Turn - 1) /\ r # 0 BY <3>2, Sizes
      <4>2. said' = k * Turn + r /\ said' \in Nat BY <3>0 DEF u
      <4>3. said' % Turn = r BY <2>4, <4>1, <4>2, DivUnique, Sizes
      <4>4. at' = "speak" BY <2>1, <2>7, <4>1, <4>3
      <4>5. \E kk \in 0..(Turns - 1), rr \in 0..(Turn - 1) :
              /\ said' = kk * Turn + rr
              /\ rr < Speech \/ \E x \in 0..Turn : Turn - rr = x * FrameSamples
        BY <2>2, <4>1, <4>2
      <4> QED BY <2>6, <2>7, <4>4, <4>5 DEF SaidInv
    <3> QED BY <3>1, <3>2
  <2>8. CASE at' = "done" /\ said' = said BY <2>8 DEF SaidInv
  <2> QED BY <1>4, <2>7, <2>8 DEF ClientSpeaks, n
<1>5. ASSUME at = "await answer", TurnOver \/ at' = at, said' = said PROVE SaidInv'
  <2>1. CurrentTurn \in 1..Turns /\ said = CurrentTurn * Turn BY <1>1, <1>5, TurnIs
  <2>2. CASE at' = at BY <1>5, <2>2 DEF SaidInv
  <2>3. CASE at' = "drain" /\ CurrentTurn = Turns BY <1>5, <2>1, <2>3 DEF SaidInv
  <2>4. CASE at' = "speak" /\ CurrentTurn # Turns
    <3>1. CurrentTurn \in 0..(Turns - 1) /\ CurrentTurn \in Nat BY <2>1, <2>4, Sizes
    <3> DEFINE c == CurrentTurn
               w == c * Turn
    <3>2. w \in Nat BY <3>1, Sizes
    <3>3. said = w BY <2>1
    <3> HIDE DEF w
    <3>4. said = w + 0 BY <3>2, <3>3
    <3>5. 0 \in 0..(Turn - 1) /\ 0 < Speech BY Sizes
    <3>6. \E kk \in 0..(Turns - 1), rr \in 0..(Turn - 1) : said = kk * Turn + rr /\ rr < Speech
      BY <3>1, <3>4, <3>5 DEF w
    <3> QED BY <1>5, <2>4, <3>6 DEF SaidInv
  <2> QED BY <1>5, <2>2, <2>3, <2>4 DEF TurnOver
<1>6. CASE AwaitAnswer
  BY <1>5, <1>6 DEF AwaitAnswer
<1>7. CASE TurnTimesOut
  BY <1>5, <1>7 DEF TurnTimesOut
<1>8. CASE ClientEnds
  BY <1>8 DEF ClientEnds, SaidInv
<1>9. ASSUME UNCHANGED <<at, said>> PROVE SaidInv'
  BY <1>9 DEF SaidInv
<1>10. CASE ClientReceives \/ ConnectionLost \/ UNCHANGED vars
  BY <1>9, <1>10 DEF ClientReceives, ConnectionLost, clientVars, vars
<1>11. CASE UNCHANGED clientVars
  BY <1>9, <1>11 DEF clientVars
<1> QED
  BY <1>2, <1>3, <1>4, <1>6, <1>7, <1>8, <1>10, <1>11 DEF Next, Client

LEMMA UpAllTaken == UpInv /\ Len(up) = 0 => Taken = said
  BY DEF UpInv

LEMMA DecodeStays ==
  ASSUME Types, DecodeInv, Framed' = Framed, decoder' = decoder, said' \in Nat, said <= said',
         Reading' => UpInv'
  PROVE  DecodeInv'
<1>1. Taken' = Taken BY DEF Taken
<1>2. Taken <= said' 
  <2>1. Taken \in Nat
    <3>1. Len(Framed) \in Nat BY FrontFrames
    <3>2. decoder.residual \in Seq(Nat) BY DEF Types
    <3>3. Len(Framed) * FrameSamples \in Nat /\ Len(decoder.residual) \in Nat BY <3>1, <3>2, Sizes
    <3> QED BY <3>3 DEF Taken
  <2> QED BY <2>1 DEF DecodeInv, Types
<1>3. ASSUME up' = <<>>, pc' \in {"select", "feed", "send"} PROVE Taken' = said'
  <2>1. Len(up') = 0 BY <1>3
  <2>2. UpInv' BY <1>3 DEF Reading
  <2> QED BY <2>1, <2>2 DEF UpInv
<1>4. AudioIntact' BY <1>3 DEF DecodeInv, AudioIntact, Taken
<1> QED BY <1>1, <1>2, <1>4 DEF DecodeInv

LEMMA DecodeNext ==
  ASSUME Types, PlaceInv, SaidInv, DecodeInv, [Next]_vars
  PROVE  DecodeInv'
<1>0. said \in Nat BY DEF Types
<1>1. ASSUME UNCHANGED <<up, said, decoder>>, Framed' = Framed, Reading' => Reading PROVE DecodeInv'
  <2>1. Taken' = Taken BY <1>1 DEF Taken
  <2>2. Reading' => UpInv' BY <1>1, <2>1, UpStays DEF DecodeInv
  <2> QED BY <1>0, <1>1, <2>2, DecodeStays
<1>2. ASSUME UNCHANGED <<heard, audio, feeding>> PROVE Framed' = Framed
  BY <1>2 DEF Framed
<1>3. CASE SessionStart /\ UNCHANGED clientVars
  <2>1. Framed' = Framed /\ said' = said /\ decoder' = decoder /\ Taken' = Taken
    BY <1>2, <1>3 DEF SessionStart, bridgeVars, pipeVars, clientVars, Taken, Framed
  <2>2. Reading' => UpInv'
    <3> SUFFICES ASSUME Reading' PROVE UpInv' OBVIOUS
    <3>1. up # <<>> /\ up' = Tail(up) /\ pc = "wait"
      BY <1>3 DEF SessionStart, Goes, Reading
    <3>2. up \in Seq(Messages) BY DEF Types
    <3>3. Head(up) = up[1] /\ Head(up).kind = "start"
      BY <3>1, <3>2, QueueItems DEF PlaceInv, StartsFirst
    <3>4. Size(Head(up)) = 0 BY <3>3 DEF Size
    <3>5. UpInv BY <3>1 DEF DecodeInv, Reading
    <3>6. Taken \in Nat BY <3>1, <3>5, UpFirst
    <3>7. Taken' = Taken + Size(Head(up)) BY <2>1, <3>4, <3>6
    <3> QED BY <2>1, <3>1, <3>5, <3>7, UpFirst
  <2> QED BY <1>0, <2>1, <2>2, DecodeStays
<1>4. CASE StartSession /\ UNCHANGED clientVars
  BY <1>1, <1>2, <1>4 DEF StartSession, Goes, Reading, bridgeVars, clientVars
<1>5. CASE SendReady /\ UNCHANGED clientVars
  BY <1>1, <1>2, <1>5 DEF SendReady, Goes, Reading, bridgeVars, pipeVars, clientVars
<1>6. CASE BridgeReceives /\ UNCHANGED clientVars
  BY <1>6, Received DEF clientVars
<1>7. CASE (BridgeLosesClient \/ BridgeTakes \/ BridgeSends \/ Cancel) /\ UNCHANGED clientVars
  BY <1>1, <1>2, <1>7 DEF BridgeLosesClient, BridgeTakes, BridgeSends, Cancel, Goes, Reading,
    netVars, bridgeVars, pipeVars, clientVars
<1>8. CASE BridgeFeeds /\ UNCHANGED clientVars
  <2>1. Framed' = Framed
    <3>1. heard \in Seq(AudioFrames) /\ audio \in Seq(AudioFrames) /\ feeding \in Seq(AudioFrames)
      BY DEF Types
    <3>2. heard' = heard BY <1>8 DEF BridgeFeeds, pipeVars
    <3>3. CASE feeding = <<>> BY <1>8, <3>2, <3>3 DEF BridgeFeeds, Framed
    <3>4. CASE feeding # <<>>
      <4>1. audio' = Append(audio, Head(feeding)) /\ feeding' = Tail(feeding)
        BY <1>8, <3>4 DEF BridgeFeeds
      <4>2. audio' \o feeding' = audio \o feeding /\ audio' \in Seq(AudioFrames) /\ feeding' \in Seq(AudioFrames)
        BY <3>1, <3>4, <4>1, Passes
      <4>3. Framed = heard \o (audio \o feeding) BY <3>1, JoinsInOrder DEF Framed
      <4>4. (heard \o audio') \o feeding' = heard \o (audio' \o feeding')
        <5> DEFINE a == audio'
                   b == feeding'
        <5>1. a \in Seq(AudioFrames) /\ b \in Seq(AudioFrames) BY <4>2
        <5> HIDE DEF a, b
        <5>2. (heard \o a) \o b = heard \o (a \o b) BY <3>1, <5>1, JoinsInOrder
        <5> QED BY <5>2 DEF a, b
      <4>5. Framed' = heard \o (audio' \o feeding') BY <3>2, <4>4 DEF Framed
      <4> QED BY <4>2, <4>3, <4>5
    <3> QED BY <3>3, <3>4
  <2> QED BY <1>1, <1>8, <2>1 DEF BridgeFeeds, Reading, netVars, clientVars
<1>9. CASE (\E t \in Tasks : Join(t) \/ JoinTimesOut(t)) /\ UNCHANGED clientVars
  <2>1. PICK t \in Tasks : Join(t) \/ JoinTimesOut(t) BY <1>9
  <2>2. ~Reading' BY <2>1, JoinPlaces DEF Join, JoinTimesOut, Goes, Reading
  <2> QED BY <1>1, <1>2, <1>9, <2>1, <2>2 DEF Join, JoinTimesOut, bridgeVars, pipeVars, clientVars
<1>10. CASE FrontTakes /\ UNCHANGED clientVars
  <2>1. heard \in Seq(AudioFrames) /\ audio \in Seq(AudioFrames) BY DEF Types
  <2>2. audio # <<>> /\ heard' = Append(heard, Head(audio)) /\ audio' = Tail(audio) /\ feeding' = feeding
    BY <1>10 DEF FrontTakes, bridgeVars
  <2>3. Framed' = Framed BY <2>1, <2>2, Passes DEF Framed
  <2> QED BY <1>1, <1>10, <2>3 DEF FrontTakes, Reading, netVars, bridgeVars, clientVars
<1>11. CASE (FrontSends \/ VadLast \/ Orchestrate \/ Speak) /\ UNCHANGED clientVars
  BY <1>1, <1>2, <1>11 DEF FrontSends, VadLast, Orchestrate, Speak, Reading, netVars, bridgeVars,
    clientVars
<1>12. CASE (\E t \in Tasks : TaskEnds(t)) /\ UNCHANGED clientVars
  <2>1. PICK t \in Tasks : TaskEnds(t) BY <1>12
  <2> QED BY <1>1, <1>2, <1>12, <2>1 DEF TaskEnds, Reading, netVars, bridgeVars, clientVars
<1>13. ASSUME UNCHANGED clientOnly, NEW m \in Messages, up' = Append(up, m), said' = said + Size(m),
              m.kind = "binary" => m.samples = [j \in 1..Size(m) |-> said + j - 1]
       PROVE  DecodeInv'
  <2>1. Framed' = Framed /\ decoder' = decoder /\ pc' = pc
    BY <1>2, <1>13 DEF clientOnly, bridgeVars, pipeVars
  <2>2. Taken' = Taken BY <2>1 DEF Taken
  <2>3. Reading' => UpInv' BY <1>13, <2>1, <2>2, UpGrows DEF DecodeInv, Reading
  <2>4. Size(m) \in Nat
    <3>1. m.kind = "binary" => m.samples \in Seq(Nat) BY DEF Messages
    <3> QED BY <3>1 DEF Size
  <2>5. said' \in Nat /\ said <= said' BY <1>0, <1>13, <2>4
  <2> QED BY <2>1, <2>3, <2>5, DecodeStays
<1>14. ASSUME UNCHANGED clientOnly, UNCHANGED <<up, said>> PROVE DecodeInv'
  BY <1>1, <1>2, <1>14 DEF clientOnly, bridgeVars, pipeVars, Reading
<1>15. ASSUME UNCHANGED clientOnly, NEW k \in {"start", "end"}, Sends([kind |-> k]) \/ SendFails, said' = said
       PROVE  DecodeInv'
  <2> DEFINE m == [kind |-> k]
  <2>1. m \in Messages /\ m.kind # "binary" BY DEF Messages
  <2>2. CASE Sends([kind |-> k])
    <3>1. up' = Append(up, m) BY <2>2 DEF Sends
    <3> HIDE DEF m
    <3>2. said' = said + Size(m) BY <1>0, <1>15, <2>1 DEF Size
    <3> QED BY <1>13, <1>15, <2>1, <3>1, <3>2
  <2>3. CASE SendFails BY <1>14, <1>15, <2>3 DEF SendFails
  <2> QED BY <1>15, <2>2, <2>3
<1>16. CASE ClientStarts
  <2>1. UNCHANGED clientOnly /\ said' = said /\ (Sends([kind |-> "start"]) \/ SendFails)
    BY <1>16 DEF ClientStarts
  <2> QED BY <1>15, <2>1
<1>17. CASE ClientEnds
  <2>1. UNCHANGED clientOnly /\ said' = said /\ (Sends([kind |-> "end"]) \/ SendFails)
    BY <1>17 DEF ClientEnds
  <2> QED BY <1>15, <2>1
<1>18. CASE ClientSpeaks
  <2>1. CASE Sends([kind |-> "binary", samples |-> NextMessage]) /\ said' = said + Len(NextMessage)
    <3> DEFINE m == [kind |-> "binary", samples |-> NextMessage]
               n == Len(NextMessage)
    <3>1. NextMessage \in Seq(Nat) /\ NextMessage = [j \in 1..n |-> said + j - 1]
      BY <1>0, <1>18, NextIs DEF ClientSpeaks
    <3>2. m \in Messages /\ m.kind = "binary" /\ m.samples = NextMessage /\ Size(m) = n
      BY <3>1 DEF Messages, Size
    <3>3. up' = Append(up, m) /\ UNCHANGED clientOnly BY <1>18, <2>1 DEF Sends, ClientSpeaks
    <3> HIDE DEF m
    <3> QED BY <1>13, <2>1, <3>1, <3>2, <3>3
  <2>2. CASE SendFails /\ UNCHANGED said
    BY <1>14, <1>18, <2>2 DEF ClientSpeaks, SendFails
  <2> QED BY <1>18, <2>1, <2>2 DEF ClientSpeaks
<1>19. CASE ClientReceives \/ AwaitReady \/ AwaitAnswer \/ TurnTimesOut \/ ConnectionLost
  BY <1>14, <1>19 DEF ClientReceives, AwaitReady, AwaitAnswer, TurnTimesOut, ConnectionLost,
    netVars, clientVars
<1>20. CASE UNCHANGED vars
  BY <1>1, <1>2, <1>20 DEF vars, serverVars, netVars, bridgeVars, pipeVars, clientVars, Reading
<1>21. CASE (FlushSentences \/ SentencesFlushed) /\ UNCHANGED clientVars
  BY <1>1, <1>2, <1>21 DEF FlushSentences, SentencesFlushed, Reading, netVars, bridgeVars, clientVars
<1> QED
  BY <1>3, <1>4, <1>5, <1>6, <1>7, <1>8, <1>9, <1>10, <1>11, <1>12, <1>16, <1>17, <1>18, <1>19,
    <1>20, <1>21 DEF Next, Server, FrontEnd, Orchestrator, Client

LEMMA OverrunNext ==
  ASSUME OverrunInv, [Next]_vars
  PROVE  OverrunInv'
<1>1. ASSUME overruns' = overruns,
             pc' = pc \/ (pc' # "join vad" /\ pc' # "join orchestrator" /\ pc \notin {"join fanout", "join vad", "join orchestrator", "closed"})
      PROVE  OverrunInv'
  BY <1>1 DEF OverrunInv
<1>2. CASE \E t \in Tasks : Join(t) \/ JoinTimesOut(t)
  <2>1. PICK t \in Tasks : Join(t) \/ JoinTimesOut(t) BY <1>2
  <2>2. pc = AtJoin[t] /\ pc' = AfterJoin[t] /\ (overruns' = overruns \/ overruns' = overruns + 1)
    BY <2>1 DEF Join, JoinTimesOut, Goes
  <2>3. CASE pc = "join fanout" /\ pc' = "join vad"
    <3>1. overruns = 0 BY <2>3 DEF OverrunInv
    <3>2. overruns' \in 0..1 BY <2>2, <3>1
    <3>3. overruns' \in 0..3 BY <3>2
    <3> QED BY <2>3, <3>2, <3>3 DEF OverrunInv
  <2>4. CASE pc = "join vad" /\ pc' = "join orchestrator"
    <3>1. overruns \in 0..1 BY <2>4 DEF OverrunInv
    <3>2. overruns' \in 0..2 BY <2>2, <3>1
    <3>3. overruns' \in 0..3 BY <3>2
    <3> QED BY <2>4, <3>2, <3>3 DEF OverrunInv
  <2>5. CASE pc = "join orchestrator" /\ pc' = "closed"
    <3>1. overruns \in 0..2 BY <2>5 DEF OverrunInv
    <3>2. overruns' \in 0..3 BY <2>2, <3>1
    <3> QED BY <2>5, <3>2 DEF OverrunInv
  <2> QED BY <2>2, <2>3, <2>4, <2>5, JoinPlaces
<1>3. CASE SessionStart \/ StartSession \/ SendReady \/ BridgeReceives \/ BridgeLosesClient
           \/ BridgeFeeds \/ BridgeTakes \/ BridgeSends \/ Cancel
  BY <1>1, <1>3 DEF SessionStart, StartSession, SendReady, BridgeReceives, BridgeLosesClient,
    BridgeFeeds, BridgeTakes, BridgeSends, Cancel, Goes
<1>4. CASE FrontEnd \/ Orchestrator \/ Speak
  BY <1>1, <1>4 DEF FrontEnd, FrontTakes, FrontSends, VadLast, Orchestrator, Orchestrate,
    FlushSentences, SentencesFlushed, Speak
<1>5. CASE \E t \in Tasks : TaskEnds(t)
  BY <1>1, <1>5 DEF TaskEnds
<1>6. CASE Client \/ ClientReceives \/ ConnectionLost
  BY <1>1, <1>6 DEF Client, ClientStarts, AwaitReady, ClientSpeaks, AwaitAnswer, TurnTimesOut,
    ClientEnds, ClientReceives, ConnectionLost, clientOnly
<1>7. CASE UNCHANGED vars
  BY <1>1, <1>7 DEF vars, serverVars
<1> QED BY <1>2, <1>3, <1>4, <1>5, <1>6, <1>7 DEF Next, Server

-----------------------------------------------------------------------------
(* The events' way: what a step leaves of it, and in which order. *)

Queues(W) == \A n \in 1..5 : W[n] \in Seq(ToClient)

\* The first of station k + 1 goes on to station k,
Moved(W, V, k) ==
  /\ W[k + 1] # <<>>
  /\ V[k] = Append(W[k], Head(W[k + 1])) /\ V[k + 1] = Tail(W[k + 1])
  /\ \A n \in 1..5 : n # k /\ n # k + 1 => V[n] = W[n]

\* it is taken off the way,
Dropped(W, V, k) ==
  /\ W[k] # <<>> /\ V[k] = Tail(W[k])
  /\ \A n \in 1..5 : n # k => V[n] = W[n]

\* x comes in at station k,
Added(W, V, k, x) ==
  /\ x \in ToClient /\ V[k] = Append(W[k], x)
  /\ \A n \in 1..5 : n # k => V[n] = W[n]

\* some stations are emptied.
Emptied(W, V) == \A n \in 1..5 : V[n] = W[n] \/ V[n] = <<>>

\* Nothing new is on the way, and the order is the same.
Keeps(W, V) ==
  /\ \A a \in ToClient : On(V, a) => On(W, a)
  /\ \A a, b \in ToClient : Behind(V, a, b) => Behind(W, a, b)

\* A position and one behind it.
Order(n, i, m, j) == n < m \/ (n = m /\ i < j)

LEMMA OnAt ==
  ASSUME NEW W, NEW n \in 1..5, NEW i \in DOMAIN W[n]
  PROVE  On(W, W[n][i])
  BY DEF On

LEMMA BehindAt ==
  ASSUME NEW W, NEW n \in 1..5, NEW m \in 1..5, NEW i \in DOMAIN W[n], NEW j \in DOMAIN W[m],
         Order(n, i, m, j)
  PROVE  Behind(W, W[n][i], W[m][j])
  BY DEF Behind, Order

LEMMA MovesKeep ==
  ASSUME NEW W, NEW V, NEW k \in 1..4, Queues(W), Moved(W, V, k)
  PROVE  Keeps(W, V)
<1> DEFINE l == Len(W[k])
           last(n, i) == n = k /\ i = l + 1
           sn(n, i) == IF last(n, i) THEN k + 1 ELSE n
           si(n, i) == IF last(n, i) THEN 1 ELSE IF n = k + 1 THEN i + 1 ELSE i
<1>1. W[k] \in Seq(ToClient) /\ W[k + 1] \in Seq(ToClient) /\ l \in Nat /\ k + 1 \in 1..5 /\ k \in 1..5
  BY DEF Queues
<1>2. ASSUME NEW n \in 1..5, NEW i \in DOMAIN V[n]
      PROVE  /\ sn(n, i) \in 1..5 /\ si(n, i) \in DOMAIN W[sn(n, i)] /\ i \in Nat
             /\ V[n][i] = W[sn(n, i)][si(n, i)]
  <2>1. CASE n = k
    <3>1. Head(W[k + 1]) \in ToClient /\ 1 \in DOMAIN W[k + 1] /\ Head(W[k + 1]) = W[k + 1][1]
      BY <1>1, QueueItems DEF Moved
    <3>2. \/ i \in DOMAIN W[k] /\ V[k][i] = W[k][i]
          \/ i = l + 1 /\ V[k][i] = Head(W[k + 1])
      BY <1>1, <2>1, <3>1, QueueItems DEF Moved
    <3>3. i \in DOMAIN W[k] => i \in Nat /\ i # l + 1 BY <1>1
    <3> HIDE DEF l
    <3> QED BY <1>1, <2>1, <3>1, <3>2, <3>3
  <2>2. CASE n = k + 1
    <3>1. i \in DOMAIN Tail(W[k + 1]) /\ V[n][i] = Tail(W[k + 1])[i] BY <2>2 DEF Moved
    <3>2. i + 1 \in DOMAIN W[k + 1] /\ Tail(W[k + 1])[i] = W[k + 1][i + 1]
      BY <1>1, <3>1, QueueItems DEF Moved
    <3>3. i \in Nat BY <1>1, <3>1 DEF Moved
    <3> QED BY <1>1, <2>2, <3>1, <3>2, <3>3
  <2>3. CASE n # k /\ n # k + 1
    <3>1. V[n] = W[n] /\ W[n] \in Seq(ToClient) BY <2>3 DEF Moved, Queues
    <3>2. i \in Nat BY <3>1
    <3> QED BY <2>3, <3>1, <3>2
  <2> QED BY <2>1, <2>2, <2>3
<1>3. ASSUME NEW n \in 1..5, NEW m \in 1..5, NEW i \in DOMAIN V[n], NEW j \in DOMAIN V[m], Order(n, i, m, j)
      PROVE  Order(sn(n, i), si(n, i), sn(m, j), si(m, j))
  <2>0. i \in Nat /\ j \in Nat BY <1>2
  <2>1. \A x \in DOMAIN V[k] : x <= l + 1
    <3> SUFFICES ASSUME NEW x \in DOMAIN V[k] PROVE x <= l + 1 OBVIOUS
    <3>1. Head(W[k + 1]) \in ToClient BY <1>1 DEF Moved
    <3> QED BY <1>1, <3>1 DEF Moved
  <2>2. j \in 1..Len(V[m]) /\ j >= 1
    <3>1. V[m] \in Seq(ToClient)
      <4>1. Head(W[k + 1]) \in ToClient BY <1>1 DEF Moved
      <4>2. V[k] \in Seq(ToClient) /\ V[k + 1] \in Seq(ToClient) BY <1>1, <4>1, QueueTypes DEF Moved
      <4> QED BY <4>2 DEF Moved, Queues
    <3> QED BY <3>1
  <2>3. n = k => i <= l + 1 BY <2>1
  <2>4. m = k => j <= l + 1 BY <2>1
  <2> HIDE DEF l
  <2> QED BY <1>1, <1>3, <2>0, <2>2, <2>3, <2>4 DEF Order
<1> HIDE DEF sn, si
<1>4. ASSUME NEW a \in ToClient, On(V, a) PROVE On(W, a)
  <2>1. PICK n \in 1..5 : \E i \in DOMAIN V[n] : V[n][i] = a BY <1>4 DEF On
  <2>2. PICK i \in DOMAIN V[n] : V[n][i] = a BY <2>1
  <2> QED BY <1>2, <2>2, OnAt
<1>5. ASSUME NEW a \in ToClient, NEW b \in ToClient, Behind(V, a, b) PROVE Behind(W, a, b)
  <2>1. PICK n \in 1..5, m \in 1..5 : \E i \in DOMAIN V[n], j \in DOMAIN V[m] :
          V[n][i] = a /\ V[m][j] = b /\ Order(n, i, m, j)
    BY <1>5 DEF Behind, Order
  <2>2. PICK i \in DOMAIN V[n], j \in DOMAIN V[m] : V[n][i] = a /\ V[m][j] = b /\ Order(n, i, m, j)
    BY <2>1
  <2>3. /\ sn(n, i) \in 1..5 /\ si(n, i) \in DOMAIN W[sn(n, i)] /\ W[sn(n, i)][si(n, i)] = a
        /\ sn(m, j) \in 1..5 /\ si(m, j) \in DOMAIN W[sn(m, j)] /\ W[sn(m, j)][si(m, j)] = b
    BY <1>2, <2>2
  <2>4. Order(sn(n, i), si(n, i), sn(m, j), si(m, j)) BY <1>3, <2>2
  <2> QED BY <2>3, <2>4, BehindAt
<1> QED BY <1>4, <1>5 DEF Keeps

LEMMA DropsKeep ==
  ASSUME NEW W, NEW V, NEW k \in 1..5, Queues(W), Dropped(W, V, k), NEW x, x = Head(W[k])
  PROVE  /\ Keeps(W, V) /\ On(W, x) /\ x \in ToClient
         /\ \A a \in ToClient : On(V, a) => Behind(W, x, a) \/ (k # 1 /\ Behind(W, a, x))
<1> DEFINE si(n, i) == IF n = k THEN i + 1 ELSE i
<1>1. W[k] \in Seq(ToClient) /\ 1 \in DOMAIN W[k] /\ x = W[k][1] /\ x \in ToClient
  BY QueueItems DEF Queues, Dropped
<1>2. ASSUME NEW n \in 1..5, NEW i \in DOMAIN V[n]
      PROVE  si(n, i) \in DOMAIN W[n] /\ i \in Nat /\ i >= 1 /\ V[n][i] = W[n][si(n, i)]
  <2>1. CASE n = k
    <3>1. i \in DOMAIN Tail(W[k]) /\ V[n][i] = Tail(W[k])[i] BY <2>1 DEF Dropped
    <3>2. i + 1 \in DOMAIN W[k] /\ Tail(W[k])[i] = W[k][i + 1] BY <1>1, <3>1, QueueItems DEF Dropped
    <3>3. i \in Nat /\ i >= 1 BY <1>1, <3>1 DEF Dropped
    <3> QED BY <2>1, <3>1, <3>2, <3>3
  <2>2. CASE n # k
    <3>1. V[n] = W[n] /\ W[n] \in Seq(ToClient) BY <2>2 DEF Dropped, Queues
    <3>2. i \in Nat /\ i >= 1 BY <3>1
    <3> QED BY <2>2, <3>1, <3>2
  <2> QED BY <2>1, <2>2
<1>3. ASSUME NEW n \in 1..5, NEW m \in 1..5, NEW i \in DOMAIN V[n], NEW j \in DOMAIN V[m], Order(n, i, m, j)
      PROVE  Order(n, si(n, i), m, si(m, j))
  <2>1. i \in Nat /\ j \in Nat BY <1>2
  <2> QED BY <1>3, <2>1 DEF Order
<1>4. ASSUME NEW n \in 1..5, NEW i \in DOMAIN V[n]
      PROVE  Order(k, 1, n, si(n, i)) \/ (k # 1 /\ Order(n, si(n, i), k, 1))
  <2>1. i \in Nat /\ i >= 1 BY <1>2
  <2> QED BY <2>1 DEF Order
<1> HIDE DEF si
<1>5. ASSUME NEW a \in ToClient, On(V, a)
      PROVE  On(W, a) /\ (Behind(W, x, a) \/ (k # 1 /\ Behind(W, a, x)))
  <2>1. PICK n \in 1..5 : \E i \in DOMAIN V[n] : V[n][i] = a BY <1>5 DEF On
  <2>2. PICK i \in DOMAIN V[n] : V[n][i] = a BY <2>1
  <2>3. si(n, i) \in DOMAIN W[n] /\ W[n][si(n, i)] = a BY <1>2, <2>2
  <2> QED BY <1>1, <1>4, <2>3, OnAt, BehindAt
<1>6. ASSUME NEW a \in ToClient, NEW b \in ToClient, Behind(V, a, b) PROVE Behind(W, a, b)
  <2>1. PICK n \in 1..5, m \in 1..5 : \E i \in DOMAIN V[n], j \in DOMAIN V[m] :
          V[n][i] = a /\ V[m][j] = b /\ Order(n, i, m, j)
    BY <1>6 DEF Behind, Order
  <2>2. PICK i \in DOMAIN V[n], j \in DOMAIN V[m] : V[n][i] = a /\ V[m][j] = b /\ Order(n, i, m, j)
    BY <2>1
  <2> QED BY <1>2, <1>3, <2>2, BehindAt
<1>7. On(W, x) BY <1>1, OnAt
<1> QED BY <1>1, <1>5, <1>6, <1>7 DEF Keeps

LEMMA AddsOne ==
  ASSUME NEW W, NEW V, NEW k \in 1..5, NEW x, Queues(W), Added(W, V, k, x)
  PROVE  /\ \A a \in ToClient : On(V, a) => On(W, a) \/ a = x
         /\ \A a, b \in ToClient : Behind(V, a, b) =>
              Behind(W, a, b) \/ (k # 5 /\ a = x) \/ (b = x /\ On(W, a))
<1>1. W[k] \in Seq(ToClient) /\ x \in ToClient BY DEF Queues, Added
<1>2. ASSUME NEW n \in 1..5, NEW i \in DOMAIN V[n]
      PROVE  /\ i \in Nat
             /\ \/ i \in DOMAIN W[n] /\ V[n][i] = W[n][i]
                \/ n = k /\ i = Len(W[k]) + 1 /\ V[n][i] = x
  <2>1. CASE n = k
    <3>1. V[n] = Append(W[k], x) BY <2>1 DEF Added
    <3>2. \/ i \in DOMAIN W[k] /\ V[n][i] = W[k][i]
          \/ i = Len(W[k]) + 1 /\ V[n][i] = x
      BY <1>1, <3>1, QueueItems
    <3>3. i \in Nat BY <1>1, <3>1
    <3> QED BY <2>1, <3>2, <3>3
  <2>2. CASE n # k
    <3>1. V[n] = W[n] /\ W[n] \in Seq(ToClient) BY <2>2 DEF Added, Queues
    <3>2. i \in Nat BY <3>1
    <3> QED BY <3>1, <3>2
  <2> QED BY <2>1, <2>2
<1>3. ASSUME NEW a \in ToClient, On(V, a) PROVE On(W, a) \/ a = x
  <2>1. PICK n \in 1..5 : \E i \in DOMAIN V[n] : V[n][i] = a BY <1>3 DEF On
  <2>2. PICK i \in DOMAIN V[n] : V[n][i] = a BY <2>1
  <2> QED BY <1>2, <2>2, OnAt
<1>4. ASSUME NEW a \in ToClient, NEW b \in ToClient, Behind(V, a, b)
      PROVE  Behind(W, a, b) \/ (k # 5 /\ a = x) \/ (b = x /\ On(W, a))
  <2>1. PICK n \in 1..5, m \in 1..5 : \E i \in DOMAIN V[n], j \in DOMAIN V[m] :
          V[n][i] = a /\ V[m][j] = b /\ Order(n, i, m, j)
    BY <1>4 DEF Behind, Order
  <2>2. PICK i \in DOMAIN V[n], j \in DOMAIN V[m] : V[n][i] = a /\ V[m][j] = b /\ Order(n, i, m, j)
    BY <2>1
  <2>3. CASE i \in DOMAIN W[n] /\ V[n][i] = W[n][i] /\ j \in DOMAIN W[m] /\ V[m][j] = W[m][j]
    BY <2>2, <2>3, BehindAt
  <2>4. CASE i \in DOMAIN W[n] /\ V[n][i] = W[n][i] /\ V[m][j] = x
    BY <2>2, <2>4, OnAt
  <2>5. CASE n = k /\ i = Len(W[k]) + 1 /\ V[n][i] = x
    <3>1. k # 5
      <4> SUFFICES ASSUME k = 5 PROVE FALSE OBVIOUS
      <4>1. m = k /\ i < j BY <2>2, <2>5 DEF Order
      <4>2. j \in DOMAIN Append(W[k], x) BY <4>1 DEF Added
      <4>3. j <= Len(W[k]) + 1 BY <1>1, <4>2
      <4>4. j \in Nat /\ Len(W[k]) \in Nat BY <1>1, <1>2
      <4> QED BY <2>5, <4>1, <4>3, <4>4
    <3> QED BY <2>2, <2>5, <3>1
  <2> QED BY <1>2, <2>3, <2>4, <2>5
<1> QED BY <1>3, <1>4

LEMMA EmptiedKeeps ==
  ASSUME NEW W, NEW V, Emptied(W, V)
  PROVE  Keeps(W, V)
<1>1. \A n \in 1..5 : V[n] = W[n] \/ DOMAIN V[n] = {} 
  <2> SUFFICES ASSUME NEW n \in 1..5, V[n] = <<>> PROVE DOMAIN V[n] = {} BY DEF Emptied
  <2> QED OBVIOUS
<1>2. \A n \in 1..5 : \A i \in DOMAIN V[n] : V[n] = W[n] BY <1>1
<1> QED BY <1>2 DEF Keeps, On, Behind

LEMMA WayIs ==
  /\ Way[1] = rx /\ Way[2] = down
  /\ Way[3] = IF open /\ event # <<>> THEN <<event>> ELSE <<>>
  /\ Way[4] = IF open THEN egress ELSE <<>>
  /\ Way[5] = IF open THEN bus ELSE <<>>
  /\ Way'[1] = rx' /\ Way'[2] = down'
  /\ Way'[3] = IF open' /\ event' # <<>> THEN <<event'>> ELSE <<>>
  /\ Way'[4] = IF open' THEN egress' ELSE <<>>
  /\ Way'[5] = IF open' THEN bus' ELSE <<>>
  BY DEF Way

LEMMA WayQueues ==
  ASSUME Types
  PROVE  Queues(Way)
<1>1. \A s \in Seq(Items) : s \in Seq(ToClient) BY DEF ToClient
<1>2. rx \in Seq(ToClient) /\ down \in Seq(ToClient) /\ bus \in Seq(ToClient) /\ egress \in Seq(ToClient)
  BY <1>1 DEF Types
<1>3. event # <<>> => <<event>> \in Seq(ToClient)
  <2>1. event # <<>> => event \in ToClient BY ItemFacts DEF Types
  <2> QED BY <2>1
<1>4. <<>> \in Seq(ToClient) OBVIOUS
<1>5. Way[1] \in Seq(ToClient) /\ Way[2] \in Seq(ToClient) /\ Way[3] \in Seq(ToClient)
      /\ Way[4] \in Seq(ToClient) /\ Way[5] \in Seq(ToClient)
  BY <1>2, <1>3, <1>4, WayIs
<1>6. \A n \in 1..5 : n = 1 \/ n = 2 \/ n = 3 \/ n = 4 \/ n = 5 OBVIOUS
<1> HIDE DEF Way
<1> QED BY <1>5, <1>6 DEF Queues

-----------------------------------------------------------------------------
(* The answers. *)

LEMMA TurnFacts ==
  ASSUME SaidInv, said \in Nat
  PROVE  /\ at = "speak" => CurrentTurn \in 1..Turns /\ TurnBegin \in Nat
                            /\ TurnBegin <= said /\ said < TurnBegin + Turn
         /\ at \in {"await answer", "drain"} =>
              CurrentTurn \in 1..Turns /\ TurnBegin \in Nat /\ said = TurnBegin + Turn
         /\ at = "drain" => CurrentTurn = Turns
         /\ at \in {"connect", "await ready"} => TurnBegin = 0 - Turn /\ said = 0
<1> DEFINE c == CurrentTurn
           u == (c - 1) * Turn
           v == c * Turn
<1>1. ASSUME c \in 1..Turns PROVE u \in Nat /\ v = u + Turn
  <2>1. c - 1 \in Nat /\ c \in Nat BY <1>1, Sizes
  <2> QED BY <2>1, Sizes
<1>2. ASSUME c = 0 PROVE u = 0 - Turn
  <2>1. u = (0 - 1) * Turn BY <1>2
  <2> QED BY <2>1, Sizes
<1>3. /\ at = "speak" => c \in 1..Turns /\ u <= said /\ said < v
      /\ at = "await answer" => c \in 1..Turns /\ said = v
      /\ at = "drain" => c = Turns /\ said = v
      /\ at \in {"connect", "await ready"} => c = 0 /\ said = 0
  BY TurnIs
<1>4. c = Turns => c \in 1..Turns BY Sizes
<1>5. TurnBegin = u BY DEF TurnBegin
<1> HIDE DEF c, u, v
<1>6. ASSUME at = "speak" PROVE c \in 1..Turns /\ u \in Nat /\ u <= said /\ said < u + Turn
  BY <1>1, <1>3, <1>6
<1>7. ASSUME at \in {"await answer", "drain"} PROVE c \in 1..Turns /\ u \in Nat /\ said = u + Turn
  BY <1>1, <1>3, <1>4, <1>7
<1>8. c = CurrentTurn BY DEF c
<1> QED BY <1>2, <1>3, <1>5, <1>6, <1>7, <1>8

\* A step that brings no answer and no end of speech on the way.
News == {"audio", "complete", "ended"}
NoNews(W, V) ==
  /\ \A a \in ToClient : On(V, a) /\ a[1] \in News => On(W, a)
  /\ \A a, b \in ToClient : Behind(V, a, b) /\ a[1] \in News /\ b[1] \in News => Behind(W, a, b)

LEMMA KeepsIsNoNews ==
  \A W, V : Keeps(W, V) => NoNews(W, V)
  BY DEF Keeps, NoNews

LEMMA QuietStep ==
  ASSUME TurnsInv, timedOut' = timedOut, got' = got,
         open' => open /\ at' # "done",
         at' # "done" => at # "done" /\ (InTurn => InTurn') /\ CurrentTurn' = CurrentTurn,
         NoNews(Way, Way'),
         open' => /\ heard' = heard /\ (found' = found \/ ~EndFound')
                  /\ answering' = answering \/ answering' = <<>>
  PROVE  TurnsInv'
<1>1. at' # "done" => TurnBegin' = TurnBegin BY DEF TurnBegin
<1>2. open' => Heard' = Heard /\ (Speaking' <=> Speaking) BY DEF Heard, Speaking, Voiced
<1>3. \A a \in ToClient : a[1] \in {"audio", "complete", "ended"} /\ On(Way', a) => On(Way, a)
  BY DEF NoNews, News
<1>4. \A a, b \in ToClient : a[1] \in {"audio", "complete", "ended"} /\ b[1] \in {"audio", "complete", "ended"}
                             /\ Behind(Way', a, b) => Behind(Way, a, b)
  BY DEF NoNews, News
<1>5. HearInv' BY <1>1, <1>2 DEF TurnsInv, HearInv
<1>6. open' /\ Answered => Answered' BY <1>1, <1>2 DEF Answered
<1>7. AnswersInv'
  <2> SUFFICES ASSUME at' # "done", ~timedOut'
               PROVE  /\ \A a \in ToClient : On(Way', a) /\ a[1] \in {"audio", "complete"} =>
                           a[2] = CurrentTurn' /\ InTurn' /\ (open' => Answered')
                      /\ \A a, b \in ToClient : Behind(Way', a, b) /\ a[1] = "complete" =>
                           b[1] \notin {"audio", "complete"}
    BY DEF AnswersInv
  <2>1. at # "done" /\ ~timedOut /\ AnswersInv BY DEF TurnsInv
  <2>2. ASSUME NEW a \in ToClient, On(Way', a), a[1] \in {"audio", "complete"}
        PROVE  a[2] = CurrentTurn' /\ InTurn' /\ (open' => Answered')
    <3>1. On(Way, a) BY <1>3, <2>2
    <3>2. a[2] = CurrentTurn /\ InTurn /\ (open => Answered) BY <2>1, <2>2, <3>1 DEF AnswersInv
    <3> QED BY <1>6, <3>2
  <2>3. ASSUME NEW a \in ToClient, NEW b \in ToClient, Behind(Way', a, b), a[1] = "complete",
               b[1] \in {"audio", "complete"}
        PROVE  FALSE
    <3>1. Behind(Way, a, b) BY <1>4, <2>3
    <3> QED BY <2>1, <2>3, <3>1 DEF AnswersInv
  <2> QED BY <2>2, <2>3
<1>8. PendingInv'
  <2> SUFFICES ASSUME open', ~timedOut' PROVE PendingInv' BY DEF PendingInv
  <2>0. open /\ ~timedOut /\ PendingInv /\ CurrentTurn' = CurrentTurn BY DEF TurnsInv
  <2>1. EndOnBus' => EndOnBus BY <1>3 DEF EndOnBus
  <2>2. EndFound' => EndFound /\ found' = found BY DEF EndFound
  <2>3. answering' # <<>> => answering # <<>> /\ answering' = answering OBVIOUS
  <2>4. EndFound' \/ EndOnBus' \/ answering' # <<>> =>
          Answered' /\ \A a \in ToClient : On(Way', a) => a[1] # "complete"
    BY <1>3, <1>6, <2>0, <2>1, <2>2, <2>3 DEF PendingInv
  <2>5. EndFound' => found'[2] = CurrentTurn' /\ ~EndOnBus' /\ answering' = <<>>
    BY <2>0, <2>1, <2>2, <2>3 DEF PendingInv
  <2>6. EndOnBus' => answering' = <<>> BY <2>0, <2>1, <2>3 DEF PendingInv
  <2>7. answering' # <<>> => answering'[2] = CurrentTurn' BY <2>0, <2>3 DEF PendingInv
  <2>8. \A a \in ToClient : On(Way', a) /\ a[1] = "ended" => a[2] = CurrentTurn'
    BY <1>3, <2>0 DEF PendingInv
  <2>9. \A a, b \in ToClient : Behind(Way', a, b) => a[1] # "ended" \/ b[1] # "ended"
    BY <1>4, <2>0 DEF PendingInv
  <2> QED BY <2>4, <2>5, <2>6, <2>7, <2>8, <2>9 DEF PendingInv
<1>9. TurnGetsOwnAnswer' BY DEF TurnsInv, TurnGetsOwnAnswer
<1> QED BY <1>5, <1>7, <1>8, <1>9 DEF TurnsInv

\* A step of the server leaves the client's part alone.
LEMMA ServerStep ==
  ASSUME UNCHANGED clientVars
  PROVE  /\ timedOut' = timedOut /\ got' = got /\ at' = at /\ said' = said /\ rx' = rx
         /\ CurrentTurn' = CurrentTurn /\ (InTurn' <=> InTurn) /\ TurnBegin' = TurnBegin
  BY DEF clientVars, CurrentTurn, InTurn, TurnBegin

LEMMA WayEmptied ==
  ASSUME open' => open /\ event' = event /\ egress' = egress /\ bus' = bus,
         rx' = rx, down' = down
  PROVE  NoNews(Way, Way')
<1> DEFINE W == Way
           V == Way'
<1>1. V[1] = W[1] /\ V[2] = W[2] BY WayIs
<1>2. (V[3] = W[3] \/ V[3] = <<>>) /\ (V[4] = W[4] \/ V[4] = <<>>) /\ (V[5] = W[5] \/ V[5] = <<>>)
  BY WayIs
<1> HIDE DEF W, V
<1>3. \A n \in 1..5 : n = 1 \/ n = 2 \/ n = 3 \/ n = 4 \/ n = 5 OBVIOUS
<1>4. Emptied(W, V) BY <1>1, <1>2, <1>3 DEF Emptied
<1>5. NoNews(W, V) BY <1>4, EmptiedKeeps, KeepsIsNoNews
<1> QED BY <1>5 DEF W, V

\* Its stations, one by one.
LEMMA WayMoved ==
  ASSUME Types, NEW k \in 1..4, NEW W, W = Way, NEW V, V = Way', W[k + 1] # <<>>,
         V[k] = Append(W[k], Head(W[k + 1])), V[k + 1] = Tail(W[k + 1]),
         \A n \in 1..5 : n # k /\ n # k + 1 => V[n] = W[n]
  PROVE  NoNews(Way, Way')
<1>1. Queues(W) BY WayQueues
<1>2. Moved(W, V, k) BY DEF Moved
<1> QED BY <1>1, <1>2, MovesKeep, KeepsIsNoNews

LEMMA WayDropped ==
  ASSUME Types, NEW k \in 1..5, NEW W, W = Way, NEW V, V = Way', W[k] # <<>>, V[k] = Tail(W[k]),
         \A n \in 1..5 : n # k => V[n] = W[n]
  PROVE  /\ NoNews(Way, Way')
         /\ Head(W[k]) \in ToClient /\ On(Way, Head(W[k]))
         /\ \A a \in ToClient : On(Way', a) =>
              Behind(Way, Head(W[k]), a) \/ (k # 1 /\ Behind(Way, a, Head(W[k])))
<1>1. Queues(W) BY WayQueues
<1>2. Dropped(W, V, k) BY DEF Dropped
<1> QED BY <1>1, <1>2, DropsKeep, KeepsIsNoNews

\* The handler: what it does to the events on their way.
LEMMA HandlerTurns ==
  ASSUME Types, PlaceInv, TurnsInv, PlaceInv', UNCHANGED clientVars, Server
  PROVE  TurnsInv'
<1>0. open' => at' # "done" BY DEF PlaceInv
<1>1. ASSUME NoNews(Way, Way'), open' => open, heard' = heard, found' = found, answering' = answering
      PROVE  TurnsInv'
  BY <1>0, <1>1, QuietStep, ServerStep
<1>2. ASSUME rx' = rx, down' = down, open' => open, UNCHANGED <<event, egress, bus, heard, found, answering>>
      PROVE  TurnsInv'
  BY <1>1, <1>2, WayEmptied
<1>3. CASE SessionStart \/ StartSession \/ BridgeReceives \/ BridgeLosesClient \/ BridgeFeeds \/ Cancel
  BY <1>2, <1>3, ServerStep DEF SessionStart, StartSession, BridgeReceives, BridgeLosesClient, BridgeFeeds,
    Cancel, Hangs, netVars, bridgeVars, pipeVars
<1>4. CASE \E t \in Tasks : Join(t) \/ JoinTimesOut(t)
  BY <1>2, <1>4, ServerStep DEF Join, JoinTimesOut, Hangs, bridgeVars, pipeVars
<1>5. CASE SendReady
  <2>0. rx' = rx /\ open' = open /\ UNCHANGED <<event, egress, bus, heard, found, answering>>
    BY <1>5, ServerStep DEF SendReady, bridgeVars, pipeVars
  <2>1. CASE down' = down BY <1>2, <2>0, <2>1
  <2>2. CASE down' = Append(down, <<"ready", 0>>)
    <3> DEFINE W == Way
               V == Way'
               x == <<"ready", 0>>
    <3>1. V[1] = W[1] /\ V[2] = Append(W[2], x) /\ V[3] = W[3] /\ V[4] = W[4] /\ V[5] = W[5]
      BY <2>0, <2>2, WayIs
    <3>2. Queues(W) BY WayQueues
    <3>3. x \in ToClient /\ x[1] = "ready" BY ItemFacts
    <3> HIDE DEF W, V, x
    <3>4. Added(W, V, 2, x)
      <4>1. \A n \in 1..5 : n = 1 \/ n = 2 \/ n = 3 \/ n = 4 \/ n = 5 OBVIOUS
      <4> QED BY <3>1, <3>3, <4>1 DEF Added
    <3>5. NoNews(W, V) BY <3>2, <3>3, <3>4, AddsOne DEF NoNews, News
    <3> QED BY <1>1, <2>0, <3>5 DEF W, V
  <2> QED BY <1>5, <2>1, <2>2 DEF SendReady
<1>6. CASE BridgeTakes
  <2>0. /\ rx' = rx /\ down' = down /\ open' = open /\ UNCHANGED <<bus, heard, found, answering>>
        /\ event = <<>> /\ event' = Head(egress) /\ egress' = Tail(egress) /\ egress # <<>>
        /\ event' # <<>>
    BY <1>6, ServerStep DEF BridgeTakes, Goes, netVars, pipeVars, PlaceInv
  <2>1. CASE open
    <3> DEFINE W == Way
               V == Way'
               x == Head(egress)
    <3>1. /\ V[1] = W[1] /\ V[2] = W[2] /\ V[5] = W[5]
          /\ W[3] = <<>> /\ W[4] = egress /\ V[3] = <<x>> /\ V[4] = Tail(egress)
      BY <2>0, <2>1, WayIs
    <3> HIDE DEF W, V
    <3>2. V[3] = Append(W[3], Head(W[4])) /\ V[4] = Tail(W[4]) /\ W[4] # <<>> BY <2>0, <3>1
    <3>3. \A n \in 1..5 : n # 3 /\ n # 4 => n = 1 \/ n = 2 \/ n = 5 OBVIOUS
    <3>4. \A n \in 1..5 : n # 3 /\ n # 4 => V[n] = W[n] BY <3>1, <3>3
    <3> DEFINE k == 3
    <3>5. k \in 1..4 /\ k + 1 = 4 OBVIOUS
    <3>6. V[k] = Append(W[k], Head(W[k + 1])) /\ V[k + 1] = Tail(W[k + 1]) /\ W[k + 1] # <<>>
          /\ \A n \in 1..5 : n # k /\ n # k + 1 => V[n] = W[n]
      BY <3>2, <3>4
    <3> HIDE DEF k
    <3>7. W = Way /\ V = Way' BY DEF W, V
    <3>8. NoNews(Way, Way') BY <3>5, <3>6, <3>7, WayMoved
    <3> QED BY <1>1, <2>0, <3>8
  <2>2. CASE ~open
    <3>1. NoNews(Way, Way') BY <2>0, <2>2, WayEmptied
    <3> QED BY <1>1, <2>0, <3>1
  <2> QED BY <2>1, <2>2
<1>7. CASE BridgeSends
  <2>0. /\ rx' = rx /\ open' = open /\ UNCHANGED <<egress, bus, heard, found, answering>>
        /\ event # <<>> /\ event' = <<>>
        /\ (open => down' = Append(down, event)) /\ (~open => down' = down)
    BY <1>7, ServerStep DEF BridgeSends, Goes, pipeVars, PlaceInv
  <2>1. CASE open
    <3> DEFINE W == Way
               V == Way'
    <3>1. /\ V[1] = W[1] /\ V[4] = W[4] /\ V[5] = W[5]
          /\ W[3] = <<event>> /\ V[3] = <<>> /\ W[2] = down /\ V[2] = Append(down, event)
      BY <2>0, <2>1, WayIs
    <3> HIDE DEF W, V
    <3>2. V[2] = Append(W[2], Head(W[3])) /\ V[3] = Tail(W[3]) /\ W[3] # <<>> BY <3>1
    <3>3. \A n \in 1..5 : n # 2 /\ n # 3 => n = 1 \/ n = 4 \/ n = 5 OBVIOUS
    <3>4. \A n \in 1..5 : n # 2 /\ n # 3 => V[n] = W[n] BY <3>1, <3>3
    <3> DEFINE k == 2
    <3>5. k \in 1..4 /\ k + 1 = 3 OBVIOUS
    <3>6. V[k] = Append(W[k], Head(W[k + 1])) /\ V[k + 1] = Tail(W[k + 1]) /\ W[k + 1] # <<>>
          /\ \A n \in 1..5 : n # k /\ n # k + 1 => V[n] = W[n]
      BY <3>2, <3>4
    <3> HIDE DEF k
    <3>7. W = Way /\ V = Way' BY DEF W, V
    <3>8. NoNews(Way, Way') BY <3>5, <3>6, <3>7, WayMoved
    <3> QED BY <1>1, <2>0, <3>8
  <2>2. CASE ~open
    <3>1. NoNews(Way, Way') BY <2>0, <2>2, WayEmptied
    <3> QED BY <1>1, <2>0, <3>1
  <2> QED BY <2>1, <2>2
<1> QED BY <1>3, <1>4, <1>5, <1>6, <1>7 DEF Server

\* The events of the front end and the orchestrator come in at the last station.
LEMMA BusAdds ==
  ASSUME Types, TypeOK, open, open' = open, UNCHANGED <<rx, down, event, egress>>,
         NEW x \in Items, bus' = Append(bus, x)
  PROVE  /\ \A a \in ToClient : On(Way', a) => On(Way, a) \/ a = x
         /\ \A a, b \in ToClient : Behind(Way', a, b) => Behind(Way, a, b) \/ (b = x /\ On(Way, a))
<1> DEFINE W == Way
           V == Way'
<1>1. V[1] = W[1] /\ V[2] = W[2] /\ V[3] = W[3] /\ V[4] = W[4] /\ V[5] = Append(W[5], x)
  BY WayIs
<1>2. Queues(W) BY WayQueues
<1>3. x \in ToClient BY ItemFacts
<1> HIDE DEF W, V
<1>4. Added(W, V, 5, x)
  <2>1. \A n \in 1..5 : n = 1 \/ n = 2 \/ n = 3 \/ n = 4 \/ n = 5 OBVIOUS
  <2> QED BY <1>1, <1>3, <2>1 DEF Added
<1>5. /\ \A a \in ToClient : On(V, a) => On(W, a) \/ a = x
      /\ \A a, b \in ToClient : Behind(V, a, b) => Behind(W, a, b) \/ (b = x /\ On(W, a))
  <2> DEFINE k == 5
  <2>1. k \in 1..5 /\ k = 5 OBVIOUS
  <2>2. Added(W, V, k, x) BY <1>4
  <2> HIDE DEF k
  <2>3. /\ \A a \in ToClient : On(V, a) => On(W, a) \/ a = x
        /\ \A a, b \in ToClient : Behind(V, a, b) =>
             Behind(W, a, b) \/ (k # 5 /\ a = x) \/ (b = x /\ On(W, a))
    BY <1>2, <2>1, <2>2, AddsOne
  <2> QED BY <2>1, <2>3
<1> QED BY <1>5 DEF W, V

\* Without a connection the pipeline goes on for itself.
LEMMA AloneTurns ==
  ASSUME Types, PlaceInv, TurnsInv, PlaceInv', UNCHANGED clientVars, ~open,
         FrontEnd \/ Orchestrate \/ Speak \/ \E t \in Tasks : TaskEnds(t)
  PROVE  TurnsInv'
<1>1. open' = open /\ rx' = rx /\ down' = down
  BY ServerStep DEF FrontEnd, FrontTakes, FrontSends, VadLast, Orchestrate, Speak, TaskEnds, netVars
<1>2. NoNews(Way, Way') BY <1>1, WayEmptied
<1> QED BY <1>1, <1>2, QuietStep, ServerStep

\* The parts of TurnsInv while the connection is up and no answer came too late.
LEMMA TurnsParts ==
  ASSUME HearInv, PendingInv, AnswersInv, open, ~timedOut, at # "done"
  PROVE  /\ TurnBegin + Speech <= Heard + Turn
         /\ Speaking => TurnBegin + FrameSamples <= Heard
         /\ \A a \in ToClient : On(Way, a) /\ a[1] \in {"audio", "complete"} =>
              a[2] = CurrentTurn /\ InTurn /\ Answered
         /\ \A a, b \in ToClient : Behind(Way, a, b) /\ a[1] = "complete" =>
              b[1] \notin {"audio", "complete"}
         /\ EndFound \/ EndOnBus \/ answering # <<>> =>
              Answered /\ \A a \in ToClient : On(Way, a) => a[1] # "complete"
         /\ EndFound => found[2] = CurrentTurn /\ ~EndOnBus /\ answering = <<>>
         /\ EndOnBus => answering = <<>>
         /\ answering # <<>> => answering[2] = CurrentTurn
         /\ \A a \in ToClient : On(Way, a) /\ a[1] = "ended" => a[2] = CurrentTurn
         /\ \A a, b \in ToClient : Behind(Way, a, b) => a[1] # "ended" \/ b[1] # "ended"
  BY DEF HearInv, PendingInv, AnswersInv

\* Once an answer came too late, nothing more is claimed.
LEMMA LateTurns ==
  ASSUME timedOut' 
  PROVE  TurnsInv'
  BY DEF TurnsInv, HearInv, AnswersInv, PendingInv, TurnGetsOwnAnswer

\* A frame the front end has yet to hear is of the client's turn, or of the silence before.
LEMMA FrameInTurn ==
  ASSUME SaidInv, TypeOK, said \in Nat, at # "done", NEW h \in Nat, h < said,
         TurnBegin + Speech <= h + Turn
  PROVE  /\ InTurn /\ CurrentTurn \in 1..Turns /\ TurnBegin \in Nat
         /\ TurnBegin <= h => h \div Turn = CurrentTurn - 1 /\ h % Turn = h - TurnBegin
         /\ h < TurnBegin => ~(h % Turn < Speech)
<1>1. InTurn
  <2>1. at \in {"connect", "await ready"} => said = 0 BY TurnFacts
  <2>2. said # 0 OBVIOUS
  <2>3. at \notin {"connect", "await ready"} BY <2>1, <2>2
  <2> QED BY <2>3 DEF TypeOK, InTurn
<1>2. /\ CurrentTurn \in 1..Turns /\ TurnBegin \in Nat /\ said <= TurnBegin + Turn
  <2>1. CASE at = "speak"
    <3>1. CurrentTurn \in 1..Turns /\ TurnBegin \in Nat /\ said < TurnBegin + Turn BY <2>1, TurnFacts
    <3> QED BY <3>1, Sizes
  <2>2. CASE at \in {"await answer", "drain"}
    <3>1. CurrentTurn \in 1..Turns /\ TurnBegin \in Nat /\ said = TurnBegin + Turn BY <2>2, TurnFacts
    <3> QED BY <3>1, Sizes
  <2> QED BY <1>1, <2>1, <2>2 DEF InTurn
<1> DEFINE c == CurrentTurn - 1
           t == TurnBegin
<1>3. c \in Nat /\ t \in Nat BY <1>2, Sizes
<1>4. t = c * Turn BY DEF TurnBegin
<1> HIDE DEF c, t
<1>5. h < t + Turn /\ t + Speech <= h + Turn BY <1>2, <1>3, Sizes DEF t
<1>6. ASSUME t <= h PROVE h \div Turn = c /\ h % Turn = h - t
  <2> DEFINE r == h - t
  <2>1. r \in 0..(Turn - 1) BY <1>3, <1>5, <1>6, Sizes
  <2>2. h = t + r BY <1>3, <1>6
  <2> HIDE DEF r
  <2>3. h = c * Turn + r BY <1>4, <2>2
  <2>4. h \div Turn = c /\ h % Turn = r BY <1>3, <2>1, <2>3, DivUnique, Sizes
  <2> QED BY <2>4 DEF r
<1>7. ASSUME h < t PROVE ~(h % Turn < Speech)
  <2>1. c >= 1
    <3> SUFFICES ASSUME c = 0 PROVE FALSE BY <1>3
    <3>1. t = 0 BY <1>4, Sizes
    <3> QED BY <1>7, <3>1
  <2> DEFINE d == c - 1
             r == h + Turn - t
  <2>2. d \in Nat BY <1>3, <2>1
  <2>3. d * Turn = t - Turn
    <3>1. (c - 1) * Turn = c * Turn - Turn BY <1>3, Sizes
    <3> QED BY <1>4, <3>1
  <2>4. r \in 0..(Turn - 1) /\ r >= Speech /\ h = (t - Turn) + r BY <1>3, <1>5, <1>7, Sizes
  <2> HIDE DEF d, r
  <2>5. h = d * Turn + r BY <2>3, <2>4
  <2>6. h % Turn = r BY <2>2, <2>4, <2>5, DivUnique, Sizes
  <2>7. r \in Nat BY <2>4
  <2> QED BY <2>4, <2>6, <2>7, Sizes
<1> QED BY <1>1, <1>2, <1>6, <1>7 DEF c, t

LEMMA FrontTakesTurns ==
  ASSUME Types, TypeOK, PlaceInv, SaidInv, DecodeInv, TurnsInv, Types', UNCHANGED clientVars, open,
         FrontTakes
  PROVE  TurnsInv'
<1>1. CASE timedOut BY <1>1, LateTurns, ServerStep
<1>2. CASE ~timedOut
  <2>0. at # "done" /\ at' # "done" /\ open' = open BY ServerStep DEF PlaceInv, FrontTakes, netVars
  <2>1. HearInv /\ PendingInv /\ AnswersInv BY DEF TurnsInv
  <2>2. Way' = Way
    <3>1. rx' = rx /\ UNCHANGED <<down, open, event, egress, bus>>
      BY ServerStep DEF FrontTakes, netVars, bridgeVars
    <3> QED BY <3>1 DEF Way
  <2> DEFINE i == Len(heard) + 1
             h == Heard
             f == Head(audio)
  <2>3. i \in DOMAIN Framed /\ f = Framed[i] /\ Len(heard) \in Nat BY FrontFrames DEF FrontTakes
  <2>4. h = (i - 1) * FrameSamples BY <2>3, Sizes DEF Heard
  <2>5. /\ h \in Nat /\ h < said /\ h + FrameSamples = i * FrameSamples
        /\ Utterance(f) = (h \div Turn) + 1 /\ (Voiced(f) <=> h % Turn < Speech)
    <3> HIDE DEF i, h
    <3> QED BY <2>3, <2>4, FrameFacts
  <2>6. heard' = Append(heard, f) BY DEF FrontTakes
  <2>7. Heard' = h + FrameSamples
    <3>1. heard \in Seq(AudioFrames) /\ f \in AudioFrames
      <4>1. audio \in Seq(AudioFrames) /\ audio # <<>> BY DEF Types, FrontTakes
      <4> QED BY <4>1, QueueTypes DEF Types
    <3>2. Len(heard') = i BY <2>6, <3>1
    <3> QED BY <2>5, <3>2 DEF Heard
  <2>8. Speaking' <=> Voiced(f)
    <3>1. heard \in Seq(AudioFrames) /\ f \in AudioFrames
      <4>1. audio \in Seq(AudioFrames) /\ audio # <<>> BY DEF Types, FrontTakes
      <4> QED BY <4>1, QueueTypes DEF Types
    <3>2. heard' # <<>> /\ Last(heard') = f BY <2>6, <3>1 DEF Last
    <3> QED BY <3>2 DEF Speaking, Voiced
  <2> HIDE DEF i, h, f
  <2>9. /\ TurnBegin + Speech <= h + Turn /\ (Speaking => TurnBegin + FrameSamples <= h)
    BY <1>2, <2>0, <2>1, TurnsParts DEF h
  <2>10. /\ InTurn /\ CurrentTurn \in 1..Turns /\ TurnBegin \in Nat
         /\ TurnBegin <= h => h \div Turn = CurrentTurn - 1 /\ h % Turn = h - TurnBegin
         /\ h < TurnBegin => ~(h % Turn < Speech)
    <3>1. said \in Nat BY DEF Types
    <3> QED BY <2>0, <2>5, <2>9, <3>1, FrameInTurn
  <2>11. /\ CurrentTurn' = CurrentTurn /\ TurnBegin' = TurnBegin /\ (InTurn' <=> InTurn)
         /\ timedOut' = timedOut /\ got' = got
    BY ServerStep
  <2>12. UNCHANGED <<bus, answering>> /\ found = <<>> BY DEF FrontTakes
  <2>13. EndOnBus' = EndOnBus BY <2>2 DEF EndOnBus
  <2>14. HearInv'
    <3>1. TurnBegin + Speech <= h + FrameSamples + Turn BY <2>5, <2>9, <2>10, Sizes
    <3>2. Voiced(f) => TurnBegin <= h
      <4>1. h < TurnBegin => ~Voiced(f) BY <2>5, <2>10
      <4> QED BY <2>5, <2>10, <4>1
    <3>3. Voiced(f) => TurnBegin + FrameSamples <= h + FrameSamples BY <2>5, <2>10, <3>2, Sizes
    <3> QED BY <2>7, <2>8, <2>11, <3>1, <3>3 DEF HearInv
  <2>15. ASSUME Answered
         PROVE  /\ Answered'
                /\ found' = <<>>
    <3>1. ~Speaking /\ TurnBegin + Speech <= h BY <2>15 DEF Answered, h
    <3>2. ~Voiced(f)
      <4>1. TurnBegin <= h BY <2>5, <2>10, <3>1, Sizes
      <4>2. h % Turn = h - TurnBegin BY <2>10, <4>1
      <4>3. ~(h % Turn < Speech) BY <2>5, <2>10, <3>1, <4>2, Sizes
      <4> QED BY <2>5, <4>3
    <3>3. TurnBegin + Speech <= h + FrameSamples BY <2>5, <2>10, <3>1, Sizes
    <3>4. Answered' BY <2>7, <2>8, <2>10, <2>11, <3>2, <3>3 DEF Answered
    <3>5. found' = <<>>
      <4>1. Speaking \in BOOLEAN /\ Voiced(f) \in BOOLEAN BY DEF Speaking, Voiced
      <4>2. Voiced(f) = Speaking BY <3>1, <3>2, <4>1
      <4> QED BY <4>2 DEF FrontTakes, f
    <3> QED BY <3>4, <3>5
  <2>16. AnswersInv'
    <3>1. AnswersInv /\ at # "done" /\ ~timedOut BY <1>2, <2>0, <2>1
    <3>2. \A a \in ToClient : On(Way', a) /\ a[1] \in {"audio", "complete"} =>
            a[2] = CurrentTurn' /\ InTurn' /\ Answered'
      BY <2>2, <2>11, <2>15, <3>1 DEF AnswersInv
    <3>3. \A a, b \in ToClient : Behind(Way', a, b) /\ a[1] = "complete" => b[1] \notin {"audio", "complete"}
      BY <2>2, <3>1 DEF AnswersInv
    <3> QED BY <3>2, <3>3 DEF AnswersInv
  <2>17. CASE Answered
    <3>1. found' = found /\ Answered' BY <2>12, <2>15, <2>17
    <3>2. EndFound' = EndFound BY <3>1 DEF EndFound
    <3>3. PendingInv' BY <1>2, <2>0, <2>1, <2>2, <2>11, <2>12, <2>13, <3>1, <3>2 DEF PendingInv
    <3> QED BY <2>11, <2>14, <2>16, <3>3 DEF TurnsInv, TurnGetsOwnAnswer
  <2>18. CASE ~Answered
    <3>1. ~EndOnBus /\ answering = <<>> /\ \A a \in ToClient : On(Way, a) => a[1] # "complete"
      BY <1>2, <2>0, <2>1, <2>18, TurnsParts
    <3>2. EndFound' => Answered' /\ found'[2] = CurrentTurn'
      <4> SUFFICES ASSUME EndFound' PROVE Answered' /\ found'[2] = CurrentTurn' OBVIOUS
      <4>1. ~Voiced(f) /\ Speaking /\ found' = <<"ended", Utterance(f)>>
        <5>1. found' # <<>> /\ found'[1] = "ended" BY DEF EndFound
        <5>2. found' = IF Voiced(f) = Speaking THEN <<>>
                       ELSE <<IF Speaking THEN "ended" ELSE "started", Utterance(f)>>
          BY DEF FrontTakes, f
        <5>3. Speaking
          <6> SUFFICES ASSUME ~Speaking PROVE FALSE OBVIOUS
          <6>1. found' = <<"started", Utterance(f)>> BY <5>1, <5>2
          <6> QED BY <5>1, <6>1
        <5>4. ~Voiced(f) /\ found' = <<"ended", Utterance(f)>> BY <5>1, <5>2, <5>3
        <5> QED BY <5>3, <5>4
      <4>2. TurnBegin + FrameSamples <= h BY <2>9, <4>1
      <4>3. TurnBegin <= h BY <2>5, <2>10, <4>2, Sizes
      <4>4. Utterance(f) = CurrentTurn
        <5>1. Utterance(f) = (h \div Turn) + 1 /\ h \div Turn = CurrentTurn - 1 BY <2>5, <2>10, <4>3
        <5> QED BY <2>10, <5>1, Sizes
      <4>5. ~(h - TurnBegin < Speech) BY <2>5, <2>10, <4>1, <4>3
      <4>6. TurnBegin + Speech <= h + FrameSamples BY <2>5, <2>10, <4>5, Sizes
      <4>7. Answered' BY <2>7, <2>8, <2>10, <2>11, <4>1, <4>6 DEF Answered
      <4> QED BY <2>11, <4>1, <4>4, <4>7
    <3>3. EndFound' \/ EndOnBus' \/ answering' # <<>> =>
            Answered' /\ \A a \in ToClient : On(Way', a) => a[1] # "complete"
      BY <2>2, <2>12, <2>13, <3>1, <3>2
    <3>4. /\ EndFound' => found'[2] = CurrentTurn' /\ ~EndOnBus' /\ answering' = <<>>
          /\ EndOnBus' => answering' = <<>>
          /\ answering' # <<>> => answering'[2] = CurrentTurn'
      BY <2>12, <2>13, <3>1, <3>2
    <3>5. /\ \A a \in ToClient : On(Way', a) /\ a[1] = "ended" => a[2] = CurrentTurn'
          /\ \A a, b \in ToClient : Behind(Way', a, b) => a[1] # "ended" \/ b[1] # "ended"
      BY <1>2, <2>0, <2>1, <2>2, <2>11, TurnsParts
    <3>6. PendingInv' BY <3>3, <3>4, <3>5 DEF PendingInv
    <3> QED BY <2>11, <2>14, <2>16, <3>6 DEF TurnsInv, TurnGetsOwnAnswer
  <2> QED BY <2>17, <2>18
<1> QED BY <1>1, <1>2

\* What the parts of TurnsInv are about, in a step of the pipeline.
LEMMA PipelineStep ==
  ASSUME UNCHANGED clientVars, heard' = heard, open' = open, TurnsInv
  PROVE  /\ CurrentTurn' = CurrentTurn /\ TurnBegin' = TurnBegin /\ (InTurn' <=> InTurn)
         /\ timedOut' = timedOut /\ got' = got /\ rx' = rx /\ at' = at
         /\ Heard' = Heard /\ (Speaking' <=> Speaking) /\ (Answered' <=> Answered)
         /\ HearInv' /\ TurnGetsOwnAnswer'
<1>1. /\ CurrentTurn' = CurrentTurn /\ TurnBegin' = TurnBegin /\ (InTurn' <=> InTurn)
      /\ timedOut' = timedOut /\ got' = got /\ rx' = rx /\ at' = at
  BY ServerStep
<1>2. Heard' = Heard /\ (Speaking' <=> Speaking) /\ (Answered' <=> Answered)
  BY <1>1 DEF Heard, Speaking, Voiced, Answered
<1>3. HearInv' /\ TurnGetsOwnAnswer' BY <1>1, <1>2 DEF TurnsInv, HearInv, TurnGetsOwnAnswer
<1> QED BY <1>1, <1>2, <1>3

LEMMA FrontSendsTurns ==
  ASSUME TypeOK, Types, PlaceInv, PlaceInv', TurnsInv, UNCHANGED clientVars, open, FrontSends
  PROVE  TurnsInv'
<1>0. /\ open' = open /\ at # "done" /\ at' # "done" /\ rx' = rx
      /\ UNCHANGED <<down, event, egress, heard, answering>>
      /\ found \in Found /\ found' = <<>> /\ bus' = Append(bus, found)
  BY ServerStep DEF FrontSends, netVars, bridgeVars, PlaceInv, Types
<1>1. found \in Items /\ found \in ToClient /\ found[1] \in {"started", "ended"} /\ found # <<>>
  BY <1>0, ItemFacts
<1>2. /\ \A a \in ToClient : On(Way', a) => On(Way, a) \/ a = found
      /\ \A a, b \in ToClient : Behind(Way', a, b) => Behind(Way, a, b) \/ (b = found /\ On(Way, a))
  BY <1>0, <1>1, BusAdds
<1>3. /\ CurrentTurn' = CurrentTurn /\ (InTurn' <=> InTurn) /\ timedOut' = timedOut /\ got' = got
      /\ (Answered' <=> Answered) /\ HearInv' /\ TurnGetsOwnAnswer'
  BY <1>0, PipelineStep
<1>4. ~EndFound' BY <1>0 DEF EndFound
<1>5. CASE found[1] = "started"
  <2>1. NoNews(Way, Way') BY <1>2, <1>5 DEF NoNews, News
  <2> QED BY <1>0, <1>3, <1>4, <2>1, QuietStep
<1>6. CASE found[1] = "ended" /\ timedOut BY <1>3, <1>6, LateTurns
<1>7. CASE found[1] = "ended" /\ ~timedOut
  <2>1. HearInv /\ PendingInv /\ AnswersInv BY DEF TurnsInv
  <2>2. EndFound BY <1>1, <1>7 DEF EndFound
  <2>3. /\ Answered /\ \A a \in ToClient : On(Way, a) => a[1] # "complete"
        /\ found[2] = CurrentTurn /\ ~EndOnBus /\ answering = <<>>
    BY <1>0, <1>7, <2>1, <2>2, TurnsParts
  <2>4. \A a \in ToClient : On(Way, a) => a[1] # "ended" BY <2>3 DEF EndOnBus
  <2>5. AnswersInv'
    <3>1. \A a \in ToClient : On(Way', a) /\ a[1] \in {"audio", "complete"} =>
            a[2] = CurrentTurn' /\ InTurn' /\ Answered'
      BY <1>0, <1>2, <1>3, <1>7, <2>1 DEF AnswersInv
    <3>2. \A a, b \in ToClient : Behind(Way', a, b) /\ a[1] = "complete" => b[1] \notin {"audio", "complete"}
      BY <1>0, <1>2, <1>7, <2>1 DEF AnswersInv
    <3> QED BY <3>1, <3>2 DEF AnswersInv
  <2>6. PendingInv'
    <3>1. Answered' /\ \A a \in ToClient : On(Way', a) => a[1] # "complete" BY <1>2, <1>3, <1>7, <2>3
    <3>2. answering' = <<>> BY <1>0, <2>3
    <3>3. \A a \in ToClient : On(Way', a) /\ a[1] = "ended" => a[2] = CurrentTurn'
      BY <1>2, <1>3, <2>3, <2>4
    <3>4. \A a, b \in ToClient : Behind(Way', a, b) => a[1] # "ended" \/ b[1] # "ended"
      <4>1. \A a, b \in ToClient : Behind(Way, a, b) => a[1] # "ended" \/ b[1] # "ended"
        BY <1>0, <1>7, <2>1, TurnsParts
      <4> QED BY <1>2, <2>4, <4>1
    <3> QED BY <1>4, <3>1, <3>2, <3>3, <3>4 DEF PendingInv
  <2> QED BY <1>3, <2>5, <2>6 DEF TurnsInv
<1> QED BY <1>1, <1>5, <1>6, <1>7

LEMMA SpeakTurns ==
  ASSUME TypeOK, Types, PlaceInv, TurnsInv, UNCHANGED clientVars, open, Speak
  PROVE  TurnsInv'
<1> DEFINE x == answering
<1>0. /\ open' = open /\ at # "done" /\ rx' = rx
      /\ UNCHANGED <<down, event, egress, heard, found>>
      /\ x \in {"audio", "complete"} \X (1..Turns) /\ x # <<>> /\ bus' = Append(bus, x)
      /\ answering' = IF x[1] = "audio" THEN <<"complete", x[2]>> ELSE <<>>
  BY ServerStep DEF Speak, netVars, bridgeVars, PlaceInv, Types
<1>1. x \in Items /\ x \in ToClient /\ x[1] \in {"audio", "complete"} BY <1>0, ItemFacts DEF Items
<1>2. /\ \A a \in ToClient : On(Way', a) => On(Way, a) \/ a = x
      /\ \A a, b \in ToClient : Behind(Way', a, b) => Behind(Way, a, b) \/ (b = x /\ On(Way, a))
  BY <1>0, <1>1, BusAdds
<1>3. /\ CurrentTurn' = CurrentTurn /\ (InTurn' <=> InTurn) /\ timedOut' = timedOut /\ got' = got
      /\ (Answered' <=> Answered) /\ HearInv' /\ TurnGetsOwnAnswer'
  BY <1>0, PipelineStep
<1>4. CASE timedOut BY <1>3, <1>4, LateTurns
<1>5. CASE ~timedOut
  <2>1. HearInv /\ PendingInv /\ AnswersInv BY DEF TurnsInv
  <2>2. /\ Answered /\ \A a \in ToClient : On(Way, a) => a[1] # "complete"
        /\ x[2] = CurrentTurn /\ ~EndOnBus /\ ~EndFound
    BY <1>0, <1>5, <2>1, TurnsParts
  <2>3. \A a \in ToClient : On(Way, a) => a[1] # "ended" BY <2>2 DEF EndOnBus
  <2> HIDE DEF x
  <2>4. AnswersInv'
    <3>1. \A a \in ToClient : On(Way', a) /\ a[1] \in {"audio", "complete"} =>
            a[2] = CurrentTurn' /\ InTurn' /\ Answered'
      <4>1. \A a \in ToClient : On(Way, a) /\ a[1] \in {"audio", "complete"} => a[2] = CurrentTurn
        BY <1>0, <1>5, <2>1 DEF AnswersInv
      <4>2. InTurn BY <2>2 DEF Answered
      <4> QED BY <1>2, <1>3, <2>2, <4>1, <4>2
    <3>2. \A a, b \in ToClient : Behind(Way', a, b) /\ a[1] = "complete" => b[1] \notin {"audio", "complete"}
      <4>1. \A a, b \in ToClient : Behind(Way, a, b) /\ a[1] = "complete" => b[1] \notin {"audio", "complete"}
        BY <1>0, <1>5, <2>1 DEF AnswersInv
      <4> QED BY <1>2, <2>2, <4>1
    <3> QED BY <3>1, <3>2 DEF AnswersInv
  <2>5. PendingInv'
    <3>1. ~EndFound' BY <1>0, <2>2 DEF EndFound
    <3>2. \A a \in ToClient : On(Way', a) => a[1] # "ended" BY <1>1, <1>2, <2>3
    <3>3. ~EndOnBus' BY <3>2 DEF EndOnBus
    <3>4. \A a, b \in ToClient : Behind(Way', a, b) => a[1] # "ended" \/ b[1] # "ended"
      <4>1. \A a, b \in ToClient : Behind(Way, a, b) => a[1] # "ended" \/ b[1] # "ended"
        BY <1>0, <1>5, <2>1, TurnsParts
      <4> QED BY <1>1, <1>2, <4>1
    <3>5. CASE x[1] = "audio"
      <4>1. answering'[2] = CurrentTurn' BY <1>0, <1>3, <2>2, <3>5
      <4>2. \A a \in ToClient : On(Way', a) => a[1] # "complete" BY <1>2, <2>2, <3>5
      <4> QED BY <1>3, <2>2, <3>1, <3>2, <3>3, <3>4, <4>1, <4>2 DEF PendingInv
    <3>6. CASE x[1] = "complete"
      <4>1. answering' = <<>> BY <1>0, <3>6
      <4> QED BY <3>1, <3>2, <3>3, <3>4, <4>1 DEF PendingInv
    <3> QED BY <1>1, <3>5, <3>6
  <2> QED BY <1>3, <2>4, <2>5 DEF TurnsInv
<1> QED BY <1>4, <1>5

LEMMA OrchestrateTurns ==
  ASSUME TypeOK, Types, PlaceInv, PlaceInv', TurnsInv, UNCHANGED clientVars, open, Orchestrate
  PROVE  TurnsInv'
<1> DEFINE x == Head(bus)
<1>0. /\ open' = open /\ at # "done" /\ at' # "done" /\ rx' = rx
      /\ UNCHANGED <<down, event, heard, found>>
      /\ bus \in Seq(Items) /\ bus # <<>> /\ bus' = Tail(bus) /\ pc # "closed"
  BY ServerStep DEF Orchestrate, netVars, bridgeVars, PlaceInv, Types, Reading
<1>1. x \in Items /\ x \in ToClient BY <1>0, QueueTypes, ItemFacts
<1>2. /\ CurrentTurn' = CurrentTurn /\ (InTurn' <=> InTurn) /\ timedOut' = timedOut /\ got' = got
      /\ (Answered' <=> Answered) /\ HearInv' /\ TurnGetsOwnAnswer'
  BY <1>0, PipelineStep
<1>3. CASE x[1] # "ended"
  <2>1. egress' = Append(egress, x) /\ (answering' = answering \/ answering' = <<>>)
    BY <1>0, <1>3 DEF Orchestrate, NeedsEgress
  <2>2. NoNews(Way, Way')
    <3> DEFINE W == Way
               V == Way'
    <3>1. /\ V[1] = W[1] /\ V[2] = W[2] /\ V[3] = W[3]
          /\ W[4] = egress /\ V[4] = Append(egress, x) /\ W[5] = bus /\ V[5] = Tail(bus)
      BY <1>0, <2>1, WayIs
    <3> HIDE DEF W, V
    <3>2. V[4] = Append(W[4], Head(W[5])) /\ V[5] = Tail(W[5]) /\ W[5] # <<>> BY <1>0, <3>1
    <3>3. \A n \in 1..5 : n # 4 /\ n # 5 => n = 1 \/ n = 2 \/ n = 3 OBVIOUS
    <3>4. \A n \in 1..5 : n # 4 /\ n # 5 => V[n] = W[n] BY <3>1, <3>3
    <3> DEFINE k == 4
    <3>5. k \in 1..4 /\ k + 1 = 5 OBVIOUS
    <3>6. V[k] = Append(W[k], Head(W[k + 1])) /\ V[k + 1] = Tail(W[k + 1]) /\ W[k + 1] # <<>>
          /\ \A n \in 1..5 : n # k /\ n # k + 1 => V[n] = W[n]
      BY <3>2, <3>4
    <3> HIDE DEF k
    <3>7. W = Way /\ V = Way' BY DEF W, V
    <3> QED BY <3>5, <3>6, <3>7, WayMoved
  <2> QED BY <1>0, <1>2, <2>1, <2>2, QuietStep
<1>4. CASE x[1] = "ended" /\ timedOut BY <1>2, <1>4, LateTurns
<1>5. CASE x[1] = "ended" /\ ~timedOut
  <2>1. egress' = egress /\ answering' \in {<<"audio", x[2]>>, <<>>}
    BY <1>0, <1>5 DEF Orchestrate, NeedsEgress
  <2>2. /\ NoNews(Way, Way') /\ On(Way, x)
        /\ \A a \in ToClient : On(Way', a) => Behind(Way, x, a) \/ Behind(Way, a, x)
    <3> DEFINE W == Way
               V == Way'
    <3>1. /\ V[1] = W[1] /\ V[2] = W[2] /\ V[3] = W[3] /\ V[4] = W[4]
          /\ W[5] = bus /\ V[5] = Tail(bus)
      BY <1>0, <2>1, WayIs
    <3> HIDE DEF W, V
    <3>2. V[5] = Tail(W[5]) /\ W[5] # <<>> /\ Head(W[5]) = x BY <1>0, <3>1
    <3>3. \A n \in 1..5 : n # 5 => n = 1 \/ n = 2 \/ n = 3 \/ n = 4 OBVIOUS
    <3>4. \A n \in 1..5 : n # 5 => V[n] = W[n] BY <3>1, <3>3
    <3> DEFINE k == 5
    <3>5. k \in 1..5 OBVIOUS
    <3>6. /\ V[k] = Tail(W[k]) /\ W[k] # <<>> /\ Head(W[k]) = x
          /\ \A n \in 1..5 : n # k => V[n] = W[n]
      BY <3>2, <3>4
    <3> HIDE DEF k, x
    <3>7. W = Way /\ V = Way' BY DEF W, V
    <3> QED BY <3>5, <3>6, <3>7, WayDropped
  <2>3. HearInv /\ PendingInv /\ AnswersInv BY DEF TurnsInv
  <2>4. EndOnBus BY <1>1, <1>5, <2>2 DEF EndOnBus
  <2> HIDE DEF x
  <2>5. /\ Answered /\ \A a \in ToClient : On(Way, a) => a[1] # "complete"
        /\ ~EndFound /\ x[2] = CurrentTurn
        /\ \A a, b \in ToClient : Behind(Way, a, b) => a[1] # "ended" \/ b[1] # "ended"
    BY <1>0, <1>1, <1>5, <2>2, <2>3, <2>4, TurnsParts
  <2>6. \A a \in ToClient : On(Way', a) => a[1] # "ended" BY <1>1, <1>5, <2>2, <2>5
  <2>7. AnswersInv'
    <3>1. \A a \in ToClient : On(Way', a) /\ a[1] \in {"audio", "complete"} =>
            a[2] = CurrentTurn' /\ InTurn' /\ Answered'
      <4>1. \A a \in ToClient : On(Way', a) /\ a[1] \in {"audio", "complete"} => On(Way, a)
        BY <2>2 DEF NoNews, News
      <4> QED BY <1>0, <1>2, <1>5, <2>3, <4>1 DEF AnswersInv
    <3>2. \A a, b \in ToClient : Behind(Way', a, b) /\ a[1] = "complete" => b[1] \notin {"audio", "complete"}
      <4>1. \A a, b \in ToClient : Behind(Way', a, b) /\ a[1] = "complete" /\ b[1] \in {"audio", "complete"}
              => Behind(Way, a, b)
        BY <2>2 DEF NoNews, News
      <4> QED BY <1>0, <1>5, <2>3, <4>1 DEF AnswersInv
    <3> QED BY <3>1, <3>2 DEF AnswersInv
  <2>8. PendingInv'
    <3>1. ~EndFound' BY <1>0, <2>5 DEF EndFound
    <3>2. ~EndOnBus' BY <2>6 DEF EndOnBus
    <3>3. \A a \in ToClient : On(Way', a) => a[1] # "complete" BY <2>2, <2>5 DEF NoNews, News
    <3>4. answering' # <<>> => answering'[2] = CurrentTurn' BY <1>2, <2>1, <2>5
    <3>5. \A a, b \in ToClient : Behind(Way', a, b) => a[1] # "ended" \/ b[1] # "ended"
      <4>1. \A a, b \in ToClient : Behind(Way', a, b) /\ a[1] = "ended" /\ b[1] = "ended" => Behind(Way, a, b)
        BY <2>2 DEF NoNews, News
      <4> QED BY <2>5, <4>1
    <3>6. EndFound' \/ EndOnBus' \/ answering' # <<>> =>
            Answered' /\ \A a \in ToClient : On(Way', a) => a[1] # "complete"
      BY <1>2, <2>5, <3>3
    <3> QED BY <2>6, <3>1, <3>2, <3>4, <3>5, <3>6 DEF PendingInv
  <2>9. TurnGetsOwnAnswer' BY <1>2
  <2> QED BY <1>2, <2>7, <2>8, <2>9 DEF TurnsInv
<1> QED BY <1>3, <1>4, <1>5

\* The client goes on with its turn.
LEMMA SpeaksOn ==
  ASSUME SaidInv, said \in Nat, ClientSpeaks, said' = said + Len(NextMessage)
  PROVE  CurrentTurn' = CurrentTurn /\ InTurn /\ InTurn' /\ at # "done" /\ at' # "done"
<1> DEFINE n == Len(NextMessage)
<1>1. at = "speak" BY DEF ClientSpeaks
<1>2. PICK k \in 0..(Turns - 1), r \in 1..Turn : said + n = k * Turn + r /\ CurrentTurn = k + 1
  BY <1>1, NextIs
<1>3. said' = k * Turn + r /\ k \in Nat BY <1>2, Sizes
<1>4. n \in Nat BY <1>1, NextIs, Sizes
<1> HIDE DEF n
<1>6. n >= 1 BY <1>1, NextIs, Sizes DEF n
<1>7. at' = IF said' % Turn = 0 THEN "await answer" ELSE at
  <2>1. said' # said BY <1>4, <1>6 DEF n
  <2> QED BY <2>1 DEF ClientSpeaks
<1>8. CASE r = Turn
  <2> DEFINE q == k + 1
  <2>1. q \in Nat /\ q * Turn = k * Turn + Turn BY <1>3, Sizes
  <2> HIDE DEF q
  <2>2. said' = q * Turn + 0 BY <1>3, <1>8, <2>1, Sizes
  <2>3. said' \div Turn = q /\ said' % Turn = 0
    <3>1. said' \in Nat BY <1>4 DEF n
    <3>2. 0 \in 0..(Turn - 1) /\ Turn \in Nat BY Sizes
    <3> QED BY <2>1, <2>2, <3>1, <3>2, DivUnique
  <2>4. at' = "await answer" BY <1>7, <2>3
  <2>5. CurrentTurn' = q BY <2>3, <2>4 DEF CurrentTurn
  <2> QED BY <1>1, <1>2, <2>4, <2>5 DEF InTurn, q
<1>9. CASE r # Turn
  <2>1. r \in 0..(Turn - 1) /\ r # 0 BY <1>9, Sizes
  <2>2. said' \div Turn = k /\ said' % Turn = r
    <3>1. said' \in Nat BY <1>4 DEF n
    <3> QED BY <1>3, <2>1, <3>1, DivUnique, Sizes
  <2>3. at' = "speak" BY <1>1, <1>7, <2>1, <2>2
  <2>4. CurrentTurn' = k + 1 BY <2>2, <2>3 DEF CurrentTurn
  <2> QED BY <1>1, <1>2, <2>3, <2>4 DEF InTurn
<1> QED BY <1>8, <1>9

\* It takes the first event of its queue.
LEMMA RxDrops ==
  ASSUME Types, rx # <<>>, rx' = Tail(rx), UNCHANGED <<down, open, event, egress, bus>>
  PROVE  /\ NoNews(Way, Way') /\ Head(rx) \in ToClient /\ On(Way, Head(rx))
         /\ \A a \in ToClient : On(Way', a) => Behind(Way, Head(rx), a)
<1> DEFINE W == Way
           V == Way'
           k == 1
<1>1. /\ W[1] = rx /\ V[1] = Tail(rx)
      /\ V[2] = W[2] /\ V[3] = W[3] /\ V[4] = W[4] /\ V[5] = W[5]
  BY WayIs
<1>2. W = Way /\ V = Way' /\ k \in 1..5 /\ k = 1 OBVIOUS
<1> HIDE DEF W, V, k
<1>3. \A n \in 1..5 : n # 1 => n = 2 \/ n = 3 \/ n = 4 \/ n = 5 OBVIOUS
<1>4. V[k] = Tail(W[k]) /\ W[k] # <<>> /\ Head(W[k]) = Head(rx) /\ \A n \in 1..5 : n # k => V[n] = W[n]
  BY <1>1, <1>2, <1>3
<1> QED BY <1>2, <1>4, WayDropped

LEMMA ReceivesTurns ==
  ASSUME Types, PlaceInv', TurnsInv, ClientReceives
  PROVE  TurnsInv'
<1>1. /\ UNCHANGED <<open, event, egress, bus, heard, found, answering>>
      /\ at' = at /\ said' = said /\ timedOut' = timedOut /\ got' = got
      /\ down # <<>> /\ down' = Tail(down)
  BY DEF ClientReceives, clientOnly, bridgeVars, pipeVars
<1>2. CurrentTurn' = CurrentTurn /\ (InTurn' <=> InTurn) BY <1>1 DEF CurrentTurn, InTurn
<1> DEFINE W == Way
           V == Way'
<1>3. /\ W[1] = rx /\ W[2] = down /\ V[1] = rx' /\ V[2] = Tail(down)
      /\ V[3] = W[3] /\ V[4] = W[4] /\ V[5] = W[5]
  BY <1>1, WayIs
<1>4. W = Way /\ V = Way' OBVIOUS
<1> HIDE DEF W, V
<1>5. NoNews(Way, Way')
  <2>1. CASE Head(down)[1] = "started"
    <3> DEFINE k == 2
    <3>1. k \in 1..5 OBVIOUS
    <3>2. rx' = rx BY <2>1 DEF ClientReceives
    <3>3. \A n \in 1..5 : n # 2 => n = 1 \/ n = 3 \/ n = 4 \/ n = 5 OBVIOUS
    <3>4. V[k] = Tail(W[k]) /\ W[k] # <<>> /\ \A n \in 1..5 : n # k => V[n] = W[n]
      BY <1>1, <1>3, <3>2, <3>3
    <3> HIDE DEF k
    <3> QED BY <1>4, <3>1, <3>4, WayDropped
  <2>2. CASE Head(down)[1] # "started"
    <3> DEFINE k == 1
    <3>1. k \in 1..4 /\ k + 1 = 2 /\ k = 1 OBVIOUS
    <3>2. rx' = Append(rx, Head(down)) BY <2>2 DEF ClientReceives
    <3>3. \A n \in 1..5 : n # 1 /\ n # 2 => n = 3 \/ n = 4 \/ n = 5 OBVIOUS
    <3> HIDE DEF k
    <3>4. V[k] = Append(W[k], Head(W[k + 1])) /\ V[k + 1] = Tail(W[k + 1]) /\ W[k + 1] # <<>>
          /\ \A n \in 1..5 : n # k /\ n # k + 1 => V[n] = W[n]
      BY <1>1, <1>3, <3>1, <3>2, <3>3
    <3> QED BY <1>4, <3>1, <3>4, WayMoved
  <2> QED BY <2>1, <2>2
<1>6. open' => at' # "done" BY DEF PlaceInv
<1> QED BY <1>1, <1>2, <1>5, <1>6, QuietStep

\* Before its first sample nothing has been heard, and nothing is to be answered.
LEMMA ReadyTurns ==
  ASSUME Types, PlaceInv', SaidInv, DecodeInv, TurnsInv, SaidInv', AwaitReady
  PROVE  TurnsInv'
<1>1. /\ UNCHANGED <<down, open, event, egress, bus, heard, found, answering>>
      /\ said' = said /\ timedOut' = timedOut /\ got' = got
      /\ at = "await ready" /\ at' \in {"await ready", "speak"}
      /\ (rx' = rx \/ (rx # <<>> /\ rx' = Tail(rx)))
  BY DEF AwaitReady, netVars, clientOnly, bridgeVars, pipeVars
<1>2. NoNews(Way, Way')
  <2>1. CASE rx' = rx BY <1>1, <2>1, WayEmptied
  <2>2. CASE rx # <<>> /\ rx' = Tail(rx) BY <1>1, <2>2, RxDrops
  <2> QED BY <1>1, <2>1, <2>2
<1>3. CASE at' = at
  <2>1. CurrentTurn' = CurrentTurn /\ (InTurn' <=> InTurn) BY <1>1, <1>3 DEF CurrentTurn, InTurn
  <2> QED BY <1>1, <1>2, <2>1, QuietStep
<1>4. CASE timedOut BY <1>1, <1>4, LateTurns
<1>5. CASE at' = "speak" /\ ~timedOut
  <2>1. said = 0 /\ said \in Nat /\ said' \in Nat BY <1>1 DEF SaidInv, Types
  <2>2. heard = <<>>
    <3> SUFFICES ASSUME heard # <<>> PROVE FALSE OBVIOUS
    <3> DEFINE i == Len(heard)
               h == (i - 1) * FrameSamples
    <3>1. i \in DOMAIN Framed BY FrontFrames
    <3> HIDE DEF i
    <3>2. h \in Nat /\ h < said BY <3>1, FrameFacts
    <3> HIDE DEF h
    <3> QED BY <2>1, <3>2
  <2>3. Heard' = 0 /\ ~Speaking'
    <3>1. heard' = <<>> BY <1>1, <2>2
    <3>2. Len(heard') = 0 BY <3>1
    <3> QED BY <3>1, <3>2, Sizes DEF Heard, Speaking
  <2>4. TurnBegin' = 0
    <3>1. 0 = 0 * Turn + 0 /\ 0 \in 0..(Turn - 1) /\ 0 \in Nat /\ Turn \in Nat BY Sizes
    <3>2. said' \div Turn = 0 BY <1>1, <2>1, <3>1, DivUnique
    <3>3. CurrentTurn' = 1 BY <1>5, <3>2 DEF CurrentTurn
    <3> QED BY <3>3, Sizes DEF TurnBegin
  <2>5. HearInv' BY <2>3, <2>4, Sizes DEF HearInv
  <2>6. ~InTurn BY <1>1 DEF InTurn
  <2>7. AnswersInv /\ PendingInv /\ TurnGetsOwnAnswer BY DEF TurnsInv
  <2>8. \A a \in ToClient : On(Way, a) => a[1] \notin {"audio", "complete"}
    BY <1>1, <1>5, <2>6, <2>7 DEF AnswersInv
  <2>9. \A a \in ToClient : On(Way', a) => a[1] \notin {"audio", "complete"}
    BY <1>2, <2>8 DEF NoNews, News
  <2>10. \A a, b \in ToClient : Behind(Way', a, b) /\ a[1] = "complete" => b[1] \notin {"audio", "complete"}
    <3>1. \A a, b \in ToClient : Behind(Way, a, b) /\ a[1] = "complete" => b[1] \notin {"audio", "complete"}
      BY <1>1, <1>5, <2>7 DEF AnswersInv
    <3> QED BY <1>2, <3>1 DEF NoNews, News
  <2>11. AnswersInv' BY <2>9, <2>10 DEF AnswersInv
  <2>12. open => ~EndFound /\ ~EndOnBus /\ answering = <<>>
    BY <1>5, <2>6, <2>7 DEF PendingInv, Answered
  <2>13. PendingInv'
    <3> SUFFICES ASSUME open' PROVE PendingInv' BY DEF PendingInv
    <3>1. ~EndFound' /\ answering' = <<>> BY <1>1, <2>12 DEF EndFound
    <3>2. \A a \in ToClient : On(Way', a) => a[1] # "ended" BY <1>1, <1>2, <2>12 DEF EndOnBus, NoNews, News
    <3>3. ~EndOnBus' BY <3>2 DEF EndOnBus
    <3>4. \A a, b \in ToClient : Behind(Way', a, b) => a[1] # "ended" \/ b[1] # "ended"
      <4>1. \A a, b \in ToClient : Behind(Way, a, b) => a[1] # "ended" \/ b[1] # "ended"
        BY <1>1, <1>5, <2>7 DEF PendingInv
      <4> QED BY <1>2, <4>1 DEF NoNews, News
    <3> QED BY <3>1, <3>2, <3>3, <3>4 DEF PendingInv
  <2>14. TurnGetsOwnAnswer' BY <1>1, <2>7 DEF TurnGetsOwnAnswer
  <2> QED BY <2>5, <2>11, <2>13, <2>14 DEF TurnsInv
<1> QED BY <1>1, <1>3, <1>4, <1>5

\* The end of a turn.
LEMMA TurnEnds ==
  ASSUME SaidInv, Types, AwaitAnswer, TurnOver
  PROVE  /\ CurrentTurn \in 1..Turns /\ InTurn /\ InTurn' /\ at' # "done"
         /\ TurnBegin \in Nat /\ TurnBegin' \in Nat /\ TurnBegin' <= TurnBegin + Turn
<1>0. at = "await answer" /\ said' = said BY DEF AwaitAnswer
<1>1. CurrentTurn \in 1..Turns /\ TurnBegin \in Nat
  <2>1. said \in Nat BY DEF Types
  <2> QED BY <1>0, <2>1, TurnFacts
<1> DEFINE c == CurrentTurn
<1>3. c \in Nat /\ c >= 1 BY <1>1, Sizes
<1>2. c = said \div Turn /\ TurnBegin = (c - 1) * Turn BY <1>0 DEF CurrentTurn, TurnBegin
<1> HIDE DEF c
<1>4. CASE at' = "drain"
  <2>1. CurrentTurn' = c BY <1>0, <1>2, <1>4 DEF CurrentTurn
  <2>2. TurnBegin' = TurnBegin BY <1>2, <2>1 DEF TurnBegin
  <2>3. TurnBegin \in Nat /\ TurnBegin <= TurnBegin + Turn BY <1>1, Sizes
  <2> QED BY <1>0, <1>1, <1>4, <2>2, <2>3 DEF InTurn
<1>5. CASE at' = "speak"
  <2>1. CurrentTurn' = c + 1 BY <1>0, <1>2, <1>5 DEF CurrentTurn
  <2>2. TurnBegin' = c * Turn
    <3> DEFINE d == c + 1
    <3>1. d - 1 = c BY <1>3
    <3> HIDE DEF d
    <3>2. CurrentTurn' = d BY <2>1 DEF d
    <3>3. TurnBegin' = (d - 1) * Turn BY <3>2, Zenon DEF TurnBegin
    <3> QED BY <3>1, <3>3
  <2>3. (c - 1) * Turn = c * Turn - Turn BY <1>3, Sizes
  <2>4. TurnBegin' = TurnBegin + Turn
    <3> DEFINE u == c * Turn
               v == (c - 1) * Turn
    <3>1. u \in Nat /\ v = u - Turn /\ TurnBegin = v /\ TurnBegin' = u BY <1>2, <1>3, <2>2, <2>3, Sizes
    <3> HIDE DEF u, v
    <3> QED BY <1>1, <3>1, Sizes
  <2>5. TurnBegin' \in Nat /\ TurnBegin' <= TurnBegin + Turn BY <1>1, <2>4, Sizes
  <2> QED BY <1>0, <1>1, <1>5, <2>5 DEF InTurn
<1> QED BY <1>4, <1>5 DEF TurnOver

LEMMA AnswerTurns ==
  ASSUME Types, TypeOK, PlaceInv', SaidInv, TurnsInv, AwaitAnswer
  PROVE  TurnsInv'
<1>0. /\ UNCHANGED <<down, open, event, egress, bus, heard, found, answering>>
      /\ said' = said /\ timedOut' = timedOut /\ at = "await answer" /\ said \in Nat
  BY DEF AwaitAnswer, netVars, clientOnly, bridgeVars, pipeVars, Types
<1>1. CASE timedOut BY <1>0, <1>1, LateTurns
<1>2. CASE ~timedOut
  <2> DEFINE x == Head(rx)
  <2>0. AnswersInv /\ PendingInv /\ HearInv /\ TurnGetsOwnAnswer BY DEF TurnsInv
  <2>1. CurrentTurn \in 1..Turns BY <1>0, TurnFacts
  <2>2. CASE rx # <<>> /\ rx' = Tail(rx)
               /\ got' = (IF x[1] = "audio" THEN [got EXCEPT ![CurrentTurn] = @ \cup {x[2]}] ELSE got)
               /\ (IF x[1] = "complete" THEN TurnOver ELSE UNCHANGED at)
    <3>1. /\ NoNews(Way, Way') /\ x \in ToClient /\ On(Way, x)
          /\ \A a \in ToClient : On(Way', a) => Behind(Way, x, a)
      BY <1>0, <2>2, RxDrops
    <3>2. TurnGetsOwnAnswer'
      <4>1. x[1] = "audio" => x[2] = CurrentTurn BY <1>0, <1>2, <2>0, <3>1 DEF AnswersInv
      <4>2. got \in [1..Turns -> SUBSET (1..Turns)] BY DEF Types
      <4> HIDE DEF x
      <4>3. \A turn \in 1..Turns : got'[turn] \subseteq got[turn] \cup {turn}
        <5>1. CASE x[1] = "audio" BY <2>2, <4>1, <4>2, <5>1
        <5>2. CASE x[1] # "audio" BY <2>2, <5>2
        <5> QED BY <5>1, <5>2
      <4> QED BY <1>2, <2>0, <4>3 DEF TurnGetsOwnAnswer
    <3> HIDE DEF x
    <3>3. CASE x[1] # "complete"
      <4>1. at' = at BY <2>2, <3>3
      <4>2. CurrentTurn' = CurrentTurn /\ TurnBegin' = TurnBegin /\ (InTurn' <=> InTurn)
        BY <1>0, <4>1 DEF CurrentTurn, TurnBegin, InTurn
      <4>3. Heard' = Heard /\ (Speaking' <=> Speaking) /\ (Answered' <=> Answered)
        BY <1>0, <4>2 DEF Heard, Speaking, Voiced, Answered
      <4>4. HearInv' BY <1>0, <2>0, <4>2, <4>3 DEF HearInv
      <4>5. /\ \A a \in ToClient : On(Way', a) /\ a[1] \in {"audio", "complete", "ended"} => On(Way, a)
            /\ \A a, b \in ToClient : Behind(Way', a, b) /\ a[1] \in {"audio", "complete", "ended"}
                 /\ b[1] \in {"audio", "complete", "ended"} => Behind(Way, a, b)
        BY <3>1 DEF NoNews, News
      <4>6. AnswersInv'
        <5>1. \A a \in ToClient : On(Way', a) /\ a[1] \in {"audio", "complete"} =>
                a[2] = CurrentTurn' /\ InTurn' /\ (open' => Answered')
          BY <1>0, <1>2, <2>0, <4>2, <4>3, <4>5 DEF AnswersInv
        <5>2. \A a, b \in ToClient : Behind(Way', a, b) /\ a[1] = "complete" => b[1] \notin {"audio", "complete"}
          BY <1>0, <1>2, <2>0, <4>5 DEF AnswersInv
        <5> QED BY <5>1, <5>2 DEF AnswersInv
      <4>7. PendingInv'
        <5> SUFFICES ASSUME open' PROVE PendingInv' BY DEF PendingInv
        <5>1. PendingInv /\ open /\ ~timedOut BY <1>0, <1>2, <2>0
        <5>2. EndOnBus' => EndOnBus BY <4>5 DEF EndOnBus
        <5>3. EndFound' = EndFound BY <1>0 DEF EndFound
        <5>4. EndFound' \/ EndOnBus' \/ answering' # <<>> =>
                Answered' /\ \A a \in ToClient : On(Way', a) => a[1] # "complete"
          BY <1>0, <4>3, <4>5, <5>1, <5>2, <5>3 DEF PendingInv
        <5>5. /\ EndFound' => found'[2] = CurrentTurn' /\ ~EndOnBus' /\ answering' = <<>>
              /\ EndOnBus' => answering' = <<>>
              /\ answering' # <<>> => answering'[2] = CurrentTurn'
          BY <1>0, <4>2, <5>1, <5>2, <5>3 DEF PendingInv
        <5>6. \A a \in ToClient : On(Way', a) /\ a[1] = "ended" => a[2] = CurrentTurn'
          BY <4>2, <4>5, <5>1 DEF PendingInv
        <5>7. \A a, b \in ToClient : Behind(Way', a, b) => a[1] # "ended" \/ b[1] # "ended"
          BY <4>5, <5>1 DEF PendingInv
        <5> QED BY <5>4, <5>5, <5>6, <5>7 DEF PendingInv
      <4> QED BY <3>2, <4>4, <4>6, <4>7 DEF TurnsInv
    <3>4. CASE x[1] = "complete"
      <4>1. /\ CurrentTurn \in 1..Turns /\ InTurn /\ InTurn' /\ at' # "done"
            /\ TurnBegin \in Nat /\ TurnBegin' \in Nat /\ TurnBegin' <= TurnBegin + Turn
        BY <1>0, <2>2, <3>4, TurnEnds
      <4>2. \A a \in ToClient : On(Way', a) => a[1] \notin {"audio", "complete"}
        BY <1>0, <1>2, <2>0, <3>1, <3>4 DEF AnswersInv
      <4>3. \A a, b \in ToClient : Behind(Way', a, b) /\ a[1] = "complete" => b[1] \notin {"audio", "complete"}
        <5>1. \A a, b \in ToClient : Behind(Way, a, b) /\ a[1] = "complete" => b[1] \notin {"audio", "complete"}
          BY <1>0, <1>2, <2>0 DEF AnswersInv
        <5> QED BY <3>1, <5>1 DEF NoNews, News
      <4>4. AnswersInv' BY <4>2, <4>3 DEF AnswersInv
      <4>5. open => Answered /\ ~EndFound /\ ~EndOnBus /\ answering = <<>>
        <5>1. open => Answered BY <1>0, <1>2, <2>0, <3>1, <3>4 DEF AnswersInv
        <5>2. open => ~EndFound /\ ~EndOnBus /\ answering = <<>> BY <1>2, <2>0, <3>1, <3>4 DEF PendingInv
        <5> QED BY <5>1, <5>2
      <4>6. HearInv'
        <5> SUFFICES ASSUME open' PROVE HearInv' BY DEF HearInv
        <5>1. ~Speaking /\ TurnBegin + Speech <= Heard BY <1>0, <4>5 DEF Answered
        <5>2. Heard' = Heard /\ ~Speaking' BY <1>0, <5>1 DEF Heard, Speaking, Voiced
        <5>3. Heard \in Nat
          <6>1. Len(heard) \in Nat BY FrontFrames
          <6> QED BY <6>1, Sizes DEF Heard
        <5>4. TurnBegin' + Speech <= Heard + Turn
          <6> DEFINE t == TurnBegin
                     u == TurnBegin'
                     h == Heard
          <6>1. t \in Nat /\ u \in Nat /\ h \in Nat /\ u <= t + Turn /\ t + Speech <= h
            BY <4>1, <5>1, <5>3
          <6> HIDE DEF t, u, h
          <6>2. u + Speech <= h + Turn BY <6>1, Sizes
          <6> QED BY <6>2 DEF t, u, h
        <5> QED BY <5>2, <5>4 DEF HearInv
      <4>7. PendingInv'
        <5> SUFFICES ASSUME open' PROVE PendingInv' BY DEF PendingInv
        <5>1. ~EndFound' /\ answering' = <<>> BY <1>0, <4>5 DEF EndFound
        <5>2. \A a \in ToClient : On(Way', a) => a[1] # "ended"
          BY <1>0, <3>1, <4>5 DEF EndOnBus, NoNews, News
        <5>3. ~EndOnBus' BY <5>2 DEF EndOnBus
        <5>4. \A a, b \in ToClient : Behind(Way', a, b) => a[1] # "ended" \/ b[1] # "ended"
          <6>1. \A a, b \in ToClient : Behind(Way, a, b) => a[1] # "ended" \/ b[1] # "ended"
            BY <1>0, <1>2, <2>0 DEF PendingInv
          <6> QED BY <3>1, <6>1 DEF NoNews, News
        <5> QED BY <5>1, <5>2, <5>3, <5>4 DEF PendingInv
      <4> QED BY <3>2, <4>4, <4>6, <4>7 DEF TurnsInv
    <3> QED BY <3>3, <3>4
  <2>3. CASE RxClosed /\ TurnOver /\ UNCHANGED <<rx, got>>
    <3>1. ~open' /\ rx' = <<>> /\ down' = <<>> /\ TurnGetsOwnAnswer'
      BY <1>0, <2>0, <2>3 DEF RxClosed, TurnGetsOwnAnswer
    <3>2. \A a \in ToClient : ~On(Way', a)
      <4> DEFINE V == Way'
      <4>1. V[1] = <<>> /\ V[2] = <<>> /\ V[3] = <<>> /\ V[4] = <<>> /\ V[5] = <<>> BY <3>1, WayIs
      <4> HIDE DEF V
      <4>2. \A n \in 1..5 : n = 1 \/ n = 2 \/ n = 3 \/ n = 4 \/ n = 5 OBVIOUS
      <4>3. \A n \in 1..5 : DOMAIN V[n] = {}
        <5> SUFFICES ASSUME NEW n \in 1..5 PROVE DOMAIN V[n] = {} OBVIOUS
        <5>1. V[n] = <<>> BY <4>1, <4>2
        <5> QED BY <5>1
      <4> QED BY <4>3 DEF On, V
    <3>3. \A a, b \in ToClient : ~Behind(Way', a, b) BY <3>2 DEF Behind, On
    <3> QED BY <3>1, <3>2, <3>3 DEF TurnsInv, HearInv, PendingInv, AnswersInv
  <2> QED BY <2>2, <2>3 DEF AwaitAnswer
<1> QED BY <1>1, <1>2

LEMMA ClientTurns ==
  ASSUME Types, TypeOK, PlaceInv, SaidInv, DecodeInv, TurnsInv, PlaceInv', SaidInv',
         Client \/ ClientReceives \/ ConnectionLost
  PROVE  TurnsInv'
<1>0. open' => at' # "done" BY DEF PlaceInv
<1>1. UNCHANGED clientOnly
  BY DEF Client, ClientStarts, AwaitReady, ClientSpeaks, AwaitAnswer, TurnTimesOut, ClientEnds,
    ClientReceives, ConnectionLost
<1>2. UNCHANGED <<event, egress, bus, heard, found, answering>> BY <1>1 DEF clientOnly, bridgeVars, pipeVars
<1>3. ASSUME UNCHANGED <<rx, down, timedOut, got>>, open' => open,
             at' # "done" => at # "done" /\ (InTurn => InTurn') /\ CurrentTurn' = CurrentTurn
      PROVE  TurnsInv'
  <2>1. NoNews(Way, Way') BY <1>2, <1>3, WayEmptied
  <2> QED BY <1>0, <1>2, <1>3, <2>1, QuietStep
<1>4. CASE ClientStarts
  <2>1. at' # "done" => at # "done" /\ (InTurn => InTurn') /\ CurrentTurn' = CurrentTurn
    BY <1>4 DEF ClientStarts, InTurn, CurrentTurn
  <2> QED BY <1>3, <1>4, <2>1 DEF ClientStarts
<1>5. CASE ClientSpeaks
  <2>1. CASE said' = said + Len(NextMessage)
    <3>1. said \in Nat BY DEF Types
    <3> QED BY <1>3, <1>5, <2>1, <3>1, SpeaksOn DEF ClientSpeaks
  <2>2. CASE at' = "done" BY <1>3, <1>5, <2>2 DEF ClientSpeaks
  <2> QED BY <1>5, <2>1, <2>2 DEF ClientSpeaks
<1>6. CASE TurnTimesOut BY <1>6, LateTurns DEF TurnTimesOut
<1>7. CASE ClientEnds
  <2>1. at' = "done" /\ ~open' /\ timedOut' = timedOut /\ at = "drain" BY <1>7 DEF ClientEnds
  <2>2. TurnGetsOwnAnswer'
    <3> SUFFICES ASSUME ~timedOut PROVE \A turn \in 1..Turns : got'[turn] \subseteq {turn}
      BY <2>1 DEF TurnGetsOwnAnswer
    <3>1. CurrentTurn = Turns
      <4>1. said \in Nat BY DEF Types
      <4> QED BY <2>1, <4>1, TurnFacts
    <3> DEFINE left == {e[2] : e \in {d \in Range(rx) : d[1] = "audio"}}
    <3>2. left \subseteq {Turns}
      <4> SUFFICES ASSUME NEW d \in Range(rx), d[1] = "audio" PROVE d[2] = Turns OBVIOUS
      <4>1. PICK i \in DOMAIN rx : rx[i] = d BY DEF Range
      <4>2. rx \in Seq(ToClient) BY DEF Types
      <4>3. d \in ToClient BY <4>1, <4>2
      <4>4. On(Way, d)
        <5> DEFINE W == Way
                   k == 1
        <5>1. W[k] = rx /\ k \in 1..5 BY WayIs
        <5> HIDE DEF W, k
        <5>2. On(W, d) BY <4>1, <5>1 DEF On
        <5> QED BY <5>2 DEF W
      <4>5. AnswersInv BY DEF TurnsInv
      <4> QED BY <2>1, <3>1, <4>3, <4>4, <4>5 DEF AnswersInv
    <3>3. got' = [got EXCEPT ![Turns] = @ \cup left] BY <1>7 DEF ClientEnds
    <3>4. got \in [1..Turns -> SUBSET (1..Turns)] BY DEF Types
    <3>5. \A turn \in 1..Turns : got[turn] \subseteq {turn} BY DEF TurnsInv, TurnGetsOwnAnswer
    <3> HIDE DEF left
    <3>6. \A turn \in 1..Turns : turn # Turns => got'[turn] = got[turn] BY <3>3, <3>4
    <3>7. Turns \in 1..Turns BY Sizes
    <3>8. got'[Turns] = got[Turns] \cup left BY <3>3, <3>4, <3>7
    <3> QED BY <3>2, <3>5, <3>6, <3>8
  <2> QED BY <2>1, <2>2 DEF TurnsInv, HearInv, PendingInv, AnswersInv
<1>8. CASE ConnectionLost
  <2>1. at' # "done" => at # "done" /\ (InTurn => InTurn') /\ CurrentTurn' = CurrentTurn
    BY <1>8 DEF ConnectionLost, clientVars, InTurn, CurrentTurn
  <2> QED BY <1>3, <1>8, <2>1 DEF ConnectionLost, clientVars
<1>9. CASE ClientReceives BY <1>9, ReceivesTurns
<1>10. CASE AwaitReady BY <1>10, ReadyTurns
<1>11. CASE AwaitAnswer BY <1>11, AnswerTurns
<1> QED BY <1>4, <1>5, <1>6, <1>7, <1>8, <1>9, <1>10, <1>11 DEF Client

-----------------------------------------------------------------------------
(* Types, and the theorems. *)

\* How a step may change a queue that has room for c.
Within(s, t, c) ==
  t = s \/ t = <<>> \/ (s # <<>> /\ t = Tail(s)) \/ (Len(s) < c /\ \E e : t = Append(s, e))

LEMMA RoomKept ==
  ASSUME NEW S, NEW s \in Seq(S), NEW t, NEW c \in Nat, Len(s) <= c, Within(s, t, c)
  PROVE  Len(t) <= c
<1>1. CASE t = s BY <1>1
<1>2. CASE t = <<>>
  <2>1. Len(t) = 0 BY <1>2
  <2> QED BY <2>1
<1>3. CASE s # <<>> /\ t = Tail(s) BY <1>3
<1>4. CASE Len(s) < c /\ \E e : t = Append(s, e)
  <2>1. PICK e : t = Append(s, e) BY <1>4
  <2>2. Len(t) = Len(s) + 1 BY <2>1
  <2> QED BY <1>4, <2>2
<1> QED BY <1>1, <1>2, <1>3, <1>4 DEF Within

LEMMA QueuesChange ==
  ASSUME TypeOK, Types, PlaceInv, [Next]_vars
  PROVE  /\ Within(up, up', NetCap) /\ Within(down, down', NetCap) /\ Within(audio, audio', AudioCap)
         /\ Within(egress, egress', EgressCap) /\ Within(bus, bus', BusCap)
<1>1. CASE UNCHANGED vars
  BY <1>1 DEF vars, serverVars, netVars, pipeVars, Within
<1>2. CASE Client \/ ClientReceives \/ ConnectionLost
  <2>1. UNCHANGED <<audio, egress, bus>>
    BY <1>2 DEF Client, ClientStarts, AwaitReady, ClientSpeaks, AwaitAnswer, TurnTimesOut, ClientEnds,
      ClientReceives, ConnectionLost, clientOnly, pipeVars
  <2>2. up' = up \/ (Len(up) < NetCap /\ \E e : up' = Append(up, e))
    <3>1. ASSUME NEW m, Sends(m) PROVE Len(up) < NetCap /\ \E e : up' = Append(up, e)
      BY <3>1 DEF Sends
    <3>2. CASE ClientStarts BY <3>1, <3>2 DEF ClientStarts, SendFails
    <3>3. CASE ClientSpeaks BY <3>1, <3>3 DEF ClientSpeaks, SendFails
    <3>4. CASE ClientEnds BY <3>1, <3>4 DEF ClientEnds, SendFails
    <3>5. CASE AwaitReady \/ AwaitAnswer \/ TurnTimesOut \/ ClientReceives \/ ConnectionLost
      BY <3>5 DEF AwaitReady, AwaitAnswer, TurnTimesOut, ClientReceives, ConnectionLost, netVars
    <3> QED BY <1>2, <3>2, <3>3, <3>4, <3>5 DEF Client
  <2>3. down' = down \/ (down # <<>> /\ down' = Tail(down))
    BY <1>2 DEF Client, ClientStarts, AwaitReady, ClientSpeaks, AwaitAnswer, TurnTimesOut, ClientEnds,
      ClientReceives, ConnectionLost, netVars
  <2> QED BY <2>1, <2>2, <2>3 DEF Within
<1>3. CASE Server
  <2>1. UNCHANGED bus
    BY <1>3 DEF Server, SessionStart, StartSession, SendReady, BridgeReceives, BridgeLosesClient, BridgeFeeds,
      BridgeTakes, BridgeSends, Cancel, Join, JoinTimesOut, pipeVars
  <2>2. up' = up \/ (up # <<>> /\ up' = Tail(up))
    BY <1>3 DEF Server, SessionStart, StartSession, SendReady, BridgeReceives, BridgeLosesClient, BridgeFeeds,
      BridgeTakes, BridgeSends, Cancel, Join, JoinTimesOut, netVars
  <2>3. down' = down \/ (Len(down) < NetCap /\ \E e : down' = Append(down, e))
    BY <1>3 DEF Server, SessionStart, StartSession, SendReady, BridgeReceives, BridgeLosesClient, BridgeFeeds,
      BridgeTakes, BridgeSends, Cancel, Join, JoinTimesOut, netVars
  <2>4. audio' = audio \/ (Len(audio) < AudioCap /\ \E e : audio' = Append(audio, e))
    BY <1>3 DEF Server, SessionStart, StartSession, SendReady, BridgeReceives, BridgeLosesClient, BridgeFeeds,
      BridgeTakes, BridgeSends, Cancel, Join, JoinTimesOut
  <2>5. egress' = egress \/ (egress # <<>> /\ egress' = Tail(egress))
    BY <1>3 DEF Server, SessionStart, StartSession, SendReady, BridgeReceives, BridgeLosesClient, BridgeFeeds,
      BridgeTakes, BridgeSends, Cancel, Join, JoinTimesOut
  <2> QED BY <2>1, <2>2, <2>3, <2>4, <2>5 DEF Within
<1>4. CASE FrontEnd
  <2>1. UNCHANGED <<up, down, egress>> BY <1>4 DEF FrontEnd, FrontTakes, FrontSends, VadLast, netVars
  <2>2. audio' = audio \/ (audio # <<>> /\ audio' = Tail(audio))
    BY <1>4 DEF FrontEnd, FrontTakes, FrontSends, VadLast
  <2>3. bus' = bus \/ (Len(bus) < BusCap /\ \E e : bus' = Append(bus, e))
    BY <1>4 DEF FrontEnd, FrontTakes, FrontSends, VadLast
  <2> QED BY <2>1, <2>2, <2>3 DEF Within
<1>5. CASE Orchestrate
  <2>1. UNCHANGED <<up, down, audio>> /\ bus # <<>> /\ bus' = Tail(bus) BY <1>5 DEF Orchestrate, netVars
  <2>2. egress' = egress \/ (Len(egress) < EgressCap /\ \E e : egress' = Append(egress, e))
    <3>1. CASE NeedsEgress /\ pc # "closed"
      <4>1. egress' = Append(egress, Head(bus)) BY <1>5, <3>1 DEF Orchestrate
      <4>2. Len(egress) # EgressCap BY <1>5, <3>1 DEF Orchestrate, OrchestratorWaits
      <4>3. Len(egress) <= EgressCap BY DEF TypeOK
      <4>4. Len(egress) \in Nat
        <5>1. egress \in Seq(Items) BY DEF Types
        <5> QED BY <5>1
      <4>5. EgressCap \in Nat BY CapAssumption
      <4>6. Len(egress) < EgressCap BY <4>2, <4>3, <4>4, <4>5
      <4> QED BY <4>1, <4>6
    <3>2. CASE ~(NeedsEgress /\ pc # "closed") BY <1>5, <3>2 DEF Orchestrate
    <3> QED BY <3>1, <3>2
  <2> QED BY <2>1, <2>2 DEF Within
<1>6. CASE Speak
  BY <1>6 DEF Speak, netVars, Within
<1>7. CASE \E t \in Tasks : TaskEnds(t)
  <2>1. UNCHANGED <<up, down, audio, egress>> /\ (bus' = bus \/ bus' = <<>>)
    BY <1>7 DEF TaskEnds, netVars
  <2> QED BY <2>1 DEF Within
<1>8. CASE FlushSentences \/ SentencesFlushed
  BY <1>8 DEF FlushSentences, SentencesFlushed, netVars, Within
<1> QED BY <1>1, <1>2, <1>3, <1>4, <1>5, <1>6, <1>7, <1>8 DEF Next, Orchestrator

LEMMA PlacesType ==
  ASSUME TypeOK, [Next]_vars
  PROVE  /\ pc' \in Pcs /\ tasks' \subseteq Tasks
         /\ at' \in {"connect", "await ready", "speak", "await answer", "drain", "done"}
<1>0. /\ pc \in Pcs /\ tasks \subseteq Tasks
      /\ at \in {"connect", "await ready", "speak", "await answer", "drain", "done"}
  BY DEF TypeOK
<1>1. /\ {"wait", "start", "ready", "select", "feed", "send", "cancel", "closed"} \subseteq Pcs
      /\ "join fanout" \in Pcs /\ "join vad" \in Pcs /\ "join orchestrator" \in Pcs
  <2>1. \A t \in Tasks : AtJoin[t] \in Pcs BY DEF Pcs
  <2>2. {"fanout", "vad", "orchestrator"} \subseteq Tasks BY DEF Tasks
  <2>3. AtJoin["fanout"] = "join fanout" /\ AtJoin["vad"] = "join vad"
        /\ AtJoin["orchestrator"] = "join orchestrator"
    BY DEF AtJoin
  <2>4. "join fanout" \in Pcs /\ "join vad" \in Pcs /\ "join orchestrator" \in Pcs BY <2>1, <2>2, <2>3
  <2>5. {"wait", "start", "ready", "select", "feed", "send", "cancel", "closed"} \subseteq Pcs BY DEF Pcs
  <2> QED BY <2>4, <2>5
<1>2. CASE UNCHANGED vars
  BY <1>0, <1>2 DEF vars, serverVars, pipeVars, clientVars
<1>3. CASE Client \/ ClientReceives \/ ConnectionLost
  <2>1. UNCHANGED <<pc, tasks>>
    BY <1>3 DEF Client, ClientStarts, AwaitReady, ClientSpeaks, AwaitAnswer, TurnTimesOut, ClientEnds,
      ClientReceives, ConnectionLost, clientOnly, pipeVars
  <2>2. at' \in {"connect", "await ready", "speak", "await answer", "drain", "done"}
    BY <1>0, <1>3 DEF Client, ClientStarts, AwaitReady, ClientSpeaks, AwaitAnswer, TurnTimesOut, TurnOver,
      ClientEnds, ClientReceives, ConnectionLost, clientVars
  <2> QED BY <1>0, <2>1, <2>2
<1>4. CASE Server /\ UNCHANGED clientVars
  <2>1. tasks' \subseteq Tasks
    BY <1>0, <1>4 DEF Server, SessionStart, StartSession, SendReady, BridgeReceives, BridgeLosesClient,
      BridgeFeeds, BridgeTakes, BridgeSends, Cancel, Join, JoinTimesOut, pipeVars
  <2>2. CASE \E t \in Tasks : Join(t) \/ JoinTimesOut(t)
    <3>1. pc' \in Pcs BY <1>1, <2>2, JoinPlaces DEF Join, JoinTimesOut, Goes
    <3> QED BY <1>0, <1>4, <2>1, <3>1 DEF clientVars
  <2>3. CASE ~(\E t \in Tasks : Join(t) \/ JoinTimesOut(t))
    <3>1. pc' = pc \/ pc' \in {"wait", "start", "ready", "select", "feed", "send", "cancel", "closed"}
          \/ pc' = "join fanout"
      BY <1>4, <2>3 DEF Server, SessionStart, StartSession, SendReady, BridgeReceives, BridgeLosesClient,
        BridgeFeeds, BridgeTakes, BridgeSends, Cancel, Goes
    <3>2. pc' \in Pcs BY <1>0, <1>1, <3>1
    <3> QED BY <1>0, <1>4, <2>1, <3>2 DEF clientVars
  <2> QED BY <2>2, <2>3
<1>5. CASE (FrontEnd \/ Orchestrator \/ Speak \/ \E t \in Tasks : TaskEnds(t)) /\ UNCHANGED clientVars
  <2>1. pc' = pc /\ tasks' \subseteq tasks
    BY <1>5 DEF FrontEnd, FrontTakes, FrontSends, VadLast, Orchestrator, Orchestrate, FlushSentences,
      SentencesFlushed, Speak, TaskEnds
  <2> QED BY <1>0, <1>5, <2>1 DEF clientVars
<1> QED BY <1>2, <1>3, <1>4, <1>5 DEF Next

\* Only the orchestrator's wait for the text channel changes flushing.
LEMMA FlushingType ==
  ASSUME TypeOK, [Next]_vars
  PROVE  flushing' \in BOOLEAN
<1>0. flushing \in BOOLEAN BY DEF TypeOK
<1>1. CASE UNCHANGED vars
  BY <1>0, <1>1 DEF vars, serverVars, pipeVars
<1>2. CASE Client \/ ClientReceives \/ ConnectionLost
  BY <1>0, <1>2 DEF Client, ClientStarts, AwaitReady, ClientSpeaks, AwaitAnswer, TurnTimesOut,
    ClientEnds, ClientReceives, ConnectionLost, clientOnly, pipeVars
<1>3. CASE Server
  BY <1>0, <1>3 DEF Server, SessionStart, StartSession, SendReady, BridgeReceives, BridgeLosesClient,
    BridgeFeeds, BridgeTakes, BridgeSends, Cancel, Join, JoinTimesOut, pipeVars
<1>4. CASE FrontEnd \/ Orchestrate \/ Speak \/ \E t \in Tasks : TaskEnds(t)
  BY <1>0, <1>4 DEF FrontEnd, FrontTakes, FrontSends, VadLast, Orchestrate, Speak, TaskEnds
<1>5. CASE FlushSentences \/ SentencesFlushed
  BY <1>5 DEF FlushSentences, SentencesFlushed
<1> QED BY <1>1, <1>2, <1>3, <1>4, <1>5 DEF Next, Orchestrator

LEMMA TypeOKNext ==
  ASSUME TypeOK, Types, PlaceInv, Types', SaidInv', DecodeInv', OverrunInv', [Next]_vars
  PROVE  TypeOK'
<1>1. /\ NetCap \in Nat /\ AudioCap \in Nat /\ EgressCap \in Nat /\ BusCap \in Nat BY CapAssumption
<1>2. Len(up') <= NetCap BY <1>1, QueuesChange, RoomKept DEF TypeOK, Types
<1>3. Len(down') <= NetCap BY <1>1, QueuesChange, RoomKept DEF TypeOK, Types
<1>4. Len(audio') <= AudioCap BY <1>1, QueuesChange, RoomKept DEF TypeOK, Types
<1>5. Len(egress') <= EgressCap BY <1>1, QueuesChange, RoomKept DEF TypeOK, Types
<1>6. Len(bus') <= BusCap BY <1>1, QueuesChange, RoomKept DEF TypeOK, Types
<1>7. said' \in 0..(Turns * Turn)
  <2> DEFINE z == Turns * Turn
  <2>1. z \in Nat BY Sizes
  <2>2. said' \in Nat /\ said' <= z BY DEF Types, SaidInv
  <2> HIDE DEF z
  <2>3. said' \in 0..z BY <2>1, <2>2
  <2> QED BY <2>3 DEF z
<1>8. \A turn \in 1..Turns : got'[turn] \subseteq 1..Turns BY DEF Types
<1>9. Len(decoder'.residual) < FrameSamples BY DEF DecodeInv
<1>10. overruns' \in 0..3 BY DEF OverrunInv
<1>11. /\ pc' \in Pcs /\ tasks' \subseteq Tasks
       /\ at' \in {"connect", "await ready", "speak", "await answer", "drain", "done"}
  BY PlacesType
<1>12. flushing' \in BOOLEAN BY FlushingType
<1> QED
  BY <1>2, <1>3, <1>4, <1>5, <1>6, <1>7, <1>8, <1>9, <1>10, <1>11, <1>12 DEF TypeOK, Pcs, AtJoin, Tasks

LEMMA InitInv == Init => IInv
<1> SUFFICES ASSUME Init PROVE IInv
  OBVIOUS
<1>1. /\ up = <<>> /\ down = <<>> /\ rx = <<>> /\ audio = <<>> /\ heard = <<>> /\ feeding = <<>>
      /\ bus = <<>> /\ egress = <<>> /\ found = <<>> /\ event = <<>> /\ answering = <<>>
      /\ decoder = [residual |-> <<>>, next |-> 0] /\ flushing = FALSE /\ tasks = {} /\ overruns = 0
      /\ open = TRUE /\ pc = "wait" /\ at = "connect" /\ said = 0 /\ timedOut = FALSE
      /\ got = [turn \in 1..Turns |-> {}]
  BY DEF Init, ServerInit, DecoderInit
<1>2. Types
  <2>1. \A S : <<>> \in Seq(S) OBVIOUS
  <2>2. decoder \in [residual : Seq(Nat), next : Nat] BY <1>1
  <2>3. got \in [1..Turns -> SUBSET (1..Turns)] BY <1>1
  <2> DEFINE none == <<>>
  <2>4. \A S : none \in Seq(S) BY <2>1
  <2>5. up = none /\ down = none /\ rx = none /\ heard = none /\ audio = none /\ feeding = none
        /\ bus = none /\ egress = none
    BY <1>1
  <2> HIDE DEF none
  <2>6. /\ up \in Seq(Messages) /\ down \in Seq(ToClient) /\ rx \in Seq(ToClient)
        /\ heard \in Seq(AudioFrames) /\ audio \in Seq(AudioFrames) /\ feeding \in Seq(AudioFrames)
        /\ bus \in Seq(Items) /\ egress \in Seq(Items)
    BY <2>4, <2>5
  <2> QED BY <1>1, <2>2, <2>3, <2>6 DEF Types
<1>3. Len(up) = 0 /\ Len(down) = 0 /\ Len(audio) = 0 /\ Len(egress) = 0 /\ Len(bus) = 0
      /\ Len(heard) = 0 /\ Len(feeding) = 0 /\ Len(decoder.residual) = 0
  BY <1>1
<1>4. TypeOK
  <2>1. NetCap >= 0 /\ AudioCap >= 0 /\ EgressCap >= 0 /\ BusCap >= 0 BY CapAssumption
  <2>2. 0 \in 0..(Turns * Turn)
    <3>1. Turns * Turn \in Nat BY Sizes
    <3> QED BY <3>1
  <2>3. pc \in Pcs BY <1>1 DEF Pcs
  <2>4. \A turn \in 1..Turns : got[turn] \subseteq 1..Turns BY <1>1
  <2>5. flushing \in BOOLEAN /\ tasks \subseteq Tasks BY <1>1
  <2>6. Len(decoder.residual) < FrameSamples BY <1>3, Sizes
  <2>7. overruns \in 0..3 /\ said \in 0..(Turns * Turn) BY <1>1, <2>2
  <2> QED BY <1>1, <1>3, <2>1, <2>3, <2>4, <2>5, <2>6, <2>7 DEF TypeOK
<1>5. PlaceInv
  <2>1. DOMAIN up = {} BY <1>1
  <2> QED BY <1>1, <2>1 DEF PlaceInv, EndsAtDone, Reading
<1>6. SaidInv
  <2>1. Turns * Turn \in Nat BY Sizes
  <2>2. 0 <= Turns * Turn BY <2>1
  <2> QED BY <1>1, <2>2 DEF SaidInv
<1>7. Len(Framed) = 0 /\ DOMAIN Framed = {} /\ Taken = 0
  <2>1. Framed \in Seq(AudioFrames) /\ Len(Framed) = 0 BY <1>2, <1>3, FrontFrames
  <2>2. DOMAIN Framed = 1..0 BY <2>1
  <2>3. 0 * FrameSamples = 0 BY Sizes
  <2> QED BY <1>3, <2>1, <2>2, <2>3 DEF Taken
<1>8. DecodeInv
  <2>1. DOMAIN decoder.residual = {} BY <1>1
  <2>2. AudioIntact BY <1>1, <1>7, <2>1 DEF AudioIntact
  <2>3. UpInv
    <3> DEFINE p == [i \in 0..0 |-> 0]
    <3>1. p \in [0..Len(up) -> 0..said] /\ p[0] = Taken /\ p[Len(up)] = said BY <1>1, <1>3, <1>7
    <3>2. DOMAIN up = {} BY <1>1
    <3> HIDE DEF p
    <3> QED BY <3>1, <3>2 DEF UpInv
  <2> QED BY <1>1, <1>3, <1>7, <2>2, <2>3, Sizes DEF DecodeInv
<1>9. OverrunInv BY <1>1 DEF OverrunInv
<1>10. TurnsInv
  <2>1. TurnBegin = 0 - Turn
    <3>1. said \in Nat BY <1>1
    <3> QED BY <1>1, <1>6, <3>1, TurnFacts
  <2>2. Heard = 0 /\ ~Speaking
    <3>1. 0 * FrameSamples = 0 BY Sizes
    <3> QED BY <1>1, <1>3, <3>1 DEF Heard, Speaking
  <2>3. HearInv BY <2>1, <2>2, Sizes DEF HearInv
  <2>4. \A a \in ToClient : ~On(Way, a)
    <3> DEFINE V == Way
    <3>1. V[1] = <<>> /\ V[2] = <<>> /\ V[3] = <<>> /\ V[4] = <<>> /\ V[5] = <<>> BY <1>1, WayIs
    <3> HIDE DEF V
    <3>2. \A n \in 1..5 : n = 1 \/ n = 2 \/ n = 3 \/ n = 4 \/ n = 5 OBVIOUS
    <3>3. \A n \in 1..5 : DOMAIN V[n] = {}
      <4> SUFFICES ASSUME NEW n \in 1..5 PROVE DOMAIN V[n] = {} OBVIOUS
      <4>1. V[n] = <<>> BY <3>1, <3>2
      <4> QED BY <4>1
    <3> QED BY <3>3 DEF On, V
  <2>5. \A a, b \in ToClient : ~Behind(Way, a, b) BY <2>4 DEF Behind, On
  <2>6. AnswersInv BY <2>4, <2>5 DEF AnswersInv
  <2>7. PendingInv BY <1>1, <2>4, <2>5 DEF PendingInv, EndFound, EndOnBus
  <2>8. TurnGetsOwnAnswer BY <1>1 DEF TurnGetsOwnAnswer
  <2> QED BY <2>3, <2>6, <2>7, <2>8 DEF TurnsInv
<1> QED BY <1>2, <1>4, <1>5, <1>6, <1>8, <1>9, <1>10 DEF IInv

LEMMA NextInv == IInv /\ [Next]_vars => IInv'
<1> SUFFICES ASSUME IInv, [Next]_vars PROVE IInv'
  OBVIOUS
<1>1. TypeOK /\ Types /\ PlaceInv /\ SaidInv /\ DecodeInv /\ OverrunInv /\ TurnsInv BY DEF IInv
<1>2. SaidInv' BY <1>1, SaidNext
<1>3. DecodeInv' BY <1>1, DecodeNext
<1>4. OverrunInv' BY <1>1, OverrunNext
<1>5. CASE UNCHANGED vars
  <2>1. Types' BY <1>1, <1>5 DEF Types, vars, serverVars, netVars, bridgeVars, pipeVars, clientVars
  <2>2. PlaceInv'
    BY <1>1, <1>5 DEF PlaceInv, Reading, StartsFirst, EndsAtDone, vars, serverVars, netVars, bridgeVars, clientVars
  <2>3. TurnsInv'
    <3>1. UNCHANGED clientVars /\ rx' = rx /\ UNCHANGED <<down, open, event, egress, bus, heard, found, answering>>
      BY <1>5 DEF vars, serverVars, netVars, bridgeVars, pipeVars, clientVars
    <3>2. NoNews(Way, Way') BY <3>1, WayEmptied
    <3>3. open' => at' # "done" BY <2>2 DEF PlaceInv
    <3> QED BY <1>1, <3>1, <3>2, <3>3, QuietStep, ServerStep
  <2>4. TypeOK' BY <1>1, <1>2, <1>3, <1>4, <2>1, TypeOKNext
  <2> QED BY <1>2, <1>3, <1>4, <2>1, <2>2, <2>3, <2>4 DEF IInv
<1>8. CASE (FlushSentences \/ SentencesFlushed) /\ UNCHANGED clientVars
  <2>1. /\ UNCHANGED <<up, down, open, decoder, feeding, event, audio, heard, found, bus, answering, egress>>
        /\ UNCHANGED <<pc, tasks, overruns>> /\ UNCHANGED clientVars
    BY <1>8 DEF FlushSentences, SentencesFlushed, netVars, bridgeVars
  <2>2. Types' BY <1>1, <2>1 DEF Types, clientVars
  <2>3. PlaceInv' BY <1>1, <2>1 DEF PlaceInv, Reading, StartsFirst, EndsAtDone, clientVars
  <2>4. TurnsInv'
    <3>1. rx' = rx BY <2>1 DEF clientVars
    <3>2. NoNews(Way, Way') BY <2>1, <3>1, WayEmptied
    <3>3. open' => at' # "done" BY <2>3 DEF PlaceInv
    <3> QED BY <1>1, <2>1, <3>1, <3>2, <3>3, QuietStep, ServerStep
  <2>5. TypeOK' BY <1>1, <1>2, <1>3, <1>4, <2>2, TypeOKNext
  <2> QED BY <1>2, <1>3, <1>4, <2>2, <2>3, <2>4, <2>5 DEF IInv
<1>6. CASE Client \/ ClientReceives \/ ConnectionLost
  <2>1. Types' BY <1>1, <1>6, TypesClient
  <2>2. PlaceInv' BY <1>1, <1>6, PlaceClient
  <2>3. TurnsInv' BY <1>1, <1>2, <1>6, <2>2, ClientTurns
  <2>4. TypeOK' BY <1>1, <1>2, <1>3, <1>4, <2>1, TypeOKNext
  <2> QED BY <1>2, <1>3, <1>4, <2>1, <2>2, <2>3, <2>4 DEF IInv
<1>7. CASE (Server \/ FrontEnd \/ Orchestrate \/ Speak \/ \E t \in Tasks : TaskEnds(t)) /\ UNCHANGED clientVars
  <2>1. Types' BY <1>1, <1>7, TypesServer
  <2>2. PlaceInv' BY <1>1, <1>7, PlaceServer
  <2>3. TurnsInv'
    <3>1. CASE Server BY <1>1, <1>7, <2>2, <3>1, HandlerTurns
    <3>2. CASE ~open /\ ~Server BY <1>1, <1>7, <2>2, <3>2, AloneTurns
    <3>3. CASE open /\ ~Server
      <4>1. ~Cancelled BY <1>1, <3>3 DEF PlaceInv, Reading, Cancelled
      <4>2. CASE FrontTakes BY <1>1, <1>7, <2>1, <3>3, <4>2, FrontTakesTurns
      <4>3. CASE FrontSends BY <1>1, <1>7, <2>2, <3>3, <4>3, FrontSendsTurns
      <4>4. CASE Orchestrate BY <1>1, <1>7, <2>2, <3>3, <4>4, OrchestrateTurns
      <4>5. CASE Speak BY <1>1, <1>7, <3>3, <4>5, SpeakTurns
      <4> QED BY <1>7, <3>3, <4>1, <4>2, <4>3, <4>4, <4>5 DEF FrontEnd, VadLast, TaskEnds
    <3> QED BY <3>1, <3>2, <3>3
  <2>4. TypeOK' BY <1>1, <1>2, <1>3, <1>4, <2>1, TypeOKNext
  <2> QED BY <1>2, <1>3, <1>4, <2>1, <2>2, <2>3, <2>4 DEF IInv
<1> QED BY <1>5, <1>6, <1>7, <1>8 DEF Next, Orchestrator

LEMMA Invariant == Spec => []IInv
<1>1. Init => IInv BY InitInv
<1>2. IInv /\ [Next]_vars => IInv' BY NextInv
<1> QED BY <1>1, <1>2, PTL DEF Spec

\* However the client cuts its samples into messages and wherever the connection
\* breaks, the decoder's frames are what it said, in order, with consecutive time
\* stamps, and nothing is lost between turns (handler.rs 124-148, 880-893).
THEOREM AudioKept == Spec => []AudioIntact
<1>1. IInv => AudioIntact BY DEF IInv, DecodeInv
<1> QED BY <1>1, Invariant, PTL

\* Unless a time-out has passed, a turn of the load test is ended by the answer to
\* what was said in it, not by that to an earlier turn (ws_backend.rs 238-283).
THEOREM CallCorrect == Spec => []CallInv
<1>1. IInv => CallInv BY DEF IInv, TurnsInv, CallInv
<1> QED BY <1>1, Invariant, PTL
====
