---- MODULE PhoneCall ----
(***************************************************************************)
(* The load test's SIP phone (xphone_backend.rs): each call runs in a      *)
(* blocking thread of its own and talks to the phone by callbacks.  The    *)
(* phone itself is a library: what it does is known from how the backend   *)
(* uses it.  It changes the state of a line and then, in another step,     *)
(* runs the callback that is registered by then.                           *)
(*                                                                         *)
(* Of a call's audio only what comes of it is modelled (CallAnalysis); the *)
(* hang-up flag of a result, and lengths of time, are not.                 *)
(***************************************************************************)
EXTENDS Integers, Sequences, FiniteSets

CONSTANTS
  MaxCalls,     \* calls of a campaign
  MaxLines,     \* bound on the lines of the phone: a dialled call beyond it fails
  IncomingCap   \* the channel between on_incoming and the waiting calls, 64

ASSUME PhoneAssumption ==
  /\ MaxCalls \in Nat \ {0} /\ MaxLines \in 1 .. MaxCalls
  /\ IncomingCap \in Nat \ {0}

Calls == 1 .. MaxCalls
Lines == 1 .. MaxLines

VARIABLES
  registered,  \* the phone is connected and registered
  line,        \* the state of a line: none, ringing, active, ended
  wanted,      \* the lines this end has dialled or accepted
  news,        \* changes of a line whose callback has not run yet
  watched,     \* lines with an on_state callback
  told,        \* what that callback has put into active_rx and failed_rx
  incoming,    \* lines in incoming_rx
  at,          \* where each call's thread is
  lineOf       \* the line a call has, 0 for none

phoneVars == <<registered, line, wanted, news, watched, told, incoming, at, lineOf>>

Over == {"heard", "silent", "failed"}
Phases == {"unborn", "elsewhere", "dial", "invite", "accept", "look", "watch", "lookAgain", "wait",
           "settle", "play", "record", "ended"} \cup Over

PhoneTypeOK ==
  /\ registered \in BOOLEAN
  /\ line \in [Lines -> {"none", "ringing", "active", "ended"}]
  /\ wanted \subseteq Lines /\ watched \subseteq Lines
  /\ news \in [Lines -> SUBSET {"active", "ended"}]
  /\ told \in [Lines -> SUBSET {"active", "ended"}]
  /\ incoming \in Seq(Lines) /\ Len(incoming) <= IncomingCap
  /\ at \in [Calls -> Phases]
  /\ lineOf \in [Calls -> Lines \cup {0}]

PhoneInit ==
  /\ registered = FALSE
  /\ line = [l \in Lines |-> "none"]
  /\ wanted = {} /\ watched = {}
  /\ news = [l \in Lines |-> {}]
  /\ told = [l \in Lines |-> {}]
  /\ incoming = <<>>
  /\ at = [c \in Calls |-> "unborn"]
  /\ lineOf = [c \in Calls |-> 0]

Goes(c, from, to) ==
  /\ at[c] = from
  /\ at' = [at EXCEPT ![c] = to]

----
(* The library and the far end *)

\* A line changes; whoever watches will hear of it.
Changes(l, state) ==
  /\ line' = [line EXCEPT ![l] = state]
  /\ news' = [news EXCEPT ![l] = @ \cup {state}]

\* The other end answers a line that was dialled, or confirms one that was accepted.
FarEndAnswers(l) ==
  /\ line[l] = "ringing" /\ l \in wanted
  /\ Changes(l, "active")
  /\ UNCHANGED <<registered, wanted, watched, told, incoming, at, lineOf>>

FarEndHangsUp(l) ==
  /\ line[l] \in {"ringing", "active"}
  /\ Changes(l, "ended")
  /\ UNCHANGED <<registered, wanted, watched, told, incoming, at, lineOf>>

\* The callback puts its message into a channel of one slot, if it has been set by now.
RunsCallback(l) ==
  \E change \in news[l] :
    /\ news' = [news EXCEPT ![l] = @ \ {change}]
    /\ told' = [told EXCEPT ![l] = IF l \in watched THEN @ \cup {change} ELSE @]
    /\ UNCHANGED <<registered, line, wanted, watched, incoming, at, lineOf>>

\* An INVITE: on_incoming hands the call on if there is room, and forgets it otherwise.
Rings(l) ==
  /\ registered
  /\ line[l] = "none"
  /\ line' = [line EXCEPT ![l] = "ringing"]
  /\ incoming' = IF Len(incoming) < IncomingCap THEN Append(incoming, l) ELSE incoming
  /\ UNCHANGED <<registered, wanted, news, watched, told, at, lineOf>>

----
(* connect, and the drop at the end of the campaign *)

Register ==
  /\ registered' = TRUE
  /\ UNCHANGED <<line, wanted, news, watched, told, incoming, at, lineOf>>

\* Nothing is left of the phone but what its calls came to.
Disconnect ==
  /\ registered' = FALSE
  /\ line' = [l \in Lines |-> "none"]
  /\ wanted' = {} /\ watched' = {}
  /\ news' = [l \in Lines |-> {}]
  /\ told' = [l \in Lines |-> {}]
  /\ incoming' = <<>>
  /\ lineOf' = [c \in Calls |-> 0]
  /\ UNCHANGED at

----
(* One call *)

\* dial returns a line that may have moved on already, or an error.
Dial(c) ==
  /\ \/ /\ Goes(c, "dial", "look") /\ c \in Lines
        /\ \E state \in {"ringing", "active", "ended"} : line' = [line EXCEPT ![c] = state]
        /\ wanted' = wanted \cup {c}
        /\ lineOf' = [lineOf EXCEPT ![c] = c]
     \/ Goes(c, "dial", "failed") /\ UNCHANGED <<line, wanted, lineOf>>
  /\ UNCHANGED <<registered, news, watched, told, incoming>>

\* The next incoming line, or none in time.
AwaitInvite(c) ==
  /\ IF incoming # <<>>
     THEN /\ Goes(c, "invite", "accept")
          /\ lineOf' = [lineOf EXCEPT ![c] = Head(incoming)]
          /\ incoming' = Tail(incoming)
     ELSE Goes(c, "invite", "failed") /\ UNCHANGED <<lineOf, incoming>>
  /\ UNCHANGED <<registered, line, wanted, news, watched, told>>

\* The caller may have given up while the line was in the channel.
Accept(c) ==
  /\ at[c] = "accept"
  /\ IF line[lineOf[c]] = "ended"
     THEN Goes(c, "accept", "failed") /\ UNCHANGED wanted
     ELSE Goes(c, "accept", "look") /\ wanted' = wanted \cup {lineOf[c]}
  /\ UNCHANGED <<registered, line, news, watched, told, incoming, lineOf>>

\* A look at the state of the line, which may settle the matter.
Looks(c, from, otherwise) ==
  /\ Goes(c, from, CASE line[lineOf[c]] = "active" -> "settle"
                     [] line[lineOf[c]] = "ended" -> "failed"
                     [] OTHER -> otherwise)
  /\ UNCHANGED <<registered, line, wanted, news, watched, told, incoming, lineOf>>

FirstLook(c) == Looks(c, "look", "watch")

\* Mutant: the line is not looked at again once it is watched.
WatchOnly(c) ==
  /\ Goes(c, "watch", "wait")
  /\ watched' = watched \cup {lineOf[c]}
  /\ UNCHANGED <<registered, line, wanted, news, told, incoming, lineOf>>

Watch(c) ==
  /\ Goes(c, "watch", "lookAgain")
  /\ watched' = watched \cup {lineOf[c]}
  /\ UNCHANGED <<registered, line, wanted, news, told, incoming, lineOf>>

SecondLook(c) == Looks(c, "lookAgain", "wait")

\* The select: what is ready, or the time-out when nothing is.
AwaitActive(c) ==
  /\ \/ Goes(c, "wait", "settle") /\ "active" \in told[lineOf[c]]
     \/ Goes(c, "wait", "failed") /\ "active" \notin told[lineOf[c]]
     \/ Goes(c, "wait", "failed") /\ "ended" \in told[lineOf[c]]
  /\ UNCHANGED <<registered, line, wanted, news, watched, told, incoming, lineOf>>

\* The reader and the writer may be refused, and then the line is left as it is.
Settle(c) ==
  /\ Goes(c, "settle", "play") \/ Goes(c, "settle", "failed")
  /\ UNCHANGED <<registered, line, wanted, news, watched, told, incoming, lineOf>>

Play(c) ==
  /\ Goes(c, "play", "record") \/ Goes(c, "play", "failed")
  /\ UNCHANGED <<registered, line, wanted, news, watched, told, incoming, lineOf>>

EndCall(c) ==
  /\ Goes(c, "record", "ended")
  /\ IF line[lineOf[c]] = "ended" THEN UNCHANGED <<line, news>> ELSE Changes(lineOf[c], "ended")
  /\ UNCHANGED <<registered, wanted, watched, told, incoming, lineOf>>

\* The recording, or nothing if the reader is not done in 3 s.
Collect(c) ==
  /\ Goes(c, "ended", "heard") \/ Goes(c, "ended", "silent")
  /\ UNCHANGED <<registered, line, wanted, news, watched, told, incoming, lineOf>>

Measure(c) == Settle(c) \/ Play(c) \/ EndCall(c) \/ Collect(c)

WaitForActive(c) == FirstLook(c) \/ Watch(c) \/ SecondLook(c) \/ AwaitActive(c)

OutboundCall(c) == Dial(c) \/ WaitForActive(c) \/ Measure(c)

InboundCall(c) == AwaitInvite(c) \/ Accept(c) \/ WaitForActive(c) \/ Measure(c)

FarEnd(l) == FarEndAnswers(l) \/ FarEndHangsUp(l) \/ RunsCallback(l)

----
\* A call that waits for its line does not miss what happens to it: once the line is
\* active or over, a message says so or is on its way (wait_for_active, which looks at
\* the line before and after it sets the callback).
ActiveIsSeen ==
  \A c \in Calls :
    at[c] = "wait" /\ line[lineOf[c]] # "ringing"
      => told[lineOf[c]] # {} \/ news[lineOf[c]] # {}
====
