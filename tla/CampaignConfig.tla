---- MODULE CampaignConfig ----
(***************************************************************************)
(* The configuration of one campaign: its row in the database, the copy    *)
(* that Redis keeps for 300 s, and the channel on which a change is told   *)
(* to the sessions that run.  A configuration is its version; the columns  *)
(* are not told apart, since each UPDATE returns the whole row and each    *)
(* route handles what it returned in the same way.                         *)
(*                                                                         *)
(* The routes of the API write; whoever starts a call reads, with the      *)
(* operators at the end.                                                   *)
(***************************************************************************)
EXTENDS Naturals, Sequences

CONSTANTS
  Admins,   \* requests to the API, the first of which created the campaign
  Creator,
  Calls,    \* the sessions that may listen for changes
  None,     \* no row, no copy, no configuration
  Serial    \* whether one request is answered before the next one is made

ASSUME AdminsAssumption == Creator \in Admins /\ Serial \in BOOLEAN
ASSUME NoneAssumption == None \notin Nat

VARIABLES
  row,       \* the version in the database, None once the campaign is deleted
  newest,    \* the number of versions written
  cached,    \* the version in Redis
  request,   \* where each request is, and the row its UPDATE returned
  listener,  \* of each call: off, named (a campaign), armed (spawned), on
  inbox      \* of each call: what was published since it subscribed

configVars == <<row, newest, cached, request>>
listenVars == <<listener, inbox>>

At(a, pc) == request[a].pc = pc
Goes(a, pc) == request' = [request EXCEPT ![a].pc = pc]
Busy == \E a \in Admins : request[a].pc \notin {"idle", "answered"}

\* create_campaign has inserted the row and is about to cache it.
ConfigInit ==
  /\ row = 1
  /\ newest = 1
  /\ cached = None
  /\ request = [a \in Admins |-> [pc |-> IF a = Creator THEN "cache" ELSE "idle",
                                  campaign |-> 1]]
  /\ listener = [c \in Calls |-> "off"]
  /\ inbox = [c \in Calls |-> <<>>]

\* Mutant: the row as it was before the UPDATE.
ReturnedOld == row

\* The UPDATE of update_status, update_prompt or update_metrics: the row it returns
\* is the new one, of this tenant's campaign if there still is one.
Returned == IF row = None THEN None ELSE newest + 1

\* update_campaign_status, ..._prompt or ..._metrics: a campaign that is gone is
\* NotFound, which the request is answered with.
UpdateRow(a) ==
  /\ At(a, "idle")
  /\ Serial => ~Busy
  /\ IF Returned = None
     THEN Goes(a, "answered") /\ UNCHANGED <<row, newest>>
     ELSE /\ newest' = newest + 1
          /\ row' = newest'
          /\ request' = [request EXCEPT ![a] = [pc |-> "cache", campaign |-> Returned]]
  /\ UNCHANGED <<cached, listenVars>>

\* cache_and_publish_campaign: set_config; if that fails nothing is published.
RefreshCopy(a) ==
  /\ At(a, "cache")
  /\ \/ cached' = request[a].campaign /\ Goes(a, "publish")
     \/ UNCHANGED cached /\ Goes(a, "answered")
  /\ UNCHANGED <<row, newest, listenVars>>

\* Redis hands a message to those subscribed now, and to nobody else.
Told(version) ==
  [c \in Calls |-> IF listener[c] = "on" THEN Append(inbox[c], version) ELSE inbox[c]]

\* cache_and_publish_campaign: publish_update, whose failure is only logged.
PublishUpdate(a) ==
  /\ At(a, "publish")
  /\ Goes(a, "answered")
  /\ inbox' \in {Told(request[a].campaign), inbox}
  /\ UNCHANGED <<row, newest, cached, listener>>

\* delete_campaign: the DELETE,
DeleteRow(a) ==
  /\ At(a, "idle")
  /\ Serial => ~Busy
  /\ row' = None
  /\ Goes(a, IF row = None THEN "answered" ELSE "invalidate")
  /\ UNCHANGED <<newest, cached, listenVars>>

\* then the copy; that this failed is not even logged.
Invalidate(a) ==
  /\ At(a, "invalidate")
  /\ Goes(a, "answered")
  /\ cached' \in {None, cached}
  /\ UNCHANGED <<row, newest, listenVars>>

\* set_ex: 300 s have passed since the copy was made.
CopyExpires ==
  /\ cached # None
  /\ cached' = None
  /\ UNCHANGED <<row, newest, request, listenVars>>

\* The rest of a request once it is under way.
Answer(a) == RefreshCopy(a) \/ PublishUpdate(a) \/ Invalidate(a)

ConfigNext ==
  \/ \E a \in Admins : UpdateRow(a) \/ DeleteRow(a) \/ Answer(a)
  \/ CopyExpires

----
(* What a call reads. *)

\* get_config: the copy, and nothing if there is none or Redis fails.
CopyRead(version) == version \in {cached, None}

\* get_by_id: the row, and nothing if there is none or the query fails.
RowRead(version) == version \in {row, None}

\* The back-fill: set_config with what was read, or a failure nobody sees.
BackFilled(version) == cached' \in {version, cached}

----
(* The task of spawn_campaign_reload_task. *)

\* subscribe_updates: it listens from now on, or gives up.
Subscribe(c) ==
  /\ listener[c] = "armed"
  /\ \E state \in {"on", "off"} : listener' = [listener EXCEPT ![c] = state]
  /\ UNCHANGED <<inbox, configVars>>

\* One turn of its loop: the next message.
Hears(c) ==
  /\ listener[c] = "on"
  /\ inbox[c] # <<>>
  /\ inbox' = [inbox EXCEPT ![c] = Tail(@)]
  /\ UNCHANGED <<listener, configVars>>

\* handle.abort()
StopsListening(c) ==
  /\ listener' = [listener EXCEPT ![c] = "off"]
  /\ inbox' = [inbox EXCEPT ![c] = <<>>]

====
