---- MODULE Dialer ----
(***************************************************************************)
(* The scheduler's outbound dialer: handle_outbound_call, one action per   *)
(* await that leaves something behind, run by concurrent workers for the   *)
(* jobs of one campaign, one job per contact.                              *)
(*                                                                         *)
(* The jobs are apalis's (external): a job that returns Error::Failed is   *)
(* queued again as it was, one that returns Error::Abort is not, and the   *)
(* jobs of a scheduler that crashed are queued again.  Redis, the database *)
(* and Asterisk outlive the scheduler.  retry_count and next_attempt_at    *)
(* are written but read by nothing that has a caller, and are left out.    *)
(***************************************************************************)
EXTENDS Naturals, FiniteSets

CONSTANTS
  Contacts,    \* the campaign's contacts, one job each
  Exhausted,   \* those whose job says attempt >= MAX_RETRY_ATTEMPTS
  Workers,     \* concurrency of the worker (4)
  CallRates,   \* what call_rate_per_minute may be, 0 included
  MaxFaults    \* bound: calls to Redis, the database or Asterisk that fail, and crashes

ASSUME ContactsAssumption == IsFiniteSet(Contacts) /\ Exhausted \subseteq Contacts
ASSUME RateAssumption == CallRates \subseteq Nat /\ Workers \in Nat \ {0}
ASSUME FaultsAssumption == MaxFaults \in Nat

VARIABLES
  rate,      \* the campaign's call_rate_per_minute, which nothing changes
  status,    \* the campaign's status
  open,      \* whether the hour is within the schedule
  contact,   \* each contact's status
  job,       \* each job: queued, done, dead, or the step a worker is at
  counter,   \* dial_rate_1m, no higher than rate + 1: beyond the limit is beyond
  expires,   \* whether the counter will expire
  window,    \* since the counter expired: calls sent, and calls it could not count
  calls,     \* the calls Asterisk has placed to each contact
  unknown,   \* of each job, the calls whose answer the scheduler never acted on
  faults

rateVars == <<rate, counter, expires>>
vars == <<status, open, contact, job, rateVars, window, calls, unknown, faults>>

Running == {"campaign", "count", "expire", "dial", "mark", "retry", "remaining", "complete"}
AtWork == {k \in Contacts : job[k] \in Running}

\* Mutant: the limit is compared with the count before this call.
Over(count) == count > rate + 1

OverLimit(count) == count > rate

\* Counted in, and not yet at Asterisk.  The first call is past the limit of a rate of 0.
Admitted == {k \in Contacts : job[k] = "dial" \/ (job[k] = "expire" /\ ~OverLimit(1))}

TypeOK ==
  /\ status \in {"active", "paused", "completed"}
  /\ open \in BOOLEAN
  /\ contact \in [Contacts -> {"pending", "calling", "failed"}]
  /\ job \in [Contacts -> Running \cup {"queued", "done", "dead"}]
  /\ Cardinality(AtWork) <= Workers
  /\ rate \in CallRates /\ counter \in 0..rate + 1
  /\ expires \in BOOLEAN
  /\ expires => counter # 0
  /\ window \in [calls : Nat, extra : Nat]
  /\ calls \in [Contacts -> Nat]
  /\ unknown \in [Contacts -> Nat]
  /\ faults \in 0..MaxFaults

Init ==
  /\ status = "active" /\ open \in BOOLEAN
  /\ contact = [k \in Contacts |-> "pending"]
  /\ job = [k \in Contacts |-> "queued"]
  /\ rate \in CallRates /\ counter = 0 /\ expires = FALSE
  /\ window = [calls |-> 0, extra |-> 0]
  /\ calls = [k \in Contacts |-> 0]
  /\ unknown = [k \in Contacts |-> 0]
  /\ faults = 0

Moves(k, from, to) ==
  /\ job[k] = from
  /\ job' = [job EXCEPT ![k] = to]

Fault == faults < MaxFaults /\ faults' = faults + 1

\* A write that works, or fails unseen.
Writes(works) ==
  \/ works /\ UNCHANGED faults
  \/ UNCHANGED <<contact, status>> /\ Fault

\* contacts::update_status and mark_failed_retry
SetsContact(k, to) == contact' = [contact EXCEPT ![k] = to] /\ UNCHANGED status

MarksForRetry(k) == contact' = [contact EXCEPT ![k] = "pending"] /\ UNCHANGED status

----
(* One job *)

\* A worker that is free polls for a job.
Take(k) ==
  /\ Cardinality(AtWork) < Workers
  /\ Moves(k, "queued", "campaign")
  /\ UNCHANGED <<status, open, contact, rateVars, window, calls, unknown, faults>>

\* The campaign is read: gone or unreadable, the job is dead; not active, it counts
\* as done; outside the schedule, it has failed and is queued again.
ReadCampaign(k) ==
  /\ \/ Moves(k, "campaign", "dead") /\ Fault
     \/ /\ Moves(k, "campaign", CASE status # "active" -> "done"
                                  [] status = "active" /\ ~open -> "queued"
                                  [] OTHER -> "count")
        /\ UNCHANGED faults
  /\ UNCHANGED <<status, open, contact, rateVars, window, calls, unknown>>

Lesser(m, n) == IF m <= n THEN m ELSE n

\* Mutant: the expiry is left to others.
CountUntimed(k) ==
  /\ counter' = Lesser(counter + 1, rate + 1)
  /\ Moves(k, "count", IF OverLimit(counter') THEN "queued" ELSE "dial")
  /\ UNCHANGED <<status, open, contact, rate, expires, window, calls, unknown, faults>>

\* increment_rate_counter: INCR.  When it fails the call is made uncounted.
Count(k) ==
  /\ \/ /\ counter' = Lesser(counter + 1, rate + 1)
        /\ Moves(k, "count", CASE counter = 0 -> "expire"
                               [] counter # 0 /\ OverLimit(counter') -> "queued"
                               [] OTHER -> "dial")
        /\ UNCHANGED <<faults, window>>
     \/ /\ Moves(k, "count", "dial")
        /\ window' = [window EXCEPT !.extra = @ + 1]
        /\ UNCHANGED counter /\ Fault
  /\ UNCHANGED <<status, open, contact, rate, expires, calls, unknown>>

\* The first one also sets the 60 s, in a second call, and is then compared with the
\* limit, which may be 0; when EXPIRE fails the error lets the call pass whatever it is.
SetExpiry(k) ==
  /\ \/ /\ Moves(k, "expire", IF OverLimit(1) THEN "queued" ELSE "dial")
        /\ expires' = TRUE
        /\ UNCHANGED <<faults, window>>
     \/ /\ Moves(k, "expire", "dial")
        /\ window' = IF OverLimit(1) THEN [window EXCEPT !.extra = @ + 1] ELSE window
        /\ UNCHANGED expires /\ Fault
  /\ UNCHANGED <<status, open, contact, rate, counter, calls, unknown>>

\* POST /ari/channels.  It may be refused; and it may place the call although the
\* answer does not come within the client's 30 s.
Originate(k) ==
  /\ window' = [window EXCEPT !.calls = @ + 1]
  /\ \/ /\ Moves(k, "dial", "mark")
        /\ calls' = [calls EXCEPT ![k] = @ + 1]
        /\ UNCHANGED <<unknown, faults>>
     \/ /\ Moves(k, "dial", "retry")
        /\ Fault
        /\ UNCHANGED <<calls, unknown>>
     \/ /\ Moves(k, "dial", "retry")
        /\ Fault
        /\ calls' = [calls EXCEPT ![k] = @ + 1]
        /\ unknown' = [unknown EXCEPT ![k] = @ + 1]
  /\ UNCHANGED <<status, open, contact, rateVars>>

\* Mutant: a call that cannot be marked has failed.
MarkOrFail(k) ==
  /\ \/ Moves(k, "mark", "remaining") /\ contact' = [contact EXCEPT ![k] = "calling"] /\ UNCHANGED faults
     \/ Moves(k, "mark", "queued") /\ Fault /\ UNCHANGED contact
  /\ UNCHANGED <<status, open, rateVars, window, calls, unknown>>

\* A failure to write it is ignored.
MarkCalling(k) ==
  /\ Moves(k, "mark", "remaining")
  /\ Writes(SetsContact(k, "calling"))
  /\ UNCHANGED <<open, rateVars, window, calls, unknown>>

\* handle_call_failure; the job has failed, and is queued again with its attempt.
HandleFailure(k) ==
  /\ Moves(k, "retry", "queued")
  /\ Writes(IF k \in Exhausted THEN SetsContact(k, "failed") ELSE MarksForRetry(k))
  /\ UNCHANGED <<open, rateVars, window, calls, unknown>>

\* count_active: the contacts that are neither completed nor failed.
Remaining(k) ==
  /\ \/ /\ Moves(k, "remaining", IF \A c \in Contacts : contact[c] = "failed" THEN "complete" ELSE "done")
        /\ UNCHANGED faults
     \/ Moves(k, "remaining", "done") /\ Fault
  /\ UNCHANGED <<status, open, contact, rateVars, window, calls, unknown>>

\* campaigns::update_status, whatever the campaign has become meanwhile.
CompleteCampaign(k) ==
  /\ Moves(k, "complete", "done")
  /\ Writes(status' = "completed" /\ UNCHANGED contact)
  /\ UNCHANGED <<open, rateVars, window, calls, unknown>>

Work(k) ==
  \/ ReadCampaign(k) \/ Count(k) \/ SetExpiry(k) \/ Originate(k)
  \/ MarkCalling(k) \/ HandleFailure(k) \/ Remaining(k) \/ CompleteCampaign(k)

----
(* Around the jobs *)

\* The 60 s have passed.  The calls past the check belong to no count any more.
CounterExpires ==
  /\ expires
  /\ counter' = 0 /\ expires' = FALSE
  /\ window' = [calls |-> 0, extra |-> Cardinality(Admitted)]
  /\ UNCHANGED <<status, open, contact, job, rate, calls, unknown, faults>>

\* PUT /campaigns/:id/status
SetStatus ==
  /\ \E s \in {"active", "paused"} \ {status} : status' = s
  /\ UNCHANGED <<open, contact, job, rateVars, window, calls, unknown, faults>>

\* The hour.
Clock ==
  /\ open' = ~open
  /\ UNCHANGED <<status, contact, job, rateVars, window, calls, unknown, faults>>

\* The scheduler crashes, and its jobs are queued again.
Crash ==
  /\ Fault
  /\ AtWork # {}
  /\ job' = [k \in Contacts |-> IF k \in AtWork THEN "queued" ELSE job[k]]
  /\ unknown' = [k \in Contacts |->
                   IF job[k] \in {"mark", "remaining", "complete"} THEN unknown[k] + 1 ELSE unknown[k]]
  /\ UNCHANGED <<status, open, contact, rateVars, window, calls>>

Next ==
  \/ \E k \in Contacts : Take(k) \/ Work(k)
  \/ CounterExpires \/ SetStatus \/ Clock \/ Crash

\* Workers go on, the queue passes no job over for ever, and Redis expires keys.
\* What fails, crashes or is paused is up to the environment.
Fairness ==
  /\ \A k \in Contacts : SF_vars(Take(k)) /\ WF_vars(Work(k))
  /\ WF_vars(CounterExpires)

Spec == Init /\ [][Next]_vars
FairSpec == Spec /\ Fairness

----
(* Properties *)

\* A contact is called once, and again only when the scheduler could not know of the
\* call before: the answer was lost, or it crashed before the job was done.
CalledOnce == \A k \in Contacts : calls[k] <= 1 + unknown[k]

\* The state of the jobs and of what they have called.
DialInv == TypeOK /\ CalledOnce

\* In the life of the counter no more calls are sent than the campaign's rate, besides
\* those that were past the check when it expired and those it could not count.
RateHeld == window.calls <= rate + window.extra

\* The counter has lost its expiry: EXPIRE failed, or the scheduler crashed before it.
Stuck == faults # 0 /\ counter # 0 /\ ~expires /\ \A k \in Contacts : job[k] # "expire"

Ended(k) == job[k] \in {"done", "dead"}

\* An active campaign within its schedule comes to the end of every job, whatever the
\* order and the failures, unless its rate is 0, which lets no call pass that Redis can
\* count, or its counter is stuck.
EveryJobEnds ==
  <>[](status = "active" /\ open) /\ rate # 0 => <>Stuck \/ \A k \in Contacts : <>Ended(k)
====
