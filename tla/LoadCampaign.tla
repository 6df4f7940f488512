---- MODULE LoadCampaign ----
(***************************************************************************)
(* A campaign of the load test (runner.rs): the configuration it accepts,  *)
(* the loop that starts calls within its limits and collects their         *)
(* results, and the report.  Calls of the phone backend are those of       *)
(* PhoneCall; those of the other backends (AsteriskCalls, WebSocketCall)   *)
(* only end here, one way or another.  What audio they carry is CallerAudio *)
(* and RtpAudio.                                                           *)
(*                                                                         *)
(* Time passes in ticks and stops at MaxTime, when everything that could   *)
(* be waited for is due.  A recording and the end of the playback in it    *)
(* are chosen when the report first reads them.                            *)
(***************************************************************************)
EXTENDS PhoneCall, CallAnalysis, CallerAudio, RtpAudio

CONSTANTS
  Configs,     \* configuration files
  MaxTime,     \* bound on the clock
  Recordings(_)   \* what each of so many calls may have heard

\* Numbers, a clock on which every soak ends, and recordings in windows.
ASSUME CampaignAssumption ==
  /\ MaxTime \in Nat
  /\ \A cf \in Configs :
       /\ cf.concurrency \in Nat /\ cf.total \in Nat /\ cf.rampUp \in Nat /\ cf.gap \in Nat
       /\ cf.soak \in 0 .. MaxTime
  /\ \A n \in 0 .. MaxCalls : Recordings(n) \subseteq Seq(BOOLEAN)

VARIABLES
  config,
  pc,         \* where run_campaign is
  now,        \* time since started_at
  deadline,   \* soak_deadline, on the same clock
  index,      \* call_index
  startedAt,  \* when each call was spawned, for the properties
  raw,        \* raw_results: the calls whose result has been collected
  results,    \* call_results, with the recordings they were made from
  report      \* the summary written in the end

campaignVars == <<config, pc, now, deadline, index, startedAt, raw, results, report>>
vars == <<phoneVars, campaignVars>>

\* Calls are numbered from 0 in the code and from 1 here.
Pending == {c \in Calls : c <= index} \ ToSet(raw)
Stopped == {"refused", "aborted", "done"}

RampDelay(i) ==
  IF i < config.concurrency THEN (i * config.rampUp) \div config.concurrency ELSE 0

\* 1 / call_rate_per_second per call, or 0.
RateDelay(i) == i * config.gap

TypeOK ==
  /\ PhoneTypeOK
  /\ config \in Configs
  /\ pc \in {"load", "build", "loop", "rampUp", "rate", "slot", "report", "summary"} \cup Stopped
  /\ now \in 0 .. MaxTime /\ deadline \in 0 .. MaxTime
  /\ index \in 0 .. MaxCalls
  /\ startedAt \in [Calls -> 0 .. MaxTime]
  /\ raw \in Seq(Calls)

Init ==
  /\ PhoneInit
  /\ config \in Configs
  /\ pc = "load" /\ now = 0 /\ deadline = 0 /\ index = 0
  /\ startedAt = [c \in Calls |-> 0]
  /\ raw = <<>> /\ results = None /\ report = None

Steps(from, to) == pc = from /\ pc' = to

\* What only the loop changes.
Loop == UNCHANGED <<config, now, deadline, results, report>>

----
(* validate, build_backend *)

SectionAccepted(section) == section = "complete"

\* Mutant: nothing has to limit the campaign.
AcceptedUnlimited(cf) ==
  /\ SectionAccepted(cf.section)
  /\ cf.inbound => cf.kind = "xphone"
  /\ cf.concurrency > 0

Accepted(cf) ==
  /\ SectionAccepted(cf.section)
  /\ cf.inbound => cf.kind = "xphone"
  /\ cf.concurrency > 0
  /\ cf.total > 0 \/ cf.soak > 0

LoadConfig ==
  /\ Steps("load", IF Accepted(config) THEN "build" ELSE "refused")
  /\ UNCHANGED <<phoneVars, config, now, deadline, index, startedAt, raw, results, report>>

\* The audio, the directories and the backend; all of it on the soak's time.
Build ==
  /\ \/ Steps("build", "loop") /\ IF config.kind = "xphone" THEN Register ELSE UNCHANGED phoneVars
     \/ Steps("build", "aborted") /\ UNCHANGED phoneVars
  /\ deadline' \in 0 .. config.soak
  /\ UNCHANGED <<config, now, index, startedAt, raw, results, report>>

----
(* The loop of run_campaign *)

\* A result that is there is taken out of pending.
TakeResult ==
  \E c \in Pending :
    /\ at[c] \in Over
    /\ raw' = Append(raw, c)
    /\ UNCHANGED <<phoneVars, index, startedAt>>

CanSpawn ==
  /\ config.soak > 0 => now < deadline
  /\ config.total > 0 => index < config.total

\* MaxCalls bounds a soak.
NextSpawn ==
  /\ CanSpawn /\ Cardinality(Pending) < config.concurrency
  /\ index < MaxCalls
  /\ Steps("loop", "rampUp")
  /\ Loop /\ UNCHANGED <<phoneVars, index, startedAt, raw>>

\* After the last result nothing looks at the phone, which goes with the backend.
NextResult ==
  /\ ~(CanSpawn /\ Cardinality(Pending) < config.concurrency)
  /\ \/ Pending = {} /\ Steps("loop", "report") /\ Disconnect /\ UNCHANGED <<index, startedAt, raw>>
     \/ Steps("loop", "loop") /\ TakeResult
  /\ Loop

RampUp ==
  /\ now >= RampDelay(index)
  /\ Steps("rampUp", "rate")
  /\ Loop /\ UNCHANGED <<phoneVars, index, startedAt, raw>>

FirstPhase ==
  CASE config.inbound /\ config.kind = "xphone" -> "invite"
    [] config.inbound /\ config.kind # "xphone" -> "failed"
    [] ~config.inbound /\ config.kind = "xphone" -> "dial"
    [] OTHER -> "elsewhere"

Spawn ==
  /\ index' = index + 1
  /\ startedAt' = [startedAt EXCEPT ![index + 1] = now]
  /\ at' = [at EXCEPT ![index + 1] = FirstPhase]
  /\ UNCHANGED <<registered, line, wanted, news, watched, told, incoming, lineOf, raw>>

RateLimit ==
  /\ IF now >= RateDelay(index)
     THEN Steps("rate", "loop") /\ Spawn
     ELSE Steps("rate", "slot") /\ UNCHANGED <<phoneVars, index, startedAt, raw>>
  /\ Loop

\* Mutant: the call is started whatever ended the wait.
AwaitSlotOnce ==
  /\ now >= RateDelay(index) \/ \E c \in Pending : at[c] \in Over
  /\ Steps("slot", "loop") /\ Spawn
  /\ Loop

\* Waiting for the rate to allow the next call; a result that comes first sends the
\* loop round again.
AwaitSlot ==
  /\ \/ now >= RateDelay(index) /\ Steps("slot", "loop") /\ Spawn
     \/ Steps("slot", "loop") /\ TakeResult
  /\ Loop

----
(* The results *)

CallResult(c, heard, txEnd) ==
  IF at[c] = "failed" THEN [index |-> c, outcome |-> "failed", analysis |-> None]
  ELSE LET analysis == Analysis(heard, txEnd)
       IN [index |-> c, outcome |-> CallOutcome(analysis), analysis |-> analysis]

\* By call, as sort_by_key leaves the results.
ByCall ==
  {p \in (DOMAIN raw) \X (DOMAIN raw) :
     raw[p[1]] < raw[p[2]] \/ (raw[p[1]] = raw[p[2]] /\ p[1] < p[2])}

\* sort_by_key, then what comes of every call.
CallResults ==
  /\ Steps("report", "summary")
  /\ \E txEnd \in 1 .. 2 : LET had == {c \in ToSet(raw) : at[c] = "heard"} IN
     \E heard \in [had -> Recordings(Cardinality(had))] :
       LET order == InOrder(DOMAIN raw, ByCall)
           Result(c) == CallResult(c, IF at[c] = "heard" THEN heard[c] ELSE <<>>, txEnd)
       IN results' = [heard |-> heard, txEnd |-> txEnd,
                      calls |-> [i \in DOMAIN order |-> Result(raw[order[i]])]]
  /\ UNCHANGED <<phoneVars, config, now, deadline, index, startedAt, raw, report>>

Report ==
  /\ Steps("summary", "done")
  /\ report' = LET calls == results.calls
               IN [summary |-> Summary(calls), responseBins |-> FirstResponseBins(calls),
                   longestBins |-> LongestGapBins(calls), gapBins |-> AllGapBins(calls),
                   inspected |-> InspectionCalls(calls)]
  /\ UNCHANGED <<phoneVars, config, now, deadline, index, startedAt, raw, results>>

\* A file cannot be written, and nothing is reported of any call.
ReportFails ==
  /\ Steps("report", "aborted") \/ Steps("summary", "aborted")
  /\ UNCHANGED <<phoneVars, config, now, deadline, index, startedAt, raw, results, report>>

RunCampaign ==
  LoadConfig \/ Build \/ NextSpawn \/ NextResult \/ RampUp \/ RateLimit \/ AwaitSlot
  \/ ReportFails \/ CallResults \/ Report

----
(* The rest *)

\* The time of a campaign that reads no clock is left out.
Tick ==
  /\ pc \in {"loop", "rampUp", "rate", "slot"} /\ now < MaxTime
  /\ config.soak + config.rampUp + config.gap > 0
  /\ now' = now + 1
  /\ UNCHANGED <<phoneVars, config, pc, deadline, index, startedAt, raw, results, report>>

\* A call of another backend ends.
EndsElsewhere(c) ==
  /\ \E end \in Over : Goes(c, "elsewhere", end)
  /\ UNCHANGED <<registered, line, wanted, news, watched, told, incoming, lineOf>>

Call(c) ==
  /\ IF config.inbound THEN InboundCall(c) ELSE OutboundCall(c) \/ EndsElsewhere(c)
  /\ UNCHANGED campaignVars

Phone ==
  /\ registered
  /\ \E l \in Lines : FarEnd(l) \/ (config.inbound /\ Rings(l))
  /\ UNCHANGED campaignVars

Next == RunCampaign \/ Tick \/ Phone \/ \E c \in Calls : Call(c)

Spec == Init /\ [][Next]_vars

\* Every call has its time-outs, and the clock goes on; the far ends do as they like.
FairSpec ==
  /\ Spec
  /\ WF_vars(RunCampaign) /\ WF_vars(Tick)
  /\ \A c \in Calls : WF_vars(Call(c))

----
(* Properties *)

\* Calls start no faster than the rate and the ramp-up allow, no more than concurrency at
\* a time and no more than total_calls; of a soak at most one starts after the deadline,
\* the one whose delay crossed it (the checks at the top of run_campaign's loop are made
\* before the sleeps, and again after each result).
LimitsKept ==
  pc \notin {"load", "refused", "aborted"} =>
    /\ \A c \in 1 .. index : startedAt[c] >= RampDelay(c - 1) /\ startedAt[c] >= RateDelay(c - 1)
    /\ Cardinality(Pending) <= config.concurrency
    /\ config.total > 0 => index <= config.total
    /\ config.soak > 0 => Cardinality({c \in 1 .. index : startedAt[c] >= deadline}) <= 1

\* What the calls of a campaign carry is the file that it was given: nothing is read past
\* its end or lost in length, on its way through the code of a telephone call, or in the
\* packets of one.
AudioKept == ReadsInside /\ LengthKept /\ CodecFaithful /\ CodecMonotone /\ PayloadFound

\* The state of a campaign and of its calls, and the audio of these.
CampaignInv == TypeOK /\ LimitsKept /\ AudioKept

\* Reference: a response is heard when a window is voiced after the one in which the
\* playback ended, or in that one if another follows it.
ReferenceResponse(heard, txEnd) ==
  LET late == {i \in DOMAIN heard : heard[i] /\ (i > txEnd \/ (i = txEnd /\ i < Len(heard)))}
  IN IF late = {} THEN None ELSE Max({0, Min(late) - 1 - txEnd})

\* Reference: the longest silence between voiced windows, less the window that the region
\* before it is closed with.
ReferenceGap(heard) ==
  Max({0} \cup {p[2] - p[1] - 2 : p \in
                  {p \in (DOMAIN heard) \X (DOMAIN heard) :
                     p[1] < p[2] /\ \A k \in p[1] .. p[2] : heard[k] <=> k \in {p[1], p[2]}}})

\* Whatever order calls start and end in, the report has each call that was started, once
\* and in order; a call that failed is reported failed, any other as its recording says;
\* p50 is a median of the responses, every call is in one bin of each histogram, and the
\* calls are shown from the worst to the best (run_campaign, analysis.rs,
\* CampaignSummary::compute, report.rs).
CallsReported ==
  pc = "done" =>
    LET summary == report.summary
        responses == FirstResponses(summary.calls)
    IN /\ Len(summary.calls) = index
       /\ \A c \in 1 .. index :
            LET result == summary.calls[c]
            IN /\ result.index = c
               /\ (at[c] = "failed") <=> (result.outcome = "failed")
               /\ at[c] = "heard" =>
                    /\ result.analysis.firstResponse = ReferenceResponse(results.heard[c], results.txEnd)
                    /\ result.analysis.longestGap = ReferenceGap(results.heard[c])
                    /\ (result.outcome = "success") <=> (result.analysis.firstResponse # None)
       /\ responses # <<>> =>
            /\ 2 * Cardinality({i \in DOMAIN responses : responses[i] <= summary.p50}) >= Len(responses)
            /\ 2 * Cardinality({i \in DOMAIN responses : responses[i] >= summary.p50}) >= Len(responses)
       /\ LET bins == report.responseBins.answered
          IN bins[0] + bins[1] + bins[2] + bins[3] + bins[4] + report.responseBins.unanswered = index
       /\ LET bins == report.longestBins
          IN /\ bins[0] + bins[1] + bins[2] + bins[3] + bins[4] + bins[5] + bins[6]
                  = Cardinality(Analysed(summary.calls))
             /\ bins[0] = Cardinality(Analysed(summary.calls)) => \A b \in 0 .. 5 : report.gapBins[b] = 0
       /\ \A i, j \in DOMAIN report.inspected :
            i < j => ~Outranks(Rank(summary.calls[report.inspected[j]]),
                               Rank(summary.calls[report.inspected[i]]))

\* Every configuration that is accepted makes a campaign that ends, whatever the far ends
\* do (validate, run_campaign, the time-outs of XphoneBackend).
CampaignEnds == <>(pc \in Stopped)
====
