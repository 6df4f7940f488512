---- MODULE CallAnalysis ----
(***************************************************************************)
(* What the load test makes of the audio it recorded: analysis.rs for one  *)
(* call, report.rs for a campaign.  A recording is a sequence of analysis  *)
(* windows, each voiced or not; every time is a number of windows.         *)
(***************************************************************************)
EXTENDS Integers, Sequences, SequencesExt, FiniteSetsExt

CONSTANTS
  WindowMs,    \* the length of a window
  StutterGap,  \* a gap below it, in windows, counts as a stutter
  None         \* Rust's Option::None

ASSUME AnalysisAssumption == WindowMs \in Nat \ {0} /\ StutterGap \in Nat

\* The elements of S sorted: before has the pairs whose first goes before the second.
InOrder(S, before) ==
  CHOOSE s \in SetToSeqs(S) : \A i, j \in DOMAIN s : i < j => <<s[i], s[j]>> \in before

Smaller(S) == {p \in S \X S : p[1] < p[2]}

----
(* analysis.rs *)

\* A region is closed by the silent window after it, and ends where that window ends.
RegionEnd(heard, i) ==
  LET silent == {j \in DOMAIN heard : j > i /\ ~heard[j]}
  IN IF silent = {} THEN Len(heard) ELSE Min(silent)

Starts(heard) == {i \in DOMAIN heard : heard[i] /\ (i = 1 \/ ~heard[i - 1])}

VoicedRegions(heard) ==
  LET starts == InOrder(Starts(heard), Smaller(Starts(heard)))
  IN [k \in DOMAIN starts |-> [start |-> starts[k] - 1, end |-> RegionEnd(heard, starts[k])]]

VoicedDuration(heard, regions) ==
  Min({Len(heard), MapThenSumSet(LAMBDA r : r.end - r.start, ToSet(regions))})

\* Mutant: the region that the playback ends in is passed over.
FirstResponseAfter(regions, txEnd) ==
  LET late == {i \in DOMAIN regions : regions[i].start > txEnd}
  IN IF late = {} THEN None ELSE regions[Min(late)].start - txEnd

FirstResponse(regions, txEnd) ==
  LET late == {i \in DOMAIN regions : regions[i].end > txEnd}
  IN IF late = {} THEN None ELSE Max({0, regions[Min(late)].start - txEnd})

Gaps(regions) ==
  [i \in 1 .. Max({0, Len(regions) - 1}) |-> Max({0, regions[i + 1].start - regions[i].end})]

Analysis(heard, txEnd) ==
  LET regions == VoicedRegions(heard)
      gaps == Gaps(regions)
      voiced == VoicedDuration(heard, regions)
  IN [recorded |-> Len(heard), voiced |-> voiced, silence |-> Len(heard) - voiced,
      firstResponse |-> FirstResponse(regions, txEnd), longestGap |-> Max({0} \cup ToSet(gaps)),
      stutters |-> Cardinality({i \in DOMAIN gaps : gaps[i] > 0 /\ gaps[i] < StutterGap}),
      gaps |-> gaps]

----
(* report.rs *)

CallOutcome(analysis) ==
  CASE analysis.firstResponse # None -> "success"
    [] analysis.firstResponse = None /\ analysis.recorded = 0 -> "no_audio"
    [] OTHER -> "completed_without_response"

Percentile(sorted, pct) ==
  IF sorted = <<>> THEN None ELSE sorted[((Len(sorted) - 1) * pct) \div 100 + 1]

\* The calls that were analysed, those that failed having nothing to analyse.
Analysed(results) == {c \in DOMAIN results : results[c].analysis # None}

Answered(results) == {c \in Analysed(results) : results[c].analysis.firstResponse # None}

FirstResponses(results) ==
  LET Response(c) == results[c].analysis.firstResponse
      sooner == {p \in Answered(results) \X Answered(results) :
                   \/ Response(p[1]) < Response(p[2])
                   \/ Response(p[1]) = Response(p[2]) /\ p[1] < p[2]}
      order == InOrder(Answered(results), sooner)
  IN [k \in DOMAIN order |-> Response(order[k])]

Average(times) == IF times = <<>> THEN None ELSE FoldSeq(+, 0, times) \div Len(times)

TotalGap(results) == MapThenSumSet(LAMBDA c : results[c].analysis.longestGap, Analysed(results))

TotalStutters(results) == MapThenSumSet(LAMBDA c : results[c].analysis.stutters, Analysed(results))

Summary(results) ==
  LET responses == FirstResponses(results)
      successful == Cardinality({c \in DOMAIN results : results[c].outcome = "success"})
  IN [calls |-> results, successful |-> successful, failed |-> Len(results) - successful,
      p50 |-> Percentile(responses, 50), p90 |-> Percentile(responses, 90),
      p99 |-> Percentile(responses, 99), avgFirst |-> Average(responses),
      avgGap |-> IF results = <<>> THEN 0 ELSE TotalGap(results) \div Len(results),
      stutters |-> TotalStutters(results)]

Outcomes == <<"success", "completed_without_response", "no_audio", "failed">>

\* How many of some times fall into each bin: bin 0 up to the first edge, the last beyond all.
Binned(time, edges) ==
  LET Bin(x) == Cardinality({e \in DOMAIN edges : time[x] * WindowMs > edges[e]})
  IN [b \in 0 .. Len(edges) |-> Cardinality({x \in DOMAIN time : Bin(x) = b})]

FirstResponseBins(results) ==
  [answered |-> Binned([c \in Answered(results) |-> results[c].analysis.firstResponse],
                       <<250, 500, 1000, 2000>>),
   unanswered |-> Len(results) - Cardinality(Answered(results))]

LongestGapBins(results) ==
  Binned([c \in Analysed(results) |-> results[c].analysis.longestGap],
         <<0, 250, 500, 1000, 2000, 5000>>)

\* The gaps of all calls, each the call and the place of the gap in it.
AllGaps(results) ==
  UNION {{<<c, i>> : i \in {i \in DOMAIN results[c].analysis.gaps : results[c].analysis.gaps[i] > 0}} :
           c \in Analysed(results)}

AllGapBins(results) ==
  Binned([g \in AllGaps(results) |-> results[g[1]].analysis.gaps[g[2]]],
         <<250, 500, 1000, 2000, 5000>>)

\* The calls a report shows first: worst outcome, then latest response (none being the
\* latest), longest gap and most stutters.
Rank(result) ==
  LET a == result.analysis
      outcome == CHOOSE i \in DOMAIN Outcomes : Outcomes[i] = result.outcome
  IN IF a = None THEN <<outcome, 1, 0, 0, 0>>
     ELSE IF a.firstResponse = None THEN <<outcome, 1, 0, a.longestGap, a.stutters>>
     ELSE <<outcome, 0, a.firstResponse, a.longestGap, a.stutters>>

Outranks(r, s) ==
  \E i \in DOMAIN r : r[i] > s[i] /\ \A j \in 1 .. i - 1 : r[j] = s[j]

InspectionCalls(results) ==
  LET RankOf(c) == Rank(results[c])
      worse == {p \in (DOMAIN results) \X (DOMAIN results) :
                  \/ Outranks(RankOf(p[1]), RankOf(p[2]))
                  \/ RankOf(p[1]) = RankOf(p[2]) /\ p[1] < p[2]}
  IN SubSeq(InOrder(DOMAIN results, worse), 1, Min({8, Len(results)}))
====
