---- MODULE MCLoadCampaign ----
EXTENDS LoadCampaign

Outbound == [section |-> "complete", kind |-> "xphone", inbound |-> FALSE, concurrency |-> 2,
             total |-> 2, soak |-> 0, rampUp |-> 0, gap |-> 0]

\* One call may have heard anything, several the cases that differ.
MCRecordings(n) ==
  IF n <= 1 THEN UNION {[1 .. k -> BOOLEAN] : k \in 1 .. 4}
  ELSE {<<FALSE>>, <<FALSE, FALSE, TRUE>>, <<TRUE, FALSE, FALSE, TRUE>>}

\* The phone both ways, a rate and a ramp-up, a soak, and what should be refused.
MCConfigs ==
  {Outbound, [Outbound EXCEPT !.inbound = TRUE],
   [Outbound EXCEPT !.kind = "websocket", !.total = 3, !.rampUp = 2, !.gap = 1],
   [Outbound EXCEPT !.kind = "websocket", !.concurrency = 1, !.total = 0, !.soak = 2, !.gap = 1],
   [Outbound EXCEPT !.kind = "websocket", !.inbound = TRUE],
   [Outbound EXCEPT !.kind = "websocket", !.total = 0],
   [Outbound EXCEPT !.concurrency = 0], [Outbound EXCEPT !.section = "incomplete"]}
====
