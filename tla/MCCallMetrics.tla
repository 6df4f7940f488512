---- MODULE MCCallMetrics ----
EXTENDS CallMetrics

Metric(key, tool) == [key |-> key, tool |-> tool, collection |-> "agent_tool"]

\* Two tools of one name, a metric that has the key of a counter, one that is not for
\* the agent, and an update that gives a tool another metric.
MCMetrics ==
  <<<<Metric("interest", "record"), Metric("outcome", "record"), Metric("turn_count", "count"),
      [key |-> "sentiment", tool |-> "sentiment", collection |-> "post_call_analysis"]>>,
    <<Metric("outcome", "record"), Metric(None, "count")>>>>
====
