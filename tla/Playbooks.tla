------------------------------ MODULE Playbooks ------------------------------
(***************************************************************************)
(* What the four playbooks of app/playbooks conclude from what their       *)
(* datasource calls return: the hypotheses of the list they return, in its *)
(* order, with the evidence for and against each.                          *)
(*                                                                         *)
(* An observation has one field for every answer a hypothesis depends on,  *)
(* cut into the classes the code tells apart: Failed when the call raised  *)
(* (safe marks the source unavailable and returns None), Absent when it    *)
(* answered without data, else a class of values.  Where the code compares *)
(* a number from below and from above, "edge" is a value neither           *)
(* comparison accepts: between the thresholds, equal to the one, or NaN.   *)
(* The calls whose answers only become evidence text are counted in        *)
(* "others": how many of them failed.                                      *)
(***************************************************************************)
EXTENDS Integers, FiniteSets, Sequences

CONSTANT MaxOthers     \* bound: failures counted among the calls nobody reads

ASSUME OthersAssumption == MaxOthers \in Nat

Failed == "failed"
Absent == "absent"

Sources == {"prometheus", "loki", "tempo", "docker", "prometheus/tempo"}

\* An item of evidence: the source its description begins with, and what it is.
Item(source, what) == <<source, what>>

\* The items whose condition holds.
When(condition, source, what) == IF condition THEN {Item(source, what)} ELSE {}

Hypothesis(name, supporting, contradicting) ==
    [name |-> name, supporting |-> supporting, contradicting |-> contradicting]

\* Every weight is the default 1.0.
Score(h) == Cardinality(h.supporting) - Cardinality(h.contradicting)

\* Mutation: sorted without reverse=True.
Top_Ascending(hypotheses) ==
    hypotheses[CHOOSE n \in DOMAIN hypotheses :
                  \A m \in DOMAIN hypotheses : Score(hypotheses[n]) <= Score(hypotheses[m])]

\* rank(...)[0]: the highest score; the sort is stable, so the first of equals.
Top(hypotheses) ==
    hypotheses[CHOOSE n \in DOMAIN hypotheses :
                  \A m \in DOMAIN hypotheses :
                      /\ Score(hypotheses[m]) <= Score(hypotheses[n])
                      /\ m < n => Score(hypotheses[m]) < Score(hypotheses[n])]

\* How many entries bundle.unavailable_sources has: one per failed call.
Failures(seen) ==
    Cardinality({f \in DOMAIN seen \ {"others"} : seen[f] = Failed}) + seen.others
-----------------------------------------------------------------------------
(* high_latency.py                                                         *)

\* traces: none found, the detail of the first one failed, or it shows that
\* the time is spent in the database or elsewhere.
LatencyObservations ==
    [req_rate : {Failed, Absent, "zero", "some"},
     cpu : {Failed, Absent, "normal", "edge", "high"},
     mem : {Failed, Absent, "normal", "high"},
     mysql_util : {Failed, Absent, "low", "edge", "high"},
     mysql_slow : {Failed, Absent, "zero", "some"},
     slow_traces : {Failed, Absent, "elsewhere", "database"},
     trace_detail : {Failed, "read"},
     conn_errors : {Failed, Absent, "some"},
     others : 0..MaxOthers]

\* The detail of a trace is asked for only when there is a trace.
LatencyPossible(seen) ==
    seen.trace_detail = Failed => seen.slow_traces = "elsewhere"

LatencyHypotheses(seen) ==
    LET database == seen.slow_traces = "database"
        saturated == seen.mysql_util = "high"
    IN  <<Hypothesis("database bottleneck",
              When(database, "tempo", "database spans dominate")
                \cup When(saturated, "prometheus", "connection utilization")
                \cup When(seen.mysql_slow = "some", "prometheus", "slow queries")
                \cup When(seen.conn_errors = "some", "loki", "connection errors"),
              When(seen.cpu = "normal", "prometheus", "backend CPU normal")),
          Hypothesis("resource exhaustion",
              When(seen.cpu = "high", "prometheus", "CPU usage high")
                \cup When(seen.mem = "high", "prometheus", "memory usage elevated"),
              {}),
          Hypothesis("traffic spike",
              When(/\ seen.req_rate = "some" /\ ~database
                   /\ seen.mysql_util \in {Failed, Absent, "low"},
                   "prometheus", "request rate"),
              When(database \/ saturated, "prometheus/tempo", "bottleneck identified"))>>
-----------------------------------------------------------------------------
(* http_500.py                                                             *)

Http500Observations ==
    [backend_errors : {Failed, Absent, "some"},
     failed_traces : {Failed, Absent, "some"},
     conn_errors : {Failed, Absent, "some"},
     mysql_util : {Failed, Absent, "low", "high"},
     others : 0..MaxOthers]

Http500Hypotheses(seen) ==
    LET refused == seen.conn_errors = "some"
    IN  <<Hypothesis("database dependency",
              When(refused, "loki", "connection errors")
                \cup When(seen.mysql_util = "high", "prometheus", "connection utilization")
                \cup When(seen.failed_traces = "some", "tempo", "failed traces"),
              {}),
          Hypothesis("application-level error",
              When(seen.backend_errors = "some" /\ ~refused, "loki", "5xx log lines"),
              When(refused, "loki", "connection errors"))>>
-----------------------------------------------------------------------------
(* mysql_down.py                                                           *)

MySQLDownObservations ==
    [mysql_up : {Failed, Absent, "0", "1"},
     container : {Failed, "stopped", "running", "restarted"},
     conn_errors : {Failed, Absent, "some"},
     backend_5xx : {Failed, Absent, "low", "high"},
     others : 0..MaxOthers]

MySQLDownHypotheses(seen) ==
    LET running == seen.container \in {"running", "restarted"}
    IN  <<Hypothesis("mysql down",
              When(seen.mysql_up = "0", "prometheus", "mysql_up is 0")
                \cup When(seen.container = "stopped", "docker", "not running")
                \cup When(seen.container = "restarted", "docker", "restart_count")
                \cup When(seen.conn_errors = "some", "loki", "connection failures")
                \cup When(seen.backend_5xx = "high", "prometheus", "5xx rate elevated"),
              {}),
          Hypothesis("exporter only",
              When(running /\ seen.mysql_up = "0", "docker", "running, mysql_up still 0"),
              {})>>
-----------------------------------------------------------------------------
(* default.py                                                              *)

DefaultObservations ==
    [target_up : {Failed, Absent, "up", "down"},
     cpu : {Failed, Absent, "normal", "high"},
     mem : {Failed, Absent, "normal", "high"},
     recent_errors : {Failed, Absent, "some"},
     others : 0..MaxOthers]

DefaultHypotheses(seen) ==
    <<Hypothesis("infrastructure",
          When(seen.cpu = "high", "prometheus", "host CPU busy")
            \cup When(seen.mem = "high", "prometheus", "host memory used")
            \cup When(seen.target_up = "down", "prometheus", "scrape target down"),
          {}),
      Hypothesis("application issue",
          When(seen.recent_errors = "some", "loki", "error log lines"), {})>>
-----------------------------------------------------------------------------
(* registry.py: any other alert name runs the default playbook.            *)

LatencyAlerts == {"HighAPIp99Latency", "BackendLatencyP95High"}
Http500Alerts == {"HTTP500High", "Backend5xxRateHigh"}
AlertNames == LatencyAlerts \cup Http500Alerts \cup {"MySQLDown", "other"}

Observations(alert) ==
    CASE alert \in LatencyAlerts -> {s \in LatencyObservations : LatencyPossible(s)}
      [] alert \in Http500Alerts -> Http500Observations
      [] alert = "MySQLDown" -> MySQLDownObservations
      [] alert = "other" -> DefaultObservations

Hypotheses(alert, seen) ==
    CASE alert \in LatencyAlerts -> LatencyHypotheses(seen)
      [] alert \in Http500Alerts -> Http500Hypotheses(seen)
      [] alert = "MySQLDown" -> MySQLDownHypotheses(seen)
      [] alert = "other" -> DefaultHypotheses(seen)
=============================================================================
