------------------------------ MODULE RcaEngine ------------------------------
(***************************************************************************)
(* From an alert, or from a question put to POST /ask, to the RCA and to   *)
(* the decision to restart a container: classify_question of               *)
(* app/investigation/ask.py, the playbook (module Playbooks),              *)
(* app/investigation/confidence.py, app/rca/engine.py and the conditions   *)
(* of decide in app/investigation/remediation_policy.py that do not depend *)
(* on time (module Remediation has the cooldown).  One investigation is a  *)
(* straight line; what varies is what was asked and what the datasources   *)
(* and the LLM answer.  The LLM may answer anything at all, or nothing.    *)
(***************************************************************************)
EXTENDS Playbooks

CONSTANT Alerts     \* the alert names that arrive by webhook

Levels == {"Unknown", "Low", "Medium", "High"}

Rank == [level \in Levels |->
    CASE level = "Unknown" -> 0 [] level = "Low" -> 1
      [] level = "Medium" -> 2 [] level = "High" -> 3]

ASSUME RcaAssumption == Alerts \subseteq AlertNames
-----------------------------------------------------------------------------
(* ask.py                                                                  *)

\* The groups of keywords a question is searched for; it may have words of
\* several, or of none.
Topics == {"mysql", "errors", "latency"}

\* Mutation: the groups are searched in another order.
Classify_ErrorsFirst(question) ==
    IF "errors" \in question THEN "HTTP500High"
    ELSE IF "mysql" \in question THEN "MySQLDown"
    ELSE IF "latency" \in question THEN "HighAPIp99Latency"
    ELSE "other"

\* classify_question: the first group of _KEYWORDS that matches.
Classify(question) ==
    IF "mysql" \in question THEN "MySQLDown"
    ELSE IF "errors" \in question THEN "HTTP500High"
    ELSE IF "latency" \in question THEN "HighAPIp99Latency"
    ELSE "other"
-----------------------------------------------------------------------------
(* confidence.py                                                           *)

\* The distinct prefixes of the supporting descriptions.
IndependentSources(h) == {item[1] : item \in h.supporting}

\* score_to_level: two failed calls make an investigation degraded.
ScoreToLevel(h, failures) ==
    LET sources == Cardinality(IndependentSources(h))
    IN  IF h.supporting = {} THEN "Unknown"
        ELSE IF sources >= 3 /\ h.contradicting = {} /\ failures < 2 THEN "High"
        ELSE IF sources >= 2 /\ failures < 2 THEN "Medium"
        ELSE "Low"

\* Mutation: the LLM's own level is believed.
MostConservative_Trusting(deterministic, claimed) ==
    IF claimed \notin Levels THEN deterministic ELSE claimed

\* Mutation: a level that is none of the four is passed on.
MostConservative_Unchecked(deterministic, claimed) ==
    IF claimed \in Levels /\ Rank[deterministic] <= Rank[claimed]
      THEN deterministic
      ELSE claimed

MostConservative(deterministic, claimed) ==
    IF claimed \notin Levels \/ Rank[deterministic] <= Rank[claimed]
      THEN deterministic
      ELSE claimed
-----------------------------------------------------------------------------
(* engine.py                                                               *)

NoAnswer == [confidence |-> "none", root_cause |-> FALSE, parsed |-> FALSE]

\* The LLM's answer: its level may be none of the four; a root cause may be
\* named or not (null and "" are not).
LlmAnswers == [confidence : Levels \cup {"other"}, root_cause : BOOLEAN, parsed : {TRUE}]

Results == [confidence : Levels, root_cause : BOOLEAN, llm_used : BOOLEAN]

\* Mutation: the root cause is passed on whatever the confidence is.
Rca_KeepsCause(hypotheses, failures, llm) ==
    IF ~llm.parsed
      THEN [confidence |-> "Unknown", root_cause |-> FALSE, llm_used |-> FALSE]
      ELSE [confidence |-> MostConservative(ScoreToLevel(Top(hypotheses), failures),
                                            llm.confidence),
            root_cause |-> llm.root_cause,
            llm_used |-> TRUE]

Rca(hypotheses, failures, llm) ==
    IF ~llm.parsed
      THEN [confidence |-> "Unknown", root_cause |-> FALSE, llm_used |-> FALSE]
      ELSE LET final == MostConservative(ScoreToLevel(Top(hypotheses), failures),
                                         llm.confidence)
           IN  [confidence |-> final,
                root_cause |-> llm.root_cause /\ final # "Unknown",
                llm_used |-> TRUE]
-----------------------------------------------------------------------------
(* remediation_policy.py                                                   *)

\* The hypothesis for which a restart of the backend is considered.
Remediable(alert) ==
    CASE alert \in LatencyAlerts -> {"resource exhaustion"}
      [] alert \in Http500Alerts -> {"application-level error"}
      [] OTHER -> {}

\* Mutation: the keywords are not compared.
Qualifies_AnyHypothesis(alert, result, top, minimum) ==
    /\ Remediable(alert) # {}
    /\ Rank[result.confidence] >= Rank[minimum]
    /\ top.contradicting = {}

\* minimum: settings.auto_remediation_min_confidence
Qualifies(alert, result, top, minimum) ==
    /\ top.name \in Remediable(alert)
    /\ Rank[result.confidence] >= Rank[minimum]
    /\ top.contradicting = {}
-----------------------------------------------------------------------------
VARIABLES stage,     \* how far the investigation is
          question,  \* the topics of the question asked ({} if none was)
          alert,     \* its alert name
          seen,      \* what the datasources answered (<<>> before that)
          answer,    \* what the LLM answered
          result,    \* the RCAResult
          restart    \* the minimum confidences for which decide returns "backend"

vars == <<stage, question, alert, seen, answer, result, restart>>

NoResult == [confidence |-> "Unknown", root_cause |-> FALSE, llm_used |-> FALSE]

Init ==
    /\ \/ stage = "alerted" /\ question = {} /\ alert \in Alerts
       \/ stage = "asked" /\ question \in SUBSET Topics /\ alert = "other"
    /\ seen = <<>>
    /\ answer = NoAnswer
    /\ result = NoResult
    /\ restart = {}

\* handle_ask makes an alert of the question.
HandleAsk ==
    /\ stage = "asked"
    /\ alert' = Classify(question)
    /\ stage' = "alerted"
    /\ UNCHANGED <<question, seen, answer, result, restart>>

RunPlaybook ==
    /\ stage = "alerted"
    /\ seen' \in Observations(alert)
    /\ stage' = "observed"
    /\ UNCHANGED <<question, alert, answer, result, restart>>

GenerateRca ==
    /\ stage = "observed"
    /\ answer' \in LlmAnswers \cup {NoAnswer}
    /\ result' = Rca(Hypotheses(alert, seen), Failures(seen), answer')
    /\ stage' = "explained"
    /\ UNCHANGED <<question, alert, seen, restart>>

Decide ==
    /\ stage = "explained"
    /\ restart' = {minimum \in Levels :
                    Qualifies(alert, result, Top(Hypotheses(alert, seen)), minimum)}
    /\ stage' = "decided"
    /\ UNCHANGED <<question, alert, seen, answer, result>>

Next == HandleAsk \/ RunPlaybook \/ GenerateRca \/ Decide

Spec == Init /\ [][Next]_vars
-----------------------------------------------------------------------------
(* What the RCA promises.                                                  *)

Observed == stage \notin {"asked", "alerted"}
Leading == Top(Hypotheses(alert, seen))

\* The investigation goes through its stages with what each one knows.
TypeOK ==
    /\ stage \in {"asked", "alerted", "observed", "explained", "decided"}
    /\ question \subseteq Topics
    /\ alert \in AlertNames
    /\ IF Observed THEN seen \in Observations(alert) ELSE seen = <<>>
    /\ answer \in LlmAnswers \cup {NoAnswer}
    /\ result \in Results
    /\ restart \subseteq Levels

\* Whatever the LLM says, a root cause is only reported when the evidence
\* supports the leading hypothesis (rca/engine.py:69-72).
CauseIsBacked == result.root_cause => Leading.supporting # {}

\* High confidence takes three independent sources, no contradiction and at
\* most one failed call, whatever the LLM claims (confidence.py:20, engine.py:3-6).
HighIsEarned ==
    result.confidence = "High" =>
        /\ Cardinality(IndependentSources(Leading)) >= 3
        /\ Leading.contradicting = {}
        /\ Failures(seen) < 2

\* A hypothesis with evidence for it and none against it is never outranked
\* by one without evidence (hypotheses.py:31-32).
SupportedLeads ==
    Observed =>
        \A n \in DOMAIN Hypotheses(alert, seen) :
            LET h == Hypotheses(alert, seen)[n]
            IN  h.supporting # {} /\ h.contradicting = {} => Leading.supporting # {}

\* A restart is decided only on the symptoms it can cure: not for a database
\* that refuses connections, not for plain traffic, not for other alerts
\* (remediation_policy.py:7-19).  Only a minimum confidence of Unknown lets a
\* hypothesis without any evidence through.
RestartFitsSymptoms ==
    restart \ {"Unknown"} # {} =>
        \/ alert \in LatencyAlerts /\ (seen.cpu = "high" \/ seen.mem = "high")
        \/ alert \in Http500Alerts /\ seen.backend_errors = "some" /\ seen.conn_errors # "some"

\* Of the three fixed groups of keywords (ask.py:39-43): a question with a word
\* of the first, "mysql" or "database down" among them, never leads to a
\* restart, and one with a word of the second only on errors that were found,
\* whatever other words it has, as the more specific playbook is run.  The
\* groups know phrases, not subjects: "is the database slow?" has a word of
\* the third only, and is a question about latency.
AskedRestartsFit ==
    restart \ {"Unknown"} # {} =>
        /\ "mysql" \notin question
        /\ "errors" \in question =>
              alert \in Http500Alerts /\ seen.backend_errors = "some"

\* No playbook can lead to a restart at the default minimum confidence: the
\* hypotheses a restart is meant for draw on one source each, and High takes
\* three (config.py:124, confidence.py:20, remediation_policy.py:35-40).
HighNeverRestarts == "High" \notin restart
-----------------------------------------------------------------------------
(* What a test of the repository says and the code does not do.            *)

\* An answer of High confidence with a root cause is reported as it is, also
\* when nothing was found for or against the only hypothesis
\* (test_prompt_injection.py:106-113).
AnswerIsKept ==
    /\ answer.parsed /\ answer.confidence = "High" /\ answer.root_cause
    /\ Leading.supporting = {} /\ Leading.contradicting = {} /\ Failures(seen) = 0
    => result.confidence = "High" /\ result.root_cause
=============================================================================
