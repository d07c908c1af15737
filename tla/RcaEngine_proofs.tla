-------------------------- MODULE RcaEngine_proofs --------------------------
(***************************************************************************)
(* What an RCA and a restart rest on, for any number of failed calls and   *)
(* any answer of the LLM.  The steps of an investigation only pass values  *)
(* on; what there is to prove lies in the operators: which hypothesis      *)
(* leads, how many sources it can have, and what scoring makes of them.    *)
(***************************************************************************)
EXTENDS RcaEngine, FiniteSetTheorems, TLAPS

-----------------------------------------------------------------------------
(* Evidence.                                                               *)

\* Evidence is put together from single items.
LEMMA FiniteEvidence ==
    /\ IsFiniteSet({})
    /\ \A x : IsFiniteSet({x})
    /\ \A A, B : IsFiniteSet(A) /\ IsFiniteSet(B) => IsFiniteSet(A \cup B)
  BY FS_EmptySet, FS_Singleton, FS_Union

\* The playbooks return two or three hypotheses, each with finite evidence.
Finite(h) == IsFiniteSet(h.supporting) /\ IsFiniteSet(h.contradicting)

LEMMA LatencyFinite ==
    ASSUME NEW obs
    PROVE  LET hs == LatencyHypotheses(obs)
           IN  hs = <<hs[1], hs[2], hs[3]>> /\ Finite(hs[1]) /\ Finite(hs[2]) /\ Finite(hs[3])
<1> DEFINE hs == LatencyHypotheses(obs)
<1>1. IsFiniteSet(hs[1].supporting) /\ IsFiniteSet(hs[1].contradicting)
  BY FiniteEvidence DEF LatencyHypotheses, Hypothesis, When, Item
<1>2. IsFiniteSet(hs[2].supporting) /\ IsFiniteSet(hs[2].contradicting)
  BY FiniteEvidence DEF LatencyHypotheses, Hypothesis, When, Item
<1>3. IsFiniteSet(hs[3].supporting) /\ IsFiniteSet(hs[3].contradicting)
  BY FiniteEvidence DEF LatencyHypotheses, Hypothesis, When, Item
<1>4. hs = <<hs[1], hs[2], hs[3]>>
  BY DEF LatencyHypotheses
<1> QED BY <1>1, <1>2, <1>3, <1>4 DEF Finite

LEMMA Http500Finite ==
    ASSUME NEW obs
    PROVE  LET hs == Http500Hypotheses(obs)
           IN  hs = <<hs[1], hs[2]>> /\ Finite(hs[1]) /\ Finite(hs[2])
<1> DEFINE hs == Http500Hypotheses(obs)
<1>1. IsFiniteSet(hs[1].supporting) /\ IsFiniteSet(hs[1].contradicting)
  BY FiniteEvidence DEF Http500Hypotheses, Hypothesis, When, Item
<1>2. IsFiniteSet(hs[2].supporting) /\ IsFiniteSet(hs[2].contradicting)
  BY FiniteEvidence DEF Http500Hypotheses, Hypothesis, When, Item
<1>3. hs = <<hs[1], hs[2]>>
  BY DEF Http500Hypotheses
<1> QED BY <1>1, <1>2, <1>3 DEF Finite

LEMMA MySQLDownFinite ==
    ASSUME NEW obs
    PROVE  LET hs == MySQLDownHypotheses(obs)
           IN  hs = <<hs[1], hs[2]>> /\ Finite(hs[1]) /\ Finite(hs[2])
<1> DEFINE hs == MySQLDownHypotheses(obs)
<1>1. IsFiniteSet(hs[1].supporting) /\ IsFiniteSet(hs[1].contradicting)
  BY FiniteEvidence DEF MySQLDownHypotheses, Hypothesis, When, Item
<1>2. IsFiniteSet(hs[2].supporting) /\ IsFiniteSet(hs[2].contradicting)
  BY FiniteEvidence DEF MySQLDownHypotheses, Hypothesis, When, Item
<1>3. hs = <<hs[1], hs[2]>>
  BY DEF MySQLDownHypotheses
<1> QED BY <1>1, <1>2, <1>3 DEF Finite

LEMMA DefaultFinite ==
    ASSUME NEW obs
    PROVE  LET hs == DefaultHypotheses(obs)
           IN  hs = <<hs[1], hs[2]>> /\ Finite(hs[1]) /\ Finite(hs[2])
<1> DEFINE hs == DefaultHypotheses(obs)
<1>1. IsFiniteSet(hs[1].supporting) /\ IsFiniteSet(hs[1].contradicting)
  BY FiniteEvidence DEF DefaultHypotheses, Hypothesis, When, Item
<1>2. IsFiniteSet(hs[2].supporting) /\ IsFiniteSet(hs[2].contradicting)
  BY FiniteEvidence DEF DefaultHypotheses, Hypothesis, When, Item
<1>3. hs = <<hs[1], hs[2]>>
  BY DEF DefaultHypotheses
<1> QED BY <1>1, <1>2, <1>3 DEF Finite

-----------------------------------------------------------------------------
(* Ranking.                                                                *)

\* The score of a hypothesis with finite evidence is an integer.
LEMMA ScoreType ==
    ASSUME NEW h, Finite(h)
    PROVE  /\ Score(h) \in Int
           /\ h.supporting = {} => Score(h) <= 0
           /\ h.supporting # {} /\ h.contradicting = {} => Score(h) > 0
<1>1. /\ Cardinality(h.supporting) \in Nat /\ Cardinality(h.contradicting) \in Nat
      /\ Cardinality(h.supporting) = 0 <=> h.supporting = {}
      /\ Cardinality(h.contradicting) = 0 <=> h.contradicting = {}
  BY FS_CardinalityType, FS_EmptySet DEF Finite
<1> QED BY <1>1 DEF Score

\* The hypothesis that leads is one of the list and none has a higher score.
LeadsAmong(h, hypotheses) ==
    \E n \in DOMAIN hypotheses :
        /\ h = hypotheses[n]
        /\ \A m \in DOMAIN hypotheses : Score(hypotheses[m]) <= Score(h)

LEMMA TopOfTwo ==
    ASSUME NEW a, NEW b, Finite(a), Finite(b)
    PROVE  LeadsAmong(Top(<<a, b>>), <<a, b>>)
<1> DEFINE hs == <<a, b>>
           First(n) == \A m \in DOMAIN hs :
                           /\ Score(hs[m]) <= Score(hs[n])
                           /\ m < n => Score(hs[m]) < Score(hs[n])
<1>1. Score(a) \in Int /\ Score(b) \in Int
  BY ScoreType
<1>2. DOMAIN hs = {1, 2} /\ hs[1] = a /\ hs[2] = b
  OBVIOUS
<1> HIDE DEF hs
<1>3. First(1) \/ First(2)
  BY <1>1, <1>2
<1>4. \E n \in DOMAIN hs : First(n)
  BY <1>2, <1>3
<1>5. Top(hs) = hs[CHOOSE n \in DOMAIN hs : First(n)]
  BY DEF Top
<1> HIDE DEF First
<1>6. (CHOOSE n \in DOMAIN hs : First(n)) \in DOMAIN hs
      /\ First(CHOOSE n \in DOMAIN hs : First(n))
  BY <1>4
<1> QED BY <1>5, <1>6 DEF LeadsAmong, First, hs

LEMMA TopOfThree ==
    ASSUME NEW a, NEW b, NEW c, Finite(a), Finite(b), Finite(c)
    PROVE  LeadsAmong(Top(<<a, b, c>>), <<a, b, c>>)
<1> DEFINE hs == <<a, b, c>>
           First(n) == \A m \in DOMAIN hs :
                           /\ Score(hs[m]) <= Score(hs[n])
                           /\ m < n => Score(hs[m]) < Score(hs[n])
<1>1. Score(a) \in Int /\ Score(b) \in Int /\ Score(c) \in Int
  BY ScoreType
<1>2. DOMAIN hs = {1, 2, 3} /\ hs[1] = a /\ hs[2] = b /\ hs[3] = c
  OBVIOUS
<1> HIDE DEF hs
<1>3. First(1) \/ First(2) \/ First(3)
  BY <1>1, <1>2
<1>4. \E n \in DOMAIN hs : First(n)
  BY <1>2, <1>3
<1>5. Top(hs) = hs[CHOOSE n \in DOMAIN hs : First(n)]
  BY DEF Top
<1> HIDE DEF First
<1>6. (CHOOSE n \in DOMAIN hs : First(n)) \in DOMAIN hs
      /\ First(CHOOSE n \in DOMAIN hs : First(n))
  BY <1>4
<1> QED BY <1>5, <1>6 DEF LeadsAmong, First, hs

\* Whatever alert and observations, the top hypothesis leads its list.
LEMMA TopLeads ==
    ASSUME NEW a \in AlertNames, NEW obs
    PROVE  /\ LeadsAmong(Top(Hypotheses(a, obs)), Hypotheses(a, obs))
           /\ \A n \in DOMAIN Hypotheses(a, obs) : Finite(Hypotheses(a, obs)[n])
<1> DEFINE hs == Hypotheses(a, obs)
<1>1. \/ hs = LatencyHypotheses(obs) \/ hs = Http500Hypotheses(obs)
      \/ hs = MySQLDownHypotheses(obs) \/ hs = DefaultHypotheses(obs)
  BY DEF Hypotheses, AlertNames, LatencyAlerts, Http500Alerts
<1> HIDE DEF hs
<1>2. \/ \E x, y : hs = <<x, y>> /\ Finite(x) /\ Finite(y)
      \/ \E x, y, z : hs = <<x, y, z>> /\ Finite(x) /\ Finite(y) /\ Finite(z)
  BY <1>1, LatencyFinite, Http500Finite, MySQLDownFinite, DefaultFinite
<1>3. LeadsAmong(Top(hs), hs)
  BY <1>2, TopOfTwo, TopOfThree
<1>4. \A n \in DOMAIN hs : Finite(hs[n])
  BY <1>2
<1> QED BY <1>3, <1>4 DEF hs

-----------------------------------------------------------------------------
(* Scoring.                                                                *)

\* A level above Unknown takes evidence, High takes three sources, no
\* contradiction and at most one failed call; the LLM cannot raise a level.
LEMMA LevelIsEarned ==
    ASSUME NEW h, NEW failures, NEW claimed,
           NEW level, level = MostConservative(ScoreToLevel(h, failures), claimed)
    PROVE  /\ level \in Levels
           /\ level # "Unknown" => h.supporting # {}
           /\ level = "High" => /\ Cardinality(IndependentSources(h)) >= 3
                                /\ h.contradicting = {}
                                /\ failures < 2
<1> DEFINE d == ScoreToLevel(h, failures)
<1>1. /\ d \in Levels
      /\ d # "Unknown" => h.supporting # {}
      /\ d = "High" => /\ Cardinality(IndependentSources(h)) >= 3
                       /\ h.contradicting = {}
                       /\ failures < 2
  BY DEF ScoreToLevel, Levels
<1> HIDE DEF d
<1>2. /\ Rank["Unknown"] = 0 /\ Rank["Low"] = 1 /\ Rank["Medium"] = 2 /\ Rank["High"] = 3
  BY DEF Rank, Levels
<1>3. level = IF claimed \notin Levels \/ Rank[d] <= Rank[claimed] THEN d ELSE claimed
  BY DEF MostConservative, d
<1>4. /\ level \in Levels
      /\ level # "Unknown" => d # "Unknown"
      /\ level = "High" => d = "High"
  BY <1>1, <1>2, <1>3 DEF Levels
<1> QED BY <1>1, <1>4

\* Evidence whose items all begin alike comes from one source.
LEMMA OneSource ==
    ASSUME NEW h, NEW source, \A item \in h.supporting : item[1] = source
    PROVE  Cardinality(IndependentSources(h)) \in {0, 1}
<1>1. IndependentSources(h) = {} \/ IndependentSources(h) = {source}
  BY DEF IndependentSources
<1>2. Cardinality({}) = 0 /\ Cardinality({source}) = 1
  BY FS_EmptySet, FS_Singleton
<1> QED BY <1>1, <1>2

\* The hypothesis for which a restart is considered draws on one source, and
\* on the symptoms a restart can cure.
LEMMA RemediableEvidence ==
    ASSUME NEW a \in AlertNames, NEW obs, NEW h,
           \E n \in DOMAIN Hypotheses(a, obs) : h = Hypotheses(a, obs)[n],
           h.name \in Remediable(a)
    PROVE  /\ Cardinality(IndependentSources(h)) \in {0, 1}
           /\ h.supporting # {} =>
                \/ a \in LatencyAlerts /\ (obs.cpu = "high" \/ obs.mem = "high")
                \/ a \in Http500Alerts /\ obs.backend_errors = "some"
                                       /\ obs.conn_errors # "some"
<1>1. CASE a \in LatencyAlerts
  <2> DEFINE hs == LatencyHypotheses(obs)
  <2>1. /\ DOMAIN hs = {1, 2, 3}
        /\ hs[1].name = "database bottleneck" /\ hs[3].name = "traffic spike"
    <3>1. DOMAIN hs = {1, 2, 3}
      BY DEF LatencyHypotheses
    <3>2. hs[1].name = "database bottleneck"
      BY DEF LatencyHypotheses, Hypothesis
    <3>3. hs[3].name = "traffic spike"
      BY DEF LatencyHypotheses, Hypothesis
    <3> QED BY <3>1, <3>2, <3>3
  <2>2. hs[2].supporting =
            When(obs.cpu = "high", "prometheus", "CPU usage high")
              \cup When(obs.mem = "high", "prometheus", "memory usage elevated")
    BY DEF LatencyHypotheses, Hypothesis
  <2>3. Hypotheses(a, obs) = hs /\ Remediable(a) = {"resource exhaustion"}
    <3>1. Hypotheses(a, obs) = hs
      BY <1>1 DEF Hypotheses, LatencyAlerts, Http500Alerts
    <3>2. Remediable(a) = {"resource exhaustion"}
      BY <1>1 DEF Remediable, LatencyAlerts, Http500Alerts
    <3> QED BY <3>1, <3>2
  <2> HIDE DEF hs
  <2>4. h = hs[2]
    BY <2>1, <2>3
  <2>5. ASSUME NEW item \in h.supporting PROVE item[1] = "prometheus"
    <3>1. \/ item = <<"prometheus", "CPU usage high">>
          \/ item = <<"prometheus", "memory usage elevated">>
      BY <2>2, <2>4, <2>5 DEF When, Item
    <3>2. /\ <<"prometheus", "CPU usage high">>[1] = "prometheus"
          /\ <<"prometheus", "memory usage elevated">>[1] = "prometheus"
      OBVIOUS
    <3> QED BY <3>1, <3>2
  <2>6. h.supporting # {} => obs.cpu = "high" \/ obs.mem = "high"
    BY <2>2, <2>4 DEF When
  <2> QED BY <1>1, <2>5, <2>6, OneSource
<1>2. CASE a \in Http500Alerts
  <2> DEFINE hs == Http500Hypotheses(obs)
  <2>1. DOMAIN hs = {1, 2} /\ hs[1].name = "database dependency"
    <3>1. DOMAIN hs = {1, 2}
      BY DEF Http500Hypotheses
    <3>2. hs[1].name = "database dependency"
      BY DEF Http500Hypotheses, Hypothesis
    <3> QED BY <3>1, <3>2
  <2>2. hs[2].supporting =
            IF obs.backend_errors = "some" /\ obs.conn_errors # "some"
              THEN {Item("loki", "5xx log lines")} ELSE {}
    <3>1. CASE obs.backend_errors = "some" /\ obs.conn_errors # "some"
      BY <3>1 DEF Http500Hypotheses, Hypothesis, When
    <3>2. CASE ~(obs.backend_errors = "some" /\ obs.conn_errors # "some")
      BY <3>2 DEF Http500Hypotheses, Hypothesis, When
    <3> QED BY <3>1, <3>2
  <2>3. Hypotheses(a, obs) = hs /\ Remediable(a) = {"application-level error"}
    BY <1>2 DEF Hypotheses, Remediable, LatencyAlerts, Http500Alerts
  <2> HIDE DEF hs
  <2>4. h = hs[2]
    BY <2>1, <2>3
  <2>5. ASSUME NEW item \in h.supporting PROVE item[1] = "loki"
    <3>1. item = <<"loki", "5xx log lines">>
      BY <2>2, <2>4, <2>5 DEF Item
    <3> QED BY <3>1
  <2>6. h.supporting # {} => obs.backend_errors = "some" /\ obs.conn_errors # "some"
    BY <2>2, <2>4
  <2> QED BY <1>2, <2>5, <2>6, OneSource
<1>3. CASE a \notin LatencyAlerts \cup Http500Alerts
  BY <1>3 DEF Remediable
<1> QED BY <1>1, <1>2, <1>3

-----------------------------------------------------------------------------
(* One investigation.                                                      *)

\* Each value is what its step computes from the values before it.
Derived ==
    /\ question \subseteq Topics
    /\ alert \in AlertNames
    /\ stage \in {"asked", "alerted", "observed", "explained", "decided"}
    /\ IF stage \in {"explained", "decided"}
         THEN result = Rca(Hypotheses(alert, seen), Failures(seen), answer)
         ELSE result = NoResult
    /\ restart = IF stage = "decided"
                   THEN {minimum \in Levels : Qualifies(alert, result, Leading, minimum)}
                   ELSE {}
    /\ stage # "asked" /\ question # {} => alert = Classify(question)

\* Nothing is known before the first step.
LEMMA DerivedInit == Init => Derived
  BY RcaAssumption DEF Init, Derived, AlertNames

\* Every step computes its value and leaves the earlier ones alone.
LEMMA DerivedStep == Derived /\ [Next]_vars => Derived'
<1> SUFFICES ASSUME Derived, [Next]_vars PROVE Derived'
  OBVIOUS
<1> USE DEF Derived, Leading
<1>1. CASE HandleAsk
  <2>1. Classify(question) \in AlertNames
    BY DEF Classify, AlertNames, LatencyAlerts, Http500Alerts
  <2> QED BY <1>1, <2>1 DEF HandleAsk
<1>2. CASE RunPlaybook
  BY <1>2 DEF RunPlaybook
<1>3. CASE GenerateRca
  BY <1>3 DEF GenerateRca
<1>4. CASE Decide
  BY <1>4 DEF Decide
<1>5. CASE UNCHANGED vars
  BY <1>5 DEF vars
<1> QED BY <1>1, <1>2, <1>3, <1>4, <1>5 DEF Next

LEMMA AlwaysDerived == Spec => []Derived
  BY DerivedInit, DerivedStep, PTL DEF Spec

\* What the result says of the leading hypothesis, at every stage.
LEMMA ResultIsEarned ==
    ASSUME Derived
    PROVE  /\ result.confidence \in Levels
           /\ result.confidence # "Unknown" => Leading.supporting # {}
           /\ result.confidence = "High" =>
                /\ Cardinality(IndependentSources(Leading)) >= 3
                /\ Leading.contradicting = {}
                /\ Failures(seen) < 2
           /\ result.root_cause => result.confidence # "Unknown"
<1> DEFINE level == MostConservative(ScoreToLevel(Leading, Failures(seen)), answer.confidence)
<1>1. /\ level \in Levels
      /\ level # "Unknown" => Leading.supporting # {}
      /\ level = "High" => /\ Cardinality(IndependentSources(Leading)) >= 3
                           /\ Leading.contradicting = {}
                           /\ Failures(seen) < 2
  BY LevelIsEarned
<1>2. \/ result.confidence = "Unknown" /\ result.root_cause = FALSE
      \/ /\ result.confidence = level
         /\ result.root_cause = (answer.root_cause /\ level # "Unknown")
  BY DEF Derived, Rca, NoResult, Leading
<1> HIDE DEF level
<1> QED BY <1>1, <1>2 DEF Levels

\* What an element of restart says of the result and the leading hypothesis.
LEMMA RestartIsEarned ==
    ASSUME Derived, NEW minimum \in restart
    PROVE  /\ minimum \in Levels
           /\ Leading.name \in Remediable(alert)
           /\ minimum # "Unknown" => result.confidence # "Unknown"
           /\ minimum = "High" => result.confidence = "High"
<1>1. minimum \in Levels /\ Qualifies(alert, result, Leading, minimum)
  BY DEF Derived
<1>2. /\ Rank["Unknown"] = 0 /\ Rank["Low"] = 1 /\ Rank["Medium"] = 2 /\ Rank["High"] = 3
  BY DEF Rank, Levels
<1>3. result.confidence \in Levels
  BY ResultIsEarned
<1> QED BY <1>1, <1>2, <1>3 DEF Qualifies, Levels

\* What a restart that takes some confidence says of the symptoms.
LEMMA RestartFits ==
    ASSUME Derived, NEW minimum \in restart, minimum # "Unknown"
    PROVE  \/ alert \in LatencyAlerts /\ (seen.cpu = "high" \/ seen.mem = "high")
           \/ alert \in Http500Alerts /\ seen.backend_errors = "some"
                                      /\ seen.conn_errors # "some"
<1>1. Leading.name \in Remediable(alert) /\ Leading.supporting # {}
  BY RestartIsEarned, ResultIsEarned
<1>2. alert \in AlertNames
  BY DEF Derived
<1>3. \E n \in DOMAIN Hypotheses(alert, seen) : Leading = Hypotheses(alert, seen)[n]
  BY <1>2, TopLeads DEF LeadsAmong, Leading
<1> QED BY <1>1, <1>2, <1>3, RemediableEvidence

-----------------------------------------------------------------------------
(* The theorems.                                                           *)

\* The result and the answer of the LLM have the shape the next step reads,
\* and what was observed is an observation of the playbook that was run.
THEOREM TypeCorrect == Spec => []TypeOK
<1>1. Init => TypeOK
  BY RcaAssumption DEF Init, TypeOK, Observed, AlertNames, NoResult, Results, Levels
<1>2. TypeOK /\ [Next]_vars => TypeOK'
  <2> SUFFICES ASSUME TypeOK, [Next]_vars PROVE TypeOK'
    OBVIOUS
  <2> USE DEF TypeOK, Observed
  <2>1. CASE HandleAsk
    <3>1. Classify(question) \in AlertNames
      BY DEF Classify, AlertNames, LatencyAlerts, Http500Alerts
    <3> QED BY <2>1, <3>1 DEF HandleAsk
  <2>2. CASE RunPlaybook
    BY <2>2 DEF RunPlaybook
  <2>3. CASE GenerateRca
    <3> DEFINE level == MostConservative(ScoreToLevel(Leading, Failures(seen)),
                                         answer'.confidence)
    <3>1. answer' \in LlmAnswers \cup {NoAnswer}
      BY <2>3 DEF GenerateRca
    <3>2. level \in Levels
      BY LevelIsEarned
    <3>3. \/ result' = [confidence |-> "Unknown", root_cause |-> FALSE, llm_used |-> FALSE]
          \/ result' = [confidence |-> level,
                        root_cause |-> answer'.root_cause /\ level # "Unknown",
                        llm_used |-> TRUE]
      BY <2>3 DEF GenerateRca, Rca, Leading
    <3> HIDE DEF level
    <3>4. result' \in Results
      <4>1. PICK cause \in BOOLEAN : cause = (answer'.root_cause /\ level # "Unknown")
        OBVIOUS
      <4>2. [confidence |-> level, root_cause |-> cause, llm_used |-> TRUE] \in Results
        BY <3>2 DEF Results
      <4>3. [confidence |-> "Unknown", root_cause |-> FALSE, llm_used |-> FALSE] \in Results
        BY DEF Results, Levels
      <4> QED BY <3>3, <4>1, <4>2, <4>3
    <3> QED BY <2>3, <3>1, <3>4 DEF GenerateRca
  <2>4. CASE Decide
    BY <2>4 DEF Decide
  <2>5. CASE UNCHANGED vars
    BY <2>5 DEF vars
  <2> QED BY <2>1, <2>2, <2>3, <2>4, <2>5 DEF Next
<1> QED BY <1>1, <1>2, PTL DEF Spec

\* Whatever the LLM answers, a root cause has evidence behind it
\* (rca/engine.py:69-72).
THEOREM CauseBacked == Spec => []CauseIsBacked
<1>1. Derived => CauseIsBacked
  BY ResultIsEarned DEF CauseIsBacked
<1> QED BY <1>1, AlwaysDerived, PTL

\* Whatever the LLM answers, High takes three sources, no contradiction and
\* at most one failed call (confidence.py:20).
THEOREM HighEarned == Spec => []HighIsEarned
<1>1. Derived => HighIsEarned
  BY ResultIsEarned DEF HighIsEarned
<1> QED BY <1>1, AlwaysDerived, PTL

\* At the default minimum confidence nothing is ever restarted, though the
\* documentation presents it as what happens: the remediable hypotheses have
\* one source and High takes three (config.py:124, confidence.py:20).
THEOREM NeverRestartsAtHigh == Spec => []HighNeverRestarts
<1>1. Derived => HighNeverRestarts
  <2> SUFFICES ASSUME Derived, "High" \in restart PROVE FALSE
    BY DEF HighNeverRestarts
  <2>1. Leading.name \in Remediable(alert) /\ result.confidence = "High"
    BY RestartIsEarned
  <2>2. Cardinality(IndependentSources(Leading)) >= 3
    BY <2>1, ResultIsEarned
  <2>3. alert \in AlertNames
    BY DEF Derived
  <2>4. \E n \in DOMAIN Hypotheses(alert, seen) : Leading = Hypotheses(alert, seen)[n]
    BY <2>3, TopLeads DEF LeadsAmong, Leading
  <2>5. Cardinality(IndependentSources(Leading)) \in {0, 1}
    BY <2>1, <2>3, <2>4, RemediableEvidence
  <2> QED BY <2>2, <2>5
<1> QED BY <1>1, AlwaysDerived, PTL

\* With any other minimum but Unknown, a restart is decided only on symptoms
\* it can cure (remediation_policy.py:7-19).
THEOREM RestartsFit == Spec => []RestartFitsSymptoms
<1>1. Derived => RestartFitsSymptoms
  <2> SUFFICES ASSUME Derived, NEW minimum \in restart, minimum # "Unknown"
               PROVE  \/ alert \in LatencyAlerts /\ (seen.cpu = "high" \/ seen.mem = "high")
                      \/ alert \in Http500Alerts /\ seen.backend_errors = "some"
                                                 /\ seen.conn_errors # "some"
    BY DEF RestartFitsSymptoms
  <2> QED BY RestartFits
<1> QED BY <1>1, AlwaysDerived, PTL

\* A question with a word of the first group of keywords never leads to a
\* restart, and one with a word of the second only on errors that were found
\* (ask.py:35-43).
THEOREM AskedFits == Spec => []AskedRestartsFit
<1>1. Derived => AskedRestartsFit
  <2> SUFFICES ASSUME Derived, NEW minimum \in restart, minimum # "Unknown", question # {}
               PROVE  /\ "mysql" \notin question
                      /\ "errors" \in question =>
                            alert \in Http500Alerts /\ seen.backend_errors = "some"
    BY DEF AskedRestartsFit
  <2>1. alert = Classify(question)
    BY DEF Derived
  <2> QED BY <2>1, RestartFits DEF Classify, LatencyAlerts, Http500Alerts
<1> QED BY <1>1, AlwaysDerived, PTL

\* A hypothesis with evidence for it and none against it is never outranked by
\* one without evidence (hypotheses.py:31-32).
THEOREM SupportedIsFirst == Spec => []SupportedLeads
<1>1. Derived => SupportedLeads
  <2> DEFINE hs == Hypotheses(alert, seen)
  <2> SUFFICES ASSUME Derived, NEW n \in DOMAIN hs,
                      hs[n].supporting # {}, hs[n].contradicting = {}
               PROVE  Leading.supporting # {}
    BY DEF SupportedLeads
  <2>1. LeadsAmong(Leading, hs) /\ \A m \in DOMAIN hs : Finite(hs[m])
    BY TopLeads DEF Derived, Leading
  <2> HIDE DEF hs
  <2>2. Score(hs[n]) \in Int /\ Score(hs[n]) > 0
    BY <2>1, ScoreType
  <2>3. /\ Score(Leading) \in Int /\ Score(hs[n]) <= Score(Leading)
        /\ Leading.supporting = {} => Score(Leading) <= 0
    BY <2>1, ScoreType DEF LeadsAmong
  <2> QED BY <2>2, <2>3
<1> QED BY <1>1, AlwaysDerived, PTL
=============================================================================
