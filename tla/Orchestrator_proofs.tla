------------------------- MODULE Orchestrator_proofs -------------------------
(***************************************************************************)
(* Proofs about module Orchestrator, for any sets of threads, incidents    *)
(* and fingerprints, any number of alert transitions and crashes, and any  *)
(* set of calls that exceptions may escape from.                           *)
(*                                                                         *)
(* The steps fall into eight kinds, by what they do to the table, to the   *)
(* queue and to the thread that takes them.  The lemmas of the first part  *)
(* place every action in its kind; the lemmas of the second part show,     *)
(* kind by kind, that each conjunct of IndInv is preserved.                *)
(***************************************************************************)
EXTENDS Orchestrator, TLAPS

-----------------------------------------------------------------------------
(* The table.                                                              *)

\* Saving replaces one existing row and adds none.
LEMMA SaveTable ==
    ASSUME NEW table, IsTable(table), NEW inc \in Incident
    PROVE  /\ IsTable(Save(table, inc))
           /\ DOMAIN Save(table, inc) = DOMAIN table
           /\ \A i \in DOMAIN table :
                 Save(table, inc)[i] = IF i = inc.incident_id THEN inc ELSE table[i]
  BY DEF IsTable, Save, Put, Incident

\* Creating adds one row and leaves the others alone.
LEMMA CreateTable ==
    ASSUME NEW table, IsTable(table), NEW inc \in Incident
    PROVE  /\ IsTable(Create(table, inc))
           /\ DOMAIN Create(table, inc) = DOMAIN table \cup {inc.incident_id}
           /\ \A i \in DOMAIN Create(table, inc) :
                 Create(table, inc)[i] = IF i = inc.incident_id THEN inc ELSE table[i]
  BY DEF IsTable, Create, Put, Incident

\* A new incident is a well-formed record that carries its own id.
LEMMA NewIncidentType ==
    ASSUME NEW i \in Incidents, NEW f \in Fingerprints, NEW s \in Nat
    PROVE  /\ NewIncident(i, f, s) \in Incident
           /\ NewIncident(i, f, s).incident_id = i
           /\ NewIncident(i, f, s).investigation_state = "ALERT_RECEIVED"
           /\ Coherent(NewIncident(i, f, s))
  BY DEF NewIncident, Incident, Statuses, InvestigationStates, None, Coherent

\* What a lookup returns is a row of the table, under its own id.
LEMMA GetActiveIsRow ==
    ASSUME NEW table, IsTable(table), NEW f, NEW inc \in GetActive(table, f)
    PROVE  /\ inc \in Incident
           /\ inc.incident_id \in DOMAIN table
           /\ inc = table[inc.incident_id]
  BY DEF GetActive, Active, IsTable

-----------------------------------------------------------------------------
(* The kinds of step.                                                      *)

\* Only thread t moves.
OnlyMoves(t) ==
    \A s \in Threads \ {t} : pc'[s] = pc[s] /\ copy'[s] = copy[s]

\* No verdict is posted.
NoVerdictPosted ==
    \A m \in slack' \ slack : m.kind \notin {"rca", "timeout"}

\* The table stays, the queue stays or is lost, and threads only let go.
Quiet ==
    /\ rows' = rows
    /\ queue' = queue \/ queue' = <<>>
    /\ NoVerdictPosted
    /\ \A t \in Threads :
          \/ pc'[t] = pc[t] /\ copy'[t] = copy[t]
          \/ /\ pc'[t] \in {"idle", "lookup", "create"}
             /\ copy'[t] = NoIncident

\* The creator of an incident goes on, with or without saving it.
CreatorGoesOn(t) ==
    /\ pc[t] \in CreatorPcs /\ pc'[t] \in CreatorPcs
    /\ rows' = rows \/ rows' = Save(rows, copy[t])
    /\ queue' = queue
    /\ NoVerdictPosted
    /\ OnlyMoves(t)
    /\ copy'[t] \in Incident
    /\ copy'[t].incident_id = copy[t].incident_id
    /\ copy'[t].investigation_state = copy[t].investigation_state
    /\ Coherent(copy[t]) => Coherent(copy'[t])

\* A new incident gets its row, and its creator a copy.
Creates(t, i) ==
    /\ pc[t] = "create" /\ pc'[t] = "announce"
    /\ i \in Incidents \ DOMAIN rows
    /\ DOMAIN rows' = DOMAIN rows \cup {i}
    /\ \A j \in DOMAIN rows : rows'[j] = rows[j]
    /\ Coherent(rows'[i])
    /\ rows'[i].investigation_state = "ALERT_RECEIVED"
    /\ queue' = queue /\ slack' = slack
    /\ OnlyMoves(t)
    /\ copy'[t] \in Incident
    /\ copy'[t].incident_id = i
    /\ copy'[t].investigation_state = "ALERT_RECEIVED"
    /\ Coherent(copy'[t])

\* The creator hands its incident over to the queue.
HandsOver(t) ==
    /\ pc[t] = "submit" /\ pc'[t] = "idle"
    /\ copy'[t] = NoIncident
    /\ queue' = Append(queue, copy[t].incident_id)
    /\ rows' = rows /\ slack' = slack
    /\ OnlyMoves(t)

\* A resolver takes its copy of the row of incident i.
Resolves(t, i) ==
    /\ pc[t] = "lookup" /\ pc'[t] = "saveResolved"
    /\ i \in DOMAIN rows
    /\ copy'[t] \in Incident
    /\ copy'[t].incident_id = i
    /\ copy'[t].investigation_state = rows[i].investigation_state
    /\ copy'[t].status = "RESOLVED"
    /\ Coherent(rows[i]) => Coherent(copy'[t])
    /\ rows' = rows /\ queue' = queue /\ slack' = slack
    /\ OnlyMoves(t)

\* A resolver saves its copy.
SavesResolved(t) ==
    /\ pc[t] = "saveResolved" /\ pc'[t] \in {"idle", "postResolution"}
    /\ rows' = Save(rows, copy[t])
    /\ IF pc'[t] = "idle"
         THEN copy'[t] = NoIncident
         ELSE copy'[t] = copy[t] /\ copy[t].slack_thread_ts # None
    /\ queue' = queue /\ slack' = slack
    /\ OnlyMoves(t)

\* A run begins on the row of incident i, which waited in the queue or with
\* the thread itself.
RunBegins(t, i) ==
    /\ pc'[t] = "saveCollecting"
    /\ i \in DOMAIN rows
    /\ \/ /\ pc[t] = "idle"
          /\ queue # <<>> /\ i = queue[1] /\ queue' = Tail(queue)
       \/ pc[t] = "load" /\ i = copy[t].incident_id /\ queue' = queue
    /\ copy'[t] \in Incident
    /\ copy'[t].incident_id = i
    /\ copy'[t].investigation_state = "DATA_COLLECTION"
    /\ Coherent(rows[i]) /\ rows[i].investigation_state = "ALERT_RECEIVED" =>
          /\ Coherent(copy'[t])
          /\ copy'[t].status \in {"ALERT_RECEIVED", "INVESTIGATION_STARTED", "RESOLVED"}
    /\ rows' = rows /\ slack' = slack
    /\ OnlyMoves(t)

\* A run goes on or ends; it may save its copy and post a verdict.
RunGoesOn(t) ==
    /\ pc[t] \in RunnerPcs
    /\ queue' = queue
    /\ OnlyMoves(t)
    /\ rows' = rows \/ rows' = Save(rows, copy[t])
    /\ \/ pc'[t] = "idle" /\ copy'[t] = NoIncident
       \/ /\ pc'[t] \in RunnerPcs /\ copy'[t] \in Incident
          /\ copy'[t].incident_id = copy[t].incident_id
    /\ \/ slack' = slack
       \/ /\ pc[t] = "postTimeout" /\ pc'[t] \in {"idle", "saveTimeoutThread"}
          /\ \E th \in {"parent", "standalone", "lost"} :
                slack' = slack \cup {Message(t, "timeout", th)}
       \/ /\ pc[t] = "postRca" /\ pc'[t] \in {"remediate", "idle"}
          /\ \E th \in {"parent", "standalone", "lost"} :
                slack' = slack \cup {Message(t, "rca", th)}
    /\ pc[t] = "remediate" => pc'[t] = "saveFinal"
    /\ pc[t] \in {"saveFinal", "saveTimeoutThread"} => pc'[t] = "idle"

\* A step of run_investigation, or the exception that ends it at its report.
RunStep(t) == RunInvestigation(t) \/ (pc[t] = "postRca" /\ Escape(t))

\* A post without an answer is in the incident's thread, or lost, or was not
\* made at all.
LEMMA UnansweredAdds ==
    ASSUME NEW t \in Threads, copy[t] \in Incident, NEW kind, slack' \in Unanswered(t, kind)
    PROVE  \/ slack' = slack
           \/ \E th \in {"parent", "standalone", "lost"} :
                 slack' = slack \cup {Message(t, kind, th)}
  BY DEF Unanswered, Incident, None

\* What an escaping exception leaves in Slack.
LEMMA EscapePosts ==
    ASSUME NEW t, Escape(t)
    PROVE  \/ slack' = slack
           \/ pc[t] = "announce" /\ slack' \in Unanswered(t, "started")
           \/ pc[t] = "postRca" /\ slack' \in Unanswered(t, "rca")
  BY DEF Escape

\* The exception that ends a run at its report is of kind RunGoesOn.
LEMMA EscapeIsRunGoesOn ==
    ASSUME TypeOK, NEW t \in Threads, pc[t] = "postRca", Escape(t)
    PROVE  RunGoesOn(t)
<1>1. copy[t] \in Incident
  BY DEF TypeOK, RunnerPcs
<1>2. \/ slack' = slack
      \/ \E th \in {"parent", "standalone", "lost"} :
            slack' = slack \cup {Message(t, "rca", th)}
  BY <1>1, EscapePosts, UnansweredAdds
<1> QED BY <1>2 DEF TypeOK, Escape, RunGoesOn, OnlyMoves, Return, Goto, SetCopy, RunnerPcs

\* Every action of run_investigation is of kind RunGoesOn.
LEMMA RunIsRunGoesOn ==
    ASSUME TypeOK, NEW t \in Threads, RunInvestigation(t)
    PROVE  RunGoesOn(t)
<1> USE DEF TypeOK, RunGoesOn, OnlyMoves, Goto, SetCopy, Return, SaveCopy, Message,
            CreatorPcs, ResolverPcs, RunnerPcs
<1>1. pc[t] \in RunnerPcs /\ copy[t] \in Incident
  BY DEF RunInvestigation, SaveCollecting, PlaybookReturns, PlaybookOverruns, PlaybookFails, SaveFailed, SaveTimeout, PostTimeoutInThread, PostTimeoutStandalone, PostTimeoutUnavailable, SaveTimeoutThread, SaveValidating, GenerateRca, SaveRca, PostRcaInThread, PostRcaStandalone, PostRcaUnavailable, Remediate, SaveFinal
<1>2. CASE SaveCollecting(t)
  BY <1>1, <1>2 DEF SaveCollecting
<1>3. CASE PlaybookReturns(t)
  BY <1>1, <1>3 DEF PlaybookReturns, Incident, Statuses, InvestigationStates, None
<1>4. CASE PlaybookOverruns(t)
  BY <1>1, <1>4 DEF PlaybookOverruns, Incident, Statuses, InvestigationStates, None
<1>5. CASE PlaybookFails(t)
  BY <1>1, <1>5 DEF PlaybookFails, Incident, Statuses, InvestigationStates, None
<1>6. CASE SaveFailed(t)
  BY <1>1, <1>6 DEF SaveFailed
<1>7. CASE SaveTimeout(t)
  BY <1>1, <1>7 DEF SaveTimeout
<1>8. CASE PostTimeoutInThread(t)
  BY <1>1, <1>8 DEF PostTimeoutInThread, Incident, Statuses, InvestigationStates, None
<1>9. CASE PostTimeoutStandalone(t)
  BY <1>1, <1>9 DEF PostTimeoutStandalone, Incident, Statuses, InvestigationStates, None
<1>10. CASE PostTimeoutUnavailable(t)
  BY <1>1, <1>10, UnansweredAdds DEF PostTimeoutUnavailable
<1>11. CASE SaveTimeoutThread(t)
  BY <1>1, <1>11 DEF SaveTimeoutThread
<1>12. CASE SaveValidating(t)
  BY <1>1, <1>12 DEF SaveValidating
<1>13. CASE GenerateRca(t)
  <2>1. PICK cause \in BOOLEAN, level \in {"Unknown", "Rated"} :
          /\ cause => level = "Rated"
          /\ SetCopy(t, [copy[t] EXCEPT
                !.status = IF cause THEN "ROOT_CAUSE_IDENTIFIED" ELSE "INSUFFICIENT_EVIDENCE",
                !.investigation_state = "RCA_GENERATED",
                !.root_cause = cause,
                !.confidence = level])
    BY <1>13 DEF GenerateRca
  <2>2. copy'[t] \in Incident /\ copy'[t].incident_id = copy[t].incident_id
    BY <1>1, <2>1 DEF Incident, Statuses, InvestigationStates
  <2> QED BY <1>1, <1>13, <2>1, <2>2 DEF GenerateRca
<1>14. CASE SaveRca(t)
  BY <1>1, <1>14 DEF SaveRca
<1>15. CASE PostRcaInThread(t)
  BY <1>1, <1>15 DEF PostRcaInThread, Incident, Statuses, InvestigationStates, None
<1>16. CASE PostRcaStandalone(t)
  BY <1>1, <1>16 DEF PostRcaStandalone, Incident, Statuses, InvestigationStates, None
<1>17. CASE PostRcaUnavailable(t)
  BY <1>1, <1>17, UnansweredAdds DEF PostRcaUnavailable
<1>18. CASE Remediate(t)
  BY <1>1, <1>18 DEF Remediate, Incident, Statuses, InvestigationStates, None
<1>19. CASE SaveFinal(t)
  BY <1>1, <1>19 DEF SaveFinal
<1> QED BY <1>2, <1>3, <1>4, <1>5, <1>6, <1>7, <1>8, <1>9, <1>10, <1>11, <1>12, <1>13, <1>14, <1>15, <1>16, <1>17, <1>18, <1>19 DEF RunInvestigation

\* What a run reports it has saved one step before.
LEMMA RunReports ==
    ASSUME TypeOK, NEW t \in Threads, RunStep(t)
    PROVE  /\ pc'[t] = "postRca" =>
                 pc[t] = "saveRca" /\ rows' = Save(rows, copy[t]) /\ copy'[t] = copy[t]
           /\ pc'[t] = "postTimeout" =>
                 pc[t] = "saveTimeout" /\ rows' = Save(rows, copy[t]) /\ copy'[t] = copy[t]
           /\ pc'[t] = "remediate" => pc[t] = "postRca" /\ rows' = rows
           /\ pc'[t] # "saveResolved"
  BY DEF RunStep, Escape, TypeOK, Goto, SetCopy, Return, SaveCopy, RunInvestigation, SaveCollecting, PlaybookReturns, PlaybookOverruns, PlaybookFails, SaveFailed, SaveTimeout, PostTimeoutInThread, PostTimeoutStandalone, PostTimeoutUnavailable, SaveTimeoutThread, SaveValidating, GenerateRca, SaveRca, PostRcaInThread, PostRcaStandalone, PostRcaUnavailable, Remediate, SaveFinal

\* The parts of the type that a thread's step has to respect.
ShapesKept ==
    /\ alert' = alert /\ crashes' = crashes
    /\ pc' \in [Threads -> Pcs]
    /\ event' \in [Threads -> Event \cup {NoEvent}]
    /\ copy' \in [Threads -> Incident \cup {NoIncident}]
    /\ slack' \subseteq Messages

\* A message about an incident in somebody's hands is well formed.
LEMMA UnansweredType ==
    ASSUME TypeOK, NEW t \in Threads, copy[t] \in Incident,
           NEW kind \in {"started", "rca", "timeout"}, slack' \in Unanswered(t, kind)
    PROVE  slack' \subseteq Messages
<1>1. copy[t].incident_id \in Incidents
  BY DEF Incident
<1> QED BY <1>1, UnansweredAdds DEF TypeOK, Message, Messages

\* Steps of run_investigation respect them.
LEMMA RunKeepsShapes ==
    ASSUME TypeOK, NEW t \in Threads, RunInvestigation(t)
    PROVE  /\ ShapesKept
           /\ \A s \in Threads : event'[s] = event[s] \/ pc'[s] = "idle"
<1> USE DEF TypeOK, ShapesKept, Goto, SetCopy, Return, SaveCopy, Message, Messages,
            Pcs, CreatorPcs, ResolverPcs, RunnerPcs
<1>1. pc[t] \in RunnerPcs /\ copy[t] \in Incident
  BY DEF RunInvestigation, SaveCollecting, PlaybookReturns, PlaybookOverruns, PlaybookFails, SaveFailed, SaveTimeout, PostTimeoutInThread, PostTimeoutStandalone, PostTimeoutUnavailable, SaveTimeoutThread, SaveValidating, GenerateRca, SaveRca, PostRcaInThread, PostRcaStandalone, PostRcaUnavailable, Remediate, SaveFinal
<1>2. copy[t].incident_id \in Incidents
      /\ copy[t].slack_thread_ts \in {None, "parent", "standalone"}
  BY <1>1 DEF Incident
<1>3. CASE SaveCollecting(t)
  BY <1>1, <1>2, <1>3 DEF SaveCollecting
<1>4. CASE PlaybookReturns(t)
  BY <1>1, <1>2, <1>4 DEF PlaybookReturns, Incident, Statuses, InvestigationStates
<1>5. CASE PlaybookOverruns(t)
  BY <1>1, <1>2, <1>5 DEF PlaybookOverruns, Incident, Statuses, InvestigationStates
<1>6. CASE PlaybookFails(t)
  BY <1>1, <1>2, <1>6 DEF PlaybookFails, Incident, Statuses, InvestigationStates
<1>7. CASE SaveFailed(t)
  BY <1>1, <1>2, <1>7 DEF SaveFailed
<1>8. CASE SaveTimeout(t)
  BY <1>1, <1>2, <1>8 DEF SaveTimeout
<1>9. CASE PostTimeoutInThread(t)
  BY <1>1, <1>2, <1>9 DEF PostTimeoutInThread
<1>10. CASE PostTimeoutStandalone(t)
  <2>1. [copy[t] EXCEPT !.slack_thread_ts = "standalone"] \in Incident
    BY <1>1 DEF Incident
  <2>2. copy' \in [Threads -> Incident \cup {NoIncident}]
    BY <1>10, <2>1 DEF PostTimeoutStandalone
  <2>3. slack' \subseteq Messages
    BY <1>2, <1>10 DEF PostTimeoutStandalone
  <2> QED BY <1>1, <1>10, <2>2, <2>3 DEF PostTimeoutStandalone
<1>11. CASE PostTimeoutUnavailable(t)
  BY <1>1, <1>2, <1>11, UnansweredType DEF PostTimeoutUnavailable
<1>12. CASE SaveTimeoutThread(t)
  BY <1>1, <1>2, <1>12 DEF SaveTimeoutThread
<1>13. CASE SaveValidating(t)
  BY <1>1, <1>2, <1>13 DEF SaveValidating
<1>14. CASE GenerateRca(t)
  <2>1. PICK cause \in BOOLEAN, level \in {"Unknown", "Rated"} :
          /\ cause => level = "Rated"
          /\ SetCopy(t, [copy[t] EXCEPT
                !.status = IF cause THEN "ROOT_CAUSE_IDENTIFIED" ELSE "INSUFFICIENT_EVIDENCE",
                !.investigation_state = "RCA_GENERATED",
                !.root_cause = cause,
                !.confidence = level])
    BY <1>14 DEF GenerateRca
  <2>2. copy'[t] \in Incident /\ copy'[t].incident_id = copy[t].incident_id
    BY <1>1, <2>1 DEF Incident, Statuses, InvestigationStates
  <2> QED BY <1>1, <1>14, <2>1, <2>2 DEF GenerateRca
<1>15. CASE SaveRca(t)
  BY <1>1, <1>2, <1>15 DEF SaveRca
<1>16. CASE PostRcaInThread(t)
  BY <1>1, <1>2, <1>16 DEF PostRcaInThread
<1>17. CASE PostRcaStandalone(t)
  BY <1>1, <1>2, <1>17 DEF PostRcaStandalone, Incident, Statuses, InvestigationStates
<1>18. CASE PostRcaUnavailable(t)
  BY <1>1, <1>2, <1>18, UnansweredType DEF PostRcaUnavailable
<1>19. CASE Remediate(t)
  BY <1>1, <1>2, <1>19 DEF Remediate, Incident, Statuses, InvestigationStates
<1>20. CASE SaveFinal(t)
  BY <1>1, <1>2, <1>20 DEF SaveFinal
<1> QED BY <1>3, <1>4, <1>5, <1>6, <1>7, <1>8, <1>9, <1>10, <1>11, <1>12, <1>13, <1>14, <1>15, <1>16, <1>17, <1>18, <1>19, <1>20 DEF RunInvestigation

\* A copy that fits its place and is coherent still does after a step of the run.
LEMMA RunCopyFits ==
    ASSUME TypeOK, NEW t \in Threads, RunStep(t),
           CopyFits(pc[t], copy[t]), Coherent(copy[t])
    PROVE  /\ CopyFits(pc'[t], copy'[t])
           /\ copy'[t] # NoIncident => Coherent(copy'[t])
<1> USE DEF TypeOK, CopyFits, Coherent, Goto, SetCopy, Return, CreatorPcs, RunnerPcs
<1>1. copy[t] \in Incident
  BY DEF RunStep, RunInvestigation, SaveCollecting, PlaybookReturns, PlaybookOverruns, PlaybookFails, SaveFailed, SaveTimeout, PostTimeoutInThread, PostTimeoutStandalone, PostTimeoutUnavailable, SaveTimeoutThread, SaveValidating, GenerateRca, SaveRca, PostRcaInThread, PostRcaStandalone, PostRcaUnavailable, Remediate, SaveFinal
<1>2. CASE SaveCollecting(t)
  BY <1>1, <1>2 DEF SaveCollecting, Incident, None
<1>3. CASE PlaybookReturns(t)
  BY <1>1, <1>3 DEF PlaybookReturns, Incident, None
<1>4. CASE PlaybookOverruns(t)
  BY <1>1, <1>4 DEF PlaybookOverruns, Incident, None
<1>5. CASE PlaybookFails(t)
  BY <1>1, <1>5 DEF PlaybookFails, Incident, None
<1>6. CASE SaveFailed(t)
  BY <1>1, <1>6 DEF SaveFailed, Incident, None
<1>7. CASE SaveTimeout(t)
  BY <1>1, <1>7 DEF SaveTimeout, Incident, None
<1>8. CASE PostTimeoutInThread(t)
  BY <1>1, <1>8 DEF PostTimeoutInThread, Incident, None
<1>9. CASE PostTimeoutStandalone(t)
  BY <1>1, <1>9 DEF PostTimeoutStandalone, Incident, None
<1>10. CASE PostTimeoutUnavailable(t)
  BY <1>1, <1>10 DEF PostTimeoutUnavailable, Incident, None
<1>11. CASE SaveTimeoutThread(t)
  BY <1>1, <1>11 DEF SaveTimeoutThread, Incident, None
<1>12. CASE SaveValidating(t)
  BY <1>1, <1>12 DEF SaveValidating, Incident, None
<1>13. CASE GenerateRca(t)
  <2>1. PICK cause \in BOOLEAN, level \in {"Unknown", "Rated"} :
          /\ cause => level = "Rated"
          /\ SetCopy(t, [copy[t] EXCEPT
                !.status = IF cause THEN "ROOT_CAUSE_IDENTIFIED" ELSE "INSUFFICIENT_EVIDENCE",
                !.investigation_state = "RCA_GENERATED",
                !.root_cause = cause,
                !.confidence = level])
    BY <1>13 DEF GenerateRca
  <2> QED BY <1>1, <1>13, <2>1 DEF GenerateRca, Incident, None
<1>14. CASE SaveRca(t)
  BY <1>1, <1>14 DEF SaveRca, Incident, None
<1>15. CASE PostRcaInThread(t)
  BY <1>1, <1>15 DEF PostRcaInThread, Incident, None
<1>16. CASE PostRcaStandalone(t)
  BY <1>1, <1>16 DEF PostRcaStandalone, Incident, None
<1>17. CASE PostRcaUnavailable(t)
  BY <1>1, <1>17 DEF PostRcaUnavailable, Incident, None
<1>18. CASE Remediate(t)
  BY <1>1, <1>18 DEF Remediate, Incident, None
<1>19. CASE SaveFinal(t)
  BY <1>1, <1>19 DEF SaveFinal, Incident, None
<1>20. CASE Escape(t)
  BY <1>20 DEF Escape
<1> QED BY <1>20, <1>2, <1>3, <1>4, <1>5, <1>6, <1>7, <1>8, <1>9, <1>10, <1>11, <1>12, <1>13, <1>14, <1>15, <1>16, <1>17, <1>18, <1>19 DEF RunStep, RunInvestigation

\* Deliveries, lookups that change nothing, failures that end a call and a
\* crash are of kind Quiet.
LEMMA QuietSteps ==
    ASSUME TypeOK, CopyMatchesPc,
           \/ \E f \in AlertFingerprints : AlertChanges(f)
           \/ \E h \in Handlers, f \in AlertFingerprints : Delivery(h, f)
           \/ \E h \in Handlers, f \in AskFingerprints : Ask(h, f)
           \/ \E h \in Handlers : \/ FiringIsDuplicate(h) \/ FiringIsNew(h)
                                  \/ ResolvedIsUnknown(h) \/ PostResolution(h)
           \/ \E t \in Threads : pc[t] # "postRca" /\ Escape(t)
           \/ Crash
           \/ UNCHANGED vars
    PROVE  Quiet
<1> USE DEF TypeOK, CopyMatchesPc, CopyFits, Quiet, NoVerdictPosted, Goto, SetCopy, Return, Threads
<1>1. ASSUME NEW f \in AlertFingerprints, AlertChanges(f) PROVE Quiet
  BY <1>1 DEF AlertChanges
<1>2. ASSUME NEW h \in Handlers, NEW f \in AlertFingerprints, Delivery(h, f) PROVE Quiet
  BY <1>2 DEF Delivery, Receive
<1>3. ASSUME NEW h \in Handlers, NEW f \in AskFingerprints, Ask(h, f) PROVE Quiet
  BY <1>3 DEF Ask
<1>4. ASSUME NEW h \in Handlers, FiringIsDuplicate(h) PROVE Quiet
  BY <1>4 DEF FiringIsDuplicate
<1>5. ASSUME NEW h \in Handlers, FiringIsNew(h) PROVE Quiet
  BY <1>5 DEF FiringIsNew
<1>6. ASSUME NEW h \in Handlers, ResolvedIsUnknown(h) PROVE Quiet
  BY <1>6 DEF ResolvedIsUnknown
<1>7. ASSUME NEW h \in Handlers, PostResolution(h) PROVE Quiet
  BY <1>7 DEF PostResolution, Message
<1>8. ASSUME NEW t \in Threads, pc[t] # "postRca", Escape(t) PROVE Quiet
  <2>1. NoVerdictPosted
    BY <1>8, EscapePosts DEF Unanswered, Message
  <2> HIDE DEF NoVerdictPosted
  <2> QED BY <1>8, <2>1 DEF Escape
<1>9. CASE Crash
  BY <1>9 DEF Crash
<1>10. CASE UNCHANGED vars
  BY <1>10 DEF vars
<1> QED BY <1>1, <1>2, <1>3, <1>4, <1>5, <1>6, <1>7, <1>8, <1>9, <1>10

\* Announcing and saving the started incident are of kind CreatorGoesOn.
LEMMA CreatorSteps ==
    ASSUME TypeOK, NEW h \in Handlers,
           Announce(h) \/ AnnounceUnavailable(h) \/ SaveStarted(h)
    PROVE  CreatorGoesOn(h)
<1> USE DEF TypeOK, CreatorGoesOn, NoVerdictPosted, OnlyMoves, Goto, SetCopy, SaveCopy,
            CreatorPcs, Threads, Message
<1>1. CASE Announce(h)
  <2>1. copy[h] \in Incident
    BY <1>1 DEF Announce
  <2> DEFINE announced == [copy[h] EXCEPT !.slack_thread_ts = "parent"]
  <2>2. /\ announced \in Incident
        /\ announced.incident_id = copy[h].incident_id
        /\ announced.investigation_state = copy[h].investigation_state
        /\ Coherent(copy[h]) => Coherent(announced)
    BY <2>1 DEF Incident, Coherent, None
  <2>3. NoVerdictPosted
    BY <1>1 DEF Announce
  <2>4. copy' = [copy EXCEPT ![h] = announced]
    BY <1>1 DEF Announce
  <2> HIDE DEF announced, NoVerdictPosted
  <2> QED BY <1>1, <2>2, <2>3, <2>4 DEF Announce
<1>2. CASE AnnounceUnavailable(h)
  BY <1>2 DEF AnnounceUnavailable, Unanswered
<1>3. CASE SaveStarted(h)
  BY <1>3 DEF SaveStarted
<1> QED BY <1>1, <1>2, <1>3

\* Creating an incident is of kind Creates.
LEMMA CreateStep ==
    ASSUME TypeOK, NEW h \in Handlers, CreateIncident(h)
    PROVE  \E i \in Incidents : Creates(h, i)
<1> USE DEF Threads
<1>1. PICK i \in Incidents \ DOMAIN rows :
        LET inc == NewIncident(i, event[h].fp, event[h].start)
        IN  /\ rows' = Create(rows, inc)
            /\ SetCopy(h, [inc EXCEPT !.status = "INVESTIGATION_STARTED"])
  BY DEF CreateIncident
<1> DEFINE inc == NewIncident(i, event[h].fp, event[h].start)
<1> DEFINE started == [inc EXCEPT !.status = "INVESTIGATION_STARTED"]
<1>2. /\ inc \in Incident /\ inc.incident_id = i
      /\ inc.investigation_state = "ALERT_RECEIVED" /\ Coherent(inc)
  BY NewIncidentType DEF TypeOK, CreateIncident, Event
<1>3. /\ started \in Incident /\ started.incident_id = i
      /\ started.investigation_state = "ALERT_RECEIVED"
  BY <1>2 DEF Incident, Statuses
<1>4. Coherent(started)
  BY DEF NewIncident, Coherent, None
<1>5. copy' = [copy EXCEPT ![h] = started] /\ rows' = Create(rows, inc)
  BY <1>1 DEF SetCopy
<1> HIDE DEF inc, started
<1>6. /\ DOMAIN rows' = DOMAIN rows \cup {i}
      /\ rows'[i] = inc
      /\ \A j \in DOMAIN rows : rows'[j] = rows[j]
  BY <1>2, <1>5 DEF Create, Put
<1>7. Creates(h, i)
  BY <1>2, <1>3, <1>4, <1>5, <1>6 DEF TypeOK, CreateIncident, Creates, Goto, OnlyMoves
<1> QED BY <1>7

\* Submitting an investigation is of kind HandsOver.
LEMMA SubmitStep ==
    ASSUME TypeOK, NEW h \in Handlers, Submit(h)
    PROVE  HandsOver(h)
  BY DEF TypeOK, Submit, HandsOver, OnlyMoves, Return, Goto, SetCopy, Threads

\* Looking up the incident of a resolved alert is of kind Resolves.
LEMMA ResolveStep ==
    ASSUME TypeOK, NEW h \in Handlers, ResolveIncident(h)
    PROVE  \E i \in Incidents : Resolves(h, i)
<1> USE DEF Threads
<1>1. PICK inc \in GetActive(rows, event[h].fp) : SetCopy(h, [inc EXCEPT !.status = "RESOLVED"])
  BY DEF ResolveIncident
<1>2. inc \in Incident /\ inc.incident_id \in DOMAIN rows /\ inc = rows[inc.incident_id]
  BY GetActiveIsRow DEF TypeOK
<1> DEFINE resolved == [inc EXCEPT !.status = "RESOLVED"]
<1>3. /\ resolved \in Incident /\ resolved.incident_id = inc.incident_id
      /\ resolved.investigation_state = inc.investigation_state
      /\ resolved.status = "RESOLVED"
  BY <1>2 DEF Incident, Statuses
<1>4. Coherent(inc) => Coherent(resolved)
  BY <1>2 DEF Coherent, Incident
<1>5. copy' = [copy EXCEPT ![h] = resolved]
  BY <1>1 DEF SetCopy
<1> HIDE DEF resolved
<1>6. Resolves(h, inc.incident_id)
  BY <1>2, <1>3, <1>4, <1>5 DEF TypeOK, ResolveIncident, Resolves, Goto, OnlyMoves
<1> QED BY <1>2, <1>6 DEF Incident

\* Saving the resolved incident is of kind SavesResolved.
LEMMA SaveResolvedStep ==
    ASSUME TypeOK, NEW h \in Handlers, SaveResolved(h)
    PROVE  SavesResolved(h)
  BY DEF TypeOK, SaveResolved, SavesResolved, OnlyMoves, SaveCopy, Return, Goto, SetCopy, Threads

\* Taking a job and running inline are of kind RunBegins.
LEMMA BeginStep ==
    ASSUME TypeOK, HeldRowsExist, NEW t \in Threads, TakeJob(t) \/ RunInline(t)
    PROVE  \E i \in Incidents : RunBegins(t, i)
<1>1. PICK i \in DOMAIN rows :
        /\ BeginRun(t, i)
        /\ \/ /\ pc[t] = "idle"
              /\ queue # <<>> /\ i = queue[1] /\ queue' = Tail(queue)
           \/ pc[t] = "load" /\ i = copy[t].incident_id /\ queue' = queue
  <2>1. CASE TakeJob(t)
    BY <2>1 DEF TypeOK, HeldRowsExist, TakeJob
  <2>2. CASE RunInline(t)
    BY <2>2, PlaceholderAssumption DEF TypeOK, HeldRowsExist, RunInline, CreatorPcs
  <2> QED BY <2>1, <2>2
<1>2. rows[i] \in Incident /\ rows[i].incident_id = i /\ i \in Incidents
  BY DEF TypeOK, IsTable
<1> DEFINE begun == [rows[i] EXCEPT !.investigation_state = "DATA_COLLECTION"]
<1>3. /\ begun \in Incident /\ begun.incident_id = i
      /\ begun.investigation_state = "DATA_COLLECTION"
  BY <1>2 DEF Incident, InvestigationStates
<1>4. Coherent(rows[i]) /\ rows[i].investigation_state = "ALERT_RECEIVED" =>
        /\ Coherent(begun)
        /\ begun.status \in {"ALERT_RECEIVED", "INVESTIGATION_STARTED", "RESOLVED"}
  BY <1>2 DEF Coherent, Incident, Statuses, None
<1>5. copy' = [copy EXCEPT ![t] = begun] /\ pc' = [pc EXCEPT ![t] = "saveCollecting"]
  BY <1>1 DEF BeginRun, SetCopy, Goto
<1>6. rows' = rows /\ slack' = slack
  BY DEF TakeJob, RunInline
<1> HIDE DEF begun
<1>7. RunBegins(t, i)
  BY <1>1, <1>3, <1>4, <1>5, <1>6 DEF TypeOK, RunBegins, OnlyMoves
<1> QED BY <1>2, <1>7

\* What Alertmanager sends is a delivery.
LEMMA WebhookIsDelivery ==
    ASSUME TypeOK, NEW h \in Handlers, NEW f \in AlertFingerprints, Webhook(h, f)
    PROVE  Delivery(h, f)
<1>1. (alert[f] + 1) \div 2 \in Nat
  BY DEF TypeOK
<1>2. (IF Firing(f) THEN "firing" ELSE "resolved") \in {"firing", "resolved"}
  OBVIOUS
<1> QED BY <1>1, <1>2 DEF Webhook, Delivery

\* A step of the specification is of one of the eight kinds.
LEMMA StepKinds ==
    ASSUME TypeOK, HeldRowsExist, CopyMatchesPc, [OpenNext]_vars
    PROVE  \/ Quiet
           \/ \E t \in Threads, i \in Incidents : Creates(t, i)
           \/ \E t \in Threads : CreatorGoesOn(t)
           \/ \E t \in Threads : HandsOver(t)
           \/ \E t \in Threads, i \in Incidents : Resolves(t, i)
           \/ \E t \in Threads : SavesResolved(t)
           \/ \E t \in Threads, i \in Incidents : RunBegins(t, i)
           \/ \E t \in Threads : RunStep(t) /\ RunGoesOn(t)
<1>1. ASSUME NEW h \in Handlers,
             Announce(h) \/ AnnounceUnavailable(h) \/ SaveStarted(h)
      PROVE  \E t \in Threads : CreatorGoesOn(t)
  BY <1>1, CreatorSteps DEF Threads
<1>2. ASSUME NEW h \in Handlers, CreateIncident(h)
      PROVE  \E t \in Threads, i \in Incidents : Creates(t, i)
  BY <1>2, CreateStep DEF Threads
<1>3. ASSUME NEW h \in Handlers, Submit(h) PROVE \E t \in Threads : HandsOver(t)
  BY <1>3, SubmitStep DEF Threads
<1>4. ASSUME NEW h \in Handlers, ResolveIncident(h)
      PROVE  \E t \in Threads, i \in Incidents : Resolves(t, i)
  BY <1>4, ResolveStep DEF Threads
<1>5. ASSUME NEW h \in Handlers, SaveResolved(h) PROVE \E t \in Threads : SavesResolved(t)
  BY <1>5, SaveResolvedStep DEF Threads
<1>6. ASSUME NEW t \in Threads, TakeJob(t) \/ RunInline(t)
      PROVE  \E s \in Threads, i \in Incidents : RunBegins(s, i)
  BY <1>6, BeginStep
<1>7. ASSUME NEW t \in Threads, RunInvestigation(t) \/ (pc[t] = "postRca" /\ Escape(t))
      PROVE  \E s \in Threads : RunStep(s) /\ RunGoesOn(s)
  BY <1>7, RunIsRunGoesOn, EscapeIsRunGoesOn DEF RunStep
<1>8. ASSUME NEW h \in Handlers, NEW f \in AlertFingerprints, Webhook(h, f) PROVE Quiet
  BY <1>8, WebhookIsDelivery, QuietSteps
<1> QED BY QuietSteps, <1>8, <1>1, <1>2, <1>3, <1>4, <1>5, <1>6, <1>7
        DEF OpenNext, Next, HandlerStep, WorkerStep, HandleAlert, Threads

\* A thread's step moves no other thread, and is no news of an alert.
LEMMA OthersStay ==
    ASSUME TypeOK, NEW t \in Threads, HandleAlert(t) \/ RunInvestigation(t) \/ Escape(t) \/ TakeJob(t)
    PROVE  /\ alert' = alert /\ crashes' = crashes
           /\ \A s \in Threads \ {t} : pc'[s] = pc[s] /\ copy'[s] = copy[s] /\ event'[s] = event[s]
<1> USE DEF TypeOK, Goto, SetCopy, Return
<1>1. CASE HandleAlert(t)
  BY <1>1 DEF HandleAlert, FiringIsDuplicate, FiringIsNew, CreateIncident, Announce,
     AnnounceUnavailable, SaveStarted, Submit, ResolvedIsUnknown, ResolveIncident,
     SaveResolved, PostResolution, RunInline, BeginRun
<1>2. CASE RunInvestigation(t)
  BY <1>2 DEF RunInvestigation, SaveCollecting, PlaybookReturns, PlaybookOverruns, PlaybookFails,
     SaveFailed, SaveTimeout, PostTimeoutInThread, PostTimeoutStandalone, PostTimeoutUnavailable,
     SaveTimeoutThread, SaveValidating, GenerateRca, SaveRca, PostRcaInThread, PostRcaStandalone,
     PostRcaUnavailable, Remediate, SaveFinal
<1>3. CASE Escape(t) \/ TakeJob(t)
  BY <1>3 DEF Escape, TakeJob, BeginRun
<1> QED BY <1>1, <1>2, <1>3

\* A run goes on by its own steps only, unless an exception ends it or the
\* process dies.
LEMMA RunsAreKept ==
    ASSUME TypeOK, Escapes \subseteq {"announce"}, [OpenNext]_vars, crashes' = 0
    PROVE  /\ crashes = 0
           /\ \A t \in Threads : pc[t] \in RunnerPcs =>
                 \/ pc'[t] = pc[t] /\ copy'[t] = copy[t]
                 \/ RunInvestigation(t)
<1> DEFINE Kept == /\ crashes = 0
                   /\ \A t \in Threads : pc[t] \in RunnerPcs =>
                         \/ pc'[t] = pc[t] /\ copy'[t] = copy[t]
                         \/ RunInvestigation(t)
<1>1. ASSUME NEW f \in AlertFingerprints, AlertChanges(f) PROVE Kept
  BY <1>1 DEF AlertChanges
<1>2. ASSUME NEW h \in Handlers, NEW f, Webhook(h, f) \/ Delivery(h, f) \/ Ask(h, f) PROVE Kept
  BY <1>2 DEF TypeOK, Webhook, Delivery, Receive, Ask, Goto, RunnerPcs, Threads
<1>3. ASSUME NEW t \in Threads, HandleAlert(t) \/ Escape(t) \/ TakeJob(t) PROVE Kept
  <2>1. pc[t] \notin RunnerPcs
    BY <1>3 DEF Escape, TakeJob, HandleAlert, FiringIsDuplicate, FiringIsNew, CreateIncident,
       Announce, AnnounceUnavailable, SaveStarted, Submit, ResolvedIsUnknown, ResolveIncident,
       SaveResolved, PostResolution, RunInline, RunnerPcs
  <2> QED BY <1>3, <2>1, OthersStay
<1>4. ASSUME NEW t \in Threads, RunInvestigation(t) PROVE Kept
  BY <1>4, OthersStay
<1>5. CASE Crash
  BY <1>5 DEF Crash, TypeOK
<1>6. CASE UNCHANGED vars
  BY <1>6 DEF vars
<1> QED BY <1>1, <1>2, <1>3, <1>4, <1>5, <1>6 DEF OpenNext, Next, HandlerStep, WorkerStep, Threads

-----------------------------------------------------------------------------
(* Type correctness.                                                       *)

\* The initial state is well typed.
LEMMA TypeInit == Init => TypeOK
  BY OrchestratorAssumption DEF Init, TypeOK, IsTable, EmptyTable, Pcs, AlertFingerprints,
       CreatorPcs, ResolverPcs, RunnerPcs, Event, Messages

\* Every step keeps the type (given that queued incidents have rows).
LEMMA TypeStep ==
    ASSUME TypeOK, HeldRowsExist, CopyMatchesPc, [OpenNext]_vars
    PROVE  TypeOK'
<1> USE DEF Pcs, CreatorPcs, ResolverPcs, RunnerPcs, Threads
<1>1. ASSUME NEW f \in AlertFingerprints, AlertChanges(f) PROVE TypeOK'
  BY <1>1 DEF TypeOK, AlertChanges
<1>2. ASSUME NEW h \in Handlers, NEW f \in AlertFingerprints, Delivery(h, f) PROVE TypeOK'
  BY <1>2 DEF TypeOK, Delivery, Receive, Goto, Event, AlertFingerprints
<1>3. ASSUME NEW h \in Handlers, NEW f \in AskFingerprints, Ask(h, f) PROVE TypeOK'
  BY <1>3, OrchestratorAssumption DEF TypeOK, Ask, Goto, Event
<1>4. ASSUME NEW h \in Handlers,
             FiringIsDuplicate(h) \/ ResolvedIsUnknown(h) \/ FiringIsNew(h)
      PROVE  TypeOK'
  BY <1>4 DEF TypeOK, FiringIsDuplicate, ResolvedIsUnknown, FiringIsNew, Return, Goto, SetCopy
<1>5. ASSUME NEW h \in Handlers, CreateIncident(h) PROVE TypeOK'
  <2>1. PICK i \in Incidents \ DOMAIN rows :
          LET inc == NewIncident(i, event[h].fp, event[h].start)
          IN  /\ rows' = Create(rows, inc)
              /\ SetCopy(h, [inc EXCEPT !.status = "INVESTIGATION_STARTED"])
    BY <1>5 DEF CreateIncident
  <2> DEFINE inc == NewIncident(i, event[h].fp, event[h].start)
  <2>2. event[h] \in Event
    BY <1>5 DEF TypeOK, CreateIncident
  <2>3. inc \in Incident
    BY <2>2, NewIncidentType DEF Event
  <2> DEFINE started == [inc EXCEPT !.status = "INVESTIGATION_STARTED"]
  <2>4. started \in Incident
    BY <2>3 DEF Incident, Statuses
  <2>5. IsTable(rows')
    BY <2>1, <2>3, CreateTable DEF TypeOK
  <2>6. copy' = [copy EXCEPT ![h] = started]
    BY <2>1 DEF SetCopy
  <2> HIDE DEF inc, started
  <2> QED BY <2>2, <2>4, <2>5, <2>6, <1>5 DEF TypeOK, CreateIncident, Goto
<1>6. ASSUME NEW h \in Handlers, Announce(h) PROVE TypeOK'
  <2>1. copy[h] \in Incident
    BY <1>6 DEF TypeOK, Announce
  <2>2. [copy[h] EXCEPT !.slack_thread_ts = "parent"] \in Incident
    BY <2>1 DEF Incident
  <2>3. slack' \subseteq Messages
    BY <2>1, <1>6 DEF TypeOK, Announce, Message, Messages, Incident
  <2> QED BY <2>2, <2>3, <1>6 DEF TypeOK, Announce, Goto, SetCopy
<1>7. ASSUME NEW h \in Handlers, AnnounceUnavailable(h) PROVE TypeOK'
  <2>1. copy[h] \in Incident
    BY <1>7 DEF TypeOK, AnnounceUnavailable
  <2>2. slack' \subseteq Messages
    BY <1>7, <2>1, UnansweredType DEF AnnounceUnavailable
  <2> QED BY <1>7, <2>2 DEF TypeOK, AnnounceUnavailable, Goto
<1>8. ASSUME NEW h \in Handlers, SaveStarted(h) PROVE TypeOK'
  <2>1. IsTable(rows')
    BY <1>8, SaveTable DEF TypeOK, SaveStarted, SaveCopy
  <2> QED BY <2>1, <1>8 DEF TypeOK, SaveStarted, Goto
<1>9. ASSUME NEW h \in Handlers, Submit(h) PROVE TypeOK'
  <2>1. copy[h].incident_id \in Incidents
    BY <1>9 DEF TypeOK, Submit, Incident
  <2> QED BY <2>1, <1>9 DEF TypeOK, Submit, Goto, SetCopy, Return
<1>10. ASSUME NEW h \in Handlers, ResolveIncident(h) PROVE TypeOK'
  <2>1. PICK inc \in GetActive(rows, event[h].fp) : SetCopy(h, [inc EXCEPT !.status = "RESOLVED"])
    BY <1>10 DEF ResolveIncident
  <2>2. inc \in Incident
    BY GetActiveIsRow DEF TypeOK
  <2>3. [inc EXCEPT !.status = "RESOLVED"] \in Incident
    BY <2>2 DEF Incident, Statuses
  <2> QED BY <2>1, <2>3, <1>10 DEF TypeOK, ResolveIncident, Goto, SetCopy
<1>11. ASSUME NEW h \in Handlers, SaveResolved(h) PROVE TypeOK'
  <2>1. IsTable(rows')
    BY <1>11, SaveTable DEF TypeOK, SaveResolved, SaveCopy
  <2> QED BY <2>1, <1>11 DEF TypeOK, SaveResolved, Goto, Return, SetCopy
<1>12. ASSUME NEW h \in Handlers, PostResolution(h) PROVE TypeOK'
  <2>1. slack' \subseteq Messages
    <3>1. copy[h] \in Incident
      BY <1>12 DEF TypeOK, PostResolution
    <3>2. copy[h].slack_thread_ts \in {"parent", "standalone"}
      BY <3>1, <1>12 DEF TypeOK, CopyMatchesPc, CopyFits, PostResolution, Incident, None
    <3>3. copy[h].incident_id \in Incidents
      BY <3>1 DEF Incident
    <3>4. Message(h, "resolution", copy[h].slack_thread_ts) \in Messages
      BY <3>2, <3>3 DEF Message, Messages
    <3> QED BY <3>4, <1>12 DEF TypeOK, PostResolution
  <2> QED BY <2>1, <1>12 DEF TypeOK, PostResolution, Goto, Return, SetCopy
<1>13. ASSUME NEW t \in Threads, TakeJob(t) \/ RunInline(t) PROVE TypeOK'
  <2>1. PICK i \in DOMAIN rows : BeginRun(t, i)
    <3>1. CASE TakeJob(t)
      BY <3>1 DEF TypeOK, HeldRowsExist, TakeJob
    <3>2. CASE RunInline(t)
      BY <3>2, PlaceholderAssumption DEF TypeOK, HeldRowsExist, RunInline
    <3> QED BY <1>13, <3>1, <3>2
  <2>2. rows[i] \in Incident
    BY DEF TypeOK, IsTable
  <2> DEFINE begun == [rows[i] EXCEPT !.investigation_state = "DATA_COLLECTION"]
  <2>3. begun \in Incident
    BY <2>2 DEF Incident, InvestigationStates
  <2>4. queue' \in Seq(Incidents)
    BY <1>13 DEF TypeOK, TakeJob, RunInline
  <2>5. copy' = [copy EXCEPT ![t] = begun]
    BY <2>1 DEF BeginRun, SetCopy
  <2> HIDE DEF begun
  <2> QED BY <2>1, <2>3, <2>4, <2>5, <1>13 DEF TypeOK, TakeJob, RunInline, BeginRun, Goto
<1>14. ASSUME NEW t \in Threads, RunInvestigation(t) PROVE TypeOK'
  <2>1. RunGoesOn(t)
    BY <1>14, RunIsRunGoesOn
  <2>2. ShapesKept /\ \A s \in Threads : event'[s] = event[s] \/ pc'[s] = "idle"
    BY <1>14, RunKeepsShapes
  <2>3. IsTable(rows')
    BY <2>1, SaveTable DEF RunGoesOn, TypeOK
  <2> QED BY <2>1, <2>2, <2>3 DEF TypeOK, RunGoesOn, ShapesKept, OnlyMoves
<1>15. ASSUME NEW t \in Threads, Escape(t) PROVE TypeOK'
  <2>1. slack' \subseteq Messages
    <3>1. pc[t] \in {"announce", "postRca"} => copy[t] \in Incident
      BY DEF TypeOK
    <3> QED BY <1>15, <3>1, EscapePosts, UnansweredType DEF TypeOK
  <2> QED BY <1>15, <2>1 DEF TypeOK, Escape, Return, Goto, SetCopy
<1>16. CASE Crash
  BY <1>16 DEF TypeOK, Crash
<1>17. CASE UNCHANGED vars
  BY <1>17 DEF TypeOK, vars
<1> QED BY <1>1, <1>2, <1>3, <1>4, <1>5, <1>6, <1>7, <1>8, <1>9, <1>10, <1>11, <1>12,
           <1>13, <1>14, <1>15, <1>16, <1>17,
           WebhookIsDelivery
        DEF OpenNext, Next, HandlerStep, WorkerStep, HandleAlert

-----------------------------------------------------------------------------
(* Preservation of each conjunct of IndInv.                                 *)

\* What a thread holds while it owns an incident is an incident.
LEMMA HoldersHold ==
    ASSUME TypeOK
    PROVE  \A t \in Threads : pc[t] \in CreatorPcs \cup ResolverPcs \cup RunnerPcs =>
              /\ copy[t] \in Incident
              /\ copy[t] # NoIncident
  BY PlaceholderAssumption DEF TypeOK

\* Saving a copy changes no row but its own and no row's presence.
LEMMA SaveRow ==
    ASSUME NEW table, NEW inc
    PROVE  /\ DOMAIN Save(table, inc) = DOMAIN table
           /\ \A i \in DOMAIN table :
                 Save(table, inc)[i] = IF i = inc.incident_id THEN inc ELSE table[i]
  BY DEF Save, Put

\* The queue after an append: what it held, and the new id at its end.
LEMMA AppendQueue ==
    ASSUME NEW q \in Seq(Incidents), NEW x \in Incidents
    PROVE  \A n \in DOMAIN Append(q, x) :
              \/ n \in DOMAIN q /\ Append(q, x)[n] = q[n]
              \/ n = Len(q) + 1 /\ n \notin DOMAIN q /\ Append(q, x)[n] = x
  OBVIOUS

\* The queue without its head: what stood one place further.
LEMMA TailQueue ==
    ASSUME NEW q \in Seq(Incidents), q # <<>>
    PROVE  /\ 1 \in DOMAIN q
           /\ \A n \in DOMAIN Tail(q) :
                 /\ n \in Nat /\ n >= 1
                 /\ n + 1 \in DOMAIN q
                 /\ Tail(q)[n] = q[n + 1]
  OBVIOUS

\* Rows are never removed, so what is referred to keeps existing.
LEMMA HeldRowsStep ==
    ASSUME TypeOK, HeldRowsExist, CopyMatchesPc, [OpenNext]_vars
    PROVE  HeldRowsExist'
<1> USE DEF HeldRowsExist, OnlyMoves, CreatorPcs, ResolverPcs, RunnerPcs
<1>1. CASE Quiet
  BY <1>1 DEF Quiet
<1>2. ASSUME NEW t \in Threads, NEW i \in Incidents, Creates(t, i) PROVE HeldRowsExist'
  BY <1>2 DEF Creates
<1>3. ASSUME NEW t \in Threads, CreatorGoesOn(t) PROVE HeldRowsExist'
  BY <1>3, HoldersHold, SaveRow DEF CreatorGoesOn
<1>4. ASSUME NEW t \in Threads, HandsOver(t) PROVE HeldRowsExist'
  <2>1. queue \in Seq(Incidents) /\ copy[t] \in Incident /\ copy[t].incident_id \in Incidents
    BY <1>4, HoldersHold DEF HandsOver, TypeOK, Incident, CreatorPcs
  <2> QED BY <1>4, <2>1, HoldersHold, AppendQueue DEF HandsOver
<1>5. ASSUME NEW t \in Threads, NEW i \in Incidents, Resolves(t, i) PROVE HeldRowsExist'
  BY <1>5 DEF Resolves
<1>6. ASSUME NEW t \in Threads, SavesResolved(t) PROVE HeldRowsExist'
  BY <1>6, HoldersHold, SaveRow DEF SavesResolved
<1>7. ASSUME NEW t \in Threads, NEW i \in Incidents, RunBegins(t, i) PROVE HeldRowsExist'
  <2>1. CASE pc[t] = "idle"
    <3>1. queue \in Seq(Incidents) /\ queue # <<>> /\ queue' = Tail(queue)
      BY <1>7, <2>1 DEF RunBegins, TypeOK
    <3> QED BY <1>7, <2>1, <3>1, TailQueue DEF RunBegins
  <2>2. CASE pc[t] = "load"
    BY <1>7, <2>2, HoldersHold DEF RunBegins, ResolverPcs
  <2> QED BY <1>7, <2>1, <2>2 DEF RunBegins
<1>8. ASSUME NEW t \in Threads, RunStep(t), RunGoesOn(t) PROVE HeldRowsExist'
  BY <1>8, HoldersHold, SaveRow DEF RunGoesOn
<1> QED BY StepKinds, <1>1, <1>2, <1>3, <1>4, <1>5, <1>6, <1>7, <1>8

\* Ownership moves from the creator to the queue to the worker.
LEMMA SingleOwnerStep ==
    ASSUME TypeOK, HeldRowsExist, CopyMatchesPc, SingleOwner, WaitingIsFresh, [OpenNext]_vars
    PROVE  SingleOwner'
<1> USE DEF SingleOwner, Owns, OnlyMoves, CreatorPcs, RunnerPcs
<1>1. CASE Quiet
  BY <1>1 DEF Quiet
<1>2. ASSUME NEW t \in Threads, NEW i \in Incidents, Creates(t, i) PROVE SingleOwner'
  BY <1>2, HoldersHold DEF Creates, HeldRowsExist, ResolverPcs
<1>3. ASSUME NEW t \in Threads, CreatorGoesOn(t) PROVE SingleOwner'
  BY <1>3 DEF CreatorGoesOn
<1>4. ASSUME NEW t \in Threads, HandsOver(t) PROVE SingleOwner'
  <2>1. queue \in Seq(Incidents) /\ copy[t] \in Incident /\ copy[t].incident_id \in Incidents
    BY <1>4, HoldersHold DEF HandsOver, TypeOK, Incident, CreatorPcs
  <2> QED BY <1>4, <2>1, HoldersHold, AppendQueue DEF HandsOver
<1>5. ASSUME NEW t \in Threads, NEW i \in Incidents, Resolves(t, i) PROVE SingleOwner'
  BY <1>5 DEF Resolves
<1>6. ASSUME NEW t \in Threads, SavesResolved(t) PROVE SingleOwner'
  BY <1>6 DEF SavesResolved
<1>7. ASSUME NEW t \in Threads, NEW i \in Incidents, RunBegins(t, i) PROVE SingleOwner'
  <2>1. CASE pc[t] = "idle"
    <3>1. queue \in Seq(Incidents) /\ queue # <<>> /\ queue' = Tail(queue)
      BY <1>7, <2>1 DEF RunBegins, TypeOK
    <3> QED BY <1>7, <2>1, <3>1, TailQueue DEF RunBegins
  <2>2. CASE pc[t] = "load"
    BY <1>7, <2>2, HoldersHold DEF RunBegins, ResolverPcs
  <2> QED BY <1>7, <2>1, <2>2 DEF RunBegins
<1>8. ASSUME NEW t \in Threads, RunStep(t), RunGoesOn(t) PROVE SingleOwner'
  BY <1>8 DEF RunGoesOn
<1> QED BY StepKinds, <1>1, <1>2, <1>3, <1>4, <1>5, <1>6, <1>7, <1>8

\* Nobody saves a copy that is not fresh over a waiting incident.
LEMMA WaitingIsFreshStep ==
    ASSUME TypeOK, HeldRowsExist, CopyMatchesPc, SingleOwner, WaitingIsFresh, ResolversFresh, [OpenNext]_vars
    PROVE  WaitingIsFresh'
<1> USE DEF WaitingIsFresh, OnlyMoves, CreatorPcs
<1>1. CASE Quiet
  BY <1>1 DEF Quiet
<1>2. ASSUME NEW t \in Threads, NEW i \in Incidents, Creates(t, i) PROVE WaitingIsFresh'
  BY <1>2 DEF Creates, HeldRowsExist
<1>3. ASSUME NEW t \in Threads, CreatorGoesOn(t) PROVE WaitingIsFresh'
  BY <1>3, SaveRow DEF CreatorGoesOn, CopyMatchesPc, CopyFits
<1>4. ASSUME NEW t \in Threads, HandsOver(t) PROVE WaitingIsFresh'
  <2>1. queue \in Seq(Incidents) /\ copy[t] \in Incident /\ copy[t].incident_id \in Incidents
    BY <1>4, HoldersHold DEF HandsOver, TypeOK, Incident, CreatorPcs
  <2> QED BY <1>4, <2>1, HoldersHold, AppendQueue DEF HandsOver
<1>5. ASSUME NEW t \in Threads, NEW i \in Incidents, Resolves(t, i) PROVE WaitingIsFresh'
  BY <1>5 DEF Resolves
<1>6. ASSUME NEW t \in Threads, SavesResolved(t) PROVE WaitingIsFresh'
  BY <1>6, SaveRow DEF SavesResolved, ResolversFresh, Waiting
<1>7. ASSUME NEW t \in Threads, NEW i \in Incidents, RunBegins(t, i) PROVE WaitingIsFresh'
  <2>1. CASE pc[t] = "idle"
    <3>1. queue \in Seq(Incidents) /\ queue # <<>> /\ queue' = Tail(queue)
      BY <1>7, <2>1 DEF RunBegins, TypeOK
    <3> QED BY <1>7, <2>1, <3>1, TailQueue DEF RunBegins
  <2>2. CASE pc[t] = "load"
    BY <1>7, <2>2, HoldersHold DEF RunBegins, ResolverPcs
  <2> QED BY <1>7, <2>1, <2>2 DEF RunBegins
<1>8. ASSUME NEW t \in Threads, RunStep(t), RunGoesOn(t) PROVE WaitingIsFresh'
  BY <1>8, SaveRow DEF RunGoesOn, SingleOwner, Owns, RunnerPcs
<1> QED BY StepKinds, <1>1, <1>2, <1>3, <1>4, <1>5, <1>6, <1>7, <1>8

\* A resolver that read a waiting incident read it fresh.
LEMMA ResolversFreshStep ==
    ASSUME TypeOK, HeldRowsExist, CopyMatchesPc, WaitingIsFresh, ResolversFresh, [OpenNext]_vars
    PROVE  ResolversFresh'
<1> USE DEF ResolversFresh, Waiting, OnlyMoves, CreatorPcs
<1>1. CASE Quiet
  BY <1>1 DEF Quiet
<1>2. ASSUME NEW t \in Threads, NEW i \in Incidents, Creates(t, i) PROVE ResolversFresh'
  BY <1>2, HoldersHold DEF Creates, HeldRowsExist, ResolverPcs
<1>3. ASSUME NEW t \in Threads, CreatorGoesOn(t) PROVE ResolversFresh'
  BY <1>3 DEF CreatorGoesOn
<1>4. ASSUME NEW t \in Threads, HandsOver(t) PROVE ResolversFresh'
  <2>1. queue \in Seq(Incidents) /\ copy[t] \in Incident /\ copy[t].incident_id \in Incidents
    BY <1>4, HoldersHold DEF HandsOver, TypeOK, Incident, CreatorPcs
  <2> QED BY <1>4, <2>1, HoldersHold, AppendQueue DEF HandsOver
<1>5. ASSUME NEW t \in Threads, NEW i \in Incidents, Resolves(t, i) PROVE ResolversFresh'
  BY <1>5 DEF Resolves, WaitingIsFresh
<1>6. ASSUME NEW t \in Threads, SavesResolved(t) PROVE ResolversFresh'
  BY <1>6 DEF SavesResolved
<1>7. ASSUME NEW t \in Threads, NEW i \in Incidents, RunBegins(t, i) PROVE ResolversFresh'
  <2>1. CASE pc[t] = "idle"
    <3>1. queue \in Seq(Incidents) /\ queue # <<>> /\ queue' = Tail(queue)
      BY <1>7, <2>1 DEF RunBegins, TypeOK
    <3> QED BY <1>7, <2>1, <3>1, TailQueue DEF RunBegins
  <2>2. CASE pc[t] = "load"
    BY <1>7, <2>2, HoldersHold DEF RunBegins, ResolverPcs
  <2> QED BY <1>7, <2>1, <2>2 DEF RunBegins
<1>8. ASSUME NEW t \in Threads, RunStep(t), RunGoesOn(t) PROVE ResolversFresh'
  BY <1>8 DEF RunGoesOn, RunnerPcs
<1> QED BY StepKinds, <1>1, <1>2, <1>3, <1>4, <1>5, <1>6, <1>7, <1>8

\* A thread's copy fits its place in the program, and is coherent.
LEMMA CopyStep ==
    ASSUME TypeOK, HeldRowsExist, CopyMatchesPc, SingleOwner, WaitingIsFresh, RowsCoherent, [OpenNext]_vars
    PROVE  CopyMatchesPc' /\ RowsCoherent'
<1> USE DEF RowsCoherent, OnlyMoves, CopyMatchesPc
<1>1. CASE Quiet
  BY <1>1 DEF Quiet, CopyFits, CreatorPcs, RunnerPcs
<1>2. ASSUME NEW t \in Threads, NEW i \in Incidents, Creates(t, i) PROVE CopyMatchesPc' /\ RowsCoherent'
  BY <1>2 DEF Creates, CopyFits, CreatorPcs, RunnerPcs
<1>3. ASSUME NEW t \in Threads, CreatorGoesOn(t) PROVE CopyMatchesPc' /\ RowsCoherent'
  BY <1>3, SaveRow, HoldersHold DEF CreatorGoesOn, CopyFits, CreatorPcs, RunnerPcs
<1>4. ASSUME NEW t \in Threads, HandsOver(t) PROVE CopyMatchesPc' /\ RowsCoherent'
  BY <1>4 DEF HandsOver, CopyFits, CreatorPcs, RunnerPcs
<1>5. ASSUME NEW t \in Threads, NEW i \in Incidents, Resolves(t, i) PROVE CopyMatchesPc' /\ RowsCoherent'
  BY <1>5 DEF Resolves, CopyFits, CreatorPcs, RunnerPcs
<1>6. ASSUME NEW t \in Threads, SavesResolved(t) PROVE CopyMatchesPc' /\ RowsCoherent'
  BY <1>6, SaveRow, HoldersHold DEF SavesResolved, CopyFits, CreatorPcs, RunnerPcs, ResolverPcs
<1>7. ASSUME NEW t \in Threads, NEW i \in Incidents, RunBegins(t, i) PROVE CopyMatchesPc' /\ RowsCoherent'
  BY <1>7 DEF RunBegins, CopyFits, CreatorPcs, WaitingIsFresh, TypeOK
<1>8. ASSUME NEW t \in Threads, RunStep(t), RunGoesOn(t) PROVE CopyMatchesPc' /\ RowsCoherent'
  BY <1>8, SaveRow, HoldersHold, RunCopyFits DEF RunGoesOn, RunnerPcs
<1> QED BY StepKinds, <1>1, <1>2, <1>3, <1>4, <1>5, <1>6, <1>7, <1>8

\* A verdict is posted once per run, and there is one run.
LEMMA VerdictStep ==
    ASSUME TypeOK, HeldRowsExist, CopyMatchesPc, SingleOwner, VerdictIsLast, OneVerdictPerIncident, [OpenNext]_vars
    PROVE  VerdictIsLast' /\ OneVerdictPerIncident'
<1> USE DEF VerdictIsLast, OneVerdictPerIncident, OnlyMoves, Owns, CreatorPcs, RunnerPcs
<1>1. CASE Quiet
  BY <1>1 DEF Quiet, NoVerdictPosted
<1>2. ASSUME NEW t \in Threads, NEW i \in Incidents, Creates(t, i) PROVE VerdictIsLast' /\ OneVerdictPerIncident'
  BY <1>2 DEF Creates
<1>3. ASSUME NEW t \in Threads, CreatorGoesOn(t) PROVE VerdictIsLast' /\ OneVerdictPerIncident'
  BY <1>3, SaveRow DEF CreatorGoesOn, NoVerdictPosted
<1>4. ASSUME NEW t \in Threads, HandsOver(t) PROVE VerdictIsLast' /\ OneVerdictPerIncident'
  <2>1. queue \in Seq(Incidents) /\ copy[t] \in Incident /\ copy[t].incident_id \in Incidents
    BY <1>4, HoldersHold DEF HandsOver, TypeOK, Incident, CreatorPcs
  <2> QED BY <1>4, <2>1, HoldersHold, AppendQueue DEF HandsOver
<1>5. ASSUME NEW t \in Threads, NEW i \in Incidents, Resolves(t, i) PROVE VerdictIsLast' /\ OneVerdictPerIncident'
  BY <1>5 DEF Resolves
<1>6. ASSUME NEW t \in Threads, SavesResolved(t) PROVE VerdictIsLast' /\ OneVerdictPerIncident'
  BY <1>6, SaveRow DEF SavesResolved
<1>7. ASSUME NEW t \in Threads, NEW i \in Incidents, RunBegins(t, i) PROVE VerdictIsLast' /\ OneVerdictPerIncident'
  <2>1. CASE pc[t] = "idle"
    <3>1. queue \in Seq(Incidents) /\ queue # <<>> /\ queue' = Tail(queue)
      BY <1>7, <2>1 DEF RunBegins, TypeOK
    <3> QED BY <1>7, <2>1, <3>1, TailQueue DEF RunBegins
  <2>2. CASE pc[t] = "load"
    BY <1>7, <2>2, HoldersHold DEF RunBegins, ResolverPcs
  <2> QED BY <1>7, <2>1, <2>2 DEF RunBegins
<1>8. ASSUME NEW t \in Threads, RunStep(t), RunGoesOn(t) PROVE VerdictIsLast' /\ OneVerdictPerIncident'
  BY <1>8, SaveRow, HoldersHold DEF RunGoesOn, Message, SingleOwner, HeldRowsExist
<1> QED BY StepKinds, <1>1, <1>2, <1>3, <1>4, <1>5, <1>6, <1>7, <1>8

\* A verdict that was or is about to be posted stays on file.
LEMMA OnFileStep ==
    ASSUME IndInv, [OpenNext]_vars
    PROVE  PostedIsOnFile' /\ ReportIsOnFile'
<1> USE DEF IndInv, PostedIsOnFile, ReportIsOnFile, OnFile, OnlyMoves, Owns, CreatorPcs, RunnerPcs
<1>1. CASE Quiet
  BY <1>1 DEF Quiet, NoVerdictPosted
<1>2. ASSUME NEW t \in Threads, NEW i \in Incidents, Creates(t, i) PROVE PostedIsOnFile' /\ ReportIsOnFile'
  BY <1>2 DEF Creates
<1>3. ASSUME NEW t \in Threads, CreatorGoesOn(t) PROVE PostedIsOnFile' /\ ReportIsOnFile'
  <2>1. \A j \in DOMAIN rows : j # copy[t].incident_id => j \in DOMAIN rows' /\ rows'[j] = rows[j]
    BY <1>3, SaveRow DEF CreatorGoesOn
  <2>2. PostedIsOnFile'
    BY <1>3, <2>1 DEF CreatorGoesOn, NoVerdictPosted, VerdictIsLast
  <2>3. ReportIsOnFile'
    BY <1>3, <2>1 DEF CreatorGoesOn, SingleOwner
  <2> QED BY <2>2, <2>3
<1>4. ASSUME NEW t \in Threads, HandsOver(t) PROVE PostedIsOnFile' /\ ReportIsOnFile'
  BY <1>4 DEF HandsOver
<1>5. ASSUME NEW t \in Threads, NEW i \in Incidents, Resolves(t, i) PROVE PostedIsOnFile' /\ ReportIsOnFile'
  BY <1>5 DEF Resolves
<1>6. ASSUME NEW t \in Threads, SavesResolved(t) PROVE PostedIsOnFile' /\ ReportIsOnFile'
  BY <1>6, SaveRow DEF SavesResolved
<1>7. ASSUME NEW t \in Threads, NEW i \in Incidents, RunBegins(t, i) PROVE PostedIsOnFile' /\ ReportIsOnFile'
  BY <1>7 DEF RunBegins
<1>8. ASSUME NEW t \in Threads, RunStep(t), RunGoesOn(t) PROVE PostedIsOnFile' /\ ReportIsOnFile'
  <2>1. \A j \in DOMAIN rows : /\ j \in DOMAIN rows'
                               /\ rows'[j] = rows[j] \/ (j = copy[t].incident_id /\ rows'[j] = copy[t])
    BY <1>8, SaveRow DEF RunGoesOn
  <2>2. copy[t] \in Incident /\ Coherent(copy[t]) /\ CopyFits(pc[t], copy[t])
    BY <1>8, HoldersHold DEF RunGoesOn, RowsCoherent, CopyMatchesPc
  <2>3. /\ pc[t] \in {"saveRca", "postRca", "remediate", "saveFinal"} => copy[t].confidence # None
        /\ pc[t] \in {"saveTimeout", "postTimeout", "saveTimeoutThread"} =>
              copy[t].investigation_state = "TIMED_OUT"
    BY <2>2 DEF CopyFits, Coherent
  <2>4. PostedIsOnFile'
    <3> SUFFICES ASSUME NEW m \in slack', m.kind \in {"rca", "timeout"} PROVE OnFile(m.kind, m.id)'
      OBVIOUS
    <3>1. CASE m \in slack
      BY <1>8, <2>1, <2>3, <3>1 DEF RunGoesOn, VerdictIsLast
    <3>2. CASE m \notin slack
      BY <1>8, <2>1, <2>3, <3>2 DEF RunGoesOn, Message
    <3> QED BY <3>1, <3>2
  <2>5. ReportIsOnFile'
    <3> SUFFICES ASSUME NEW s \in Threads
                 PROVE  /\ pc'[s] \in {"postRca", "remediate"} => OnFile("rca", copy[s].incident_id)'
                        /\ pc'[s] = "postTimeout" => OnFile("timeout", copy[s].incident_id)'
                        /\ pc'[s] = "saveResolved" => copy'[s].status = "RESOLVED"
      OBVIOUS
    <3>1. CASE s # t
      BY <1>8, <2>1, <3>1 DEF RunGoesOn, SingleOwner
    <3>2. CASE s = t
      BY <1>8, <2>1, <2>3, <3>2, RunReports, SaveRow, HoldersHold DEF RunGoesOn, HeldRowsExist
    <3> QED BY <3>1, <3>2
  <2> QED BY <2>4, <2>5
<1> QED BY StepKinds, <1>1, <1>2, <1>3, <1>4, <1>5, <1>6, <1>7, <1>8

\* A run that ends leaves its conclusion in the row, or the row is closed.
LEMMA RunShows ==
    ASSUME IndInv, NEW t \in Threads, RunInvestigation(t)
    PROVE  LET i == copy[t].incident_id
           IN  \/ pc'[t] \in RunnerPcs /\ copy'[t].incident_id = i
               \/ rows'[i].status = "RESOLVED"
               \/ Concluded(rows'[i])
<1> DEFINE i == copy[t].incident_id
<1> USE DEF Concluded
<1>1. RunGoesOn(t)
  BY RunIsRunGoesOn DEF IndInv
<1>2. i \in DOMAIN rows /\ CopyFits(pc[t], copy[t])
  BY <1>1, HoldersHold DEF IndInv, HeldRowsExist, CopyMatchesPc, RunGoesOn
<1>3. CASE rows' = Save(rows, copy[t]) /\ pc[t] \in {"saveFailed", "saveTimeout", "saveTimeoutThread", "saveFinal"}
  BY <1>2, <1>3, SaveRow DEF CopyFits
<1>4. CASE rows' = rows /\ pc[t] = "postTimeout"
  BY <1>4 DEF IndInv, ReportIsOnFile, OnFile
<1>5. CASE pc'[t] # "idle"
  BY <1>1, <1>5 DEF RunGoesOn
<1>6. pc'[t] = "idle" => \/ rows' = Save(rows, copy[t]) /\ pc[t] \in {"saveFailed", "saveTimeout", "saveTimeoutThread", "saveFinal"}
                         \/ rows' = rows /\ pc[t] = "postTimeout"
  BY DEF IndInv, TypeOK, Goto, Return, SaveCopy, RunInvestigation, SaveCollecting, PlaybookReturns, PlaybookOverruns, PlaybookFails,
     SaveFailed, SaveTimeout, PostTimeoutInThread, PostTimeoutStandalone, PostTimeoutUnavailable,
     SaveTimeoutThread, SaveValidating, GenerateRca, SaveRca, PostRcaInThread, PostRcaStandalone,
     PostRcaUnavailable, Remediate, SaveFinal
<1> QED BY <1>3, <1>4, <1>5, <1>6

\* What is under way stays with its run until the run has concluded it.
LEMMA RunsShowStep ==
    ASSUME IndInv, [OpenNext]_vars
    PROVE  RunsShow'
<1> SUFFICES ASSUME Escapes \subseteq {"announce"}, crashes' = 0,
                    NEW i \in DOMAIN rows',
                    rows'[i].status # "RESOLVED", rows'[i].investigation_state # "ALERT_RECEIVED",
                    ~Concluded(rows'[i])
             PROVE  \E t \in Threads : pc'[t] \in RunnerPcs /\ copy'[t].incident_id = i
  BY DEF RunsShow
<1> DEFINE Run == \E t \in Threads : pc'[t] \in RunnerPcs /\ copy'[t].incident_id = i
<1> USE DEF OnlyMoves, Concluded
<1>0. /\ TypeOK /\ HeldRowsExist /\ CopyMatchesPc /\ RunsShow
      /\ crashes = 0
      /\ \A t \in Threads : pc[t] \in RunnerPcs =>
            (pc'[t] = pc[t] /\ copy'[t] = copy[t]) \/ RunInvestigation(t)
  BY RunsAreKept DEF IndInv
<1>1. ASSUME i \in DOMAIN rows, rows'[i] = rows[i]
      PROVE  \E t \in Threads : pc[t] \in RunnerPcs /\ copy[t].incident_id = i
  BY <1>0, <1>1 DEF RunsShow
<1>2. CASE Quiet
  BY <1>0, <1>1, <1>2, RunShows DEF Quiet
<1>3. ASSUME NEW t \in Threads, NEW j \in Incidents, Creates(t, j) PROVE Run
  BY <1>1, <1>3 DEF Creates, RunnerPcs
<1>4. ASSUME NEW t \in Threads, CreatorGoesOn(t) PROVE Run
  BY <1>0, <1>1, <1>4, SaveRow DEF CreatorGoesOn, CopyMatchesPc, CopyFits, CreatorPcs, RunnerPcs
<1>5. ASSUME NEW t \in Threads, HandsOver(t) PROVE Run
  BY <1>1, <1>5 DEF HandsOver, RunnerPcs
<1>6. ASSUME NEW t \in Threads, NEW j \in Incidents, Resolves(t, j) PROVE Run
  BY <1>1, <1>6 DEF Resolves, RunnerPcs
<1>7. ASSUME NEW t \in Threads, SavesResolved(t) PROVE Run
  BY <1>1, <1>7, SaveRow DEF SavesResolved, IndInv, ReportIsOnFile, RunnerPcs
<1>8. ASSUME NEW t \in Threads, NEW j \in Incidents, RunBegins(t, j) PROVE Run
  BY <1>1, <1>8 DEF RunBegins, RunnerPcs
<1>9. ASSUME NEW t \in Threads, RunStep(t), RunGoesOn(t) PROVE Run
  <2>0. RunInvestigation(t)
    BY <1>9 DEF RunStep, Escape
  <2>1. CASE i = copy[t].incident_id
    BY <1>9, <2>0, <2>1, RunShows
  <2>2. CASE i # copy[t].incident_id
    BY <1>1, <1>9, <2>2, SaveRow DEF RunGoesOn
  <2> QED BY <2>1, <2>2
<1> QED BY <1>0, StepKinds, <1>2, <1>3, <1>4, <1>5, <1>6, <1>7, <1>8, <1>9

-----------------------------------------------------------------------------
(* The theorems.                                                           *)

\* The inductive invariant holds initially.
LEMMA IndInvInit == Init => IndInv
<1> SUFFICES ASSUME Init PROVE IndInv
  OBVIOUS
<1>1. TypeOK
  BY TypeInit
<1>2. HeldRowsExist /\ SingleOwner /\ WaitingIsFresh /\ ResolversFresh
  BY DEF Init, HeldRowsExist, SingleOwner, WaitingIsFresh, ResolversFresh, Owns,
         CreatorPcs, RunnerPcs
<1>3. CopyMatchesPc /\ RowsCoherent
  BY DEF Init, CopyMatchesPc, CopyFits, RowsCoherent, EmptyTable, CreatorPcs
<1>4. OneVerdictPerIncident /\ VerdictIsLast /\ PostedIsOnFile /\ ReportIsOnFile /\ RunsShow
  BY DEF Init, OneVerdictPerIncident, VerdictIsLast, PostedIsOnFile, ReportIsOnFile, RunsShow,
         EmptyTable
<1> QED BY <1>1, <1>2, <1>3, <1>4 DEF IndInv

\* Every step preserves the inductive invariant.
LEMMA IndInvStep == IndInv /\ [OpenNext]_vars => IndInv'
<1> SUFFICES ASSUME IndInv, [OpenNext]_vars PROVE IndInv'
  OBVIOUS
<1> USE DEF IndInv
<1>1. TypeOK'
  BY TypeStep
<1>2. HeldRowsExist'
  BY HeldRowsStep
<1>3. SingleOwner'
  BY SingleOwnerStep
<1>4. WaitingIsFresh' /\ ResolversFresh'
  BY WaitingIsFreshStep, ResolversFreshStep
<1>5. CopyMatchesPc' /\ RowsCoherent'
  BY CopyStep
<1>6. OneVerdictPerIncident' /\ VerdictIsLast'
  BY VerdictStep
<1>7. PostedIsOnFile' /\ ReportIsOnFile'
  BY OnFileStep
<1>8. RunsShow'
  BY RunsShowStep
<1> QED BY <1>1, <1>2, <1>3, <1>4, <1>5, <1>6, <1>7, <1>8

\* The invariant and all its parts hold in every reachable state, for any
\* number of threads, alerts, incidents, crashes and escaping exceptions, and
\* for deliveries of any status and date.
THEOREM OpenInductive == OpenSpec => []IndInv
  BY IndInvInit, IndInvStep, PTL DEF OpenSpec

\* Alertmanager's deliveries are some of these.
LEMMA SpecIsOpen == Spec => OpenSpec
<1>1. [Next]_vars => [OpenNext]_vars
  BY DEF OpenNext
<1> QED BY <1>1, PTL DEF Spec, OpenSpec

\* So it holds with those.
THEOREM Inductive == Spec => []IndInv
  BY SpecIsOpen, OpenInductive, PTL

\* The variables keep their types: the table stays keyed by its own ids and
\* every message belongs to an incident and a thread.
THEOREM TypeCorrect == Spec => []TypeOK
<1>1. IndInv => TypeOK
  BY DEF IndInv
<1> QED BY <1>1, Inductive, PTL

\* No incident is ever investigated by two threads or queued twice
\* (orchestrator.py:57-58).
THEOREM OwnershipIsUnique == Spec => []SingleOwner
<1>1. IndInv => SingleOwner
  BY DEF IndInv
<1> QED BY <1>1, Inductive, PTL

\* No investigation is repeated: what waits for a run has not had one
\* (orchestrator.py:121-129).
THEOREM RunsAreFresh == Spec => []WaitingIsFresh
<1>1. IndInv => WaitingIsFresh
  BY DEF IndInv
<1> QED BY <1>1, Inductive, PTL

\* However saves of whole copies interleave, the columns of a row fit
\* together (store.py:144-158).
THEOREM CoherentRows == Spec => []RowsCoherent
<1>1. IndInv => RowsCoherent
  BY DEF IndInv
<1> QED BY <1>1, Inductive, PTL

\* An incident is never reported both as timed out and with an RCA
\* (orchestrator.py:143-205).
THEOREM VerdictIsUnique == Spec => []OneVerdictPerIncident
<1>1. IndInv => OneVerdictPerIncident
  BY DEF IndInv
<1> QED BY <1>1, Inductive, PTL

\* A verdict that Slack was told is in the table, unless the incident has
\* been closed (orchestrator.py:90-91, 166-174, 255-257).
THEOREM PostedStaysOnFile == Spec => []PostedIsOnFile
<1>1. IndInv => PostedIsOnFile
  BY DEF IndInv
<1> QED BY <1>1, Inductive, PTL

\* While no exception leaves a run and the process stays up, a run is given up
\* only with its result, its timeout or its failure in the row, whoever else
\* saved that row meanwhile (orchestrator.py:112-114).
THEOREM RunsHaveConclusions == Spec => []RunsConclude
<1>1. IndInv => RunsConclude
  <2> SUFFICES ASSUME IndInv, Escapes \subseteq {"announce"}, crashes = 0,
                      NEW i \in DOMAIN rows, Unreferenced(i), rows[i].status # "RESOLVED",
                      rows[i].investigation_state # "ALERT_RECEIVED"
               PROVE  Concluded(rows[i])
    BY DEF RunsConclude
  <2> QED BY HoldersHold DEF IndInv, RunsShow, Unreferenced
<1> QED BY <1>1, Inductive, PTL

\* A resolved incident nobody refers to any more is never touched again
\* (store.py:101-111).
THEOREM SettledStay == Spec => SettledIncidentsStay
<1> DEFINE Stays == \A i \in DOMAIN rows :
          rows[i].status = "RESOLVED" /\ Unreferenced(i)
            => i \in DOMAIN rows' /\ rows'[i] = rows[i]
<1>1. IndInv /\ [OpenNext]_vars => [Stays]_vars
  <2> SUFFICES ASSUME IndInv, [OpenNext]_vars,
                      NEW i \in DOMAIN rows, Unreferenced(i)
               PROVE  i \in DOMAIN rows' /\ rows'[i] = rows[i]
    OBVIOUS
  <2> USE DEF IndInv, Unreferenced, CreatorPcs, ResolverPcs, RunnerPcs
  <2>1. CASE Quiet
    BY <2>1 DEF Quiet
  <2>2. ASSUME NEW t \in Threads, NEW j \in Incidents, Creates(t, j)
        PROVE  i \in DOMAIN rows' /\ rows'[i] = rows[i]
    BY <2>2 DEF Creates
  <2>3. ASSUME NEW t \in Threads, CreatorGoesOn(t)
        PROVE  i \in DOMAIN rows' /\ rows'[i] = rows[i]
    BY <2>3, SaveRow, HoldersHold DEF CreatorGoesOn
  <2>4. ASSUME NEW t \in Threads, HandsOver(t)
        PROVE  i \in DOMAIN rows' /\ rows'[i] = rows[i]
    BY <2>4 DEF HandsOver
  <2>5. ASSUME NEW t \in Threads, NEW j \in Incidents, Resolves(t, j)
        PROVE  i \in DOMAIN rows' /\ rows'[i] = rows[i]
    BY <2>5 DEF Resolves
  <2>6. ASSUME NEW t \in Threads, SavesResolved(t)
        PROVE  i \in DOMAIN rows' /\ rows'[i] = rows[i]
    BY <2>6, SaveRow, HoldersHold DEF SavesResolved
  <2>7. ASSUME NEW t \in Threads, NEW j \in Incidents, RunBegins(t, j)
        PROVE  i \in DOMAIN rows' /\ rows'[i] = rows[i]
    BY <2>7 DEF RunBegins
  <2>8. ASSUME NEW t \in Threads, RunStep(t), RunGoesOn(t)
        PROVE  i \in DOMAIN rows' /\ rows'[i] = rows[i]
    BY <2>8, SaveRow, HoldersHold DEF RunGoesOn
  <2> QED BY StepKinds, <2>1, <2>2, <2>3, <2>4, <2>5, <2>6, <2>7, <2>8
<1>2. [][Stays]_vars <=> SettledIncidentsStay
  BY PTL DEF SettledIncidentsStay
<1> QED BY <1>1, <1>2, SpecIsOpen, OpenInductive, PTL DEF OpenSpec

=============================================================================
