---------------------------- MODULE Episodes_proofs ----------------------------
(***************************************************************************)
(* Proofs about module Episodes: one incident per episode, one thread per  *)
(* incident, and the refinement of IncidentLifecycle, for any sets of      *)
(* workers, incidents and fingerprints and any number of crashes, alert    *)
(* transitions and escaping exceptions.                                    *)
(*                                                                         *)
(* The first part says of each kind of step what it does to the alert in   *)
(* the thread's hands and to the columns of its incident; the second shows *)
(* that each part of ThreadInv (for deliveries of any status and date) and *)
(* of EpisodeInv (for Alertmanager's) is preserved; the third maps every   *)
(* step to one of the lifecycle or to none.                                *)
(***************************************************************************)
EXTENDS Episodes, Orchestrator_proofs

-----------------------------------------------------------------------------
(* The kinds of step.                                                      *)

\* Only thread t moves, and no alert changes.
Alone(t) ==
    /\ alert' = alert
    /\ \A s \in Threads \ {t} : pc'[s] = pc[s] /\ copy'[s] = copy[s] /\ event'[s] = event[s]

\* Two records of one incident.
SameIncident(a, b) ==
    /\ a.incident_id = b.incident_id
    /\ a.alert_fingerprint = b.alert_fingerprint
    /\ a.start_time = b.start_time

\* Thread t is done, and has at most posted a resolution in a known thread, or
\* what it was saying when an exception left it.
LetsGo(t) ==
    /\ Alone(t)
    /\ pc'[t] = "idle" /\ copy'[t] = NoIncident /\ event'[t] = NoEvent
    /\ rows' = rows /\ queue' = queue
    /\ \/ slack' = slack
       \/ /\ pc[t] = "postResolution"
          /\ slack' = slack \cup {Message(t, "resolution", copy[t].slack_thread_ts)}
       \/ pc[t] = "announce" /\ slack' \in Unanswered(t, "started")
       \/ pc[t] = "postRca" /\ slack' \in Unanswered(t, "rca")

\* The request opens incident i.
Opens(h, i) ==
    /\ Alone(h)
    /\ pc[h] = "create" /\ pc'[h] = "announce" /\ event'[h] = event[h]
    /\ i \in Incidents \ DOMAIN rows
    /\ DOMAIN rows' = DOMAIN rows \cup {i}
    /\ \A j \in DOMAIN rows : rows'[j] = rows[j]
    /\ rows'[i] = NewIncident(i, event[h].fp, event[h].start)
    /\ copy'[h] = [rows'[i] EXCEPT !.status = "INVESTIGATION_STARTED"]
    /\ queue' = queue /\ slack' = slack

\* The request announces its incident, or learns of no thread.
Announces(h) ==
    /\ Alone(h)
    /\ pc[h] = "announce" /\ pc'[h] = "saveStarted" /\ event'[h] = event[h]
    /\ rows' = rows /\ queue' = queue
    /\ \/ copy'[h] = copy[h] /\ slack' \in Unanswered(h, "started")
       \/ /\ copy'[h] = [copy[h] EXCEPT !.slack_thread_ts = "parent"]
          /\ slack' = slack \cup {Message(h, "started", "parent")}

\* The request saves the started incident.
SavesStarted(h) ==
    /\ Alone(h)
    /\ pc[h] = "saveStarted" /\ event'[h] = event[h] /\ copy'[h] = copy[h]
    /\ pc'[h] = IF event[h].kind = "ask" THEN "load" ELSE "submit"
    /\ rows' = Save(rows, copy[h]) /\ queue' = queue /\ slack' = slack

\* The request hands its incident to the queue.
Submits(h) ==
    /\ Alone(h)
    /\ pc[h] = "submit" /\ pc'[h] = "idle" /\ copy'[h] = NoIncident /\ event'[h] = NoEvent
    /\ rows' = rows /\ queue' = Append(queue, copy[h].incident_id) /\ slack' = slack

\* The request finds incident i, whose alert is over.
Finds(h, i) ==
    /\ Alone(h)
    /\ pc[h] = "lookup" /\ event[h].kind = "resolved"
    /\ pc'[h] = "saveResolved" /\ event'[h] = event[h]
    /\ i \in DOMAIN rows /\ rows[i] \in GetActive(rows, event[h].fp)
    /\ copy'[h] = [rows[i] EXCEPT !.status = "RESOLVED"]
    /\ rows' = rows /\ queue' = queue /\ slack' = slack

\* The request saves the resolved incident.
Closes(h) ==
    /\ Alone(h)
    /\ pc[h] = "saveResolved"
    /\ \/ pc'[h] = "idle" /\ copy'[h] = NoIncident /\ event'[h] = NoEvent
       \/ pc'[h] = "postResolution" /\ copy'[h] = copy[h] /\ event'[h] = event[h]
    /\ rows' = Save(rows, copy[h]) /\ queue' = queue /\ slack' = slack

\* A run begins on incident i, which was queued or in the thread's own hands.
Begins(t, i) ==
    /\ Alone(t)
    /\ \/ /\ t \in Workers /\ pc[t] = "idle"
          /\ queue # <<>> /\ i = queue[1] /\ queue' = Tail(queue)
       \/ /\ t \in Handlers /\ pc[t] = "load"
          /\ i = copy[t].incident_id /\ queue' = queue
    /\ i \in DOMAIN rows
    /\ pc'[t] = "saveCollecting" /\ event'[t] = event[t]
    /\ copy'[t] = [rows[i] EXCEPT !.investigation_state = "DATA_COLLECTION"]
    /\ rows' = rows /\ slack' = slack

\* The points of a run at which it saves, ends, and goes from and to.
RunSaves == {"saveCollecting", "saveFailed", "saveTimeout", "saveTimeoutThread",
             "saveValidating", "saveRca", "saveFinal"}
RunEnds == {"saveFailed", "saveTimeout", "postTimeout", "saveTimeoutThread", "saveFinal"}
RunGoes(from, to) ==
    \/ from = "saveCollecting" /\ to = "playbook"
    \/ from = "playbook" /\ to \in {"saveValidating", "saveTimeout", "saveFailed"}
    \/ from = "saveTimeout" /\ to = "postTimeout"
    \/ from = "postTimeout" /\ to = "saveTimeoutThread"
    \/ from = "saveValidating" /\ to = "generate"
    \/ from = "generate" /\ to = "saveRca"
    \/ from = "saveRca" /\ to = "postRca"
    \/ from = "postRca" /\ to = "remediate"
    \/ from = "remediate" /\ to = "saveFinal"

\* A run takes its next step on the incident it has.
RunMoves(t) ==
    /\ Alone(t)
    /\ pc[t] \in RunnerPcs /\ copy[t] \in Incident
    /\ rows' = IF pc[t] \in RunSaves THEN Save(rows, copy[t]) ELSE rows
    /\ queue' = queue
    /\ \/ /\ pc[t] \in RunEnds
          /\ pc'[t] = "idle" /\ copy'[t] = NoIncident /\ event'[t] = NoEvent
       \/ /\ RunGoes(pc[t], pc'[t])
          /\ event'[t] = event[t]
          /\ copy'[t] \in Incident /\ SameIncident(copy'[t], copy[t])
          /\ copy'[t].status = "RESOLVED" => copy[t].status = "RESOLVED"
          /\ pc[t] # "generate" => copy'[t].root_cause = copy[t].root_cause

\* What a run posts goes to the thread it knows, or to one of its own, of which
\* it may not learn.
RunPosts(t) ==
    \/ /\ slack' = slack
       /\ copy'[t] # NoIncident => copy'[t].slack_thread_ts = copy[t].slack_thread_ts
    \/ /\ pc[t] \in {"postRca", "postTimeout"}
       /\ copy[t].slack_thread_ts # None
       /\ \E kind \in {"rca", "timeout"} :
             slack' = slack \cup {Message(t, kind, copy[t].slack_thread_ts)}
       /\ copy'[t] # NoIncident => copy'[t].slack_thread_ts = copy[t].slack_thread_ts
    \/ /\ pc[t] \in {"postRca", "postTimeout"}
       /\ copy[t].slack_thread_ts = None
       /\ \E kind \in {"rca", "timeout"} :
             slack' = slack \cup {Message(t, kind, "standalone")}
       /\ copy'[t] # NoIncident => copy'[t].slack_thread_ts = "standalone"
    \/ /\ pc[t] \in {"postRca", "postTimeout"}
       /\ copy[t].slack_thread_ts = None
       /\ \E kind \in {"rca", "timeout"} :
             slack' = slack \cup {Message(t, kind, "lost")}
       /\ copy'[t] # NoIncident => copy'[t].slack_thread_ts = None

LEMMA RunIsRunMoves ==
    ASSUME TypeOK, NEW t \in Threads, RunInvestigation(t)
    PROVE  RunMoves(t) /\ RunPosts(t)
<1> USE DEF TypeOK, Goto, SetCopy, Return, SaveCopy
<1> DEFINE Path == /\ rows' = IF pc[t] \in RunSaves THEN Save(rows, copy[t]) ELSE rows
                   /\ queue' = queue
                   /\ pc[t] \in RunnerPcs
                   /\ \/ /\ pc[t] \in RunEnds
                         /\ pc'[t] = "idle" /\ copy'[t] = NoIncident /\ event'[t] = NoEvent
                      \/ RunGoes(pc[t], pc'[t]) /\ event'[t] = event[t]
<1>1. Path
  BY DEF RunSaves, RunEnds, RunGoes, RunnerPcs, RunInvestigation, SaveCollecting, PlaybookReturns, PlaybookOverruns, PlaybookFails, SaveFailed, SaveTimeout, PostTimeoutInThread, PostTimeoutStandalone, PostTimeoutUnavailable, SaveTimeoutThread, SaveValidating, GenerateRca, SaveRca, PostRcaInThread, PostRcaStandalone, PostRcaUnavailable, Remediate, SaveFinal
<1>2. copy[t] \in Incident
  BY <1>1
<1>3. (copy'[t] = NoIncident /\ pc'[t] = "idle") \/
        /\ copy'[t] \in Incident /\ SameIncident(copy'[t], copy[t])
        /\ copy'[t].status = "RESOLVED" => copy[t].status = "RESOLVED"
        /\ pc[t] # "generate" => copy'[t].root_cause = copy[t].root_cause
  <2>1. CASE copy'[t] = copy[t] \/ (copy'[t] = NoIncident /\ pc'[t] = "idle")
    BY <1>2, <2>1 DEF SameIncident
  <2>2. CASE PlaybookReturns(t) \/ PlaybookOverruns(t) \/ PlaybookFails(t) \/ Remediate(t)
    <3>1. CASE PlaybookReturns(t)
      BY <1>2, <3>1 DEF SameIncident, Incident, Statuses, InvestigationStates, None, PlaybookReturns
    <3>2. CASE PlaybookOverruns(t)
      BY <1>2, <3>2 DEF SameIncident, Incident, Statuses, InvestigationStates, None, PlaybookOverruns
    <3>3. CASE PlaybookFails(t)
      BY <1>2, <3>3 DEF SameIncident, Incident, Statuses, InvestigationStates, None, PlaybookFails
    <3>4. CASE Remediate(t)
      BY <1>2, <3>4 DEF SameIncident, Incident, Statuses, InvestigationStates, None, Remediate
    <3> QED BY <2>2, <3>1, <3>2, <3>3, <3>4
  <2>3. CASE PostTimeoutStandalone(t) \/ PostRcaStandalone(t)
    BY <1>2, <2>3 DEF SameIncident, Incident, PostTimeoutStandalone, PostRcaStandalone
  <2>4. CASE GenerateRca(t)
    <3>1. PICK cause \in BOOLEAN, level \in {"Unknown", "Rated"} :
            SetCopy(t, [copy[t] EXCEPT
                !.status = IF cause THEN "ROOT_CAUSE_IDENTIFIED" ELSE "INSUFFICIENT_EVIDENCE",
                !.investigation_state = "RCA_GENERATED",
                !.root_cause = cause,
                !.confidence = level])
      BY <2>4 DEF GenerateRca
    <3>2. pc[t] = "generate"
      BY <2>4 DEF GenerateRca
    <3> QED BY <1>2, <3>1, <3>2 DEF SameIncident, Incident, Statuses, InvestigationStates, None
  <2>5. copy'[t] = copy[t] \/ (copy'[t] = NoIncident /\ pc'[t] = "idle")
        \/ PlaybookReturns(t) \/ PlaybookOverruns(t) \/ PlaybookFails(t) \/ Remediate(t)
        \/ PostTimeoutStandalone(t) \/ PostRcaStandalone(t) \/ GenerateRca(t)
    BY DEF RunInvestigation, SaveCollecting, SaveFailed, SaveTimeout, PostTimeoutInThread, PostTimeoutUnavailable, SaveTimeoutThread, SaveValidating, SaveRca, PostRcaInThread, PostRcaUnavailable, SaveFinal
  <2> QED BY <2>1, <2>2, <2>3, <2>4, <2>5
<1>4. RunPosts(t)
  <2>1. CASE PostTimeoutInThread(t) \/ PostRcaInThread(t)
    BY <1>2, <2>1 DEF RunPosts, PostTimeoutInThread, PostRcaInThread
  <2>2. CASE PostTimeoutStandalone(t) \/ PostRcaStandalone(t)
    BY <1>2, <2>2 DEF RunPosts, Incident, None, PostTimeoutStandalone, PostRcaStandalone
  <2>3. CASE PlaybookReturns(t) \/ PlaybookOverruns(t) \/ PlaybookFails(t) \/ Remediate(t)
    <3>1. CASE PlaybookReturns(t)
      BY <1>2, <3>1 DEF RunPosts, Incident, PlaybookReturns
    <3>2. CASE PlaybookOverruns(t)
      BY <1>2, <3>2 DEF RunPosts, Incident, PlaybookOverruns
    <3>3. CASE PlaybookFails(t)
      BY <1>2, <3>3 DEF RunPosts, Incident, PlaybookFails
    <3>4. CASE Remediate(t)
      BY <1>2, <3>4 DEF RunPosts, Incident, Remediate
    <3> QED BY <2>3, <3>1, <3>2, <3>3, <3>4
  <2>4. CASE GenerateRca(t)
    <3>1. PICK cause \in BOOLEAN, level \in {"Unknown", "Rated"} :
            SetCopy(t, [copy[t] EXCEPT
                !.status = IF cause THEN "ROOT_CAUSE_IDENTIFIED" ELSE "INSUFFICIENT_EVIDENCE",
                !.investigation_state = "RCA_GENERATED",
                !.root_cause = cause,
                !.confidence = level])
      BY <2>4 DEF GenerateRca
    <3>2. slack' = slack
      BY <2>4 DEF GenerateRca
    <3> QED BY <1>2, <3>1, <3>2 DEF RunPosts, Incident
  <2>5. CASE slack' = slack /\ copy'[t] \in {copy[t], NoIncident}
    BY <2>5 DEF RunPosts
  <2>7. CASE PostTimeoutUnavailable(t) \/ PostRcaUnavailable(t)
    <3>1. /\ pc[t] \in {"postRca", "postTimeout"} /\ copy'[t] \in {copy[t], NoIncident}
          /\ \E kind \in {"rca", "timeout"} : slack' \in Unanswered(t, kind)
      BY <2>7 DEF PostTimeoutUnavailable, PostRcaUnavailable
    <3> QED BY <1>2, <3>1 DEF RunPosts, Unanswered
  <2>6. \/ slack' = slack /\ copy'[t] \in {copy[t], NoIncident}
        \/ PostTimeoutUnavailable(t) \/ PostRcaUnavailable(t)
        \/ PlaybookReturns(t) \/ PlaybookOverruns(t) \/ PlaybookFails(t) \/ Remediate(t)
        \/ PostTimeoutInThread(t) \/ PostRcaInThread(t)
        \/ PostTimeoutStandalone(t) \/ PostRcaStandalone(t) \/ GenerateRca(t)
    BY DEF RunInvestigation, SaveCollecting, SaveFailed, SaveTimeout, SaveTimeoutThread, SaveValidating, SaveRca, SaveFinal
  <2> QED BY <2>1, <2>2, <2>3, <2>4, <2>5, <2>6, <2>7
<1>5. Alone(t)
  BY OthersStay DEF Alone
<1> HIDE DEF RunPosts, Alone
<1>6. RunMoves(t)
  BY <1>1, <1>2, <1>3, <1>5 DEF RunMoves, RunGoes
<1> QED BY <1>4, <1>6

\* The kinds of a request's step.
RequestStep(h) ==
    \/ FiringIsNew(h) \/ LetsGo(h) \/ Announces(h) \/ SavesStarted(h)
    \/ Submits(h) \/ Closes(h)
    \/ \E i \in Incidents : Opens(h, i) \/ Finds(h, i) \/ Begins(h, i)

LEMMA RequestSteps ==
    ASSUME TypeOK, HeldRowsExist, CopyMatchesPc, NEW h \in Handlers, HandleAlert(h)
    PROVE  RequestStep(h)
<1> USE DEF RequestStep
<1>0. h \in Threads /\ Alone(h)
  BY OthersStay DEF Alone, Threads
<1>1. CASE FiringIsDuplicate(h) \/ ResolvedIsUnknown(h)
  BY <1>0, <1>1 DEF FiringIsDuplicate, ResolvedIsUnknown, LetsGo, Return, Goto, SetCopy, TypeOK
<1>2. CASE PostResolution(h)
  BY <1>0, <1>2 DEF PostResolution, LetsGo, Return, Goto, SetCopy, TypeOK
<1>3. CASE CreateIncident(h)
  <2>1. PICK i \in Incidents \ DOMAIN rows :
          LET inc == NewIncident(i, event[h].fp, event[h].start)
          IN  /\ rows' = Create(rows, inc)
              /\ SetCopy(h, [inc EXCEPT !.status = "INVESTIGATION_STARTED"])
    BY <1>3 DEF CreateIncident
  <2> DEFINE inc == NewIncident(i, event[h].fp, event[h].start)
  <2>2. inc.incident_id = i
    BY DEF NewIncident
  <2>3. rows' = Create(rows, inc) /\ copy' = [copy EXCEPT ![h] = [inc EXCEPT !.status = "INVESTIGATION_STARTED"]]
    BY <2>1 DEF SetCopy
  <2> HIDE DEF inc
  <2>4. /\ DOMAIN rows' = DOMAIN rows \cup {i} /\ rows'[i] = inc
        /\ \A j \in DOMAIN rows : rows'[j] = rows[j]
    BY <2>2, <2>3 DEF Create, Put
  <2>5. copy'[h] = [rows'[i] EXCEPT !.status = "INVESTIGATION_STARTED"]
    BY <1>0, <2>3, <2>4 DEF TypeOK
  <2>6. rows'[i] = NewIncident(i, event[h].fp, event[h].start)
    BY <2>4 DEF inc
  <2>7. pc[h] = "create" /\ pc'[h] = "announce" /\ event' = event /\ queue' = queue /\ slack' = slack
    BY <1>0, <1>3 DEF CreateIncident, Goto, TypeOK
  <2>8. Opens(h, i)
    BY <1>0, <2>4, <2>5, <2>6, <2>7 DEF Opens
  <2> QED BY <2>8
<1>4. CASE Announce(h) \/ AnnounceUnavailable(h)
  BY <1>0, <1>4 DEF Announce, AnnounceUnavailable, Announces, Goto, SetCopy, TypeOK
<1>5. CASE SaveStarted(h)
  BY <1>0, <1>5 DEF SaveStarted, SavesStarted, SaveCopy, Goto, TypeOK
<1>6. CASE Submit(h)
  BY <1>0, <1>6 DEF Submit, Submits, Return, Goto, SetCopy, TypeOK
<1>7. CASE ResolveIncident(h)
  <2>1. PICK inc \in GetActive(rows, event[h].fp) : SetCopy(h, [inc EXCEPT !.status = "RESOLVED"])
    BY <1>7 DEF ResolveIncident
  <2>2. inc \in Incident /\ inc.incident_id \in DOMAIN rows /\ inc = rows[inc.incident_id]
    BY GetActiveIsRow DEF TypeOK
  <2>3. copy'[h] = [rows[inc.incident_id] EXCEPT !.status = "RESOLVED"]
    BY <1>0, <2>1, <2>2 DEF SetCopy, TypeOK
  <2>4. rows[inc.incident_id] \in GetActive(rows, event[h].fp)
    BY <2>1, <2>2
  <2>5. Finds(h, inc.incident_id)
    BY <1>0, <1>7, <2>2, <2>3, <2>4 DEF ResolveIncident, Finds, Goto, TypeOK
  <2> QED BY <2>2, <2>5 DEF Incident
<1>8. CASE SaveResolved(h)
  BY <1>0, <1>8 DEF SaveResolved, Closes, SaveCopy, Return, Goto, SetCopy, TypeOK
<1>9. CASE RunInline(h)
  <2>1. copy[h] \in Incident /\ copy[h].incident_id \in DOMAIN rows
    BY <1>0, <1>9, HoldersHold DEF RunInline, HeldRowsExist, CreatorPcs
  <2>2. Begins(h, copy[h].incident_id)
    BY <1>0, <1>9, <2>1 DEF RunInline, BeginRun, Begins, Goto, SetCopy, TypeOK
  <2> QED BY <2>1, <2>2 DEF Incident
<1> QED BY <1>1, <1>2, <1>3, <1>4, <1>5, <1>6, <1>7, <1>8, <1>9 DEF HandleAlert

\* The kinds of step of the whole system, but for the arrival of an alert.
OtherStep ==
    \/ \E f \in AlertFingerprints : AlertChanges(f)
    \/ \E h \in Handlers, f \in AskFingerprints : Ask(h, f)
    \/ \E h \in Handlers : RequestStep(h)
    \/ \E w \in Workers, i \in Incidents : Begins(w, i)
    \/ \E t \in Threads : LetsGo(t) \/ (RunInvestigation(t) /\ RunMoves(t) /\ RunPosts(t))
    \/ Crash
    \/ UNCHANGED vars

EpisodeStep == OtherStep \/ \E h \in Handlers, f \in AlertFingerprints : Delivery(h, f)

LEMMA OtherSteps ==
    ASSUME TypeOK, HeldRowsExist, CopyMatchesPc, [Next]_vars
    PROVE  OtherStep \/ \E h \in Handlers, f \in AlertFingerprints : Webhook(h, f)
<1>1. ASSUME NEW t \in Threads, Escape(t) PROVE LetsGo(t)
  <2>1. Alone(t)
    BY <1>1, OthersStay DEF Alone
  <2>2. \/ slack' = slack
        \/ pc[t] = "announce" /\ slack' \in Unanswered(t, "started")
        \/ pc[t] = "postRca" /\ slack' \in Unanswered(t, "rca")
    BY <1>1, EscapePosts
  <2>3. pc'[t] = "idle" /\ copy'[t] = NoIncident /\ event'[t] = NoEvent /\ rows' = rows /\ queue' = queue
    BY <1>1 DEF Escape, Return, Goto, SetCopy, TypeOK
  <2> QED BY <2>1, <2>2, <2>3 DEF LetsGo
<1>2. ASSUME NEW w \in Workers, TakeJob(w) PROVE \E i \in Incidents : Begins(w, i)
  <2>1. Alone(w) /\ w \in Threads
    BY <1>2, OthersStay DEF Alone, Threads
  <2>2. queue[1] \in DOMAIN rows /\ queue[1] \in Incidents /\ Head(queue) = queue[1]
    BY <1>2 DEF TakeJob, HeldRowsExist, TypeOK
  <2>3. Begins(w, queue[1])
    BY <1>2, <2>1, <2>2 DEF TakeJob, BeginRun, Begins, Goto, SetCopy, TypeOK
  <2> QED BY <2>2, <2>3
<1>3. ASSUME NEW t \in Threads, RunInvestigation(t) PROVE RunMoves(t) /\ RunPosts(t)
  BY <1>3, RunIsRunMoves
<1> QED BY <1>1, <1>2, <1>3, RequestSteps DEF Next, HandlerStep, WorkerStep, OtherStep, Threads

LEMMA EpisodeSteps ==
    ASSUME TypeOK, HeldRowsExist, CopyMatchesPc, [OpenNext]_vars
    PROVE  EpisodeStep
  BY OtherSteps, WebhookIsDelivery DEF OpenNext, EpisodeStep

\* An alert that arrives is in the hands of its request, and nothing else is new.
LEMMA DeliveryEvent ==
    ASSUME TypeOK, NEW h \in Handlers, NEW f \in AlertFingerprints, Delivery(h, f)
    PROVE  /\ event'[h] \in Event /\ event'[h] # NoEvent
           /\ event'[h].fp = f /\ event'[h].kind \in {"firing", "resolved"}
           /\ pc[h] = "idle" /\ pc'[h] = "lookup"
           /\ \A s \in Threads \ {h} : pc'[s] = pc[s] /\ event'[s] = event[s]
           /\ UNCHANGED <<alert, rows, queue, copy, slack, crashes>>
<1>1. PICK kind \in {"firing", "resolved"}, start \in Nat : Receive(h, kind, f, start)
  BY DEF Delivery
<1> DEFINE e == [kind |-> kind, fp |-> f, start |-> start]
<1>2. e \in Event /\ e.fp = f /\ e.kind \in {"firing", "resolved"}
  BY DEF Event, AlertFingerprints
<1>3. event' = [event EXCEPT ![h] = e]
  BY <1>1 DEF Receive
<1> HIDE DEF e
<1>4. event'[h] = e /\ \A s \in Threads \ {h} : event'[s] = event[s]
  BY <1>3 DEF TypeOK, Threads
<1>5. e # NoEvent
  BY <1>2, PlaceholderAssumption
<1>6. /\ pc[h] = "idle" /\ pc'[h] = "lookup"
      /\ \A s \in Threads \ {h} : pc'[s] = pc[s]
      /\ UNCHANGED <<alert, rows, queue, copy, slack, crashes>>
  BY <1>1 DEF Receive, Goto, TypeOK, Threads
<1> QED BY <1>2, <1>4, <1>5, <1>6

\* The news of an alert is dated by the episode it is about.
LEMMA WebhookEvent ==
    ASSUME TypeOK, NEW h \in Handlers, NEW f \in AlertFingerprints, Webhook(h, f)
    PROVE  /\ event'[h] \in Event /\ event'[h] # NoEvent
           /\ event'[h].fp = f /\ event'[h].kind \in {"firing", "resolved"}
           /\ event'[h].kind = "firing" => 2 * event'[h].start = alert[f] + 1
           /\ event'[h].kind = "resolved" => 2 * event'[h].start = alert[f] /\ alert[f] >= 2
           /\ 1 <= event'[h].start
           /\ pc[h] = "idle" /\ pc'[h] = "lookup"
           /\ \A s \in Threads \ {h} : pc'[s] = pc[s] /\ event'[s] = event[s]
           /\ UNCHANGED <<alert, rows, queue, copy, slack, crashes>>
<1> DEFINE e == [kind |-> IF Firing(f) THEN "firing" ELSE "resolved",
                 fp |-> f,
                 start |-> (alert[f] + 1) \div 2]
<1>1. alert[f] \in Nat /\ alert[f] > 0
  BY DEF TypeOK, Webhook
<1>2. /\ (alert[f] + 1) \div 2 \in Nat /\ 1 <= (alert[f] + 1) \div 2
      /\ Firing(f) => 2 * ((alert[f] + 1) \div 2) = alert[f] + 1
      /\ ~Firing(f) => 2 * ((alert[f] + 1) \div 2) = alert[f] /\ alert[f] >= 2
  BY <1>1 DEF Firing
<1>3. e \in Event
  BY <1>2 DEF Event, AlertFingerprints
<1>4. e.fp = f /\ e.kind = (IF Firing(f) THEN "firing" ELSE "resolved")
      /\ e.start = (alert[f] + 1) \div 2
  OBVIOUS
<1>5. event' = [event EXCEPT ![h] = e]
  BY DEF Webhook, Receive
<1> HIDE DEF e
<1>6. event'[h] = e /\ \A s \in Threads \ {h} : event'[s] = event[s]
  BY <1>5 DEF TypeOK, Threads
<1>7. e # NoEvent
  BY <1>3, PlaceholderAssumption
<1>8. /\ pc[h] = "idle" /\ pc'[h] = "lookup"
      /\ \A s \in Threads \ {h} : pc'[s] = pc[s]
      /\ UNCHANGED <<alert, rows, queue, copy, slack, crashes>>
  BY DEF Webhook, Receive, Goto, TypeOK, Threads
<1>9. e.kind \in {"firing", "resolved"}
      /\ (e.kind = "firing" <=> Firing(f))
  BY <1>4
<1> QED BY <1>2, <1>3, <1>4, <1>6, <1>7, <1>8, <1>9

\* A question has an alert of its own.
LEMMA AskEvent ==
    ASSUME TypeOK, NEW h \in Handlers, NEW f \in AskFingerprints, Ask(h, f)
    PROVE  /\ event'[h] \in Event /\ event'[h] # NoEvent
           /\ event'[h].fp = f /\ event'[h].kind = "ask" /\ event'[h].start = 0
           /\ pc[h] = "idle" /\ pc'[h] = "create"
           /\ \A s \in Threads \ {h} : pc'[s] = pc[s] /\ event'[s] = event[s]
           /\ UNCHANGED <<alert, rows, queue, copy, slack, crashes>>
           /\ \A i \in DOMAIN rows : rows[i].alert_fingerprint # f
<1> DEFINE e == [kind |-> "ask", fp |-> f, start |-> 0]
<1>1. e \in Event /\ e.fp = f /\ e.kind = "ask" /\ e.start = 0
  BY OrchestratorAssumption DEF Event
<1>2. event' = [event EXCEPT ![h] = e]
  BY DEF Ask
<1> HIDE DEF e
<1>3. event'[h] = e /\ \A s \in Threads \ {h} : event'[s] = event[s]
  BY <1>2 DEF TypeOK, Threads
<1>4. e # NoEvent
  BY <1>1, PlaceholderAssumption
<1>5. /\ pc[h] = "idle" /\ pc'[h] = "create"
      /\ \A s \in Threads \ {h} : pc'[s] = pc[s]
      /\ UNCHANGED <<alert, rows, queue, copy, slack, crashes>>
      /\ \A i \in DOMAIN rows : rows[i].alert_fingerprint # f
  BY DEF Ask, Goto, TypeOK, Threads
<1> QED BY <1>1, <1>3, <1>4, <1>5

-----------------------------------------------------------------------------
(* Preservation of each part of ThreadInv and EpisodeInv.                  *)

\* The part of WorkFits about one request thread.
RequestFits(h, e, label) ==
    /\ label = "idle" <=> e = NoEvent
    /\ label = "lookup" => e.kind \in {"firing", "resolved"}
    /\ label \in {"create", "announce", "saveStarted"} => e.kind \in {"firing", "ask"}
    /\ label = "submit" => e.kind = "firing"
    /\ label \in {"load"} \cup RunnerPcs => e.kind = "ask"
    /\ label \in ResolverPcs => e.kind = "resolved"
    /\ e # NoEvent => (e.kind = "ask" <=> e.fp \in AskFingerprints)

\* Threads stay where their kind of work takes them.
LEMMA WorkFitsStep ==
    ASSUME TypeOK, HeldRowsExist, CopyMatchesPc, WorkFits, [OpenNext]_vars
    PROVE  WorkFits'
<1>1. /\ \A w \in Workers : event[w] = NoEvent /\ pc[w] \in {"idle"} \cup RunnerPcs
      /\ \A h \in Handlers : RequestFits(h, event[h], pc[h])
  BY DEF WorkFits, RequestFits
<1>2. /\ \A h \in Handlers, w \in Workers : h # w
      /\ Handlers \subseteq Threads /\ Workers \subseteq Threads
  BY OrchestratorAssumption DEF Threads
<1> DEFINE Fits == /\ \A w \in Workers : event'[w] = NoEvent /\ pc'[w] \in {"idle"} \cup RunnerPcs
                   /\ \A h \in Handlers : RequestFits(h, event'[h], pc'[h])
<1>3. SUFFICES Fits
  BY DEF WorkFits, RequestFits
<1>4. ASSUME event' = event, pc' = pc PROVE Fits
  BY <1>1, <1>4
<1>5. ASSUME NEW h \in Handlers, RequestFits(h, event'[h], pc'[h]),
             \A s \in Threads \ {h} : pc'[s] = pc[s] /\ event'[s] = event[s]
      PROVE  Fits
  BY <1>1, <1>2, <1>5
<1>6. ASSUME NEW w \in Workers, event'[w] = NoEvent, pc'[w] \in {"idle"} \cup RunnerPcs,
             \A s \in Threads \ {w} : pc'[s] = pc[s] /\ event'[s] = event[s]
      PROVE  Fits
  BY <1>1, <1>2, <1>6
<1>7. ASSUME NEW h \in Handlers, NEW f \in AlertFingerprints, Delivery(h, f) PROVE Fits
  <2>1. RequestFits(h, event'[h], pc'[h])
    BY <1>7, DeliveryEvent DEF RequestFits, RunnerPcs, ResolverPcs, AlertFingerprints
  <2> QED BY <1>5, <1>7, <2>1, DeliveryEvent
<1>8. ASSUME NEW h \in Handlers, NEW f \in AskFingerprints, Ask(h, f) PROVE Fits
  <2>1. RequestFits(h, event'[h], pc'[h])
    BY <1>8, AskEvent DEF RequestFits, RunnerPcs, ResolverPcs
  <2> QED BY <1>5, <1>8, <2>1, AskEvent
<1>9. ASSUME NEW h \in Handlers, RequestStep(h) PROVE Fits
  <2>1. RequestFits(h, event[h], pc[h])
    BY <1>1
  <2>2. CASE FiringIsNew(h)
    <3>1. pc[h] = "lookup" /\ event[h].kind = "firing" /\ pc' = [pc EXCEPT ![h] = "create"] /\ event' = event
      BY <2>2 DEF FiringIsNew, Goto
    <3>2. RequestFits(h, event'[h], pc'[h])
      BY <1>2, <2>1, <3>1 DEF RequestFits, TypeOK, RunnerPcs, ResolverPcs, Threads
    <3> QED BY <1>5, <3>1, <3>2 DEF TypeOK
  <2>3. CASE LetsGo(h) \/ Announces(h) \/ SavesStarted(h) \/ Submits(h) \/ Closes(h)
    <3>1. RequestFits(h, event'[h], pc'[h])
      BY <2>1, <2>3 DEF LetsGo, Announces, SavesStarted, Submits, Closes, RequestFits, RunnerPcs, ResolverPcs
    <3>2. Alone(h)
      BY <2>3 DEF LetsGo, Announces, SavesStarted, Submits, Closes
    <3> QED BY <1>5, <3>1, <3>2 DEF Alone
  <2>4. ASSUME NEW i \in Incidents, Opens(h, i) \/ Finds(h, i) \/ Begins(h, i) PROVE Fits
    <3>1. RequestFits(h, event'[h], pc'[h])
      BY <1>2, <2>1, <2>4 DEF Opens, Finds, Begins, RequestFits, RunnerPcs, ResolverPcs
    <3>2. Alone(h)
      BY <2>4 DEF Opens, Finds, Begins
    <3> QED BY <1>5, <3>1, <3>2 DEF Alone
  <2> QED BY <1>9, <2>2, <2>3, <2>4 DEF RequestStep
<1>10. ASSUME NEW w \in Workers, NEW i \in Incidents, Begins(w, i) PROVE Fits
  BY <1>1, <1>6, <1>10 DEF Begins, Alone, RunnerPcs
<1>11. ASSUME NEW t \in Threads, LetsGo(t) \/ RunMoves(t) PROVE Fits
  <2>1. /\ \A s \in Threads \ {t} : pc'[s] = pc[s] /\ event'[s] = event[s]
        /\ \/ pc'[t] = "idle" /\ event'[t] = NoEvent
           \/ event'[t] = event[t] /\ pc[t] \in RunnerPcs /\ pc'[t] \in RunnerPcs
    BY <1>11 DEF LetsGo, RunMoves, Alone, RunGoes, RunnerPcs
  <2>2. t \in Workers => event'[t] = NoEvent /\ pc'[t] \in {"idle"} \cup RunnerPcs
    BY <1>1, <2>1
  <2>3. t \in Handlers => RequestFits(t, event'[t], pc'[t])
    BY <1>1, <2>1 DEF RequestFits, RunnerPcs, ResolverPcs
  <2> QED BY <1>5, <1>6, <2>1, <2>2, <2>3 DEF Threads
<1>12. CASE Crash
  BY <1>2, <1>12 DEF Crash, RequestFits, RunnerPcs, ResolverPcs
<1> QED BY EpisodeSteps, <1>4, <1>7, <1>8, <1>9, <1>10, <1>11, <1>12 DEF EpisodeStep, OtherStep, AlertChanges, vars

\* What a lookup returns is an open row of the alert, and the latest of them.
LEMMA GetActiveIsLatest ==
    ASSUME NEW table, IsTable(table), NEW f, NEW i \in DOMAIN table, table[i] \in GetActive(table, f)
    PROVE  /\ table[i].alert_fingerprint = f
           /\ table[i].status # "RESOLVED"
           /\ \A j \in DOMAIN table :
                 table[j].alert_fingerprint = f /\ table[j].status # "RESOLVED"
                   => table[j].start_time <= table[i].start_time
  BY DEF GetActive, Active, IsTable

\* A step saves at most the copy of the thread that takes it, or adds a row.
SavesCopy(t) ==
    /\ Alone(t)
    /\ rows' = Save(rows, copy[t])
    /\ pc[t] \in {"saveStarted", "saveResolved"} \cup RunSaves /\ pc'[t] # pc[t]
    /\ copy[t] \in Incident /\ copy[t] # NoIncident
    /\ copy[t].incident_id \in DOMAIN rows

LEMMA RowsChange ==
    ASSUME TypeOK, HeldRowsExist, CopyMatchesPc, [OpenNext]_vars
    PROVE  \/ rows' = rows
           \/ \E t \in Threads : SavesCopy(t)
           \/ \E h \in Handlers, i \in Incidents : Opens(h, i)
<1> DEFINE Changes ==
       \/ rows' = rows
       \/ \E t \in Threads : SavesCopy(t)
       \/ \E h \in Handlers, i \in Incidents : Opens(h, i)
<1>1. ASSUME NEW t \in Threads, rows' = Save(rows, copy[t]), Alone(t),
             pc[t] \in {"saveStarted", "saveResolved"} \cup RunSaves, pc'[t] # pc[t]
      PROVE  Changes
  <2>1. pc[t] \in CreatorPcs \cup ResolverPcs \cup RunnerPcs
    BY <1>1 DEF CreatorPcs, ResolverPcs, RunnerPcs, RunSaves
  <2> QED BY <1>1, <2>1, HoldersHold DEF HeldRowsExist, SavesCopy
<1>2. ASSUME NEW h \in Handlers, RequestStep(h) PROVE Changes
  BY <1>1, <1>2 DEF RequestStep, FiringIsNew, LetsGo, Announces, SavesStarted, Submits, Closes,
     Finds, Begins, Threads
<1>3. ASSUME NEW t \in Threads, RunMoves(t) PROVE Changes
  BY <1>1, <1>3 DEF RunMoves, RunGoes, RunSaves
<1>4. CASE \/ \E f \in AlertFingerprints : AlertChanges(f)
           \/ \E h \in Handlers, f \in AlertFingerprints : Delivery(h, f)
           \/ \E h \in Handlers, f \in AskFingerprints : Ask(h, f)
           \/ \E w \in Workers, i \in Incidents : Begins(w, i)
           \/ \E t \in Threads : LetsGo(t)
           \/ Crash
           \/ UNCHANGED vars
  BY <1>4 DEF AlertChanges, Delivery, Receive, Ask, Begins, LetsGo, Crash, vars
<1> QED BY EpisodeSteps, <1>2, <1>3, <1>4 DEF EpisodeStep, OtherStep

\* No row disappears, changes its alert or its date.
LEMMA RowsKeepIdentity ==
    ASSUME TypeOK, HeldRowsExist, CopyMatchesPc, CopiesIdentify, [OpenNext]_vars
    PROVE  \A i \in DOMAIN rows : i \in DOMAIN rows' /\ SameIncident(rows'[i], rows[i])
<1>1. \A i \in DOMAIN rows : rows[i].incident_id = i
  BY DEF TypeOK, IsTable
<1>2. ASSUME NEW t \in Threads, rows' = Save(rows, copy[t]), copy[t] # NoIncident
      PROVE  \A i \in DOMAIN rows : i \in DOMAIN rows' /\ SameIncident(rows'[i], rows[i])
  BY <1>1, <1>2, SaveRow DEF CopiesIdentify, SameIncident
<1> QED BY <1>2, RowsChange DEF SameIncident, Opens, SavesCopy

\* Nobody changes what an incident is about.
LEMMA CopiesIdentifyStep ==
    ASSUME TypeOK, HeldRowsExist, CopyMatchesPc, CopiesIdentify, [OpenNext]_vars
    PROVE  CopiesIdentify'
<1> DEFINE Fits(t) == copy'[t] # NoIncident =>
              /\ copy'[t].alert_fingerprint = rows'[copy'[t].incident_id].alert_fingerprint
              /\ copy'[t].start_time = rows'[copy'[t].incident_id].start_time
              /\ t \in Handlers => copy'[t].alert_fingerprint = event'[t].fp
<1>0. SUFFICES \A t \in Threads : Fits(t)
  BY DEF CopiesIdentify, Threads
<1>1. \A t \in Threads : copy[t] # NoIncident => copy[t].incident_id \in DOMAIN rows
  BY DEF HeldRowsExist
<1>2. \A i \in DOMAIN rows : /\ i \in DOMAIN rows' /\ SameIncident(rows'[i], rows[i])
                             /\ rows[i].incident_id = i
  BY RowsKeepIdentity DEF TypeOK, IsTable
<1>3. ASSUME NEW t \in Threads, copy'[t] = NoIncident \/ SameIncident(copy'[t], copy[t]),
             copy[t] = NoIncident => copy'[t] = NoIncident,
             copy'[t] # NoIncident => event'[t] = event[t]
      PROVE  Fits(t)
  BY <1>1, <1>2, <1>3 DEF CopiesIdentify, SameIncident
<1>4. ASSUME NEW t \in Threads, copy'[t] = copy[t], event'[t] = event[t] PROVE Fits(t)
  BY <1>3, <1>4 DEF SameIncident
<1>5. ASSUME NEW t \in Threads, copy'[t] = NoIncident PROVE Fits(t)
  BY <1>5
<1>6. ASSUME NEW h \in Handlers, NEW f, Delivery(h, f) \/ Ask(h, f), NEW t \in Threads PROVE Fits(t)
  <2>1. copy' = copy /\ copy[h] = NoIncident /\ \A s \in Threads \ {h} : event'[s] = event[s]
    BY <1>6 DEF Delivery, Receive, Ask, CopyMatchesPc, CopyFits, TypeOK, Threads
  <2> QED BY <1>4, <1>5, <2>1
<1>7. ASSUME NEW t \in Threads, Alone(t), Fits(t) PROVE \A s \in Threads : Fits(s)
  BY <1>4, <1>7 DEF Alone
<1>8. ASSUME NEW h \in Handlers, RequestStep(h), NEW s \in Threads PROVE Fits(s)
  <2>0. h \in Threads
    BY DEF Threads
  <2>1. CASE FiringIsNew(h)
    BY <1>4, <2>1 DEF FiringIsNew
  <2>2. CASE LetsGo(h) \/ SavesStarted(h) \/ Submits(h) \/ Closes(h)
    BY <1>4, <1>5, <1>7, <2>0, <2>2 DEF LetsGo, SavesStarted, Submits, Closes
  <2>3. CASE Announces(h)
    <3>1. copy[h] \in Incident /\ copy[h] # NoIncident
      BY <2>0, <2>3, HoldersHold DEF Announces, CreatorPcs
    <3>2. SameIncident(copy'[h], copy[h]) /\ event'[h] = event[h]
      BY <2>3, <3>1 DEF Announces, SameIncident, Incident
    <3> QED BY <1>3, <1>7, <2>0, <2>3, <3>1, <3>2 DEF Announces
  <2>4. ASSUME NEW i \in Incidents, Opens(h, i) PROVE Fits(s)
    <3>1. /\ copy'[h].incident_id = i
          /\ copy'[h].alert_fingerprint = rows'[i].alert_fingerprint
          /\ copy'[h].start_time = rows'[i].start_time
          /\ copy'[h].alert_fingerprint = event'[h].fp
      BY <2>4 DEF Opens, NewIncident
    <3>2. Fits(h) /\ Alone(h)
      BY <2>4, <3>1 DEF Opens
    <3> QED BY <1>7, <2>0, <3>2
  <2>5. ASSUME NEW i \in Incidents, Finds(h, i) PROVE Fits(s)
    <3>1. rows[i] \in Incident /\ i \in DOMAIN rows
      BY <2>5 DEF Finds, TypeOK, IsTable
    <3>2. /\ copy'[h].incident_id = rows[i].incident_id
          /\ copy'[h].alert_fingerprint = rows[i].alert_fingerprint
          /\ copy'[h].start_time = rows[i].start_time
      BY <2>5, <3>1 DEF Finds, Incident
    <3>3. rows[i].alert_fingerprint = event'[h].fp /\ rows' = rows
      BY <2>5, <3>1, GetActiveIsLatest DEF Finds, TypeOK
    <3>4. Fits(h) /\ Alone(h)
      BY <1>2, <2>5, <3>1, <3>2, <3>3 DEF Finds
    <3> QED BY <1>7, <2>0, <3>4
  <2>6. ASSUME NEW i \in Incidents, Begins(h, i) PROVE Fits(s)
    <3>0. i \in DOMAIN rows /\ rows' = rows
      BY <2>6 DEF Begins
    <3>1. rows[i] \in Incident
      BY <3>0 DEF TypeOK, IsTable
    <3>2. SameIncident(copy'[h], rows[i])
      BY <2>6, <3>1 DEF Begins, SameIncident, Incident
    <3>3. pc[h] = "load" /\ i = copy[h].incident_id /\ event'[h] = event[h]
      BY <2>6, OrchestratorAssumption DEF Begins
    <3>4. copy[h] # NoIncident
      BY <2>0, <3>3, HoldersHold DEF CreatorPcs
    <3>5. rows[i].alert_fingerprint = event'[h].fp
      BY <2>0, <3>3, <3>4 DEF CopiesIdentify
    <3>6. Fits(h) /\ Alone(h)
      BY <1>2, <2>6, <3>0, <3>2, <3>5 DEF Begins, SameIncident
    <3> QED BY <1>7, <2>0, <3>6
  <2> QED BY <1>8, <2>1, <2>2, <2>3, <2>4, <2>5, <2>6 DEF RequestStep
<1>9. ASSUME NEW w \in Workers, NEW i \in Incidents, Begins(w, i), NEW s \in Threads PROVE Fits(s)
  <2>0. w \in Threads /\ w \notin Handlers /\ i \in DOMAIN rows /\ rows' = rows
    BY <1>9, OrchestratorAssumption DEF Begins, Threads
  <2>1. rows[i] \in Incident
    BY <2>0 DEF TypeOK, IsTable
  <2>2. SameIncident(copy'[w], rows[i])
    BY <1>9, <2>1 DEF Begins, SameIncident, Incident
  <2>3. Fits(w) /\ Alone(w)
    BY <1>2, <1>9, <2>0, <2>2 DEF Begins, SameIncident
  <2> QED BY <1>7, <2>0, <2>3
<1>10. ASSUME NEW t \in Threads, LetsGo(t), NEW s \in Threads PROVE Fits(s)
  BY <1>5, <1>7, <1>10 DEF LetsGo
<1>11. ASSUME NEW t \in Threads, RunMoves(t), NEW s \in Threads PROVE Fits(s)
  <2>1. copy[t] # NoIncident
    BY <1>11, HoldersHold DEF RunMoves
  <2>2. Fits(t)
    BY <1>3, <1>11, <2>1 DEF RunMoves
  <2> QED BY <1>7, <1>11, <2>2 DEF RunMoves
<1>12. CASE Crash
  BY <1>5, <1>12 DEF Crash
<1>13. CASE UNCHANGED vars \/ \E f \in AlertFingerprints : AlertChanges(f)
  BY <1>4, <1>13 DEF vars, AlertChanges
<1> QED BY EpisodeSteps, <1>6, <1>8, <1>9, <1>10, <1>11, <1>12, <1>13 DEF EpisodeStep, OtherStep

\* An alert only goes forward.
LEMMA AlertsGoForward ==
    ASSUME TypeOK, HeldRowsExist, CopyMatchesPc, [OpenNext]_vars
    PROVE  /\ \A f \in AlertFingerprints : alert[f] \in Nat /\ alert'[f] \in Nat /\ alert[f] <= alert'[f]
           /\ alert' = alert \/ \E f \in AlertFingerprints : AlertChanges(f)
<1>1. \A f \in AlertFingerprints : alert[f] \in Nat
  BY DEF TypeOK
<1>2. ASSUME NEW f \in AlertFingerprints, AlertChanges(f), NEW g \in AlertFingerprints
      PROVE  alert'[g] \in Nat /\ alert[g] <= alert'[g]
  BY <1>1, <1>2 DEF AlertChanges, TypeOK
<1>3. alert' = alert \/ \E f \in AlertFingerprints : AlertChanges(f)
  <2>1. ASSUME NEW h \in Handlers, RequestStep(h) PROVE alert' = alert
    BY <2>1 DEF RequestStep, FiringIsNew, LetsGo, Announces, SavesStarted, Submits, Closes,
       Opens, Finds, Begins, Alone
  <2> QED BY EpisodeSteps, <2>1 DEF EpisodeStep, OtherStep, Delivery, Receive, Ask, Begins, LetsGo, RunMoves, Alone, Crash, vars
<1> QED BY <1>1, <1>2, <1>3

\* A request has its alert from its arrival to its end.
LEMMA OthersKeepAlert ==
    ASSUME TypeOK, OtherStep, NEW h \in Handlers
    PROVE  \/ event'[h] \in {event[h], NoEvent}
           \/ \E f \in AskFingerprints : Ask(h, f)
<1> DEFINE Kept == \/ event'[h] \in {event[h], NoEvent}
                   \/ \E f \in AskFingerprints : Ask(h, f)
<1>0. h \in Threads
  BY DEF Threads
<1>1. ASSUME NEW t \in Threads, Alone(t), event'[t] \in {event[t], NoEvent} PROVE Kept
  BY <1>0, <1>1 DEF Alone
<1>2. ASSUME NEW g \in Handlers, RequestStep(g) PROVE Kept
  <2>0. g \in Threads
    BY DEF Threads
  <2>1. CASE FiringIsNew(g)
    BY <2>1 DEF FiringIsNew
  <2>2. ~FiringIsNew(g) => Alone(g) /\ event'[g] \in {event[g], NoEvent}
    BY <1>2 DEF RequestStep, LetsGo, Announces, SavesStarted, Submits, Closes, Opens, Finds, Begins
  <2> QED BY <1>1, <2>0, <2>1, <2>2
<1>3. ASSUME NEW w \in Workers, NEW i \in Incidents, Begins(w, i) PROVE Kept
  BY <1>1, <1>3 DEF Begins, Threads
<1>4. ASSUME NEW t \in Threads, LetsGo(t) \/ RunMoves(t) PROVE Kept
  BY <1>1, <1>4 DEF LetsGo, RunMoves
<1>5. CASE Crash
  BY <1>0, <1>5 DEF Crash
<1>6. CASE UNCHANGED vars \/ \E f \in AlertFingerprints : AlertChanges(f)
  BY <1>6 DEF vars, AlertChanges
<1>8. ASSUME NEW g \in Handlers, NEW f \in AskFingerprints, Ask(g, f) PROVE Kept
  BY <1>0, <1>8, AskEvent
<1> QED BY <1>2, <1>3, <1>4, <1>5, <1>6, <1>8 DEF OtherStep

LEMMA RequestsKeepAlert ==
    ASSUME TypeOK, HeldRowsExist, CopyMatchesPc, [Next]_vars, NEW h \in Handlers
    PROVE  \/ event'[h] \in {event[h], NoEvent}
           \/ \E f \in AlertFingerprints : Webhook(h, f)
           \/ \E f \in AskFingerprints : Ask(h, f)
<1>1. ASSUME NEW g \in Handlers, NEW f \in AlertFingerprints, Webhook(g, f), g # h
      PROVE  event'[h] = event[h]
  BY <1>1, WebhookEvent DEF Threads
<1> QED BY <1>1, OtherSteps, OthersKeepAlert

\* A request opens an incident for the firing alert or the question it handles.
LEMMA OpensEvent ==
    ASSUME TypeOK, WorkFits, NEW h \in Handlers, NEW i \in Incidents, Opens(h, i)
    PROVE  /\ event[h] \in Event /\ event[h] # NoEvent
           /\ event[h].kind \in {"firing", "ask"}
           /\ event[h].kind = "ask" <=> event[h].fp \in AskFingerprints
<1>1. pc[h] = "create" /\ h \in Threads
  BY DEF Opens, Threads
<1>2. event[h] \in Event /\ event[h] # NoEvent
  BY <1>1, PlaceholderAssumption DEF TypeOK
<1> QED BY <1>1, <1>2 DEF WorkFits

\* The new incident is of that alert and of its date, and nothing is known of it.
LEMMA OpensRow ==
    ASSUME NEW h \in Handlers, NEW i \in Incidents, Opens(h, i)
    PROVE  /\ i \in DOMAIN rows' /\ i \notin DOMAIN rows
           /\ rows'[i].incident_id = i
           /\ rows'[i].alert_fingerprint = event[h].fp
           /\ rows'[i].start_time = event[h].start
           /\ rows'[i].status = "ALERT_RECEIVED"
           /\ rows'[i].investigation_state = "ALERT_RECEIVED"
           /\ rows'[i].root_cause = FALSE
           /\ rows'[i].slack_thread_ts = None
           /\ copy'[h].incident_id = i
           /\ copy'[h].status = "INVESTIGATION_STARTED"
           /\ copy'[h].slack_thread_ts = None
<1>1. /\ i \in DOMAIN rows' /\ i \notin DOMAIN rows
      /\ rows'[i] = NewIncident(i, event[h].fp, event[h].start)
      /\ copy'[h] = [NewIncident(i, event[h].fp, event[h].start) EXCEPT !.status = "INVESTIGATION_STARTED"]
  BY DEF Opens
<1>2. /\ rows'[i].incident_id = i
      /\ rows'[i].alert_fingerprint = event[h].fp
      /\ rows'[i].start_time = event[h].start
      /\ rows'[i].status = "ALERT_RECEIVED"
      /\ rows'[i].investigation_state = "ALERT_RECEIVED"
      /\ rows'[i].root_cause = FALSE
      /\ rows'[i].slack_thread_ts = None
  BY <1>1 DEF NewIncident
<1>3. /\ copy'[h].incident_id = i
      /\ copy'[h].status = "INVESTIGATION_STARTED"
      /\ copy'[h].slack_thread_ts = None
  BY <1>1 DEF NewIncident
<1> QED BY <1>1, <1>2, <1>3

\* Nothing gets ahead of its alert.
LEMMA DatesFitStep ==
    ASSUME TypeOK, HeldRowsExist, CopyMatchesPc, WorkFits, CopiesIdentify, DatesFit, [Next]_vars
    PROVE  DatesFit'
<1> [OpenNext]_vars
  BY DEF OpenNext
<1>1. \A f \in AlertFingerprints : alert[f] \in Nat /\ alert'[f] \in Nat /\ alert[f] <= alert'[f]
  BY AlertsGoForward
<1>2. \A f \in AlertFingerprints : alert'[f] <= MaxTransitions
  <2>1. ASSUME NEW f \in AlertFingerprints, AlertChanges(f), NEW g \in AlertFingerprints
        PROVE  alert'[g] <= MaxTransitions
    BY <1>1, <2>1, OrchestratorAssumption DEF AlertChanges, DatesFit, TypeOK
  <2> QED BY AlertsGoForward, <2>1 DEF DatesFit
<1>3. \A i \in DOMAIN rows : rows[i].start_time \in Nat
  BY DEF TypeOK, IsTable, Incident
<1>4. ASSUME NEW i \in DOMAIN rows', rows'[i].alert_fingerprint \in AlertFingerprints
      PROVE  1 <= rows'[i].start_time /\ 2 * rows'[i].start_time <= alert'[rows'[i].alert_fingerprint] + 1
  <2>1. CASE i \in DOMAIN rows
    BY <1>1, <1>3, <1>4, <2>1, RowsKeepIdentity DEF DatesFit, SameIncident
  <2>2. CASE i \notin DOMAIN rows
    <3>1. PICK h \in Handlers, j \in Incidents : Opens(h, j)
      BY <2>2, RowsChange, SaveRow DEF SavesCopy
    <3>2. i = j
      BY <2>2, <3>1 DEF Opens
    <3>3. /\ event[h] # NoEvent /\ event[h].kind = "firing" /\ event[h].start \in Nat
          /\ rows'[i].alert_fingerprint = event[h].fp /\ rows'[i].start_time = event[h].start
      <4>1. /\ event[h] # NoEvent /\ event[h] \in Event /\ event[h].kind \in {"firing", "ask"}
            /\ event[h].kind = "ask" <=> event[h].fp \in AskFingerprints
            /\ rows'[i].alert_fingerprint = event[h].fp /\ rows'[i].start_time = event[h].start
        BY <3>1, <3>2, OpensEvent, OpensRow
      <4> QED BY <1>4, <4>1 DEF AlertFingerprints, Event
    <3> QED BY <1>1, <1>4, <3>3 DEF DatesFit
  <2> QED BY <2>1, <2>2
<1>5. ASSUME NEW h \in Handlers, event'[h] # NoEvent, event'[h].kind # "ask"
      PROVE  /\ 1 <= event'[h].start
             /\ 2 * event'[h].start <=
                  IF event'[h].kind = "firing" THEN alert'[event'[h].fp] + 1 ELSE alert'[event'[h].fp]
  <2>1. CASE event'[h] = event[h]
    <3>1. event[h] \in Event /\ event[h].fp \in AlertFingerprints
      BY <1>5, <2>1 DEF TypeOK, WorkFits, Event, Threads, AlertFingerprints
    <3>2. event[h].start \in Nat
      BY <3>1 DEF Event
    <3> QED BY <1>1, <1>5, <2>1, <3>1, <3>2 DEF DatesFit
  <2>2. ASSUME NEW f \in AlertFingerprints, Webhook(h, f)
        PROVE  /\ 1 <= event'[h].start
               /\ 2 * event'[h].start <=
                    IF event'[h].kind = "firing" THEN alert'[event'[h].fp] + 1 ELSE alert'[event'[h].fp]
    <3>1. event'[h].start \in Nat
      BY <2>2, WebhookEvent DEF Event
    <3> QED BY <1>1, <2>2, <3>1, WebhookEvent
  <2>3. ASSUME NEW f \in AskFingerprints, Ask(h, f) PROVE FALSE
    BY <1>5, <2>3, AskEvent
  <2> QED BY <1>5, <2>1, <2>2, <2>3, RequestsKeepAlert
<1> QED BY <1>2, <1>4, <1>5 DEF DatesFit

\* An episode that is over stays over.
LEMMA OverStaysOver ==
    ASSUME TypeOK, HeldRowsExist, CopyMatchesPc, [OpenNext]_vars
    PROVE  \A f \in AlertFingerprints, n \in Nat : alert[f] >= 2 * n => alert'[f] >= 2 * n
  BY AlertsGoForward

\* What an incident copied from a row, or saved to one, is about.
LEMMA IncidentFields ==
    ASSUME TypeOK
    PROVE  /\ \A i \in DOMAIN rows : /\ rows[i] \in Incident /\ rows[i].incident_id = i
                                     /\ rows[i].start_time \in Nat
           /\ \A t \in Threads : copy[t] # NoIncident =>
                 copy[t] \in Incident /\ copy[t].start_time \in Nat
  BY DEF TypeOK, IsTable, Incident

\* A copy is closed only by a request that was told so, or taken from a closed row.
LEMMA ClosedCopies ==
    ASSUME TypeOK, HeldRowsExist, CopyMatchesPc, [OpenNext]_vars,
           NEW t \in Threads, copy'[t] # NoIncident, copy'[t].status = "RESOLVED"
    PROVE  \/ /\ copy[t] # NoIncident /\ copy[t].status = "RESOLVED"
              /\ SameIncident(copy'[t], copy[t])
           \/ \E i \in DOMAIN rows :
                 /\ SameIncident(copy'[t], rows[i])
                 /\ \/ rows[i].status = "RESOLVED"
                    \/ /\ t \in Handlers /\ event[t] # NoEvent /\ event[t].kind = "resolved"
                       /\ rows[i].alert_fingerprint = event[t].fp
<1> DEFINE Goal(s) == copy'[s] # NoIncident /\ copy'[s].status = "RESOLVED" =>
           \/ /\ copy[s] # NoIncident /\ copy[s].status = "RESOLVED"
              /\ SameIncident(copy'[s], copy[s])
           \/ \E i \in DOMAIN rows :
                 /\ SameIncident(copy'[s], rows[i])
                 /\ \/ rows[i].status = "RESOLVED"
                    \/ /\ s \in Handlers /\ event[s] # NoEvent /\ event[s].kind = "resolved"
                       /\ rows[i].alert_fingerprint = event[s].fp
<1>0. SUFFICES Goal(t)
  OBVIOUS
<1>1. \A s \in Threads : copy'[s] \in {copy[s], NoIncident} => Goal(s)
  BY DEF SameIncident
<1>2. ASSUME NEW s \in Threads, Alone(s), Goal(s) PROVE Goal(t)
  BY <1>1, <1>2 DEF Alone
<1>3. ASSUME NEW h \in Handlers, RequestStep(h) PROVE Goal(t)
  <2>0. h \in Threads
    BY DEF Threads
  <2>1. CASE FiringIsNew(h)
    BY <1>1, <2>1 DEF FiringIsNew
  <2>2. CASE LetsGo(h) \/ SavesStarted(h) \/ Submits(h) \/ Closes(h)
    BY <1>1, <1>2, <2>0, <2>2 DEF LetsGo, SavesStarted, Submits, Closes
  <2>3. CASE Announces(h)
    <3>1. copy[h] \in Incident /\ copy[h] # NoIncident
      BY <2>0, <2>3, HoldersHold DEF Announces, CreatorPcs
    <3>2. SameIncident(copy'[h], copy[h]) /\ copy'[h].status = copy[h].status
      BY <2>3, <3>1 DEF Announces, SameIncident, Incident
    <3>3. Goal(h)
      BY <3>1, <3>2
    <3> QED BY <1>2, <2>0, <2>3, <3>3 DEF Announces
  <2>4. ASSUME NEW i \in Incidents, Opens(h, i) PROVE Goal(t)
    <3>1. copy'[h].status = "INVESTIGATION_STARTED"
      BY <2>4 DEF Opens, NewIncident
    <3>2. Goal(h) /\ Alone(h)
      BY <2>4, <3>1 DEF Opens
    <3> QED BY <1>2, <2>0, <3>2
  <2>5. ASSUME NEW i \in Incidents, Finds(h, i) PROVE Goal(t)
    <3>1. rows[i] \in Incident /\ i \in DOMAIN rows
      BY <2>5 DEF Finds, TypeOK, IsTable
    <3>2. SameIncident(copy'[h], rows[i]) /\ rows[i].alert_fingerprint = event[h].fp
      BY <2>5, <3>1, GetActiveIsLatest DEF Finds, Incident, SameIncident, TypeOK
    <3>3. event[h].kind = "resolved" /\ event[h] # NoEvent
      BY <2>0, <2>5, PlaceholderAssumption DEF Finds, TypeOK
    <3>4. Goal(h)
      BY <3>1, <3>2, <3>3
    <3> QED BY <1>2, <2>0, <2>5, <3>4 DEF Finds
  <2>6. ASSUME NEW i \in Incidents, Begins(h, i) PROVE Goal(t)
    <3>1. rows[i] \in Incident /\ i \in DOMAIN rows
      BY <2>6 DEF Begins, TypeOK, IsTable
    <3>2. SameIncident(copy'[h], rows[i]) /\ copy'[h].status = rows[i].status
      BY <2>6, <3>1 DEF Begins, Incident, SameIncident
    <3>3. Goal(h)
      BY <3>1, <3>2
    <3> QED BY <1>2, <2>0, <2>6, <3>3 DEF Begins
  <2> QED BY <1>3, <2>1, <2>2, <2>3, <2>4, <2>5, <2>6 DEF RequestStep
<1>4. ASSUME NEW w \in Workers, NEW i \in Incidents, Begins(w, i) PROVE Goal(t)
  <2>1. rows[i] \in Incident /\ i \in DOMAIN rows /\ w \in Threads
    BY <1>4 DEF Begins, TypeOK, IsTable, Threads
  <2>2. SameIncident(copy'[w], rows[i]) /\ copy'[w].status = rows[i].status
    BY <1>4, <2>1 DEF Begins, Incident, SameIncident
  <2>3. Goal(w)
    BY <2>1, <2>2
  <2> QED BY <1>2, <1>4, <2>1, <2>3 DEF Begins
<1>5. ASSUME NEW s \in Threads, LetsGo(s) PROVE Goal(t)
  BY <1>1, <1>2, <1>5 DEF LetsGo
<1>6. ASSUME NEW s \in Threads, RunMoves(s) PROVE Goal(t)
  <2>1. copy[s] # NoIncident
    BY <1>6, HoldersHold DEF RunMoves
  <2>2. Goal(s)
    BY <1>6, <2>1 DEF RunMoves
  <2> QED BY <1>2, <1>6, <2>2 DEF RunMoves
<1>7. CASE \/ UNCHANGED vars \/ Crash
           \/ \E f \in AlertFingerprints : AlertChanges(f)
           \/ \E h \in Handlers, f \in AlertFingerprints : Delivery(h, f)
           \/ \E h \in Handlers, f \in AskFingerprints : Ask(h, f)
  BY <1>1, <1>7 DEF vars, Crash, AlertChanges, Delivery, Receive, Ask
<1> HIDE DEF Goal
<1> QED BY EpisodeSteps, <1>3, <1>4, <1>5, <1>6, <1>7 DEF EpisodeStep, OtherStep

\* Nobody closes an incident before its episode is over, as long as news comes in time.
LEMMA ClosedAreOverStep ==
    ASSUME TypeOK, HeldRowsExist, CopyMatchesPc, WorkFits, CopiesIdentify, DatesFit,
           NewsInTime, ClosedAreOver, [Next]_vars
    PROVE  ClosedAreOver'
<1> [OpenNext]_vars
  BY DEF OpenNext
<1>0. \A f \in AlertFingerprints, n \in Nat : alert[f] >= 2 * n => alert'[f] >= 2 * n
  BY OverStaysOver
<1>1. ASSUME NEW i \in DOMAIN rows', rows'[i].status = "RESOLVED" PROVE EpisodeOver(rows[i])'
  <2>1. CASE rows' = rows
    BY <1>0, <1>1, <2>1, IncidentFields DEF ClosedAreOver, EpisodeOver
  <2>2. ASSUME NEW t \in Threads, rows' = Save(rows, copy[t]), copy[t] # NoIncident PROVE EpisodeOver(rows[i])'
    BY <1>0, <1>1, <2>2, IncidentFields, SaveRow DEF ClosedAreOver, EpisodeOver
  <2>3. ASSUME NEW h \in Handlers, NEW j \in Incidents, Opens(h, j) PROVE EpisodeOver(rows[i])'
    <3>1. i # j
      <4>1. rows'[j].status = "ALERT_RECEIVED"
        BY <2>3, OpensRow
      <4> QED BY <1>1, <4>1
    <3>2. i \in DOMAIN rows /\ rows'[i] = rows[i]
      BY <2>3, <3>1 DEF Opens
    <3> QED BY <1>0, <1>1, <3>2, IncidentFields DEF ClosedAreOver, EpisodeOver
  <2> QED BY RowsChange, <2>1, <2>2, <2>3 DEF SavesCopy
<1>2. ASSUME NEW t \in Threads, copy'[t] # NoIncident, copy'[t].status = "RESOLVED"
      PROVE  EpisodeOver(copy[t])'
  <2>1. CASE copy[t] # NoIncident /\ copy[t].status = "RESOLVED" /\ SameIncident(copy'[t], copy[t])
    BY <1>0, <2>1, IncidentFields DEF ClosedAreOver, EpisodeOver, SameIncident
  <2>2. ASSUME NEW i \in DOMAIN rows, SameIncident(copy'[t], rows[i]), EpisodeOver(rows[i])
        PROVE  EpisodeOver(copy[t])'
    BY <1>0, <2>2, IncidentFields DEF EpisodeOver, SameIncident
  <2> QED BY <1>2, <2>1, <2>2, ClosedCopies DEF ClosedAreOver
<1>3. ASSUME NEW h \in Handlers, event'[h] # NoEvent, event'[h].kind = "resolved",
             NEW i \in DOMAIN rows', rows'[i].alert_fingerprint = event'[h].fp
      PROVE  EpisodeOver(rows[i])'
  <2>1. CASE event'[h] = event[h] /\ i \in DOMAIN rows
    <3>1. EpisodeOver(rows[i])
      BY <1>3, <2>1, RowsKeepIdentity DEF ClosedAreOver, SameIncident
    <3> QED BY <1>0, <2>1, <3>1, RowsKeepIdentity, IncidentFields DEF EpisodeOver, SameIncident
  <2>2. CASE event'[h] = event[h] /\ i \notin DOMAIN rows
    <3>1. PICK g \in Handlers, j \in Incidents : Opens(g, j)
      BY <2>2, RowsChange, SaveRow DEF SavesCopy
    <3>2. i = j
      BY <2>2, <3>1 DEF Opens
    <3>3. /\ event[g] # NoEvent /\ event[g] \in Event /\ event[g].kind \in {"firing", "ask"}
          /\ event[g].kind = "ask" <=> event[g].fp \in AskFingerprints
          /\ rows'[i].alert_fingerprint = event[g].fp /\ rows'[i].start_time = event[g].start
      BY <3>1, <3>2, OpensEvent, OpensRow
    <3>4. event[h].fp \notin AskFingerprints /\ event[h] \in Event /\ event[h].fp \in AlertFingerprints
      BY <1>3, <2>2 DEF WorkFits, TypeOK, Event, AlertFingerprints, Threads
    <3>5. event[g].kind = "firing" /\ g # h
      BY <1>3, <2>2, <3>3, <3>4
    <3>6. MaxTransitions <= 2
      BY <3>5 DEF NewsInTime, Serial
    <3>7. event[g].start \in Nat /\ event[h].start \in Nat /\ alert[event[h].fp] \in Nat
      BY <3>3, <3>4 DEF Event, TypeOK
    <3>8. /\ 1 <= event[h].start /\ 2 * event[h].start <= alert[event[h].fp]
          /\ 2 * event[g].start <= alert[event[h].fp] + 1
          /\ alert[event[h].fp] <= MaxTransitions
      BY <1>3, <2>2, <3>3, <3>4, <3>5 DEF DatesFit
    <3>9. alert[event[h].fp] >= 2 * event[g].start
      <4>1. ASSUME NEW x \in Nat, NEW m \in Nat, NEW a \in Nat, NEW b \in Nat,
                   m <= 2, x <= m, 1 <= a, 2 * a <= x, 2 * b <= x + 1
            PROVE  x >= 2 * b
        BY <4>1
      <4>2. MaxTransitions \in Nat
        BY OrchestratorAssumption
      <4> QED BY <3>6, <3>7, <3>8, <4>1, <4>2
    <3>10. alert'[event[h].fp] >= 2 * event[g].start
      BY <1>0, <3>4, <3>7, <3>9
    <3> QED BY <1>3, <2>2, <3>3, <3>4, <3>10 DEF EpisodeOver
  <2>3. ASSUME NEW f \in AlertFingerprints, Webhook(h, f) PROVE EpisodeOver(rows[i])'
    <3>1. event'[h].fp = f /\ 2 * event'[h].start = alert[f] /\ rows' = rows /\ alert' = alert
          /\ event'[h] \in Event
      BY <1>3, <2>3, WebhookEvent
    <3>2. event'[h].start \in Nat /\ alert[f] \in Nat /\ rows[i].start_time \in Nat
      BY <1>3, <3>1, IncidentFields DEF Event, TypeOK
    <3>3. 2 * rows[i].start_time <= alert[f] + 1
      BY <1>3, <3>1 DEF DatesFit
    <3> QED BY <1>3, <3>1, <3>2, <3>3 DEF EpisodeOver
  <2>4. ASSUME NEW f \in AskFingerprints, Ask(h, f) PROVE FALSE
    BY <1>3, <2>4, AskEvent
  <2> QED BY <1>3, <2>1, <2>2, <2>3, <2>4, RequestsKeepAlert
<1> QED BY <1>1, <1>2, <1>3 DEF ClosedAreOver

\* As long as its episode lasts, nobody else saves the incident of a run.
LEMMA NobodyElseSaves ==
    ASSUME IndInv, CopiesIdentify, ClosedAreOver,
           NEW t \in Threads, pc[t] \in RunnerPcs, ~EpisodeOver(copy[t]),
           NEW s \in Threads \ {t}, SavesCopy(s)
    PROVE  copy[s].incident_id # copy[t].incident_id
<1>1. copy[t] # NoIncident /\ copy[s] # NoIncident
  BY HoldersHold DEF IndInv, SavesCopy
<1>2. CASE pc[s] = "saveResolved"
  <2>1. EpisodeOver(copy[s])
    BY <1>1, <1>2 DEF IndInv, ReportIsOnFile, ClosedAreOver
  <2> QED BY <1>1, <2>1 DEF CopiesIdentify, EpisodeOver
<1>3. CASE pc[s] # "saveResolved"
  <2>1. pc[s] \in CreatorPcs \cup RunnerPcs
    BY <1>3 DEF SavesCopy, CreatorPcs, RunnerPcs, RunSaves
  <2> QED BY <2>1 DEF IndInv, SingleOwner, Owns
<1> QED BY <1>2, <1>3

\* A run knows what of it is on file.
LEMMA RunsOnFileStep ==
    ASSUME IndInv, CopiesIdentify, ClosedAreOver, RunsOnFile, [OpenNext]_vars
    PROVE  RunsOnFile'
<1> DEFINE OnRecord(row, label, cause) ==
               /\ row.investigation_state = StageAt(label)
               /\ row.status # "INVESTIGATION_FAILED"
               /\ StageAt(label) = "RCA_GENERATED" => row.root_cause = cause
           Fits(t) == pc'[t] \in RunnerPcs /\ ~EpisodeOver(copy[t])' =>
               OnRecord(rows'[copy'[t].incident_id], pc'[t], copy'[t].root_cause)
<1>0. SUFFICES \A t \in Threads : Fits(t)
  BY DEF RunsOnFile
<1> HIDE DEF OnRecord
<1>1. /\ TypeOK /\ HeldRowsExist /\ CopyMatchesPc /\ WaitingIsFresh /\ RowsCoherent
      /\ \A f \in AlertFingerprints, n \in Nat : alert[f] >= 2 * n => alert'[f] >= 2 * n
      /\ \A t \in Threads : pc[t] \in RunnerPcs /\ ~EpisodeOver(copy[t]) =>
            OnRecord(rows[copy[t].incident_id], pc[t], copy[t].root_cause)
  BY OverStaysOver DEF IndInv, RunsOnFile, OnRecord
<1>2. ASSUME NEW t \in Threads, pc[t] \in RunnerPcs, copy'[t] = copy[t] \/ SameIncident(copy'[t], copy[t]),
             ~EpisodeOver(copy[t])'
      PROVE  ~EpisodeOver(copy[t])
  BY <1>1, <1>2, IncidentFields, HoldersHold DEF EpisodeOver, SameIncident
<1>3. ASSUME NEW t \in Threads, pc'[t] = pc[t], copy'[t] = copy[t] PROVE Fits(t)
  <2> SUFFICES ASSUME pc[t] \in RunnerPcs, ~EpisodeOver(copy[t])'
               PROVE  OnRecord(rows'[copy[t].incident_id], pc[t], copy[t].root_cause)
    BY <1>3
  <2>1. /\ ~EpisodeOver(copy[t]) /\ copy[t].incident_id \in DOMAIN rows
        /\ OnRecord(rows[copy[t].incident_id], pc[t], copy[t].root_cause)
    BY <1>1, <1>2, <1>3, HoldersHold DEF HeldRowsExist
  <2>2. rows'[copy[t].incident_id] = rows[copy[t].incident_id]
    <3>1. ASSUME NEW s \in Threads, SavesCopy(s) PROVE rows'[copy[t].incident_id] = rows[copy[t].incident_id]
      BY <1>3, <2>1, <3>1, NobodyElseSaves, SaveRow DEF SavesCopy
    <3> QED BY <1>1, <2>1, <3>1, RowsChange DEF Opens
  <2> QED BY <2>1, <2>2
<1>4. ASSUME NEW t \in Threads, NEW i \in Incidents, Begins(t, i) PROVE Fits(t)
  <2>1. i \in DOMAIN rows /\ rows' = rows /\ pc'[t] = "saveCollecting"
    BY <1>4 DEF Begins
  <2>2. rows[i].investigation_state = "ALERT_RECEIVED"
    <3>1. CASE pc[t] = "load"
      BY <1>1, <1>4, <3>1 DEF WaitingIsFresh, Begins, CreatorPcs
    <3>2. CASE pc[t] # "load"
      <4>1. queue \in Seq(Incidents) /\ queue # <<>> /\ i = queue[1]
        BY <1>1, <1>4, <3>2 DEF Begins, TypeOK
      <4> QED BY <1>1, <4>1, TailQueue DEF WaitingIsFresh
    <3> QED BY <3>1, <3>2
  <2>3. rows[i].status # "INVESTIGATION_FAILED"
    BY <1>1, <2>1, <2>2 DEF RowsCoherent, Coherent
  <2>4. copy'[t].incident_id = i
    BY <1>4, <2>1, IncidentFields, <1>1 DEF Begins, Incident
  <2> QED BY <2>1, <2>2, <2>3, <2>4 DEF OnRecord, StageAt
<1>5. ASSUME NEW t \in Threads, RunMoves(t) PROVE Fits(t)
  <2> SUFFICES ASSUME pc'[t] \in RunnerPcs, ~EpisodeOver(copy[t])'
               PROVE  OnRecord(rows'[copy'[t].incident_id], pc'[t], copy'[t].root_cause)
    OBVIOUS
  <2>1. /\ pc[t] \in RunnerPcs /\ RunGoes(pc[t], pc'[t]) /\ SameIncident(copy'[t], copy[t])
        /\ pc[t] # "generate" => copy'[t].root_cause = copy[t].root_cause
        /\ copy'[t].incident_id = copy[t].incident_id
        /\ copy[t] # NoIncident /\ copy[t].incident_id \in DOMAIN rows
    BY <1>1, <1>5, HoldersHold DEF RunMoves, RunnerPcs, SameIncident, HeldRowsExist
  <2>2. CASE pc[t] \in RunSaves
    <3>1. rows'[copy[t].incident_id] = copy[t]
      BY <1>5, <2>1, <2>2, SaveRow DEF RunMoves
    <3>2. CopyFits(pc[t], copy[t]) /\ Coherent(copy[t])
      BY <1>1, <2>1 DEF CopyMatchesPc, RowsCoherent
    <3>3. OnRecord(copy[t], pc'[t], copy'[t].root_cause)
      BY <2>1, <2>2, <3>2 DEF OnRecord, RunGoes, RunSaves, StageAt, CopyFits, Coherent
    <3> QED BY <2>1, <3>1, <3>3
  <2>3. CASE pc[t] \notin RunSaves
    <3>1. rows' = rows /\ OnRecord(rows[copy[t].incident_id], pc[t], copy[t].root_cause)
      BY <1>1, <1>2, <1>5, <2>1, <2>3 DEF RunMoves
    <3>2. StageAt(pc'[t]) = StageAt(pc[t]) /\ (StageAt(pc[t]) = "RCA_GENERATED" => pc[t] # "generate")
      BY <2>1, <2>3 DEF RunGoes, RunSaves, StageAt
    <3> QED BY <2>1, <3>1, <3>2 DEF OnRecord
  <2> QED BY <2>2, <2>3
<1>6. ASSUME NEW t \in Threads, Alone(t), Fits(t) PROVE \A s \in Threads : Fits(s)
  BY <1>3, <1>6 DEF Alone
<1>7. ASSUME NEW t \in Threads, pc'[t] \notin RunnerPcs PROVE Fits(t)
  BY <1>7
<1> HIDE DEF Fits
<1>8. ASSUME NEW h \in Handlers, RequestStep(h), NEW s \in Threads PROVE Fits(s)
  <2>0. h \in Threads
    BY DEF Threads
  <2>1. CASE FiringIsNew(h)
    <3>1. pc'[h] = "create" /\ copy' = copy /\ \A r \in Threads \ {h} : pc'[r] = pc[r]
      BY <1>1, <2>0, <2>1 DEF FiringIsNew, Goto, TypeOK
    <3> QED BY <1>3, <1>7, <3>1 DEF RunnerPcs
  <2>2. CASE LetsGo(h) \/ Announces(h) \/ SavesStarted(h) \/ Submits(h) \/ Closes(h)
             \/ \E i \in Incidents : Opens(h, i) \/ Finds(h, i)
    <3>1. Alone(h) /\ pc'[h] \notin RunnerPcs
      BY <2>2 DEF LetsGo, Announces, SavesStarted, Submits, Closes, Opens, Finds, RunnerPcs
    <3> QED BY <1>6, <1>7, <2>0, <3>1
  <2>3. ASSUME NEW i \in Incidents, Begins(h, i) PROVE Fits(s)
    BY <1>4, <1>6, <2>0, <2>3 DEF Begins
  <2> QED BY <1>8, <2>1, <2>2, <2>3 DEF RequestStep
<1>9. ASSUME NEW w \in Workers, NEW i \in Incidents, Begins(w, i), NEW s \in Threads PROVE Fits(s)
  BY <1>4, <1>6, <1>9 DEF Begins, Threads
<1>10. ASSUME NEW t \in Threads, LetsGo(t), NEW s \in Threads PROVE Fits(s)
  BY <1>6, <1>7, <1>10 DEF LetsGo, RunnerPcs
<1>11. ASSUME NEW t \in Threads, RunMoves(t), NEW s \in Threads PROVE Fits(s)
  BY <1>5, <1>6, <1>11 DEF RunMoves
<1>12. CASE Crash
  BY <1>7, <1>12 DEF Crash, RunnerPcs
<1>13. CASE UNCHANGED vars \/ \E f \in AlertFingerprints : AlertChanges(f)
  BY <1>3, <1>13 DEF vars, AlertChanges
<1>14. ASSUME NEW h \in Handlers, NEW f, Delivery(h, f) \/ Ask(h, f), NEW s \in Threads PROVE Fits(s)
  <2>1. pc'[h] \in {"lookup", "create"} /\ copy' = copy /\ \A r \in Threads \ {h} : pc'[r] = pc[r]
    BY <1>1, <1>14 DEF Delivery, Receive, Ask, Goto, TypeOK, Threads
  <2> QED BY <1>3, <1>7, <2>1 DEF RunnerPcs
<1> QED BY EpisodeSteps, <1>1, <1>8, <1>9, <1>10, <1>11, <1>12, <1>13, <1>14 DEF EpisodeStep, OtherStep

\* If an alert has an open incident that no other of the alert is younger than, a lookup
\* finds one.
LEMMA LookupFinds ==
    ASSUME NEW f, NEW i \in DOMAIN rows, IsTable(rows),
           rows[i].alert_fingerprint = f, rows[i].status # "RESOLVED",
           \A j \in DOMAIN rows :
              rows[j].alert_fingerprint = f => rows[j].start_time <= rows[i].start_time
    PROVE  GetActive(rows, f) # {}
<1>1. rows[i] \in GetActive(rows, f)
  BY DEF GetActive, Active
<1> QED BY <1>1

\* The part of EpisodesApart about one request and one row.
Apart(h, e, label, i, row) ==
    /\ row.start_time <= e.start
    /\ label = "create" => e.kind = "firing" /\ row.start_time # e.start
    /\ e.kind = "firing" /\ row.start_time = e.start =>
          /\ row.status # "RESOLVED"
          /\ \A t \in Threads : Holds(t, i) => copy[t].status # "RESOLVED"

\* Opening an incident keeps it apart from those of other episodes.
LEMMA EpisodesApartStep ==
    ASSUME TypeOK, HeldRowsExist, CopyMatchesPc, WorkFits, CopiesIdentify, DatesFit,
           ClosedAreOver, Serial, EpisodesApart, [Next]_vars
    PROVE  EpisodesApart'
<1> [OpenNext]_vars
  BY DEF OpenNext
<1>1. \A h \in Handlers, i \in DOMAIN rows :
         event[h] # NoEvent /\ rows[i].alert_fingerprint = event[h].fp
           => Apart(h, event[h], pc[h], i, rows[i])
  BY DEF EpisodesApart, Apart
<1>2. \A g, h \in Handlers : g = h
  BY DEF Serial
<1> SUFFICES ASSUME NEW h \in Handlers, event'[h] # NoEvent,
                    NEW i \in DOMAIN rows', rows'[i].alert_fingerprint = event'[h].fp
             PROVE  Apart(h, event[h], pc[h], i, rows[i])'
  BY DEF EpisodesApart, Apart
<1> DEFINE Goal == Apart(h, event[h], pc[h], i, rows[i])'
<1>3. /\ h \in Threads
      /\ \A j \in DOMAIN rows : rows[j] \in Incident /\ rows[j].incident_id = j /\ rows[j].start_time \in Nat
  BY IncidentFields DEF Threads
<1>4. ASSUME NEW f \in AlertFingerprints, Webhook(h, f) PROVE Goal
  <2>1. /\ event'[h] \in Event /\ event'[h].fp = f /\ pc'[h] = "lookup" /\ rows' = rows /\ copy' = copy
        /\ alert' = alert /\ alert[f] \in Nat
        /\ event'[h].kind = "firing" => 2 * event'[h].start = alert[f] + 1
        /\ event'[h].kind \in {"firing", "resolved"}
        /\ event'[h].kind = "resolved" => 2 * event'[h].start = alert[f]
    BY <1>4, WebhookEvent DEF TypeOK
  <2>2. event'[h].start \in Nat /\ rows[i].start_time \in Nat /\ 2 * rows[i].start_time <= alert[f] + 1
        /\ rows[i].alert_fingerprint = f
    BY <1>3, <2>1 DEF Event, DatesFit
  <2>3. rows[i].start_time <= event'[h].start
    BY <2>1, <2>2
  <2>4. ASSUME event'[h].kind = "firing", rows[i].start_time = event'[h].start
        PROVE  rows[i].status # "RESOLVED" /\ \A t \in Threads : Holds(t, i) => copy[t].status # "RESOLVED"
    <3>1. ~EpisodeOver(rows[i])
      BY <2>1, <2>2, <2>4 DEF EpisodeOver
    <3> QED BY <2>1, <3>1 DEF ClosedAreOver, CopiesIdentify, EpisodeOver, Holds
  <2> QED BY <2>1, <2>3, <2>4 DEF Apart, Holds
<1>5. ASSUME NEW f \in AskFingerprints, Ask(h, f) PROVE Goal
  BY <1>5, AskEvent
<1>6. CASE event'[h] = event[h] /\ i \in DOMAIN rows
  <2>1. /\ SameIncident(rows'[i], rows[i])
        /\ Apart(h, event[h], pc[h], i, rows[i])
    BY <1>1, <1>6, RowsKeepIdentity DEF SameIncident
  <2>2. ASSUME pc'[h] = "create", pc[h] # "create"
        PROVE  event[h].kind = "firing" /\ rows[i].start_time # event[h].start
    <3>1. FiringIsNew(h)
      <4>1. ASSUME NEW g \in Handlers, RequestStep(g) PROVE FiringIsNew(h)
        BY <1>2, <2>2, <4>1 DEF RequestStep, LetsGo, Announces, SavesStarted, Submits, Closes, Opens, Finds, Begins
      <4>2. ASSUME NEW t \in Threads, t # h, Alone(t) PROVE FALSE
        BY <1>3, <2>2, <4>2 DEF Alone
      <4>3. ASSUME NEW w \in Workers, NEW j \in Incidents, Begins(w, j) PROVE FALSE
        <5>1. w # h /\ w \in Threads
          BY OrchestratorAssumption DEF Threads
        <5> QED BY <4>2, <4>3, <5>1 DEF Begins
      <4>4. ASSUME NEW t \in Threads, LetsGo(t) \/ RunMoves(t) PROVE FALSE
        BY <2>2, <4>2, <4>4 DEF LetsGo, RunMoves, RunGoes
      <4>5. ASSUME NEW g \in Handlers, NEW f \in AlertFingerprints, Delivery(g, f) PROVE FALSE
        BY <1>2, <2>2, <4>5, DeliveryEvent
      <4>6. ASSUME NEW g \in Handlers, NEW f \in AskFingerprints, Ask(g, f) PROVE FALSE
        BY <1>2, <1>6, <4>6, AskEvent
      <4>7. CASE Crash \/ UNCHANGED vars \/ \E f \in AlertFingerprints : AlertChanges(f)
        BY <1>3, <2>2, <4>7 DEF Crash, vars, AlertChanges
      <4> QED BY EpisodeSteps, <4>1, <4>3, <4>4, <4>5, <4>6, <4>7 DEF EpisodeStep, OtherStep
    <3>2. event[h].kind = "firing" /\ GetActive(rows, event[h].fp) = {}
      BY <3>1 DEF FiringIsNew
    <3>3. ASSUME rows[i].start_time = event[h].start PROVE FALSE
      <4>1. rows[i].status # "RESOLVED"
        BY <2>1, <3>2, <3>3 DEF Apart
      <4>2. \A j \in DOMAIN rows :
               rows[j].alert_fingerprint = event[h].fp => rows[j].start_time <= rows[i].start_time
        BY <1>1, <1>6, <3>3 DEF Apart
      <4> QED BY <1>6, <2>1, <3>2, <4>1, <4>2, LookupFinds DEF SameIncident, TypeOK
    <3> QED BY <3>2, <3>3
  <2>3. ASSUME event[h].kind = "firing", rows[i].start_time = event[h].start
        PROVE  /\ rows'[i].status # "RESOLVED"
               /\ \A t \in Threads : Holds(t, i)' => copy'[t].status # "RESOLVED"
    <3>1. rows[i].status # "RESOLVED" /\ \A t \in Threads : Holds(t, i) => copy[t].status # "RESOLVED"
      BY <2>1, <2>3 DEF Apart
    <3>2. rows'[i].status # "RESOLVED"
      <4>1. ASSUME NEW t \in Threads, SavesCopy(t) PROVE rows'[i].status # "RESOLVED"
        BY <1>6, <3>1, <4>1, SaveRow DEF SavesCopy, Holds
      <4>2. ASSUME NEW g \in Handlers, NEW j \in Incidents, Opens(g, j) PROVE rows'[i].status # "RESOLVED"
        BY <1>6, <3>1, <4>2 DEF Opens
      <4> QED BY <3>1, <4>1, <4>2, RowsChange
    <3>3. ASSUME NEW t \in Threads, Holds(t, i)', copy'[t].status = "RESOLVED" PROVE FALSE
      <4>1. copy'[t] # NoIncident /\ copy'[t].incident_id = i
        BY <3>3 DEF Holds
      <4>2. ~(t \in Handlers /\ event[t].kind = "resolved")
        BY <1>2, <2>3
      <4> QED BY <1>3, <3>1, <3>3, <4>1, <4>2, ClosedCopies DEF SameIncident, Holds
    <3> QED BY <3>2, <3>3
  <2> QED BY <1>6, <2>1, <2>2, <2>3 DEF Apart, SameIncident
<1>7. CASE event'[h] = event[h] /\ i \notin DOMAIN rows
  <2>1. PICK j \in Incidents : Opens(h, j)
    BY <1>2, <1>7, RowsChange, SaveRow DEF SavesCopy
  <2>2. i = j
    BY <1>7, <2>1 DEF Opens
  <2>3. /\ rows'[i].start_time = event[h].start /\ rows'[i].status = "ALERT_RECEIVED"
        /\ copy'[h].status = "INVESTIGATION_STARTED" /\ event[h] \in Event
    <3>1. event[h] \in Event
      BY <2>1, OpensEvent
    <3>2. /\ rows'[j].start_time = event[h].start /\ rows'[j].status = "ALERT_RECEIVED"
          /\ copy'[h].status = "INVESTIGATION_STARTED"
      BY <2>1, OpensRow
    <3> QED BY <2>2, <3>1, <3>2
  <2>4. pc'[h] = "announce" /\ \A t \in Threads \ {h} : copy'[t] = copy[t]
    BY <2>1 DEF Opens, Alone
  <2>5. \A t \in Threads : Holds(t, i)' => copy'[t].status # "RESOLVED"
    BY <1>7, <2>3, <2>4 DEF Holds, HeldRowsExist
  <2> QED BY <1>7, <2>3, <2>4, <2>5 DEF Apart, Event
<1> QED BY <1>4, <1>5, <1>6, <1>7, RequestsKeepAlert

\* An episode that has an incident gets no second one.
LEMMA OneIncidentStep ==
    ASSUME TypeOK, HeldRowsExist, CopyMatchesPc, WorkFits, CopiesIdentify,
           Serial => EpisodesApart, OneIncidentPerEpisode, [OpenNext]_vars
    PROVE  OneIncidentPerEpisode'
<1> SUFFICES ASSUME Serial,
                    NEW i \in DOMAIN rows', NEW j \in DOMAIN rows',
                    rows'[i].alert_fingerprint = rows'[j].alert_fingerprint,
                    rows'[i].start_time = rows'[j].start_time,
                    i # j
             PROVE  FALSE
  BY DEF OneIncidentPerEpisode, Serial
<1>1. ASSUME NEW h \in Handlers, NEW k \in Incidents, Opens(h, k), NEW l \in DOMAIN rows,
             rows'[k].alert_fingerprint = rows[l].alert_fingerprint,
             rows'[k].start_time = rows[l].start_time
      PROVE  FALSE
  <2>0. Opens(h, k)
    BY <1>1
  <2>1. /\ event[h] # NoEvent
        /\ rows'[k].alert_fingerprint = event[h].fp
        /\ rows'[k].start_time = event[h].start
    <3>1. event[h] # NoEvent
      BY <2>0, OpensEvent
    <3>2. rows'[k].alert_fingerprint = event[h].fp /\ rows'[k].start_time = event[h].start
      BY <2>0 DEF Opens, NewIncident
    <3> QED BY <3>1, <3>2
  <2>2. pc[h] = "create"
    BY <1>1 DEF Opens
  <2> QED BY <1>1, <2>1, <2>2 DEF EpisodesApart
<1>2. CASE i \in DOMAIN rows /\ j \in DOMAIN rows
  BY <1>2, RowsKeepIdentity DEF OneIncidentPerEpisode, SameIncident
<1>3. CASE i \notin DOMAIN rows \/ j \notin DOMAIN rows
  <2>1. PICK h \in Handlers, k \in Incidents : Opens(h, k)
    BY <1>3, RowsChange, SaveRow DEF SavesCopy
  <2>2. \/ i = k /\ j \in DOMAIN rows /\ rows'[j] = rows[j]
        \/ j = k /\ i \in DOMAIN rows /\ rows'[i] = rows[i]
    BY <1>3, <2>1 DEF Opens
  <2> QED BY <1>1, <2>1, <2>2
<1> QED BY <1>2, <1>3

-----------------------------------------------------------------------------
(* What Slack is told.                                                     *)

\* A thread that has an incident after the step has come by it in one of these ways.
LEMMA HolderSteps ==
    ASSUME TypeOK, HeldRowsExist, CopyMatchesPc, [OpenNext]_vars,
           NEW t \in Threads, copy'[t] # NoIncident
    PROVE  \/ pc'[t] = pc[t] /\ copy'[t] = copy[t]
           \/ /\ t \in Handlers
              /\ \/ Announces(t) \/ SavesStarted(t) \/ Closes(t)
                 \/ \E i \in Incidents : Opens(t, i) \/ Finds(t, i)
           \/ \E i \in Incidents : Begins(t, i)
           \/ RunMoves(t) /\ RunPosts(t)
<1> DEFINE Came ==
           \/ pc'[t] = pc[t] /\ copy'[t] = copy[t]
           \/ /\ t \in Handlers
              /\ \/ Announces(t) \/ SavesStarted(t) \/ Closes(t)
                 \/ \E i \in Incidents : Opens(t, i) \/ Finds(t, i)
           \/ \E i \in Incidents : Begins(t, i)
           \/ RunMoves(t) /\ RunPosts(t)
<1>1. ASSUME NEW s \in Threads, Alone(s), s # t PROVE Came
  BY <1>1 DEF Alone
<1>2. ASSUME NEW h \in Handlers, NEW f, Delivery(h, f) \/ Ask(h, f) PROVE Came
  <2>1. /\ copy' = copy /\ copy[h] = NoIncident
        /\ \A s \in Threads \ {h} : pc'[s] = pc[s]
    BY <1>2 DEF Delivery, Receive, Ask, Goto, TypeOK, Threads, CopyMatchesPc, CopyFits
  <2> QED BY <2>1
<1>3. ASSUME NEW h \in Handlers, RequestStep(h) PROVE Came
  <2>0. h \in Threads
    BY DEF Threads
  <2>1. CASE FiringIsNew(h)
    <3>1. /\ copy' = copy /\ copy[h] = NoIncident
          /\ \A s \in Threads \ {h} : pc'[s] = pc[s]
      BY <2>0, <2>1 DEF FiringIsNew, Goto, TypeOK, CopyMatchesPc, CopyFits
    <3> QED BY <3>1
  <2>2. CASE LetsGo(h) \/ Submits(h)
    BY <1>1, <2>0, <2>2 DEF LetsGo, Submits
  <2>3. CASE Announces(h) \/ SavesStarted(h) \/ Closes(h)
    BY <1>1, <2>0, <2>3 DEF Announces, SavesStarted, Closes
  <2>4. ASSUME NEW i \in Incidents, Opens(h, i) \/ Finds(h, i) \/ Begins(h, i) PROVE Came
    <3>1. Alone(h)
      BY <2>4 DEF Opens, Finds, Begins
    <3>2. CASE h = t
      BY <2>4, <3>2
    <3> QED BY <1>1, <2>0, <3>1, <3>2
  <2> QED BY <1>3, <2>1, <2>2, <2>3, <2>4 DEF RequestStep
<1>4. ASSUME NEW w \in Workers, NEW i \in Incidents, Begins(w, i) PROVE Came
  <2>1. Alone(w) /\ w \in Threads
    BY <1>4 DEF Begins, Threads
  <2> QED BY <1>1, <1>4, <2>1
<1>5. ASSUME NEW s \in Threads, LetsGo(s) \/ (RunMoves(s) /\ RunPosts(s)) PROVE Came
  <2>1. Alone(s) /\ (LetsGo(s) => copy'[s] = NoIncident)
    BY <1>5 DEF LetsGo, RunMoves
  <2> QED BY <1>1, <1>5, <2>1
<1>6. CASE Crash
  BY <1>6 DEF Crash
<1>7. CASE UNCHANGED vars \/ \E f \in AlertFingerprints : AlertChanges(f)
  BY <1>7 DEF vars, AlertChanges
<1> HIDE DEF Came
<1> QED BY EpisodeSteps, <1>2, <1>3, <1>4, <1>5, <1>6, <1>7 DEF EpisodeStep, OtherStep, Came

\* An incident gets into the queue when its creator submits it.
LEMMA QueueChange ==
    ASSUME TypeOK, HeldRowsExist, CopyMatchesPc, [OpenNext]_vars, NEW i, Queued(i)'
    PROVE  Queued(i) \/ \E h \in Handlers : Submits(h) /\ copy[h].incident_id = i
<1> DEFINE Goal == Queued(i) \/ \E h \in Handlers : Submits(h) /\ copy[h].incident_id = i
<1>0. queue \in Seq(Incidents)
  BY DEF TypeOK
<1>1. CASE queue' = queue
  BY <1>1 DEF Queued
<1>2. ASSUME NEW h \in Handlers, Submits(h) PROVE Goal
  <2>1. copy[h].incident_id \in Incidents
    BY <1>2, HoldersHold DEF Submits, CreatorPcs, Threads, Incident
  <2> QED BY <1>0, <1>2, <2>1, AppendQueue DEF Submits, Queued
<1>3. ASSUME NEW t \in Threads, NEW j \in Incidents, Begins(t, j) PROVE Goal
  BY <1>0, <1>1, <1>3, TailQueue DEF Begins, Queued
<1>4. CASE Crash
  BY <1>4 DEF Crash, Queued
<1>5. ASSUME NEW h \in Handlers, RequestStep(h) PROVE Goal
  <2>1. ~Submits(h) /\ (\A j \in Incidents : ~Begins(h, j)) => queue' = queue
    BY <1>5 DEF RequestStep, FiringIsNew, LetsGo, Announces, SavesStarted, Closes, Opens, Finds
  <2> QED BY <1>1, <1>2, <1>3, <2>1 DEF Threads
<1>6. CASE \/ UNCHANGED vars
           \/ \E f \in AlertFingerprints : AlertChanges(f)
           \/ \E h \in Handlers, f \in AlertFingerprints : Delivery(h, f)
           \/ \E h \in Handlers, f \in AskFingerprints : Ask(h, f)
           \/ \E t \in Threads : LetsGo(t) \/ RunMoves(t)
  BY <1>1, <1>6 DEF vars, AlertChanges, Delivery, Receive, Ask, LetsGo, RunMoves
<1> QED BY EpisodeSteps, <1>3, <1>4, <1>5, <1>6 DEF EpisodeStep, OtherStep, Threads

\* A post says again where the incident is discussed, starts the discussion, or, having no
\* thread to post in, adds a message of its own, of which the agent may never learn.
Repeats(t) ==
    /\ copy[t] # NoIncident /\ copy[t].slack_thread_ts # None
    /\ \E kind \in {"started", "rca", "timeout", "resolution"} :
          slack' = slack \cup {Message(t, kind, copy[t].slack_thread_ts)}
Starts(t) ==
    /\ t \in Handlers /\ Announces(t) /\ copy'[t].slack_thread_ts = "parent"
    /\ slack' = slack \cup {Message(t, "started", "parent")}
Adds(t) ==
    /\ RunMoves(t) /\ copy[t] # NoIncident /\ copy[t].slack_thread_ts = None
    /\ pc[t] \in {"postRca", "postTimeout"}
    /\ copy'[t] # NoIncident => copy'[t].slack_thread_ts = "standalone"
    /\ \E kind \in {"rca", "timeout"} :
          slack' = slack \cup {Message(t, kind, "standalone")}
Loses(t) ==
    /\ copy[t] # NoIncident /\ copy[t].slack_thread_ts = None /\ pc'[t] # pc[t]
    /\ \/ /\ pc[t] = "announce"
          /\ slack' = slack \cup {Message(t, "started", "lost")}
       \/ /\ pc[t] \in {"postRca", "postTimeout"}
          /\ \E kind \in {"rca", "timeout"} :
                slack' = slack \cup {Message(t, kind, "lost")}

\* The four kinds of post.
Posts(t) == Repeats(t) \/ Starts(t) \/ Adds(t) \/ Loses(t)

\* A post without an answer repeats, is lost, or was not made at all.
LEMMA UnansweredPosts ==
    ASSUME TypeOK, NEW t \in Threads, pc'[t] # pc[t],
           \/ pc[t] = "announce" /\ slack' \in Unanswered(t, "started")
           \/ pc[t] = "postRca" /\ slack' \in Unanswered(t, "rca")
    PROVE  slack' = slack \/ Posts(t)
<1>1. copy[t] \in Incident /\ copy[t] # NoIncident
  BY HoldersHold DEF CreatorPcs, RunnerPcs
<1> QED BY <1>1 DEF Unanswered, Posts, Repeats, Loses

LEMMA SlackChange ==
    ASSUME TypeOK, HeldRowsExist, CopyMatchesPc, [OpenNext]_vars
    PROVE  slack' = slack \/ \E t \in Threads : Posts(t)
<1> DEFINE Goal == slack' = slack \/ \E t \in Threads : Posts(t)
<1>1. ASSUME NEW t \in Threads, LetsGo(t) PROVE Goal
  <2>1. CASE pc[t] = "postResolution"
    <3>1. copy[t] # NoIncident /\ copy[t].slack_thread_ts # None
      BY <2>1, HoldersHold DEF ResolverPcs, CopyMatchesPc, CopyFits
    <3> QED BY <1>1, <2>1, <3>1 DEF LetsGo, Repeats, Posts
  <2>2. CASE pc[t] \in {"announce", "postRca"}
    <3>1. pc'[t] # pc[t]
      BY <1>1, <2>2 DEF LetsGo
    <3> QED BY <1>1, <2>2, <3>1, UnansweredPosts DEF LetsGo
  <2> QED BY <1>1, <2>1, <2>2 DEF LetsGo
<1>2. ASSUME NEW t \in Threads, RunMoves(t), RunPosts(t) PROVE Goal
  <2>1. copy[t] # NoIncident
    BY <1>2, HoldersHold DEF RunMoves
  <2>2. pc[t] \in {"postRca", "postTimeout"} => pc'[t] # pc[t]
    BY <1>2 DEF RunMoves, RunGoes
  <2> QED BY <1>2, <2>1, <2>2 DEF RunPosts, Posts, Repeats, Adds, Loses
<1>3. ASSUME NEW h \in Handlers, Announces(h) PROVE Goal
  <2>1. h \in Threads /\ copy[h] \in Incident
    BY <1>3, HoldersHold DEF Announces, CreatorPcs, Threads
  <2>2. \/ slack' \in Unanswered(h, "started")
        \/ copy'[h].slack_thread_ts = "parent" /\ slack' = slack \cup {Message(h, "started", "parent")}
    BY <1>3, <2>1 DEF Announces, Incident
  <2>3. pc[h] = "announce" /\ pc'[h] # pc[h]
    BY <1>3 DEF Announces
  <2> QED BY <1>3, <2>1, <2>2, <2>3, UnansweredPosts DEF Starts, Posts
<1>4. ASSUME NEW h \in Handlers, RequestStep(h) PROVE Goal
  <2>1. ~LetsGo(h) /\ ~Announces(h) => slack' = slack
    BY <1>4 DEF RequestStep, FiringIsNew, SavesStarted, Submits, Closes, Opens, Finds, Begins
  <2> QED BY <1>1, <1>3, <2>1 DEF Threads
<1>5. CASE \/ UNCHANGED vars \/ Crash
           \/ \E f \in AlertFingerprints : AlertChanges(f)
           \/ \E h \in Handlers, f \in AlertFingerprints : Delivery(h, f)
           \/ \E h \in Handlers, f \in AskFingerprints : Ask(h, f)
           \/ \E w \in Workers, i \in Incidents : Begins(w, i)
  BY <1>5 DEF vars, Crash, AlertChanges, Delivery, Receive, Ask, Begins
<1> HIDE DEF Goal
<1> QED BY EpisodeSteps, <1>1, <1>2, <1>4, <1>5 DEF EpisodeStep, OtherStep, Goal

\* What is said of an incident, and by whom it is said first.
LEMMA ToldChange ==
    ASSUME IndInv, ParentsKept, [OpenNext]_vars
    PROVE  /\ \A i, thread : Told(i, thread) => Told(i, thread)'
           /\ \A i : Told(i, "parent")' =>
                 Told(i, "parent") \/ \E h \in Handlers : Starts(h) /\ copy[h].incident_id = i
           /\ \A m \in slack' \ slack :
                 \/ m.thread # "lost" /\ Told(m.id, m.thread)
                 \/ \E t \in Threads :
                       /\ m.id = copy[t].incident_id
                       /\ \/ Starts(t) /\ m.thread = "parent"
                          \/ Adds(t) /\ m.thread = "standalone" /\ m.kind \in {"rca", "timeout"}
                          \/ /\ Loses(t) /\ m.thread = "lost"
                             /\ Orphan(m) \/ (/\ pc[t] \in {"postRca", "postTimeout"}
                                              /\ m.kind \in {"rca", "timeout"})
           /\ \A m, n \in slack' \ slack : m = n
<1>0. TypeOK /\ HeldRowsExist /\ CopyMatchesPc
  BY DEF IndInv
<1>1. \A i, thread : Told(i, thread) => Told(i, thread)'
  <2>1. slack \subseteq slack'
    BY <1>0, SlackChange DEF Posts, Repeats, Starts, Adds, Loses
  <2> QED BY <2>1 DEF Told
<1>2. \A m, n \in slack' \ slack : m = n
  BY <1>0, SlackChange DEF Posts, Repeats, Starts, Adds, Loses
<1> DEFINE New(m, t) ==
       /\ m.id = copy[t].incident_id
       /\ \/ Starts(t) /\ m.thread = "parent"
          \/ Adds(t) /\ m.thread = "standalone" /\ m.kind \in {"rca", "timeout"}
          \/ /\ Loses(t) /\ m.thread = "lost"
             /\ Orphan(m) \/ (/\ pc[t] \in {"postRca", "postTimeout"}
                              /\ m.kind \in {"rca", "timeout"})
<1>3. ASSUME NEW m \in slack' \ slack
      PROVE  (m.thread # "lost" /\ Told(m.id, m.thread)) \/ \E t \in Threads : New(m, t)
  <2>1. ASSUME NEW t \in Threads, Repeats(t) PROVE m.thread # "lost" /\ Told(m.id, m.thread)
    <3>1. m.id = copy[t].incident_id /\ m.thread = copy[t].slack_thread_ts
      BY <1>3, <2>1 DEF Repeats, Message
    <3>2. copy[t] \in Incident
      BY <1>0, <2>1, IncidentFields DEF Repeats
    <3> QED BY <2>1, <3>1, <3>2 DEF Repeats, ParentsKept, Incident, None
  <2>2. ASSUME NEW t \in Threads, Starts(t) PROVE New(m, t)
    BY <1>3, <2>2 DEF Starts, Message
  <2>3. ASSUME NEW t \in Threads, Adds(t) PROVE New(m, t)
    BY <1>3, <2>3 DEF Adds, Message
  <2>4. ASSUME NEW t \in Threads, Loses(t) PROVE New(m, t)
    BY <1>3, <2>4 DEF Loses, Message, Orphan
  <2> HIDE DEF New
  <2> QED BY <1>0, SlackChange, <2>1, <2>2, <2>3, <2>4 DEF Posts
<1>4. ASSUME NEW i, Told(i, "parent")', ~Told(i, "parent")
      PROVE  \E h \in Handlers : Starts(h) /\ copy[h].incident_id = i
  <2>1. PICK m \in slack' \ slack : m.id = i /\ m.thread = "parent"
    BY <1>4 DEF Told
  <2> QED BY <1>3, <1>4, <2>1 DEF Starts
<1> QED BY <1>1, <1>2, <1>3, <1>4

\* Where a thread has the Slack thread of its incident from.
LEMMA CopyThreads ==
    ASSUME TypeOK, HeldRowsExist, CopyMatchesPc, [OpenNext]_vars,
           NEW t \in Threads, copy'[t] # NoIncident, copy'[t].slack_thread_ts # None
    PROVE  \/ /\ copy[t] # NoIncident /\ copy'[t].incident_id = copy[t].incident_id
              /\ copy'[t].slack_thread_ts = copy[t].slack_thread_ts
           \/ \E i \in DOMAIN rows : /\ copy'[t].incident_id = i
                                     /\ copy'[t].slack_thread_ts = rows[i].slack_thread_ts
           \/ /\ Starts(t) \/ Adds(t)
              /\ copy[t] # NoIncident /\ copy'[t].incident_id = copy[t].incident_id
              /\ Told(copy[t].incident_id, copy[t].slack_thread_ts)'
<1> DEFINE Goal ==
           \/ /\ copy[t] # NoIncident /\ copy'[t].incident_id = copy[t].incident_id
              /\ copy'[t].slack_thread_ts = copy[t].slack_thread_ts
           \/ \E i \in DOMAIN rows : /\ copy'[t].incident_id = i
                                     /\ copy'[t].slack_thread_ts = rows[i].slack_thread_ts
           \/ /\ Starts(t) \/ Adds(t)
              /\ copy[t] # NoIncident /\ copy'[t].incident_id = copy[t].incident_id
              /\ Told(copy[t].incident_id, copy[t].slack_thread_ts)'
<1>0. SUFFICES Goal
  OBVIOUS
<1>1. ASSUME copy'[t] = copy[t] PROVE Goal
  BY <1>1
<1>m. ASSUME NEW kind, NEW thread, Message(t, kind, thread) \in slack', Starts(t) \/ Adds(t),
             copy[t] # NoIncident,
             copy'[t].incident_id = copy[t].incident_id, copy'[t].slack_thread_ts = thread
      PROVE  Goal
  <2>1. Message(t, kind, thread).id = copy[t].incident_id /\ Message(t, kind, thread).thread = thread
    BY DEF Message
  <2>2. Told(copy[t].incident_id, copy[t].slack_thread_ts)'
    BY <1>m, <2>1 DEF Told
  <2> QED BY <1>m, <2>2
<1>2. CASE t \in Handlers /\ Announces(t)
  <2>1. copy[t] \in Incident /\ copy[t] # NoIncident
    BY <1>2, HoldersHold DEF Announces, CreatorPcs
  <2>2. copy'[t] # copy[t] =>
          /\ copy'[t].incident_id = copy[t].incident_id /\ copy'[t].slack_thread_ts = "parent"
          /\ Message(t, "started", "parent") \in slack' /\ Starts(t)
    BY <1>2, <2>1 DEF Announces, Incident, Starts
  <2> QED BY <1>1, <1>m, <2>1, <2>2
<1>3. CASE t \in Handlers /\ (SavesStarted(t) \/ Closes(t))
  BY <1>1, <1>3 DEF SavesStarted, Closes
<1>4. ASSUME NEW i \in Incidents, t \in Handlers, Opens(t, i) PROVE Goal
  BY <1>4, OpensRow
<1>5. ASSUME NEW i \in Incidents, Finds(t, i) \/ Begins(t, i) PROVE Goal
  <2>1. i \in DOMAIN rows /\ rows[i] \in Incident /\ rows[i].incident_id = i
    BY <1>5, IncidentFields DEF Finds, Begins
  <2>2. copy'[t].incident_id = i /\ copy'[t].slack_thread_ts = rows[i].slack_thread_ts
    BY <1>5, <2>1 DEF Finds, Begins, Incident
  <2> QED BY <2>1, <2>2
<1>6. CASE RunMoves(t) /\ RunPosts(t)
  <2>1. copy[t] # NoIncident /\ copy'[t].incident_id = copy[t].incident_id
    BY <1>6, HoldersHold DEF RunMoves, SameIncident
  <2>2. \/ copy'[t].slack_thread_ts = copy[t].slack_thread_ts
        \/ /\ copy'[t].slack_thread_ts = "standalone"
           /\ Adds(t) /\ \E kind \in {"rca", "timeout"} : Message(t, kind, "standalone") \in slack'
    BY <1>6, <2>1 DEF RunPosts, Adds
  <2> QED BY <1>m, <2>1, <2>2
<1> HIDE DEF Goal
<1>7. \/ copy'[t] = copy[t]
      \/ /\ t \in Handlers
         /\ \/ Announces(t) \/ SavesStarted(t) \/ Closes(t)
            \/ \E i \in Incidents : Opens(t, i) \/ Finds(t, i)
      \/ \E i \in Incidents : Begins(t, i)
      \/ RunMoves(t) /\ RunPosts(t)
  BY HolderSteps
<1> QED BY <1>1, <1>2, <1>3, <1>4, <1>5, <1>6, <1>7

\* The parts of ParentsKept about one thread and about one incident with a parent.
KeepsParent(label, inc, row, queued) ==
    /\ label \in {"saveStarted", "submit", "load"} \cup RunnerPcs => inc.slack_thread_ts = "parent"
    /\ label \in {"submit", "load"} => row.slack_thread_ts = "parent"
    /\ label = "saveResolved" /\ queued => inc.slack_thread_ts = "parent"

\* A saved copy keeps the parent, unless it closes the incident.
LEMMA SaveKeepsParent ==
    ASSUME TypeOK, HeldRowsExist, ParentsKept, NEW t \in Threads, SavesCopy(t),
           NEW i, copy[t].incident_id = i, Told(i, "parent")
    PROVE  /\ pc[t] # "saveResolved" => copy[t].slack_thread_ts = "parent"
           /\ pc[t] = "saveResolved" /\ Queued(i) => copy[t].slack_thread_ts = "parent"
<1>1. copy[t] # NoIncident /\ i \in DOMAIN rows /\ Holds(t, i)
  BY DEF SavesCopy, Holds
<1>2. pc[t] # "saveResolved" => pc[t] \in {"saveStarted"} \cup RunnerPcs
  BY DEF SavesCopy, RunSaves, RunnerPcs
<1> QED BY <1>1, <1>2 DEF ParentsKept

\* Once an incident has been announced, its parent is not lost before its run has read it.
LEMMA ParentsStep ==
    ASSUME IndInv, WorkFits, Serial, ParentsKept, [OpenNext]_vars,
           NEW i \in DOMAIN rows', Told(i, "parent")'
    PROVE  /\ Queued(i)' => rows'[i].slack_thread_ts = "parent"
           /\ \A t \in Threads : Holds(t, i)' =>
                 KeepsParent(pc'[t], copy'[t], rows'[i], Queued(i)')
<1>0. /\ TypeOK /\ HeldRowsExist /\ CopyMatchesPc /\ SingleOwner
      /\ \A g, h \in Handlers : g = h
      /\ Handlers \subseteq Threads
  BY DEF IndInv, Serial, Threads
<1>1. ASSUME NEW h \in Handlers, Starts(h), copy[h].incident_id = i
      PROVE  /\ Queued(i)' => rows'[i].slack_thread_ts = "parent"
             /\ \A t \in Threads : Holds(t, i)' =>
                   KeepsParent(pc'[t], copy'[t], rows'[i], Queued(i)')
  <2>1. /\ pc[h] = "announce" /\ pc'[h] = "saveStarted" /\ copy'[h].slack_thread_ts = "parent"
        /\ rows' = rows /\ queue' = queue
        /\ \A s \in Threads \ {h} : pc'[s] = pc[s] /\ copy'[s] = copy[s]
    BY <1>1 DEF Starts, Announces, Alone
  <2>2. ~Queued(i)'
    BY <1>0, <1>1, <2>1 DEF Queued, SingleOwner, Owns, CreatorPcs
  <2>3. ASSUME NEW t \in Threads, Holds(t, i)' PROVE KeepsParent(pc'[t], copy'[t], rows'[i], Queued(i)')
    <3>1. CASE t = h
      BY <2>1, <2>2, <3>1 DEF KeepsParent, RunnerPcs
    <3>2. CASE t # h
      <4>1. copy[t].incident_id = i /\ pc'[t] = pc[t]
        BY <2>1, <2>3, <3>2 DEF Holds
      <4>2. ~Owns(t)
        BY <1>0, <1>1, <2>1, <3>2, <4>1 DEF SingleOwner, Owns, CreatorPcs
      <4> QED BY <2>2, <4>1, <4>2 DEF KeepsParent, Owns, CreatorPcs
    <3> QED BY <3>1, <3>2
  <2> QED BY <2>2, <2>3
<1>2. CASE Told(i, "parent")
  <2>1. /\ i \in DOMAIN rows
        /\ Queued(i) => rows[i].slack_thread_ts = "parent"
        /\ \A t \in Threads : Holds(t, i) => KeepsParent(pc[t], copy[t], rows[i], Queued(i))
    <3>1. i \in DOMAIN rows
      BY <1>2 DEF ParentsKept, Told
    <3> QED BY <1>2, <3>1 DEF ParentsKept, KeepsParent
  <2>2. \/ rows'[i] = rows[i]
        \/ \E s \in Threads : SavesCopy(s) /\ copy[s].incident_id = i /\ rows'[i] = copy[s]
    <3>1. ASSUME NEW s \in Threads, SavesCopy(s)
          PROVE  rows'[i] = rows[i] \/ (copy[s].incident_id = i /\ rows'[i] = copy[s])
      BY <2>1, <3>1, SaveRow DEF SavesCopy
    <3> QED BY <1>0, <2>1, <3>1, RowsChange DEF Opens
  <2>3. Queued(i)' => rows'[i].slack_thread_ts = "parent"
    <3>1. CASE Queued(i)
      BY <1>0, <1>2, <2>1, <2>2, <3>1, SaveKeepsParent
    <3>2. ASSUME NEW h \in Handlers, Submits(h), copy[h].incident_id = i
          PROVE  rows'[i].slack_thread_ts = "parent"
      <4>1. pc[h] = "submit" /\ rows' = rows
        BY <3>2 DEF Submits
      <4>2. Holds(h, i)
        BY <1>0, <3>2, <4>1, HoldersHold DEF Holds, CreatorPcs
      <4> QED BY <1>0, <2>1, <4>1, <4>2 DEF KeepsParent
    <3> QED BY <1>0, <3>1, <3>2, QueueChange
  <2>4. ASSUME NEW t \in Threads, Holds(t, i)' PROVE KeepsParent(pc'[t], copy'[t], rows'[i], Queued(i)')
    <3>0. copy'[t] # NoIncident /\ copy'[t].incident_id = i
      BY <2>4 DEF Holds
    <3>1. CASE pc'[t] = pc[t] /\ copy'[t] = copy[t]
      <4>1. Holds(t, i) /\ KeepsParent(pc[t], copy[t], rows[i], Queued(i))
        BY <2>1, <3>0, <3>1 DEF Holds
      <4>2. ASSUME pc[t] \in {"submit", "load"} PROVE rows'[i].slack_thread_ts = "parent"
        <5>1. ASSUME NEW s \in Threads, SavesCopy(s), copy[s].incident_id = i, pc[s] = "saveResolved"
              PROVE  FALSE
          <6>1. s \in Handlers /\ t \in Handlers
            BY <4>2, <5>1 DEF WorkFits, Threads, RunnerPcs
          <6> QED BY <1>0, <4>2, <5>1, <6>1
        <5> QED BY <1>0, <1>2, <2>2, <4>1, <4>2, <5>1, SaveKeepsParent DEF KeepsParent
      <4>3. ASSUME pc[t] = "saveResolved", Queued(i)' PROVE copy[t].slack_thread_ts = "parent"
        <5>1. ASSUME NEW h \in Handlers, Submits(h) PROVE FALSE
          <6>1. t \in Handlers
            BY <4>3 DEF WorkFits, Threads, RunnerPcs
          <6>2. pc[h] = "submit" /\ pc'[h] = "idle"
            BY <5>1 DEF Submits
          <6> QED BY <1>0, <4>3, <6>1, <6>2
        <5> QED BY <1>0, <4>1, <4>3, <5>1, QueueChange DEF KeepsParent
      <4> QED BY <3>1, <4>1, <4>2, <4>3 DEF KeepsParent
    <3>2. CASE t \in Handlers /\ Announces(t)
      <4>1. copy[t].incident_id = i /\ pc[t] = "announce"
        <5>1. copy[t] \in Incident
          BY <1>0, <3>2, HoldersHold DEF Announces, CreatorPcs
        <5> QED BY <3>0, <3>2, <5>1 DEF Announces, Incident
      <4> QED BY <1>2, <4>1 DEF ParentsKept, Told
    <3>3. CASE t \in Handlers /\ SavesStarted(t)
      <4>1. pc[t] = "saveStarted" /\ copy'[t] = copy[t] /\ rows' = Save(rows, copy[t])
            /\ pc'[t] \in {"load", "submit"}
        BY <3>3 DEF SavesStarted
      <4>2. Holds(t, i) /\ rows'[i] = copy[t]
        BY <2>1, <3>0, <4>1, SaveRow DEF Holds
      <4>3. copy[t].slack_thread_ts = "parent"
        BY <2>1, <4>1, <4>2 DEF KeepsParent
      <4> QED BY <4>1, <4>2, <4>3 DEF KeepsParent
    <3>4. CASE t \in Handlers /\ Closes(t)
      <4>1. pc'[t] = "postResolution"
        BY <3>0, <3>4 DEF Closes
      <4> QED BY <4>1 DEF KeepsParent, RunnerPcs
    <3>5. ASSUME NEW j \in Incidents, t \in Handlers, Opens(t, j) PROVE FALSE
      BY <2>1, <3>0, <3>5, OpensRow
    <3>6. ASSUME NEW j \in Incidents, Finds(t, j) \/ Begins(t, j)
          PROVE  KeepsParent(pc'[t], copy'[t], rows'[i], Queued(i)')
      <4>1. j \in DOMAIN rows /\ rows[j] \in Incident /\ rows[j].incident_id = j
        BY <1>0, <3>6, IncidentFields DEF Finds, Begins
      <4>2. j = i /\ copy'[t].slack_thread_ts = rows[i].slack_thread_ts
        BY <3>0, <3>6, <4>1 DEF Finds, Begins, Incident
      <4>3. CASE Finds(t, j)
        <5>1. pc'[t] = "saveResolved" /\ (Queued(i)' => Queued(i))
          BY <4>3 DEF Finds, Queued
        <5> QED BY <2>1, <4>2, <5>1 DEF KeepsParent, RunnerPcs
      <4>4. CASE Begins(t, j)
        <5>1. rows[i].slack_thread_ts = "parent"
          <6>1. CASE pc[t] = "load"
            <7>1. Holds(t, i)
              BY <1>0, <4>2, <4>4, <6>1, OrchestratorAssumption, HoldersHold DEF Begins, Holds, CreatorPcs
            <7> QED BY <2>1, <6>1, <7>1 DEF KeepsParent
          <6>2. CASE pc[t] # "load"
            <7>1. queue \in Seq(Incidents) /\ queue # <<>> /\ i = queue[1]
              BY <1>0, <4>2, <4>4, <6>2 DEF Begins, TypeOK
            <7> QED BY <2>1, <7>1, TailQueue DEF Queued
          <6> QED BY <6>1, <6>2
        <5>2. pc'[t] = "saveCollecting"
          BY <4>4 DEF Begins
        <5> QED BY <4>2, <5>1, <5>2 DEF KeepsParent
      <4> QED BY <3>6, <4>3, <4>4
    <3>7. CASE RunMoves(t) /\ RunPosts(t)
      <4>1. pc[t] \in RunnerPcs /\ copy[t] # NoIncident /\ copy[t].incident_id = i /\ pc'[t] \in RunnerPcs
        BY <1>0, <3>0, <3>7, HoldersHold DEF RunMoves, SameIncident, RunGoes, RunnerPcs
      <4>2. copy[t].slack_thread_ts = "parent"
        BY <2>1, <4>1 DEF KeepsParent, Holds
      <4>3. copy'[t].slack_thread_ts = "parent"
        BY <3>0, <3>7, <4>2 DEF RunPosts, None
      <4> QED BY <4>1, <4>3 DEF KeepsParent, RunnerPcs
    <3> QED BY <1>0, <3>0, HolderSteps, <3>1, <3>2, <3>3, <3>4, <3>5, <3>6, <3>7
  <2> QED BY <2>3, <2>4
<1> QED BY <1>1, <1>2, ToldChange

\* Threads on record exist, and the parent stays on record until it is read.
LEMMA ParentsKeptStep ==
    ASSUME IndInv, WorkFits, Serial, ParentsKept, [OpenNext]_vars
    PROVE  ParentsKept'
<1>0. /\ TypeOK /\ HeldRowsExist /\ CopyMatchesPc /\ SingleOwner
      /\ \A i, thread : Told(i, thread) => Told(i, thread)'
  BY ToldChange DEF IndInv
<1>1. DOMAIN rows \subseteq DOMAIN rows'
  BY <1>0, RowsChange, SaveRow DEF SavesCopy, Opens
<1>2. \A t \in Threads : copy[t] # NoIncident => copy[t].incident_id \in DOMAIN rows
  BY <1>0 DEF HeldRowsExist
<1>3. ASSUME NEW m \in slack' PROVE m.id \in DOMAIN rows'
  <2>1. CASE m \in slack
    BY <1>1, <2>1 DEF ParentsKept
  <2>2. CASE Told(m.id, m.thread)
    BY <1>1, <2>2 DEF ParentsKept, Told
  <2>3. ASSUME NEW t \in Threads, Starts(t) \/ Adds(t) \/ Loses(t), m.id = copy[t].incident_id
        PROVE  m.id \in DOMAIN rows'
    <3>1. copy[t] # NoIncident
      BY <1>0, <2>3, HoldersHold DEF Starts, Adds, Loses, Announces, CreatorPcs
    <3> QED BY <1>1, <1>2, <2>3, <3>1
  <2> QED BY <2>1, <2>2, <2>3, ToldChange
<1>4. ASSUME NEW i \in DOMAIN rows', rows'[i].slack_thread_ts # None
      PROVE  Told(i, rows[i].slack_thread_ts)'
  <2>1. ASSUME NEW thread, rows'[i].slack_thread_ts = thread, Told(i, thread)
        PROVE  Told(i, rows[i].slack_thread_ts)'
    <3>1. Told(i, thread)'
      BY <1>0, <2>1
    <3> QED BY <2>1, <3>1 DEF Told
  <2>2. CASE i \in DOMAIN rows /\ rows'[i] = rows[i]
    BY <1>4, <2>1, <2>2 DEF ParentsKept
  <2>3. ASSUME NEW t \in Threads, SavesCopy(t), rows'[i] = copy[t], i = copy[t].incident_id
        PROVE  Told(i, rows[i].slack_thread_ts)'
    BY <1>4, <2>1, <2>3 DEF ParentsKept, SavesCopy
  <2>4. ASSUME NEW h \in Handlers, NEW j \in Incidents, Opens(h, j), i \notin DOMAIN rows
        PROVE  FALSE
    <3>1. i = j
      BY <2>4 DEF Opens
    <3>2. rows'[j].slack_thread_ts = None
      BY <2>4, OpensRow
    <3> QED BY <1>4, <3>1, <3>2
  <2>5. \/ i \in DOMAIN rows /\ rows'[i] = rows[i]
        \/ \E t \in Threads : SavesCopy(t) /\ rows'[i] = copy[t] /\ i = copy[t].incident_id
        \/ i \notin DOMAIN rows /\ \E h \in Handlers, j \in Incidents : Opens(h, j)
    <3>1. ASSUME NEW t \in Threads, SavesCopy(t)
          PROVE  i \in DOMAIN rows /\ (rows'[i] = rows[i] \/ (rows'[i] = copy[t] /\ i = copy[t].incident_id))
      BY <1>4, <3>1, SaveRow DEF SavesCopy
    <3>2. CASE rows' = rows
      BY <1>4, <3>2
    <3>3. ASSUME NEW h \in Handlers, NEW j \in Incidents, Opens(h, j), i \in DOMAIN rows
          PROVE  rows'[i] = rows[i]
      BY <3>3 DEF Opens
    <3> QED BY <1>0, RowsChange, <3>1, <3>2, <3>3
  <2> QED BY <2>2, <2>3, <2>4, <2>5
<1>5. ASSUME NEW t \in Threads, copy'[t] # NoIncident, copy'[t].slack_thread_ts # None
      PROVE  Told(copy[t].incident_id, copy[t].slack_thread_ts)'
  <2>1. ASSUME NEW i, NEW thread, copy'[t].incident_id = i, copy'[t].slack_thread_ts = thread, Told(i, thread)
        PROVE  Told(copy[t].incident_id, copy[t].slack_thread_ts)'
    <3>1. Told(i, thread)'
      BY <1>0, <2>1
    <3> QED BY <2>1, <3>1 DEF Told
  <2>2. CASE /\ copy[t] # NoIncident /\ copy'[t].incident_id = copy[t].incident_id
             /\ copy'[t].slack_thread_ts = copy[t].slack_thread_ts
    BY <1>5, <2>1, <2>2 DEF ParentsKept
  <2>3. ASSUME NEW i \in DOMAIN rows, copy'[t].incident_id = i,
               copy'[t].slack_thread_ts = rows[i].slack_thread_ts
        PROVE  Told(copy[t].incident_id, copy[t].slack_thread_ts)'
    BY <1>5, <2>1, <2>3 DEF ParentsKept
  <2> QED BY <1>0, <1>5, CopyThreads, <2>2, <2>3
<1>6. ASSUME NEW t \in Threads, NEW m \in slack', pc'[t] = "announce"
      PROVE  m.id # copy'[t].incident_id
  <2>0. copy'[t] # NoIncident
    <3>1. TypeOK'
      BY <1>0, TypeStep
    <3> QED BY <1>6, <3>1, PlaceholderAssumption DEF TypeOK, CreatorPcs
  <2>1. CASE pc[t] = "announce" /\ copy'[t] = copy[t] /\ pc'[t] = pc[t]
    <3>1. ASSUME Told(m.id, m.thread) PROVE m.id # copy[t].incident_id
      BY <2>1, <3>1 DEF ParentsKept, Told
    <3>2. ASSUME NEW s \in Threads, Starts(s) \/ Adds(s) \/ Loses(s)
          PROVE  copy[s].incident_id # copy[t].incident_id
      <4>1. Owns(s) /\ Owns(t) /\ s # t
        BY <2>1, <3>2 DEF Starts, Adds, Loses, Announces, RunMoves, Owns, CreatorPcs, RunnerPcs, RunGoes
      <4> QED BY <1>0, <4>1 DEF SingleOwner
    <3>3. m \in slack => m.id # copy[t].incident_id
      BY <2>1 DEF ParentsKept
    <3> QED BY <2>1, <3>1, <3>2, <3>3, ToldChange
  <2>2. ASSUME NEW i \in Incidents, t \in Handlers, Opens(t, i) PROVE m.id # copy'[t].incident_id
    <3>1. slack' = slack /\ i \notin DOMAIN rows
      BY <2>2 DEF Opens
    <3>2. copy'[t].incident_id = i
      BY <2>2, OpensRow
    <3> QED BY <3>1, <3>2 DEF ParentsKept
  <2>3. \/ pc'[t] = pc[t] /\ copy'[t] = copy[t]
        \/ t \in Handlers /\ \E i \in Incidents : Opens(t, i)
    <3>1. \/ pc'[t] = pc[t] /\ copy'[t] = copy[t]
          \/ /\ t \in Handlers
             /\ \/ Announces(t) \/ SavesStarted(t) \/ Closes(t)
                \/ \E i \in Incidents : Opens(t, i) \/ Finds(t, i)
          \/ \E i \in Incidents : Begins(t, i)
          \/ RunMoves(t) /\ RunPosts(t)
      BY <1>0, <2>0, HolderSteps
    <3> QED BY <1>6, <3>1 DEF Announces, SavesStarted, Closes, Finds, Begins, RunMoves, RunGoes
  <2> QED BY <1>6, <2>1, <2>2, <2>3
<1>7. ASSUME NEW i \in DOMAIN rows', Told(i, "parent")'
      PROVE  /\ Queued(i)' => rows'[i].slack_thread_ts = "parent"
             /\ \A t \in Threads : Holds(t, i)' =>
                   /\ pc'[t] \in {"saveStarted", "submit", "load"} \cup RunnerPcs =>
                         copy'[t].slack_thread_ts = "parent"
                   /\ pc'[t] \in {"submit", "load"} => rows'[i].slack_thread_ts = "parent"
                   /\ pc'[t] = "saveResolved" /\ Queued(i)' => copy'[t].slack_thread_ts = "parent"
  BY <1>7, ParentsStep DEF KeepsParent
<1> QED BY <1>3, <1>4, <1>5, <1>6, <1>7 DEF ParentsKept

\* Of an incident whose run is about to report it and knows no thread, Slack has been told
\* nothing yet, except in announcements that were lost.
LEMMA Unheard ==
    ASSUME IndInv, ParentsKept, VerdictsBegin,
           NEW t \in Threads, pc[t] \in {"postRca", "postTimeout"}, copy[t].slack_thread_ts = None,
           NEW m \in slack, m.id = copy[t].incident_id
    PROVE  Orphan(m)
<1>1. copy[t] # NoIncident /\ Owns(t) /\ pc[t] \in RunnerPcs
  BY HoldersHold DEF IndInv, Owns, RunnerPcs
<1>2. \A n \in slack : n.id = m.id => n.kind \notin {"rca", "timeout"}
  BY <1>1 DEF IndInv, VerdictIsLast
<1>3. m.thread # "standalone"
  BY <1>2 DEF VerdictsBegin
<1>4. m.thread # "parent"
  <2>1. m.id \in DOMAIN rows /\ Holds(t, m.id)
    BY <1>1 DEF ParentsKept, Holds
  <2>2. ~Told(m.id, "parent")
    BY <1>1, <2>1 DEF ParentsKept, None
  <2> QED BY <2>2 DEF Told
<1>5. m.thread = "lost"
  BY <1>3, <1>4 DEF IndInv, TypeOK, Messages
<1> QED BY <1>2, <1>5 DEF VerdictsBegin

\* An incident of which Slack knows only lost messages has no thread on record, and the
\* step that begins one starts it or adds to it.
LEMMA StaysUnknown ==
    ASSUME IndInv, ParentsKept, [OpenNext]_vars,
           NEW i \in DOMAIN rows, rows[i].slack_thread_ts = None,
           \A t \in Threads : Holds(t, i) => copy[t].slack_thread_ts = None,
           \A t \in Threads : Starts(t) \/ Adds(t) => copy[t].incident_id # i
    PROVE  /\ rows'[i].slack_thread_ts = None
           /\ \A t \in Threads : Holds(t, i)' => copy'[t].slack_thread_ts = None
<1>0. TypeOK /\ HeldRowsExist /\ CopyMatchesPc
  BY DEF IndInv
<1>1. rows'[i].slack_thread_ts = None
  <2>1. ASSUME NEW t \in Threads, SavesCopy(t) PROVE rows'[i].slack_thread_ts = None
    BY <2>1, SaveRow DEF SavesCopy, Holds
  <2> QED BY <1>0, <2>1, RowsChange DEF Opens
<1>2. ASSUME NEW t \in Threads, Holds(t, i)', copy'[t].slack_thread_ts # None PROVE FALSE
  <2>1. copy'[t] # NoIncident /\ copy'[t].incident_id = i
    BY <1>2 DEF Holds
  <2> QED BY <1>0, <1>2, <2>1, CopyThreads DEF Holds
<1> QED BY <1>1, <1>2

\* Only a verdict begins a thread of its own, and where its answer is lost the thread stays
\* unknown.
LEMMA VerdictsBeginStep ==
    ASSUME IndInv, ParentsKept, VerdictsBegin, [OpenNext]_vars
    PROVE  VerdictsBegin'
<1>0. /\ TypeOK /\ HeldRowsExist /\ CopyMatchesPc
      /\ \A i \in DOMAIN rows : rows[i] \in Incident
      /\ slack \subseteq slack'
  <2>1. TypeOK /\ HeldRowsExist /\ CopyMatchesPc
    BY DEF IndInv
  <2>2. slack \subseteq slack'
    BY <2>1, SlackChange DEF Posts, Repeats, Starts, Adds, Loses
  <2> QED BY <2>1, <2>2, IncidentFields
<1>1. ASSUME NEW m \in slack', m.thread = "standalone"
      PROVE  \E n \in slack' : n.id = m.id /\ n.kind \in {"rca", "timeout"}
  <2>1. CASE Told(m.id, "standalone")
    BY <1>0, <2>1 DEF VerdictsBegin, Told
  <2>2. CASE m \in slack
    BY <1>1, <2>1, <2>2 DEF Told
  <2>3. CASE m \notin slack
    <3>1. Told(m.id, "standalone") \/ m.kind \in {"rca", "timeout"}
      BY <1>1, <2>3, ToldChange
    <3> QED BY <2>1, <3>1
  <2> QED BY <2>2, <2>3
<1>2. ASSUME NEW m \in slack', m.thread = "lost", ~Orphan(m)
      PROVE  /\ m.kind \in {"rca", "timeout"}
             /\ rows'[m.id].slack_thread_ts = None
             /\ \A t \in Threads : Holds(t, m.id)' => copy'[t].slack_thread_ts = None
  <2> DEFINE Unknown(i) ==
         /\ i \in DOMAIN rows /\ rows[i].slack_thread_ts = None
         /\ \A t \in Threads : Holds(t, i) => copy[t].slack_thread_ts = None
         /\ \A t \in Threads : Starts(t) \/ Adds(t) => copy[t].incident_id # i
  <2>1. CASE m \in slack
    <3>1. /\ m.kind \in {"rca", "timeout"} /\ m.id \in DOMAIN rows /\ rows[m.id].slack_thread_ts = None
          /\ \A t \in Threads : Holds(t, m.id) => copy[t].slack_thread_ts = None
      BY <1>2, <2>1 DEF VerdictsBegin, ParentsKept
    <3>2. ASSUME NEW t \in Threads, Starts(t) PROVE copy[t].incident_id # m.id
      BY <2>1, <3>2 DEF Starts, Announces, ParentsKept
    <3>3. ASSUME NEW t \in Threads, Adds(t) PROVE copy[t].incident_id # m.id
      BY <1>2, <2>1, <3>3, Unheard DEF Adds
    <3> QED BY <3>1, <3>2, <3>3, StaysUnknown
  <2>2. CASE m \notin slack
    <3>1. PICK t \in Threads : /\ m.id = copy[t].incident_id /\ Loses(t)
                               /\ pc[t] \in {"postRca", "postTimeout"} /\ m.kind \in {"rca", "timeout"}
      BY <1>2, <2>2, ToldChange
    <3>2. copy[t] # NoIncident /\ copy[t].slack_thread_ts = None /\ m.id \in DOMAIN rows
      BY <1>0, <3>1 DEF Loses, HeldRowsExist
    <3>3. \A n \in slack : n.id = m.id => n.thread = "lost"
      BY <3>1, <3>2, Unheard DEF Orphan
    <3>4. rows[m.id].slack_thread_ts = None
      <4>1. ASSUME rows[m.id].slack_thread_ts # None PROVE FALSE
        <5>1. Told(m.id, rows[m.id].slack_thread_ts)
          BY <3>2, <4>1 DEF ParentsKept
        <5>2. rows[m.id].slack_thread_ts \in {None, "parent", "standalone"}
          BY <1>0, <3>2 DEF Incident
        <5> QED BY <3>3, <4>1, <5>1, <5>2 DEF Told
      <4> QED BY <4>1
    <3>5. ASSUME NEW s \in Threads, Holds(s, m.id), copy[s].slack_thread_ts # None PROVE FALSE
      <4>1. copy[s] # NoIncident /\ copy[s].incident_id = m.id
        BY <3>5 DEF Holds
      <4>2. Told(m.id, copy[s].slack_thread_ts)
        BY <3>5, <4>1 DEF ParentsKept
      <4>3. copy[s].slack_thread_ts \in {None, "parent", "standalone"}
        BY <1>0, <4>1, IncidentFields DEF Incident
      <4> QED BY <3>3, <3>5, <4>2, <4>3 DEF Told
    <3>6. ASSUME NEW s \in Threads, Starts(s) \/ Adds(s) PROVE FALSE
      <4>1. m.thread # "lost"
        BY <2>2, <3>6 DEF Starts, Adds, Message
      <4> QED BY <1>2, <4>1
    <3> QED BY <3>1, <3>2, <3>4, <3>5, <3>6, StaysUnknown
  <2> QED BY <2>1, <2>2
<1> QED BY <1>1, <1>2 DEF VerdictsBegin

\* A post goes to the thread the incident already has, if it has one.
LEMMA OneThreadStep ==
    ASSUME IndInv, Serial => ParentsKept /\ VerdictsBegin, OneThreadPerIncident, [OpenNext]_vars
    PROVE  OneThreadPerIncident'
<1> SUFFICES ASSUME Serial, NEW m \in slack', NEW n \in slack', m.id = n.id
             PROVE  m.thread = n.thread \/ Orphan(m) \/ Orphan(n)
  BY DEF OneThreadPerIncident, Serial, Orphan
<1>0. /\ ParentsKept /\ VerdictsBegin
      /\ \A k, l \in slack : k.id = l.id => k.thread = l.thread \/ Orphan(k) \/ Orphan(l)
  BY DEF OneThreadPerIncident
<1>1. ASSUME NEW k \in slack' \ slack, NEW l \in slack, k.id = l.id
      PROVE  k.thread = l.thread \/ Orphan(k) \/ Orphan(l)
  <2>1. CASE k.thread # "lost" /\ Told(k.id, k.thread)
    <3>1. PICK j \in slack : j.id = k.id /\ j.thread = k.thread
      BY <2>1 DEF Told
    <3>2. ~Orphan(j)
      BY <2>1, <3>1 DEF Orphan
    <3> QED BY <1>0, <1>1, <3>1, <3>2
  <2>2. ASSUME NEW t \in Threads, Starts(t), k.id = copy[t].incident_id PROVE FALSE
    BY <1>0, <1>1, <2>2 DEF Starts, Announces, ParentsKept
  <2>3. ASSUME NEW t \in Threads, Adds(t), k.id = copy[t].incident_id
        PROVE  Orphan(l)
    BY <1>0, <1>1, <2>3, Unheard DEF Adds
  <2>4. ASSUME NEW t \in Threads, Loses(t), k.id = copy[t].incident_id, pc[t] \in {"postRca", "postTimeout"}
        PROVE  Orphan(l)
    BY <1>0, <1>1, <2>4, Unheard DEF Loses
  <2> QED BY <1>0, <2>1, <2>2, <2>3, <2>4, ToldChange
<1>2. CASE m \in slack /\ n \in slack
  BY <1>0, <1>2
<1>3. CASE m \notin slack /\ n \notin slack
  BY <1>0, <1>3, ToldChange
<1> QED BY <1>1, <1>2, <1>3

-----------------------------------------------------------------------------
(* The inductive invariants, and what follows from them.                   *)

LEMMA ThreadInvInit == Init => ThreadInv
<1> SUFFICES ASSUME Init PROVE ThreadInv
  OBVIOUS
<1>1. DOMAIN rows = {} /\ slack = {} /\ queue = <<>>
  BY DEF Init, EmptyTable
<1>2. \A t \in Threads : pc[t] = "idle" /\ event[t] = NoEvent /\ copy[t] = NoIncident
  BY DEF Init
<1>3. Handlers \subseteq Threads /\ Workers \subseteq Threads
  BY DEF Threads
<1>4. WorkFits
  BY <1>2, <1>3 DEF WorkFits, RunnerPcs, ResolverPcs
<1>5. CopiesIdentify
  BY <1>1, <1>2, <1>3 DEF CopiesIdentify
<1>6. ParentsKept /\ VerdictsBegin
  BY <1>1, <1>2, <1>3 DEF ParentsKept, VerdictsBegin
<1> QED BY <1>4, <1>5, <1>6 DEF ThreadInv

LEMMA ThreadInvStep == IndInv /\ ThreadInv /\ [OpenNext]_vars => ThreadInv'
<1> SUFFICES ASSUME IndInv, ThreadInv, [OpenNext]_vars PROVE ThreadInv'
  OBVIOUS
<1>0. /\ TypeOK /\ HeldRowsExist /\ CopyMatchesPc
      /\ WorkFits /\ CopiesIdentify
      /\ Serial => ParentsKept /\ VerdictsBegin
  BY DEF IndInv, ThreadInv
<1>1. WorkFits' /\ CopiesIdentify'
  BY <1>0, WorkFitsStep, CopiesIdentifyStep
<1>2. ASSUME Serial PROVE ParentsKept' /\ VerdictsBegin'
  BY <1>0, <1>2, ParentsKeptStep, VerdictsBeginStep
<1>3. Serial' = Serial
  BY DEF Serial
<1> QED BY <1>1, <1>2, <1>3 DEF ThreadInv

\* Who works on what, and what is on record of what Slack was told, hold for deliveries of
\* any status and date.
THEOREM ThreadsInductive == OpenSpec => []ThreadInv
<1>1. Init => ThreadInv
  BY ThreadInvInit
<1>2. IndInv /\ ThreadInv /\ [OpenNext]_vars => ThreadInv'
  BY ThreadInvStep
<1> QED BY <1>1, <1>2, OpenInductive, PTL DEF OpenSpec

\* With one request at a time, all that Slack is told of an incident is in one thread, but
\* for announcements whose answer was lost, whoever sends the alerts
\* (orchestrator.py:72-79, 90-95, 186-205, 268-272, slack/client.py:46-56).
THEOREM OpenIncidentsHaveOneThread == OpenSpec => []OneThreadPerIncident
<1>1. Init => OneThreadPerIncident
  BY DEF Init, OneThreadPerIncident
<1>2. IndInv /\ ThreadInv /\ OneThreadPerIncident /\ [OpenNext]_vars => OneThreadPerIncident'
  BY OneThreadStep DEF ThreadInv
<1> QED BY <1>1, <1>2, OpenInductive, ThreadsInductive, PTL DEF OpenSpec

\* In particular with Alertmanager's deliveries.
THEOREM IncidentsHaveOneThread == Spec => []OneThreadPerIncident
  BY SpecIsOpen, OpenIncidentsHaveOneThread, PTL

LEMMA EpisodeInvInit == Init => EpisodeInv
<1> SUFFICES ASSUME Init PROVE EpisodeInv
  OBVIOUS
<1>1. DOMAIN rows = {} /\ alert = [f \in AlertFingerprints |-> 0]
  BY DEF Init, EmptyTable
<1>2. \A t \in Threads : pc[t] = "idle" /\ event[t] = NoEvent /\ copy[t] = NoIncident
  BY DEF Init
<1>3. Handlers \subseteq Threads
  BY DEF Threads
<1>4. ClosedAreOver /\ RunsOnFile
  BY <1>1, <1>2, <1>3 DEF ClosedAreOver, RunsOnFile, RunnerPcs
<1>5. DatesFit
  <2>1. MaxTransitions \in Nat
    BY OrchestratorAssumption
  <2> QED BY <1>1, <1>2, <1>3, <2>1 DEF DatesFit
<1>6. EpisodesApart
  BY <1>1 DEF EpisodesApart
<1> QED BY <1>4, <1>5, <1>6 DEF EpisodeInv

LEMMA EpisodeInvStep == IndInv /\ ThreadInv /\ EpisodeInv /\ [Next]_vars => EpisodeInv'
<1> SUFFICES ASSUME IndInv, ThreadInv, EpisodeInv, [Next]_vars PROVE EpisodeInv'
  OBVIOUS
<1>0. /\ TypeOK /\ HeldRowsExist /\ CopyMatchesPc
      /\ WorkFits /\ CopiesIdentify /\ DatesFit
      /\ NewsInTime => ClosedAreOver /\ RunsOnFile
      /\ Serial => NewsInTime /\ EpisodesApart
      /\ [OpenNext]_vars
  BY DEF IndInv, ThreadInv, EpisodeInv, NewsInTime, OpenNext
<1>1. DatesFit'
  BY <1>0, DatesFitStep
<1>2. ASSUME NewsInTime PROVE ClosedAreOver' /\ RunsOnFile'
  BY <1>0, <1>2, ClosedAreOverStep, RunsOnFileStep
<1>3. ASSUME Serial PROVE EpisodesApart'
  BY <1>0, <1>3, EpisodesApartStep
<1>4. NewsInTime' = NewsInTime /\ Serial' = Serial
  BY DEF NewsInTime, Serial
<1> QED BY <1>1, <1>2, <1>3, <1>4 DEF EpisodeInv

\* Alertmanager's dates and states keep the episodes of an alert apart, and an incident open
\* as long as its episode lasts.
THEOREM EpisodesInductive == Spec => []EpisodeInv
<1>1. Init => EpisodeInv
  BY EpisodeInvInit
<1>2. IndInv /\ ThreadInv /\ EpisodeInv /\ [Next]_vars => EpisodeInv'
  BY EpisodeInvStep
<1> QED BY <1>1, <1>2, Inductive, SpecIsOpen, ThreadsInductive, PTL DEF Spec

\* With one delivery of Alertmanager's at a time, an episode of an alert has one incident,
\* however often it is re-delivered, whatever fails, and across restarts
\* (store.py:5-7, orchestrator.py:48-55).
THEOREM EpisodesHaveOneIncident == Spec => []OneIncidentPerEpisode
<1>1. Init => OneIncidentPerEpisode
  BY DEF Init, EmptyTable, OneIncidentPerEpisode
<1>2. IndInv /\ ThreadInv /\ EpisodeInv /\ OneIncidentPerEpisode /\ [Next]_vars => OneIncidentPerEpisode'
  <2> SUFFICES ASSUME IndInv, ThreadInv, EpisodeInv, OneIncidentPerEpisode, [Next]_vars
               PROVE  OneIncidentPerEpisode'
    OBVIOUS
  <2>1. [OpenNext]_vars
    BY DEF OpenNext
  <2> QED BY <2>1, OneIncidentStep DEF IndInv, ThreadInv, EpisodeInv
<1> QED BY <1>1, <1>2, Inductive, SpecIsOpen, ThreadsInductive, EpisodesInductive, PTL DEF Spec

-----------------------------------------------------------------------------
(* The refinement of IncidentLifecycle.                                    *)

\* Where one incident may go in one step of the lifecycle.
Goes(s, v, s2, v2) ==
    \/ s2 = s /\ v2 = v
    \/ s2 = "ended" /\ v2 = "open"
    \/ /\ v = "open"
       /\ \/ s = "absent" /\ s2 = "ALERT_RECEIVED" /\ v2 = "open"
          \/ s = "ALERT_RECEIVED" /\ s2 = "DATA_COLLECTION" /\ v2 = "open"
          \/ s = "DATA_COLLECTION" /\ s2 = "DATA_COLLECTION" /\ v2 = "failed"
          \/ s = "DATA_COLLECTION" /\ s2 = "TIMED_OUT" /\ v2 = "insufficient"
          \/ s = "DATA_COLLECTION" /\ s2 = "HYPOTHESIS_VALIDATION" /\ v2 = "open"
          \/ s = "HYPOTHESIS_VALIDATION" /\ s2 = "RCA_GENERATED" /\ v2 \in {"cause", "insufficient"}
    \/ s = "RCA_GENERATED" /\ s2 = "WAITING_FOR_RESOLUTION" /\ v2 = v

\* A step of one incident is a step of the lifecycle.
LEMMA OneGoes ==
    ASSUME NEW i \in Incidents,
           \A j \in Incidents \ {i} : StageOf(j)' = StageOf(j) /\ VerdictOf(j)' = VerdictOf(j),
           Goes(StageOf(i), VerdictOf(i), StageOf(i)', VerdictOf(i)')
    PROVE  Lifecycle!Next
<1> DEFINE stage == [j \in Incidents |-> StageOf(j)]
           verdict == [j \in Incidents |-> VerdictOf(j)]
           stage2 == [j \in Incidents |-> StageOf(j)']
           verdict2 == [j \in Incidents |-> VerdictOf(j)']
<1>1. /\ stage2 = [stage EXCEPT ![i] = StageOf(i)']
      /\ verdict2 = [verdict EXCEPT ![i] = VerdictOf(i)']
      /\ StageOf(i)' = StageOf(i) => stage2 = stage
      /\ VerdictOf(i)' = VerdictOf(i) => verdict2 = verdict
      /\ stage[i] = StageOf(i) /\ verdict[i] = VerdictOf(i)
  OBVIOUS
<1>2. CASE StageOf(i)' = StageOf(i) /\ VerdictOf(i)' = VerdictOf(i)
  <2>1. Lifecycle!End({})
    BY <1>1, <1>2 DEF Lifecycle!End
  <2> QED BY <2>1 DEF Lifecycle!Next
<1>3. CASE StageOf(i)' = "ended" /\ VerdictOf(i)' = "open"
  <2>1. Lifecycle!End({i})
    BY <1>3 DEF Lifecycle!End
  <2> QED BY <2>1 DEF Lifecycle!Next
<1>4. ASSUME NEW s, NEW s2, NEW v2, StageOf(i) = s, VerdictOf(i) = "open", StageOf(i)' = s2, VerdictOf(i)' = v2
      PROVE  Lifecycle!Advance(i, s, s2, v2)
  BY <1>1, <1>4 DEF Lifecycle!Advance
<1>5. CASE StageOf(i) = "RCA_GENERATED" /\ StageOf(i)' = "WAITING_FOR_RESOLUTION" /\ VerdictOf(i)' = VerdictOf(i)
  <2>1. Lifecycle!AwaitResolution(i)
    BY <1>1, <1>5 DEF Lifecycle!AwaitResolution
  <2> QED BY <2>1 DEF Lifecycle!Next
<1> HIDE DEF stage, verdict, stage2, verdict2
<1> QED BY <1>2, <1>3, <1>4, <1>5 DEF Goes, Lifecycle!Next, Lifecycle!Open, Lifecycle!Collect, Lifecycle!Fail,
        Lifecycle!TimeOut, Lifecycle!Validate, Lifecycle!Conclude

\* The verdict a record carries while its episode lasts.
Verdict(inc) ==
    IF inc.status = "INVESTIGATION_FAILED" THEN "failed"
    ELSE IF inc.root_cause THEN "cause"
    ELSE IF inc.investigation_state \in
              {"RCA_GENERATED", "WAITING_FOR_RESOLUTION", "TIMED_OUT"} THEN "insufficient"
    ELSE "open"

\* Saving a run's copy takes its incident on in the lifecycle, or leaves it there.
LEMMA RunSaveGoes ==
    ASSUME NEW row \in Incident, NEW inc \in Incident, Coherent(row), Coherent(inc),
           NEW label \in RunSaves, CopyFits(label, inc),
           row.investigation_state = StageAt(label), row.status # "INVESTIGATION_FAILED",
           StageAt(label) = "RCA_GENERATED" => row.root_cause = inc.root_cause
    PROVE  Goes(row.investigation_state, Verdict(row), inc.investigation_state, Verdict(inc))
<1> USE DEF RunSaves, CopyFits, Coherent, Verdict, StageAt, Goes, Incident, Statuses, InvestigationStates, None
<1>1. CASE label = "saveCollecting"
  BY <1>1
<1>2. CASE label = "saveFailed"
  BY <1>2
<1>3. CASE label = "saveTimeout"
  BY <1>3
<1>4. CASE label = "saveTimeoutThread"
  BY <1>4
<1>5. CASE label = "saveValidating"
  BY <1>5
<1>6. CASE label = "saveRca"
  BY <1>6
<1>7. CASE label = "saveFinal"
  BY <1>7
<1> QED BY <1>1, <1>2, <1>3, <1>4, <1>5, <1>6, <1>7 DEF RunSaves

\* The save of a copy is a step of its incident in the lifecycle, or of none.
LEMMA SaveGoes ==
    ASSUME IndInv, ThreadInv, EpisodeInv, NewsInTime, NEW t \in Threads, SavesCopy(t)
    PROVE  Lifecycle!Next
<1>0. PICK i : i = copy[t].incident_id
  OBVIOUS
<1>1. /\ TypeOK /\ HeldRowsExist /\ CopyMatchesPc /\ WaitingIsFresh /\ RowsCoherent /\ ReportIsOnFile
      /\ CopiesIdentify /\ ClosedAreOver /\ RunsOnFile
  BY DEF IndInv, ThreadInv, EpisodeInv
<1>2. /\ copy[t] \in Incident /\ copy[t] # NoIncident /\ i \in DOMAIN rows /\ i \in Incidents
      /\ rows[i] \in Incident /\ CopyFits(pc[t], copy[t]) /\ Coherent(copy[t]) /\ Coherent(rows[i])
  BY <1>0, <1>1, IncidentFields DEF SavesCopy, Incident, CopyMatchesPc, RowsCoherent
<1>3. /\ alert' = alert /\ DOMAIN rows' = DOMAIN rows /\ rows'[i] = copy[t]
      /\ \A j \in DOMAIN rows \ {i} : rows'[j] = rows[j]
      /\ EpisodeOver(copy[t]) <=> EpisodeOver(rows[i])
  <2>1. SameIncident(copy[t], rows[i])
    BY <1>0, <1>1, <1>2, IncidentFields DEF CopiesIdentify, SameIncident
  <2>2. alert' = alert /\ rows' = Save(rows, copy[t])
    BY DEF SavesCopy, Alone
  <2>3. /\ DOMAIN rows' = DOMAIN rows /\ rows'[i] = copy[t]
        /\ \A j \in DOMAIN rows \ {i} : rows'[j] = rows[j]
    BY <1>0, <1>2, <2>2, SaveRow
  <2>4. EpisodeOver(copy[t]) <=> EpisodeOver(rows[i])
    BY <2>1 DEF SameIncident, EpisodeOver
  <2> QED BY <2>2, <2>3, <2>4
<1>4. \A j \in Incidents \ {i} : StageOf(j)' = StageOf(j) /\ VerdictOf(j)' = VerdictOf(j)
  <2> SUFFICES ASSUME NEW j \in Incidents \ {i}
               PROVE  StageOf(j)' = StageOf(j) /\ VerdictOf(j)' = VerdictOf(j)
    OBVIOUS
  <2>1. CASE j \notin DOMAIN rows
    BY <1>3, <2>1 DEF StageOf, VerdictOf
  <2>2. CASE j \in DOMAIN rows
    <3>1. j \in DOMAIN rows' /\ rows'[j] = rows[j] /\ (EpisodeOver(rows[j])' <=> EpisodeOver(rows[j]))
      BY <1>3, <2>2 DEF EpisodeOver
    <3> QED BY <2>2, <3>1 DEF StageOf, VerdictOf
  <2> QED BY <2>1, <2>2
<1>5. EpisodeOver(rows[i])' <=> EpisodeOver(rows[i])
  BY <1>3 DEF EpisodeOver
<1>6. CASE EpisodeOver(rows[i])
  <2>1. StageOf(i)' = "ended" /\ VerdictOf(i)' = "open"
    BY <1>2, <1>3, <1>5, <1>6 DEF StageOf, VerdictOf
  <2> QED BY <1>2, <1>4, <2>1, OneGoes DEF Goes
<1>7. CASE ~EpisodeOver(rows[i])
  <2>1. /\ StageOf(i) = rows[i].investigation_state /\ VerdictOf(i) = Verdict(rows[i])
        /\ StageOf(i)' = copy[t].investigation_state /\ VerdictOf(i)' = Verdict(copy[t])
    <3>1. rows[i].investigation_state # "ended" /\ copy[t].investigation_state # "ended"
      BY <1>2 DEF Incident, InvestigationStates
    <3> QED BY <1>2, <1>3, <1>5, <1>7, <3>1 DEF StageOf, VerdictOf, Verdict
  <2>2. pc[t] # "saveResolved"
    BY <1>1, <1>2, <1>3, <1>7 DEF ReportIsOnFile, ClosedAreOver
  <2>3. CASE pc[t] = "saveStarted"
    <3>1. rows[i].investigation_state = "ALERT_RECEIVED" /\ copy[t].investigation_state = "ALERT_RECEIVED"
      BY <1>0, <1>1, <1>2, <2>3 DEF WaitingIsFresh, CopyFits, CreatorPcs
    <3>2. ASSUME NEW inc \in Incident, Coherent(inc), inc.investigation_state = "ALERT_RECEIVED"
          PROVE  Verdict(inc) = "open"
      BY <3>2 DEF Coherent, Verdict, None
    <3>3. Goes(StageOf(i), VerdictOf(i), StageOf(i)', VerdictOf(i)')
      BY <1>2, <2>1, <3>1, <3>2 DEF Goes
    <3> QED BY <1>2, <1>4, <3>3, OneGoes
  <2>4. CASE pc[t] \in RunSaves
    <3>1. pc[t] \in RunnerPcs /\ ~EpisodeOver(copy[t])
      BY <1>3, <1>7, <2>4 DEF RunSaves, RunnerPcs
    <3>2. /\ rows[i].investigation_state = StageAt(pc[t])
          /\ rows[i].status # "INVESTIGATION_FAILED"
          /\ StageAt(pc[t]) = "RCA_GENERATED" => rows[i].root_cause = copy[t].root_cause
      BY <1>0, <1>1, <3>1 DEF RunsOnFile
    <3>3. Goes(StageOf(i), VerdictOf(i), StageOf(i)', VerdictOf(i)')
      BY <1>2, <2>1, <2>4, <3>2, RunSaveGoes
    <3> QED BY <1>2, <1>4, <3>3, OneGoes
  <2> QED BY <2>2, <2>3, <2>4 DEF SavesCopy
<1> QED BY <1>6, <1>7

\* A new incident starts out at the first stage, or after the end of its episode.
LEMMA OpenGoes ==
    ASSUME TypeOK, NEW h \in Handlers, NEW i \in Incidents, Opens(h, i)
    PROVE  Lifecycle!Next
<1>1. /\ alert' = alert /\ DOMAIN rows' = DOMAIN rows \cup {i} /\ i \notin DOMAIN rows
      /\ \A j \in DOMAIN rows : rows'[j] = rows[j]
  BY DEF Opens, Alone
<1>2. \A j \in Incidents \ {i} : StageOf(j)' = StageOf(j) /\ VerdictOf(j)' = VerdictOf(j)
  <2> SUFFICES ASSUME NEW j \in Incidents \ {i}
               PROVE  StageOf(j)' = StageOf(j) /\ VerdictOf(j)' = VerdictOf(j)
    OBVIOUS
  <2>1. CASE j \notin DOMAIN rows
    BY <1>1, <2>1 DEF StageOf, VerdictOf
  <2>2. CASE j \in DOMAIN rows
    <3>1. j \in DOMAIN rows' /\ rows'[j] = rows[j] /\ (EpisodeOver(rows[j])' <=> EpisodeOver(rows[j]))
      BY <1>1, <2>2 DEF EpisodeOver
    <3> QED BY <2>2, <3>1 DEF StageOf, VerdictOf
  <2> QED BY <2>1, <2>2
<1>3. /\ rows'[i].status = "ALERT_RECEIVED" /\ rows'[i].root_cause = FALSE
      /\ rows'[i].investigation_state = "ALERT_RECEIVED"
  BY OpensRow
<1>4. StageOf(i) = "absent" /\ VerdictOf(i) = "open"
  BY <1>1 DEF StageOf, VerdictOf
<1>5. StageOf(i)' \in {"ALERT_RECEIVED", "ended"} /\ VerdictOf(i)' = "open"
  BY <1>1, <1>3 DEF StageOf, VerdictOf
<1> QED BY <1>2, <1>4, <1>5, OneGoes DEF Goes

\* A step that leaves the table alone can only end episodes.
LEMMA TimeGoes ==
    ASSUME TypeOK, HeldRowsExist, CopyMatchesPc, [OpenNext]_vars, rows' = rows
    PROVE  Lifecycle!Next
<1> DEFINE over == {i \in Incidents : StageOf(i)' = "ended"}
<1>1. ASSUME NEW i \in Incidents
      PROVE  /\ StageOf(i)' = IF i \in over THEN "ended" ELSE StageOf(i)
             /\ VerdictOf(i)' = IF i \in over THEN "open" ELSE VerdictOf(i)
  <2>1. CASE i \notin DOMAIN rows
    BY <2>1 DEF StageOf, VerdictOf
  <2>2. CASE i \in DOMAIN rows
    <3>1. rows[i].investigation_state # "ended" /\ rows[i].start_time \in Nat
      BY <2>2, IncidentFields DEF Incident, InvestigationStates
    <3>2. EpisodeOver(rows[i]) => EpisodeOver(rows[i])'
      BY <3>1, OverStaysOver DEF EpisodeOver
    <3>3. CASE EpisodeOver(rows[i])'
      BY <2>2, <3>3 DEF StageOf, VerdictOf
    <3>4. CASE ~EpisodeOver(rows[i])'
      BY <2>2, <3>1, <3>2, <3>4 DEF StageOf, VerdictOf
    <3> QED BY <3>3, <3>4
  <2> QED BY <2>1, <2>2
<1> HIDE DEF over
<1>2. over \in SUBSET Incidents
  BY DEF over
<1>3. Lifecycle!End(over)
  BY <1>1 DEF Lifecycle!End
<1> QED BY <1>2, <1>3 DEF Lifecycle!Next

\* As long as the episode of its alert lasts, every investigation follows the lifecycle:
\* whatever fails, if the agent restarts in the middle, however many requests and runs there
\* are, if no news of an earlier episode can be late (orchestrator.py:84-91, 110-222, 254-274).
THEOREM InvestigationsFollowLifecycle ==
    ASSUME NewsInTime
    PROVE  Spec => FollowsLifecycle
<1>1. Init => Lifecycle!Init
  BY DEF Init, EmptyTable, StageOf, VerdictOf, Lifecycle!Init
<1>2. IndInv /\ ThreadInv /\ EpisodeInv /\ [Next]_vars => Lifecycle!Next
  <2> SUFFICES ASSUME IndInv, ThreadInv, EpisodeInv, [Next]_vars PROVE Lifecycle!Next
    OBVIOUS
  <2>1. TypeOK /\ HeldRowsExist /\ CopyMatchesPc /\ [OpenNext]_vars
    BY DEF IndInv, OpenNext
  <2> QED BY <2>1, RowsChange, SaveGoes, OpenGoes, TimeGoes
<1>3. Spec => Lifecycle!Spec
  BY <1>1, <1>2, Inductive, SpecIsOpen, ThreadsInductive, EpisodesInductive, PTL DEF Spec, Lifecycle!Spec
<1> QED BY <1>3 DEF FollowsLifecycle

=============================================================================
