---------------------------- MODULE Orchestrator ----------------------------
(***************************************************************************)
(* app/investigation/orchestrator.py with the two callers that share it:   *)
(* the alert webhook of app/main.py and the synchronous /ask of            *)
(* app/investigation/ask.py.                                               *)
(*                                                                         *)
(* Threads.  Endpoints are plain "def" functions, so each request runs on  *)
(* a thread of the server's pool (Handlers).  Investigations run on the    *)
(* threads of _dispatch_pool (Workers), which take jobs from its queue in  *)
(* order.  A thread has a program counter, the alert it handles and its    *)
(* own copy of an incident (a Python object nobody else sees); an atomic   *)
(* step is one call of the store, of Slack, of the playbook or of the RCA  *)
(* engine together with the local statements next to it.                   *)
(*                                                                         *)
(* Environment.  alert[f] counts the transitions of alert f: odd while it  *)
(* fires, even while it does not.  Alertmanager delivers the state it sees *)
(* at least once: a notification may be repeated, several may be in flight *)
(* and each may be delayed as long as its thread is.  Slack and the        *)
(* datasources may fail at every call, and a call to Slack that fails for  *)
(* the agent may have posted its message all the same.  Escapes names the  *)
(* calls that may also raise something the code around them does not catch *)
(* (a non-JSON Slack answer, an RCA object of an unexpected shape, a       *)
(* column value SQLite cannot bind).  A crash loses the threads and the    *)
(* queue; the table survives on its volume.                                *)
(***************************************************************************)
EXTENDS IncidentStore, Sequences, FiniteSets

CONSTANTS Handlers,          \* request threads of the HTTP server
          Workers,           \* threads of _dispatch_pool
          AskFingerprints,   \* "ask-<uuid>" fingerprints, one per question
          SlackConfigured,   \* token and channel are set
          Escapes,           \* program points an uncaught exception may leave from
          MaxTransitions,    \* bound: transitions of an alert
          MaxCrashes,        \* bound: crashes of the process
          NoIncident,        \* a thread that holds no incident
          NoEvent            \* a thread that handles no alert

Threads == Handlers \cup Workers
AlertFingerprints == Fingerprints \ AskFingerprints
Escapable == {"announce", "generate", "postRca", "remediate"}

Event == [kind : {"firing", "resolved", "ask"}, fp : Fingerprints, start : Nat]

ASSUME OrchestratorAssumption ==
    /\ Handlers \cap Workers = {}
    /\ AskFingerprints \subseteq Fingerprints
    /\ SlackConfigured \in BOOLEAN
    /\ Escapes \subseteq Escapable
    /\ MaxTransitions \in Nat
    /\ MaxCrashes \in Nat

\* The two placeholders are not among the values they stand in for.
ASSUME PlaceholderAssumption ==
    /\ NoIncident \notin Incident
    /\ NoEvent \notin Event

VARIABLES alert,     \* [AlertFingerprints -> Nat]: transitions so far
          rows,      \* the incidents table
          queue,     \* incident ids waiting in _dispatch_pool
          pc,        \* where each thread is
          event,     \* the alert each request thread handles
          copy,      \* each thread's own Incident object
          slack,     \* messages Slack has posted
          crashes

vars == <<alert, rows, queue, pc, event, copy, slack, crashes>>

CreatorPcs == {"announce", "saveStarted", "submit", "load"}
ResolverPcs == {"saveResolved", "postResolution"}
RunnerPcs == {"saveCollecting", "playbook", "saveFailed", "saveTimeout",
              "postTimeout", "saveTimeoutThread", "saveValidating", "generate",
              "saveRca", "postRca", "remediate", "saveFinal"}
Pcs == {"idle", "lookup", "create"} \cup CreatorPcs \cup ResolverPcs \cup RunnerPcs

Messages == [id : Incidents,
             kind : {"started", "rca", "timeout", "resolution"},
             thread : {"parent", "standalone", "lost"}]

Init ==
    /\ alert = [f \in AlertFingerprints |-> 0]
    /\ rows = EmptyTable
    /\ queue = <<>>
    /\ pc = [t \in Threads |-> "idle"]
    /\ event = [t \in Threads |-> NoEvent]
    /\ copy = [t \in Threads |-> NoIncident]
    /\ slack = {}
    /\ crashes = 0
-----------------------------------------------------------------------------
(* Steps of one thread: what its copy becomes and where it goes next.      *)

Goto(t, label) == pc' = [pc EXCEPT ![t] = label]

SetCopy(t, inc) == copy' = [copy EXCEPT ![t] = inc]

\* The function returns (or its exception is swallowed): its locals are gone.
Return(t) ==
    /\ Goto(t, "idle")
    /\ SetCopy(t, NoIncident)
    /\ event' = [event EXCEPT ![t] = NoEvent]

\* store.save of the thread's own copy.
SaveCopy(t) == rows' = Save(rows, copy[t])

Message(t, kind, thread) == [id |-> copy[t].incident_id, kind |-> kind, thread |-> thread]

\* What Slack may have posted when its answer to the thread's message does not
\* arrive or cannot be read (a timeout is an httpx.HTTPError like a refusal).
\* A message that begins a thread then begins one the agent never learns of.
Unanswered(t, kind) ==
    LET thread == IF copy[t].slack_thread_ts = None THEN "lost" ELSE copy[t].slack_thread_ts
    IN  IF SlackConfigured THEN {slack, slack \cup {Message(t, kind, thread)}} ELSE {slack}
-----------------------------------------------------------------------------
(* The environment.                                                        *)

AlertChanges(f) ==
    /\ alert[f] < MaxTransitions
    /\ alert' = [alert EXCEPT ![f] = @ + 1]
    /\ UNCHANGED <<rows, queue, pc, event, copy, slack, crashes>>

\* Bound: a request that will create an incident needs an id left for it.
IdLeft ==
    Cardinality({h \in Handlers : /\ pc[h] \in {"lookup", "create"}
                                  /\ event[h].kind # "resolved"})
      < Cardinality(Incidents \ DOMAIN rows)

Firing(f) == alert[f] % 2 = 1

\* A request thread is given an alert: handle_webhook_alert and its branch.
Receive(h, kind, f, start) ==
    /\ pc[h] = "idle"
    /\ kind = "firing" => IdLeft \/ Active(rows, f) # {}
    /\ event' = [event EXCEPT ![h] = [kind |-> kind, fp |-> f, start |-> start]]
    /\ Goto(h, "lookup")
    /\ UNCHANGED <<alert, rows, queue, copy, slack, crashes>>

\* Alertmanager sends what it sees of alert f; startsAt is that of the
\* current (or last) episode.
Webhook(h, f) ==
    /\ alert[f] > 0
    /\ Receive(h, IF Firing(f) THEN "firing" ELSE "resolved", f, (alert[f] + 1) \div 2)

\* handle_ask draws a fingerprint of its own and never looks one up.
Ask(h, f) ==
    /\ pc[h] = "idle"
    /\ IdLeft
    /\ \A i \in DOMAIN rows : rows[i].alert_fingerprint # f
    /\ \A g \in Handlers : event[g] # NoEvent => event[g].fp # f
    /\ event' = [event EXCEPT ![h] = [kind |-> "ask", fp |-> f, start |-> 0]]
    /\ Goto(h, "create")
    /\ UNCHANGED <<alert, rows, queue, copy, slack, crashes>>

\* The process dies and starts again: the table and Slack are what is left.
Crash ==
    /\ crashes < MaxCrashes
    /\ crashes' = crashes + 1
    /\ queue' = <<>>
    /\ pc' = [t \in Threads |-> "idle"]
    /\ event' = [t \in Threads |-> NoEvent]
    /\ copy' = [t \in Threads |-> NoIncident]
    /\ UNCHANGED <<alert, rows, slack>>
-----------------------------------------------------------------------------
(* _handle_firing and create_incident_and_notify.                          *)

\* Mutation: a re-delivery submits the existing incident once more.
FiringIsDuplicate_Resubmits(h) ==
    /\ pc[h] = "lookup" /\ event[h].kind = "firing"
    /\ \E inc \in GetActive(rows, event[h].fp) : queue' = Append(queue, inc.incident_id)
    /\ Return(h)
    /\ UNCHANGED <<alert, rows, slack, crashes>>

FiringIsDuplicate(h) ==
    /\ pc[h] = "lookup" /\ event[h].kind = "firing"
    /\ GetActive(rows, event[h].fp) # {}
    /\ Return(h)
    /\ UNCHANGED <<alert, rows, queue, slack, crashes>>

\* Mutation: a new episode reopens the resolved incident of the last one.
FiringIsNew_Reopens(h) ==
    /\ pc[h] = "lookup" /\ event[h].kind = "firing"
    /\ GetActive(rows, event[h].fp) = {}
    /\ \/ /\ \A i \in DOMAIN rows : rows[i].alert_fingerprint # event[h].fp
          /\ Goto(h, "create")
          /\ UNCHANGED <<rows, event, copy>>
       \/ /\ \E i \in DOMAIN rows :
                /\ rows[i].alert_fingerprint = event[h].fp
                /\ rows' = Save(rows, [rows[i] EXCEPT !.status = "INVESTIGATION_STARTED"])
          /\ Return(h)
    /\ UNCHANGED <<alert, queue, slack, crashes>>

FiringIsNew(h) ==
    /\ pc[h] = "lookup" /\ event[h].kind = "firing"
    /\ GetActive(rows, event[h].fp) = {}
    /\ Goto(h, "create")
    /\ UNCHANGED <<alert, rows, queue, event, copy, slack, crashes>>

CreateIncident(h) ==
    /\ pc[h] = "create"
    /\ \E i \in Incidents \ DOMAIN rows :
          LET inc == NewIncident(i, event[h].fp, event[h].start)
          IN  /\ rows' = Create(rows, inc)
              /\ SetCopy(h, [inc EXCEPT !.status = "INVESTIGATION_STARTED"])
    /\ Goto(h, "announce")
    /\ UNCHANGED <<alert, queue, event, slack, crashes>>

Announce(h) ==
    /\ pc[h] = "announce"
    /\ SlackConfigured
    /\ SetCopy(h, [copy[h] EXCEPT !.slack_thread_ts = "parent"])
    /\ slack' = slack \cup {Message(h, "started", "parent")}
    /\ Goto(h, "saveStarted")
    /\ UNCHANGED <<alert, rows, queue, event, crashes>>

\* SlackUnavailableError (also: Slack is not configured) is logged.
AnnounceUnavailable(h) ==
    /\ pc[h] = "announce"
    /\ slack' \in Unanswered(h, "started")
    /\ Goto(h, "saveStarted")
    /\ UNCHANGED <<alert, rows, queue, event, copy, crashes>>

\* The webhook submits the investigation; /ask goes on to run it itself.
SaveStarted(h) ==
    /\ pc[h] = "saveStarted"
    /\ SaveCopy(h)
    /\ Goto(h, IF event[h].kind = "ask" THEN "load" ELSE "submit")
    /\ UNCHANGED <<alert, queue, event, copy, slack, crashes>>

\* Mutation: the pool's queue is bounded and drops what does not fit.
Submit_BoundedQueue(h) ==
    /\ pc[h] = "submit"
    /\ queue' = IF queue = <<>> THEN <<copy[h].incident_id>> ELSE queue
    /\ Return(h)
    /\ UNCHANGED <<alert, rows, slack, crashes>>

Submit(h) ==
    /\ pc[h] = "submit"
    /\ queue' = Append(queue, copy[h].incident_id)
    /\ Return(h)
    /\ UNCHANGED <<alert, rows, slack, crashes>>
-----------------------------------------------------------------------------
(* _handle_resolved.                                                       *)

ResolvedIsUnknown(h) ==
    /\ pc[h] = "lookup" /\ event[h].kind = "resolved"
    /\ GetActive(rows, event[h].fp) = {}
    /\ Return(h)
    /\ UNCHANGED <<alert, rows, queue, slack, crashes>>

ResolveIncident(h) ==
    /\ pc[h] = "lookup" /\ event[h].kind = "resolved"
    /\ \E inc \in GetActive(rows, event[h].fp) :
          SetCopy(h, [inc EXCEPT !.status = "RESOLVED"])
    /\ Goto(h, "saveResolved")
    /\ UNCHANGED <<alert, rows, queue, event, slack, crashes>>

\* Mutation: the resolution is posted without looking for a thread.
SaveResolved_PostsAnyway(h) ==
    /\ pc[h] = "saveResolved"
    /\ SaveCopy(h)
    /\ Goto(h, "postResolution")
    /\ UNCHANGED <<alert, queue, event, copy, slack, crashes>>

SaveResolved(h) ==
    /\ pc[h] = "saveResolved"
    /\ SaveCopy(h)
    /\ IF copy[h].slack_thread_ts = None
         THEN Return(h)
         ELSE Goto(h, "postResolution") /\ UNCHANGED <<event, copy>>
    /\ UNCHANGED <<alert, queue, slack, crashes>>

PostResolution(h) ==
    /\ pc[h] = "postResolution"
    /\ slack' \in {slack, slack \cup {Message(h, "resolution", copy[h].slack_thread_ts)}}
    /\ Return(h)
    /\ UNCHANGED <<alert, rows, queue, crashes>>
-----------------------------------------------------------------------------
(* run_investigation, on a worker or inline in an /ask request.  No call   *)
(* deletes a row, so its store.get always finds one (lines 121-123).       *)

BeginRun(t, i) ==
    /\ SetCopy(t, [rows[i] EXCEPT !.investigation_state = "DATA_COLLECTION"])
    /\ Goto(t, "saveCollecting")

TakeJob(w) ==
    /\ pc[w] = "idle"
    /\ queue # <<>>
    /\ BeginRun(w, Head(queue))
    /\ queue' = Tail(queue)
    /\ UNCHANGED <<alert, rows, event, slack, crashes>>

RunInline(h) ==
    /\ pc[h] = "load"
    /\ BeginRun(h, copy[h].incident_id)
    /\ UNCHANGED <<alert, rows, queue, event, slack, crashes>>

SaveCollecting(t) ==
    /\ pc[t] = "saveCollecting"
    /\ SaveCopy(t)
    /\ Goto(t, "playbook")
    /\ UNCHANGED <<alert, queue, event, copy, slack, crashes>>

\* Mutation: the stage HYPOTHESIS_VALIDATION is never recorded.
PlaybookReturns_SkipsStage(t) ==
    /\ pc[t] = "playbook"
    /\ Goto(t, "saveValidating")
    /\ UNCHANGED <<alert, rows, queue, event, copy, slack, crashes>>

PlaybookReturns(t) ==
    /\ pc[t] = "playbook"
    /\ SetCopy(t, [copy[t] EXCEPT !.investigation_state = "HYPOTHESIS_VALIDATION"])
    /\ Goto(t, "saveValidating")
    /\ UNCHANGED <<alert, rows, queue, event, slack, crashes>>

\* FutureTimeoutError or ToolCallBudgetExceeded: _report_timeout.
PlaybookOverruns(t) ==
    /\ pc[t] = "playbook"
    /\ SetCopy(t, [copy[t] EXCEPT !.status = "INSUFFICIENT_EVIDENCE",
                                  !.investigation_state = "TIMED_OUT"])
    /\ Goto(t, "saveTimeout")
    /\ UNCHANGED <<alert, rows, queue, event, slack, crashes>>

\* Mutation: the failure is logged and not saved.
PlaybookFails_OnlyLogs(t) ==
    /\ pc[t] = "playbook"
    /\ Return(t)
    /\ UNCHANGED <<alert, rows, queue, slack, crashes>>

PlaybookFails(t) ==
    /\ pc[t] = "playbook"
    /\ SetCopy(t, [copy[t] EXCEPT !.status = "INVESTIGATION_FAILED"])
    /\ Goto(t, "saveFailed")
    /\ UNCHANGED <<alert, rows, queue, event, slack, crashes>>

\* Mutation: a failed investigation is queued again.
SaveFailed_Retries(t) ==
    /\ pc[t] = "saveFailed"
    /\ SaveCopy(t)
    /\ queue' = Append(queue, copy[t].incident_id)
    /\ Return(t)
    /\ UNCHANGED <<alert, slack, crashes>>

SaveFailed(t) ==
    /\ pc[t] = "saveFailed"
    /\ SaveCopy(t)
    /\ Return(t)
    /\ UNCHANGED <<alert, queue, slack, crashes>>

SaveTimeout(t) ==
    /\ pc[t] = "saveTimeout"
    /\ SaveCopy(t)
    /\ IF SlackConfigured
         THEN Goto(t, "postTimeout") /\ UNCHANGED <<event, copy>>
         ELSE Return(t)
    /\ UNCHANGED <<alert, queue, slack, crashes>>

\* Mutation: the missing return after _report_timeout.
PostTimeoutInThread_FallsThrough(t) ==
    /\ pc[t] = "postTimeout"
    /\ copy[t].slack_thread_ts # None
    /\ slack' = slack \cup {Message(t, "timeout", copy[t].slack_thread_ts)}
    /\ Goto(t, "saveValidating")
    /\ UNCHANGED <<alert, rows, queue, event, copy, crashes>>

PostTimeoutInThread(t) ==
    /\ pc[t] = "postTimeout"
    /\ copy[t].slack_thread_ts # None
    /\ slack' = slack \cup {Message(t, "timeout", copy[t].slack_thread_ts)}
    /\ Return(t)
    /\ UNCHANGED <<alert, rows, queue, crashes>>

PostTimeoutStandalone(t) ==
    /\ pc[t] = "postTimeout"
    /\ copy[t].slack_thread_ts = None
    /\ slack' = slack \cup {Message(t, "timeout", "standalone")}
    /\ SetCopy(t, [copy[t] EXCEPT !.slack_thread_ts = "standalone"])
    /\ Goto(t, "saveTimeoutThread")
    /\ UNCHANGED <<alert, rows, queue, event, crashes>>

PostTimeoutUnavailable(t) ==
    /\ pc[t] = "postTimeout"
    /\ slack' \in Unanswered(t, "timeout")
    /\ Return(t)
    /\ UNCHANGED <<alert, rows, queue, crashes>>

SaveTimeoutThread(t) ==
    /\ pc[t] = "saveTimeoutThread"
    /\ SaveCopy(t)
    /\ Return(t)
    /\ UNCHANGED <<alert, queue, slack, crashes>>

SaveValidating(t) ==
    /\ pc[t] = "saveValidating"
    /\ SaveCopy(t)
    /\ Goto(t, "generate")
    /\ UNCHANGED <<alert, queue, event, copy, slack, crashes>>

\* Mutation: the RCA is posted without being saved first.
GenerateRca_PostsUnsaved(t) ==
    /\ pc[t] = "generate"
    /\ \E cause \in BOOLEAN :
          SetCopy(t, [copy[t] EXCEPT
                !.status = IF cause THEN "ROOT_CAUSE_IDENTIFIED" ELSE "INSUFFICIENT_EVIDENCE",
                !.investigation_state = "RCA_GENERATED",
                !.root_cause = cause,
                !.confidence = "Rated"])
    /\ Goto(t, "postRca")
    /\ UNCHANGED <<alert, rows, queue, event, slack, crashes>>

\* A root cause never comes with confidence Unknown (rca/engine.py:71-72).
GenerateRca(t) ==
    /\ pc[t] = "generate"
    /\ \E cause \in BOOLEAN, level \in {"Unknown", "Rated"} :
          /\ cause => level = "Rated"
          /\ SetCopy(t, [copy[t] EXCEPT
                !.status = IF cause THEN "ROOT_CAUSE_IDENTIFIED" ELSE "INSUFFICIENT_EVIDENCE",
                !.investigation_state = "RCA_GENERATED",
                !.root_cause = cause,
                !.confidence = level])
    /\ Goto(t, "saveRca")
    /\ UNCHANGED <<alert, rows, queue, event, slack, crashes>>

SaveRca(t) ==
    /\ pc[t] = "saveRca"
    /\ SaveCopy(t)
    /\ Goto(t, "postRca")
    /\ UNCHANGED <<alert, queue, event, copy, slack, crashes>>

PostRcaInThread(t) ==
    /\ pc[t] = "postRca"
    /\ copy[t].slack_thread_ts # None
    /\ slack' = slack \cup {Message(t, "rca", copy[t].slack_thread_ts)}
    /\ Goto(t, "remediate")
    /\ UNCHANGED <<alert, rows, queue, event, copy, crashes>>

\* Mutation: the RCA is always a message of its own.
PostRcaStandalone_Always(t) ==
    /\ pc[t] = "postRca"
    /\ slack' = slack \cup {Message(t, "rca", "standalone")}
    /\ SetCopy(t, [copy[t] EXCEPT !.slack_thread_ts = "standalone"])
    /\ Goto(t, "remediate")
    /\ UNCHANGED <<alert, rows, queue, event, crashes>>

PostRcaStandalone(t) ==
    /\ pc[t] = "postRca"
    /\ copy[t].slack_thread_ts = None /\ SlackConfigured
    /\ slack' = slack \cup {Message(t, "rca", "standalone")}
    /\ SetCopy(t, [copy[t] EXCEPT !.slack_thread_ts = "standalone"])
    /\ Goto(t, "remediate")
    /\ UNCHANGED <<alert, rows, queue, event, crashes>>

PostRcaUnavailable(t) ==
    /\ pc[t] = "postRca"
    /\ slack' \in Unanswered(t, "rca")
    /\ Goto(t, "remediate")
    /\ UNCHANGED <<alert, rows, queue, event, copy, crashes>>

\* Mutation: the final status does not depend on there being a thread.
Remediate_AlwaysReported(t) ==
    /\ pc[t] = "remediate"
    /\ SetCopy(t, [copy[t] EXCEPT !.status = "SLACK_REPORTED",
                                  !.investigation_state = "WAITING_FOR_RESOLUTION"])
    /\ Goto(t, "saveFinal")
    /\ UNCHANGED <<alert, rows, queue, event, slack, crashes>>

\* The rest of the report, decide and _attempt_remediation (module
\* Remediation), then the final fields.
Remediate(t) ==
    /\ pc[t] = "remediate"
    /\ SetCopy(t, [copy[t] EXCEPT
          !.status = IF copy[t].slack_thread_ts # None THEN "SLACK_REPORTED" ELSE @,
          !.investigation_state = "WAITING_FOR_RESOLUTION"])
    /\ Goto(t, "saveFinal")
    /\ UNCHANGED <<alert, rows, queue, event, slack, crashes>>

SaveFinal(t) ==
    /\ pc[t] = "saveFinal"
    /\ SaveCopy(t)
    /\ Return(t)
    /\ UNCHANGED <<alert, queue, slack, crashes>>

\* An exception leaves the function: the webhook loop (main.py:117-118), the
\* future or the server swallows it, and nothing after the call happens.
Escape(t) ==
    /\ pc[t] \in Escapes
    /\ slack' \in CASE pc[t] = "announce" -> Unanswered(t, "started")
                    [] pc[t] = "postRca" -> Unanswered(t, "rca")
                    [] OTHER -> {slack}
    /\ Return(t)
    /\ UNCHANGED <<alert, rows, queue, crashes>>
-----------------------------------------------------------------------------
HandleAlert(h) ==
    \/ FiringIsDuplicate(h) \/ FiringIsNew(h)
    \/ CreateIncident(h) \/ Announce(h) \/ AnnounceUnavailable(h)
    \/ SaveStarted(h) \/ Submit(h)
    \/ ResolvedIsUnknown(h) \/ ResolveIncident(h)
    \/ SaveResolved(h) \/ PostResolution(h)
    \/ RunInline(h)

RunInvestigation(t) ==
    \/ SaveCollecting(t)
    \/ PlaybookReturns(t) \/ PlaybookOverruns(t) \/ PlaybookFails(t)
    \/ SaveFailed(t)
    \/ SaveTimeout(t) \/ PostTimeoutInThread(t) \/ PostTimeoutStandalone(t)
    \/ PostTimeoutUnavailable(t) \/ SaveTimeoutThread(t)
    \/ SaveValidating(t) \/ GenerateRca(t) \/ SaveRca(t)
    \/ PostRcaInThread(t) \/ PostRcaStandalone(t) \/ PostRcaUnavailable(t)
    \/ Remediate(t) \/ SaveFinal(t)

HandlerStep(h) == HandleAlert(h) \/ RunInvestigation(h) \/ Escape(h)
WorkerStep(w) == TakeJob(w) \/ RunInvestigation(w) \/ Escape(w)

Next ==
    \/ \E f \in AlertFingerprints : AlertChanges(f)
    \/ \E h \in Handlers, f \in AlertFingerprints : Webhook(h, f)
    \/ \E h \in Handlers, f \in AskFingerprints : Ask(h, f)
    \/ \E h \in Handlers : HandlerStep(h)
    \/ \E w \in Workers : WorkerStep(w)
    \/ Crash

Spec == Init /\ [][Next]_vars

\* The same with deliveries of any status and date: what holds of these holds
\* whoever sends the alerts (module ManualTrigger), not only for Alertmanager.
Delivery(h, f) ==
    \E kind \in {"firing", "resolved"}, start \in Nat : Receive(h, kind, f, start)

OpenNext == Next \/ \E h \in Handlers, f \in AlertFingerprints : Delivery(h, f)

OpenSpec == Init /\ [][OpenNext]_vars

\* A started thread keeps running: waiting for the playbook is bounded by the
\* deadline (EveryCallerReturns of DeadlinePool), a store call by a short lock,
\* and Slack, the LLM and the remediation endpoint answer or run into a
\* timeout.  Nothing is assumed of Alertmanager, of askers, or of crashes.
Fairness == /\ \A h \in Handlers : WF_vars(HandlerStep(h))
            /\ \A w \in Workers : WF_vars(WorkerStep(w))

FairSpec == Spec /\ Fairness
-----------------------------------------------------------------------------
(* What the design promises.                                               *)

\* Every variable stays in its type: the table is keyed by the ids of its
\* rows, a thread holds an incident exactly when its code has one in hand,
\* and request threads have an alert exactly while they handle one.
TypeOK ==
    /\ alert \in [AlertFingerprints -> Nat]
    /\ IsTable(rows)
    /\ queue \in Seq(Incidents)
    /\ pc \in [Threads -> Pcs]
    /\ event \in [Threads -> Event \cup {NoEvent}]
    /\ copy \in [Threads -> Incident \cup {NoIncident}]
    /\ slack \subseteq Messages
    /\ crashes \in Nat
    /\ \A t \in Threads :
          /\ pc[t] \in CreatorPcs \cup ResolverPcs \cup RunnerPcs => copy[t] \in Incident
          /\ pc[t] \in {"lookup", "create"} \cup CreatorPcs => event[t] \in Event

\* The thread is responsible for the investigation of its incident: it is
\* about to hand it over or is running it.
Owns(t) == pc[t] \in CreatorPcs \cup RunnerPcs

\* No incident is in two pairs of hands: two threads, two places of the
\* dispatch queue, or a thread and the queue.  This is what makes the blind
\* saves of run_investigation safe against each other (orchestrator.py:57-58).
SingleOwner ==
    /\ \A s, t \in Threads :
          Owns(s) /\ Owns(t) /\ s # t => copy[s].incident_id # copy[t].incident_id
    /\ \A t \in Threads, n \in DOMAIN queue : Owns(t) => copy[t].incident_id # queue[n]
    /\ \A m, n \in DOMAIN queue : queue[m] = queue[n] => m = n

\* An incident that still waits for its run has never been through one, so
\* no investigation (and no LLM call, RCA post or restart) is repeated, not
\* even when saves of stale copies and crashes come in between.
WaitingIsFresh ==
    /\ \A n \in DOMAIN queue :
          /\ queue[n] \in DOMAIN rows
          /\ rows[queue[n]].investigation_state = "ALERT_RECEIVED"
    /\ \A t \in Threads : pc[t] \in CreatorPcs =>
          /\ copy[t].incident_id \in DOMAIN rows
          /\ rows[copy[t].incident_id].investigation_state = "ALERT_RECEIVED"

\* The columns of a row belong together.
Coherent(inc) ==
    /\ inc.root_cause => inc.confidence = "Rated"
    /\ inc.confidence = None <=>
          inc.investigation_state \notin {"RCA_GENERATED", "WAITING_FOR_RESOLUTION"}
    /\ inc.status = "ROOT_CAUSE_IDENTIFIED" => inc.root_cause
    /\ inc.status = "INSUFFICIENT_EVIDENCE" =>
          /\ ~inc.root_cause
          /\ inc.investigation_state \in
                {"TIMED_OUT", "RCA_GENERATED", "WAITING_FOR_RESOLUTION"}
    /\ inc.status = "SLACK_REPORTED" =>
          /\ inc.slack_thread_ts # None
          /\ inc.investigation_state = "WAITING_FOR_RESOLUTION"
    /\ inc.status = "INVESTIGATION_FAILED" => inc.investigation_state = "DATA_COLLECTION"
    /\ inc.investigation_state = "TIMED_OUT" =>
          inc.status \in {"INSUFFICIENT_EVIDENCE", "RESOLVED"}

\* Whatever copies are saved over each other, no row (and no copy about to
\* become one) mixes the verdict of one stage with the state of another: a
\* root cause has a confidence, SLACK_REPORTED has a thread, a timed-out or
\* failed run has no RCA (orchestrator.py:127-174, 214-216, 255-257).
RowsCoherent ==
    /\ \A i \in DOMAIN rows : Coherent(rows[i])
    /\ \A t \in Threads : copy[t] # NoIncident => Coherent(copy[t])

\* Nobody is told both that the investigation timed out and what it found
\* (orchestrator.py:143-151 against 186-205).
OneVerdictPerIncident ==
    \A m, n \in slack : m.id = n.id => ~(m.kind = "rca" /\ n.kind = "timeout")

\* The verdict of incident i is in its row, or the row is closed.
OnFile(kind, i) ==
    /\ i \in DOMAIN rows
    /\ \/ rows[i].status = "RESOLVED"
       \/ IF kind = "rca" THEN rows[i].confidence # None
                          ELSE rows[i].investigation_state = "TIMED_OUT"

\* Whoever looks a verdict from Slack up in the table finds it there: nobody
\* saves an older copy over it, unless the incident is closed by that save
\* (orchestrator.py:90-91 against 166-174 and 255-257).
PostedIsOnFile ==
    \A m \in slack : m.kind \in {"rca", "timeout"} => OnFile(m.kind, m.id)

\* An incident that was resolved and that no thread and no queued job still
\* refers to is closed for good: a re-delivery, a new episode, a crash or
\* another incident of the same alert never reopens or rewrites it.
Unreferenced(i) ==
    /\ \A t \in Threads : copy[t] # NoIncident => copy[t].incident_id # i
    /\ \A n \in DOMAIN queue : queue[n] # i

SettledIncidentsStay ==
    [][\A i \in DOMAIN rows :
          rows[i].status = "RESOLVED" /\ Unreferenced(i)
            => i \in DOMAIN rows' /\ rows'[i] = rows[i]]_vars

Concluded(inc) ==
    \/ inc.investigation_state \in {"TIMED_OUT", "WAITING_FOR_RESOLUTION"}
    \/ inc.status = "INVESTIGATION_FAILED"

\* While no exception leaves a run and the process stays up, a run shows how it
\* ended "by the time it returns" (orchestrator.py:112-114): an incident whose
\* run began, that nobody works on any more and that was not resolved, has a
\* result, a timeout or a failure on file, also if others saved it meanwhile.
RunsConclude ==
    Escapes \subseteq {"announce"} /\ crashes = 0 =>
        \A i \in DOMAIN rows :
            /\ Unreferenced(i)
            /\ rows[i].status # "RESOLVED"
            /\ rows[i].investigation_state # "ALERT_RECEIVED"
            => Concluded(rows[i])

\* While no exception escapes, no incident that somebody works on or that waits
\* for a worker is left behind once the process stays up: it reaches the end of
\* its investigation or is resolved, however many wait, also when the agent was
\* restarted over older incidents (orchestrator.py:57-58, 119-216).
NoIncidentLeftBehind ==
    \A i \in Incidents :
        i \in DOMAIN rows /\ ~Unreferenced(i) /\ crashes = MaxCrashes
          ~> i \in DOMAIN rows /\ (Concluded(rows[i]) \/ rows[i].status = "RESOLVED")
-----------------------------------------------------------------------------
(* The inductive invariant behind the safety properties.                   *)

\* Every incident somebody refers to has a row.
HeldRowsExist ==
    /\ \A t \in Threads : copy[t] # NoIncident => copy[t].incident_id \in DOMAIN rows
    /\ \A n \in DOMAIN queue : queue[n] \in DOMAIN rows

\* The incident still waits for its run.
Waiting(i) ==
    \/ \E n \in DOMAIN queue : queue[n] = i
    \/ \E t \in Threads : pc[t] \in CreatorPcs /\ copy[t].incident_id = i

\* The copy a resolver is about to save over a waiting incident is as fresh.
ResolversFresh ==
    \A t \in Threads :
        pc[t] = "saveResolved" /\ Waiting(copy[t].incident_id)
          => copy[t].investigation_state = "ALERT_RECEIVED"

\* What a thread's copy looks like at each point of its program.
CopyFits(label, inc) ==
    LET early == {"ALERT_RECEIVED", "INVESTIGATION_STARTED", "RESOLVED"}
    IN  /\ label \in {"idle", "lookup", "create"} => inc = NoIncident
        /\ label \in CreatorPcs => inc.investigation_state = "ALERT_RECEIVED"
        /\ label = "postResolution" => inc.slack_thread_ts # None
        /\ label \in {"saveCollecting", "playbook"} =>
              inc.investigation_state = "DATA_COLLECTION" /\ inc.status \in early
        /\ label = "saveFailed" =>
              inc.investigation_state = "DATA_COLLECTION" /\ inc.status = "INVESTIGATION_FAILED"
        /\ label \in {"saveTimeout", "postTimeout", "saveTimeoutThread"} =>
              inc.investigation_state = "TIMED_OUT"
        /\ label \in {"saveValidating", "generate"} =>
              inc.investigation_state = "HYPOTHESIS_VALIDATION" /\ inc.status \in early
        /\ label \in {"saveRca", "postRca", "remediate"} =>
              /\ inc.investigation_state = "RCA_GENERATED"
              /\ inc.status \in {"ROOT_CAUSE_IDENTIFIED", "INSUFFICIENT_EVIDENCE"}
        /\ label = "saveFinal" => inc.investigation_state = "WAITING_FOR_RESOLUTION"

CopyMatchesPc == \A t \in Threads : CopyFits(pc[t], copy[t])

\* Once a verdict is posted the incident is past its run, or at the end of it.
VerdictIsLast ==
    \A m \in slack : m.kind \in {"rca", "timeout"} =>
        /\ m.id \in DOMAIN rows
        /\ \A n \in DOMAIN queue : queue[n] # m.id
        /\ \A t \in Threads : Owns(t) /\ copy[t].incident_id = m.id =>
              pc[t] \in IF m.kind = "rca" THEN {"remediate", "saveFinal"}
                                         ELSE {"saveTimeoutThread"}

\* A verdict that is about to be posted is on file, and so stays: the only
\* saves from outside the run are those that close the incident.
ReportIsOnFile ==
    \A t \in Threads :
        /\ pc[t] \in {"postRca", "remediate"} => OnFile("rca", copy[t].incident_id)
        /\ pc[t] = "postTimeout" => OnFile("timeout", copy[t].incident_id)
        /\ pc[t] = "saveResolved" => copy[t].status = "RESOLVED"

\* Where runs are only ended by their own code, an incident under way is being
\* run or has been concluded.
RunsShow ==
    Escapes \subseteq {"announce"} /\ crashes = 0 =>
        \A i \in DOMAIN rows :
            rows[i].status # "RESOLVED" /\ rows[i].investigation_state # "ALERT_RECEIVED"
              => \/ Concluded(rows[i])
                 \/ \E t \in Threads : pc[t] \in RunnerPcs /\ copy[t].incident_id = i

\* Type, ownership, freshness, coherence, the order of the verdict, its record
\* and the conclusion of runs together are preserved by every step.
IndInv ==
    /\ TypeOK /\ HeldRowsExist /\ SingleOwner /\ WaitingIsFresh /\ ResolversFresh
    /\ CopyMatchesPc /\ RowsCoherent /\ OneVerdictPerIncident /\ VerdictIsLast
    /\ PostedIsOnFile /\ ReportIsOnFile /\ RunsShow
-----------------------------------------------------------------------------
(* What comments and documents of the repository say and the code does not *)
(* do under every interleaving.                                            *)

\* "do not start a second investigation" for a fingerprint with an active
\* incident (orchestrator.py:50-53, store.py:5-7).
OneActivePerFingerprint ==
    \A f \in Fingerprints : Cardinality(Active(rows, f)) <= 1

\* After a resolve call the incident is RESOLVED (main.py:165-167), the last
\* state of the lifecycle (agent-spec.md #10).
ResolvedIsFinal ==
    [][\A i \in DOMAIN rows : rows[i].status = "RESOLVED" => rows'[i].status = "RESOLVED"]_vars
=============================================================================
