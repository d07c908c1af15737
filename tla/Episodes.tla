------------------------------ MODULE Episodes ------------------------------
(***************************************************************************)
(* What the orchestrator promises about the episodes of an alert: one      *)
(* incident for each, one Slack thread for each incident, and one          *)
(* investigation that goes through the stages of module IncidentLifecycle  *)
(* as long as the episode lasts.                                           *)
(*                                                                         *)
(* None of it holds for every interleaving.  The first two need requests   *)
(* that do not overlap; the third needs that, or an alert without an       *)
(* earlier episode, whose resolution could find the new incident.          *)
(* The first and the third are about Alertmanager's deliveries (Spec), the *)
(* second holds for deliveries of any status and date (OpenSpec).          *)
(***************************************************************************)
EXTENDS Orchestrator

\* Requests are handled one at a time.
Serial == \E h \in Handlers : Handlers = {h}

\* No resolution can be late enough to meet an incident of the next episode.
NewsInTime == Serial \/ MaxTransitions <= 2

\* The episode the incident was opened for is over.
EpisodeOver(inc) ==
    /\ inc.alert_fingerprint \in AlertFingerprints
    /\ alert[inc.alert_fingerprint] >= 2 * inc.start_time
-----------------------------------------------------------------------------
\* With one of Alertmanager's deliveries at a time an episode of an alert has
\* one incident, however often it is re-delivered, whatever fails, and across
\* restarts of the agent (store.py:5-7, orchestrator.py:48-55).  A manual call
\* that closes it while the alert fires (module ManualTrigger) undoes this.
OneIncidentPerEpisode ==
    Serial =>
        \A i, j \in DOMAIN rows :
            /\ rows[i].alert_fingerprint = rows[j].alert_fingerprint
            /\ rows[i].start_time = rows[j].start_time
            => i = j

\* An announcement whose answer was lost: a parent nothing is posted under.
Orphan(m) == m.kind = "started" /\ m.thread = "lost"

\* With one request at a time, everything Slack is told of an incident is in
\* one thread: the parent's, or that of the first post that knew no parent.
\* Only an announcement whose answer was lost stands apart.  Overlapping
\* requests can take the parent out of the row before the run reads it
\* (orchestrator.py:72-79, 90-95, 186-205, 268-272, slack/client.py:46-56).
OneThreadPerIncident ==
    Serial =>
        \A m, n \in slack :
            m.id = n.id => m.thread = n.thread \/ Orphan(m) \/ Orphan(n)
-----------------------------------------------------------------------------
(* The investigation as module IncidentLifecycle promises it, read off the *)
(* table: a row's stage is its investigation_state until the episode of    *)
(* its alert ends, its verdict follows from its status, its RCA columns    *)
(* and its stage.                                                          *)

StageOf(i) ==
    IF i \notin DOMAIN rows THEN "absent"
    ELSE IF EpisodeOver(rows[i]) THEN "ended"
    ELSE rows[i].investigation_state

VerdictOf(i) ==
    IF i \notin DOMAIN rows \/ StageOf(i) = "ended" THEN "open"
    ELSE IF rows[i].status = "INVESTIGATION_FAILED" THEN "failed"
    ELSE IF rows[i].root_cause THEN "cause"
    ELSE IF rows[i].investigation_state \in
              {"RCA_GENERATED", "WAITING_FOR_RESOLUTION", "TIMED_OUT"} THEN "insufficient"
    ELSE "open"

Lifecycle == INSTANCE IncidentLifecycle WITH
    stage <- [i \in Incidents |-> StageOf(i)],
    verdict <- [i \in Incidents |-> VerdictOf(i)]

\* As long as the episode of its alert lasts, every investigation follows the
\* lifecycle: whatever fails, if the agent restarts in the middle, and however
\* late the news of an earlier episode comes.  It needs that deliveries do not
\* overlap, or that the alert has had no earlier episode
\* (orchestrator.py:84-91, 110-222, 254-274).
FollowsLifecycle == Lifecycle!Spec
-----------------------------------------------------------------------------
(* The inductive invariants behind these three, on top of IndInv.          *)

\* The incident of thread t, if it has one, is the one with id i.
Holds(t, i) == copy[t] # NoIncident /\ copy[t].incident_id = i

\* A thread is only where its kind of work takes it: workers in runs, request
\* threads where the alert in their hands belongs.
WorkFits ==
    /\ \A w \in Workers : event[w] = NoEvent /\ pc[w] \in {"idle"} \cup RunnerPcs
    /\ \A h \in Handlers :
          LET kind == event[h].kind
          IN  /\ pc[h] = "idle" <=> event[h] = NoEvent
              /\ pc[h] = "lookup" => kind \in {"firing", "resolved"}
              /\ pc[h] \in {"create", "announce", "saveStarted"} => kind \in {"firing", "ask"}
              /\ pc[h] = "submit" => kind = "firing"
              /\ pc[h] \in {"load"} \cup RunnerPcs => kind = "ask"
              /\ pc[h] \in ResolverPcs => kind = "resolved"
              /\ event[h] # NoEvent => (kind = "ask" <=> event[h].fp \in AskFingerprints)

\* Every copy is of the alert its row is of, and a request works on an
\* incident of its own alert.
CopiesIdentify ==
    /\ \A t \in Threads : copy[t] # NoIncident =>
          LET row == rows[copy[t].incident_id]
          IN  /\ copy[t].alert_fingerprint = row.alert_fingerprint
              /\ copy[t].start_time = row.start_time
    /\ \A h \in Handlers : copy[h] # NoIncident =>
          copy[h].alert_fingerprint = event[h].fp

\* Nothing is dated ahead of its alert, and an alert is told to be resolved
\* only once it was.
DatesFit ==
    /\ \A f \in AlertFingerprints : alert[f] <= MaxTransitions
    /\ \A i \in DOMAIN rows :
          LET f == rows[i].alert_fingerprint
          IN  f \in AlertFingerprints =>
                /\ 1 <= rows[i].start_time
                /\ 2 * rows[i].start_time <= alert[f] + 1
    /\ \A h \in Handlers : event[h] # NoEvent /\ event[h].kind # "ask" =>
          /\ 1 <= event[h].start
          /\ 2 * event[h].start <=
                IF event[h].kind = "firing" THEN alert[event[h].fp] + 1 ELSE alert[event[h].fp]

\* Nothing is closed, or about to be, before its episode is over.
ClosedAreOver ==
    /\ \A i \in DOMAIN rows : rows[i].status = "RESOLVED" => EpisodeOver(rows[i])
    /\ \A t \in Threads : copy[t] # NoIncident /\ copy[t].status = "RESOLVED" =>
          EpisodeOver(copy[t])
    /\ \A h \in Handlers : event[h] # NoEvent /\ event[h].kind = "resolved" =>
          \A i \in DOMAIN rows :
              rows[i].alert_fingerprint = event[h].fp => EpisodeOver(rows[i])

\* What a run has on file at each point of its program.
StageAt(label) ==
    CASE label = "saveCollecting" -> "ALERT_RECEIVED"
      [] label \in {"playbook", "saveFailed", "saveTimeout", "saveValidating"} -> "DATA_COLLECTION"
      [] label \in {"postTimeout", "saveTimeoutThread"} -> "TIMED_OUT"
      [] label \in {"generate", "saveRca"} -> "HYPOTHESIS_VALIDATION"
      [] label \in {"postRca", "remediate", "saveFinal"} -> "RCA_GENERATED"

\* As long as its episode lasts nobody else saves the incident of a run.
RunsOnFile ==
    \A t \in Threads : pc[t] \in RunnerPcs /\ ~EpisodeOver(copy[t]) =>
        LET row == rows[copy[t].incident_id]
        IN  /\ row.investigation_state = StageAt(pc[t])
            /\ row.status # "INVESTIGATION_FAILED"
            /\ StageAt(pc[t]) = "RCA_GENERATED" => row.root_cause = copy[t].root_cause

\* A request meets the incidents of its alert up to the episode it is about,
\* and if it opens one, that episode has none.
EpisodesApart ==
    \A h \in Handlers : event[h] # NoEvent =>
        \A i \in DOMAIN rows : rows[i].alert_fingerprint = event[h].fp =>
            /\ rows[i].start_time <= event[h].start
            /\ pc[h] = "create" => event[h].kind = "firing" /\ rows[i].start_time # event[h].start
            /\ event[h].kind = "firing" /\ rows[i].start_time = event[h].start =>
                  /\ rows[i].status # "RESOLVED"
                  /\ \A t \in Threads : Holds(t, i) => copy[t].status # "RESOLVED"

\* Slack has been told of incident i in the given thread.
Told(i, thread) == \E m \in slack : m.id = i /\ m.thread = thread

Queued(i) == \E n \in DOMAIN queue : queue[n] = i

\* Threads are on record only once they exist, an incident is first announced,
\* and its parent stays on record until its run has read it.
ParentsKept ==
    /\ \A m \in slack : m.id \in DOMAIN rows
    /\ \A i \in DOMAIN rows : rows[i].slack_thread_ts # None => Told(i, rows[i].slack_thread_ts)
    /\ \A t \in Threads : copy[t] # NoIncident /\ copy[t].slack_thread_ts # None =>
          Told(copy[t].incident_id, copy[t].slack_thread_ts)
    /\ \A t \in Threads, m \in slack : pc[t] = "announce" => m.id # copy[t].incident_id
    /\ \A i \in DOMAIN rows : Told(i, "parent") =>
          /\ Queued(i) => rows[i].slack_thread_ts = "parent"
          /\ \A t \in Threads : Holds(t, i) =>
                /\ pc[t] \in {"saveStarted", "submit", "load"} \cup RunnerPcs =>
                      copy[t].slack_thread_ts = "parent"
                /\ pc[t] \in {"submit", "load"} => rows[i].slack_thread_ts = "parent"
                /\ pc[t] = "saveResolved" /\ Queued(i) => copy[t].slack_thread_ts = "parent"

\* Only a verdict begins a thread of its own; where its answer was lost, that
\* thread stays unknown.
VerdictsBegin ==
    \A m \in slack :
        /\ m.thread = "standalone" =>
              \E n \in slack : n.id = m.id /\ n.kind \in {"rca", "timeout"}
        /\ m.thread = "lost" /\ ~Orphan(m) =>
              /\ m.kind \in {"rca", "timeout"}
              /\ rows[m.id].slack_thread_ts = None
              /\ \A t \in Threads : Holds(t, m.id) => copy[t].slack_thread_ts = None

\* The part that holds whoever sends the alerts: who works on what, and what
\* Slack was told of it.
ThreadInv ==
    /\ WorkFits /\ CopiesIdentify
    /\ Serial => ParentsKept /\ VerdictsBegin

\* The part that rests on Alertmanager's dates and states.
EpisodeInv ==
    /\ DatesFit
    /\ NewsInTime => ClosedAreOver /\ RunsOnFile
    /\ Serial => EpisodesApart
=============================================================================
