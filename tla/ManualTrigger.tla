---------------------------- MODULE ManualTrigger ----------------------------
(***************************************************************************)
(* POST /investigate of app/main.py beside the webhook.  A manual call     *)
(* hands an alert to handle_webhook_alert exactly as a webhook does, but   *)
(* its status is what the caller chose and its date the second of the call,*)
(* whatever the alert of that fingerprint really does.  What the endpoint  *)
(* adds is the incident id of its answer, which it does not get from the   *)
(* handling but looks up on its own: before a resolution, while the        *)
(* incident is still active, and after anything else.  Each lookup is a    *)
(* store call of its own, so other threads run in between.                 *)
(*                                                                         *)
(* Dates are compared as the TEXT of startsAt (ORDER BY start_time on a    *)
(* TEXT column).  The manual stamp of second s ("...:05Z") is 2*s+1; the   *)
(* startsAt of an episode that began in second s has a fraction            *)
(* ("...:05.123Z"), which sorts before it, 2*s, or has none, 2*s+1.        *)
(*                                                                         *)
(* Environment.  Alertmanager's clock is the agent's, and the episodes of  *)
(* one alert begin in different seconds (rules are evaluated every few     *)
(* seconds).  A call that is refused (token, rate limit, validation)       *)
(* reaches nothing and is not shown, and neither are questions to /ask:    *)
(* each has a fingerprint of its own, drawn by the server, which no other  *)
(* call can name.                                                          *)
(***************************************************************************)
EXTENDS Episodes

CONSTANTS MaxClock  \* bound: seconds of the clock

VARIABLES now,     \* the second it is
          since,   \* [AlertFingerprints -> Nat]: startsAt of the last episode
          call,    \* the manual call each request thread serves
          told,    \* the incident id of its answer, or NoIncident
          meant    \* the incident its alert opened, found active or resolved

clock == <<now, since>>
calls == <<call, told, meant>>
mvars == <<vars, clock, calls>>

Phases == {"none", "before", "handling", "after", "answered"}
Call == [phase : Phases, kind : {"none", "firing", "resolved"},
         fp : Fingerprints \cup {None}, start : Nat]
NoCall == [phase |-> "none", kind |-> "none", fp |-> None, start |-> 0]

MInit ==
    /\ Init
    /\ now = 1
    /\ since = [f \in AlertFingerprints |-> 0]
    /\ call = [h \in Handlers |-> NoCall]
    /\ told = [h \in Handlers |-> NoIncident]
    /\ meant = [h \in Handlers |-> NoIncident]

Tick ==
    /\ now < MaxClock
    /\ now' = now + 1
    /\ UNCHANGED <<vars, since, calls>>

\* The second it is, as the agent writes it.
Stamp == 2 * now + 1

\* An alert stops, or starts firing at some moment of the second it is.
AlertTurns(f) ==
    /\ AlertChanges(f)
    /\ IF Firing(f)
         THEN UNCHANGED since
         ELSE /\ since[f] \div 2 < now
              /\ \E date \in {2 * now, Stamp} : since' = [since EXCEPT ![f] = date]
    /\ UNCHANGED <<now, calls>>

Proceed(h, phase) == call' = [call EXCEPT ![h].phase = phase]

\* The request is over.
Finish(h) ==
    /\ call' = [call EXCEPT ![h] = NoCall]
    /\ told' = [told EXCEPT ![h] = NoIncident]
    /\ meant' = [meant EXCEPT ![h] = NoIncident]

\* Alertmanager sends what it sees of alert f, a re-delivery with the startsAt
\* of the first.
AlertmanagerWebhook(h, f) ==
    /\ call[h] = NoCall
    /\ alert[f] > 0
    /\ Receive(h, IF Firing(f) THEN "firing" ELSE "resolved", f, since[f])
    /\ UNCHANGED <<clock, calls>>

\* A caller fires or resolves a fingerprint of its choice, one of its own or
\* that of a real alert in any state.
ManualInvestigate(h, f, kind) ==
    /\ call[h] = NoCall
    /\ Receive(h, kind, f, Stamp)
    /\ call' = [call EXCEPT ![h] =
          [phase |-> IF kind = "resolved" THEN "before" ELSE "handling",
           kind |-> kind, fp |-> f, start |-> Stamp]]
    /\ UNCHANGED <<clock, told, meant>>

\* store.get_active_by_fingerprint, and the id of what it returns.
LookUp(h) ==
    LET active == GetActive(rows, call[h].fp)
    IN  \E id \in IF active = {} THEN {NoIncident} ELSE {inc.incident_id : inc \in active} :
            told' = [told EXCEPT ![h] = id]

LookUpBefore(h) ==
    /\ call[h].phase = "before"
    /\ LookUp(h)
    /\ Proceed(h, "handling")
    /\ UNCHANGED <<vars, clock, meant>>

LookUpAfter(h) ==
    /\ call[h].phase = "after"
    /\ LookUp(h)
    /\ Proceed(h, "answered")
    /\ UNCHANGED <<vars, clock, meant>>

\* The incident a step of the handling is about, while there is one.
IsMeant(h) ==
    \/ /\ copy'[h] # NoIncident
       /\ meant' = [meant EXCEPT ![h] = copy'[h].incident_id]
    \/ /\ FiringIsDuplicate(h)
       /\ \E inc \in GetActive(rows, event[h].fp) :
             meant' = [meant EXCEPT ![h] = inc.incident_id]
    \/ /\ copy'[h] = NoIncident /\ ~FiringIsDuplicate(h)
       /\ UNCHANGED meant

\* Mutation: the alert is handled before its incident has been looked up.
HandleManually_Early(h) ==
    /\ call[h].phase \in {"before", "handling"}
    /\ HandleAlert(h)
    /\ IsMeant(h)
    /\ IF pc'[h] # "idle" THEN UNCHANGED call
       ELSE Proceed(h, IF call[h].kind = "firing" THEN "after" ELSE "answered")
    /\ UNCHANGED <<clock, told>>

\* handle_webhook_alert on the thread of the call, and its return to it.
HandleManually(h) ==
    /\ call[h].phase = "handling"
    /\ HandleAlert(h)
    /\ IsMeant(h)
    /\ IF pc'[h] # "idle" THEN UNCHANGED call
       ELSE Proceed(h, IF call[h].kind = "firing" THEN "after" ELSE "answered")
    /\ UNCHANGED <<clock, told>>

\* The exception that leaves handle_webhook_alert is the answer: status 500.
FailManually(h) ==
    /\ call[h].phase = "handling"
    /\ Escape(h)
    /\ Finish(h)
    /\ UNCHANGED clock

\* The answer is sent.
Answer(h) ==
    /\ call[h].phase = "answered"
    /\ Finish(h)
    /\ UNCHANGED <<vars, clock>>

\* The handling of what Alertmanager delivered.
ServeOthers(h) ==
    /\ call[h] = NoCall
    /\ HandlerStep(h)
    /\ UNCHANGED <<clock, calls>>

Serve(h) ==
    \/ \E f \in AlertFingerprints : AlertmanagerWebhook(h, f)
    \/ \E f \in AlertFingerprints, kind \in {"firing", "resolved"} :
          ManualInvestigate(h, f, kind)
    \/ ServeOthers(h)
    \/ LookUpBefore(h) \/ HandleManually(h) \/ FailManually(h)
    \/ LookUpAfter(h) \/ Answer(h)

RunOnWorker(w) == WorkerStep(w) /\ UNCHANGED <<clock, calls>>

CrashAll ==
    /\ Crash
    /\ call' = [h \in Handlers |-> NoCall]
    /\ told' = [h \in Handlers |-> NoIncident]
    /\ meant' = [h \in Handlers |-> NoIncident]
    /\ UNCHANGED clock

MNext ==
    \/ Tick
    \/ \E f \in AlertFingerprints : AlertTurns(f)
    \/ \E h \in Handlers : Serve(h)
    \/ \E w \in Workers : RunOnWorker(w)
    \/ CrashAll

MSpec == MInit /\ [][MNext]_mvars
-----------------------------------------------------------------------------
\* A thread is in one call at a time, and names an incident only with a row.
MTypeOK ==
    /\ TypeOK
    /\ now \in Nat
    /\ since \in [AlertFingerprints -> Nat]
    /\ call \in [Handlers -> Call]
    /\ told \in [Handlers -> Incidents \cup {NoIncident}]
    /\ meant \in [Handlers -> Incidents \cup {NoIncident}]
    /\ \A h \in Handlers : call[h].phase \in {"before", "after"} =>
          pc[h] = IF call[h].phase = "before" THEN "lookup" ELSE "idle"

\* Row j of the table is dated no earlier than row i.
NoEarlier(j, i) == {i, j} \subseteq DOMAIN rows /\ rows[i].start_time <= rows[j].start_time

\* With one request at a time a firing call is told the incident it opened or
\* found, or a later one of its fingerprint; one it opened can only be mistaken
\* for another incident of the same second, whatever runs save their status
\* between the two lookups.  A resolving call that is told an incident has
\* resolved that one or a later one (main.py:154-177 over
\* orchestrator.py:48-58, 84-91).
AnswerNamesIncident ==
    Serial =>
        \A h \in Handlers : call[h].phase = "answered" =>
            /\ call[h].kind = "firing" =>
                  /\ NoEarlier(told[h], meant[h])
                  /\ rows[meant[h]].start_time = call[h].start =>
                        told[h] = meant[h] \/ rows[told[h]].start_time = call[h].start
            /\ call[h].kind = "resolved" /\ told[h] # NoIncident =>
                  NoEarlier(meant[h], told[h])
            /\ told[h] # NoIncident => rows[told[h]].alert_fingerprint = call[h].fp
-----------------------------------------------------------------------------
(* The inductive invariant behind it, on top of IndInv and ThreadInv.      *)

\* Nothing is dated later than the second it is.
NothingAhead ==
    /\ \A f \in AlertFingerprints : since[f] <= Stamp
    /\ \A i \in DOMAIN rows : rows[i].start_time <= Stamp
    /\ \A h \in Handlers : event[h] # NoEvent => event[h].start <= Stamp

\* Incident i is of the call's alert and open.
OpenFor(h, i) ==
    /\ i \in DOMAIN rows
    /\ rows[i].alert_fingerprint = call[h].fp
    /\ rows[i].status # "RESOLVED"

\* In each phase the alert in the thread's hands is that of the call, and the
\* incident in its hands is the one it means.
CallFits(h) ==
    LET c == call[h]
    IN  /\ c.phase # "none" => c.kind # "none"
        /\ c.phase \in {"none", "before"} => told[h] = NoIncident /\ meant[h] = NoIncident
        /\ c.phase \in {"before", "handling"} =>
              event[h] = [kind |-> c.kind, fp |-> c.fp, start |-> c.start]
        /\ c.phase = "before" => c.kind = "resolved"
        /\ c.phase = "after" => c.kind = "firing"
        /\ c.phase # "none" /\ copy[h] # NoIncident => meant[h] = copy[h].incident_id

\* No incident of its alert is later than a firing call, and what it opened or
\* found is open until it looks again.
FiringCallFits(h) ==
    /\ \A i \in DOMAIN rows : rows[i].alert_fingerprint = call[h].fp
                             => rows[i].start_time <= call[h].start
    /\ call[h].phase \in {"handling", "after"} => told[h] = NoIncident
    /\ pc[h] \in CreatorPcs =>
          /\ copy[h].start_time = call[h].start
          /\ copy[h].status # "RESOLVED" /\ rows[copy[h].incident_id].status # "RESOLVED"
    /\ call[h].phase = "after" => OpenFor(h, meant[h])

\* What a resolving call found is open until it is resolved, or one after it.
ResolvingCallFits(h) ==
    call[h].phase = "handling" /\ told[h] # NoIncident =>
        IF pc[h] = "lookup"
          THEN OpenFor(h, told[h])
          ELSE /\ NoEarlier(meant[h], told[h])
               /\ rows[told[h]].alert_fingerprint = call[h].fp

\* A run that was begun on a closed incident has not opened it yet.
RunsFindItClosed ==
    \A t \in Threads : pc[t] \in RunnerPcs /\ copy[t].status = "RESOLVED" =>
        rows[copy[t].incident_id].status = "RESOLVED"

\* What the lookups rest on: the dates, the thread of the call, and that only
\* a resolving request closes what is open.
AnswerInv ==
    /\ NothingAhead
    /\ RunsFindItClosed
    /\ Serial => \A h \in Handlers :
          /\ CallFits(h)
          /\ call[h].kind = "firing" => FiringCallFits(h)
          /\ call[h].kind = "resolved" => ResolvingCallFits(h)
=============================================================================
