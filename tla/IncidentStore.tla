---------------------------- MODULE IncidentStore ----------------------------
(***************************************************************************)
(* The incident table of app/state/store.py and its four calls.            *)
(*                                                                         *)
(* Every call takes one lock and opens, commits and closes one SQLite      *)
(* connection (_db, lines 67-75), so each is one atomic step of whoever    *)
(* makes it.  What is NOT atomic is a caller that reads a row, works on    *)
(* its own copy and saves the copy later: save writes every mutable column *)
(* of the copy, whatever the row has become meanwhile.                     *)
(*                                                                         *)
(* The table is a function from the primary keys in use to records.  The   *)
(* labels, the evidence and hypotheses lists and last_update are left out: *)
(* no decision reads them back.  root_cause is present or absent;          *)
(* confidence is unset, "Unknown", or "Rated" (Low, Medium or High, which  *)
(* module RcaEngine tells apart and no code of the orchestrator does);     *)
(* slack_thread_ts is unset, the thread of the investigation-started       *)
(* message ("parent") or that of a message posted later because there was  *)
(* no parent ("standalone").                                               *)
(***************************************************************************)
EXTENDS Naturals

CONSTANTS Incidents,       \* the uuids that store.create may draw
          Fingerprints     \* alert fingerprints

None == "none"

Statuses == {"ALERT_RECEIVED", "INVESTIGATION_STARTED", "INVESTIGATION_FAILED",
             "ROOT_CAUSE_IDENTIFIED", "INSUFFICIENT_EVIDENCE",
             "SLACK_REPORTED", "RESOLVED"}

InvestigationStates == {"ALERT_RECEIVED", "DATA_COLLECTION",
                        "HYPOTHESIS_VALIDATION", "RCA_GENERATED",
                        "WAITING_FOR_RESOLUTION", "TIMED_OUT"}

Incident == [incident_id : Incidents,
             alert_fingerprint : Fingerprints,
             start_time : Nat,
             status : Statuses,
             investigation_state : InvestigationStates,
             root_cause : BOOLEAN,
             confidence : {None, "Unknown", "Rated"},
             slack_thread_ts : {None, "parent", "standalone"}]

\* A table: some of the ids, each with a row that carries its own id.
IsTable(rows) ==
    /\ DOMAIN rows \subseteq Incidents
    /\ rows \in [DOMAIN rows -> Incident]
    /\ \A i \in DOMAIN rows : rows[i].incident_id = i

EmptyTable == [i \in {} |-> None]

NewIncident(id, fingerprint, start) ==
    [incident_id |-> id,
     alert_fingerprint |-> fingerprint,
     start_time |-> start,
     status |-> "ALERT_RECEIVED",
     investigation_state |-> "ALERT_RECEIVED",
     root_cause |-> FALSE,
     confidence |-> None,
     slack_thread_ts |-> None]

Put(rows, inc) ==
    [i \in DOMAIN rows \cup {inc.incident_id} |->
        IF i = inc.incident_id THEN inc ELSE rows[i]]

\* store.create draws a uuid no row has, so the INSERT never replaces one.
Create(rows, inc) == Put(rows, inc)

\* store.save: UPDATE ... WHERE incident_id = ?, all mutable columns at once.
Save(rows, inc) == IF inc.incident_id \in DOMAIN rows THEN Put(rows, inc) ELSE rows

\* Mutation: only an investigation still under way counts as active.
Active_UnderWayOnly(rows, fingerprint) ==
    {i \in DOMAIN rows : /\ rows[i].alert_fingerprint = fingerprint
                         /\ rows[i].status \in {"ALERT_RECEIVED", "INVESTIGATION_STARTED"}}

Active(rows, fingerprint) ==
    {i \in DOMAIN rows : /\ rows[i].alert_fingerprint = fingerprint
                         /\ rows[i].status # "RESOLVED"}

\* Mutation: ORDER BY start_time without DESC.
GetActive_OldestFirst(rows, fingerprint) ==
    LET active == Active(rows, fingerprint)
    IN  {rows[i] : i \in {j \in active :
            \A k \in active : rows[j].start_time <= rows[k].start_time}}

\* store.get_active_by_fingerprint: ORDER BY start_time DESC LIMIT 1.  The
\* query does not order rows of equal start_time: any of them may come back.
GetActive(rows, fingerprint) ==
    LET active == Active(rows, fingerprint)
    IN  {rows[i] : i \in {j \in active :
            \A k \in active : rows[k].start_time <= rows[j].start_time}}
=============================================================================
