-------------------------- MODULE IncidentLifecycle --------------------------
(***************************************************************************)
(* What one investigation promises, seen from the incident table: each     *)
(* incident goes forward through the stages of an investigation, once, and *)
(* its verdict is reached in one step and never changed, as long as the    *)
(* alert it is about lasts.  The alert may end at any time, and with it    *)
(* the promise.  The stages are those of agent-spec.md #10 that the code   *)
(* stores, and "ended".                                                    *)
(***************************************************************************)
CONSTANT Incidents

VARIABLES stage,     \* [Incidents -> Stages]
          verdict    \* [Incidents -> Verdicts]

Stages == {"absent", "ALERT_RECEIVED", "DATA_COLLECTION", "HYPOTHESIS_VALIDATION",
           "RCA_GENERATED", "WAITING_FOR_RESOLUTION", "TIMED_OUT", "ended"}
Verdicts == {"open", "cause", "insufficient", "failed"}

Init ==
    /\ stage = [i \in Incidents |-> "absent"]
    /\ verdict = [i \in Incidents |-> "open"]

Advance(i, from, to, v) ==
    /\ stage[i] = from
    /\ verdict[i] = "open"
    /\ stage' = [stage EXCEPT ![i] = to]
    /\ verdict' = [verdict EXCEPT ![i] = v]

Open(i) == Advance(i, "absent", "ALERT_RECEIVED", "open")
Collect(i) == Advance(i, "ALERT_RECEIVED", "DATA_COLLECTION", "open")
Fail(i) == Advance(i, "DATA_COLLECTION", "DATA_COLLECTION", "failed")
TimeOut(i) == Advance(i, "DATA_COLLECTION", "TIMED_OUT", "insufficient")
Validate(i) == Advance(i, "DATA_COLLECTION", "HYPOTHESIS_VALIDATION", "open")
Conclude(i) == \E v \in {"cause", "insufficient"} :
                  Advance(i, "HYPOTHESIS_VALIDATION", "RCA_GENERATED", v)

AwaitResolution(i) ==
    /\ stage[i] = "RCA_GENERATED"
    /\ stage' = [stage EXCEPT ![i] = "WAITING_FOR_RESOLUTION"]
    /\ UNCHANGED verdict

\* The alert of some incidents is over: nothing is promised of them any more.
End(over) ==
    /\ stage' = [i \in Incidents |-> IF i \in over THEN "ended" ELSE stage[i]]
    /\ verdict' = [i \in Incidents |-> IF i \in over THEN "open" ELSE verdict[i]]

Next ==
    \/ \E over \in SUBSET Incidents : End(over)
    \/ \E i \in Incidents :
          \/ Open(i) \/ Collect(i) \/ Fail(i) \/ TimeOut(i)
          \/ Validate(i) \/ Conclude(i) \/ AwaitResolution(i)

Spec == Init /\ [][Next]_<<stage, verdict>>
=============================================================================
