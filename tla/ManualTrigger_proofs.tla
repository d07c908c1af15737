------------------------ MODULE ManualTrigger_proofs ------------------------
(***************************************************************************)
(* A manual call brings an alert of any status, dated by the clock.  Each  *)
(* step of the composition is then a step of OpenSpec, the orchestrator    *)
(* under deliveries of whatever status and date, or leaves its state       *)
(* alone; so what is proved of OpenSpec holds with /investigate in use,    *)
(* and what rests on Alertmanager's own dates and states does not follow.  *)
(* The last part proves what the callers of /investigate are told, from an *)
(* invariant about the dates and the call of each request thread.          *)
(***************************************************************************)
EXTENDS ManualTrigger, Episodes_proofs, WellFoundedInduction

\* The clock and the dates Alertmanager sends are numbers.
ClockTyped == now \in Nat /\ since \in [AlertFingerprints -> Nat]

LEMMA ClockTypedStep == ClockTyped /\ [MNext]_mvars => ClockTyped'
<1> SUFFICES ASSUME ClockTyped, [MNext]_mvars PROVE ClockTyped'
  OBVIOUS
<1> USE DEF ClockTyped
<1>1. CASE Tick
  BY <1>1 DEF Tick
<1>2. ASSUME NEW f \in AlertFingerprints, AlertTurns(f) PROVE ClockTyped'
  <2>1. 2 * now \in Nat /\ Stamp \in Nat
    BY DEF Stamp
  <2> QED BY <1>2, <2>1 DEF AlertTurns
<1>3. ASSUME UNCHANGED clock PROVE ClockTyped'
  BY <1>3 DEF clock
<1>4. ASSUME NEW h \in Handlers, Serve(h) PROVE UNCHANGED clock
  BY <1>4 DEF Serve, AlertmanagerWebhook, ManualInvestigate, ServeOthers, LookUpBefore,
     HandleManually, FailManually, LookUpAfter, Answer
<1>5. CASE CrashAll \/ (\E w \in Workers : RunOnWorker(w)) \/ UNCHANGED mvars
  BY <1>3, <1>5 DEF CrashAll, RunOnWorker, mvars
<1> QED BY <1>1, <1>2, <1>3, <1>4, <1>5 DEF MNext

LEMMA StepIsOpen ==
    ASSUME ClockTyped, [MNext]_mvars
    PROVE  [OpenNext]_vars
<1>1. ASSUME NEW h \in Handlers, Serve(h) PROVE [OpenNext]_vars
  <2>1. ASSUME NEW f \in AlertFingerprints, NEW kind \in {"firing", "resolved"}, NEW start \in Nat,
               Receive(h, kind, f, start)
        PROVE  OpenNext
    BY <2>1 DEF OpenNext, Delivery
  <2>2. ASSUME HandlerStep(h) PROVE OpenNext
    BY <2>2 DEF OpenNext, Next
  <2>3. ASSUME NEW f \in AlertFingerprints, AlertmanagerWebhook(h, f) PROVE OpenNext
    <3>1. (IF Firing(f) THEN "firing" ELSE "resolved") \in {"firing", "resolved"}
      OBVIOUS
    <3>2. since[f] \in Nat
      BY DEF ClockTyped
    <3> QED BY <2>1, <2>3, <3>1, <3>2 DEF AlertmanagerWebhook
  <2>4. ASSUME NEW f \in AlertFingerprints, NEW kind \in {"firing", "resolved"},
               ManualInvestigate(h, f, kind)
        PROVE  OpenNext
    <3>1. Stamp \in Nat
      BY DEF ClockTyped, Stamp
    <3> QED BY <2>1, <2>4, <3>1 DEF ManualInvestigate
  <2>5. CASE ServeOthers(h) \/ HandleManually(h) \/ FailManually(h)
    BY <2>2, <2>5 DEF ServeOthers, HandleManually, FailManually, HandlerStep
  <2>6. CASE LookUpBefore(h) \/ LookUpAfter(h) \/ Answer(h)
    BY <2>6 DEF LookUpBefore, LookUpAfter, Answer
  <2> QED BY <1>1, <2>3, <2>4, <2>5, <2>6 DEF Serve
<1>2. CASE CrashAll
  BY <1>2 DEF CrashAll, OpenNext, Next
<1>3. ASSUME NEW f \in AlertFingerprints, AlertTurns(f) PROVE OpenNext
  BY <1>3 DEF AlertTurns, OpenNext, Next
<1>4. ASSUME NEW w \in Workers, RunOnWorker(w) PROVE OpenNext
  BY <1>4 DEF RunOnWorker, OpenNext, Next
<1>5. CASE Tick \/ UNCHANGED mvars
  BY <1>5 DEF Tick, mvars
<1> QED BY <1>1, <1>2, <1>3, <1>4, <1>5 DEF MNext

LEMMA ClockStaysTyped == MSpec => []ClockTyped
<1>1. MInit => ClockTyped
  BY DEF MInit, ClockTyped
<1> QED BY <1>1, ClockTypedStep, PTL DEF MSpec

\* With manual calls among the requests the system is the orchestrator under
\* deliveries of some status and date: /investigate reaches the incidents only
\* through handle_webhook_alert (main.py:154-176).
THEOREM Composed == MSpec => OpenSpec
<1>1. MInit => Init
  BY DEF MInit
<1>2. ClockTyped /\ [MNext]_mvars => [OpenNext]_vars
  BY StepIsOpen
<1> QED BY <1>1, <1>2, ClockStaysTyped, PTL DEF MSpec, OpenSpec

\* So the inductive invariant holds whatever manual callers do.
THEOREM StillInductive == MSpec => []IndInv
  BY Composed, OpenInductive, PTL

LEMMA StillThreads == MSpec => []ThreadInv
  BY Composed, ThreadsInductive, PTL

\* Whatever alerts manual callers fire and resolve, real ones in any state
\* included: no incident is in two hands, none is investigated twice, its row
\* is coherent and keeps what was posted, its verdict is posted once, and, with
\* one request at a time, in the thread of the incident.  One incident for each
\* episode is not among it: a manual resolve of an alert that still fires lets
\* the next delivery open another (main.py:136, 154-172, store.py:5-7).
THEOREM ManualCallsAreSafe ==
    MSpec => [](/\ SingleOwner /\ WaitingIsFresh /\ RowsCoherent
                /\ OneVerdictPerIncident /\ PostedIsOnFile /\ OneThreadPerIncident)
<1>1. IndInv => /\ SingleOwner /\ WaitingIsFresh /\ RowsCoherent
                /\ OneVerdictPerIncident /\ PostedIsOnFile
  BY DEF IndInv
<1>2. MSpec => []OneThreadPerIncident
  BY Composed, OpenIncidentsHaveOneThread, PTL
<1> QED BY <1>1, <1>2, StillInductive, PTL
-----------------------------------------------------------------------------
(* Type correctness of the composition.                                    *)

\* The phase of each call fits the place of its thread.
PhaseFits(h, c, label) ==
    c[h].phase \in {"before", "after"} =>
        label[h] = IF c[h].phase = "before" THEN "lookup" ELSE "idle"

LEMMA LookUpType ==
    ASSUME MTypeOK, NEW h \in Handlers, LookUp(h)
    PROVE  told' \in [Handlers -> Incidents \cup {NoIncident}]
<1>1. PICK id \in IF GetActive(rows, call[h].fp) = {} THEN {NoIncident}
                  ELSE {inc.incident_id : inc \in GetActive(rows, call[h].fp)} :
          told' = [told EXCEPT ![h] = id]
  BY DEF LookUp
<1>2. id \in Incidents \cup {NoIncident}
  BY GetActiveIsRow DEF MTypeOK, TypeOK, Incident
<1> QED BY <1>1, <1>2 DEF MTypeOK

LEMMA MeantType ==
    ASSUME MTypeOK, TypeOK', NEW h \in Handlers, IsMeant(h)
    PROVE  meant' \in [Handlers -> Incidents \cup {NoIncident}]
<1>1. copy'[h] # NoIncident => copy'[h].incident_id \in Incidents
  BY DEF TypeOK, Incident, Threads
<1>2. \A inc \in GetActive(rows, event[h].fp) : inc.incident_id \in Incidents
  BY GetActiveIsRow DEF MTypeOK, TypeOK, Incident
<1> QED BY <1>1, <1>2 DEF IsMeant, MTypeOK

LEMMA ManualTypeStep == MTypeOK /\ IndInv' /\ [MNext]_mvars => MTypeOK'
<1> SUFFICES ASSUME MTypeOK, IndInv', [MNext]_mvars PROVE MTypeOK'
  OBVIOUS
<1>0. ClockTyped /\ ClockTyped'
  BY ClockTypedStep DEF MTypeOK, ClockTyped
<1>1. TypeOK /\ TypeOK'
  BY DEF MTypeOK, IndInv
<1>2. /\ call \in [Handlers -> Call]
      /\ told \in [Handlers -> Incidents \cup {NoIncident}]
      /\ meant \in [Handlers -> Incidents \cup {NoIncident}]
      /\ \A g \in Handlers : PhaseFits(g, call, pc)
  BY DEF MTypeOK, PhaseFits
<1> DEFINE Typed == /\ call' \in [Handlers -> Call]
                    /\ told' \in [Handlers -> Incidents \cup {NoIncident}]
                    /\ meant' \in [Handlers -> Incidents \cup {NoIncident}]
                    /\ \A g \in Handlers : PhaseFits(g, call', pc')
<1>3. ASSUME NEW h \in Handlers, Serve(h) PROVE Typed
  <2>0. pc \in [Threads -> Pcs] /\ h \in Threads /\ Handlers \subseteq Threads
    BY <1>1 DEF TypeOK, Threads
  <2>1. CASE \E f \in AlertFingerprints : AlertmanagerWebhook(h, f)
    <3>1. /\ UNCHANGED <<call, told, meant>> /\ call[h].phase = "none"
          /\ \A g \in Handlers \ {h} : pc'[g] = pc[g]
      BY <2>0, <2>1 DEF AlertmanagerWebhook, Receive, Goto, NoCall, calls
    <3> QED BY <1>2, <3>1 DEF PhaseFits
  <2>2. ASSUME NEW f \in AlertFingerprints, NEW kind \in {"firing", "resolved"},
               ManualInvestigate(h, f, kind)
        PROVE  Typed
    <3> DEFINE c == [phase |-> IF kind = "resolved" THEN "before" ELSE "handling",
                     kind |-> kind, fp |-> f, start |-> Stamp]
    <3>0. f \in Fingerprints \cup {None} /\ Stamp \in Nat
      BY <1>0 DEF AlertFingerprints, ClockTyped, Stamp
    <3>3. c \in Call
      <4>1. (IF kind = "resolved" THEN "before" ELSE "handling") \in Phases
        BY DEF Phases
      <4> QED BY <3>0, <4>1 DEF Call
    <3>4. c.phase \in {"before", "handling"}
      OBVIOUS
    <3>1. call' = [call EXCEPT ![h] = c]
      BY <2>2 DEF ManualInvestigate
    <3> HIDE DEF c
    <3>2. pc' = [pc EXCEPT ![h] = "lookup"]
      BY <2>2 DEF ManualInvestigate, Receive, Goto
    <3> QED BY <1>2, <2>0, <2>2, <3>1, <3>2, <3>3, <3>4 DEF ManualInvestigate, PhaseFits
  <2>3. CASE ServeOthers(h)
    <3>1. /\ UNCHANGED <<call, told, meant>> /\ call[h].phase = "none"
          /\ \A g \in Handlers \ {h} : pc'[g] = pc[g]
      BY <1>1, <2>0, <2>3, OthersStay DEF ServeOthers, HandlerStep, NoCall, calls
    <3> QED BY <1>2, <3>1 DEF PhaseFits
  <2>4. ASSUME NEW phase \in Phases, Proceed(h, phase)
        PROVE  /\ call' \in [Handlers -> Call] /\ call'[h].phase = phase
               /\ \A g \in Handlers \ {h} : call'[g] = call[g]
    <3>1. [call[h] EXCEPT !.phase = phase] \in Call
      BY <1>2 DEF Call
    <3> QED BY <1>2, <2>4, <3>1 DEF Proceed, Call
  <2>5. CASE LookUpBefore(h)
    BY <1>2, <2>4, <2>5, LookUpType DEF LookUpBefore, PhaseFits, Phases, vars
  <2>6. CASE LookUpAfter(h)
    BY <1>2, <2>4, <2>6, LookUpType DEF LookUpAfter, PhaseFits, Phases, vars
  <2>7. CASE HandleManually(h)
    <3>1. meant' \in [Handlers -> Incidents \cup {NoIncident}] /\ told' = told
      BY <1>1, <2>7, MeantType DEF HandleManually
    <3>2. \A g \in Handlers \ {h} : pc'[g] = pc[g]
      BY <1>1, <2>0, <2>7, OthersStay DEF HandleManually
    <3>3. CASE pc'[h] # "idle"
      BY <1>2, <2>7, <3>1, <3>2, <3>3 DEF HandleManually, PhaseFits
    <3>4. CASE pc'[h] = "idle"
      <4>1. PICK phase \in {"after", "answered"} : Proceed(h, phase)
        BY <2>7, <3>4 DEF HandleManually
      <4> QED BY <1>2, <2>4, <3>1, <3>2, <3>4, <4>1 DEF PhaseFits, Phases
    <3> QED BY <3>3, <3>4
  <2>8. ASSUME Finish(h), \A g \in Handlers \ {h} : pc'[g] = pc[g] PROVE Typed
    <3>1. NoCall \in Call /\ NoCall.phase = "none"
      BY DEF NoCall, Call, Phases
    <3> QED BY <1>2, <2>8, <3>1 DEF Finish, PhaseFits
  <2>9. CASE FailManually(h)
    BY <1>1, <2>0, <2>8, <2>9, OthersStay DEF FailManually
  <2>10. CASE Answer(h)
    BY <2>8, <2>10 DEF Answer, vars
  <2> QED BY <1>3, <2>1, <2>2, <2>3, <2>5, <2>6, <2>7, <2>9, <2>10 DEF Serve
<1>4. ASSUME CrashAll PROVE Typed
  <2>1. NoCall \in Call /\ NoCall.phase = "none"
    BY DEF NoCall, Call, Phases
  <2>2. /\ call' = [h \in Handlers |-> NoCall]
        /\ told' = [h \in Handlers |-> NoIncident]
        /\ meant' = [h \in Handlers |-> NoIncident]
    BY <1>4 DEF CrashAll
  <2>3. \A g \in Handlers : call'[g].phase = "none"
    BY <2>1, <2>2
  <2> QED BY <2>1, <2>2, <2>3 DEF PhaseFits
<1>5. ASSUME UNCHANGED <<call, told, meant>>, \A g \in Handlers : pc'[g] = pc[g] PROVE Typed
  BY <1>2, <1>5 DEF PhaseFits
<1>6. ASSUME NEW f \in AlertFingerprints, AlertTurns(f) PROVE Typed
  BY <1>5, <1>6 DEF AlertTurns, AlertChanges, calls
<1>7. ASSUME NEW w \in Workers, RunOnWorker(w) PROVE Typed
  <2>1. w \in Threads /\ \A g \in Handlers : g \in Threads \ {w}
    BY OrchestratorAssumption DEF Threads
  <2> QED BY <1>1, <1>5, <1>7, <2>1, OthersStay DEF RunOnWorker, WorkerStep, calls
<1>8. ASSUME Tick \/ UNCHANGED mvars PROVE Typed
  <2>1. UNCHANGED <<call, told, meant>> /\ pc' = pc
    BY <1>8 DEF Tick, mvars, vars, calls
  <2> QED BY <1>5, <2>1
<1>9. Typed
  BY <1>3, <1>4, <1>6, <1>7, <1>8 DEF MNext
<1> QED BY <1>0, <1>1, <1>9 DEF MTypeOK, PhaseFits, ClockTyped

\* Each manual call is in one phase at a time, names incidents only, and its
\* lookups take place before and after the handling (main.py:168-176).
THEOREM ManualTypeCorrect == MSpec => []MTypeOK
<1>1. ASSUME MInit PROVE MTypeOK
  <2>1. NoCall \in Call /\ NoCall.phase = "none"
    BY DEF NoCall, Call, Phases
  <2>2. /\ call = [h \in Handlers |-> NoCall]
        /\ told = [h \in Handlers |-> NoIncident]
        /\ meant = [h \in Handlers |-> NoIncident]
    BY <1>1 DEF MInit
  <2>3. \A g \in Handlers : call[g].phase = "none"
    BY <2>1, <2>2
  <2>4. TypeOK
    BY <1>1, TypeInit DEF MInit
  <2>5. now \in Nat /\ since \in [AlertFingerprints -> Nat]
    BY <1>1 DEF MInit
  <2> QED BY <2>1, <2>2, <2>3, <2>4, <2>5 DEF MTypeOK
<1> QED BY <1>1, ManualTypeStep, StillInductive, PTL DEF MSpec
-----------------------------------------------------------------------------
(* What the lookups find.                                                  *)

\* A nonempty set of numbers has a least element.
LEMMA Least ==
    ASSUME NEW S, S \subseteq Nat, S # {}
    PROVE  \E m \in S : \A n \in S : m <= n
<1> DEFINE less == OpToRel(<, Nat)
<1>1. \A n, m \in Nat : n < m => <<n, m>> \in less
  BY DEF OpToRel
<1>2. PICK m \in S : \A n \in S : <<n, m>> \notin less
  <2>1. IsWellFoundedOn(less, Nat)
    BY NatLessThanWellFounded
  <2> HIDE DEF less
  <2> QED BY <2>1, WFMin
<1>3. \A n \in S : ~(n < m)
  BY <1>1, <1>2
<1> QED BY <1>3

\* A lookup finds something if there is something to find: as long as the
\* dates of an alert's incidents are bounded, one of the open ones is latest.
LEMMA OpenIsFound ==
    ASSUME NEW table, IsTable(table), NEW f, NEW bound \in Nat,
           \A j \in DOMAIN table :
              table[j].alert_fingerprint = f => table[j].start_time <= bound,
           NEW i \in DOMAIN table,
           table[i].alert_fingerprint = f, table[i].status # "RESOLVED"
    PROVE  GetActive(table, f) # {}
<1> DEFINE Left(j) == bound - table[j].start_time
           S == {Left(j) : j \in Active(table, f)}
<1>1. \A j \in Active(table, f) :
         /\ j \in DOMAIN table
         /\ table[j].start_time \in Nat /\ table[j].start_time <= bound
  BY DEF Active, IsTable, Incident
<1>2. S \subseteq Nat
  BY <1>1
<1>3. i \in Active(table, f)
  BY DEF Active
<1>4. PICK m \in S : \A n \in S : m <= n
  <2>1. S # {}
    BY <1>3
  <2> HIDE DEF S
  <2> QED BY <1>2, <2>1, Least
<1>5. PICK j \in Active(table, f) : m = Left(j)
  BY <1>4
<1>6. \A k \in Active(table, f) : table[k].start_time <= table[j].start_time
  <2> SUFFICES ASSUME NEW k \in Active(table, f) PROVE table[k].start_time <= table[j].start_time
    OBVIOUS
  <2>1. bound - table[j].start_time <= bound - table[k].start_time
    BY <1>4, <1>5
  <2> QED BY <1>1, <1>5, <2>1
<1>7. table[j] \in GetActive(table, f)
  BY <1>5, <1>6 DEF GetActive
<1> QED BY <1>7

\* What a lookup returns has its own id, is open, and of the alert.
LEMMA FoundIsOpen ==
    ASSUME NEW table, IsTable(table), NEW f, NEW inc \in GetActive(table, f)
    PROVE  /\ inc.incident_id \in DOMAIN table
           /\ table[inc.incident_id] = inc
           /\ inc.alert_fingerprint = f /\ inc.status # "RESOLVED"
           /\ \A j \in DOMAIN table :
                 table[j].alert_fingerprint = f /\ table[j].status # "RESOLVED"
                   => table[j].start_time <= inc.start_time
<1>1. inc.incident_id \in DOMAIN table /\ table[inc.incident_id] = inc
  BY GetActiveIsRow
<1> QED BY <1>1, GetActiveIsLatest

-----------------------------------------------------------------------------
(* Who opens and closes a row while a call waits.                          *)

\* A run begun on a closed incident finds it closed until it saves it itself.
LEMMA RunsFindItClosedStep ==
    ASSUME IndInv, CopiesIdentify, RunsFindItClosed, [OpenNext]_vars
    PROVE  RunsFindItClosed'
<1>0. /\ TypeOK /\ HeldRowsExist /\ CopyMatchesPc /\ SingleOwner /\ ReportIsOnFile
      /\ IndInv'
  BY IndInvStep DEF IndInv
<1> SUFFICES ASSUME NEW t \in Threads, pc'[t] \in RunnerPcs, copy'[t].status = "RESOLVED"
             PROVE  rows'[copy'[t].incident_id].status = "RESOLVED"
  BY DEF RunsFindItClosed
<1>1. copy'[t] # NoIncident
  BY <1>0, PlaceholderAssumption DEF IndInv, TypeOK
<1>2. CASE pc'[t] = pc[t] /\ copy'[t] = copy[t]
  <2>1. PICK i : i = copy[t].incident_id
    OBVIOUS
  <2>2. i \in DOMAIN rows /\ rows[i].status = "RESOLVED"
    BY <1>0, <1>1, <1>2, <2>1 DEF RunsFindItClosed, HeldRowsExist
  <2>3. ASSUME NEW s \in Threads, SavesCopy(s) PROVE rows'[i].status = "RESOLVED"
    <3>1. CASE copy[s].incident_id # i
      BY <1>0, <2>2, <2>3, <3>1, SaveRow DEF SavesCopy
    <3>2. CASE copy[s].incident_id = i
      <4>1. s # t /\ Owns(t)
        BY <1>2, <2>3 DEF SavesCopy, Owns
      <4>2. ~Owns(s)
        BY <1>0, <2>1, <3>2, <4>1 DEF SingleOwner
      <4>3. pc[s] = "saveResolved"
        BY <2>3, <4>2 DEF SavesCopy, Owns, CreatorPcs, RunnerPcs, RunSaves
      <4>4. copy[s].status = "RESOLVED"
        BY <1>0, <4>3 DEF ReportIsOnFile
      <4> QED BY <2>2, <2>3, <3>2, <4>4, SaveRow DEF SavesCopy
    <3> QED BY <3>1, <3>2
  <2>4. rows'[i].status = "RESOLVED"
    BY <1>0, <2>2, <2>3, RowsChange DEF Opens
  <2> QED BY <1>2, <2>1, <2>4
<1>3. ASSUME NEW i \in Incidents, Begins(t, i) PROVE rows'[copy'[t].incident_id].status = "RESOLVED"
  <2>1. /\ i \in DOMAIN rows /\ rows' = rows /\ rows[i] \in Incident /\ rows[i].incident_id = i
        /\ copy'[t] = [rows[i] EXCEPT !.investigation_state = "DATA_COLLECTION"]
    BY <1>0, <1>3, IncidentFields DEF Begins
  <2> QED BY <2>1 DEF Incident
<1>4. ASSUME RunMoves(t) PROVE rows'[copy'[t].incident_id].status = "RESOLVED"
  <2>1. /\ copy[t].status = "RESOLVED" /\ copy'[t].incident_id = copy[t].incident_id
        /\ pc[t] \in RunnerPcs
        /\ rows' = rows \/ rows' = Save(rows, copy[t])
    BY <1>1, <1>4 DEF RunMoves, SameIncident
  <2>2. /\ copy[t] # NoIncident /\ copy[t].incident_id \in DOMAIN rows
        /\ rows[copy[t].incident_id].status = "RESOLVED"
    BY <1>0, <2>1, HoldersHold DEF RunsFindItClosed, HeldRowsExist
  <2>3. PICK i : i = copy[t].incident_id
    OBVIOUS
  <2>4. rows'[i].status = "RESOLVED"
    BY <2>1, <2>2, <2>3, SaveRow
  <2> QED BY <2>1, <2>3, <2>4
<1>5. ASSUME NEW i \in Incidents, Opens(t, i) \/ Finds(t, i) PROVE FALSE
  BY <1>5 DEF Opens, Finds, RunnerPcs
<1>6. ASSUME Announces(t) \/ SavesStarted(t) \/ Closes(t) PROVE FALSE
  BY <1>6 DEF Announces, SavesStarted, Closes, RunnerPcs
<1> QED BY <1>0, <1>1, <1>2, <1>3, <1>4, <1>5, <1>6, HolderSteps

-----------------------------------------------------------------------------
(* Dates.                                                                  *)

\* A request has the alert it was given until it is over.
LEMMA HandlersKeepEvents ==
    ASSUME TypeOK, NEW h \in Handlers, HandlerStep(h)
    PROVE  \A g \in Handlers : event'[g] \in {event[g], NoEvent}
<1>1. event'[h] \in {event[h], NoEvent}
  <2>1. CASE HandleAlert(h)
    BY <2>1 DEF HandleAlert, FiringIsDuplicate, FiringIsNew, CreateIncident, Announce,
       AnnounceUnavailable, SaveStarted, Submit, ResolvedIsUnknown, ResolveIncident,
       SaveResolved, PostResolution, RunInline, Return, TypeOK, Threads
  <2>2. CASE RunInvestigation(h)
    BY <2>2 DEF RunInvestigation, SaveCollecting, PlaybookReturns, PlaybookOverruns, PlaybookFails,
       SaveFailed, SaveTimeout, PostTimeoutInThread, PostTimeoutStandalone, PostTimeoutUnavailable,
       SaveTimeoutThread, SaveValidating, GenerateRca, SaveRca, PostRcaInThread, PostRcaStandalone,
       PostRcaUnavailable, Remediate, SaveFinal, Return, TypeOK, Threads
  <2>3. CASE Escape(h)
    BY <2>3 DEF Escape, Return, TypeOK, Threads
  <2> QED BY <2>1, <2>2, <2>3 DEF HandlerStep
<1>2. \A g \in Handlers \ {h} : event'[g] = event[g]
  BY OthersStay DEF HandlerStep, Threads
<1> QED BY <1>1, <1>2

\* The agent stamps a call with its own clock, and Alertmanager's is the same.
LEMMA NothingAheadStep ==
    ASSUME MTypeOK, IndInv, ThreadInv, NothingAhead, [MNext]_mvars
    PROVE  NothingAhead'
<1>0. /\ ClockTyped /\ ClockTyped' /\ [OpenNext]_vars
      /\ TypeOK /\ HeldRowsExist /\ CopyMatchesPc /\ WorkFits /\ CopiesIdentify
  BY ClockTypedStep, StepIsOpen DEF MTypeOK, ClockTyped, IndInv, ThreadInv
<1>1. Stamp \in Nat /\ Stamp' \in Nat /\ Stamp <= Stamp'
  <2>1. now <= now'
    <3>1. CASE Tick
      BY <1>0, <3>1 DEF Tick, ClockTyped
    <3>2. ASSUME NEW h \in Handlers, Serve(h) PROVE now' = now
      BY <3>2 DEF Serve, AlertmanagerWebhook, ManualInvestigate, ServeOthers, LookUpBefore,
         HandleManually, FailManually, LookUpAfter, Answer, clock
    <3>3. ASSUME ~Tick PROVE now' = now
      BY <3>2, <3>3 DEF MNext, AlertTurns, RunOnWorker, CrashAll, clock, mvars
    <3> QED BY <1>0, <3>1, <3>3 DEF ClockTyped
  <2>2. now \in Nat /\ now' \in Nat
    BY <1>0 DEF ClockTyped
  <2>3. \A m, n \in Nat : 2 * m + 1 \in Nat /\ (m <= n => 2 * m + 1 <= 2 * n + 1)
    OBVIOUS
  <2>4. Stamp = 2 * now + 1 /\ Stamp' = 2 * now' + 1
    BY DEF Stamp
  <2> QED BY <2>1, <2>2, <2>3, <2>4
<1>2. \A f \in AlertFingerprints : since'[f] <= Stamp'
  <2>1. ASSUME NEW f \in AlertFingerprints, AlertTurns(f), NEW g \in AlertFingerprints
        PROVE  since'[g] <= Stamp'
    <3>1. Stamp' = Stamp /\ 2 * now <= Stamp
      BY <1>0, <2>1 DEF AlertTurns, Stamp, ClockTyped
    <3>2. since' = since \/ \E date \in {2 * now, Stamp} : since' = [since EXCEPT ![f] = date]
      BY <2>1 DEF AlertTurns
    <3> QED BY <1>0, <1>1, <3>1, <3>2 DEF NothingAhead, ClockTyped
  <2>2. ASSUME since' = since PROVE \A f \in AlertFingerprints : since'[f] <= Stamp'
    BY <1>0, <1>1, <2>2 DEF NothingAhead, ClockTyped
  <2>3. ASSUME NEW h \in Handlers, Serve(h) PROVE since' = since
    BY <2>3 DEF Serve, AlertmanagerWebhook, ManualInvestigate, ServeOthers, LookUpBefore,
       HandleManually, FailManually, LookUpAfter, Answer, clock
  <2>4. (\E f \in AlertFingerprints : AlertTurns(f)) \/ since' = since
    BY <2>3 DEF MNext, Tick, RunOnWorker, CrashAll, clock, mvars
  <2> QED BY <2>1, <2>2, <2>4
<1>3. ASSUME NEW i \in DOMAIN rows' PROVE rows'[i].start_time <= Stamp'
  <2>1. ASSUME i \in DOMAIN rows, rows'[i].start_time = rows[i].start_time
        PROVE  rows'[i].start_time <= Stamp'
    <3>1. rows[i].start_time \in Nat /\ rows[i].start_time <= Stamp
      BY <1>0, <2>1, IncidentFields DEF NothingAhead
    <3> QED BY <1>1, <2>1, <3>1
  <2>2. ASSUME NEW h \in Handlers, NEW j \in Incidents, Opens(h, j), i \notin DOMAIN rows
        PROVE  rows'[i].start_time <= Stamp'
    <3>1. i = j /\ rows'[i].start_time = event[h].start
      <4>1. DOMAIN rows' = DOMAIN rows \cup {j}
        BY <2>2 DEF Opens
      <4>2. rows'[j].start_time = event[h].start
        BY <2>2, OpensRow
      <4> QED BY <1>3, <2>2, <4>1, <4>2
    <3>2. event[h] # NoEvent /\ event[h].start \in Nat
      BY <1>0, <2>2, OpensEvent DEF Event
    <3> QED BY <1>1, <3>1, <3>2 DEF NothingAhead
  <2>3. ASSUME NEW t \in Threads, SavesCopy(t)
        PROVE  i \in DOMAIN rows /\ rows'[i].start_time = rows[i].start_time
    BY <1>0, <2>3, SaveRow DEF SavesCopy, CopiesIdentify
  <2>4. CASE i \in DOMAIN rows
    BY <1>0, <2>1, <2>3, <2>4, RowsChange DEF Opens
  <2> QED BY <1>0, <2>1, <2>2, <2>3, <2>4, RowsChange
<1>4. ASSUME NEW g \in Handlers, event'[g] # NoEvent PROVE event'[g].start <= Stamp'
  <2>0. g \in Threads
    BY DEF Threads
  <2>1. ASSUME event'[g] \in {event[g], NoEvent} PROVE event'[g].start <= Stamp'
    <3>1. event[g] # NoEvent /\ event'[g] = event[g] /\ event[g].start \in Nat
      BY <1>0, <1>4, <2>0, <2>1 DEF TypeOK, Event
    <3> QED BY <1>1, <3>1 DEF NothingAhead
  <2>2. ASSUME NEW h \in Handlers, NEW f, NEW kind, NEW start \in Nat, start <= Stamp,
               Receive(h, kind, f, start)
        PROVE  event'[g].start <= Stamp'
    <3>1. event' = [event EXCEPT ![h] = [kind |-> kind, fp |-> f, start |-> start]]
      BY <2>2 DEF Receive
    <3>2. g = h => event'[g].start = start
      BY <1>0, <2>0, <3>1 DEF TypeOK
    <3>3. g # h => event'[g] = event[g]
      BY <1>0, <2>0, <3>1 DEF TypeOK
    <3> QED BY <1>1, <2>1, <2>2, <3>2, <3>3
  <2>3. ASSUME NEW h \in Handlers, Serve(h) PROVE event'[g].start <= Stamp'
    <3>1. CASE \E f \in AlertFingerprints : AlertmanagerWebhook(h, f)
      <4>1. PICK f \in AlertFingerprints : AlertmanagerWebhook(h, f)
        BY <3>1
      <4>2. since[f] \in Nat /\ since[f] <= Stamp
        BY <1>0 DEF NothingAhead, ClockTyped
      <4> QED BY <2>2, <4>1, <4>2 DEF AlertmanagerWebhook
    <3>2. CASE \E f \in AlertFingerprints, kind \in {"firing", "resolved"} :
                  ManualInvestigate(h, f, kind)
      BY <1>1, <2>2, <3>2 DEF ManualInvestigate
    <3>3. CASE ServeOthers(h) \/ HandleManually(h) \/ FailManually(h)
      BY <1>0, <2>1, <3>3, HandlersKeepEvents DEF ServeOthers, HandleManually, FailManually, HandlerStep
    <3>4. CASE LookUpBefore(h) \/ LookUpAfter(h) \/ Answer(h)
      BY <2>1, <3>4 DEF LookUpBefore, LookUpAfter, Answer, vars
    <3> QED BY <2>3, <3>1, <3>2, <3>3, <3>4 DEF Serve
  <2>4. ASSUME NEW w \in Workers, RunOnWorker(w) PROVE event'[g].start <= Stamp'
    <3>1. w \in Threads /\ g \in Threads \ {w}
      BY <2>0, OrchestratorAssumption DEF Threads
    <3> QED BY <1>0, <2>1, <2>4, <3>1, OthersStay DEF RunOnWorker, WorkerStep
  <2>5. CASE CrashAll
    BY <1>4, <2>0, <2>5 DEF CrashAll, Crash
  <2>6. CASE Tick \/ (\E f \in AlertFingerprints : AlertTurns(f)) \/ UNCHANGED mvars
    BY <2>1, <2>6 DEF Tick, AlertTurns, AlertChanges, mvars, vars
  <2> QED BY <2>3, <2>4, <2>5, <2>6 DEF MNext
<1> QED BY <1>2, <1>3, <1>4 DEF NothingAhead

-----------------------------------------------------------------------------
(* One call.                                                               *)

\* The part of AnswerNamesIncident about one call.
AnswerFits(h) ==
    call[h].phase = "answered" =>
        /\ call[h].kind = "firing" =>
              /\ NoEarlier(told[h], meant[h])
              /\ rows[meant[h]].start_time = call[h].start =>
                    told[h] = meant[h] \/ rows[told[h]].start_time = call[h].start
        /\ call[h].kind = "resolved" /\ told[h] # NoIncident => NoEarlier(meant[h], told[h])
        /\ told[h] # NoIncident => rows[told[h]].alert_fingerprint = call[h].fp

\* What is known of one call: the part of AnswerInv about it, and its answer.
CallInv(h) ==
    /\ CallFits(h)
    /\ call[h].kind = "firing" => FiringCallFits(h)
    /\ call[h].kind = "resolved" => ResolvingCallFits(h)
    /\ AnswerFits(h)

\* AnswerInv and AnswerNamesIncident together, which is what the steps preserve.
CallsInv ==
    /\ NothingAhead
    /\ RunsFindItClosed
    /\ Serial => \A h \in Handlers : CallInv(h)

LEMMA CallsInvImplies == CallsInv => AnswerInv /\ AnswerNamesIncident
  BY DEF CallsInv, AnswerInv, AnswerNamesIncident, AnswerFits, CallInv

\* A thread without a call has nothing to answer.
LEMMA NoCallFits ==
    ASSUME NEW h \in Handlers, call[h] = NoCall, told[h] = NoIncident, meant[h] = NoIncident
    PROVE  CallInv(h)
  BY DEF CallInv, CallFits, AnswerFits, NoCall

\* The table keeps its rows, what they are about, and those that are open.
RowsStay ==
    /\ DOMAIN rows' = DOMAIN rows
    /\ \A i \in DOMAIN rows : /\ SameIncident(rows'[i], rows[i])
                              /\ rows[i].status # "RESOLVED" => rows'[i].status # "RESOLVED"

\* Nothing happens to a call while others move.
LEMMA CallStays ==
    ASSUME TypeOK, HeldRowsExist,
           NEW h \in Handlers, call[h] \in Call, CallInv(h), RowsStay,
           call'[h] = call[h], told'[h] = told[h], meant'[h] = meant[h],
           pc'[h] = pc[h], event'[h] = event[h], copy'[h] = copy[h]
    PROVE  CallInv(h)'
<1>1. CallFits(h)'
  BY DEF CallInv, CallFits
<1>2. \A i : OpenFor(h, i) => OpenFor(h, i)'
  BY DEF OpenFor, RowsStay, SameIncident
<1>3. \A i, j : NoEarlier(i, j) => NoEarlier(i, j)'
  BY DEF NoEarlier, RowsStay, SameIncident
<1>4. ASSUME call[h].kind = "firing" PROVE FiringCallFits(h)'
  <2>1. pc[h] \in CreatorPcs => copy[h].incident_id \in DOMAIN rows
    BY HoldersHold DEF HeldRowsExist, Threads
  <2> QED BY <1>2, <1>4, <2>1 DEF CallInv, FiringCallFits, RowsStay, SameIncident
<1>5. ASSUME call[h].kind = "resolved" PROVE ResolvingCallFits(h)'
  BY <1>2, <1>3, <1>5 DEF CallInv, ResolvingCallFits, RowsStay, SameIncident, NoEarlier
<1>6. AnswerFits(h)'
  <2>1. SUFFICES ASSUME call[h].phase = "answered" PROVE AnswerFits(h)'
    BY DEF AnswerFits
  <2>2. PICK i, j : i = told[h] /\ j = meant[h]
    OBVIOUS
  <2>3. /\ call[h].kind = "firing" =>
              /\ NoEarlier(i, j)
              /\ rows[j].start_time = call[h].start => i = j \/ rows[i].start_time = call[h].start
        /\ call[h].kind = "resolved" /\ i # NoIncident => NoEarlier(j, i)
        /\ i # NoIncident => rows[i].alert_fingerprint = call[h].fp
    BY <2>1, <2>2 DEF CallInv, AnswerFits
  <2>4. /\ call[h].kind = "firing" =>
              /\ {i, j} \subseteq DOMAIN rows
              /\ rows'[i].start_time = rows[i].start_time
              /\ rows'[j].start_time = rows[j].start_time
        /\ call[h].kind \in {"firing", "resolved"} /\ i # NoIncident =>
              i \in DOMAIN rows /\ rows'[i].alert_fingerprint = rows[i].alert_fingerprint
    BY <2>3 DEF NoEarlier, RowsStay, SameIncident
  <2>5. call[h].kind \in {"firing", "resolved"}
    BY <2>1 DEF CallInv, CallFits, Call
  <2>6. /\ call[h].kind = "firing" =>
              /\ NoEarlier(i, j)'
              /\ rows'[j].start_time = call[h].start => i = j \/ rows'[i].start_time = call[h].start
        /\ call[h].kind = "resolved" /\ i # NoIncident => NoEarlier(j, i)'
        /\ i # NoIncident => rows'[i].alert_fingerprint = call[h].fp
    BY <1>3, <2>3, <2>4, <2>5
  <2> QED BY <2>2, <2>6 DEF AnswerFits, NoEarlier
<1> QED BY <1>1, <1>4, <1>5, <1>6 DEF CallInv

\* With one request at a time, no other step opens or closes an incident.
LEMMA OthersKeepRows ==
    ASSUME IndInv, ThreadInv, RunsFindItClosed, Serial, [OpenNext]_vars,
           NEW h \in Handlers, pc'[h] = pc[h]
    PROVE  RowsStay
<1>0. /\ TypeOK /\ HeldRowsExist /\ CopyMatchesPc /\ CopiesIdentify /\ WorkFits
      /\ \A i \in DOMAIN rows : i \in DOMAIN rows' /\ SameIncident(rows'[i], rows[i])
  BY RowsKeepIdentity DEF IndInv, ThreadInv
<1>1. \A g \in Handlers : g = h
  BY DEF Serial
<1>2. ASSUME NEW t \in Threads, SavesCopy(t) PROVE RowsStay
  <2>1. t \in Workers /\ pc[t] \in RunnerPcs
    BY <1>0, <1>1, <1>2 DEF SavesCopy, Threads, WorkFits, RunSaves
  <2>2. copy[t].status = "RESOLVED" => rows[copy[t].incident_id].status = "RESOLVED"
    BY <1>2, <2>1 DEF RunsFindItClosed
  <2> QED BY <1>0, <1>2, <2>2, SaveRow DEF SavesCopy, RowsStay
<1>3. ASSUME NEW g \in Handlers, NEW i \in Incidents, Opens(g, i) PROVE FALSE
  BY <1>1, <1>3 DEF Opens
<1> QED BY <1>0, <1>2, <1>3, RowsChange DEF RowsStay

\* The steps of a request with a firing alert.
LEMMA FiringSteps ==
    ASSUME TypeOK, HeldRowsExist, CopyMatchesPc, WorkFits,
           NEW h \in Handlers, HandleAlert(h), event[h] # NoEvent, event[h].kind = "firing"
    PROVE  \/ FiringIsNew(h)
           \/ FiringIsDuplicate(h) /\ LetsGo(h)
           \/ Announces(h) \/ SavesStarted(h) \/ Submits(h)
           \/ \E i \in Incidents : Opens(h, i)
<1>0. pc[h] \notin {"load"} \cup ResolverPcs /\ Alone(h) /\ h \in Threads
  BY OthersStay DEF WorkFits, Alone, Threads
<1>1. \/ FiringIsNew(h) \/ FiringIsDuplicate(h) \/ Submit(h)
      \/ CreateIncident(h) \/ Announce(h) \/ AnnounceUnavailable(h) \/ SaveStarted(h)
  BY <1>0 DEF HandleAlert, ResolvedIsUnknown, ResolveIncident, SaveResolved, PostResolution,
     RunInline, ResolverPcs
<1>2. ASSUME FiringIsDuplicate(h) PROVE LetsGo(h)
  BY <1>0, <1>2 DEF FiringIsDuplicate, LetsGo, Return, Goto, SetCopy, TypeOK
<1>3. ASSUME Submit(h) PROVE Submits(h)
  BY <1>0, <1>3 DEF Submit, Submits, Return, Goto, SetCopy, TypeOK
<1>4. ASSUME CreateIncident(h) \/ Announce(h) \/ AnnounceUnavailable(h) \/ SaveStarted(h)
      PROVE  Announces(h) \/ SavesStarted(h) \/ \E i \in Incidents : Opens(h, i)
  <2>1. /\ pc[h] \in {"create", "announce", "saveStarted"} /\ pc'[h] # "idle"
        /\ pc[h] \notin {"lookup", "submit", "load", "saveResolved"}
    BY <1>0, <1>4 DEF CreateIncident, Announce, AnnounceUnavailable, SaveStarted, Goto, TypeOK
  <2> QED BY <2>1, RequestSteps DEF RequestStep, FiringIsNew, LetsGo, Submits, Closes, Finds, Begins
<1> QED BY <1>1, <1>2, <1>3, <1>4

\* The steps of a request with a resolved alert.
LEMMA ResolvingSteps ==
    ASSUME TypeOK, HeldRowsExist, CopyMatchesPc, WorkFits,
           NEW h \in Handlers, HandleAlert(h), event[h] # NoEvent, event[h].kind = "resolved"
    PROVE  \/ ResolvedIsUnknown(h) /\ LetsGo(h)
           \/ PostResolution(h) /\ LetsGo(h)
           \/ Closes(h)
           \/ \E i \in Incidents : Finds(h, i)
<1>0. pc[h] \in {"lookup"} \cup ResolverPcs /\ Alone(h) /\ h \in Threads
  BY OthersStay DEF WorkFits, Alone, Threads, HandleAlert, FiringIsDuplicate, FiringIsNew,
     CreateIncident, Announce, AnnounceUnavailable, SaveStarted, Submit, ResolvedIsUnknown,
     ResolveIncident, SaveResolved, PostResolution, RunInline, ResolverPcs
<1>1. ResolvedIsUnknown(h) \/ PostResolution(h) \/ SaveResolved(h) \/ ResolveIncident(h)
  BY <1>0 DEF HandleAlert, FiringIsDuplicate, FiringIsNew, CreateIncident, Announce,
     AnnounceUnavailable, SaveStarted, Submit, RunInline, ResolverPcs
<1>2. ASSUME ResolvedIsUnknown(h) \/ PostResolution(h) PROVE LetsGo(h)
  BY <1>0, <1>2 DEF ResolvedIsUnknown, PostResolution, LetsGo, Return, Goto, SetCopy, TypeOK
<1>3. ASSUME SaveResolved(h) PROVE Closes(h)
  BY <1>0, <1>3 DEF SaveResolved, Closes, SaveCopy, Return, Goto, SetCopy, TypeOK
<1>4. ASSUME ResolveIncident(h) PROVE \E i \in Incidents : Finds(h, i)
  <2>1. pc[h] = "lookup" /\ pc'[h] = "saveResolved"
    BY <1>0, <1>4 DEF ResolveIncident, Goto, TypeOK
  <2> QED BY <2>1, RequestSteps DEF RequestStep, FiringIsNew, Goto, LetsGo, Announces, SavesStarted,
          Submits, Closes, Opens, Begins, TypeOK
<1> QED BY <1>1, <1>2, <1>3, <1>4

-----------------------------------------------------------------------------
(* The steps of a call.                                                    *)

\* A manual call begins: its alert is the news its thread has just taken.
LEMMA CallBegins ==
    ASSUME MTypeOK, IndInv, NothingAhead, NEW h \in Handlers, CallInv(h),
           NEW f \in AlertFingerprints, NEW kind \in {"firing", "resolved"},
           ManualInvestigate(h, f, kind)
    PROVE  CallInv(h)'
<1>0. TypeOK /\ CopyMatchesPc /\ h \in Threads
  BY DEF IndInv, Threads
<1>1. /\ event' = [event EXCEPT ![h] = [kind |-> kind, fp |-> f, start |-> Stamp]]
      /\ pc[h] = "idle" /\ pc'[h] = "lookup" /\ rows' = rows /\ copy' = copy
  BY <1>0 DEF ManualInvestigate, Receive, Goto, TypeOK
<1>2. event'[h] = [kind |-> kind, fp |-> f, start |-> Stamp]
  BY <1>0, <1>1 DEF TypeOK
<1> DEFINE phase == IF kind = "resolved" THEN "before" ELSE "handling"
<1>3. call'[h] = [phase |-> phase, kind |-> kind, fp |-> f, start |-> Stamp]
  BY DEF ManualInvestigate, MTypeOK
<1>4. /\ call'[h].phase = phase /\ call'[h].kind = kind
      /\ call'[h].fp = f /\ call'[h].start = Stamp
  BY <1>3
<1>5. /\ told'[h] = NoIncident /\ meant'[h] = NoIncident /\ copy'[h] = NoIncident
  BY <1>0, <1>1 DEF ManualInvestigate, CallInv, CallFits, NoCall, CopyMatchesPc, CopyFits
<1>6. phase \in {"before", "handling"} /\ (phase = "before" <=> kind = "resolved")
  OBVIOUS
<1> HIDE DEF phase
<1>7. CallFits(h)'
  BY <1>2, <1>4, <1>5, <1>6 DEF CallFits
<1>8. FiringCallFits(h)'
  <2>1. \A i \in DOMAIN rows : rows[i].start_time <= Stamp
    BY DEF NothingAhead
  <2> QED BY <1>1, <1>4, <1>5, <1>6, <2>1 DEF FiringCallFits, CreatorPcs
<1> QED BY <1>4, <1>5, <1>6, <1>7, <1>8 DEF CallInv, ResolvingCallFits, AnswerFits

\* A resolving call notes the latest open incident of its alert, if any.
LEMMA FirstLookUp ==
    ASSUME MTypeOK, IndInv, NEW h \in Handlers, CallInv(h), LookUpBefore(h)
    PROVE  CallInv(h)'
<1>0. TypeOK /\ CopyMatchesPc /\ IsTable(rows) /\ h \in Threads
  BY DEF IndInv, TypeOK, Threads
<1>1. /\ call[h].phase = "before" /\ call[h].kind = "resolved" /\ pc[h] = "lookup"
      /\ copy[h] = NoIncident /\ UNCHANGED <<vars, clock, meant>>
  BY <1>0 DEF LookUpBefore, CallInv, CallFits, MTypeOK, CopyMatchesPc, CopyFits
<1>2. /\ call'[h].phase = "handling" /\ call'[h].kind = call[h].kind
      /\ call'[h].fp = call[h].fp /\ call'[h].start = call[h].start
  BY DEF LookUpBefore, Proceed, MTypeOK, Call
<1>3. PICK id \in IF GetActive(rows, call[h].fp) = {} THEN {NoIncident}
                  ELSE {inc.incident_id : inc \in GetActive(rows, call[h].fp)} :
          told'[h] = id
  BY DEF LookUpBefore, LookUp, MTypeOK
<1>4. id # NoIncident => OpenFor(h, id)
  BY <1>0, <1>3, FoundIsOpen DEF OpenFor
<1>5. CallFits(h)'
  BY <1>1, <1>2 DEF CallInv, CallFits, vars
<1>6. ResolvingCallFits(h)'
  BY <1>1, <1>2, <1>3, <1>4 DEF ResolvingCallFits, OpenFor, vars
<1> QED BY <1>1, <1>2, <1>5, <1>6 DEF CallInv, AnswerFits

\* A firing call looks again and is told the latest open incident of its alert:
\* the one it meant is open, so there is one, of the same date or a later one.
LEMMA SecondLookUp ==
    ASSUME MTypeOK, IndInv, NEW h \in Handlers, CallInv(h), LookUpAfter(h)
    PROVE  CallInv(h)'
<1>0. TypeOK /\ CopyMatchesPc /\ IsTable(rows) /\ h \in Threads
  BY DEF IndInv, TypeOK, Threads
<1>1. /\ call[h].phase = "after" /\ call[h].kind = "firing" /\ pc[h] = "idle"
      /\ copy[h] = NoIncident /\ UNCHANGED <<vars, meant>>
      /\ FiringCallFits(h)
  BY <1>0 DEF LookUpAfter, CallInv, CallFits, MTypeOK, CopyMatchesPc, CopyFits
<1>2. /\ call'[h].phase = "answered" /\ call'[h].kind = call[h].kind
      /\ call'[h].fp = call[h].fp /\ call'[h].start = call[h].start
  BY DEF LookUpAfter, Proceed, MTypeOK, Call
<1>3. OpenFor(h, meant[h])
  BY <1>1 DEF FiringCallFits
<1>4. GetActive(rows, call[h].fp) # {}
  <2>1. call[h].start \in Nat
    BY DEF MTypeOK, Call
  <2> QED BY <1>0, <1>1, <1>3, <2>1, OpenIsFound DEF FiringCallFits, OpenFor
<1>5. PICK inc \in GetActive(rows, call[h].fp) : told'[h] = inc.incident_id
  BY <1>4 DEF LookUpAfter, LookUp, MTypeOK
<1>6. /\ told'[h] \in DOMAIN rows /\ rows[told'[h]] = inc
      /\ inc.alert_fingerprint = call[h].fp
      /\ rows[meant[h]].start_time <= inc.start_time
  BY <1>0, <1>3, <1>5, FoundIsOpen DEF OpenFor
<1>7. rows[meant[h]].start_time = call[h].start => inc.start_time = call[h].start
  <2>1. inc.start_time <= call[h].start
    BY <1>1, <1>6 DEF FiringCallFits
  <2>2. inc.start_time \in Nat /\ rows[meant[h]].start_time \in Nat
    BY <1>0, <1>3, <1>6, IncidentFields DEF OpenFor
  <2> QED BY <1>6, <2>1, <2>2
<1>8. AnswerFits(h)'
  BY <1>1, <1>2, <1>3, <1>6, <1>7 DEF AnswerFits, NoEarlier, OpenFor, vars
<1>9. CallFits(h)'
  BY <1>1, <1>2 DEF CallInv, CallFits, vars
<1>10. FiringCallFits(h)'
  BY <1>1, <1>2 DEF FiringCallFits, CreatorPcs, vars
<1> QED BY <1>1, <1>2, <1>8, <1>9, <1>10 DEF CallInv

\* What a step of the handling leaves of the call: its alert, and the phase it
\* is in until the handling returns.
LEMMA HandlingStep ==
    ASSUME MTypeOK, WorkFits, NEW h \in Handlers, CallInv(h), HandleManually(h)
    PROVE  /\ call[h].phase = "handling" /\ call[h].kind \in {"firing", "resolved"}
           /\ event[h] # NoEvent
           /\ event[h].kind = call[h].kind /\ event[h].fp = call[h].fp
           /\ event[h].start = call[h].start /\ call[h].start \in Nat
           /\ call'[h].kind = call[h].kind /\ call'[h].fp = call[h].fp
           /\ call'[h].start = call[h].start /\ told'[h] = told[h]
           /\ IF pc'[h] # "idle" THEN call'[h] = call[h]
              ELSE call'[h].phase = IF call[h].kind = "firing" THEN "after" ELSE "answered"
           /\ copy'[h] # NoIncident => meant'[h] = copy'[h].incident_id
           /\ copy'[h] = NoIncident /\ ~FiringIsDuplicate(h) => meant'[h] = meant[h]
<1>1. call[h].phase = "handling" /\ call[h] \in Call /\ told'[h] = told[h]
  BY DEF HandleManually, MTypeOK
<1>2. /\ call[h].kind \in {"firing", "resolved"} /\ call[h].start \in Nat
      /\ event[h] = [kind |-> call[h].kind, fp |-> call[h].fp, start |-> call[h].start]
  BY <1>1 DEF CallInv, CallFits, Call
<1>3. event[h] # NoEvent
  <2>1. pc[h] # "idle"
    BY DEF HandleManually, HandleAlert, FiringIsDuplicate, FiringIsNew, CreateIncident,
       Announce, AnnounceUnavailable, SaveStarted, Submit, ResolvedIsUnknown, ResolveIncident,
       SaveResolved, PostResolution, RunInline
  <2> QED BY <2>1 DEF WorkFits
<1>4. /\ call'[h].kind = call[h].kind /\ call'[h].fp = call[h].fp
      /\ call'[h].start = call[h].start
      /\ IF pc'[h] # "idle" THEN call'[h] = call[h]
         ELSE call'[h].phase = IF call[h].kind = "firing" THEN "after" ELSE "answered"
  BY <1>1 DEF HandleManually, Proceed, MTypeOK, Call
<1>5. /\ copy'[h] # NoIncident => meant'[h] = copy'[h].incident_id
      /\ copy'[h] = NoIncident /\ ~FiringIsDuplicate(h) => meant'[h] = meant[h]
  <2>1. ASSUME FiringIsDuplicate(h) PROVE copy'[h] = NoIncident
    BY <2>1 DEF FiringIsDuplicate, Return, SetCopy, MTypeOK, TypeOK, Threads
  <2> QED BY <2>1 DEF HandleManually, IsMeant, MTypeOK
<1> QED BY <1>1, <1>2, <1>3, <1>4, <1>5

\* A firing call opens the incident it means, or finds it open, and keeps it
\* open until it looks again.
LEMMA FiringHandled ==
    ASSUME MTypeOK, IndInv, ThreadInv, Serial, [OpenNext]_vars,
           NEW h \in Handlers, CallInv(h), HandleManually(h), call[h].kind = "firing"
    PROVE  CallInv(h)'
<1>0. /\ TypeOK /\ HeldRowsExist /\ CopyMatchesPc /\ WorkFits /\ CopiesIdentify
      /\ IsTable(rows) /\ h \in Threads /\ HandleAlert(h)
  BY DEF IndInv, ThreadInv, TypeOK, Threads, HandleManually
<1>1. /\ call[h].phase = "handling" /\ event[h] # NoEvent
      /\ event[h].kind = "firing" /\ event[h].fp = call[h].fp
      /\ event[h].start = call[h].start /\ call[h].start \in Nat
      /\ call'[h].kind = "firing" /\ call'[h].fp = call[h].fp
      /\ call'[h].start = call[h].start /\ told'[h] = NoIncident
      /\ IF pc'[h] # "idle" THEN call'[h] = call[h] ELSE call'[h].phase = "after"
      /\ copy'[h] # NoIncident => meant'[h] = copy'[h].incident_id
      /\ copy'[h] = NoIncident /\ ~FiringIsDuplicate(h) => meant'[h] = meant[h]
  BY <1>0, HandlingStep DEF CallInv, FiringCallFits
<1>2. /\ \A i \in DOMAIN rows : rows[i].alert_fingerprint = call[h].fp
                                 => rows[i].start_time <= call[h].start
      /\ pc[h] \in CreatorPcs =>
            /\ copy[h].start_time = call[h].start
            /\ copy[h].status # "RESOLVED" /\ rows[copy[h].incident_id].status # "RESOLVED"
      /\ copy[h] # NoIncident => meant[h] = copy[h].incident_id
      /\ event[h] = [kind |-> "firing", fp |-> call[h].fp, start |-> call[h].start]
  BY <1>1 DEF CallInv, CallFits, FiringCallFits
<1>3. \A i \in DOMAIN rows' : rows'[i].alert_fingerprint = call[h].fp
                               => rows'[i].start_time <= call[h].start
  <2>1. ASSUME NEW g \in Handlers, NEW i \in Incidents, Opens(g, i)
        PROVE  /\ DOMAIN rows' = DOMAIN rows \cup {i} /\ \A j \in DOMAIN rows : rows'[j] = rows[j]
               /\ rows'[i].start_time = call[h].start
    <3>1. g = h
      BY DEF Serial
    <3>2. rows'[i].start_time = event[h].start
      BY <2>1, <3>1, OpensRow
    <3> QED BY <1>1, <2>1, <3>2 DEF Opens
  <2>2. ASSUME NEW i \in Incidents, DOMAIN rows' = DOMAIN rows \cup {i},
               \A j \in DOMAIN rows : rows'[j] = rows[j], rows'[i].start_time = call[h].start
        PROVE  \A j \in DOMAIN rows' : rows'[j].alert_fingerprint = call[h].fp
                                        => rows'[j].start_time <= call[h].start
    BY <1>1, <1>2, <2>2
  <2>3. ASSUME DOMAIN rows' = DOMAIN rows
        PROVE  \A j \in DOMAIN rows' : rows'[j].alert_fingerprint = call[h].fp
                                        => rows'[j].start_time <= call[h].start
    BY <1>0, <1>2, <2>3, RowsKeepIdentity DEF SameIncident
  <2>4. CASE \E g \in Handlers, i \in Incidents : Opens(g, i)
    <3>1. PICK g \in Handlers, i \in Incidents : Opens(g, i)
      BY <2>4
    <3> QED BY <2>1, <2>2, <3>1
  <2>5. CASE rows' = rows \/ \E t \in Threads : SavesCopy(t)
    <3>1. DOMAIN rows' = DOMAIN rows
      BY <2>5, SaveRow DEF SavesCopy
    <3> QED BY <2>3, <3>1
  <2> QED BY <1>0, <2>4, <2>5, RowsChange
<1> DEFINE Kept == /\ copy'[h].start_time = call[h].start
                   /\ copy'[h].status # "RESOLVED"
                   /\ rows'[copy'[h].incident_id].status # "RESOLVED"
           Fits == /\ pc'[h] # "idle" => event'[h] = event[h]
                   /\ pc'[h] \in CreatorPcs => Kept
                   /\ pc'[h] = "idle" => copy'[h] = NoIncident /\ OpenFor(h, meant[h])'
<1>4. ASSUME Fits PROVE CallInv(h)'
  <2>1. CallFits(h)'
    BY <1>1, <1>2, <1>4 DEF CallFits
  <2>2. FiringCallFits(h)'
    BY <1>1, <1>3, <1>4 DEF FiringCallFits, CreatorPcs
  <2> QED BY <1>1, <2>1, <2>2 DEF CallInv, AnswerFits
<1>5. CASE FiringIsNew(h)
  BY <1>0, <1>4, <1>5 DEF FiringIsNew, Goto, TypeOK, CreatorPcs
<1>6. CASE FiringIsDuplicate(h) /\ LetsGo(h)
  <2>1. pc'[h] = "idle" /\ copy'[h] = NoIncident /\ rows' = rows
    BY <1>6 DEF LetsGo
  <2>2. PICK inc \in GetActive(rows, event[h].fp) : meant'[h] = inc.incident_id
    BY <1>6, <2>1 DEF HandleManually, IsMeant, MTypeOK
  <2>3. /\ inc.incident_id \in DOMAIN rows /\ rows[inc.incident_id] = inc
        /\ inc.alert_fingerprint = event[h].fp /\ inc.status # "RESOLVED"
    BY <1>0, FoundIsOpen
  <2>4. OpenFor(h, meant[h])'
    BY <1>1, <2>1, <2>2, <2>3 DEF OpenFor
  <2> QED BY <1>4, <2>1, <2>4 DEF CreatorPcs
<1>7. CASE Announces(h)
  <2>1. /\ pc'[h] = "saveStarted" /\ event'[h] = event[h] /\ pc[h] \in CreatorPcs
        /\ rows' = rows
        /\ copy'[h] = copy[h] \/ copy'[h] = [copy[h] EXCEPT !.slack_thread_ts = "parent"]
    BY <1>7 DEF Announces, CreatorPcs
  <2>2. copy[h] \in Incident
    BY <1>0, <2>1, HoldersHold
  <2>3. /\ copy'[h].start_time = copy[h].start_time /\ copy'[h].status = copy[h].status
        /\ copy'[h].incident_id = copy[h].incident_id
    BY <2>1, <2>2 DEF Incident
  <2> QED BY <1>2, <1>4, <2>1, <2>3
<1>8. CASE SavesStarted(h)
  <2>1. /\ pc'[h] # "idle" /\ event'[h] = event[h] /\ pc[h] \in CreatorPcs
        /\ copy'[h] = copy[h] /\ rows' = Save(rows, copy[h])
    BY <1>8 DEF SavesStarted, CreatorPcs
  <2>2. copy[h].incident_id \in DOMAIN rows
    BY <1>0, <2>1, HoldersHold DEF HeldRowsExist
  <2>3. rows'[copy[h].incident_id] = copy[h]
    BY <2>1, <2>2, SaveRow
  <2> QED BY <1>2, <1>4, <2>1, <2>3
<1>9. CASE Submits(h)
  <2>1. /\ pc[h] = "submit" /\ pc[h] \in CreatorPcs
        /\ pc'[h] = "idle" /\ copy'[h] = NoIncident /\ rows' = rows
    BY <1>9 DEF Submits, CreatorPcs
  <2>2. PICK i : i = copy[h].incident_id
    OBVIOUS
  <2>3. /\ copy[h] # NoIncident /\ i \in DOMAIN rows /\ meant[h] = i
        /\ rows[i].alert_fingerprint = event[h].fp /\ rows[i].status # "RESOLVED"
    BY <1>0, <1>1, <1>2, <2>1, <2>2, HoldersHold DEF HeldRowsExist, CopiesIdentify
  <2>4. meant'[h] = i
    BY <1>1, <2>1, <2>3 DEF FiringIsDuplicate
  <2>5. OpenFor(h, meant[h])'
    BY <1>1, <2>1, <2>3, <2>4 DEF OpenFor
  <2> QED BY <1>4, <2>1, <2>5 DEF CreatorPcs
<1>10. ASSUME NEW i \in Incidents, Opens(h, i) PROVE CallInv(h)'
  <2>1. /\ pc'[h] = "announce" /\ event'[h] = event[h]
        /\ copy'[h] = [NewIncident(i, event[h].fp, event[h].start) EXCEPT !.status = "INVESTIGATION_STARTED"]
    BY <1>10 DEF Opens
  <2>2. copy'[h].start_time = call[h].start
    BY <1>1, <2>1 DEF NewIncident
  <2>3. /\ copy'[h].status # "RESOLVED"
        /\ rows'[copy'[h].incident_id].status # "RESOLVED"
    BY <1>10, OpensRow
  <2> QED BY <1>4, <2>1, <2>2, <2>3
<1> QED BY <1>0, <1>1, <1>5, <1>6, <1>7, <1>8, <1>9, <1>10, FiringSteps

\* A resolving call that noted an open incident resolves that one or a later
\* one, and remembers which.
LEMMA ResolvingHandled ==
    ASSUME MTypeOK, IndInv, ThreadInv, NothingAhead, [OpenNext]_vars,
           NEW h \in Handlers, CallInv(h), HandleManually(h), call[h].kind = "resolved"
    PROVE  CallInv(h)'
<1>0. /\ TypeOK /\ HeldRowsExist /\ CopyMatchesPc /\ WorkFits /\ CopiesIdentify
      /\ IsTable(rows) /\ h \in Threads /\ HandleAlert(h)
  BY DEF IndInv, ThreadInv, TypeOK, Threads, HandleManually
<1>1. /\ call[h].phase = "handling" /\ event[h] # NoEvent
      /\ event[h].kind = "resolved" /\ event[h].fp = call[h].fp
      /\ event[h].start = call[h].start /\ call[h].start \in Nat
      /\ call'[h].kind = "resolved" /\ call'[h].fp = call[h].fp
      /\ call'[h].start = call[h].start /\ told'[h] = told[h]
      /\ IF pc'[h] # "idle" THEN call'[h] = call[h] ELSE call'[h].phase = "answered"
      /\ copy'[h] # NoIncident => meant'[h] = copy'[h].incident_id
      /\ copy'[h] = NoIncident => meant'[h] = meant[h]
  BY <1>0, HandlingStep DEF FiringIsDuplicate
<1>2. /\ copy[h] # NoIncident => meant[h] = copy[h].incident_id
      /\ event[h] = [kind |-> "resolved", fp |-> call[h].fp, start |-> call[h].start]
      /\ ResolvingCallFits(h)
  BY <1>1 DEF CallInv, CallFits
<1> DEFINE Tells(i, j) == /\ {j, i} \subseteq DOMAIN rows'
                          /\ rows'[i].start_time <= rows'[j].start_time
                          /\ rows'[i].alert_fingerprint = call[h].fp
           Fits ==
       /\ pc'[h] \notin {"lookup"} /\ (pc'[h] # "idle" => event'[h] = event[h])
       /\ pc'[h] = "idle" => copy'[h] = NoIncident
       /\ \E j : meant'[h] = j /\ (told[h] # NoIncident => Tells(told[h], j))
<1>3. ASSUME Fits PROVE CallInv(h)'
  <2>1. CallFits(h)'
    BY <1>1, <1>2, <1>3 DEF CallFits
  <2>2. PICK i, j : i = told[h] /\ j = meant'[h]
    OBVIOUS
  <2>3. told'[h] = i /\ (i # NoIncident => Tells(i, j))
    BY <1>1, <1>3, <2>2
  <2>4. ResolvingCallFits(h)'
    BY <1>1, <1>3, <2>2, <2>3 DEF ResolvingCallFits, NoEarlier
  <2>5. AnswerFits(h)'
    BY <1>1, <1>3, <2>2, <2>3 DEF AnswerFits, NoEarlier
  <2> QED BY <1>1, <2>1, <2>4, <2>5 DEF CallInv
<1>4. ASSUME pc[h] # "lookup", NEW j, meant[h] = j, told[h] # NoIncident
      PROVE  Tells(told[h], j)
  <2>1. PICK i : i = told[h]
    OBVIOUS
  <2>2. NoEarlier(j, i) /\ rows[i].alert_fingerprint = call[h].fp
    BY <1>1, <1>2, <1>4, <2>1 DEF ResolvingCallFits
  <2>3. Tells(i, j)
    BY <1>0, <2>2, RowsKeepIdentity DEF NoEarlier, SameIncident
  <2> QED BY <2>1, <2>3
<1>5. CASE ResolvedIsUnknown(h) /\ LetsGo(h)
  <2>1. /\ pc[h] = "lookup" /\ GetActive(rows, event[h].fp) = {}
        /\ pc'[h] = "idle" /\ copy'[h] = NoIncident
    BY <1>5 DEF ResolvedIsUnknown, LetsGo
  <2>2. told[h] = NoIncident
    <3>1. ASSUME told[h] # NoIncident PROVE FALSE
      <4>1. OpenFor(h, told[h])
        BY <1>1, <1>2, <2>1, <3>1 DEF ResolvingCallFits
      <4>2. Stamp \in Nat /\ \A j \in DOMAIN rows : rows[j].start_time <= Stamp
        BY DEF NothingAhead, Stamp, MTypeOK
      <4> QED BY <1>0, <1>1, <2>1, <4>1, <4>2, OpenIsFound DEF OpenFor
    <3> QED BY <3>1
  <2> QED BY <1>3, <2>1, <2>2
<1>6. CASE PostResolution(h) /\ LetsGo(h)
  <2>1. pc[h] = "postResolution" /\ pc'[h] = "idle" /\ copy'[h] = NoIncident
    BY <1>6 DEF PostResolution, LetsGo
  <2> QED BY <1>1, <1>3, <1>4, <2>1
<1>7. CASE Closes(h)
  <2>1. /\ pc[h] = "saveResolved"
        /\ \/ pc'[h] = "idle" /\ copy'[h] = NoIncident
           \/ pc'[h] = "postResolution" /\ copy'[h] = copy[h] /\ event'[h] = event[h]
    BY <1>7 DEF Closes
  <2>2. copy[h] # NoIncident
    BY <1>0, <2>1, HoldersHold DEF ResolverPcs
  <2>3. meant'[h] = meant[h]
    BY <1>1, <1>2, <2>1, <2>2
  <2> QED BY <1>3, <1>4, <2>1, <2>3
<1>8. ASSUME NEW i \in Incidents, Finds(h, i) PROVE CallInv(h)'
  <2>1. /\ pc[h] = "lookup" /\ pc'[h] = "saveResolved" /\ event'[h] = event[h]
        /\ i \in DOMAIN rows /\ rows[i] \in GetActive(rows, event[h].fp)
        /\ copy'[h] = [rows[i] EXCEPT !.status = "RESOLVED"]
        /\ rows' = rows
    BY <1>8 DEF Finds
  <2>2. meant'[h] = i
    <3>1. copy'[h].incident_id = i
      BY <1>0, <2>1, IncidentFields DEF Incident
    <3>2. copy'[h] # NoIncident
      <4>1. IndInv'
        BY IndInvStep
      <4> QED BY <1>0, <2>1, <4>1, HoldersHold, PlaceholderAssumption DEF IndInv, TypeOK, ResolverPcs
    <3> QED BY <1>1, <3>1, <3>2
  <2>3. ASSUME told[h] # NoIncident PROVE Tells(told[h], i)
    <3>1. PICK k : k = told[h]
      OBVIOUS
    <3>2. k \in DOMAIN rows /\ rows[k].alert_fingerprint = call[h].fp /\ rows[k].status # "RESOLVED"
      BY <1>1, <1>2, <2>1, <2>3, <3>1 DEF ResolvingCallFits, OpenFor
    <3>3. rows[k].start_time <= rows[i].start_time
      BY <1>0, <1>1, <2>1, <3>2, GetActiveIsLatest
    <3>4. Tells(k, i)
      BY <2>1, <3>2, <3>3 DEF NoEarlier
    <3> QED BY <3>1, <3>4
  <2> QED BY <1>3, <2>1, <2>2, <2>3
<1> QED BY <1>0, <1>1, <1>5, <1>6, <1>7, <1>8, ResolvingSteps

\* Every step keeps what is known of a call.
LEMMA CallInvStep ==
    ASSUME MTypeOK, IndInv, ThreadInv, NothingAhead, RunsFindItClosed, Serial, [MNext]_mvars,
           NEW h \in Handlers, CallInv(h)
    PROVE  CallInv(h)'
<1>0. /\ [OpenNext]_vars /\ TypeOK /\ HeldRowsExist /\ WorkFits /\ h \in Threads
      /\ call[h] \in Call /\ call[h].kind \in {"none", "firing", "resolved"}
      /\ \A g \in Handlers : g = h
  BY StepIsOpen DEF IndInv, ThreadInv, Serial, Threads, MTypeOK, ClockTyped, Call
<1>1. ASSUME call'[h] = NoCall, told'[h] = NoIncident, meant'[h] = NoIncident PROVE CallInv(h)'
  BY <1>1 DEF CallInv, CallFits, AnswerFits, NoCall
<1>2. ASSUME call[h] = NoCall, UNCHANGED <<call, told, meant>> PROVE CallInv(h)'
  <2>1. told[h] = NoIncident /\ meant[h] = NoIncident
    BY <1>2 DEF CallInv, CallFits, NoCall
  <2> QED BY <1>1, <1>2, <2>1
<1>3. ASSUME UNCHANGED <<call, told, meant>>,
             pc'[h] = pc[h], event'[h] = event[h], copy'[h] = copy[h]
      PROVE  CallInv(h)'
  BY <1>0, <1>3, CallStays, OthersKeepRows
<1>4. CASE Serve(h)
  <2>1. CASE \E f \in AlertFingerprints : AlertmanagerWebhook(h, f)
    BY <1>2, <2>1 DEF AlertmanagerWebhook, calls
  <2>2. CASE \E f \in AlertFingerprints, kind \in {"firing", "resolved"} : ManualInvestigate(h, f, kind)
    BY <2>2, CallBegins
  <2>3. CASE ServeOthers(h)
    BY <1>2, <2>3 DEF ServeOthers, calls
  <2>4. CASE HandleManually(h)
    <3>1. call[h].kind \in {"firing", "resolved"}
      BY <1>0, <2>4, HandlingStep
    <3> QED BY <1>0, <2>4, <3>1, FiringHandled, ResolvingHandled
  <2>5. CASE FailManually(h) \/ Answer(h)
    BY <1>1, <2>5 DEF FailManually, Answer, Finish, MTypeOK
  <2> QED BY <1>4, <2>1, <2>2, <2>3, <2>4, <2>5, FirstLookUp, SecondLookUp DEF Serve
<1>5. CASE CrashAll
  BY <1>1, <1>5 DEF CrashAll
<1>6. CASE \E f \in AlertFingerprints : AlertTurns(f)
  BY <1>3, <1>6 DEF AlertTurns, AlertChanges, calls
<1>7. ASSUME NEW w \in Workers, RunOnWorker(w) PROVE CallInv(h)'
  <2>1. w \in Threads /\ h \in Threads \ {w}
    BY <1>0, OrchestratorAssumption DEF Threads
  <2> QED BY <1>0, <1>3, <1>7, <2>1, OthersStay DEF RunOnWorker, WorkerStep, calls
<1>8. CASE Tick \/ UNCHANGED mvars
  BY <1>3, <1>8 DEF Tick, mvars, vars, calls
<1> QED BY <1>0, <1>4, <1>5, <1>6, <1>7, <1>8 DEF MNext

LEMMA CallsInvStep == MTypeOK /\ IndInv /\ ThreadInv /\ CallsInv /\ [MNext]_mvars => CallsInv'
<1> SUFFICES ASSUME MTypeOK, IndInv, ThreadInv, CallsInv, [MNext]_mvars PROVE CallsInv'
  OBVIOUS
<1>1. /\ NothingAhead /\ RunsFindItClosed /\ (Serial => \A h \in Handlers : CallInv(h))
      /\ CopiesIdentify
  BY DEF CallsInv, ThreadInv
<1>2. [OpenNext]_vars
  BY StepIsOpen DEF MTypeOK, ClockTyped
<1>3. RunsFindItClosed'
  BY <1>1, <1>2, RunsFindItClosedStep
<1>4. NothingAhead'
  BY <1>1, NothingAheadStep
<1>5. ASSUME Serial PROVE \A h \in Handlers : CallInv(h)'
  BY <1>1, <1>5, CallInvStep
<1>6. Serial' = Serial
  BY DEF Serial
<1> QED BY <1>3, <1>4, <1>5, <1>6 DEF CallsInv

LEMMA CallsInductive == MSpec => []CallsInv
<1>1. ASSUME MInit PROVE CallsInv
  <2>1. \A h \in Handlers : CallInv(h)
    BY <1>1, NoCallFits DEF MInit
  <2>2. RunsFindItClosed
    BY <1>1 DEF MInit, Init, RunsFindItClosed, RunnerPcs
  <2>3. NothingAhead
    <3>1. rows = EmptyTable /\ now = 1 /\ since = [f \in AlertFingerprints |-> 0]
          /\ \A h \in Handlers : event[h] = NoEvent
      BY <1>1 DEF MInit, Init, Threads
    <3> QED BY <3>1 DEF NothingAhead, EmptyTable, Stamp
  <2> QED BY <2>1, <2>2, <2>3 DEF CallsInv
<1> QED BY <1>1, CallsInvStep, ManualTypeCorrect, StillInductive, StillThreads, PTL DEF MSpec

\* What is known of the dates and of every manual call, in every phase of it,
\* holds in every reachable state, whatever the caller fires or resolves
\* (main.py:136, 154-182).
THEOREM AnswersInductive == MSpec => []AnswerInv
  BY CallsInductive, CallsInvImplies, PTL

\* With one request at a time a firing call is told an incident of its alert
\* no earlier than the one it opened or joined, and of the second of the call
\* if it opened one; a resolving call is told an incident only if it has
\* resolved that one or a later one (main.py:154-177 over
\* orchestrator.py:48-58, 84-91).
THEOREM AnswersNameIncidents == MSpec => []AnswerNamesIncident
  BY CallsInductive, CallsInvImplies, PTL
=============================================================================
