# A TLA+ model of the RCA agent

The repository runs a FastAPI application under Prometheus, Loki, Tempo and
Alertmanager, and an agent (`rca-agent/`) that investigates the alerts: it
creates an incident, queries the datasources, lets an LLM phrase a root cause
within the limits of the evidence, reports in a Slack thread and may restart
the backend container. The agent is the program modelled here; the rest of the
repository is configuration of third-party services and the demo application
the agent watches.

Paths below are relative to `rca-agent/app/` unless they name another place.
"Divergences" lists where the code does something else than its documents say.

## 1. Inventory

| Part | State | Operations | Module |
|---|---|---|---|
| Incident store (`state/store.py`) | one SQLite table | `create`, `save`, `get`, `get_active_by_fingerprint`; each one locked connection | `IncidentStore` |
| Orchestrator (`investigation/orchestrator.py`) | two thread pools, thread-local copies of incidents | `handle_webhook_alert`, `create_incident_and_notify`, `run_investigation`, `_report_timeout`, `_handle_resolved`, `_attempt_remediation` | `Orchestrator`, `Remediation` |
| Endpoints (`main.py`) | none | `/webhook/alertmanager`, `/investigate`, `/ask`, `/health`, `/ready`, `/metrics` | callers in `Orchestrator`, `ManualTrigger`, `RateLimiter` |
| Questions (`investigation/ask.py`) | none | `classify_question`; `handle_ask`: an incident of its own, run inline | `RcaEngine`, `Orchestrator` |
| Deadline and tool-call budget (`orchestrator.py`, `investigation/context.py`, `playbooks/base.py`) | the deadline pool's queue and threads, a call counter per investigation | submit, race against the timeout, `tool_call`, `safe` | `DeadlinePool` |
| Playbooks (`playbooks/*.py`) | the evidence they collect | four playbooks and the registry | `Playbooks` |
| Hypotheses, confidence, RCA (`investigation/hypotheses.py`, `confidence.py`, `rca/engine.py`) | none | `rank`, `score_to_level`, `most_conservative`, `generate_rca` | `Playbooks`, `RcaEngine` |
| Auto-remediation (`investigation/remediation_policy.py`, `remediation/client.py`) | `_last_restart`, per process | `decide`, `record_restart`, `restart_container` | `RcaEngine`, `Remediation` |
| Rate limiter (`security/ratelimit.py`) | one deque of times per caller | `check` | `RateLimiter` |
| Slack client (`slack/client.py`) | none of its own | start a thread, reply, post standalone | steps of `Orchestrator` |
| Dashboard discovery (`grafana/discovery.py`) | a list cached for five minutes, shared by the threads | `_cached_dashboards`, `find_panel_link` | `DashboardCache` |
| Datasource clients, query builders, correlation, formatting, redaction, settings | none that decides anything | requests and string construction | not modelled |

**Interactions.** Alertmanager posts to the webhook, at least once per state of
an alert. A request thread creates the incident, announces it and submits its
id to the dispatch pool. A dispatch worker (or, for `/ask`, the request itself)
reads the row, submits the playbook to the deadline pool, waits for it with a
timeout, saves each stage, calls the LLM, posts, perhaps restarts the backend,
and saves the end. A resolve notification reads, rewrites and saves the same
row meanwhile. `/investigate` hands an alert to the same handler as the webhook,
with the status its caller chose and the second of the call as its date, and
looks the incident it names up in the table on its own. Between the RCA and
its report a run asks Grafana for a link, over a list all runs share. The only lock in all this is that of a single store
call.

**What is hard here.**

- Every function works on a copy of the row and saves all columns of it, so
  concurrent savers overwrite each other (`store.py:144`).
- Look-up and creation, decision and restart, length test and append, looking
  an incident up and resolving it, reading the clock and storing a list are all
  pairs of steps with nothing around them (`orchestrator.py:48`,
  `remediation_policy.py:65`, `ratelimit.py:36`, `main.py:170-175`,
  `grafana/discovery.py:46-62`).
- The playbook's thread outlives its deadline; the queues are in memory while
  the table survives.
- Slack, the LLM, the datasources and the restart call can each fail, or
  succeed without their answer arriving.
- What is restarted is decided by scores spread over seven files.

**What makes it correct**, part by part:

- *Store and orchestrator*: nobody works on an incident someone else runs; no
  investigation is repeated; a row never mixes two stages; every run leaves
  something on file; a closed incident stays closed; one incident per episode;
  no incident is left behind; nobody is told two verdicts, in two threads, or
  one that is not on file.
- *Endpoints*: the incident `/investigate` names is the one the call was about,
  or none earlier; a question runs the most specific playbook.
- *Deadline pool*: the caller always comes back, a playbook never exceeds its
  budget, an overrun does not wedge the pool.
- *Playbooks, RCA*: confidence and root cause are backed by evidence whatever
  the LLM says; a restart is considered only for symptoms it can cure.
- *Remediation*: restarts are spaced by the cooldown.
- *Rate limiter*: no more than the limit in any window; the wait it announces
  is enough; it fails no request itself.
- *Dashboards*: a link is never older than the cache allows, and a list made
  during an outage is forgotten.

## 2. Modules

| Module | What it is |
|---|---|
| `IncidentStore` | the table as a function from ids to records, and the calls as operators on it |
| `Orchestrator` | threads, webhook, `/ask`, dispatch queue, Slack, crashes; extends `IncidentStore` |
| `IncidentLifecycle` | abstract specification: what one investigation promises |
| `Episodes` | what the orchestrator promises about the episodes of an alert, the refinement mapping to `IncidentLifecycle`, and the invariants behind both; extends `Orchestrator` |
| `ManualTrigger` | `/investigate`, the clock that dates its calls, and its answer; extends `Episodes` |
| `DeadlinePool` | the deadline race inside one step of `Orchestrator` |
| `Playbooks` | hypotheses and evidence as functions of what the datasources answer |
| `RcaEngine` | alert or question, observations, LLM answer, RCA, decision; extends `Playbooks` |
| `Remediation` | decision, restart call, cooldown and notice over time |
| `RateLimiter` | `check`, operation by operation |
| `DashboardCache` | the shared list of dashboards, request by request |
| `Orchestrator_proofs`, `Episodes_proofs`, `ManualTrigger_proofs`, `DeadlinePool_proofs`, `RcaEngine_proofs`, `Remediation_proofs`, `RateLimiter_proofs`, `DashboardCache_proofs` | the theorems about each module |
| `OrchestratorMC`, `ManualTriggerMC`, `RateLimiterMC`, `RemediationMC`, `DashboardCacheMC` | the symmetry sets for TLC |

How they fit: `PlaybookReturns`, `PlaybookOverruns` and `PlaybookFails` of
`Orchestrator` are the three ways out of the race `DeadlinePool` models;
`GenerateRca` of `Orchestrator` takes the status and confidence `RcaEngine`
computes (`CauseIsBacked` there is what lets it assume that a root cause never
comes with confidence Unknown); `Remediate` of `Orchestrator` is where
`Remediation` happens; `DashboardCache` is what `GenerateRca` of `Orchestrator`
leaves out after the RCA, since a missing link changes nothing else.
`ManualTrigger` adds its variables to those of `Orchestrator` and its calls to
the steps of a request thread. A manual call is a delivery no Alertmanager would
send, so it is not a step of `Spec` but of `OpenSpec`, in which deliveries have
any status and any date; `Composed` proves `MSpec => OpenSpec`. Operators whose
comment begins "Mutation" are not part of the model: each is a plausible bug in the definition after it, kept to show
which property notices it.

### Orchestrator

A thread has `pc`, `event` (the alert it handles) and `copy` (its Python
`Incident`). An atomic step is one call of the store, Slack, the playbook or
the RCA engine with the local statements around it, because between two such
calls a thread touches nothing others see.

| Action | Code |
|---|---|
| `Webhook`, `Ask` | `main.py` webhook loop, `ask.py` `handle_ask` |
| `Receive`, `Delivery` | `handle_webhook_alert` on an alert of a given, or any, status and date |
| `FiringIsDuplicate`, `FiringIsNew` | `orchestrator.py` `_handle_firing` |
| `CreateIncident`, `Announce`, `AnnounceUnavailable`, `SaveStarted`, `Submit` | `create_incident_and_notify`, `_dispatch_pool.submit` |
| `ResolvedIsUnknown`, `ResolveIncident`, `SaveResolved`, `PostResolution` | `_handle_resolved` |
| `TakeJob`, `RunInline`, `SaveCollecting` ... `SaveFinal` | `run_investigation` |
| `SaveTimeout`, `PostTimeout...`, `SaveTimeoutThread` | `_report_timeout` |
| `Escape` | an exception the code around the call does not catch |
| `Crash` | the process dies and starts again with the table only |

`Escapes` names the calls that may raise something uncaught: a Slack answer
that is not JSON, an RCA object of an unexpected shape, a value SQLite cannot
bind. `confidence` has the three classes the orchestrator tells apart,
`slack_thread_ts` is unset, the announcement's thread ("parent") or that of a
verdict posted without one ("standalone"). A message that Slack posted although
its answer was lost (`Unanswered`: a read timeout is an `httpx.HTTPError` like a
refusal) is in the thread the agent asked for or, if it began one, in a thread
the agent never learns of ("lost"). `Webhook` sends what Alertmanager sees: the
status the alert has and the date of its episode, so news may be late but is
never made up. Alert labels, evidence
lists and times other than `start_time` are left out: nothing reads them back.

### ManualTrigger

| Action | Code |
|---|---|
| `ManualInvestigate` | `manual_investigate` up to the branch on `req.status`: any fingerprint, either status, dated now |
| `LookUpBefore`, `LookUpAfter` | the two calls of `store.get_active_by_fingerprint` |
| `HandleManually`, `FailManually` | `handle_webhook_alert` on the caller's thread, and the exception that leaves it |
| `Answer` | the returned `incident_id` |
| `AlertmanagerWebhook`, `ServeOthers` | the webhook, as in `Orchestrator`, with the text of `startsAt` |
| `AlertTurns`, `Tick` | an alert begins or stops, and the clock (environment) |

`told` is the id of the answer and `meant`, a history variable, the incident the
handler opened, found or resolved. Dates are the text the table orders by: the
call of second *s* writes `...:05Z`, which is `2s+1`; an episode that began in that
second has a `startsAt` with a fraction, `...:05.123Z`, which sorts before it
(`2s`), or without one. Two calls of one second therefore have one date, and
`GetActive` may return either incident.

What is assumed: Alertmanager's clock is the agent's, and two episodes of one
alert begin in different seconds (rules are evaluated every few seconds). A
refused call (token, limit, validation) reaches no state. Questions to `/ask`
are left out here, since each has a fingerprint no other call can name.

### DeadlinePool

`caller`, `deadline`, `queue`, `job`, `calls` and a clock. The caller's deadline
counts from the submission (`Submit`), giving up (`GivesUp`) changes nothing of
the playbook, and a free thread takes the next playbook wanted or not
(`Start`). A datasource call takes any time: the HTTP timeout bounds one read,
not the call. `MaxCalls` is the budget; the call after the last one raises and
ends the playbook.

### Playbooks and RcaEngine

An observation is a record with one field per answer a hypothesis depends on,
cut into the classes the code tells apart: failed, without data, or a class of
values. "edge" is a value that two opposite comparisons both reject (between
0.5 and 0.7, exactly 0.8, NaN). Evidence is a set of items with the source its
description begins with; `Score`, `Top` and `IndependentSources` are the
code's count, stable sort and prefix count. `RcaEngine` runs one investigation
over every observation and every LLM answer, and keeps the decision for every
possible minimum confidence at once. It starts from an alert name or from a
question, which is the set of keyword groups of `_KEYWORDS` it has words of;
`HandleAsk` picks the first group as `classify_question` does.

### Remediation

Decision, call, record and notice are four steps of a thread. `attempts` is
the history of calls with whether they were answered and whether the container
did restart: the backend is the process that answers, so the two may differ.
`clock` is the host's monotonic clock and survives a crash, `last` does not.

### RateLimiter

One caller's deque. Reading the clock, the test of the `while`, `popleft`, the
length test, `append` and the rejection are separate steps of each thread;
`admitted` and `overlapped` are history the properties need.

### DashboardCache

Threads that run an investigation share `cache`. Reading the clock (`Begin`),
looking at the cache (`Hit`, `Miss`), the search, each fetch and the store are
steps of their own; a fetch that is unavailable is skipped (`FetchUnavailable`),
anything else that fails ends the call without a link (`GiveUp`). Grafana is
`exists` and `content`, which people edit. `since`, `failed` and the `read` time
of an entry are history. No cached list and an expired one are the same state,
so the clock starts at the TTL.

## 3. Runs

| Run | Question | Bounds |
|---|---|---|
| `orch_races` | Do racing deliveries, resolves, a question and a run keep ownership, coherence and freshness? Does every run leave a conclusion, is everything somebody works on concluded once the process stays up, do closed incidents stay closed, is the lifecycle refined? | 2 incidents, 2 request threads for 1 worker, an alert that fires and resolves and a question, 1 crash, no Slack, no escape |
| `orch_serial` | With Alertmanager's requests one at a time, is there one incident per episode, is what was posted on file, with one verdict and in one thread, whichever answers of Slack are lost? Is the lifecycle refined over episodes? Do the inductive invariants hold? | 2 incidents, 1 request thread, 2 workers, 3 transitions (2 episodes), 2 crashes, escapes everywhere |
| `manual` | Does `/investigate` name the incident its call was about, or none earlier, whatever callers fire and resolve? | 2 incidents, 1 request thread, 1 worker, 2 seconds, an alert that fires and resolves, 1 crash, escapes, no Slack |
| `pool` | Do callers come back, does the budget hold, does the pool recover? | 3 playbooks on 2 threads, timeout 2, 2 calls each |
| `rca` | Is what is reported and restarted backed by evidence, and does a restart fit the question? | every alert class, every question, every observation of every playbook, every LLM answer, up to 2 failures among the calls nobody reads |
| `rate` | How far can racing requests overshoot, and is it exact without a race? | 3 threads, limit 2, window 1, 3 ticks, 4 admissions |
| `dash` | How old can a link be, and does a disturbed list pass? | 2 threads, 2 dashboards, TTL 2, 4 ticks (2 after the start), 1 edit |
| `remediation` | How many restarts can races and lost answers cause? | 2 threads, cooldown 2, 5 ticks, 4 attempts, 1 crash |
| `orch_v_dedup`, `orch_v_resolved`, `rca_v_injection`, `remediation_v_race` | each finds a behaviour the documents, or a test, exclude | smallest instance that shows it |

**Why these bounds are enough to be interesting.** Two incidents and two
request threads give both races of the look-up, a resolver against a run and a
resolver against a creator; two incidents for one worker make the second wait.
Two workers in `orch_serial` let the first episode's run overlap the second
episode, three transitions let an alert fire again, and two crashes let one
strand an incident and another strand its successor. In `manual` the second incident
is opened in the second of the first one or in the next, by a caller or by
Alertmanager; Slack, which no lookup reads, is left out. `orch_races` leaves Slack
out, which neither the lifecycle nor progress looks at, to afford two request
threads, a question and a crash; what Slack is told is checked in `orch_serial`,
where a run races with one request, and proved for any number of requests.
Larger instances are the theorems' business. Three playbooks on two
threads is the smallest instance in which an abandoned playbook can keep a
later one waiting, and two timeouts plus a tick let the later caller start late.
`MaxOthers = 2` is where `score_to_level` stops distinguishing. Three requests
at a limit of two produce both the overshoot and the deque emptied by another
thread; a window of one tick within three makes entries expire. Two threads and
two dashboards let one refresh overwrite another and lack what failed; two ticks
after the start let a list live and expire and a refresh outlast the TTL. Two threads and
four attempts let each thread restart twice, around the other's.

**Bounds by name**: `MaxTransitions`, `MaxCrashes`, the size of `Incidents`
(`IdLeft` keeps a request from starting when no id is left for it), `MaxClock`
(the seconds of `ManualTrigger`, the ticks of the others),
`MaxOthers`, `MaxAdmitted`, `MaxAttempts`, `MaxEdits`. `CHECK_DEADLOCK FALSE` is set in the
runs whose clock, attempts or single investigation simply end; the
orchestrator runs check for deadlock.

**Symmetry** is used over interchangeable ids and threads, never in a run with
a liveness property.

### What the runs show

- Whatever deliveries race, an incident has one owner and one run, rows stay
  coherent and every run that is neither crashed nor left by an exception shows
  how it ended (`SingleOwner`, `WaitingIsFresh`, `RowsCoherent`,
  `RunsConclude`). Duplicated *incidents* are possible (`orch_v_dedup`), but a
  duplicated *run* is not.
- What somebody works on, or a worker will, ends with a verdict, a failure or a
  resolution once the process stays up (`NoIncidentLeftBehind`); what a crash
  left behind has no such promise, and waits for its alert to resolve.
- With one of Alertmanager's deliveries at a time, re-deliveries, Slack failures
  and restarts of the agent included, an episode has one incident
  (`OneIncidentPerEpisode`). A manual call can undo this, see Divergences.
- As long as the episode of its alert lasts, an incident goes through the
  abstract lifecycle step by step (`FollowsLifecycle`): with overlapping requests
  while the alert has had one episode, and over several episodes with one request
  at a time, crashes included; again for Alertmanager's deliveries. After the end
  of the episode nothing is promised: `orch_v_resolved` shows why.
- Whoever looks up in the table what Slack was told finds it there, unless the
  incident has been resolved (`PostedIsOnFile`), and is told one verdict
  (`OneVerdictPerIncident`).
- With one request at a time all that Slack is told of an incident is in one
  thread, except an announcement that was posted although its answer was lost
  (`OneThreadPerIncident`): nothing is posted under that one, and the verdict
  begins a thread of its own. Overlapping requests can split it further.
- `/investigate` looks the incident it names up separately. If requests do not
  overlap, a firing call is told the incident it opened or found, or a later one
  of its fingerprint; if it opened one, what it is told is that one or another of
  the same second (`AnswerNamesIncident`), and another it can be (see
  Divergences). A resolving call that is told an incident has resolved that
  one or a later one.
- A resolved incident that nobody refers to any more is never touched again
  (`SettledIncidentsStay`).
- Callers of the deadline pool always come back, also when datasources hang
  for ever; the pool itself recovers only if calls end (`EveryCallerReturns`,
  `PoolRecovers`).
- No answer of the LLM can raise the confidence or attach a root cause to a
  hypothesis without evidence (`CauseIsBacked`, `HighIsEarned`). A test of the
  repository expects the contrary (`rca_v_injection`).
- With a minimum confidence below the default, restarts fit the symptoms
  (`RestartFitsSymptoms`); with minimum "Unknown" a hypothesis without evidence
  is enough. At the default minimum, High, nothing is ever restarted
  (`NeverRestartsAtHigh`, proved), because the hypotheses a restart is meant for
  draw on one source each and High takes three.
- A question is classified by three fixed groups of keywords. One with a word of
  the first ("mysql", "database down", ...) never leads to a restart, and one with
  a word of the second ("errors", "failing", ...) only on errors that were found
  (`AskedRestartsFit`). The groups are phrases, not subjects: "is the database
  slow?" has a word of the third only and is investigated as a latency alert.
- Two investigations that end together can restart the container twice
  (`remediation_v_race`), but each thread keeps the cooldown, so the number is
  bounded by the threads (`ThreadCooldown`, `RestartsBounded`).
- The limiter is exact while requests do not overlap and overshoots by less
  than the number of threads when they do (`LimitHoldsAlone`,
  `RetryAfterIsEnough`, `NoErrorAlone`, `BoundedOvershoot`).
- A dashboard link was read less than the TTL before the call even when
  refreshes overwrite each other, because a list carries the time before its
  first request (`LinkIsFresh`: a list stored under the time it was complete, as
  one would write it naturally, breaks it). After a TTL without failure or edit
  the cache cannot be told from Grafana (`QuietMeansDirect`).

### Fairness

`Orchestrator`: weak fairness of each thread's next step, because between two
of them there is only code that ends. Waiting for the playbook ends whatever
the datasources do (`EveryCallerReturns`), and a store call holds a lock for one
connection. What is assumed of other services is that Slack, the LLM and the
remediation endpoint answer or run into a timeout: Slack and the endpoint are
called with `query_timeout_seconds`, the LLM with its library's default, and
all of these bound the silence of the peer, not the length of the call. Nothing is assumed of the webhook, questions, alerts or crashes.
`orch_v_resolved` uses the fair specification too, so its counterexample is not
a system that merely stops. `DeadlinePool`: weak fairness of the clock, of a
caller whose condition holds, of a free thread and of running code; none of
`CallEnds`, so a call may hang, and `PoolRecovers` states as its hypothesis that
calls end. The other modules have no liveness property: the limiter and the
decision are short straight code, and the cooldown promises no progress.

## 4. Proofs

`Orchestrator_proofs` proves for any sets of threads, ids and fingerprints, any
number of alert transitions, crashes and escapes:

| Theorem | States |
|---|---|
| `OpenInductive` | `OpenSpec => []IndInv`: for deliveries of any status and date |
| `Inductive` | `Spec => []IndInv` |
| `TypeCorrect` | `Spec => []TypeOK` |
| `OwnershipIsUnique` | `Spec => []SingleOwner` |
| `RunsAreFresh` | `Spec => []WaitingIsFresh` |
| `CoherentRows` | `Spec => []RowsCoherent` |
| `VerdictIsUnique` | `Spec => []OneVerdictPerIncident` |
| `PostedStaysOnFile` | `Spec => []PostedIsOnFile` |
| `RunsHaveConclusions` | `Spec => []RunsConclude` |
| `SettledStay` | `Spec => SettledIncidentsStay` |

**Assumptions** (evaluated by TLC in every run of the module):
`OrchestratorAssumption`, that request threads and workers are different and
the sets and bounds have their types, and `PlaceholderAssumption`, that "no
incident" and "no event" are not an incident and an event.

**The invariant.** None of the properties is inductive alone. `SingleOwner` is
disturbed by `TakeJob` and `CreateIncident` and needs that every id in use has
a row (`HeldRowsExist`). `WaitingIsFresh` can be broken by a resolver that
saves a stale copy over an incident that waits, so the invariant has
`ResolversFresh`: such a copy is as fresh as the row. Coherence of the row a
save writes is coherence of the copy, which needs `CopyMatchesPc`: what a copy
looks like at each point of the program. `OneVerdictPerIncident` needs that
whoever posts a verdict is the only owner and past the playbook
(`VerdictIsLast`). `PostedIsOnFile` needs that a verdict is on file before it is
posted and that the only save from outside the run closes the incident
(`ReportIsOnFile`). `RunsConclude` needs that an incident under way that has no
conclusion yet is in the hands of a run (`RunsShow`), which only an exception
from inside the run or a crash can end early; that is why it is stated without
those. `IndInv` is the conjunction, and `orch_serial` checks it on a small
instance. Nothing of it depends on what a delivery says, so it is proved for
`OpenSpec`, and `Spec` is an instance (`SpecIsOpen`).

**The argument.** Some thirty-five actions disturb the parts in only a few
ways. `StepKinds` sorts every step into kinds, each with what it guarantees:
quiet steps, creator steps, a creation, a submission, a resolve and its save,
the beginning of a run, a run that goes on or ends, a crash. One lemma per part
of `IndInv` then goes over the kinds; `IndInvStep` joins them. `SettledStay`
follows because a save writes the saver's own incident, which `Unreferenced`
excludes, and a creation draws an unused id.

### Episodes

`Episodes_proofs` builds on these, again for any sets and bounds:

| Theorem | States |
|---|---|
| `ThreadsInductive` | `OpenSpec => []ThreadInv` |
| `OpenIncidentsHaveOneThread`, `IncidentsHaveOneThread` | `OneThreadPerIncident` for any deliveries, and so for Alertmanager's |
| `EpisodesInductive` | `Spec => []EpisodeInv` |
| `EpisodesHaveOneIncident` | `Spec => []OneIncidentPerEpisode` |
| `InvestigationsFollowLifecycle` | `Spec => FollowsLifecycle`, if `NewsInTime` |

Only the last has a hypothesis, but `OneThreadPerIncident` and
`OneIncidentPerEpisode` speak of request threads that serve one request at a time
(`Serial`). `NewsInTime` is `Serial`, or an alert with at most one episode; the
refinement is false otherwise, because a resolution delivered late closes the
incident of the next episode (see Divergences).

**The invariants.** `ThreadInv` holds whoever sends the alerts:

- `WorkFits` and `CopiesIdentify`: a thread is only where its kind of work takes
  it, and every copy is of the alert and date of its row.
- `ParentsKept` (under `Serial`): every thread on record exists, and a parent
  stays in the row and in every copy until the run has read it.
- `VerdictsBegin` (under `Serial`): apart from an announcement whose answer was
  lost, only a verdict begins a thread outside the parent's, and if its answer
  was lost too, no thread is on record.

`EpisodeInv` rests on Alertmanager's dates and states:

- `DatesFit`: nothing is dated ahead of its alert, and a resolution is only
  delivered of an episode that is over.
- `ClosedAreOver` (under `NewsInTime`): nothing is closed, or about to be, before
  its episode is over. Without it a resolver could save over a run.
- `RunsOnFile` (under `NewsInTime`): while its episode lasts, the row of a run
  has the stage its program counter says. It needs `SingleOwner` against other
  runs and creators, and `ClosedAreOver` against resolvers.
- `EpisodesApart` (under `Serial`): a request meets only incidents up to its own
  episode, and none of that episode if it is about to create one. This step
  needs that the lookup finds the incident of the episode, which is open and of
  the latest date.

**The argument.** `EpisodeSteps` sorts the steps into kinds finer than those of
`StepKinds`: what becomes of the alert in hand, the copy, the row, the queue and
Slack. One lemma per part goes over them. The refinement then has one lemma for
each way a row can change: a creation (`OpenGoes`), a save by a run
(`RunSaveGoes`), any other save (`SaveGoes`), and the end of an episode
(`TimeGoes`), which is the step of the environment; each is a step of
`IncidentLifecycle` for one incident or changes nothing it sees (`OneGoes`).

### Manual calls

A manual call closes what is still firing and dates itself, so `EpisodeInv` does
not survive it; `IndInv` and `ThreadInv` do. `ManualTrigger_proofs` carries these
over, since every step of `ManualTrigger` is a step of `OpenSpec` or leaves its
variables alone (`StepIsOrchestrators`), and adds one of its own:

| Theorem | States |
|---|---|
| `Composed` | `MSpec => OpenSpec` |
| `StillInductive` | `MSpec => []IndInv` |
| `ManualCallsAreSafe` | `MSpec` keeps `SingleOwner`, `WaitingIsFresh`, `RowsCoherent`, `OneVerdictPerIncident`, `PostedIsOnFile`, `OneThreadPerIncident` |
| `ManualTypeCorrect` | `MSpec => []MTypeOK` |
| `AnswersInductive` | `MSpec => []AnswerInv` |
| `AnswersNameIncidents` | `MSpec => []AnswerNamesIncident` |

`AnswerInv` follows a call through its phases. Between the two reads of a call
the runs of other incidents save their own status, so the invariant must say who
may close or reopen what the call has found. Only the request thread closes an
incident, and it is busy with the call; a run that saves RESOLVED found its row
RESOLVED (`RunsFindItClosed`), so an open incident stays open. Since nothing is
dated later than the second it is (`NothingAhead`), no incident of its alert is
later than a firing call when it begins, nor becomes so while the call is served
(`FiringCallFits`), and what it opened or found is open; the second lookup
therefore finds something, of that date or a later one, and if the call opened
it, of the call's own second. A resolving call is the mirror image
(`ResolvingCallFits`).

### The other modules

| Theorem | States, for every value of the constants |
|---|---|
| `DeadlinePool_proofs!BudgetHolds` | `PoolTypeOK`: the budget of every playbook, abandoned ones included, and the queue without repetition |
| `Remediation_proofs!TypeCorrect` | `TypeOK`: every attempt is reported by the thread that made it |
| `Remediation_proofs!CooldownPerThread` | `ThreadCooldown` |
| `Remediation_proofs!CooldownIsOfRestart` | `RecordIsOfRestart` |
| `Remediation_proofs!RestartsAreBounded` | `RestartsBounded` |
| `RateLimiter_proofs!TypeCorrect` | `TypeOK` |
| `RateLimiter_proofs!OvershootBounded` | `BoundedOvershoot` |
| `RateLimiter_proofs!NoErrorWhenAlone` | `NoErrorAlone` |
| `RateLimiter_proofs!LimitHolds` | `LimitHoldsAlone` |
| `RateLimiter_proofs!RetryAfterSuffices` | `RetryAfterIsEnough` |
| `DashboardCache_proofs!TypeCorrect` | `CacheTypeOK` |
| `DashboardCache_proofs!LinksAreFresh` | `LinkIsFresh` |
| `DashboardCache_proofs!QuietIsDirect` | `QuietMeansDirect` |
| `RcaEngine_proofs!TypeCorrect` | `TypeOK` |
| `RcaEngine_proofs!CauseBacked` | `CauseIsBacked` |
| `RcaEngine_proofs!HighEarned` | `HighIsEarned` |
| `RcaEngine_proofs!NeverRestartsAtHigh` | `HighNeverRestarts`: nothing is restarted at the default minimum, see Divergences |
| `RcaEngine_proofs!RestartsFit` | `RestartFitsSymptoms` |
| `RcaEngine_proofs!AskedFits` | `AskedRestartsFit` |
| `RcaEngine_proofs!SupportedIsFirst` | `SupportedLeads` |

- *Deadline pool* (`PoolAssumption`): `PoolTypeOK` is inductive once it is known
  that a playbook exists exactly when its caller submitted it
  (`SubmittedOnce`); otherwise a second submission could queue it twice.
- *Remediation* (`RemediationAssumption`: finitely many threads, times in Nat):
  a thread that decides has waited out every restart on record, and its own are
  all on record, because it records before it decides again. `Recorded`, `Waited`
  and `PastOnly` say this; `PendingFits` ties the attempt under way to the
  thread's program counter. Others' restarts are not covered, and that is the
  race of `remediation_v_race`. `RestartsBounded` follows by counting: mapping
  the restarts of one stretch to their threads is injective, since two of one
  thread would be too close.
- *Rate limiter* (`LimiterAssumption`): a thread passes the length test only
  below the limit, and at most all threads can have passed it without having
  appended; only `BelowLimit` and `Admit` change that sum upwards or move it
  between its two terms. While requests do not overlap, `AloneInv` adds that the
  deque is the end of the history of admissions (`IsSuffix`), that what left it is
  out of every window to come (`Past`), and so that admissions are as far apart as
  the limit demands (`Spaced`), from which `LimitHolds` follows by counting; a
  rejected caller was told when one admission leaves the window (`ToldOfOldest`),
  and fewer than the limit can follow that one within a window.
- *Dashboards* (`DiscoveryAssumption`: a positive TTL): every list, stored, under
  collection or in use, has a time since which it is sound (each entry was read
  later and is what Grafana has unless edited after it was read) and complete (a
  dashboard it lacks was edited, or a request failed, after that time). Both
  survive an edit and a failure, which only weaken what they ask, and the store,
  which keeps the time of the call.
- *RCA* (`RcaAssumption`, `OthersAssumption`): `Derived` says each value is what
  its step computes from those before it. The rest is about the operators:
  `Classify` gives one of the alert names; `Top` picks an element of maximal score (`TopOfTwo`, `TopOfThree`), scoring
  and the conservative combination never exceed what the evidence earned
  (`LevelIsEarned`), and the evidence of a remediable hypothesis comes from
  one source (`RemediableEvidence`).

**Only model-checked.** Liveness (`NoIncidentLeftBehind`, `EveryCallerReturns`,
`PoolRecovers`), which is out of the prover's reach. Every invariant and every
action property of a passing run, and the refinement, is also the statement of a
theorem. What TLC shows beyond the theorems is that the constants' assumptions
and the conditions `Serial` and `NewsInTime` are met by instances in which the
interesting cases happen.

## 5. Divergences

Shown by a run, with the counterexample TLC finds:

1. Two deliveries at once start two investigations of one fingerprint
   (`orch_v_dedup`; `orchestrator.py:48-59`).
2. A run in progress takes a resolved incident out of RESOLVED; it then stays
   active and swallows the next episode (`orch_v_resolved`;
   `orchestrator.py:127, 160, 170, 216`).
3. Two investigations can restart one container within the cooldown
   (`remediation_v_race`; `remediation_policy.py:65`).
4. `tests/test_prompt_injection.py:106-113` expects the root cause and the
   confidence the LLM gives to be kept when there is no evidence at all; the code
   reports Unknown and no cause (`rca_v_injection`; `rca/engine.py:60-72`).

Noted while modelling and not given a run of their own:

- The "exporter can't reach it" hypothesis can never lead
  (`playbooks/mysql_down.py:1-4, 83`): the metric that supports it supports "MySQL
  is down" as well, and in a tie the stable sort keeps the latter first.
- The default minimum confidence makes auto-remediation unreachable
  (`NeverRestartsAtHigh`, for every observation and every answer of the LLM), although
  `rca-agent/README.md:255-263` describes when it acts and
  `tests/test_remediation_policy.py:37-41` has a restart at High.
- An announcement that Slack took although its answer was lost leaves a parent
  nobody knows of, and the verdict then begins a second thread, with one request
  at a time (`slack/client.py:55`, against `slack/client.py:62-63`);
  `OneThreadPerIncident` leaves out that announcement and no other message.
  Overlapping requests can lose a thread as well.
- `/investigate` called to resolve an alert that still fires closes its incident,
  and the next re-delivery of the same episode opens a second one
  (`main.py:136, 154-172`, `state/store.py:5-7`). `OneIncidentPerEpisode` and
  `FollowsLifecycle` are therefore about Alertmanager's deliveries, in `Spec`.
- Calls of `/investigate` are dated to the second. If one fires an alert, one
  resolves it and one fires it again within a second, there are two incidents
  of one date, and if the run of the first then takes it out of RESOLVED, the
  second caller can be told the first (`main.py:154, 175`, `state/store.py:108`;
  the answer is documented in `rca-agent/README.md:150-154`).
- A restarted agent has no memory of its cooldown, so a second restart of the
  container can follow the first one at once (`remediation_policy.py:42`), against
  `rca-agent/README.md:263-267`.
- A resolver's stale copy erases the RCA a run saved in between and takes the
  stage back (`orchestrator.py:90-91`); this is why `FollowsLifecycle` promises
  nothing after the alert's episode, and `PostedIsOnFile` nothing of a resolved
  incident.
- A resolve that is delivered late closes whatever incident of the fingerprint
  is active, also that of the next episode (`orchestrator.py:84-91`); the
  refinement therefore needs `NewsInTime`.
- A firing `/investigate` that was taken for a duplicate of an older incident
  can be told a later one of its alert: a run may bring that one back to life
  between the lookups (`main.py:175-177`; the deduplication is documented as
  finding "the" active incident). `AnswerNamesIncident` allows this.
- A resolving `/investigate` can be told null although it resolved an incident,
  when a run takes one out of RESOLVED between its lookup and the handling
  (`main.py:171-173`).
- SLACK_REPORTED says that there is a thread, not that the RCA was posted in it
  (`orchestrator.py:186-192, 214`); a long report that fails after its first part
  stays incomplete in Slack.
- `/ask` says "did not complete within" the timeout also when the playbook raised
  at once (`ask.py:109-119`), and that Slack is not configured whenever the
  announcement failed (`ask.py:132`).
- `main.py:8-10` says that every route only starts read-only investigations; an
  investigation started by `/ask` or `/investigate` restarts the backend as any
  other does.
- The dashboard search comes after the playbook's deadline and makes one request
  per dashboard: a slow Grafana delays the RCA and its report
  (`orchestrator.py:164`), against `grafana/discovery.py:10-12`.
- A container the default playbook cannot read is not counted as an unavailable
  source (`docker/readonly_client.py:62-66`): the report then says that all
  datasources were reachable (`rca/report.py:90`).
- Everything after the playbook is outside the `try`: an exception there leaves
  an incident without a conclusion, against `orchestrator.py:112-114`.
- An overrun playbook keeps querying (`orchestrator.py:140-147`), while
  `agent-spec.md` says an investigation must not keep running.
- A failed CPU query removes evidence against a hypothesis and can raise the
  confidence (`playbooks/high_latency.py:133`), while an unavailable datasource
  is documented to lower it.
- A failed Loki or Tempo call takes the branch of an empty answer and is
  reported as a telemetry gap (`playbooks/http_500.py:52`,
  `playbooks/high_latency.py:93`), against `investigation/evidence.py:26-27`.
- Racing requests can empty a deque another request is about to pop, which is
  an IndexError and a 500 (`security/ratelimit.py:35-37`); with a limit of 0
  every request is.
- A restart whose answer is lost starts no cooldown; one whose notice cannot be
  posted is silent (`orchestrator.py:226-251`).
- On a host that booted less than the cooldown ago the first restart is refused,
  since the default 0.0 is compared with a clock that counts from boot
  (`remediation_policy.py:65`).
- After a crash, an incident that was queued or running stays active and is
  never resumed; re-deliveries of its alert are duplicates.

## 6. Not modelled

Datasource clients (stateless requests: their answers and failures are the
observations of `Playbooks`), query builders, correlation, report layout,
redaction and allow-lists (pure string functions: a model would transcribe
their strings), settings (the CONSTANTS of the modules), metrics (written, never
read), authentication and the health endpoints (they read nothing the modules
have). Of `/ask`, the route label of a latency question, which only narrows
the queries, and the text of the answer. Of the Slack client, message texts and
the splitting of a long report into parts, which succeed or fail together in the
model; `send_update` has no caller. The stack around the agent is
configuration; what it contributes is Alertmanager's at-least-once delivery,
which is the environment of `Orchestrator`.

## 7. Plan

Done: everything above, in the order store, orchestrator, lifecycle, proofs of
the orchestrator, deadline pool, playbooks and RCA, limiter, remediation, the
proofs about these four, then manual calls, dashboards, questions and their
proofs.

After that: the conclusion of runs, the episodes (one incident, one Slack
thread, the refinement of the lifecycle) and the answers of manual calls, as
theorems; then manual calls with the caller's own status and the clock's date,
messages of Slack whose answer is lost, and so the split of what holds for any
delivery (`OpenSpec`) from what holds for Alertmanager's (`Spec`).

To prove, next:

1. Between `DeadlinePool` and `Orchestrator`: that a caller in `waiting` past its
   deadline has given up or been answered, as far as it is a safety property.
2. Of `Playbooks`: what each playbook's ranking promises (the leading
   hypothesis of each is backed by the observations that name it).
3. `IncidentLifecycle` on its own: verdicts are final and stages only go
   forward, so that the refinement hands them to the table.

To model, if it is worth its states: `Orchestrator` with `DeadlinePool` inside,
so that `PlaybookOverruns` is earned by the clock.
