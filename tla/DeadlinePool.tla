---------------------------- MODULE DeadlinePool ----------------------------
(***************************************************************************)
(* The race of a playbook against its deadline: _deadline_pool and the     *)
(* try block of run_investigation in app/investigation/orchestrator.py,    *)
(* the tool-call budget of app/investigation/context.py and safe of        *)
(* app/playbooks/base.py.  Module Orchestrator has the same three ways out *)
(* of the try block as PlaybookReturns, PlaybookOverruns, PlaybookFails;   *)
(* here is what makes them happen.                                         *)
(*                                                                         *)
(* A caller is a thread of _dispatch_pool or a request of /ask.  There can *)
(* be more callers than deadline threads.  The deadline counts from the    *)
(* submission, so waiting for a deadline thread uses it up; giving up does *)
(* not stop or cancel the playbook, which keeps (or later takes) its       *)
(* thread.  A datasource call has no bound of its own: the timeout of the  *)
(* HTTP clients is one of each read, so a call may take any time, or for   *)
(* ever.                                                                   *)
(***************************************************************************)
EXTENDS Naturals, Sequences, FiniteSets

CONSTANTS Runs,        \* investigations, each with the caller that waits for it
          PoolSize,    \* max_workers of _deadline_pool
          Timeout,     \* timeout_seconds
          MaxCalls,    \* settings.max_tool_calls
          MaxClock     \* bound: ticks of the clock

ASSUME PoolAssumption ==
    /\ IsFiniteSet(Runs)
    /\ PoolSize \in Nat \ {0}
    /\ Timeout \in Nat \ {0}
    /\ MaxCalls \in Nat
    /\ MaxClock \in Nat

VARIABLES clock,
          caller,      \* what each caller does
          deadline,    \* when its future.result gives up
          queue,       \* submitted playbooks no thread has taken yet
          job,         \* where each playbook is
          calls        \* ctx._tool_calls

vars == <<clock, caller, deadline, queue, job, calls>>

Busy == {r \in Runs : job[r] \in {"running", "calling"}}
Ended == {"returned", "exceeded"}

Init ==
    /\ clock = 0
    /\ caller = [r \in Runs |-> "idle"]
    /\ deadline = [r \in Runs |-> 0]
    /\ queue = <<>>
    /\ job = [r \in Runs |-> "none"]
    /\ calls = [r \in Runs |-> 0]

Tick ==
    /\ clock < MaxClock
    /\ clock' = clock + 1
    /\ UNCHANGED <<caller, deadline, queue, job, calls>>

\* Bound: the clock can reach every deadline.
Submit(r) ==
    /\ caller[r] = "idle"
    /\ clock + Timeout <= MaxClock
    /\ caller' = [caller EXCEPT ![r] = "waiting"]
    /\ deadline' = [deadline EXCEPT ![r] = clock + Timeout]
    /\ queue' = Append(queue, r)
    /\ job' = [job EXCEPT ![r] = "queued"]
    /\ UNCHANGED <<clock, calls>>

\* A free thread of the pool takes the next playbook, wanted or not.
Start(r) ==
    /\ queue # <<>> /\ r = Head(queue)
    /\ Cardinality(Busy) < PoolSize
    /\ queue' = Tail(queue)
    /\ job' = [job EXCEPT ![r] = "running"]
    /\ UNCHANGED <<clock, caller, deadline, calls>>

\* Mutation: the count starts again when the budget is used up.
ToolCall_Restarts(r) ==
    /\ job[r] = "running"
    /\ calls' = [calls EXCEPT ![r] = IF @ = MaxCalls THEN 1 ELSE @ + 1]
    /\ job' = [job EXCEPT ![r] = "calling"]
    /\ UNCHANGED <<clock, caller, deadline, queue>>

\* Mutation: self._tool_calls - 1 > settings.max_tool_calls.
ToolCall_OffByOne(r) ==
    /\ job[r] = "running"
    /\ calls' = [calls EXCEPT ![r] = @ + 1]
    /\ job' = [job EXCEPT ![r] = IF calls[r] > MaxCalls THEN "exceeded" ELSE "calling"]
    /\ UNCHANGED <<clock, caller, deadline, queue>>

\* ctx.tool_call: a call beyond the budget ends the playbook instead.
ToolCall(r) ==
    /\ job[r] = "running"
    /\ calls' = [calls EXCEPT ![r] = @ + 1]
    /\ job' = [job EXCEPT ![r] = IF calls[r] + 1 > MaxCalls THEN "exceeded" ELSE "calling"]
    /\ UNCHANGED <<clock, caller, deadline, queue>>

\* safe: the call returned or failed, the playbook goes on either way.
CallEnds(r) ==
    /\ job[r] = "calling"
    /\ job' = [job EXCEPT ![r] = "running"]
    /\ UNCHANGED <<clock, caller, deadline, queue, calls>>

\* The playbook has asked all it wants, or raised.
PlaybookEnds(r) ==
    /\ job[r] = "running"
    /\ job' = [job EXCEPT ![r] = "returned"]
    /\ UNCHANGED <<clock, caller, deadline, queue, calls>>

\* future.result returns or raises what the playbook raised.
Answered(r) ==
    /\ caller[r] = "waiting"
    /\ job[r] \in Ended
    /\ caller' = [caller EXCEPT ![r] = "answered"]
    /\ UNCHANGED <<clock, deadline, queue, job, calls>>

\* Mutation: the caller of a playbook that makes a call waits for the call.
GivesUp_BetweenCalls(r) ==
    /\ caller[r] = "waiting"
    /\ clock >= deadline[r] /\ job[r] \notin Ended \cup {"calling"}
    /\ caller' = [caller EXCEPT ![r] = "gaveUp"]
    /\ UNCHANGED <<clock, deadline, queue, job, calls>>

\* FutureTimeoutError.  The future is neither cancelled nor looked at again.
GivesUp(r) ==
    /\ caller[r] = "waiting"
    /\ clock >= deadline[r] /\ job[r] \notin Ended
    /\ caller' = [caller EXCEPT ![r] = "gaveUp"]
    /\ UNCHANGED <<clock, deadline, queue, job, calls>>

CallerStep(r) == Submit(r) \/ Answered(r) \/ GivesUp(r)
PlaybookStep(r) == ToolCall(r) \/ PlaybookEnds(r)

Next == Tick \/ \E r \in Runs : CallerStep(r) \/ Start(r) \/ PlaybookStep(r) \/ CallEnds(r)

Spec == Init /\ [][Next]_vars

\* Time passes, callers wake up when their condition is met, a free thread
\* takes what waits, code runs; only a datasource may keep a call for ever.
Fairness ==
    /\ WF_vars(Tick)
    /\ \A r \in Runs :
          /\ WF_vars(Answered(r) \/ GivesUp(r))
          /\ WF_vars(Start(r))
          /\ WF_vars(PlaybookStep(r))

FairSpec == Spec /\ Fairness
-----------------------------------------------------------------------------
\* The queue holds each playbook no thread has taken, once; a playbook, also
\* one that was given up, has made at most MaxCalls datasource calls and at
\* most one attempt more, which ended it (context.py:66-75).
PoolTypeOK ==
    /\ clock \in Nat
    /\ caller \in [Runs -> {"idle", "waiting", "answered", "gaveUp"}]
    /\ deadline \in [Runs -> Nat]
    /\ queue \in Seq(Runs)
    /\ job \in [Runs -> {"none", "queued", "running", "calling"} \cup Ended]
    /\ calls \in [Runs -> 0 .. MaxCalls + 1]
    /\ \A r \in Runs :
          /\ job[r] = "queued" <=> \E n \in DOMAIN queue : queue[n] = r
          /\ calls[r] = MaxCalls + 1 <=> job[r] = "exceeded"
    /\ \A m, n \in DOMAIN queue : queue[m] = queue[n] => m = n

\* Every caller gets an answer or a timeout, even when datasources hang until
\* no deadline thread is left (orchestrator.py:140-147): an investigation
\* never takes a thread of _dispatch_pool, or an /ask request, for ever.
EveryCallerReturns ==
    \A r \in Runs : caller[r] = "waiting" ~> caller[r] \in {"answered", "gaveUp"}

\* If datasources answer, however late, an overrun wedges nothing: every
\* playbook submitted is run to its end, so the deadline threads that
\* abandoned playbooks occupy come free again (orchestrator.py:32, 140-147).
PoolRecovers ==
    (\A r \in Runs : []<>(job[r] # "calling"))
        => \A r \in Runs : job[r] = "queued" ~> job[r] \in Ended
=============================================================================
