----------------------------- MODULE Remediation -----------------------------
(***************************************************************************)
(* Auto-remediation in time: the cooldown of                               *)
(* app/investigation/remediation_policy.py, the restart call of            *)
(* app/remediation/client.py and _attempt_remediation of                   *)
(* app/investigation/orchestrator.py.                                      *)
(*                                                                         *)
(* Investigations that finish at the same time decide at the same time:    *)
(* decide, the HTTP call, record_restart and the notice are four steps of  *)
(* a thread with no lock around them.  There is one container to restart   *)
(* ("backend", the only one _REMEDIABLE names), and it is the very process *)
(* that answers the call, so the answer may be lost although the restart   *)
(* happens.  Whether an investigation qualifies otherwise is decided by    *)
(* module RcaEngine; here any thread may qualify at any time.              *)
(*                                                                         *)
(* time.monotonic() counts from the start of the host, not of the agent.   *)
(***************************************************************************)
EXTENDS Integers, Sequences, FiniteSets

CONSTANTS Threads,        \* threads that end an investigation
          Cooldown,       \* settings.auto_remediation_cooldown_seconds
          Uptimes,        \* possible uptimes of the host when the agent starts
          MaxClock,       \* bound: ticks of the clock
          MaxAttempts,    \* bound: restart attempts
          MaxCrashes      \* bound: restarts of the agent itself

ASSUME RemediationAssumption ==
    /\ IsFiniteSet(Threads)
    /\ Cooldown \in Nat
    /\ Uptimes \subseteq Nat
    /\ MaxClock \in Nat /\ MaxAttempts \in Nat /\ MaxCrashes \in Nat

VARIABLES clock,       \* time.monotonic()
          last,        \* _last_restart.get("backend", 0.0)
          pc,          \* where each thread is
          attempts,    \* the restart calls made, in order
          crashes

vars == <<clock, last, pc, attempts, crashes>>

\* answered: the call returned; effect: the container restarted; life: of the
\* agent's process; notice: what the incident's thread shows.
Attempt == [by : Threads, at : Nat, life : Nat, answered : BOOLEAN, effect : BOOLEAN,
            notice : {"pending", "posted", "missing"}]

Init ==
    /\ clock \in Uptimes
    /\ last = 0
    /\ pc = [t \in Threads |-> "idle"]
    /\ attempts = <<>>
    /\ crashes = 0

Tick ==
    /\ clock < MaxClock
    /\ clock' = clock + 1
    /\ UNCHANGED <<last, pc, attempts, crashes>>

Goto(t, label) == pc' = [pc EXCEPT ![t] = label]

\* Calls made so far, and those about to be made.
Attempted == Len(attempts) + Cardinality({t \in Threads : pc[t] = "restart"})

\* Mutation: the last moment of the cooldown is let pass.
Decide_Early(t) ==
    /\ pc[t] = "idle"
    /\ Attempted < MaxAttempts
    /\ clock - last + 1 >= Cooldown
    /\ Goto(t, "restart")
    /\ UNCHANGED <<clock, last, attempts, crashes>>

\* decide of a qualifying investigation.  A refusal leaves no trace.
Decide(t) ==
    /\ pc[t] = "idle"
    /\ Attempted < MaxAttempts
    /\ clock - last >= Cooldown
    /\ Goto(t, "restart")
    /\ UNCHANGED <<clock, last, attempts, crashes>>

Call(t, answered, effect) ==
    attempts' = Append(attempts, [by |-> t, at |-> clock, life |-> crashes,
                                  answered |-> answered, effect |-> effect,
                                  notice |-> "pending"])

\* restart_container returns.
RestartSucceeds(t) ==
    /\ pc[t] = "restart"
    /\ Call(t, TRUE, TRUE)
    /\ Goto(t, "record")
    /\ UNCHANGED <<clock, last, crashes>>

\* Mutation: a restart that was not answered starts the cooldown as well.
RestartFails_Records(t) ==
    /\ pc[t] = "restart"
    /\ \E effect \in BOOLEAN : Call(t, FALSE, effect)
    /\ Goto(t, "record")
    /\ UNCHANGED <<clock, last, crashes>>

\* RemediationError: refused, unreachable, or the answer did not arrive.
RestartFails(t) ==
    /\ pc[t] = "restart"
    /\ \E effect \in BOOLEAN : Call(t, FALSE, effect)
    /\ Goto(t, "notice")
    /\ UNCHANGED <<clock, last, crashes>>

\* Mutation: the time of the restart is not kept.
RecordRestart_Forgets(t) ==
    /\ pc[t] = "record"
    /\ Goto(t, "notice")
    /\ UNCHANGED <<clock, last, attempts, crashes>>

RecordRestart(t) ==
    /\ pc[t] = "record"
    /\ last' = clock
    /\ Goto(t, "notice")
    /\ UNCHANGED <<clock, attempts, crashes>>

\* The attempt thread t is to report.
Reported(t) == CHOOSE n \in DOMAIN attempts :
    attempts[n].by = t /\ attempts[n].notice = "pending"

\* Mutation: the notice is recorded for the newest attempt of anybody.
Notify_Newest(t) ==
    /\ pc[t] = "notice"
    /\ \E outcome \in {"posted", "missing"} :
          attempts' = [attempts EXCEPT ![Len(attempts)].notice = outcome]
    /\ Goto(t, "idle")
    /\ UNCHANGED <<clock, last, crashes>>

\* Without a thread, or when Slack is unavailable, nobody is told.
Notify(t) ==
    /\ pc[t] = "notice"
    /\ \E outcome \in {"posted", "missing"} :
          attempts' = [attempts EXCEPT ![Reported(t)].notice = outcome]
    /\ Goto(t, "idle")
    /\ UNCHANGED <<clock, last, crashes>>

\* The agent's process restarts: the dictionary and the threads are gone.
Crash ==
    /\ crashes < MaxCrashes
    /\ crashes' = crashes + 1
    /\ last' = 0
    /\ pc' = [t \in Threads |-> "idle"]
    /\ attempts' = [n \in DOMAIN attempts |->
                      IF attempts[n].notice = "pending"
                        THEN [attempts[n] EXCEPT !.notice = "missing"]
                        ELSE attempts[n]]
    /\ UNCHANGED clock

Step(t) == \/ Decide(t) \/ RestartSucceeds(t) \/ RestartFails(t)
           \/ RecordRestart(t) \/ Notify(t)

Next == Tick \/ Crash \/ \E t \in Threads : Step(t)

Spec == Init /\ [][Next]_vars
-----------------------------------------------------------------------------
\* Every attempt is reported, or given up, by the thread that made it.
TypeOK ==
    /\ clock \in Nat
    /\ last \in Nat
    /\ pc \in [Threads -> {"idle", "restart", "record", "notice"}]
    /\ attempts \in Seq(Attempt)
    /\ crashes \in Nat
    /\ \A t \in Threads :
          pc[t] \in {"record", "notice"}
            <=> \E n \in DOMAIN attempts :
                    attempts[n].by = t /\ attempts[n].notice = "pending"

\* After a restart that was answered, a thread leaves at least the cooldown
\* before it tries again, whatever the others do in between and as long as
\* the agent stays up (remediation_policy.py:65-68, 75-76).
ThreadCooldown ==
    \A m, n \in DOMAIN attempts :
        /\ m < n
        /\ attempts[m].by = attempts[n].by
        /\ attempts[m].life = attempts[n].life
        /\ attempts[m].answered
        => attempts[n].at - attempts[m].at >= Cooldown

\* So any stretch shorter than the cooldown has at most one such restart per
\* thread: a still-firing alert cannot restart the container in a loop.
RestartsBounded ==
    \A m \in DOMAIN attempts :
        Cardinality({n \in DOMAIN attempts :
                        /\ attempts[n].answered
                        /\ attempts[n].life = attempts[m].life
                        /\ attempts[n].at >= attempts[m].at
                        /\ attempts[n].at - attempts[m].at < Cooldown})
          <= Cardinality(Threads)

\* A cooldown is always that of a restart this process made and that was
\* answered, and not of a later one (orchestrator.py:234-240).
RecordIsOfRestart ==
    last # 0 =>
        \E n \in DOMAIN attempts : /\ attempts[n].answered
                                   /\ attempts[n].life = crashes
                                   /\ attempts[n].at <= last
-----------------------------------------------------------------------------
(* What a comment of the repository says and the code does not do.         *)

\* The cooldown "stops it from restarting the same container on every
\* re-delivery" (remediation_policy.py:3-5); only a restart of the agent
\* resets it (rca-agent/README.md:264-267).
CooldownRespected ==
    \A m, n \in DOMAIN attempts :
        /\ m < n
        /\ attempts[m].life = attempts[n].life
        /\ attempts[m].effect /\ attempts[n].effect
        => attempts[n].at - attempts[m].at >= Cooldown
=============================================================================
