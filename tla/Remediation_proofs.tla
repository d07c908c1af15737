------------------------- MODULE Remediation_proofs -------------------------
(***************************************************************************)
(* What is left of the cooldown when investigations race, for any number   *)
(* of threads, attempts and restarts of the agent, any cooldown and any    *)
(* uptime of the host: each thread keeps it, so the restarts within one    *)
(* cooldown are at most as many as the threads.                            *)
(***************************************************************************)
EXTENDS Remediation, FiniteSetTheorems, TLAPS

\* A thread has at most one attempt to report, made by this process; one it
\* is about to record was answered.
PendingFits ==
    /\ \A m, n \in DOMAIN attempts :
          /\ attempts[m].notice = "pending" /\ attempts[n].notice = "pending"
          /\ attempts[m].by = attempts[n].by
          => m = n
    /\ \A n \in DOMAIN attempts : attempts[n].notice = "pending" =>
          /\ attempts[n].life = crashes
          /\ pc[attempts[n].by] = "record" => attempts[n].answered

\* Nothing is recorded from the future.
PastOnly ==
    /\ last <= clock
    /\ \A n \in DOMAIN attempts : attempts[n].at <= clock /\ attempts[n].life <= crashes

\* An answered restart of this process is on record, or about to be.
Recorded ==
    \A n \in DOMAIN attempts : attempts[n].answered /\ attempts[n].life = crashes =>
        \/ attempts[n].at <= last
        \/ attempts[n].notice = "pending" /\ pc[attempts[n].by] = "record"

\* A thread that decided to restart has kept the cooldown of its own restarts.
Waited ==
    \A n \in DOMAIN attempts :
        /\ attempts[n].answered /\ attempts[n].life = crashes
        /\ pc[attempts[n].by] = "restart"
        => clock - attempts[n].at >= Cooldown

IndInv == /\ TypeOK /\ PendingFits /\ PastOnly /\ Recorded /\ Waited
          /\ ThreadCooldown /\ RecordIsOfRestart

-----------------------------------------------------------------------------
(* The two ways the history of attempts changes.                           *)

\* A call is added at the end.
LEMMA CallAppends ==
    ASSUME TypeOK, NEW t \in Threads, NEW answered \in BOOLEAN, NEW effect \in BOOLEAN,
           Call(t, answered, effect)
    PROVE  LET k == Len(attempts) + 1
           IN  /\ attempts' \in Seq(Attempt)
               /\ DOMAIN attempts' = DOMAIN attempts \cup {k}
               /\ k \notin DOMAIN attempts
               /\ \A n \in DOMAIN attempts : n < k /\ attempts'[n] = attempts[n]
               /\ attempts'[k] = [by |-> t, at |-> clock, life |-> crashes,
                                  answered |-> answered, effect |-> effect,
                                  notice |-> "pending"]
<1> DEFINE a == [by |-> t, at |-> clock, life |-> crashes, answered |-> answered,
                 effect |-> effect, notice |-> "pending"]
<1>1. a \in Attempt
  BY DEF TypeOK, Attempt
<1>2. attempts' = Append(attempts, a) /\ attempts \in Seq(Attempt)
  BY DEF Call, TypeOK
<1> HIDE DEF a
<1>3. /\ attempts' \in Seq(Attempt)
      /\ DOMAIN attempts' = DOMAIN attempts \cup {Len(attempts) + 1}
      /\ Len(attempts) + 1 \notin DOMAIN attempts
      /\ \A n \in DOMAIN attempts : n < Len(attempts) + 1 /\ attempts'[n] = attempts[n]
      /\ attempts'[Len(attempts) + 1] = a
  BY <1>1, <1>2
<1> QED BY <1>3 DEF a

\* Only notices change, and only from "pending".
OnlyNotices ==
    /\ attempts' \in Seq(Attempt)
    /\ DOMAIN attempts' = DOMAIN attempts
    /\ \A n \in DOMAIN attempts :
          /\ attempts'[n].by = attempts[n].by
          /\ attempts'[n].at = attempts[n].at
          /\ attempts'[n].life = attempts[n].life
          /\ attempts'[n].answered = attempts[n].answered
          /\ attempts'[n].notice = "pending" => attempts[n].notice = "pending"

\* A report settles the one pending attempt of its thread and no other.
LEMMA NotifySettles ==
    ASSUME TypeOK, PendingFits, NEW t \in Threads, Notify(t)
    PROVE  /\ OnlyNotices
           /\ \A n \in DOMAIN attempts :
                 attempts'[n].notice = "pending"
                   <=> attempts[n].notice = "pending" /\ attempts[n].by # t
<1>1. \E n \in DOMAIN attempts : attempts[n].by = t /\ attempts[n].notice = "pending"
  BY DEF Notify, TypeOK
<1>2. /\ Reported(t) \in DOMAIN attempts
      /\ attempts[Reported(t)].by = t /\ attempts[Reported(t)].notice = "pending"
  BY <1>1 DEF Reported
<1> DEFINE k == Reported(t)
<1>3. PICK outcome \in {"posted", "missing"} :
        attempts' = [attempts EXCEPT ![k].notice = outcome]
  BY DEF Notify
<1> HIDE DEF k
<1>4. k \in DOMAIN attempts /\ attempts[k].by = t /\ attempts[k].notice = "pending"
  BY <1>2 DEF k
<1>5. attempts \in Seq(Attempt)
  BY DEF TypeOK
<1>6. [attempts[k] EXCEPT !.notice = outcome] \in Attempt
  <2>1. attempts[k] \in Attempt
    BY <1>4, <1>5
  <2> QED BY <2>1 DEF Attempt
<1>7. /\ attempts' \in Seq(Attempt) /\ DOMAIN attempts' = DOMAIN attempts
      /\ \A n \in DOMAIN attempts \ {k} : attempts'[n] = attempts[n]
      /\ attempts'[k] = [attempts[k] EXCEPT !.notice = outcome]
  BY <1>3, <1>4, <1>5, <1>6
<1>8. /\ attempts'[k].by = attempts[k].by /\ attempts'[k].at = attempts[k].at
      /\ attempts'[k].life = attempts[k].life
      /\ attempts'[k].answered = attempts[k].answered
      /\ attempts'[k].notice # "pending"
  BY <1>4, <1>5, <1>7 DEF Attempt
<1> QED BY <1>4, <1>7, <1>8 DEF OnlyNotices, PendingFits

\* A crash leaves no attempt to report.
LEMMA CrashSettles ==
    ASSUME TypeOK, Crash
    PROVE  /\ OnlyNotices
           /\ \A n \in DOMAIN attempts' : attempts'[n].notice # "pending"
<1>1. attempts \in Seq(Attempt)
  BY DEF TypeOK
<1> DEFINE settled(n) == IF attempts[n].notice = "pending"
                           THEN [attempts[n] EXCEPT !.notice = "missing"]
                           ELSE attempts[n]
<1>2. attempts' = [n \in DOMAIN attempts |-> settled(n)]
  BY DEF Crash
<1>3. ASSUME NEW n \in DOMAIN attempts
      PROVE  /\ settled(n) \in Attempt
             /\ settled(n).by = attempts[n].by /\ settled(n).at = attempts[n].at
             /\ settled(n).life = attempts[n].life
             /\ settled(n).answered = attempts[n].answered
             /\ settled(n).notice # "pending"
  <2>1. attempts[n] \in Attempt
    BY <1>1
  <2> QED BY <2>1 DEF Attempt
<1> HIDE DEF settled
<1>4. attempts' \in Seq(Attempt)
  BY <1>1, <1>2, <1>3
<1> QED BY <1>2, <1>3, <1>4 DEF OnlyNotices

-----------------------------------------------------------------------------
(* Each part of the invariant.                                             *)

\* The agent starts with an empty history.
LEMMA IndInvInit == Init => IndInv
<1> SUFFICES ASSUME Init PROVE IndInv
  OBVIOUS
<1> USE RemediationAssumption DEF Init
<1>1. TypeOK
  BY DEF TypeOK
<1>2. PendingFits /\ PastOnly /\ Recorded /\ Waited /\ ThreadCooldown /\ RecordIsOfRestart
  BY DEF PendingFits, PastOnly, Recorded, Waited, ThreadCooldown, RecordIsOfRestart
<1> QED BY <1>1, <1>2 DEF IndInv

\* A call: it keeps the cooldown because its thread has waited.
LEMMA CallStep ==
    ASSUME IndInv, NEW t \in Threads, NEW answered \in BOOLEAN, NEW effect \in BOOLEAN,
           pc[t] = "restart", Call(t, answered, effect),
           NEW label \in {"record", "notice"}, label = "record" => answered,
           answered => label = "record", Goto(t, label),
           UNCHANGED <<clock, last, crashes>>
    PROVE  IndInv'
<1> USE DEF IndInv
<1> DEFINE k == Len(attempts) + 1
           a == [by |-> t, at |-> clock, life |-> crashes, answered |-> answered,
                 effect |-> effect, notice |-> "pending"]
<1>1. /\ attempts' \in Seq(Attempt)
      /\ DOMAIN attempts' = DOMAIN attempts \cup {k}
      /\ k \notin DOMAIN attempts
      /\ \A n \in DOMAIN attempts : n < k /\ attempts'[n] = attempts[n]
      /\ attempts'[k] = a
  BY CallAppends
<1>2. /\ a.by = t /\ a.at = clock /\ a.life = crashes /\ a.answered = answered
      /\ a.notice = "pending"
  OBVIOUS
<1>3. pc' = [pc EXCEPT ![t] = label] /\ pc \in [Threads -> {"idle", "restart", "record", "notice"}]
  BY DEF Goto, TypeOK
<1>4. \A n \in DOMAIN attempts : attempts[n] \in Attempt
  BY DEF TypeOK
<1>5. \A n \in DOMAIN attempts : attempts[n].by = t => attempts[n].notice # "pending"
  BY <1>3 DEF TypeOK
<1>6. \A m, n \in DOMAIN attempts : m < n => n # k /\ m # k
  BY <1>1
<1>7. clock \in Nat /\ last \in Nat /\ Cooldown \in Nat /\ crashes \in Nat
  BY RemediationAssumption DEF TypeOK
<1> HIDE DEF k, a
<1>8. TypeOK'
  BY <1>1, <1>2, <1>3, <1>4, <1>5, <1>7 DEF TypeOK
<1>9. PendingFits'
  BY <1>1, <1>2, <1>3, <1>4, <1>5 DEF PendingFits, Attempt
<1>10. PastOnly'
  BY <1>1, <1>2, <1>7 DEF PastOnly
<1>11. Recorded'
  BY <1>1, <1>2, <1>3, <1>4, <1>5 DEF Recorded, Attempt
<1>12. Waited'
  BY <1>1, <1>2, <1>3, <1>4 DEF Waited, Attempt
<1>13. ThreadCooldown'
  <2> SUFFICES ASSUME NEW m \in DOMAIN attempts', NEW n \in DOMAIN attempts', m < n,
                      attempts'[m].by = attempts'[n].by,
                      attempts'[m].life = attempts'[n].life, attempts'[m].answered
               PROVE  attempts'[n].at - attempts'[m].at >= Cooldown
    BY DEF ThreadCooldown
  <2>1. m \in DOMAIN attempts
    <3>1. k \in Nat /\ \A i \in DOMAIN attempts : i \in Nat
      BY DEF k, TypeOK
    <3> QED BY <1>1, <3>1
  <2>2. CASE n = k
    BY <1>1, <1>2, <2>1, <2>2 DEF Waited
  <2>3. CASE n # k
    BY <1>1, <2>1, <2>3 DEF ThreadCooldown
  <2> QED BY <2>2, <2>3
<1>14. RecordIsOfRestart'
  BY <1>1 DEF RecordIsOfRestart
<1> QED BY <1>8, <1>9, <1>10, <1>11, <1>12, <1>13, <1>14

\* A report of an attempt that is recorded, if it had to be.
LEMMA NotifyStep ==
    ASSUME IndInv, NEW t \in Threads, Notify(t)
    PROVE  IndInv'
<1> USE DEF IndInv
<1>1. OnlyNotices /\ \A n \in DOMAIN attempts :
          attempts'[n].notice = "pending"
            <=> attempts[n].notice = "pending" /\ attempts[n].by # t
  BY NotifySettles
<1>2. /\ pc[t] = "notice" /\ pc' = [pc EXCEPT ![t] = "idle"]
      /\ pc \in [Threads -> {"idle", "restart", "record", "notice"}]
      /\ UNCHANGED <<clock, last, crashes>>
  BY DEF Notify, Goto, TypeOK
<1>3. \A n \in DOMAIN attempts : attempts[n] \in Attempt
  BY DEF TypeOK
<1>4. TypeOK'
  BY <1>1, <1>2 DEF TypeOK, OnlyNotices
<1>5. PendingFits' /\ PastOnly'
  BY <1>1, <1>2, <1>3 DEF PendingFits, PastOnly, OnlyNotices, Attempt
<1>6. Recorded' /\ Waited'
  BY <1>1, <1>2, <1>3 DEF Recorded, Waited, OnlyNotices, Attempt
<1>7. ThreadCooldown' /\ RecordIsOfRestart'
  BY <1>1, <1>2 DEF ThreadCooldown, RecordIsOfRestart, OnlyNotices
<1> QED BY <1>4, <1>5, <1>6, <1>7

\* A crash: the restarts so far are those of an earlier process.
LEMMA CrashStep ==
    ASSUME IndInv, Crash
    PROVE  IndInv'
<1> USE DEF IndInv
<1>1. OnlyNotices /\ \A n \in DOMAIN attempts' : attempts'[n].notice # "pending"
  BY CrashSettles
<1>2. /\ pc' = [s \in Threads |-> "idle"] /\ crashes' = crashes + 1
      /\ last' = 0 /\ clock' = clock
  BY DEF Crash
<1>3. crashes \in Nat /\ clock \in Nat /\ \A n \in DOMAIN attempts : attempts[n] \in Attempt
  BY DEF TypeOK
<1>4. \A n \in DOMAIN attempts' : attempts'[n].life # crashes'
  BY <1>1, <1>2, <1>3 DEF OnlyNotices, PastOnly, Attempt
<1>5. TypeOK'
  BY <1>1, <1>2 DEF TypeOK, OnlyNotices
<1>6. PendingFits'
  BY <1>1 DEF PendingFits
<1>7. PastOnly'
  BY <1>1, <1>2, <1>3 DEF PastOnly, OnlyNotices, Attempt
<1>8. Recorded' /\ Waited' /\ RecordIsOfRestart'
  BY <1>2, <1>4 DEF Recorded, Waited, RecordIsOfRestart
<1>9. ThreadCooldown'
  BY <1>1 DEF ThreadCooldown, OnlyNotices
<1> QED BY <1>5, <1>6, <1>7, <1>8, <1>9

\* The steps that leave the history alone.
LEMMA OtherStep ==
    ASSUME IndInv,
           \/ Tick \/ UNCHANGED vars
           \/ \E t \in Threads : Decide(t) \/ RecordRestart(t)
    PROVE  IndInv'
<1> USE DEF IndInv
<1>1. attempts' = attempts /\ crashes' = crashes
  BY DEF Tick, Decide, RecordRestart, vars
<1>2. /\ \A n \in DOMAIN attempts : attempts[n] \in Attempt
      /\ clock \in Nat /\ last \in Nat /\ Cooldown \in Nat
      /\ pc \in [Threads -> {"idle", "restart", "record", "notice"}]
  BY RemediationAssumption DEF TypeOK
<1>3. ThreadCooldown'
  BY <1>1 DEF ThreadCooldown
<1>4. CASE Tick \/ UNCHANGED vars
  <2>1. /\ clock' \in Nat /\ clock' >= clock
        /\ pc' = pc /\ last' = last
    BY <1>2, <1>4 DEF Tick, vars
  <2>2. TypeOK' /\ PendingFits' /\ Recorded' /\ RecordIsOfRestart'
    BY <1>1, <2>1 DEF TypeOK, PendingFits, Recorded, RecordIsOfRestart
  <2>3. PastOnly' /\ Waited'
    BY <1>1, <1>2, <2>1 DEF PastOnly, Waited, Attempt
  <2> QED BY <1>3, <2>2, <2>3
<1>5. ASSUME NEW t \in Threads, Decide(t) PROVE IndInv'
  <2>1. /\ pc[t] = "idle" /\ pc' = [pc EXCEPT ![t] = "restart"]
        /\ clock - last >= Cooldown /\ clock' = clock /\ last' = last
    BY <1>5 DEF Decide, Goto
  <2>2. TypeOK'
    BY <1>1, <1>2, <2>1 DEF TypeOK
  <2>3. PendingFits' /\ PastOnly' /\ Recorded' /\ RecordIsOfRestart'
    BY <1>1, <1>2, <2>1 DEF PendingFits, PastOnly, Recorded, RecordIsOfRestart, Attempt
  <2>4. Waited'
    BY <1>1, <1>2, <2>1 DEF Waited, Recorded, Attempt
  <2> QED BY <1>3, <2>2, <2>3, <2>4
<1>6. ASSUME NEW t \in Threads, RecordRestart(t) PROVE IndInv'
  <2>1. /\ pc[t] = "record" /\ pc' = [pc EXCEPT ![t] = "notice"]
        /\ clock' = clock /\ last' = clock
    BY <1>6 DEF RecordRestart, Goto
  <2>2. PICK n \in DOMAIN attempts : attempts[n].by = t /\ attempts[n].notice = "pending"
    BY <2>1 DEF TypeOK
  <2>3. TypeOK'
    BY <1>1, <1>2, <2>1 DEF TypeOK
  <2>4. PendingFits' /\ PastOnly' /\ Recorded' /\ Waited'
    BY <1>1, <1>2, <2>1 DEF PendingFits, PastOnly, Recorded, Waited, Attempt
  <2>5. RecordIsOfRestart'
    BY <1>1, <2>1, <2>2 DEF RecordIsOfRestart, PendingFits, PastOnly
  <2> QED BY <1>3, <2>3, <2>4, <2>5
<1> QED BY <1>4, <1>5, <1>6

\* Every step preserves the invariant.
LEMMA IndInvStep == IndInv /\ [Next]_vars => IndInv'
<1> SUFFICES ASSUME IndInv, [Next]_vars PROVE IndInv'
  OBVIOUS
<1>1. CASE Crash
  BY <1>1, CrashStep
<1>2. CASE Tick \/ UNCHANGED vars
  BY <1>2, OtherStep
<1>3. ASSUME NEW t \in Threads, RestartSucceeds(t) PROVE IndInv'
  BY <1>3, CallStep DEF RestartSucceeds
<1>4. ASSUME NEW t \in Threads, RestartFails(t) PROVE IndInv'
  BY <1>4, CallStep DEF RestartFails
<1>5. ASSUME NEW t \in Threads, Notify(t) PROVE IndInv'
  BY <1>5, NotifyStep
<1>6. ASSUME NEW t \in Threads, Decide(t) \/ RecordRestart(t) PROVE IndInv'
  BY <1>6, OtherStep
<1> QED BY <1>1, <1>2, <1>3, <1>4, <1>5, <1>6 DEF Next, Step

-----------------------------------------------------------------------------
(* The theorems.                                                           *)

LEMMA Inductive == Spec => []IndInv
  BY IndInvInit, IndInvStep, PTL DEF Spec

\* Every attempt is reported, or given up, by the thread that made it
\* (orchestrator.py:226-251).
THEOREM TypeCorrect == Spec => []TypeOK
<1>1. IndInv => TypeOK
  BY DEF IndInv
<1> QED BY <1>1, Inductive, PTL

\* Each thread leaves the cooldown between an answered restart of its own and
\* its next attempt (remediation_policy.py:65-68, 75-76).
THEOREM CooldownPerThread == Spec => []ThreadCooldown
<1>1. IndInv => ThreadCooldown
  BY DEF IndInv
<1> QED BY <1>1, Inductive, PTL

\* A cooldown is that of an answered restart of this process
\* (orchestrator.py:234-240).
THEOREM CooldownIsOfRestart == Spec => []RecordIsOfRestart
<1>1. IndInv => RecordIsOfRestart
  BY DEF IndInv
<1> QED BY <1>1, Inductive, PTL

\* No stretch shorter than the cooldown has more answered restarts than there
\* are threads: two of one thread would be too close.
THEOREM RestartsAreBounded == Spec => []RestartsBounded
<1>1. TypeOK /\ ThreadCooldown => RestartsBounded
  <2> SUFFICES ASSUME TypeOK, ThreadCooldown, NEW m \in DOMAIN attempts
               PROVE  LET near == {n \in DOMAIN attempts :
                                     /\ attempts[n].answered
                                     /\ attempts[n].life = attempts[m].life
                                     /\ attempts[n].at >= attempts[m].at
                                     /\ attempts[n].at - attempts[m].at < Cooldown}
                      IN  Cardinality(near) <= Cardinality(Threads)
    BY DEF RestartsBounded
  <2> DEFINE near == {n \in DOMAIN attempts :
                        /\ attempts[n].answered
                        /\ attempts[n].life = attempts[m].life
                        /\ attempts[n].at >= attempts[m].at
                        /\ attempts[n].at - attempts[m].at < Cooldown}
             f == [n \in near |-> attempts[n].by]
  <2>1. \A n \in DOMAIN attempts : /\ n \in Nat /\ attempts[n].by \in Threads
                                   /\ attempts[n].at \in Nat
    <3>1. \A n \in DOMAIN attempts : n \in Nat /\ attempts[n] \in Attempt
      BY DEF TypeOK
    <3> QED BY <3>1 DEF Attempt
  <2>2. f \in [near -> Threads]
    BY <2>1
  <2>3. ASSUME NEW i \in near, NEW j \in near, f[i] = f[j] PROVE i = j
    <3>1. CASE i < j
      BY <2>1, <2>3, <3>1, RemediationAssumption DEF ThreadCooldown
    <3>2. CASE j < i
      BY <2>1, <2>3, <3>2, RemediationAssumption DEF ThreadCooldown
    <3> QED BY <2>1, <3>1, <3>2
  <2>4. f \in Injection(near, Threads)
    BY <2>2, <2>3 DEF Injection, IsInjective
  <2> HIDE DEF near, f
  <2>5. Cardinality(near) <= Cardinality(Threads)
    BY <2>4, RemediationAssumption, FS_Injection
  <2> QED BY <2>5 DEF near
<1> QED BY <1>1, TypeCorrect, CooldownPerThread, PTL
=============================================================================
