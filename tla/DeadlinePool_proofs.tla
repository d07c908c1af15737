------------------------ MODULE DeadlinePool_proofs ------------------------
(***************************************************************************)
(* The queue of the deadline pool and the budget of datasource calls, for  *)
(* any number of investigations, any pool, timeout and budget.             *)
(***************************************************************************)
EXTENDS DeadlinePool, SequenceTheorems, TLAPS

\* A playbook exists exactly when its caller has submitted it.
SubmittedOnce == \A r \in Runs : caller[r] = "idle" <=> job[r] = "none"

IndInv == PoolTypeOK /\ SubmittedOnce

\* A playbook of the queue that is not there yet goes to its end.
LEMMA AppendQueue ==
    ASSUME NEW q \in Seq(Runs), NEW r \in Runs, \A n \in DOMAIN q : q[n] # r,
           \A m, n \in DOMAIN q : q[m] = q[n] => m = n
    PROVE  /\ Append(q, r) \in Seq(Runs)
           /\ \A s \in Runs : (\E n \in DOMAIN Append(q, r) : Append(q, r)[n] = s)
                                <=> s = r \/ \E n \in DOMAIN q : q[n] = s
           /\ \A m, n \in DOMAIN Append(q, r) :
                 Append(q, r)[m] = Append(q, r)[n] => m = n
<1>1. /\ Append(q, r) \in Seq(Runs)
      /\ DOMAIN Append(q, r) = DOMAIN q \cup {Len(q) + 1}
      /\ Len(q) + 1 \notin DOMAIN q
      /\ \A n \in DOMAIN q : Append(q, r)[n] = q[n]
      /\ Append(q, r)[Len(q) + 1] = r
  OBVIOUS
<1> QED BY <1>1

\* Taking the first playbook leaves the others, each still there once.
LEMMA TailQueue ==
    ASSUME NEW q \in Seq(Runs), q # <<>>,
           \A m, n \in DOMAIN q : q[m] = q[n] => m = n
    PROVE  /\ Tail(q) \in Seq(Runs)
           /\ \A s \in Runs : (\E n \in DOMAIN Tail(q) : Tail(q)[n] = s)
                                <=> s # Head(q) /\ \E n \in DOMAIN q : q[n] = s
           /\ \A m, n \in DOMAIN Tail(q) : Tail(q)[m] = Tail(q)[n] => m = n
<1>1. /\ Tail(q) \in Seq(Runs) /\ DOMAIN q = 1 .. Len(q) /\ Len(q) \in Nat \ {0}
      /\ DOMAIN Tail(q) = 1 .. Len(q) - 1
      /\ \A n \in 1 .. Len(q) - 1 : Tail(q)[n] = q[n + 1] /\ n + 1 \in DOMAIN q
      /\ Head(q) = q[1] /\ 1 \in DOMAIN q
  OBVIOUS
<1>2. ASSUME NEW s \in Runs, NEW n \in DOMAIN q, q[n] = s, s # Head(q)
      PROVE  \E m \in DOMAIN Tail(q) : Tail(q)[m] = s
  <2>1. n - 1 \in 1 .. Len(q) - 1 /\ n = (n - 1) + 1
    BY <1>1, <1>2
  <2> QED BY <1>1, <1>2, <2>1
<1>3. ASSUME NEW n \in DOMAIN Tail(q)
      PROVE  Tail(q)[n] # Head(q) /\ \E m \in DOMAIN q : q[m] = Tail(q)[n]
  BY <1>1
<1>4. ASSUME NEW m \in DOMAIN Tail(q), NEW n \in DOMAIN Tail(q), Tail(q)[m] = Tail(q)[n]
      PROVE  m = n
  <2>1. m + 1 = n + 1
    BY <1>1, <1>4
  <2> QED BY <1>1, <2>1
<1> QED BY <1>1, <1>2, <1>3, <1>4

\* Nothing is submitted and nothing is counted at the start.
LEMMA IndInvInit == Init => IndInv
  BY PoolAssumption DEF Init, IndInv, PoolTypeOK, SubmittedOnce, Ended

\* Every step keeps the queue in order and the count within the budget.
LEMMA IndInvStep == IndInv /\ [Next]_vars => IndInv'
<1> SUFFICES ASSUME IndInv, [Next]_vars PROVE IndInv'
  OBVIOUS
<1> USE PoolAssumption DEF IndInv, PoolTypeOK, SubmittedOnce, Ended
<1>1. CASE Tick \/ UNCHANGED vars
  BY <1>1 DEF Tick, vars
<1>2. ASSUME NEW r \in Runs, Submit(r) PROVE IndInv'
  <2>1. /\ queue \in Seq(Runs) /\ queue' = Append(queue, r)
        /\ \A m, n \in DOMAIN queue : queue[m] = queue[n] => m = n
        /\ \A n \in DOMAIN queue : queue[n] # r
    BY <1>2 DEF Submit
  <2>2. /\ queue' \in Seq(Runs)
        /\ \A s \in Runs : (\E n \in DOMAIN queue' : queue'[n] = s)
                             <=> s = r \/ \E n \in DOMAIN queue : queue[n] = s
        /\ \A m, n \in DOMAIN queue' : queue'[m] = queue'[n] => m = n
    <3> DEFINE q == Append(queue, r)
    <3>1. /\ q \in Seq(Runs)
          /\ \A s \in Runs : (\E n \in DOMAIN q : q[n] = s)
                               <=> s = r \/ \E n \in DOMAIN queue : queue[n] = s
          /\ \A m, n \in DOMAIN q : q[m] = q[n] => m = n
      <4> HIDE DEF IndInv, PoolTypeOK, SubmittedOnce
      <4> QED BY <2>1, AppendQueue
    <3> HIDE DEF q
    <3>2. queue' = q
      BY <2>1 DEF q
    <3> QED BY <3>1, <3>2, Zenon
  <2>3. /\ caller' = [caller EXCEPT ![r] = "waiting"]
        /\ job' = [job EXCEPT ![r] = "queued"]
        /\ calls' = calls /\ calls[r] # MaxCalls + 1
        /\ clock' = clock /\ deadline' \in [Runs -> Nat]
    BY <1>2 DEF Submit
  <2>4. \A s \in Runs : job'[s] = "queued" <=> \E n \in DOMAIN queue' : queue'[n] = s
    BY <2>2, <2>3
  <2> QED BY <2>2, <2>3, <2>4
<1>3. ASSUME NEW r \in Runs, Start(r) PROVE IndInv'
  <2>1. /\ queue \in Seq(Runs) /\ queue # <<>> /\ r = Head(queue) /\ queue' = Tail(queue)
        /\ \A m, n \in DOMAIN queue : queue[m] = queue[n] => m = n
    BY <1>3 DEF Start
  <2>2. /\ queue' \in Seq(Runs)
        /\ \A s \in Runs : (\E n \in DOMAIN queue' : queue'[n] = s)
                             <=> s # r /\ \E n \in DOMAIN queue : queue[n] = s
        /\ \A m, n \in DOMAIN queue' : queue'[m] = queue'[n] => m = n
    <3> DEFINE q == Tail(queue)
    <3>1. /\ q \in Seq(Runs)
          /\ \A s \in Runs : (\E n \in DOMAIN q : q[n] = s)
                               <=> s # r /\ \E n \in DOMAIN queue : queue[n] = s
          /\ \A m, n \in DOMAIN q : q[m] = q[n] => m = n
      <4> HIDE DEF IndInv, PoolTypeOK, SubmittedOnce
      <4> QED BY <2>1, TailQueue
    <3> HIDE DEF q
    <3>2. queue' = q
      BY <2>1 DEF q
    <3> QED BY <3>1, <3>2, Zenon
  <2>3. job[r] = "queued"
    BY <2>1
  <2>4. /\ job' = [job EXCEPT ![r] = "running"]
        /\ UNCHANGED <<clock, caller, deadline, calls>>
    BY <1>3 DEF Start
  <2>5. \A s \in Runs : job'[s] = "queued" <=> \E n \in DOMAIN queue' : queue'[n] = s
    BY <2>2, <2>4
  <2> QED BY <2>2, <2>3, <2>4, <2>5
<1>4. ASSUME NEW r \in Runs, ToolCall(r) PROVE IndInv'
  <2>1. calls[r] # MaxCalls + 1 /\ calls[r] + 1 \in 0 .. MaxCalls + 1
    BY <1>4 DEF ToolCall
  <2> QED BY <1>4, <2>1 DEF ToolCall
<1>5. ASSUME NEW r \in Runs, CallEnds(r) PROVE IndInv'
  BY <1>5 DEF CallEnds
<1>6. ASSUME NEW r \in Runs, PlaybookEnds(r) PROVE IndInv'
  BY <1>6 DEF PlaybookEnds
<1>7. ASSUME NEW r \in Runs, Answered(r) PROVE IndInv'
  BY <1>7 DEF Answered
<1>8. ASSUME NEW r \in Runs, GivesUp(r) PROVE IndInv'
  BY <1>8 DEF GivesUp
<1> QED BY <1>1, <1>2, <1>3, <1>4, <1>5, <1>6, <1>7, <1>8
        DEF Next, CallerStep, PlaybookStep

\* A playbook waits in the queue at most once and never makes more calls than
\* its budget, the abandoned ones included (context.py:66-75,
\* orchestrator.py:140-147).
THEOREM BudgetHolds == Spec => []PoolTypeOK
<1>1. IndInv => PoolTypeOK
  BY DEF IndInv
<1>2. Spec => []IndInv
  BY IndInvInit, IndInvStep, PTL DEF Spec
<1> QED BY <1>1, <1>2, PTL
=============================================================================
