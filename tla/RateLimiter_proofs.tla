------------------------- MODULE RateLimiter_proofs -------------------------
(***************************************************************************)
(* How far racing requests can push the limiter beyond its limit, for any  *)
(* number of request threads, any limit and any window.  A thread that     *)
(* passed the length test found fewer than MaxRequests entries, and at     *)
(* most all threads can have passed it at once.                            *)
(***************************************************************************)
EXTENDS RateLimiter, FiniteSetTheorems, TLAPS

\* Only the pc of thread r changes, to one of the labels of check.
LEMMA GotoPassed ==
    ASSUME NEW r \in Requests, pc \in [Requests -> Pcs], NEW label \in Pcs,
           pc' = [pc EXCEPT ![r] = label]
    PROVE  Passed' = IF label = "append" THEN Passed \cup {r} ELSE Passed \ {r}
  BY DEF Passed, Pcs

\* The threads that are about to append are finitely many, and at most all.
LEMMA PassedBound ==
    /\ IsFiniteSet(Passed)
    /\ Cardinality(Passed) \in Nat /\ Cardinality(Requests) \in Nat
    /\ Cardinality(Passed) <= Cardinality(Requests)
  BY LimiterAssumption, FS_Subset, FS_CardinalityType DEF Passed

-----------------------------------------------------------------------------
(* Types.                                                                  *)

\* The empty limiter has the right types.
LEMMA TypeInit == Init => TypeOK
<1> SUFFICES ASSUME Init PROVE TypeOK
  OBVIOUS
<1>1. overlapped \in BOOLEAN
  BY DEF Init
<1>2. hits \in Seq(Nat) /\ admitted \in Seq(Nat)
  BY DEF Init
<1> QED BY <1>1, <1>2 DEF Init, TypeOK, Pcs, Outcomes

\* Every step of check keeps the types.
LEMMA TypeStep == TypeOK /\ [Next]_vars => TypeOK'
<1> SUFFICES ASSUME TypeOK, [Next]_vars PROVE TypeOK'
  OBVIOUS
<1> USE LimiterAssumption DEF TypeOK, Pcs, Outcomes, Goto, Finish
<1>1. CASE UNCHANGED vars
  BY <1>1 DEF vars
<1>2. CASE Tick
  BY <1>2 DEF Tick
<1>3. ASSUME NEW r \in Requests, Enter(r) PROVE TypeOK'
  BY <1>3 DEF Enter
<1>4. ASSUME NEW r \in Requests, SeesExpired(r) PROVE TypeOK'
  BY <1>4 DEF SeesExpired
<1>5. ASSUME NEW r \in Requests, SeesNoneExpired(r) PROVE TypeOK'
  BY <1>5 DEF SeesNoneExpired
<1>6. ASSUME NEW r \in Requests, PopLeft(r) PROVE TypeOK'
  <2>1. CASE hits = <<>>
    BY <1>6, <2>1 DEF PopLeft
  <2>2. CASE hits # <<>>
    <3>1. Tail(hits) \in Seq(Nat)
      BY <2>2
    <3> QED BY <1>6, <2>2, <3>1 DEF PopLeft
  <2> QED BY <2>1, <2>2
<1>7. ASSUME NEW r \in Requests, BelowLimit(r) PROVE TypeOK'
  BY <1>7 DEF BelowLimit
<1>8. ASSUME NEW r \in Requests, AtLimit(r) PROVE TypeOK'
  BY <1>8 DEF AtLimit
<1>9. ASSUME NEW r \in Requests, Reject(r) PROVE TypeOK'
  <2>1. CASE hits = <<>>
    BY <1>9, <2>1 DEF Reject
  <2>2. CASE hits # <<>>
    <3> DEFINE left == Window - (now[r] - Head(hits))
               told == IF left > 0 THEN left ELSE 0
    <3>1. told \in Nat
      <4>1. Head(hits) \in Nat /\ now[r] \in Nat
        BY <2>2
      <4> QED BY <4>1
    <3>2. /\ retry' = [retry EXCEPT ![r] = told]
          /\ pc' = [pc EXCEPT ![r] = "idle"]
          /\ outcome' = [outcome EXCEPT ![r] = "rejected"]
          /\ UNCHANGED <<clock, hits, now, admitted, overlapped>>
      BY <1>9, <2>2 DEF Reject
    <3> HIDE DEF told
    <3> QED BY <3>1, <3>2
  <2> QED BY <2>1, <2>2
<1>10. ASSUME NEW r \in Requests, Admit(r) PROVE TypeOK'
  BY <1>10 DEF Admit
<1> QED
  BY <1>1, <1>2, <1>3, <1>4, <1>5, <1>6, <1>7, <1>8, <1>9, <1>10 DEF Next, Check

\* The times stay times and the deque a sequence of them, whatever races
\* (ratelimit.py:24-39).
THEOREM TypeCorrect == Spec => []TypeOK
  BY TypeInit, TypeStep, PTL DEF Spec

-----------------------------------------------------------------------------
(* The overshoot.                                                          *)

\* A step that neither appends nor passes the test does not raise the sum.
LEMMA NoMoreStep ==
    ASSUME TypeOK, BoundedOvershoot, NEW r \in Requests,
           NEW label \in Pcs \ {"append"}, Goto(r, label),
           hits' = hits \/ (hits # <<>> /\ hits' = Tail(hits))
    PROVE  BoundedOvershoot'
<1>1. Passed' = Passed \ {r}
  BY GotoPassed DEF TypeOK, Goto
<1>2. Cardinality(Passed') \in Nat /\ Cardinality(Passed') <= Cardinality(Passed)
  <2>1. /\ IsFiniteSet(Passed \ {r})
        /\ Cardinality(Passed \ {r}) =
              IF r \in Passed THEN Cardinality(Passed) - 1 ELSE Cardinality(Passed)
    BY PassedBound, FS_RemoveElement
  <2>2. Cardinality(Passed \ {r}) \in Nat
    BY <2>1, FS_CardinalityType
  <2> QED BY <1>1, <2>1, <2>2, PassedBound
<1>3. Len(hits') <= Len(hits) /\ Len(hits) \in Nat /\ Len(hits') \in Nat
  BY DEF TypeOK
<1> QED BY <1>2, <1>3, PassedBound, LimiterAssumption DEF BoundedOvershoot

\* The sum is within its bound before the first request.
LEMMA OvershootInit == Init => BoundedOvershoot
<1> SUFFICES ASSUME Init, MaxRequests > 0
             PROVE  Len(hits) + Cardinality(Passed)
                      <= MaxRequests - 1 + Cardinality(Requests)
  BY DEF BoundedOvershoot
<1>1. Len(hits) = 0
  BY DEF Init
<1> QED BY <1>1, PassedBound, LimiterAssumption

\* And every step keeps it there: only BelowLimit and Admit matter.
LEMMA OvershootStep ==
    TypeOK /\ BoundedOvershoot /\ [Next]_vars => BoundedOvershoot'
<1> SUFFICES ASSUME TypeOK, BoundedOvershoot, [Next]_vars PROVE BoundedOvershoot'
  OBVIOUS
<1>1. CASE UNCHANGED vars \/ Tick
  BY <1>1 DEF vars, Tick, BoundedOvershoot, Passed
<1>2. ASSUME NEW r \in Requests, BelowLimit(r) PROVE BoundedOvershoot'
  <2>1. Passed' = Passed \cup {r}
    BY <1>2, GotoPassed DEF BelowLimit, Goto, TypeOK, Pcs
  <2>2. /\ IsFiniteSet(Requests) /\ Passed' \in SUBSET Requests
    BY <2>1, LimiterAssumption DEF Passed
  <2>3. Cardinality(Passed') \in Nat /\ Cardinality(Passed') <= Cardinality(Requests)
    BY <2>2, FS_Subset, FS_CardinalityType
  <2>4. hits' = hits /\ Len(hits) \in Nat /\ Len(hits) < MaxRequests
    BY <1>2 DEF BelowLimit, TypeOK
  <2> QED BY <2>3, <2>4, PassedBound, LimiterAssumption DEF BoundedOvershoot
<1>3. ASSUME NEW r \in Requests, Admit(r) PROVE BoundedOvershoot'
  <2>1. Passed' = Passed \ {r} /\ r \in Passed
    BY <1>3, GotoPassed DEF Admit, Finish, Goto, TypeOK, Pcs, Passed
  <2>2. Cardinality(Passed') = Cardinality(Passed) - 1
    BY <2>1, PassedBound, FS_RemoveElement
  <2>3. Len(hits') = Len(hits) + 1 /\ Len(hits) \in Nat
    BY <1>3 DEF Admit, TypeOK
  <2> QED BY <2>2, <2>3, PassedBound, LimiterAssumption DEF BoundedOvershoot
<1>4. ASSUME NEW r \in Requests,
             Enter(r) \/ SeesExpired(r) \/ SeesNoneExpired(r) \/ PopLeft(r)
               \/ AtLimit(r) \/ Reject(r)
      PROVE  BoundedOvershoot'
  <2>1. /\ \E label \in Pcs \ {"append"} : Goto(r, label)
        /\ hits' = hits \/ (hits # <<>> /\ hits' = Tail(hits))
    BY <1>4 DEF Enter, SeesExpired, SeesNoneExpired, PopLeft, AtLimit, Reject,
                Finish, Goto, Pcs
  <2> QED BY <2>1, NoMoreStep
<1> QED BY <1>1, <1>2, <1>3, <1>4 DEF Next, Check

\* The caller's deque never holds more than the limit and one entry less than
\* the number of threads that race for it (ratelimit.py:36-39).
THEOREM OvershootBounded == Spec => []BoundedOvershoot
  BY OvershootInit, OvershootStep, TypeCorrect, PTL DEF Spec
-----------------------------------------------------------------------------
(* One request at a time.                                                  *)

\* How many admissions have left the deque.
Dropped == Len(admitted) - Len(hits)

\* The deque is the end of the history of admissions.
IsSuffix ==
    /\ Len(hits) <= Len(admitted)
    /\ \A k \in 1 .. Len(hits) : hits[k] = admitted[Dropped + k]

\* One thread at most is in check, and what it saw is still so.
AtMostOne ==
    /\ \A r, s \in Requests : pc[r] # "idle" /\ pc[s] # "idle" => r = s
    /\ \A r \in Requests :
          /\ pc[r] = "popleft" => hits # <<>> /\ now[r] - hits[1] > Window
          /\ pc[r] \in {"limit", "append", "reject"} /\ hits # <<>> =>
                now[r] - hits[1] <= Window
          /\ pc[r] = "append" => Len(hits) < MaxRequests
          /\ pc[r] = "reject" => Len(hits) >= MaxRequests

\* No admission is from the future, and those that left are out of every
\* window to come.
Past ==
    /\ \A m \in DOMAIN admitted :
          /\ admitted[m] <= clock
          /\ m <= Dropped => clock - admitted[m] > Window
    /\ \A r \in Requests :
          /\ now[r] <= clock
          /\ pc[r] # "idle" => \A m \in DOMAIN admitted :
                /\ admitted[m] <= now[r]
                /\ m <= Dropped => now[r] - admitted[m] > Window

\* The history is in order, and as far apart as the limit demands.
Spaced ==
    \A m, n \in DOMAIN admitted :
        /\ m <= n => admitted[m] <= admitted[n]
        /\ n - m >= MaxRequests => admitted[n] - admitted[m] > Window

\* A rejected caller was told when the first admission it met leaves the window.
ToldOfOldest ==
    \A r \in Requests : pc[r] = "idle" /\ outcome[r] = "rejected" =>
        /\ retry[r] <= Window
        /\ \E p \in DOMAIN admitted : now[r] + retry[r] = admitted[p] + Window

\* Nobody has run into an empty deque either, unless the limit is 0.
NoError == MaxRequests > 0 => \A r \in Requests : outcome[r] # "error"

AloneInv ==
    ~overlapped => IsSuffix /\ AtMostOne /\ Past /\ Spaced /\ ToldOfOldest /\ NoError

\* The limiter starts out so.
LEMMA AloneInit == Init => AloneInv
  BY LimiterAssumption DEF Init, AloneInv, IsSuffix, AtMostOne, Past, Spaced, ToldOfOldest, NoError, Dropped

\* Steps that leave the deque and the history alone keep them as they are.
LEMMA HistoryStays ==
    ASSUME UNCHANGED <<hits, admitted>>
    PROVE  /\ IsSuffix => IsSuffix'
           /\ Spaced => Spaced'
           /\ Dropped' = Dropped
  BY DEF IsSuffix, Spaced, Dropped

\* One step, while no two requests overlap.
LEMMA AloneStep == TypeOK /\ TypeOK' /\ AloneInv /\ [Next]_vars => AloneInv'
<1> SUFFICES ASSUME TypeOK, TypeOK', AloneInv, [Next]_vars, ~overlapped' PROVE AloneInv'
  BY DEF AloneInv
<1>1. ~overlapped
  BY DEF Next, Check, Tick, Enter, SeesExpired, SeesNoneExpired, PopLeft, BelowLimit, AtLimit,
     Reject, Admit, vars
<1>2. IsSuffix /\ AtMostOne /\ Past /\ Spaced /\ ToldOfOldest /\ NoError
  BY <1>1 DEF AloneInv
<1>3. /\ clock \in Nat /\ hits \in Seq(Nat) /\ admitted \in Seq(Nat)
      /\ pc \in [Requests -> Pcs] /\ now \in [Requests -> Nat]
      /\ outcome \in [Requests -> Outcomes] /\ retry \in [Requests -> Nat]
      /\ MaxRequests \in Nat /\ Window \in Nat
      /\ Len(hits) \in Nat /\ Len(admitted) \in Nat
      /\ DOMAIN hits = 1 .. Len(hits) /\ DOMAIN admitted = 1 .. Len(admitted)
      /\ \A m \in 1 .. Len(admitted) : admitted[m] \in Nat
  BY LimiterAssumption DEF TypeOK
<1> DEFINE Safe == IsSuffix' /\ AtMostOne' /\ Past' /\ Spaced' /\ ToldOfOldest' /\ NoError'
<1> SUFFICES Safe
  BY DEF AloneInv
<1>4. CASE UNCHANGED vars
  BY <1>2, <1>4 DEF vars, IsSuffix, AtMostOne, Past, Spaced, ToldOfOldest, NoError, Dropped
<1>5. CASE Tick
  <2>1. UNCHANGED <<hits, pc, now, outcome, retry, admitted>> /\ clock' = clock + 1
    BY <1>5 DEF Tick
  <2>2. AtMostOne' /\ ToldOfOldest' /\ NoError'
    BY <1>2, <2>1 DEF AtMostOne, ToldOfOldest, NoError
  <2>3. Past'
    BY <1>2, <1>3, <2>1, HistoryStays DEF Past
  <2> QED BY <1>2, <2>1, <2>2, <2>3, HistoryStays
<1>6. ASSUME NEW r \in Requests, Enter(r) PROVE Safe
  <2>1. /\ UNCHANGED <<clock, hits, outcome, retry, admitted>>
        /\ pc' = [pc EXCEPT ![r] = "expire"] /\ now' = [now EXCEPT ![r] = clock]
    BY <1>6 DEF Enter, Goto
  <2>2. \A s \in Requests : pc[s] = "idle"
    BY <1>6 DEF Enter
  <2>3. AtMostOne'
    BY <1>3, <2>1, <2>2 DEF AtMostOne
  <2>4. Past'
    BY <1>2, <1>3, <2>1, <2>2, HistoryStays DEF Past
  <2>5. ToldOfOldest' /\ NoError'
    BY <1>2, <1>3, <2>1 DEF ToldOfOldest, NoError
  <2> QED BY <1>2, <2>1, <2>3, <2>4, <2>5, HistoryStays
<1>7. ASSUME NEW r \in Requests, NEW label \in Pcs \ {"idle"}, Goto(r, label), pc[r] # "idle",
             UNCHANGED <<clock, hits, now, outcome, retry, admitted>>,
             label = "popleft" => hits # <<>> /\ now[r] - hits[1] > Window,
             label \in {"limit", "append", "reject"} /\ hits # <<>> => now[r] - hits[1] <= Window,
             label = "append" => Len(hits) < MaxRequests,
             label = "reject" => Len(hits) >= MaxRequests
      PROVE  Safe
  <2>1. pc' = [pc EXCEPT ![r] = label]
    BY <1>7 DEF Goto
  <2>2. AtMostOne'
    BY <1>2, <1>3, <1>7, <2>1 DEF AtMostOne
  <2>3. Past'
    BY <1>2, <1>3, <1>7, <2>1, HistoryStays DEF Past
  <2>4. ToldOfOldest' /\ NoError'
    BY <1>2, <1>3, <1>7, <2>1 DEF ToldOfOldest, NoError
  <2> QED BY <1>2, <1>7, <2>2, <2>3, <2>4, HistoryStays
<1>8. ASSUME NEW r \in Requests, SeesExpired(r) \/ SeesNoneExpired(r) PROVE Safe
  <2>1. hits # <<>> => Head(hits) = hits[1] /\ hits[1] \in Nat
    BY <1>3
  <2>2. CASE SeesExpired(r)
    BY <1>7, <2>1, <2>2 DEF SeesExpired, Expired, Pcs
  <2>3. CASE SeesNoneExpired(r)
    <3>1. hits # <<>> => now[r] - hits[1] <= Window
      BY <1>3, <2>1, <2>3 DEF SeesNoneExpired, Expired
    <3> QED BY <1>7, <2>3, <3>1 DEF SeesNoneExpired, Pcs
  <2> QED BY <1>8, <2>2, <2>3
<1>9. ASSUME NEW r \in Requests, BelowLimit(r) \/ AtLimit(r) PROVE Safe
  <2>1. pc[r] = "limit" /\ UNCHANGED <<clock, hits, now, outcome, retry, admitted>>
    BY <1>9 DEF BelowLimit, AtLimit
  <2>2. hits # <<>> => now[r] - hits[1] <= Window
    BY <1>2, <2>1 DEF AtMostOne
  <2> QED BY <1>7, <1>9, <2>1, <2>2 DEF BelowLimit, AtLimit, Pcs
<1>10. ASSUME NEW r \in Requests, PopLeft(r) PROVE Safe
  <2>1. pc[r] = "popleft" /\ hits # <<>> /\ now[r] - hits[1] > Window
    BY <1>2, <1>10 DEF PopLeft, AtMostOne
  <2>2. /\ hits' = Tail(hits) /\ pc' = [pc EXCEPT ![r] = "expire"]
        /\ UNCHANGED <<clock, now, outcome, retry, admitted>>
    BY <1>10, <2>1 DEF PopLeft, Goto
  <2>3. /\ Len(hits) \in Nat \ {0} /\ Len(hits') = Len(hits) - 1
        /\ \A k \in 1 .. Len(hits') : hits'[k] = hits[k + 1]
    BY <1>3, <2>1, <2>2
  <2>4. Dropped' = Dropped + 1 /\ Dropped \in Nat
    BY <1>2, <1>3, <2>2, <2>3 DEF Dropped, IsSuffix
  <2>5. IsSuffix'
    BY <1>2, <1>3, <2>2, <2>3, <2>4 DEF IsSuffix
  <2>6. hits[1] = admitted[Dropped + 1]
    BY <1>2, <2>3 DEF IsSuffix
  <2>7. \A s \in Requests : s # r => pc'[s] = "idle"
    BY <1>2, <1>3, <2>1, <2>2 DEF AtMostOne
  <2>8. AtMostOne'
    BY <1>3, <2>2, <2>7 DEF AtMostOne
  <2>9. Past'
    <3>1. ASSUME NEW m \in DOMAIN admitted, m <= Dropped + 1
          PROVE  now[r] - admitted[m] > Window
      <4>1. m \in Nat /\ (m <= Dropped \/ m = Dropped + 1)
        BY <1>3, <2>4, <3>1
      <4>2. m <= Dropped => now[r] - admitted[m] > Window
        BY <1>2, <2>1 DEF Past
      <4> QED BY <2>1, <2>6, <4>1, <4>2
    <3>2. \A m \in DOMAIN admitted : admitted[m] \in Nat
      BY <1>3
    <3> QED BY <1>2, <1>3, <2>1, <2>2, <2>4, <2>7, <3>1, <3>2 DEF Past
  <2>10. Spaced' /\ ToldOfOldest' /\ NoError'
    BY <1>2, <1>3, <2>2 DEF Spaced, ToldOfOldest, NoError
  <2> QED BY <1>2, <2>2, <2>5, <2>8, <2>9, <2>10
<1>11. ASSUME NEW r \in Requests, pc[r] # "idle",
              UNCHANGED <<clock, hits, now, admitted>>, pc' = [pc EXCEPT ![r] = "idle"]
       PROVE  IsSuffix' /\ AtMostOne' /\ Past' /\ Spaced'
  BY <1>2, <1>3, <1>11, HistoryStays DEF AtMostOne, Past
<1>12. ASSUME NEW r \in Requests, Reject(r) PROVE Safe
  <2>1. /\ pc[r] = "reject" /\ pc' = [pc EXCEPT ![r] = "idle"]
        /\ UNCHANGED <<clock, hits, now, admitted>>
    BY <1>12 DEF Reject, Finish, Goto
  <2>2. Len(hits) >= MaxRequests
    BY <1>2, <2>1 DEF AtMostOne
  <2>3. CASE hits = <<>>
    <3>1. MaxRequests = 0 /\ outcome' = [outcome EXCEPT ![r] = "error"] /\ UNCHANGED retry
      BY <1>3, <1>12, <2>2, <2>3 DEF Reject, Finish
    <3>2. ToldOfOldest'
      BY <1>2, <1>3, <2>1, <3>1 DEF ToldOfOldest
    <3>3. NoError'
      BY <3>1 DEF NoError
    <3> QED BY <1>11, <2>1, <3>2, <3>3
  <2>4. CASE hits # <<>>
    <3>1. Len(hits) \in Nat \ {0} /\ Head(hits) = hits[1] /\ hits[1] \in Nat
      BY <1>3, <2>4
    <3>2. Dropped + 1 \in DOMAIN admitted /\ hits[1] = admitted[Dropped + 1]
      <4>1. Len(hits) <= Len(admitted) /\ hits[1] = admitted[Dropped + 1]
        BY <1>2, <3>1 DEF IsSuffix
      <4>2. Dropped + 1 \in 1 .. Len(admitted)
        BY <1>3, <3>1, <4>1 DEF Dropped
      <4> QED BY <1>3, <4>1, <4>2
    <3>3. now[r] - hits[1] <= Window /\ hits[1] <= now[r]
      BY <1>2, <2>1, <2>4, <3>2 DEF AtMostOne, Past
    <3> DEFINE left == Window - (now[r] - hits[1])
               told == IF left > 0 THEN left ELSE 0
    <3>4. told \in Nat /\ told <= Window /\ now[r] + told = hits[1] + Window
      BY <1>3, <3>1, <3>3
    <3>5. retry' = [retry EXCEPT ![r] = told] /\ outcome' = [outcome EXCEPT ![r] = "rejected"]
      BY <1>12, <2>4, <3>1 DEF Reject, Finish
    <3> HIDE DEF told
    <3>6. ToldOfOldest'
      BY <1>2, <1>3, <2>1, <3>2, <3>4, <3>5 DEF ToldOfOldest
    <3>7. NoError'
      BY <1>2, <1>3, <3>5 DEF NoError
    <3> QED BY <1>11, <2>1, <3>6, <3>7
  <2> QED BY <2>3, <2>4
<1>13. ASSUME NEW r \in Requests, Admit(r) PROVE Safe
  <2>1. /\ pc[r] = "append" /\ hits' = Append(hits, now[r])
        /\ admitted' = Append(admitted, now[r])
        /\ pc' = [pc EXCEPT ![r] = "idle"] /\ outcome' = [outcome EXCEPT ![r] = "admitted"]
        /\ UNCHANGED <<clock, now, retry>>
    BY <1>13 DEF Admit, Finish, Goto
  <2>2. /\ Len(hits) \in Nat /\ Len(admitted) \in Nat
        /\ Len(hits') = Len(hits) + 1 /\ Len(admitted') = Len(admitted) + 1
        /\ \A k \in 1 .. Len(hits) : hits'[k] = hits[k]
        /\ \A m \in 1 .. Len(admitted) : admitted'[m] = admitted[m] /\ admitted[m] \in Nat
        /\ hits'[Len(hits) + 1] = now[r] /\ admitted'[Len(admitted) + 1] = now[r]
        /\ DOMAIN admitted' = 1 .. Len(admitted) + 1 /\ DOMAIN admitted = 1 .. Len(admitted)
    BY <1>3, <2>1
  <2>3. Dropped' = Dropped /\ Dropped \in Nat /\ Dropped + Len(hits) = Len(admitted)
    BY <1>2, <2>2 DEF Dropped, IsSuffix
  <2>4. IsSuffix'
    <3> SUFFICES ASSUME NEW k \in 1 .. Len(hits) + 1
                 PROVE  hits'[k] = admitted'[Dropped + k]
      BY <2>2, <2>3 DEF IsSuffix
    <3>1. CASE k \in 1 .. Len(hits)
      <4>1. Dropped + k \in 1 .. Len(admitted)
        BY <2>2, <2>3, <3>1
      <4>2. hits[k] = admitted[Dropped + k]
        BY <1>2, <3>1 DEF IsSuffix
      <4> QED BY <2>2, <3>1, <4>1, <4>2
    <3>2. CASE k = Len(hits) + 1
      <4>1. Dropped + k = Len(admitted) + 1
        BY <2>2, <2>3, <3>2
      <4> QED BY <2>2, <3>2, <4>1
    <3> QED BY <2>2, <3>1, <3>2
  <2>5. Len(hits) < MaxRequests
    BY <1>2, <2>1 DEF AtMostOne
  <2>6. \A s \in Requests : pc'[s] = "idle"
    BY <1>2, <1>3, <2>1 DEF AtMostOne
  <2>7. AtMostOne'
    BY <2>6 DEF AtMostOne
  <2>8. Past'
    BY <1>2, <1>3, <2>1, <2>2, <2>3, <2>6 DEF Past
  <2>9. Spaced'
    <3>1. \A m \in 1 .. Len(admitted) :
             /\ admitted[m] <= now[r]
             /\ m <= Dropped => now[r] - admitted[m] > Window
      BY <1>2, <2>1, <2>2 DEF Past
    <3>2. \A m \in 1 .. Len(admitted) : Len(admitted) + 1 - m >= MaxRequests => m <= Dropped
      BY <1>3, <2>2, <2>3, <2>5
    <3> DEFINE last == Len(admitted) + 1
    <3> SUFFICES ASSUME NEW m \in 1 .. last, NEW n \in 1 .. last
                 PROVE  /\ m <= n => admitted'[m] <= admitted'[n]
                        /\ n - m >= MaxRequests => admitted'[n] - admitted'[m] > Window
      BY <2>2 DEF Spaced
    <3>3. CASE m \in 1 .. Len(admitted) /\ n \in 1 .. Len(admitted)
      BY <1>2, <2>2, <3>3 DEF Spaced
    <3>4. CASE m \in 1 .. Len(admitted) /\ n = last
      <4>1. admitted'[n] = now[r] /\ admitted'[m] = admitted[m]
        BY <2>2, <3>4
      <4> QED BY <3>1, <3>2, <3>4, <4>1
    <3>5. CASE m = last
      <4>1. now[r] <= now[r]
        BY <1>3
      <4>2. (m <= n => n = last) /\ ~(n - m >= MaxRequests)
        BY <1>3, <2>2, <2>5, <3>5
      <4> QED BY <2>2, <3>5, <4>1, <4>2
    <3> QED BY <2>2, <3>3, <3>4, <3>5
  <2>10. ToldOfOldest'
    <3> SUFFICES ASSUME NEW s \in Requests, pc'[s] = "idle", outcome'[s] = "rejected"
                 PROVE  /\ retry'[s] <= Window
                        /\ \E p \in DOMAIN admitted' : now'[s] + retry'[s] = admitted'[p] + Window
      BY DEF ToldOfOldest
    <3>1. s # r /\ pc[s] = "idle" /\ outcome[s] = "rejected"
      BY <1>3, <2>1
    <3>2. PICK p \in DOMAIN admitted : now[s] + retry[s] = admitted[p] + Window
      BY <1>2, <3>1 DEF ToldOfOldest
    <3>3. retry[s] <= Window
      BY <1>2, <3>1 DEF ToldOfOldest
    <3>4. p \in DOMAIN admitted' /\ admitted'[p] = admitted[p]
      BY <2>2
    <3> QED BY <2>1, <3>2, <3>3, <3>4
  <2>11. NoError'
    BY <1>2, <1>3, <2>1 DEF NoError
  <2> QED BY <2>4, <2>7, <2>8, <2>9, <2>10, <2>11
<1> QED BY <1>4, <1>5, <1>6, <1>8, <1>9, <1>10, <1>12, <1>13 DEF Next, Check

\* While no two requests overlap, what check saw of the deque stays true until
\* it uses it, the deque is the end of a history that keeps to the limit, and
\* a rejection names the moment its oldest admission leaves the window.
THEOREM Alone == Spec => []AloneInv
  BY AloneInit, AloneStep, TypeCorrect, PTL DEF Spec

\* So the endpoint never answers with an error of its own (ratelimit.py:34-37).
THEOREM NoErrorWhenAlone == Spec => []NoErrorAlone
<1>1. AloneInv => NoErrorAlone
  BY DEF AloneInv, NoError, NoErrorAlone
<1> QED BY <1>1, Alone, PTL

\* An interval of whole numbers has as many as it should.
LEMMA IntervalBound ==
    ASSUME NEW a \in Int, NEW b \in Int, NEW c \in Nat, b - a + 1 <= c,
           NEW S \in SUBSET (a .. b)
    PROVE  Cardinality(S) <= c
<1>0. IsFiniteSet(a .. b) /\ Cardinality(a .. b) = IF a > b THEN 0 ELSE b - a + 1
  BY FS_Interval
<1>1. IsFiniteSet(a .. b) /\ Cardinality(a .. b) <= c /\ Cardinality(a .. b) \in Nat
  BY <1>0, FS_CardinalityType
<1>2. Cardinality(S) <= Cardinality(a .. b) /\ Cardinality(S) \in Nat
  BY <1>1, FS_Subset, FS_CardinalityType
<1> QED BY <1>1, <1>2

\* And the limit is kept in every window (ratelimit.py:29-31).
THEOREM LimitHolds == Spec => []LimitHoldsAlone
<1>1. TypeOK /\ AloneInv => LimitHoldsAlone
  <2> SUFFICES ASSUME TypeOK, Spaced, NEW n \in DOMAIN admitted
               PROVE  Cardinality(InWindow(n)) <= MaxRequests
    BY DEF AloneInv, LimitHoldsAlone
  <2>1. n \in Nat /\ MaxRequests \in Nat /\ DOMAIN admitted = 1 .. Len(admitted)
    BY LimiterAssumption DEF TypeOK
  <2>2. InWindow(n) \subseteq n - MaxRequests + 1 .. n
    <3> SUFFICES ASSUME NEW m \in InWindow(n) PROVE n - m < MaxRequests
      BY <2>1 DEF InWindow
    <3>1. m \in DOMAIN admitted /\ m \in Nat /\ admitted[n] - admitted[m] <= Window
      BY <2>1 DEF InWindow
    <3>2. admitted[n] \in Nat /\ admitted[m] \in Nat /\ Window \in Nat
      BY <3>1, LimiterAssumption DEF TypeOK
    <3> QED BY <2>1, <3>1, <3>2 DEF Spaced
  <2>3. n - MaxRequests + 1 \in Int /\ n \in Int /\ n - (n - MaxRequests + 1) + 1 <= MaxRequests
    BY <2>1
  <2> QED BY <2>1, <2>2, <2>3, IntervalBound
<1> QED BY <1>1, Alone, TypeCorrect, PTL

\* An admission that still counts a moment after the wait that was told from
\* another one is younger than it, by no more than the window.
LEMMA StillCounts ==
    ASSUME NEW hit \in Nat, NEW named \in Nat, NEW seen \in Nat, NEW told \in Nat,
           NEW window \in Nat,
           seen + told = named + window, hit <= seen, (seen + told + 1) - hit <= window
    PROVE  hit > named /\ hit - named <= window
  OBVIOUS

\* Where in the deque an entry is that follows the p-th admission closely.
LEMMA PlaceInDeque ==
    ASSUME NEW dropped \in Nat, NEW n \in Nat, NEW p \in Nat, NEW limit \in Nat,
           ~(dropped + n <= p), ~(dropped + n - p >= limit)
    PROVE  n \in p + 1 - dropped .. p + limit - 1 - dropped
  OBVIOUS

\* And who waits as told, and a moment longer, is not rejected because of what
\* was there before (ratelimit.py:37-38).
THEOREM RetryAfterSuffices == Spec => []RetryAfterIsEnough
<1>1. TypeOK /\ AloneInv => RetryAfterIsEnough
  <2> SUFFICES ASSUME TypeOK, AloneInv, ~overlapped, NEW r \in Requests,
                      pc[r] = "idle", outcome[r] = "rejected"
               PROVE  LET later == now[r] + retry[r] + 1
                      IN  /\ retry[r] <= Window
                          /\ Cardinality({n \in DOMAIN hits :
                                hits[n] <= now[r] /\ later - hits[n] <= Window}) < MaxRequests
    BY DEF RetryAfterIsEnough
  <2> DEFINE later == now[r] + retry[r] + 1
             InTheWay == {n \in DOMAIN hits : hits[n] <= now[r] /\ later - hits[n] <= Window}
  <2>1. IsSuffix /\ Spaced /\ ToldOfOldest
    BY DEF AloneInv
  <2>2. now[r] \in Nat /\ retry[r] \in Nat /\ MaxRequests \in Nat /\ Window \in Nat
    BY LimiterAssumption DEF TypeOK
  <2>3. /\ Len(hits) \in Nat /\ DOMAIN hits = 1 .. Len(hits)
        /\ Len(admitted) \in Nat /\ DOMAIN admitted = 1 .. Len(admitted)
        /\ \A m \in 1 .. Len(admitted) : admitted[m] \in Nat
    BY DEF TypeOK
  <2>4. PICK p \in 1 .. Len(admitted) : now[r] + retry[r] = admitted[p] + Window
    BY <2>1, <2>3 DEF ToldOfOldest
  <2>5. p \in Nat /\ admitted[p] \in Nat
    BY <2>3, <2>4
  <2>6. MaxRequests > 0
    <3>1. p - p >= MaxRequests => admitted[p] - admitted[p] > Window
      BY <2>1, <2>3, <2>4 DEF Spaced
    <3> QED BY <2>2, <2>5, <3>1
  <2>7. PICK d \in Nat : d = Dropped /\ d + Len(hits) = Len(admitted)
    <3>1. Len(hits) <= Len(admitted)
      BY <2>1 DEF IsSuffix
    <3>2. Dropped \in Nat /\ Dropped + Len(hits) = Len(admitted)
      BY <2>3, <3>1 DEF Dropped
    <3> QED BY <3>2
  <2>8. \A n \in InTheWay : n \in p + 1 - d .. p + MaxRequests - 1 - d
    <3> SUFFICES ASSUME NEW n \in InTheWay
                 PROVE  n \in p + 1 - d .. p + MaxRequests - 1 - d
      OBVIOUS
    <3>1. n \in 1 .. Len(hits) /\ n \in Nat
      BY <2>3
    <3>2. hits[n] <= now[r] /\ (now[r] + retry[r] + 1) - hits[n] <= Window
      OBVIOUS
    <3> HIDE DEF InTheWay
    <3>3. d + n \in 1 .. Len(admitted)
      BY <2>3, <2>7, <3>1
    <3>4. hits[n] = admitted[d + n] /\ admitted[d + n] \in Nat
      BY <2>1, <2>3, <2>7, <3>1, <3>3 DEF IsSuffix
    <3>5. /\ admitted[d + n] > admitted[p]
          /\ admitted[d + n] - admitted[p] <= Window
      BY <2>2, <2>4, <2>5, <3>2, <3>4, StillCounts
    <3>6. /\ d + n <= p => admitted[d + n] <= admitted[p]
          /\ d + n - p >= MaxRequests => admitted[d + n] - admitted[p] > Window
      <4>1. PICK m \in 1 .. Len(admitted) : m = d + n
        BY <3>3
      <4>2. m \in DOMAIN admitted /\ p \in DOMAIN admitted
        BY <2>3, <2>4
      <4>3. /\ m <= p => admitted[m] <= admitted[p]
            /\ m - p >= MaxRequests => admitted[m] - admitted[p] > Window
        BY <2>1, <4>2 DEF Spaced
      <4> QED BY <2>2, <2>5, <3>1, <4>1, <4>3
    <3>7. ~(d + n <= p)
      BY <2>5, <3>4, <3>5, <3>6
    <3>8. ~(d + n - p >= MaxRequests)
      <4>1. admitted[d + n] - admitted[p] \in Int
        BY <2>5, <3>4
      <4> QED BY <2>2, <3>5, <3>6, <4>1
    <3> QED BY <2>2, <2>5, <3>1, <3>7, <3>8, PlaceInDeque
  <2> HIDE DEF InTheWay
  <2>9. /\ p + 1 - d \in Int /\ p + MaxRequests - 1 - d \in Int /\ MaxRequests - 1 \in Nat
        /\ (p + MaxRequests - 1 - d) - (p + 1 - d) + 1 <= MaxRequests - 1
    BY <2>2, <2>5, <2>6, <2>7
  <2>10. InTheWay \in SUBSET (p + 1 - d .. p + MaxRequests - 1 - d)
    BY <2>8
  <2>11. Cardinality(InTheWay) <= MaxRequests - 1
    BY <2>9, <2>10, IntervalBound
  <2>12. Cardinality(InTheWay) \in Nat
    <3>1. IsFiniteSet(p + 1 - d .. p + MaxRequests - 1 - d)
      BY <2>9, FS_Interval
    <3> QED BY <2>10, <3>1, FS_Subset, FS_CardinalityType
  <2>13. Cardinality(InTheWay) < MaxRequests
    BY <2>2, <2>11, <2>12
  <2>14. retry[r] <= Window
    BY <2>1 DEF ToldOfOldest
  <2> QED BY <2>13, <2>14 DEF InTheWay
<1> QED BY <1>1, Alone, TypeCorrect, PTL
=============================================================================
