----------------------------- MODULE RateLimiter -----------------------------
(***************************************************************************)
(* The sliding-window limiter of app/security/ratelimit.py, as             *)
(* POST /investigate and POST /ask of app/main.py share it.                *)
(*                                                                         *)
(* check holds no lock and the endpoints run on the threads of the         *)
(* server's pool, so the requests of one caller interleave between any two *)
(* of its operations on the caller's deque.  Callers have deques of their  *)
(* own, and one request touches one of them: the module follows one        *)
(* caller.  The clock is in ticks; a request reads it once, at the start.  *)
(***************************************************************************)
EXTENDS Integers, Sequences, FiniteSets

CONSTANTS Requests,       \* threads that serve the caller's requests
          MaxRequests,    \* settings.manual_trigger_rate_limit
          Window,         \* settings.manual_trigger_rate_limit_window_seconds
          MaxClock,       \* bound: ticks of the clock
          MaxAdmitted     \* bound: requests admitted altogether

ASSUME LimiterAssumption ==
    /\ IsFiniteSet(Requests)
    /\ MaxRequests \in Nat
    /\ Window \in Nat
    /\ MaxClock \in Nat
    /\ MaxAdmitted \in Nat

VARIABLES clock,       \* time.monotonic()
          hits,        \* self._hits[key]
          pc,          \* where each thread is in check
          now,         \* its local "now"
          outcome,     \* how its last call ended
          retry,       \* retry_after_seconds of its last rejection
          admitted,    \* when each admitted request was admitted, in order
          overlapped   \* two requests have been in check at once

vars == <<clock, hits, pc, now, outcome, retry, admitted, overlapped>>

Outcomes == {"none", "admitted", "rejected", "error"}

Init ==
    /\ clock = 0
    /\ hits = <<>>
    /\ pc = [r \in Requests |-> "idle"]
    /\ now = [r \in Requests |-> 0]
    /\ outcome = [r \in Requests |-> "none"]
    /\ retry = [r \in Requests |-> 0]
    /\ admitted = <<>>
    /\ overlapped = FALSE

Tick ==
    /\ clock < MaxClock
    /\ clock' = clock + 1
    /\ UNCHANGED <<hits, pc, now, outcome, retry, admitted, overlapped>>

Goto(r, label) == pc' = [pc EXCEPT ![r] = label]

Finish(r, how) ==
    /\ Goto(r, "idle")
    /\ outcome' = [outcome EXCEPT ![r] = how]

\* now = time.monotonic(); hits = self._hits[key]
Enter(r) ==
    /\ pc[r] = "idle"
    /\ Len(admitted) < MaxAdmitted
    /\ now' = [now EXCEPT ![r] = clock]
    /\ overlapped' = (overlapped \/ \E s \in Requests : pc[s] # "idle")
    /\ Goto(r, "expire")
    /\ UNCHANGED <<clock, hits, outcome, retry, admitted>>

\* Mutation: the window is compared one tick early.
Expired_Early(r, hit) == now[r] - hit >= Window

Expired(r, hit) == now[r] - hit > Window

\* while hits and now - hits[0] > self.window_seconds: ...
SeesExpired(r) ==
    /\ pc[r] = "expire"
    /\ hits # <<>> /\ Expired(r, Head(hits))
    /\ Goto(r, "popleft")
    /\ UNCHANGED <<clock, hits, now, outcome, retry, admitted, overlapped>>

\* Mutation: "hits and" is forgotten, so an empty deque raises.
SeesNoneExpired_Unguarded(r) ==
    /\ pc[r] = "expire"
    /\ IF hits = <<>>
         THEN Finish(r, "error")
         ELSE ~Expired(r, Head(hits)) /\ Goto(r, "limit") /\ UNCHANGED outcome
    /\ UNCHANGED <<clock, hits, now, retry, admitted, overlapped>>

SeesNoneExpired(r) ==
    /\ pc[r] = "expire"
    /\ ~(hits # <<>> /\ Expired(r, Head(hits)))
    /\ Goto(r, "limit")
    /\ UNCHANGED <<clock, hits, now, outcome, retry, admitted, overlapped>>

\* ... hits.popleft(): an IndexError when another request emptied the deque.
PopLeft(r) ==
    /\ pc[r] = "popleft"
    /\ IF hits = <<>>
         THEN Finish(r, "error") /\ UNCHANGED hits
         ELSE /\ hits' = Tail(hits)
              /\ Goto(r, "expire")
              /\ UNCHANGED outcome
    /\ UNCHANGED <<clock, now, retry, admitted, overlapped>>

\* Mutation: len(hits) > self.max_requests.
BelowLimit_OffByOne(r) ==
    /\ pc[r] = "limit"
    /\ Len(hits) <= MaxRequests
    /\ Goto(r, "append")
    /\ UNCHANGED <<clock, hits, now, outcome, retry, admitted, overlapped>>

BelowLimit(r) ==
    /\ pc[r] = "limit"
    /\ Len(hits) < MaxRequests
    /\ Goto(r, "append")
    /\ UNCHANGED <<clock, hits, now, outcome, retry, admitted, overlapped>>

AtLimit(r) ==
    /\ pc[r] = "limit"
    /\ Len(hits) >= MaxRequests
    /\ Goto(r, "reject")
    /\ UNCHANGED <<clock, hits, now, outcome, retry, admitted, overlapped>>

\* Mutation: the caller is told how long ago its first request was.
Reject_ReportsAge(r) ==
    /\ pc[r] = "reject"
    /\ IF hits = <<>>
         THEN Finish(r, "error") /\ UNCHANGED retry
         ELSE /\ retry' = [retry EXCEPT ![r] = now[r] - Head(hits)]
              /\ Finish(r, "rejected")
    /\ UNCHANGED <<clock, hits, now, admitted, overlapped>>

\* Mutation: max(retry_after, 0.0) is forgotten.
Reject_Unclamped(r) ==
    /\ pc[r] = "reject"
    /\ IF hits = <<>>
         THEN Finish(r, "error") /\ UNCHANGED retry
         ELSE /\ retry' = [retry EXCEPT ![r] = Window - (now[r] - Head(hits))]
              /\ Finish(r, "rejected")
    /\ UNCHANGED <<clock, hits, now, admitted, overlapped>>

\* retry_after from hits[0], never below zero: an IndexError when the deque
\* is empty, as it always is with a limit of 0.
Reject(r) ==
    /\ pc[r] = "reject"
    /\ IF hits = <<>>
         THEN Finish(r, "error") /\ UNCHANGED retry
         ELSE LET left == Window - (now[r] - Head(hits))
              IN  /\ retry' = [retry EXCEPT ![r] = IF left > 0 THEN left ELSE 0]
                  /\ Finish(r, "rejected")
    /\ UNCHANGED <<clock, hits, now, admitted, overlapped>>

\* hits.append(now)
Admit(r) ==
    /\ pc[r] = "append"
    /\ hits' = Append(hits, now[r])
    /\ admitted' = Append(admitted, now[r])
    /\ Finish(r, "admitted")
    /\ UNCHANGED <<clock, now, retry, overlapped>>

Check(r) ==
    \/ Enter(r)
    \/ SeesExpired(r) \/ SeesNoneExpired(r) \/ PopLeft(r)
    \/ BelowLimit(r) \/ AtLimit(r) \/ Reject(r) \/ Admit(r)

Next == Tick \/ \E r \in Requests : Check(r)

Spec == Init /\ [][Next]_vars
-----------------------------------------------------------------------------
Pcs == {"idle", "expire", "popleft", "limit", "reject", "append"}

\* Times are times of the clock, and the deque only holds admissions.
TypeOK ==
    /\ clock \in Nat
    /\ hits \in Seq(Nat)
    /\ pc \in [Requests -> Pcs]
    /\ now \in [Requests -> Nat]
    /\ outcome \in [Requests -> Outcomes]
    /\ retry \in [Requests -> Nat]
    /\ admitted \in Seq(Nat)
    /\ overlapped \in BOOLEAN

\* The admissions, up to the n-th, in the window that ends with it.
InWindow(n) == {m \in 1..n : admitted[n] - admitted[m] <= Window}

\* Requests that passed the length test and have not appended yet.
Passed == {r \in Requests : pc[r] = "append"}

\* However many requests race, the deque outgrows the limit by less than the
\* number of threads, counting those about to append (ratelimit.py:36-39).
BoundedOvershoot ==
    MaxRequests > 0 =>
        Len(hits) + Cardinality(Passed) <= MaxRequests - 1 + Cardinality(Requests)

\* While no two requests overlap, check either admits or rejects: the deque
\* never empties between a test and the use of its first entry, provided the
\* limit is not 0 (ratelimit.py:34-37).
NoErrorAlone ==
    ~overlapped /\ MaxRequests > 0 => \A r \in Requests : outcome[r] # "error"

\* While no two requests overlap, no window has more admissions than the limit
\* (ratelimit.py:29-31).
LimitHoldsAlone ==
    ~overlapped =>
        \A n \in DOMAIN admitted : Cardinality(InWindow(n)) <= MaxRequests

\* While no two requests overlap, a rejected caller that waits longer than it
\* was told finds a place, unless requests made meanwhile have taken it
\* (ratelimit.py:37-38, main.py:67-71).
RetryAfterIsEnough ==
    ~overlapped =>
        \A r \in Requests : pc[r] = "idle" /\ outcome[r] = "rejected" =>
            LET later == now[r] + retry[r] + 1
            IN  /\ retry[r] <= Window
                /\ Cardinality({n \in DOMAIN hits :
                                  hits[n] <= now[r] /\ later - hits[n] <= Window})
                     < MaxRequests
=============================================================================
