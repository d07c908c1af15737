------------------------ MODULE DashboardCache_proofs ------------------------
(***************************************************************************)
(* What the cached list of dashboards may show, for any number of threads, *)
(* dashboards and alerts and any TTL.  A list is as good as the time it is *)
(* stored under: everything in it was read later, and what it lacks failed *)
(* or changed later.  The age test bounds that time for whoever is served. *)
(***************************************************************************)
EXTENDS DashboardCache, TLAPS

\* What was collected since time s: each entry was read then, and is what
\* Grafana has (ex, co) unless it was edited (si) after it was read.
Sound(entries, s, now, ex, co, si) ==
    \A e \in entries :
        /\ s <= e.read /\ e.read <= now
        /\ e.read <= si[e.uid] \/ (e.uid \in ex /\ e.matches = co[e.uid])

\* What was collected since time s, but for the rest: a dashboard it lacks
\* was edited since then, or a request failed (fa).
Complete(entries, rest, s, ex, si, fa) ==
    \A d \in ex \ rest :
        s <= si[d] \/ s <= fa \/ \E e \in entries : e.uid = d

SoundNow(entries, s) == Sound(entries, s, clock, exists, content, since)
CompleteNow(entries, rest, s) == Complete(entries, rest, s, exists, since, failed)

\* A list that a call made at time now may answer from.
Usable(entries, now) ==
    \E s \in 0 .. clock : now - s < TTL /\ SoundNow(entries, s) /\ CompleteNow(entries, {}, s)

\* The stored list, the lists under collection and the lists in use.
CacheInv ==
    /\ SoundNow(cache.entries, cache.at)
    /\ cache.at = 0 \/ CompleteNow(cache.entries, {}, cache.at)

ListInv(t) ==
    /\ pc[t] \in {"idle", "lookup", "search"} => list[t] = {}
    /\ pc[t] # "idle" => TTL <= call[t].now
    /\ pc[t] = "fetch" => /\ SoundNow(list[t], call[t].now)
                          /\ CompleteNow(list[t], todo[t], call[t].now)
    /\ pc[t] = "match" => Usable(list[t], call[t].now)

IInv ==
    /\ CacheTypeOK /\ TTL <= clock
    /\ CacheInv
    /\ \A t \in Threads : ListInv(t)
    /\ LinkIsFresh /\ QuietMeansDirect

-----------------------------------------------------------------------------
LEMMA NoLinkType == NoLink \in Answer /\ ~NoLink.found
<1>1. NoLink \in Answer
  BY DEF NoLink, Answer
<1>2. ~NoLink.found
  BY DEF NoLink
<1> QED BY <1>1, <1>2

LEMMA LinkType ==
    ASSUME DiscoveryAssumption, NEW e \in Entry
    PROVE  /\ Link(e) \in Answer
           /\ Link(e).uid = e.uid /\ Link(e).read = e.read
<1>1. e.uid \in Nat /\ e.read \in Nat
  BY DiscoveryAssumption DEF Entry
<1>2. Link(e) \in Answer
  BY <1>1 DEF Link, Answer
<1>3. Link(e).uid = e.uid /\ Link(e).read = e.read
  BY DEF Link
<1> QED BY <1>2, <1>3

LEMMA TypeInit == Init => CacheTypeOK
  BY DiscoveryAssumption DEF Init, CacheTypeOK, Entry, Answer, NoAnswer

\* Every step keeps the types.
LEMMA TypeStep == CacheTypeOK /\ [Next]_vars => CacheTypeOK'
<1> SUFFICES ASSUME CacheTypeOK, [Next]_vars PROVE CacheTypeOK'
  OBVIOUS
<1> USE DiscoveryAssumption DEF CacheTypeOK, Goto
<1>1. CASE Tick
  BY <1>1 DEF Tick, grafana
<1>2. ASSUME NEW d \in Dashboards, Edit(d) PROVE CacheTypeOK'
  <2>1. exists' \subseteq Dashboards /\ content' \in [Dashboards -> SUBSET Alerts]
    BY <1>2 DEF Edit
  <2> QED BY <1>2, <2>1 DEF Edit
<1>3. ASSUME NEW t \in Threads, NEW a \in Alerts, Begin(t, a) PROVE CacheTypeOK'
  BY <1>3 DEF Begin, grafana, Answer, NoAnswer
<1>4. ASSUME NEW t \in Threads, Discover(t) PROVE CacheTypeOK'
  <2>1. CASE Hit(t)
    BY <2>1 DEF Hit, grafana
  <2>2. CASE Miss(t)
    BY <2>2 DEF Miss, grafana
  <2>3. CASE Search(t)
    BY <2>3 DEF Search, grafana
  <2>4. CASE Fetch(t)
    <3> DEFINE e == [uid |-> NextUp(t), matches |-> content[NextUp(t)], read |-> clock]
    <3>1. e \in Entry
      BY <2>4 DEF Fetch, Entry
    <3>2. list' = [list EXCEPT ![t] = @ \cup {e}]
      BY <2>4 DEF Fetch
    <3> HIDE DEF e
    <3>3. list' \in [Threads -> SUBSET Entry]
      BY <3>1, <3>2
    <3> QED BY <2>4, <3>3 DEF Fetch, FetchNext, grafana
  <2>5. CASE FetchDeleted(t)
    BY <2>5 DEF FetchDeleted, FetchNext, grafana
  <2>6. CASE FetchUnavailable(t)
    BY <2>6 DEF FetchUnavailable, FetchNext, grafana
  <2>7. CASE Store(t)
    BY <2>7 DEF Store, grafana
  <2>8. CASE GiveUp(t)
    BY <2>8, NoLinkType DEF GiveUp, Return, grafana
  <2>9. CASE Match(t)
    <3>1. PICK result \in Answer : Return(t, result)
      <4>1. ASSUME NEW e \in list[t] PROVE Link(e) \in Answer
        BY LinkType
      <4> QED BY <2>9, <4>1, NoLinkType DEF Match, First
    <3> QED BY <2>9, <3>1 DEF Match, Return, grafana
  <2> QED BY <1>4, <2>1, <2>2, <2>3, <2>4, <2>5, <2>6, <2>7, <2>8, <2>9 DEF Discover
<1>5. CASE UNCHANGED vars
  BY <1>5 DEF vars, grafana
<1> QED BY <1>1, <1>2, <1>3, <1>4, <1>5 DEF Next

\* Every variable keeps its type and no list is stored under a future time,
\* for any threads, dashboards, alerts and TTL (discovery.py:45-63).
THEOREM TypeCorrect == Spec => []CacheTypeOK
<1> QED BY TypeInit, TypeStep, PTL DEF Spec
-----------------------------------------------------------------------------
(* No step undoes what was collected: the clock only grows, and an edit or *)
(* a failure is dated at the time of the step.                             *)
LEMMA CollectedKept ==
    ASSUME CacheTypeOK, CacheTypeOK', [Next]_vars,
           NEW entries \in SUBSET Entry, NEW rest, NEW s \in 0 .. clock
    PROVE  /\ SoundNow(entries, s) => Sound(entries, s, clock', exists', content', since')
           /\ CompleteNow(entries, rest, s) => Complete(entries, rest, s, exists', since', failed')
<1> USE DiscoveryAssumption DEF SoundNow, CompleteNow, Sound, Complete
<1>e. \A e \in entries : e.uid \in Dashboards /\ e.read \in Nat
  BY DEF Entry
<1>t. /\ clock \in Nat /\ exists \subseteq Dashboards /\ s \in Nat /\ s <= clock
      /\ \A d \in Dashboards : since[d] \in Nat /\ since[d] <= clock
      /\ failed \in Nat
  BY DEF CacheTypeOK
<1>1. CASE clock' = clock + 1 /\ UNCHANGED <<exists, content, since, failed>>
  BY <1>1, <1>e, <1>t
<1>2. ASSUME NEW d \in Dashboards, Edit(d)
      PROVE  /\ SoundNow(entries, s) => Sound(entries, s, clock', exists', content', since')
             /\ CompleteNow(entries, rest, s) => Complete(entries, rest, s, exists', since', failed')
  <2>1. /\ clock' = clock /\ failed' = failed
        /\ since'[d] = clock
        /\ \A x \in Dashboards \ {d} : /\ since'[x] = since[x]
                                       /\ content'[x] = content[x]
                                       /\ x \in exists' <=> x \in exists
        /\ exists' \subseteq Dashboards
    BY <1>2 DEF Edit, CacheTypeOK
  <2>2. ASSUME SoundNow(entries, s), NEW e \in entries
        PROVE  /\ s <= e.read /\ e.read <= clock'
               /\ e.read <= since'[e.uid] \/ (e.uid \in exists' /\ e.matches = content'[e.uid])
    BY <2>1, <2>2, <1>e
  <2>3. ASSUME CompleteNow(entries, rest, s), NEW x \in exists' \ rest
        PROVE  s <= since'[x] \/ s <= failed' \/ \E e \in entries : e.uid = x
    BY <2>1, <2>3, <1>t
  <2> QED BY <2>2, <2>3
<1>3. CASE UNCHANGED <<clock, exists, content, since>> /\ failed' \in {failed, clock}
  BY <1>3, <1>t
<1>4. ASSUME NEW t \in Threads, Discover(t)
      PROVE  UNCHANGED <<clock, exists, content, since>> /\ failed' \in {failed, clock}
  BY <1>4 DEF Discover, Hit, Miss, Search, Fetch, FetchDeleted, FetchUnavailable, Store,
              GiveUp, Match, grafana
<1>5. CASE UNCHANGED vars
  BY <1>3, <1>5 DEF vars, grafana
<1>6. ASSUME NEW t \in Threads, NEW a \in Alerts, Begin(t, a)
      PROVE  UNCHANGED <<clock, exists, content, since>> /\ failed' \in {failed, clock}
  BY <1>6 DEF Begin, grafana
<1>7. CASE Tick
  BY <1>1, <1>7 DEF Tick, grafana
<1> QED BY <1>2, <1>3, <1>4, <1>5, <1>6, <1>7 DEF Next
LEMMA InitHolds == Init => IInv
<1> SUFFICES ASSUME Init PROVE IInv
  OBVIOUS
<1> USE DiscoveryAssumption
<1>1. CacheTypeOK
  BY TypeInit
<1>2. TTL <= clock /\ CacheInv
  BY DEF Init, CacheInv, SoundNow, Sound
<1>3. \A t \in Threads : ListInv(t)
  BY DEF Init, ListInv
<1>4. \A t \in Threads : answer[t].given = FALSE /\ answer[t].found = FALSE
  BY DEF Init, NoAnswer
<1>5. LinkIsFresh /\ QuietMeansDirect
  BY <1>4 DEF LinkIsFresh, QuietMeansDirect
<1> QED BY <1>1, <1>2, <1>3, <1>5 DEF IInv

\* The stored list is only replaced by a list collected since its time.
LEMMA CacheStep ==
    ASSUME IInv, CacheTypeOK', [Next]_vars PROVE CacheInv'
<1> USE DiscoveryAssumption
<1>1. CASE cache' = cache
  <2>1. cache.entries \in SUBSET Entry /\ cache.at \in 0 .. clock
    BY DEF IInv, CacheTypeOK
  <2> QED BY <1>1, <2>1, CollectedKept DEF IInv, CacheInv, SoundNow, CompleteNow
<1>2. ASSUME NEW t \in Threads, Store(t) PROVE CacheInv'
  <2>1. /\ cache'.at = call[t].now /\ cache'.entries = list[t]
        /\ SoundNow(list[t], call[t].now) /\ CompleteNow(list[t], {}, call[t].now)
    BY <1>2 DEF Store, IInv, ListInv
  <2>2. list[t] \in SUBSET Entry /\ call[t].now \in 0 .. clock
    BY DEF IInv, CacheTypeOK
  <2> QED BY <2>1, <2>2, CollectedKept DEF IInv, CacheInv, SoundNow, CompleteNow
<1>3. ASSUME NEW t \in Threads, Discover(t), ~Store(t) PROVE cache' = cache
  BY <1>3 DEF Discover, Hit, Miss, Search, Fetch, FetchDeleted, FetchUnavailable, GiveUp, Match
<1>4. ASSUME NEW t \in Threads, NEW a \in Alerts, Begin(t, a) PROVE cache' = cache
  BY <1>4 DEF Begin
<1>5. ASSUME NEW d \in Dashboards, Edit(d) PROVE cache' = cache
  BY <1>5 DEF Edit
<1> QED BY <1>1, <1>2, <1>3, <1>4, <1>5 DEF Next, Tick, vars

\* What a thread has in hand stays good while others act.
LEMMA OthersKeepList ==
    ASSUME IInv, CacheTypeOK', [Next]_vars, NEW t \in Threads,
           pc'[t] = pc[t], call'[t] = call[t], list'[t] = list[t], todo'[t] = todo[t]
    PROVE  ListInv(t)'
<1> USE DiscoveryAssumption
<1>1. list[t] \in SUBSET Entry /\ call[t].now \in 0 .. clock /\ ListInv(t)
  BY DEF IInv, CacheTypeOK
<1>2. CASE pc[t] = "fetch"
  BY <1>1, <1>2, CollectedKept DEF IInv, ListInv, SoundNow, CompleteNow
<1>3. CASE pc[t] = "match"
  <2>1. PICK s \in 0 .. clock : /\ call[t].now - s < TTL
                               /\ SoundNow(list[t], s) /\ CompleteNow(list[t], {}, s)
    BY <1>1, <1>3 DEF ListInv, Usable
  <2>2. s \in 0 .. clock'
    <3>1. clock' \in Nat /\ clock <= clock'
      BY DEF IInv, CacheTypeOK, Next, Tick, Edit, Begin, Discover, Hit, Miss, Search, Fetch,
             FetchDeleted, FetchUnavailable, Store, GiveUp, Match, vars
    <3> QED BY <3>1 DEF IInv, CacheTypeOK
  <2>3. Usable(list[t], call[t].now)'
    BY <1>1, <2>1, <2>2, CollectedKept DEF IInv, Usable, SoundNow, CompleteNow
  <2> QED BY <1>1, <1>3, <2>3 DEF ListInv
<1> QED BY <1>1, <1>2, <1>3 DEF ListInv
\* Each step of a call leaves its own list good.
LEMMA OwnListStep ==
    ASSUME IInv, CacheTypeOK', [Next]_vars, NEW t \in Threads, Discover(t)
    PROVE  ListInv(t)'
<1> USE DiscoveryAssumption DEF Goto
<1>1. /\ list[t] \in SUBSET Entry /\ call[t].now \in 0 .. clock /\ todo[t] \in SUBSET Dashboards
      /\ pc[t] \in {"idle", "lookup", "search", "fetch", "match"}
      /\ clock \in Nat /\ exists \subseteq Dashboards
      /\ t \in DOMAIN pc /\ t \in DOMAIN list /\ t \in DOMAIN todo
      /\ cache.entries \in SUBSET Entry /\ cache.at \in 0 .. clock
  BY DEF IInv, CacheTypeOK
<1>2. ListInv(t) /\ CacheInv /\ CacheInv'
  BY CacheStep DEF IInv
<1>3. CASE Hit(t)
  <2>1. cache.at # 0 /\ cache.at \in 0 .. clock /\ call[t].now - cache.at < TTL
    BY <1>1, <1>2, <1>3 DEF Hit, Fresh, ListInv
  <2>2. /\ pc'[t] = "match" /\ list'[t] = cache.entries /\ call' = call /\ cache' = cache
        /\ clock' = clock
    BY <1>1, <1>3 DEF Hit
  <2>3. Usable(list[t], call[t].now)'
    BY <1>2, <2>1, <2>2 DEF Usable, CacheInv
  <2> QED BY <1>1, <1>2, <1>3, <2>2, <2>3 DEF ListInv, Hit
<1>4. CASE Miss(t)
  BY <1>1, <1>2, <1>4 DEF Miss, ListInv
<1>5. CASE Search(t)
  BY <1>1, <1>2, <1>5 DEF Search, ListInv, SoundNow, Sound, CompleteNow, Complete, grafana
<1>6. CASE Fetch(t)
  <2> DEFINE e == [uid |-> NextUp(t), matches |-> content[NextUp(t)], read |-> clock]
  <2>1. /\ pc' = pc /\ call' = call /\ clock' = clock /\ pc[t] = "fetch"
        /\ UNCHANGED <<exists, content, since, failed>>
        /\ list'[t] = list[t] \cup {e} /\ todo'[t] = todo[t] \ {NextUp(t)}
        /\ NextUp(t) \in exists
    BY <1>1, <1>6 DEF Fetch, FetchNext, grafana
  <2>2. SoundNow(list[t], call[t].now) /\ CompleteNow(list[t], todo[t], call[t].now)
    BY <1>2, <2>1 DEF ListInv
  <2>3. /\ call[t].now <= e.read /\ e.read <= clock
        /\ e.uid \in exists /\ e.matches = content[e.uid] /\ e.uid = NextUp(t)
    BY <1>1, <2>1
  <2> HIDE DEF e
  <2>4. SoundNow(list[t], call[t].now)'
    BY <2>1, <2>2, <2>3 DEF SoundNow, Sound
  <2>5. CompleteNow(list[t], todo[t], call[t].now)'
    BY <2>1, <2>2, <2>3 DEF CompleteNow, Complete
  <2> QED BY <1>2, <2>1, <2>4, <2>5 DEF ListInv
<1>7. CASE FetchDeleted(t)
  <2>1. /\ pc' = pc /\ call' = call /\ clock' = clock /\ list' = list /\ pc[t] = "fetch"
        /\ UNCHANGED <<exists, content, since, failed>>
        /\ todo'[t] = todo[t] \ {NextUp(t)} /\ NextUp(t) \notin exists
    BY <1>1, <1>7 DEF FetchDeleted, FetchNext, grafana
  <2> QED BY <1>2, <2>1 DEF ListInv, SoundNow, Sound, CompleteNow, Complete
<1>8. CASE FetchUnavailable(t)
  <2>1. /\ pc' = pc /\ call' = call /\ clock' = clock /\ list' = list /\ pc[t] = "fetch"
        /\ UNCHANGED <<exists, content, since>>
        /\ todo'[t] = todo[t] \ {NextUp(t)} /\ failed' = clock
    BY <1>1, <1>8 DEF FetchUnavailable, FetchNext, grafana
  <2> QED BY <1>1, <1>2, <2>1 DEF ListInv, SoundNow, Sound, CompleteNow, Complete
<1>9. CASE Store(t)
  <2>1. /\ pc'[t] = "match" /\ call' = call /\ clock' = clock /\ list' = list
        /\ UNCHANGED <<exists, content, since, failed>>
        /\ pc[t] = "fetch" /\ todo[t] = {}
    BY <1>1, <1>9 DEF Store, grafana
  <2>2. Usable(list[t], call[t].now)'
    <3>1. call[t].now - call[t].now < TTL
      BY <1>1
    <3> QED BY <1>1, <1>2, <2>1, <3>1 DEF ListInv, Usable, SoundNow, CompleteNow
  <2> QED BY <1>2, <2>1, <2>2 DEF ListInv
<1>10. CASE GiveUp(t)
  BY <1>1, <1>10 DEF GiveUp, Return, ListInv
<1>11. CASE Match(t)
  BY <1>1, <1>11 DEF Match, Return, ListInv
<1> QED BY <1>3, <1>4, <1>5, <1>6, <1>7, <1>8, <1>9, <1>10, <1>11 DEF Discover

LEMMA ListStep ==
    ASSUME IInv, CacheTypeOK', [Next]_vars PROVE (\A t \in Threads : ListInv(t))'
<1> SUFFICES ASSUME NEW t \in Threads PROVE ListInv(t)'
  OBVIOUS
<1> USE DEF Goto
<1>1. CASE Tick \/ UNCHANGED vars
  BY <1>1, OthersKeepList DEF Tick, vars
<1>2. ASSUME NEW d \in Dashboards, Edit(d) PROVE ListInv(t)'
  BY <1>2, OthersKeepList DEF Edit
<1>3. ASSUME NEW u \in Threads, NEW a \in Alerts, Begin(u, a) PROVE ListInv(t)'
  <2>1. CASE u # t
    <3>1. pc'[t] = pc[t] /\ call'[t] = call[t] /\ list' = list /\ todo' = todo
      BY <1>3, <2>1 DEF Begin, IInv, CacheTypeOK
    <3> QED BY <3>1, OthersKeepList
  <2>2. CASE u = t
    BY <1>3, <2>2 DEF Begin, IInv, CacheTypeOK, ListInv
  <2> QED BY <2>1, <2>2
<1>4. ASSUME NEW u \in Threads, Discover(u) PROVE ListInv(t)'
  <2>1. CASE u # t
    <3>1. pc'[t] = pc[t] /\ call'[t] = call[t] /\ list'[t] = list[t] /\ todo'[t] = todo[t]
      BY <1>4, <2>1 DEF IInv, CacheTypeOK, Discover, Hit, Miss, Search, Fetch, FetchDeleted,
           FetchUnavailable, FetchNext, Store, GiveUp, Match, Return
    <3> QED BY <3>1, OthersKeepList
  <2>2. CASE u = t
    BY <1>4, <2>2, OwnListStep
  <2> QED BY <2>1, <2>2
<1> QED BY <1>1, <1>2, <1>3, <1>4 DEF Next
\* A step that leaves it quiet has changed nothing in Grafana.
LEMMA QuietStill ==
    ASSUME CacheTypeOK, [Next]_vars, NEW now \in 0 .. clock,
           failed' <= now - TTL, \A d \in Dashboards : since'[d] <= now - TTL
    PROVE  UNCHANGED <<exists, content, since, failed>>
<1> USE DiscoveryAssumption
<1>1. clock \in Nat /\ now \in Nat /\ ~(clock <= now - TTL)
  BY DEF CacheTypeOK
<1>2. ASSUME NEW d \in Dashboards, Edit(d) PROVE FALSE
  BY <1>1, <1>2 DEF Edit, CacheTypeOK
<1>3. ASSUME NEW t \in Threads, Discover(t) PROVE UNCHANGED <<exists, content, since, failed>>
  BY <1>1, <1>3 DEF Discover, Hit, Miss, Search, Fetch, FetchDeleted, FetchUnavailable,
                    Store, GiveUp, Match, grafana
<1> QED BY <1>2, <1>3 DEF Next, Tick, Begin, grafana, vars

\* The answer that is picked from a usable list.
LEMMA MatchAnswers ==
    ASSUME IInv, NEW t \in Threads, Match(t)
    PROVE  /\ answer'[t].found => call[t].now - answer'[t].read < TTL
           /\ Quiet(t) => IF answer'[t].found THEN answer'[t].uid \in Direct(call[t].alert)
                                              ELSE Direct(call[t].alert) = {}
<1> USE DiscoveryAssumption
<1> DEFINE a == call[t].alert
           candidates == {e \in list[t] : a \in e.matches}
<1>1. /\ list[t] \in SUBSET Entry /\ call[t].now \in Nat /\ exists \subseteq Dashboards
      /\ t \in DOMAIN answer
      /\ failed \in Nat /\ \A d \in Dashboards : since[d] \in Nat
  BY DEF IInv, CacheTypeOK
<1>2. PICK s \in Nat : /\ call[t].now - s < TTL
                      /\ SoundNow(list[t], s) /\ CompleteNow(list[t], {}, s)
  BY DEF Match, IInv, ListInv, Usable, CacheTypeOK
<1>3. \A e \in list[t] : e \in Entry /\ e.uid \in Dashboards /\ e.uid \in Nat /\ e.read \in Nat /\ s <= e.read
  BY <1>1, <1>2 DEF Entry, SoundNow, Sound
<1>4. ASSUME Quiet(t)
      PROVE  /\ \A e \in list[t] : e.uid \in exists /\ e.matches = content[e.uid]
             /\ \A d \in exists : \E e \in list[t] : e.uid = d
  <2>1. ~(s <= failed) /\ \A d \in Dashboards : ~(s <= since[d])
    BY <1>1, <1>2, <1>4 DEF Quiet
  <2>2. \A e \in list[t] : ~(e.read <= since[e.uid])
    BY <1>1, <1>3, <2>1
  <2> QED BY <1>1, <1>2, <2>1, <2>2 DEF SoundNow, Sound, CompleteNow, Complete
<1>5. CASE candidates = {} /\ answer'[t] = NoLink
  <2>1. ASSUME Quiet(t), NEW d \in exists, a \in content[d] PROVE FALSE
    BY <1>4, <1>5, <2>1
  <2> QED BY <1>5, <2>1, NoLinkType DEF Direct
<1>6. ASSUME NEW e \in First(candidates), answer'[t] = Link(e)
      PROVE  /\ answer'[t].found => call[t].now - answer'[t].read < TTL
             /\ Quiet(t) => IF answer'[t].found THEN answer'[t].uid \in Direct(a)
                                                ELSE Direct(a) = {}
  <2>1. /\ e \in list[t] /\ a \in e.matches
        /\ \A f \in list[t] : a \in f.matches => e.uid <= f.uid
    BY DEF First
  <2>2. answer'[t].found /\ answer'[t].uid = e.uid /\ answer'[t].read = e.read
    BY <1>6 DEF Link
  <2>3. call[t].now - e.read < TTL
    BY <1>1, <1>2, <1>3, <2>1
  <2>4. ASSUME Quiet(t) PROVE e.uid \in Direct(a)
    <3>1. ASSUME NEW d \in exists, a \in content[d] PROVE e.uid <= d
      BY <1>4, <2>1, <2>4, <3>1
    <3> QED BY <1>4, <2>1, <2>4, <3>1 DEF Direct
  <2> QED BY <2>2, <2>3, <2>4
<1> QED BY <1>1, <1>5, <1>6 DEF Match, Return

\* No step takes back what a call was answered.
LEMMA AnswerStep ==
    ASSUME IInv, CacheTypeOK', [Next]_vars PROVE (LinkIsFresh /\ QuietMeansDirect)'
<1> USE DiscoveryAssumption
<1>0. CacheTypeOK /\ LinkIsFresh /\ QuietMeansDirect
  BY DEF IInv
<1> DEFINE Fine(u) == /\ answer'[u].found => call'[u].now - answer'[u].read < TTL
                      /\ answer'[u].given /\ Quiet(u)' =>
                            IF answer'[u].found THEN answer'[u].uid \in Direct(call[u].alert)'
                                                ELSE Direct(call[u].alert)' = {}
<1>1. ASSUME NEW u \in Threads, answer'[u] = answer[u], call'[u] = call[u] PROVE Fine(u)
  <2>1. answer'[u].found => call'[u].now - answer'[u].read < TTL
    BY <1>0, <1>1 DEF LinkIsFresh
  <2>2. ASSUME Quiet(u)' PROVE UNCHANGED <<exists, content, since, failed>>
    <3>1. call[u].now \in 0 .. clock
      BY <1>0 DEF CacheTypeOK
    <3> QED BY <1>0, <1>1, <2>2, <3>1, QuietStill DEF Quiet
  <2>3. ASSUME answer'[u].given, Quiet(u)'
        PROVE  IF answer'[u].found THEN answer'[u].uid \in Direct(call[u].alert)'
                                   ELSE Direct(call[u].alert)' = {}
    <3>1. Quiet(u) /\ Direct(call[u].alert)' = Direct(call[u].alert)
      BY <1>1, <2>2, <2>3 DEF Quiet, Direct
    <3> QED BY <1>0, <1>1, <2>3, <3>1 DEF QuietMeansDirect
  <2> QED BY <2>1, <2>3
<1>2. ASSUME NEW u \in Threads, NEW t \in Threads, Discover(t) PROVE Fine(u)
  <2>1. CASE answer'[u] = answer[u] /\ call' = call
    BY <1>1, <2>1
  <2>2. CASE u = t /\ Match(t)
    <3>1. call' = call /\ UNCHANGED <<exists, content, since, failed>>
      BY <2>2 DEF Match, grafana
    <3>2. Quiet(t)' <=> Quiet(t)
      BY <3>1 DEF Quiet
    <3>3. Direct(call[t].alert)' = Direct(call[t].alert)
      BY <3>1 DEF Direct
    <3> QED BY <2>2, <3>1, <3>2, <3>3, MatchAnswers
  <2>3. CASE u = t /\ GiveUp(t)
    <3>1. call' = call /\ failed' = clock /\ answer'[t] = NoLink
      BY <1>0, <2>3 DEF GiveUp, Return, CacheTypeOK
    <3>2. ~Quiet(t)'
      BY <1>0, <3>1 DEF Quiet, CacheTypeOK
    <3> QED BY <2>3, <3>1, <3>2, NoLinkType
  <2> QED BY <1>0, <1>2, <2>1, <2>2, <2>3 DEF Discover, Hit, Miss, Search, Fetch,
             FetchDeleted, FetchUnavailable, Store, GiveUp, Match, Return, CacheTypeOK
<1>3. ASSUME NEW u \in Threads, NEW t \in Threads, NEW b \in Alerts, Begin(t, b) PROVE Fine(u)
  <2>1. CASE u = t
    <3>1. answer'[u] = NoAnswer
      BY <1>0, <1>3, <2>1 DEF Begin, CacheTypeOK
    <3>2. ~NoAnswer.given /\ ~NoAnswer.found
      BY DEF NoAnswer
    <3> QED BY <3>1, <3>2
  <2>2. CASE u # t
    BY <1>0, <1>1, <1>3, <2>2 DEF Begin, CacheTypeOK
  <2> QED BY <2>1, <2>2
<1>4. ASSUME NEW u \in Threads, NEW d \in Dashboards, Edit(d) PROVE Fine(u)
  BY <1>1, <1>4 DEF Edit
<1>5. ASSUME NEW u \in Threads, Tick \/ UNCHANGED vars PROVE Fine(u)
  BY <1>1, <1>5 DEF Tick, vars
<1>6. \A u \in Threads : Fine(u)
  BY <1>2, <1>3, <1>4, <1>5 DEF Next
<1> QED BY <1>6 DEF LinkIsFresh, QuietMeansDirect

THEOREM Inductive == Spec => []IInv
<1>1. IInv /\ [Next]_vars => IInv'
  <2> SUFFICES ASSUME IInv, [Next]_vars PROVE IInv'
    OBVIOUS
  <2>1. CacheTypeOK'
    BY TypeStep DEF IInv
  <2>2. (TTL <= clock)'
    BY DiscoveryAssumption DEF IInv, CacheTypeOK, Next, Tick, Edit, Begin, Discover, Hit, Miss,
       Search, Fetch, FetchDeleted, FetchUnavailable, Store, GiveUp, Match, vars
  <2> QED BY <2>1, <2>2, CacheStep, ListStep, AnswerStep DEF IInv
<1> QED BY <1>1, InitHolds, PTL DEF Spec

\* A link is never to a dashboard read longer ago than the TTL, whoever
\* refreshed the list and however long it took (discovery.py:45-63).
THEOREM LinksAreFresh == Spec => []LinkIsFresh
<1>1. IInv => LinkIsFresh
  BY DEF IInv
<1> QED BY <1>1, Inductive, PTL

\* Once the TTL has passed since the last edit and the last failure, every
\* call answers what a look at all of Grafana would (discovery.py:47-87).
THEOREM QuietIsDirect == Spec => []QuietMeansDirect
<1>1. IInv => QuietMeansDirect
  BY DEF IInv
<1> QED BY <1>1, Inductive, PTL
=============================================================================
