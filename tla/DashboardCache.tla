---------------------------- MODULE DashboardCache ----------------------------
(***************************************************************************)
(* The dashboard link of an RCA: find_panel_link and _cached_dashboards of *)
(* app/grafana/discovery.py, over app/grafana/client.py.                   *)
(*                                                                         *)
(* Investigations that end at the same time share the cached list without  *)
(* a lock: reading the clock, reading the cache, each request to Grafana   *)
(* and storing the new list are separate steps of a thread.  Any request   *)
(* may be unavailable (an HTTP error or a timeout, which only the fetch of *)
(* a single dashboard survives) or raise something else, and people edit   *)
(* dashboards meanwhile.                                                   *)
(*                                                                         *)
(* A dashboard is its place in Grafana's search order.  Its content is the *)
(* set of alerts one of whose hints occurs in a target of one of its       *)
(* panels, rows excepted; which of several panels is linked is left out.   *)
(***************************************************************************)
EXTENDS Integers, FiniteSets

CONSTANTS Threads,      \* threads that run an investigation
          Dashboards,   \* places in the search order
          Alerts,       \* alert names
          TTL,          \* _CACHE_TTL_S
          MaxClock,     \* bound: ticks of the clock
          MaxEdits      \* bound: edits in Grafana

ASSUME DiscoveryAssumption ==
    /\ Dashboards \subseteq Nat
    /\ TTL \in Nat \ {0}
    /\ MaxClock \in Nat
    /\ MaxEdits \in Nat

VARIABLES clock,     \* time.monotonic()
          exists,    \* the dashboards Grafana has
          content,   \* what each would match
          since,     \* when it was last created, edited or deleted
          edits,
          failed,    \* when a request last failed
          cache,     \* _cache["dashboards"]: (at, entries)
          pc,        \* where each thread is
          call,      \* the alert and the "now" of its call
          todo,      \* dashboards it has found and not fetched yet
          list,      \* the entries it has collected or taken from the cache
          answer     \* what its last call returned

grafana == <<exists, content, since, edits>>
vars == <<clock, grafana, failed, cache, pc, call, todo, list, answer>>

\* A dashboard as it was read, and when.
Entry == [uid : Dashboards, matches : SUBSET Alerts, read : Nat]

Answer == [given : BOOLEAN, found : BOOLEAN, uid : Nat, read : Nat]
NoAnswer == [given |-> FALSE, found |-> FALSE, uid |-> 0, read |-> 0]
NoLink == [given |-> TRUE, found |-> FALSE, uid |-> 0, read |-> 0]
Link(e) == [given |-> TRUE, found |-> TRUE, uid |-> e.uid, read |-> e.read]

\* No cached list yet is the same as an expired one: the clock starts at TTL.
Init ==
    /\ clock = TTL
    /\ exists \in SUBSET Dashboards
    /\ content \in {c \in [Dashboards -> SUBSET Alerts] :
                       \A d \in Dashboards \ exists : c[d] = {}}
    /\ since = [d \in Dashboards |-> 0]
    /\ edits = 0
    /\ failed = 0
    /\ cache = [at |-> 0, entries |-> {}]
    /\ pc = [t \in Threads |-> "idle"]
    /\ call \in [Threads -> [alert : Alerts, now : {0}]]
    /\ todo = [t \in Threads |-> {}]
    /\ list = [t \in Threads |-> {}]
    /\ answer = [t \in Threads |-> NoAnswer]
-----------------------------------------------------------------------------
Tick ==
    /\ clock < MaxClock
    /\ clock' = clock + 1
    /\ UNCHANGED <<grafana, failed, cache, pc, call, todo, list, answer>>

\* Somebody creates, edits or deletes a dashboard.
Edit(d) ==
    /\ edits < MaxEdits
    /\ \/ exists' = exists \ {d} /\ content' = [content EXCEPT ![d] = {}]
       \/ exists' = exists \cup {d} /\ \E m \in SUBSET Alerts : content' = [content EXCEPT ![d] = m]
    /\ since' = [since EXCEPT ![d] = clock]
    /\ edits' = edits + 1
    /\ UNCHANGED <<clock, failed, cache, pc, call, todo, list, answer>>

Goto(t, label) == pc' = [pc EXCEPT ![t] = label]

\* find_panel_link is called: now = time.monotonic()
Begin(t, a) ==
    /\ pc[t] = "idle"
    /\ call' = [call EXCEPT ![t] = [alert |-> a, now |-> clock]]
    /\ answer' = [answer EXCEPT ![t] = NoAnswer]
    /\ Goto(t, "lookup")
    /\ UNCHANGED <<clock, grafana, failed, cache, todo, list>>

\* hit and now - hit[0] < _CACHE_TTL_S
Fresh(t) == call[t].now - cache.at < TTL

\* Mutation: a hit renews the list.
Hit_Renews(t) ==
    /\ pc[t] = "lookup"
    /\ Fresh(t)
    /\ list' = [list EXCEPT ![t] = cache.entries]
    /\ cache' = [cache EXCEPT !.at = call[t].now]
    /\ Goto(t, "match")
    /\ UNCHANGED <<clock, grafana, failed, call, todo, answer>>

Hit(t) ==
    /\ pc[t] = "lookup"
    /\ Fresh(t)
    /\ list' = [list EXCEPT ![t] = cache.entries]
    /\ Goto(t, "match")
    /\ UNCHANGED <<clock, grafana, failed, cache, call, todo, answer>>

Miss(t) ==
    /\ pc[t] = "lookup"
    /\ ~Fresh(t)
    /\ Goto(t, "search")
    /\ UNCHANGED <<clock, grafana, failed, cache, call, todo, list, answer>>

Search(t) ==
    /\ pc[t] = "search"
    /\ todo' = [todo EXCEPT ![t] = exists]
    /\ Goto(t, "fetch")
    /\ UNCHANGED <<clock, grafana, failed, cache, call, list, answer>>

\* The next dashboard in the order of the search.
NextUp(t) == CHOOSE d \in todo[t] : \A e \in todo[t] : d <= e

FetchNext(t) == todo' = [todo EXCEPT ![t] = @ \ {NextUp(t)}]

Fetch(t) ==
    /\ pc[t] = "fetch"
    /\ todo[t] # {} /\ NextUp(t) \in exists
    /\ list' = [list EXCEPT ![t] = @ \cup {[uid |-> NextUp(t),
                                            matches |-> content[NextUp(t)],
                                            read |-> clock]}]
    /\ FetchNext(t)
    /\ UNCHANGED <<clock, grafana, failed, cache, pc, call, answer>>

\* It was deleted since the search.
FetchDeleted(t) ==
    /\ pc[t] = "fetch"
    /\ todo[t] # {} /\ NextUp(t) \notin exists
    /\ FetchNext(t)
    /\ UNCHANGED <<clock, grafana, failed, cache, pc, call, list, answer>>

\* GrafanaUnavailableError: the list goes on without the dashboard.
FetchUnavailable(t) ==
    /\ pc[t] = "fetch"
    /\ todo[t] # {}
    /\ failed' = clock
    /\ FetchNext(t)
    /\ UNCHANGED <<clock, grafana, cache, pc, call, list, answer>>

\* Mutation: the list is stored under the time at which it expires.
Store_Expiry(t) ==
    /\ pc[t] = "fetch"
    /\ todo[t] = {}
    /\ cache' = [at |-> call[t].now + TTL, entries |-> list[t]]
    /\ Goto(t, "match")
    /\ UNCHANGED <<clock, grafana, failed, call, todo, list, answer>>

\* Mutation: the list is stored under the time at which it is complete.
Store_WhenComplete(t) ==
    /\ pc[t] = "fetch"
    /\ todo[t] = {}
    /\ cache' = [at |-> clock, entries |-> list[t]]
    /\ Goto(t, "match")
    /\ UNCHANGED <<clock, grafana, failed, call, todo, list, answer>>

Store(t) ==
    /\ pc[t] = "fetch"
    /\ todo[t] = {}
    /\ cache' = [at |-> call[t].now, entries |-> list[t]]
    /\ Goto(t, "match")
    /\ UNCHANGED <<clock, grafana, failed, call, todo, list, answer>>

\* The function returns: its locals are gone.
Return(t, result) ==
    /\ answer' = [answer EXCEPT ![t] = result]
    /\ todo' = [todo EXCEPT ![t] = {}]
    /\ list' = [list EXCEPT ![t] = {}]
    /\ Goto(t, "idle")

\* The search is unavailable, or a request raises anything else: the cache
\* stays as it is and the RCA goes without a link.
GiveUp(t) ==
    /\ pc[t] \in {"search", "fetch"}
    /\ pc[t] = "fetch" => todo[t] # {}
    /\ failed' = clock
    /\ Return(t, NoLink)
    /\ UNCHANGED <<clock, grafana, cache, call>>

\* The search order decides.
First(candidates) ==
    {e \in candidates : \A f \in candidates : e.uid <= f.uid}

\* The first panel that matches, or None.
Match(t) ==
    /\ pc[t] = "match"
    /\ LET candidates == {e \in list[t] : call[t].alert \in e.matches}
       IN  \/ candidates = {} /\ Return(t, NoLink)
           \/ \E e \in First(candidates) : Return(t, Link(e))
    /\ UNCHANGED <<clock, grafana, failed, cache, call>>

Discover(t) ==
    \/ Hit(t) \/ Miss(t) \/ Search(t)
    \/ Fetch(t) \/ FetchDeleted(t) \/ FetchUnavailable(t)
    \/ Store(t) \/ GiveUp(t) \/ Match(t)

Next ==
    \/ Tick
    \/ \E d \in Dashboards : Edit(d)
    \/ \E t \in Threads : Discover(t) \/ \E a \in Alerts : Begin(t, a)

Spec == Init /\ [][Next]_vars
-----------------------------------------------------------------------------
\* Every variable stays in its type, and no list is from the future.
CacheTypeOK ==
    /\ clock \in Nat
    /\ exists \subseteq Dashboards
    /\ content \in [Dashboards -> SUBSET Alerts]
    /\ since \in [Dashboards -> 0 .. clock]
    /\ edits \in Nat
    /\ failed \in 0 .. clock
    /\ cache \in [at : 0 .. clock, entries : SUBSET Entry]
    /\ pc \in [Threads -> {"idle", "lookup", "search", "fetch", "match"}]
    /\ call \in [Threads -> [alert : Alerts, now : 0 .. clock]]
    /\ todo \in [Threads -> SUBSET Dashboards]
    /\ list \in [Threads -> SUBSET Entry]
    /\ answer \in [Threads -> Answer]

\* Whoever's list a call is served and however long that refresh took, even
\* when it has overwritten a newer one, the dashboard a link points to was
\* read from Grafana less than the TTL before the call (discovery.py:45-63).
LinkIsFresh ==
    \A t \in Threads :
        answer[t].found => call[t].now - answer[t].read < TTL

\* Nothing was edited and no request failed since the TTL before the call.
Quiet(t) ==
    /\ failed <= call[t].now - TTL
    /\ \A d \in Dashboards : since[d] <= call[t].now - TTL

\* What a look at all of Grafana would answer.
Direct(a) == {d \in exists : /\ a \in content[d]
                             /\ \A e \in exists : a \in content[e] => d <= e}

\* The cache shows only in disturbed times: once the TTL has passed since the
\* last failure and the last edit, a call answers as if it had asked Grafana
\* itself, so a list that lacks the dashboards of an outage is forgotten and
\* the first match in search order is linked (discovery.py:47-49, 56-63, 75-87).
QuietMeansDirect ==
    \A t \in Threads :
        answer[t].given /\ Quiet(t) =>
            IF answer[t].found THEN answer[t].uid \in Direct(call[t].alert)
                               ELSE Direct(call[t].alert) = {}
=============================================================================
