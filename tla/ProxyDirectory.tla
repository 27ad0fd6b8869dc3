--------------------------- MODULE ProxyDirectory ---------------------------
(***************************************************************************)
(* One worker's ProxyDirectory: which egress node a request uses, and the  *)
(* Cloudflare clearance bundle it carries, fetched from FlareSolverr under *)
(* a single-flight guard while other requests wait, the clearance          *)
(* scheduler refreshes, and hot configuration changes reload everything.   *)
(*                                                                         *)
(* The directory's lock is never held across an await, so every coroutine  *)
(* runs from one real suspension (waiting for an event, the call to        *)
(* FlareSolverr, the request itself) to the next in one step.              *)
(*                                                                         *)
(* A request here is one acquire and the one feedback on its lease.        *)
(* Cookies and user agents are the number of the fetch they came from.     *)
(***************************************************************************)
EXTENDS Integers, Sequences

CONSTANTS Request,      \* requests that acquire a proxy
          Scheduler,    \* the ProxyClearanceScheduler task
          Node,         \* proxy URLs
          Direct,       \* the affinity of requests without a proxy
          Host,         \* hosts that need a clearance
          DefaultHost,  \* host of _DEFAULT_CLEARANCE_ORIGIN
          Config,       \* configurations, see ConfigType
          MaxChanges,   \* bound on configuration changes
          MaxRefreshes, \* bound on scheduled refreshes
          NoUrl,        \* no proxy URL
          NoClearance,  \* a lease without a bundle
          NoKey         \* a process that has not chosen a key

Process == Request \cup {Scheduler}
Key == (Node \cup {Direct}) \X Host

ConfigType == [egress : {"direct", "single_proxy", "proxy_pool"},
               clearance : {"none", "manual", "flaresolverr"},
               nodes : Seq(Node), resources : Seq(Node)]

ASSUME ConfigAssumption == Config \subseteq ConfigType
ASSUME HostAssumption == DefaultHost \in Host
ASSUME BoundsAssumption == MaxChanges \in Nat /\ MaxRefreshes \in Nat
ASSUME MarkersAssumption == /\ Scheduler \notin Request
                            /\ Direct \notin Node /\ NoUrl \notin Node
                            /\ NoClearance \notin Nat /\ NoKey \notin Key

VARIABLES
    config,    \* the configuration snapshot
    loaded,    \* _config_sig and what was loaded with it
    cursor,    \* _pool_cursor
    bundles,   \* _bundles: key -> which fetch it came from, VALID or not
    events,    \* _refresh_events: key -> the process whose event it is
    pc, key,   \* per process: where it is, and the key it works on
    waits,     \* per process: whose event it awaits
    served,    \* per request: the bundle its lease carries
    todo,      \* keys the scheduler has still to visit
    fetched,   \* bundles FlareSolverr has delivered
    changes, refreshes,  \* bounded counters
    withdrawn, \* history: bundles challenged, or invalidated by a reload
    orphaned   \* history: keys a reload dropped during a guarded fetch

vars == <<config, loaded, cursor, bundles, events, pc, key, waits, served,
          todo, fetched, changes, refreshes, withdrawn, orphaned>>

MANUAL == 0   \* the operator's own cookies, the same at every build
Bundle == [id : Nat, valid : BOOLEAN]
Stage == {"new", "woken", "waiting", "fetching", "leased", "done",
          "warming", "refreshing", "solving"}

TypeOK ==
    /\ config \in Config /\ loaded \in Config
    /\ cursor \in Nat
    /\ bundles \in [DOMAIN bundles -> Bundle] /\ DOMAIN bundles \subseteq Key
    /\ events \in [DOMAIN events -> Process] /\ DOMAIN events \subseteq Key
    /\ pc \in [Process -> Stage]
    /\ key \in [Process -> Key \cup {NoKey}]
    /\ waits \in [Process -> Process]
    /\ served \in [Request -> Nat \cup {NoClearance}]
    /\ todo \subseteq Key
    /\ fetched \in Nat /\ changes \in Nat /\ refreshes \in Nat
    /\ withdrawn \subseteq Nat
    /\ orphaned \subseteq Key

(* Loaded by the lifespan, before the first request.                       *)
Init ==
    /\ config \in Config /\ loaded = config
    /\ cursor = 0
    /\ bundles = [k \in {} |-> NoKey]
    /\ events = [k \in {} |-> NoKey]
    /\ pc = [p \in Process |-> "new"]
    /\ key = [p \in Process |-> NoKey]
    /\ waits = [p \in Process |-> p]
    /\ served = [r \in Request |-> NoClearance]
    /\ todo = {}
    /\ fetched = 0 /\ changes = 0 /\ refreshes = 0
    /\ withdrawn = {} /\ orphaned = {}

-----------------------------------------------------------------------------
(* Choosing a node.                                                        *)

(* A slip: a missing URL is taken for an affinity.                         *)
AffinityRaw(url) == url

Affinity(url) == IF url = NoUrl THEN Direct ELSE url

(* _pick_proxy_url: sticky at the cursor in a pool.                        *)
PickProxyUrl(resource) ==
    LET nodes == IF resource /\ loaded.resources # <<>> THEN loaded.resources
                                                        ELSE loaded.nodes
    IN IF loaded.egress = "direct" \/ nodes = <<>> THEN NoUrl
       ELSE IF loaded.egress = "single_proxy" THEN nodes[1]
       ELSE nodes[(cursor % Len(nodes)) + 1]

ValidAffinities(c) ==
    LET listed == {c.nodes[i] : i \in DOMAIN c.nodes}
                    \cup {c.resources[i] : i \in DOMAIN c.resources}
    IN IF c.egress = "direct" \/ listed = {} THEN {Direct} ELSE listed

-----------------------------------------------------------------------------
(* The single-flight guard of _get_or_build_bundle.                        *)

Valid(k) == k \in DOMAIN bundles /\ bundles[k].valid

Put(f, k, v) == [x \in DOMAIN f \cup {k} |-> IF x = k THEN v ELSE f[x]]
Pop(f, k) == [x \in DOMAIN f \ {k} |-> f[x]]

(* Process p has its bundle (or none): a request gets its lease, the       *)
(* scheduler goes on with its warm-up.                                     *)
Returns(p) == IF p = Scheduler THEN "warming" ELSE "leased"
Serve(p, got) == served' = IF p = Scheduler THEN served
                           ELSE [served EXCEPT ![p] = got]

(* No clearance is needed.                                                 *)
Unguarded(p) ==
    /\ loaded.clearance = "none"
    /\ pc' = [pc EXCEPT ![p] = Returns(p)]
    /\ Serve(p, NoClearance)
    /\ UNCHANGED <<bundles, events, waits>>

(* A valid bundle is there.                                                *)
Cached(p, k) ==
    /\ Valid(k)
    /\ pc' = [pc EXCEPT ![p] = Returns(p)]
    /\ Serve(p, bundles[k].id)
    /\ UNCHANGED <<bundles, events, waits>>

(* Somebody is fetching it: wait for the event.                            *)
Waits(p, k) ==
    /\ ~Valid(k) /\ k \in DOMAIN events
    /\ pc' = [pc EXCEPT ![p] = "waiting"]
    /\ waits' = [waits EXCEPT ![p] = events[k]]
    /\ UNCHANGED <<bundles, events, served>>

(* Nobody is, and the bundle is made without an await: of the operator's   *)
(* cookies, or not at all when the configuration has changed since it was  *)
(* loaded; the event is set and popped before anybody sees it.             *)
BuildsAtOnce(p, k) ==
    /\ ~Valid(k) /\ k \notin DOMAIN events
    /\ \/ loaded.clearance = "manual"
       \/ config.clearance # "flaresolverr"
    /\ LET built == loaded.clearance = "manual" /\ config.clearance = "manual"
       IN /\ bundles' = IF built THEN Put(bundles, k,
                                          [id |-> MANUAL, valid |-> TRUE])
                                 ELSE bundles
          /\ Serve(p, IF built THEN MANUAL ELSE NoClearance)
    /\ pc' = [pc EXCEPT ![p] = Returns(p)]
    /\ UNCHANGED <<events, waits>>

(* A slip: whoever finds no valid bundle fetches one.                      *)
FetchesAnyway(p, k) ==
    /\ ~Valid(k)
    /\ loaded.clearance # "manual" /\ config.clearance = "flaresolverr"
    /\ events' = Put(events, k, p)
    /\ pc' = [pc EXCEPT ![p] = "fetching"]
    /\ UNCHANGED <<bundles, waits, served>>

(* Nobody is: p wins the right to fetch and calls FlareSolverr.            *)
Fetches(p, k) ==
    /\ ~Valid(k) /\ k \notin DOMAIN events
    /\ loaded.clearance # "manual" /\ config.clearance = "flaresolverr"
    /\ events' = Put(events, k, p)
    /\ pc' = [pc EXCEPT ![p] = "fetching"]
    /\ UNCHANGED <<bundles, waits, served>>

(* The loop of the guard, from its start or after a wake-up.               *)
Guard(p, k) == \/ Cached(p, k) \/ Waits(p, k)
               \/ BuildsAtOnce(p, k) \/ Fetches(p, k)

(* event.set(): all who wait for p's event will run again.                 *)
Woken(p) == {q \in Process : pc[q] = "waiting" /\ waits[q] = p}

WakeUp(p, next) ==
    /\ pc' = [q \in Process |-> IF q = p THEN next
                                ELSE IF q \in Woken(p) THEN "woken" ELSE pc[q]]
    /\ waits' = [q \in Process |-> IF q \in Woken(p) THEN q ELSE waits[q]]

(* FlareSolverr answers: the bundle is stored and the finally block wakes  *)
(* the waiters.  It pops whatever event the key has by then.               *)
FetchSucceeds(p) ==
    /\ pc[p] = "fetching"
    /\ fetched' = fetched + 1
    /\ bundles' = Put(bundles, key[p], [id |-> fetched + 1, valid |-> TRUE])
    /\ events' = Pop(events, key[p])
    /\ WakeUp(p, Returns(p))
    /\ Serve(p, fetched + 1)
    /\ UNCHANGED <<config, loaded, cursor, key, todo, changes, refreshes,
                   withdrawn, orphaned>>

(* A slip: only a success sets the event.                                  *)
FetchFailsSilently(p) ==
    /\ pc[p] = "fetching"
    /\ events' = Pop(events, key[p])
    /\ pc' = [pc EXCEPT ![p] = Returns(p)]
    /\ Serve(p, NoClearance)
    /\ UNCHANGED <<config, loaded, cursor, bundles, key, waits, todo, fetched,
                   changes, refreshes, withdrawn, orphaned>>

(* It fails or times out: the request goes on without a clearance, and the *)
(* waiters try in turn.                                                    *)
FetchFails(p) ==
    /\ pc[p] = "fetching"
    /\ events' = Pop(events, key[p])
    /\ WakeUp(p, Returns(p))
    /\ Serve(p, NoClearance)
    /\ UNCHANGED <<config, loaded, cursor, bundles, key, todo, fetched,
                   changes, refreshes, withdrawn, orphaned>>

-----------------------------------------------------------------------------
(* Requests.                                                               *)

Acquire(r, resource, host) ==
    /\ pc[r] = "new"
    /\ LET k == <<Affinity(PickProxyUrl(resource)), host>>
       IN /\ key' = [key EXCEPT ![r] = k]
          /\ IF loaded.clearance = "none" THEN Unguarded(r) ELSE Guard(r, k)
    /\ UNCHANGED <<config, loaded, cursor, todo, fetched, changes, refreshes,
                   withdrawn, orphaned>>

(* A waiter runs again; it keeps the node it picked before it waited.      *)
Retry(p) ==
    /\ pc[p] = "woken"
    /\ Guard(p, key[p])
    /\ UNCHANGED <<config, loaded, cursor, key, todo, fetched, changes,
                   refreshes, withdrawn, orphaned>>

(* The request is over and its lease gone.                                 *)
Forgets(r) == /\ key' = [key EXCEPT ![r] = NoKey]
              /\ served' = [served EXCEPT ![r] = NoClearance]

(* A slip: the event is set only where the fetch returns.                  *)
CancelledSilently(r) ==
    /\ pc[r] \in {"waiting", "woken", "fetching"}
    /\ events' = IF pc[r] = "fetching" THEN Pop(events, key[r]) ELSE events
    /\ pc' = [pc EXCEPT ![r] = "done"]
    /\ Forgets(r)
    /\ UNCHANGED <<config, loaded, cursor, bundles, waits, todo, fetched,
                   changes, refreshes, withdrawn, orphaned>>

(* The client goes away: a fetching request runs its finally block.        *)
Cancelled(r) ==
    /\ pc[r] \in {"waiting", "woken", "fetching"}
    /\ events' = IF pc[r] = "fetching" THEN Pop(events, key[r]) ELSE events
    /\ WakeUp(r, "done")
    /\ Forgets(r)
    /\ UNCHANGED <<config, loaded, cursor, bundles, todo, fetched, changes,
                   refreshes, withdrawn, orphaned>>

(* challenged: CHALLENGE or UNAUTHORIZED; failed: FORBIDDEN or             *)
(* TRANSPORT_ERROR; other: SUCCESS, RATE_LIMITED or UPSTREAM_5XX.          *)
Verdict == {"challenged", "failed", "other"}

(* Failures of a proxied request move the cursor of a pool.                *)
Rotate(r, verdict) ==
    cursor' = IF /\ loaded.egress = "proxy_pool" /\ key[r][1] # Direct
                 /\ verdict # "other"
              THEN cursor + 1 ELSE cursor

(* A slip: the challenged bundle stays.                                    *)
FeedbackRotatesOnly(r, verdict) ==
    /\ pc[r] = "leased"
    /\ Rotate(r, verdict)
    /\ withdrawn' = IF verdict = "challenged"
                    THEN withdrawn \cup ({served[r]} \ {NoClearance, MANUAL})
                    ELSE withdrawn
    /\ pc' = [pc EXCEPT ![r] = "done"]
    /\ Forgets(r)
    /\ UNCHANGED <<config, loaded, bundles, events, waits, todo, fetched,
                   changes, refreshes, orphaned>>

(* feedback: a challenge invalidates the bundle the key has by now.        *)
Feedback(r, verdict) ==
    /\ pc[r] = "leased"
    /\ bundles' = IF verdict = "challenged" /\ key[r] \in DOMAIN bundles
                  THEN [bundles EXCEPT ![key[r]].valid = FALSE]
                  ELSE bundles
    /\ Rotate(r, verdict)
    /\ withdrawn' = IF verdict = "challenged"
                    THEN withdrawn \cup ({served[r]} \ {NoClearance, MANUAL})
                    ELSE withdrawn
    /\ pc' = [pc EXCEPT ![r] = "done"]
    /\ Forgets(r)
    /\ UNCHANGED <<config, loaded, events, waits, todo, fetched, changes,
                   refreshes, orphaned>>

-----------------------------------------------------------------------------
(* Configuration.                                                          *)

Reconfigure(c) ==
    /\ changes < MaxChanges
    /\ c # config
    /\ config' = c
    /\ changes' = changes + 1
    /\ UNCHANGED <<loaded, cursor, bundles, events, pc, key, waits, served,
                   todo, fetched, refreshes, withdrawn, orphaned>>

Keeps(f, c) == {k \in DOMAIN f : k[1] \in ValidAffinities(c)}

(* load, which every get_proxy_runtime calls: the bundles of nodes that    *)
(* stay are invalidated, those of other nodes and the events of fetches in *)
(* progress for them are dropped.                                          *)
Load ==
    /\ loaded # config
    /\ loaded' = config
    /\ cursor' = 0
    /\ bundles' = [k \in Keeps(bundles, config) |->
                     [bundles[k] EXCEPT !.valid = FALSE]]
    /\ events' = [k \in Keeps(events, config) |-> events[k]]
    /\ withdrawn' = withdrawn \cup ({bundles[k].id : k \in DOMAIN bundles}
                                      \ {MANUAL})
    /\ orphaned' = orphaned \cup (DOMAIN events \ Keeps(events, config))
    /\ UNCHANGED <<config, pc, key, waits, served, todo, fetched, changes,
                   refreshes>>

-----------------------------------------------------------------------------
(* The clearance scheduler.                                                *)

DefaultKeys ==
    LET urls == {loaded.nodes[i] : i \in DOMAIN loaded.nodes}
    IN (IF loaded.egress = "direct" \/ urls = {} THEN {Direct} ELSE urls)
         \X {DefaultHost}

(* Its warm-up, right after a load: every node's bundle, one by one ...    *)
WarmUp ==
    /\ pc[Scheduler] = "new" /\ loaded = config
    /\ todo' = IF loaded.clearance = "none" THEN {} ELSE DefaultKeys
    /\ pc' = [pc EXCEPT ![Scheduler] = "warming"]
    /\ UNCHANGED <<config, loaded, cursor, bundles, events, key, waits, served,
                   fetched, changes, refreshes, withdrawn, orphaned>>

(* ... through the guard.                                                  *)
WarmUpVisit(k) ==
    /\ pc[Scheduler] = "warming" /\ k \in todo
    /\ todo' = todo \ {k}
    /\ key' = [key EXCEPT ![Scheduler] = k]
    /\ IF loaded.clearance = "none" THEN Unguarded(Scheduler)
                                    ELSE Guard(Scheduler, k)
    /\ UNCHANGED <<config, loaded, cursor, fetched, changes, refreshes,
                   withdrawn, orphaned>>

(* A scheduled refresh, right after a load, visits every node and every    *)
(* key that has a bundle, without the guard.                               *)
Refresh ==
    /\ pc[Scheduler] \in {"warming", "refreshing"} /\ todo = {}
    /\ loaded = config /\ loaded.clearance # "none"
    /\ refreshes < MaxRefreshes
    /\ refreshes' = refreshes + 1
    /\ todo' = DefaultKeys \cup DOMAIN bundles
    /\ pc' = [pc EXCEPT ![Scheduler] = "refreshing"]
    /\ UNCHANGED <<config, loaded, cursor, bundles, events, key, waits, served,
                   fetched, changes, withdrawn, orphaned>>

(* The new bundle is made, or the attempt given up, without an await ...   *)
RefreshAtOnce(k) ==
    /\ pc[Scheduler] = "refreshing" /\ k \in todo
    /\ loaded.clearance = "manual" \/ config.clearance # "flaresolverr"
    /\ todo' = todo \ {k}
    /\ bundles' = IF loaded.clearance = "manual" /\ config.clearance = "manual"
                  THEN Put(bundles, k, [id |-> MANUAL, valid |-> TRUE])
                  ELSE bundles
    /\ UNCHANGED <<config, loaded, cursor, events, pc, key, waits, served,
                   fetched, changes, refreshes, withdrawn, orphaned>>

(* ... or FlareSolverr is called ...                                       *)
RefreshCalls(k) ==
    /\ pc[Scheduler] = "refreshing" /\ k \in todo
    /\ loaded.clearance # "manual" /\ config.clearance = "flaresolverr"
    /\ todo' = todo \ {k}
    /\ key' = [key EXCEPT ![Scheduler] = k]
    /\ pc' = [pc EXCEPT ![Scheduler] = "solving"]
    /\ UNCHANGED <<config, loaded, cursor, bundles, events, waits, served,
                   fetched, changes, refreshes, withdrawn, orphaned>>

(* ... and the bundle swapped when it answers, or kept when it fails.      *)
RefreshSucceeds ==
    /\ pc[Scheduler] = "solving"
    /\ fetched' = fetched + 1
    /\ bundles' = Put(bundles, key[Scheduler],
                      [id |-> fetched + 1, valid |-> TRUE])
    /\ pc' = [pc EXCEPT ![Scheduler] = "refreshing"]
    /\ UNCHANGED <<config, loaded, cursor, events, key, waits, served, todo,
                   changes, refreshes, withdrawn, orphaned>>

RefreshFails ==
    /\ pc[Scheduler] = "solving"
    /\ pc' = [pc EXCEPT ![Scheduler] = "refreshing"]
    /\ UNCHANGED <<config, loaded, cursor, bundles, events, key, waits, served,
                   todo, fetched, changes, refreshes, withdrawn, orphaned>>

-----------------------------------------------------------------------------
FetchEnds(p) == FetchSucceeds(p) \/ FetchFails(p)

RequestStep(r) ==
    \/ \E resource \in BOOLEAN, host \in Host : Acquire(r, resource, host)
    \/ Cancelled(r)
    \/ \E verdict \in Verdict : Feedback(r, verdict)

SchedulerStep ==
    \/ WarmUp \/ Refresh
    \/ \E k \in todo : WarmUpVisit(k) \/ RefreshAtOnce(k) \/ RefreshCalls(k)
    \/ RefreshSucceeds \/ RefreshFails

Next ==
    \/ \E r \in Request : RequestStep(r)
    \/ \E p \in Process : FetchEnds(p) \/ Retry(p)
    \/ SchedulerStep
    \/ \E c \in Config : Reconfigure(c)
    \/ Load

Spec == Init /\ [][Next]_vars

(* FlareSolverr answers or the call times out, and the event loop runs     *)
(* every coroutine whose event is set.                                     *)
Fairness == \A p \in Process : WF_vars(FetchEnds(p)) /\ WF_vars(Retry(p))

FairSpec == Spec /\ Fairness

-----------------------------------------------------------------------------
(* Properties.                                                             *)

Fetching(p) == pc[p] = "fetching"

(* No wake-up is lost: whoever waits for an event waits for that of a      *)
(* process that is still fetching and will set it, though reloads drop     *)
(* events, fetches fail or are cancelled, and a finally block may pop the  *)
(* event of another fetch (_get_or_build_bundle, try/finally).             *)
WaitersHaveOwner ==
    \A p \in Process : pc[p] = "waiting" =>
       /\ Fetching(waits[p])
       /\ key[waits[p]] = key[p]

(* "Single-flight guard: at most one FlareSolverr call per proxy+host key" *)
(* holds among the requests and the warm-up, as long as no reload has      *)
(* dropped the event of a fetch of that key in progress.                   *)
SingleFlight ==
    \A p, q \in Process :
       Fetching(p) /\ Fetching(q) /\ p # q /\ key[p] = key[q]
         => key[p] \in orphaned

(* A bundle that upstream has challenged, or that a reload has invalidated *)
(* or dropped, is never handed out again, also to those that were waiting  *)
(* at the time (feedback, load, the loop of _get_or_build_bundle).         *)
WithdrawnNotServed ==
    [][\A r \in Request :
         served'[r] # served[r] => served'[r] \notin withdrawn]_vars

(* Every request that waits for a clearance gets its lease in the end.     *)
AcquireEnds ==
    \A r \in Request : pc[r] \in {"waiting", "woken", "fetching"}
                         ~> pc[r] \in {"leased", "done"}

(* "rotate to the next node on any failure so the next acquire() prefers a *)
(* different egress rather than hammering the same broken node"            *)
(* (feedback): after a failure on a node of a pool of several, the next    *)
(* pick is another node.                                                   *)
FailureRotatesAway ==
    [][\A r \in Request :
         /\ pc[r] = "leased" /\ pc'[r] = "done" /\ cursor' # cursor
         /\ \E n \in ValidAffinities(loaded) : n # key[r][1]
         => loaded.nodes[(cursor' % Len(loaded.nodes)) + 1] # key[r][1]]_vars
=============================================================================
