-------------------------- MODULE AccountDirectory --------------------------
(***************************************************************************)
(* One worker's AccountDirectory: the columnar runtime table, the          *)
(* selection of an account for a request, the lease, and what the outcome  *)
(* of the request does to the table, while syncs rewrite slots and an      *)
(* administrator switches the selection strategy.                          *)
(*                                                                         *)
(* The worker is one asyncio thread and the bodies of the directory's      *)
(* locks never await, so reserve, and release with the feedback after it,  *)
(* are one step each; a request awaits (and everybody else may run)        *)
(* between its attempts, during refresh_on_demand and during the upstream  *)
(* call.                                                                   *)
(*                                                                         *)
(* Abstracted: health, last-use and failure scores only order the working  *)
(* set of the quota strategy, so any member of it may be chosen; tags are  *)
(* never asked for by a caller.                                            *)
(***************************************************************************)
EXTENDS Integers, Sequences, FiniteSets

CONSTANTS Token, Request, Pool, Mode,
          Basic,             \* the pool whose windows the worker resets itself
          Record,            \* what a sync may say of a live account
          Plan,              \* what requests may ask for, see PlanType
          RandomMaxRetries,  \* _RANDOM_MAX_RETRIES
          QuotaMaxRetries,   \* retry.max_retries
          MaxInflight,       \* account.selection.max_inflight
          InflightLimit,     \* 65535, the largest value of the uint16 column
          CoolingSec,        \* pool -> seconds of cool-down after a 429
          MaxNow,            \* bound on the clock, for model checking
          MaxLeaks,          \* bound on the lost leases of one account
          NoPlan, NoLease, Gone

Status == {"active", "cooling", "expired", "disabled", "deleted"}
Slot == [pool : Pool, status : Status, quota : [Mode -> Int],
         total : [Mode -> Nat], window : [Mode -> Nat], reset : [Mode -> Nat]]

(* What a caller asks for: pool_candidates and mode_candidates in order of *)
(* preference; any: reserve_any, without quota; refreshes: reserve_account *)
(* with its on-demand refresh; retries: a loop over accounts; eager: the   *)
(* lease is taken before the response stream starts.                       *)
PlanType == [pools : Seq(Pool), modes : Seq(Mode), any : BOOLEAN,
             refreshes : BOOLEAN, retries : BOOLEAN, eager : BOOLEAN]

ASSUME RecordAssumption == Record \subseteq Slot
ASSUME PlanAssumption == Plan \subseteq PlanType
ASSUME PoolsAssumption ==   \* no pool is preferred twice
    \A p \in Plan : \A i, j \in DOMAIN p.pools :
       p.pools[i] = p.pools[j] => i = j
ASSUME BasicAssumption == Basic \in Pool
ASSUME CoolingAssumption == CoolingSec \in [Pool -> Nat]
ASSUME RetriesAssumption == RandomMaxRetries \in Nat /\ QuotaMaxRetries \in Nat
ASSUME BoundsAssumption == MaxNow \in Nat /\ MaxLeaks \in Nat
ASSUME InflightAssumption ==
    /\ MaxInflight \in Nat
    /\ InflightLimit \in Nat
    /\ IsFiniteSet(Request)
    /\ Cardinality(Request) + MaxLeaks <= InflightLimit
ASSUME MarkersAssumption == /\ NoPlan \notin Plan
                            /\ NoLease \notin [token : Token, mode : Mode]
                            /\ Gone \notin Record

VARIABLES
    slot,       \* the table's columns for every token it has a slot for
    available,  \* mode_available: <<pool, mode>> -> tokens
    inflight,   \* inflight_by_idx
    cooling,    \* cooling_until_s_by_idx
    strategy,   \* the process-global selection strategy
    now,        \* seconds
    pc, plan, lease, attempt, retries, excluded, asked,   \* per request
    limited,    \* history: <<token, mode>> that a 429 has exhausted
    rested,     \* history: when the cool-down of a token's last 429 ends
    leaked      \* history: leases nobody will return, per token

tableVars   == <<slot, available, inflight, cooling>>
requestVars == <<pc, plan, lease, attempt, retries, excluded, asked>>
historyVars == <<limited, rested, leaked>>
vars == <<tableVars, strategy, now, requestVars, historyVars>>

Lease == [token : Token, mode : Mode]
Stage == {"idle", "asking", "refreshing", "held", "running"}

TypeOK ==
    /\ slot \in [DOMAIN slot -> Slot] /\ DOMAIN slot \subseteq Token
    /\ available \in [Pool \X Mode -> SUBSET Token]
    /\ inflight \in [Token -> 0..InflightLimit]
    /\ cooling \in [Token -> Nat]
    /\ strategy \in {"quota", "random"}
    /\ now \in Nat
    /\ pc \in [Request -> Stage]
    /\ plan \in [Request -> Plan \cup {NoPlan}]
    /\ lease \in [Request -> Lease \cup {NoLease}]
    /\ attempt \in [Request -> Nat]
    /\ retries \in [Request -> Nat]
    /\ excluded \in [Request -> SUBSET Token]
    /\ asked \in [Request -> Nat]
    /\ limited \in SUBSET (Token \X Mode)
    /\ rested \in [Token -> Nat]
    /\ leaked \in [Token -> 0..MaxLeaks]

(* The directory bootstrapped from a repository without accounts.          *)
Init ==
    /\ slot = [t \in {} |-> NoLease]
    /\ available = [b \in Pool \X Mode |-> {}]
    /\ inflight = [t \in Token |-> 0]
    /\ cooling = [t \in Token |-> 0]
    /\ strategy \in {"quota", "random"}
    /\ now = 0
    /\ pc = [r \in Request |-> "idle"]
    /\ plan = [r \in Request |-> NoPlan]
    /\ lease = [r \in Request |-> NoLease]
    /\ attempt = [r \in Request |-> 0]
    /\ retries = [r \in Request |-> 0]
    /\ excluded = [r \in Request |-> {}]
    /\ asked = [r \in Request |-> 0]
    /\ limited = {}
    /\ rested = [t \in Token |-> 0]
    /\ leaked = [t \in Token |-> 0]

-----------------------------------------------------------------------------
(* The availability index.                                                 *)

(* A slip: the old buckets are looked up under the new pool.               *)
ReindexedUnderNewPool(S, live) ==
    [b \in Pool \X Mode |->
       {t \in available[b] :
          t \notin S \/ (IF t \in DOMAIN live THEN live[t] ELSE slot[t]).pool # b[1]}
         \cup {t \in DOMAIN live : /\ live[t].status = "active"
                                   /\ live[t].pool = b[1]
                                   /\ live[t].window[b[2]] > 0}]

(* _add_to_indexes of every record of live, after taking the tokens of S   *)
(* out of the buckets of their present pools.                              *)
Reindexed(S, live) ==
    [b \in Pool \X Mode |->
       {t \in available[b] : t \notin S \/ slot[t].pool # b[1]}
         \cup {t \in DOMAIN live : /\ live[t].status = "active"
                                   /\ live[t].pool = b[1]
                                   /\ live[t].window[b[2]] > 0}]

(* apply_changes, one page: a live record appends or overwrites a slot, a  *)
(* deleted one marks an existing slot; in-flight counters and cool-downs   *)
(* of existing slots stay, those of a new slot are zero.                   *)
Sync(page) ==
    LET live == [t \in {u \in DOMAIN page : page[u] # Gone} |-> page[t]]
        dead == {t \in DOMAIN slot \cap DOMAIN page : page[t] = Gone}
    IN /\ available' = Reindexed(DOMAIN slot \cap DOMAIN page, live)
       /\ slot' = [t \in DOMAIN slot \cup DOMAIN live |->
                     IF t \in DOMAIN live THEN live[t]
                     ELSE IF t \in dead
                          THEN [slot[t] EXCEPT !.status = "deleted"]
                          ELSE slot[t]]
       /\ limited' = {x \in limited : x[1] \notin DOMAIN page}
       /\ UNCHANGED <<inflight, cooling, strategy, now, requestVars,
                      rested, leaked>>

-----------------------------------------------------------------------------
(* Selection.                                                              *)

PoolUnion(p) == UNION {available[<<p, m>>] : m \in Mode}

(* _maybe_reset_windows renews the quota of t for mode m at time ts.       *)
Renews(t, m, ts) ==
    /\ t \in available[<<Basic, m>>]
    /\ slot[t].pool = Basic
    /\ slot[t].reset[m] # 0 /\ ts >= slot[t].reset[m]
    /\ slot[t].total[m] > 0 /\ slot[t].window[m] > 0

QuotaLeft(t, m, ts) == IF Renews(t, m, ts) THEN slot[t].total[m]
                                           ELSE slot[t].quota[m]

(* A slip: an account at the in-flight limit passes, as if it were one over.*)
WorkingOneOver(r, p, m, ts) ==
    {t \in PoolUnion(p) \ excluded[r] :
       IF strategy = "random"
       THEN cooling[t] <= ts /\ inflight[t] <= MaxInflight
       ELSE plan[r].any \/ (t \in available[<<p, m>>] /\ QuotaLeft(t, m, ts) > 0)}

(* A slip: exclude_tokens is not passed on.                                *)
WorkingUnexcluded(r, p, m, ts) ==
    {t \in PoolUnion(p) :
       IF strategy = "random"
       THEN cooling[t] <= ts /\ inflight[t] < MaxInflight
       ELSE plan[r].any \/ (t \in available[<<p, m>>] /\ QuotaLeft(t, m, ts) > 0)}

(* The working set of select and select_any for pool p and mode m, before  *)
(* the best of it (quota) or a random member of it is chosen.              *)
Working(r, p, m, ts) ==
    {t \in PoolUnion(p) \ excluded[r] :
       IF strategy = "random"
       THEN cooling[t] <= ts /\ inflight[t] < MaxInflight
       ELSE plan[r].any \/ (t \in available[<<p, m>>] /\ QuotaLeft(t, m, ts) > 0)}

(* _try_reserve: for each mode in order, for each pool in order.           *)
Turns(r) == (DOMAIN plan[r].modes) \X (DOMAIN plan[r].pools)
(* A slip: the pools of a mode from the last to the first.                 *)
BeforeFromTheEnd(c, d) == c[1] < d[1] \/ (c[1] = d[1] /\ c[2] > d[2])

Before(c, d) == c[1] < d[1] \/ (c[1] = d[1] /\ c[2] < d[2])
WorkingAt(r, c, ts) == Working(r, plan[r].pools[c[2]], plan[r].modes[c[1]], ts)
Wins(r, c, ts) == /\ WorkingAt(r, c, ts) # {}
                  /\ \A d \in Turns(r) : Before(d, c) => WorkingAt(r, d, ts) = {}
Fruitless(r, ts) == \A c \in Turns(r) : WorkingAt(r, c, ts) = {}

(* The windows renewed on the way, by the turns in C.                      *)
Renewed(r, C, ts) ==
    {x \in (DOMAIN slot) \X Mode :
       /\ strategy = "quota" /\ ~plan[r].any
       /\ Renews(x[1], x[2], ts)
       /\ \E c \in C : /\ plan[r].modes[c[1]] = x[2]
                       /\ plan[r].pools[c[2]] = Basic}

RenewWindows(X, ts) ==
    /\ slot' = [t \in DOMAIN slot |->
         [slot[t] EXCEPT
            !.quota = [m \in Mode |-> IF <<t, m>> \in X
                                      THEN slot[t].total[m]
                                      ELSE slot[t].quota[m]],
            !.reset = [m \in Mode |-> IF <<t, m>> \in X
                                      THEN ts + slot[t].window[m]
                                      ELSE slot[t].reset[m]]]]
    /\ limited' = limited \ X

(* The request gets account t at turn c.                                   *)
Grant(r, ts) ==
    \E c \in Turns(r) : \E t \in WorkingAt(r, c, ts) :
       /\ Wins(r, c, ts)
       /\ RenewWindows(Renewed(r, {d \in Turns(r) : ~Before(c, d)}, ts), ts)
       /\ inflight' = [inflight EXCEPT ![t] = IF @ + 1 < InflightLimit
                                              THEN @ + 1 ELSE InflightLimit]
       /\ lease' = [lease EXCEPT ![r] = [token |-> t,
                                         mode |-> plan[r].modes[c[1]]]]
       /\ pc' = [pc EXCEPT ![r] = IF plan[r].eager THEN "held" ELSE "running"]
       /\ UNCHANGED <<available, cooling, strategy, now, plan, attempt,
                      retries, excluded, asked, rested, leaked>>

(* The request is over and holds nothing.                                  *)
Ends(r) ==
    /\ pc' = [pc EXCEPT ![r] = "idle"]
    /\ plan' = [plan EXCEPT ![r] = NoPlan]
    /\ lease' = [lease EXCEPT ![r] = NoLease]
    /\ attempt' = [attempt EXCEPT ![r] = 0]
    /\ retries' = [retries EXCEPT ![r] = 0]
    /\ excluded' = [excluded EXCEPT ![r] = {}]
    /\ asked' = [asked EXCEPT ![r] = 0]

(* No account anywhere: the request fails with 429.                        *)
Reject(r, ts) ==
    /\ Fruitless(r, ts)
    /\ RenewWindows(Renewed(r, Turns(r), ts), ts)
    /\ Ends(r)
    /\ UNCHANGED <<available, inflight, cooling, strategy, now, rested, leaked>>

-----------------------------------------------------------------------------
(* A request.                                                              *)

(* selection_max_retries is read once, when the handler starts.            *)
Start(r, p) ==
    /\ pc[r] = "idle"
    /\ pc' = [pc EXCEPT ![r] = "asking"]
    /\ plan' = [plan EXCEPT ![r] = p]
    /\ retries' = [retries EXCEPT ![r] =
                     IF ~p.retries THEN 0
                     ELSE IF strategy = "random" THEN RandomMaxRetries
                                                 ELSE QuotaMaxRetries]
    /\ UNCHANGED <<tableVars, strategy, now, lease, attempt, excluded, asked,
                   historyVars>>

(* reserve / reserve_any / the first _try_reserve of reserve_account.      *)
ReserveGrants(r) == pc[r] = "asking" /\ Grant(r, now)

ReserveRejects(r) ==
    /\ pc[r] = "asking"
    /\ strategy = "random" \/ ~plan[r].refreshes
    /\ Reject(r, now)

(* reserve_account found nothing: it awaits refresh_on_demand, which works *)
(* on the repository only; the time of the request stays the one it read.  *)
NeedsRefresh(r) ==
    /\ pc[r] = "asking"
    /\ strategy = "quota" /\ plan[r].refreshes
    /\ Fruitless(r, now)
    /\ RenewWindows(Renewed(r, Turns(r), now), now)
    /\ pc' = [pc EXCEPT ![r] = "refreshing"]
    /\ asked' = [asked EXCEPT ![r] = now]
    /\ UNCHANGED <<available, inflight, cooling, strategy, now, plan, lease,
                   attempt, retries, excluded, rested, leaked>>

(* The second _try_reserve.                                                *)
RefreshedGrants(r)  == pc[r] = "refreshing" /\ Grant(r, asked[r])
RefreshedRejects(r) == pc[r] = "refreshing" /\ Reject(r, asked[r])

(* refresh_on_demand raises, or the request is cancelled during it.        *)
RefreshAborts(r) ==
    /\ pc[r] = "refreshing"
    /\ Ends(r)
    /\ UNCHANGED <<tableVars, strategy, now, historyVars>>

(* An eager request's generator is iterated for the first time ...         *)
StreamStarts(r) ==
    /\ pc[r] = "held"
    /\ pc' = [pc EXCEPT ![r] = "running"]
    /\ UNCHANGED <<tableVars, strategy, now, plan, lease, attempt, retries,
                   excluded, asked, historyVars>>

(* A slip: released by the handler and by its finally block.               *)
ReleaseTwice(t) ==
    inflight' = [inflight EXCEPT ![t] = IF @ > 0 THEN @ - 2 ELSE 0]

Release(t) ==
    inflight' = [inflight EXCEPT ![t] = IF @ > 0 THEN @ - 1 ELSE 0]

(* ... or its preparation fails and the lease is returned ...              *)
PreparationFails(r) ==
    /\ pc[r] = "held" /\ ~plan[r].any
    /\ Release(lease[r].token)
    /\ Ends(r)
    /\ UNCHANGED <<slot, available, cooling, strategy, now, historyVars>>

(* ... or the client is gone before the first iteration: the finally block *)
(* of a generator that never started does not run.                         *)
StreamNeverStarts(r) ==
    /\ pc[r] = "held"
    /\ leaked[lease[r].token] < MaxLeaks
    /\ leaked' = [leaked EXCEPT ![lease[r].token] = @ + 1]
    /\ Ends(r)
    /\ UNCHANGED <<tableVars, strategy, now, limited, rested>>

(* feedback for the outcome of the call on account t in mode m.            *)
SuccessFeedback(t, m) ==
    /\ slot' = IF strategy = "random" THEN slot
               ELSE [slot EXCEPT ![t].quota[m] = IF @ > 0 THEN @ - 1 ELSE 0]
    /\ UNCHANGED <<available, cooling, limited, rested>>

(* A slip: a 429 starts the cool-down only.                                *)
RateLimitedCoolsOnly(t, m) ==
    LET end == now + CoolingSec[slot[t].pool]
    IN /\ cooling' = [cooling EXCEPT ![t] =
                       IF end > @ /\ (strategy = "random" \/ end > now)
                       THEN end ELSE @]
       /\ limited' = IF strategy = "random" THEN limited
                     ELSE limited \cup {<<t, m>>}
       /\ rested' = [rested EXCEPT ![t] = end]
       /\ UNCHANGED <<slot, available>>

RateLimitedFeedback(t, m) ==
    LET end == now + CoolingSec[slot[t].pool]
    IN /\ slot' = IF strategy = "random" THEN slot
                  ELSE [slot EXCEPT ![t].quota[m] = 0]
       /\ cooling' = [cooling EXCEPT ![t] =
                       IF end > @ /\ (strategy = "random" \/ end > now)
                       THEN end ELSE @]
       /\ limited' = IF strategy = "random" THEN limited
                     ELSE limited \cup {<<t, m>>}
       /\ rested' = [rested EXCEPT ![t] = end]
       /\ UNCHANGED available

UnauthorizedFeedback(t) ==
    /\ slot' = [slot EXCEPT ![t].status = "expired"]
    /\ available' = Reindexed({t}, [u \in {} |-> slot[t]])
    /\ UNCHANGED <<cooling, limited, rested>>

HealthFeedback == UNCHANGED <<slot, available, cooling, limited, rested>>

(* A 401 is reported for every request; the WebSocket image requests leave *)
(* quota and cool-down to the upstream.                                    *)
Feedback(r, outcome) ==
    LET t == lease[r].token
        m == lease[r].mode
    IN CASE outcome = "unauthorized" -> UnauthorizedFeedback(t)
         [] outcome = "success" /\ ~plan[r].any -> SuccessFeedback(t, m)
         [] outcome = "rate_limited" /\ ~plan[r].any -> RateLimitedFeedback(t, m)
         [] OTHER -> HealthFeedback

Outcome == {"success", "rate_limited", "unauthorized", "failed"}

(* The finally block of the last attempt: release, feedback, and the       *)
(* request is answered or fails.                                           *)
Finish(r, outcome) ==
    /\ pc[r] = "running"
    /\ Release(lease[r].token)
    /\ Feedback(r, outcome)
    /\ Ends(r)
    /\ UNCHANGED <<strategy, now, leaked>>

(* A slip: the lease of an attempt that is retried is not returned.        *)
TryNextKeeping(r, outcome) ==
    /\ pc[r] = "running"
    /\ outcome # "success" /\ attempt[r] < retries[r]
    /\ Feedback(r, outcome)
    /\ pc' = [pc EXCEPT ![r] = "asking"]
    /\ attempt' = [attempt EXCEPT ![r] = @ + 1]
    /\ excluded' = [excluded EXCEPT ![r] = @ \cup {lease[r].token}]
    /\ lease' = [lease EXCEPT ![r] = NoLease]
    /\ UNCHANGED <<inflight, strategy, now, plan, retries, asked, leaked>>

(* A slip: the attempt is neither counted nor its account excluded.        *)
TryNextUncounted(r, outcome) ==
    /\ pc[r] = "running"
    /\ outcome # "success" /\ attempt[r] < retries[r]
    /\ Release(lease[r].token)
    /\ Feedback(r, outcome)
    /\ pc' = [pc EXCEPT ![r] = "asking"]
    /\ lease' = [lease EXCEPT ![r] = NoLease]
    /\ UNCHANGED <<strategy, now, plan, attempt, excluded, retries, asked, leaked>>

(* The same, of an attempt whose error is worth another account.           *)
TryNext(r, outcome) ==
    /\ pc[r] = "running"
    /\ outcome # "success" /\ attempt[r] < retries[r]
    /\ Release(lease[r].token)
    /\ Feedback(r, outcome)
    /\ pc' = [pc EXCEPT ![r] = "asking"]
    /\ attempt' = [attempt EXCEPT ![r] = @ + 1]
    /\ excluded' = [excluded EXCEPT ![r] = @ \cup {lease[r].token}]
    /\ lease' = [lease EXCEPT ![r] = NoLease]
    /\ UNCHANGED <<strategy, now, plan, retries, asked, leaked>>

-----------------------------------------------------------------------------
(* reconcile_refresh_runtime after a hot configuration change.             *)
SwitchStrategy ==
    /\ strategy' = IF strategy = "quota" THEN "random" ELSE "quota"
    /\ UNCHANGED <<tableVars, now, requestVars, historyVars>>

Tick ==
    /\ now < MaxNow
    /\ now' = now + 1
    /\ UNCHANGED <<tableVars, strategy, requestVars, historyVars>>

Pages == UNION {[S -> Record \cup {Gone}] : S \in SUBSET Token \ {{}}}

(* What brings a request forward ...                                       *)
Advances(r) ==
    \/ ReserveGrants(r) \/ ReserveRejects(r) \/ NeedsRefresh(r)
    \/ RefreshedGrants(r) \/ RefreshedRejects(r)
    \/ StreamStarts(r)
    \/ \E outcome \in Outcome : Finish(r, outcome) \/ TryNext(r, outcome)

(* ... and what may go wrong with it.                                      *)
Fails(r) == RefreshAborts(r) \/ PreparationFails(r) \/ StreamNeverStarts(r)

Next ==
    \/ \E page \in Pages : Sync(page)
    \/ \E r \in Request : Advances(r) \/ Fails(r) \/ \E p \in Plan : Start(r, p)
    \/ SwitchStrategy
    \/ Tick

Spec == Init /\ [][Next]_vars

(* The event loop runs what is ready, the upstream answers or times out,   *)
(* refresh_on_demand returns, the server iterates the stream.              *)
RequestFairness == \A r \in Request : WF_vars(Advances(r))

FairSpec == Spec /\ RequestFairness

-----------------------------------------------------------------------------
(* Properties.                                                             *)

Holders(t) == {r \in Request : /\ pc[r] \in {"held", "running"}
                               /\ lease[r].token = t}

(* The index the selectors read agrees with the columns the syncs and the  *)
(* feedback write (table.py: "(pool_id, mode_id) -> set of idx with a      *)
(* supported quota window and status == ACTIVE").                          *)
IndexExact ==
    \A b \in Pool \X Mode :
       available[b] = {t \in DOMAIN slot : /\ slot[t].status = "active"
                                           /\ slot[t].pool = b[1]
                                           /\ slot[t].window[b[2]] > 0}

(* The in-flight counter of an account is the number of requests that hold *)
(* a lease of it, plus the leases lost with streams that never started:    *)
(* release runs exactly once on every other way out, whatever syncs did to *)
(* the slot in between, and never underflows.                              *)
InflightExact ==
    \A t \in Token : inflight[t] = Cardinality(Holders(t)) + leaked[t]

(* A request never tries an account twice: each attempt of the retry loop  *)
(* (excluded, exclude_tokens) works with an account not tried before, and  *)
(* there are at most retries + 1 of them.                                  *)
AttemptsDistinct ==
    \A r \in Request :
       /\ lease[r] # NoLease => lease[r].token \notin excluded[r]
       /\ Cardinality(excluded[r]) = attempt[r]
       /\ attempt[r] <= retries[r]

Granted(r) == lease[r] = NoLease /\ lease'[r] # NoLease

(* An account whose quota for a mode a 429 has exhausted is not leased for *)
(* that mode again, by any request, before a sync brings new data for it   *)
(* or its window is over: a late success or another attempt's feedback     *)
(* cannot bring it back (apply_rate_limited_quota, _maybe_reset_windows).  *)
ExhaustedNotLeased ==
    [][\A r \in Request :
         Granted(r) /\ strategy = "quota" /\ ~plan[r].any
           => <<lease'[r].token, lease'[r].mode>> \notin limited']_vars

(* The random strategy does not lease an account before the cool-down of   *)
(* its last 429 is over, though syncs rewrite or revive the slot and the   *)
(* strategy changes meanwhile; and it never has more than max_inflight     *)
(* leases of one account (_random_select, apply_rate_limited_random).      *)
RandomSpares ==
    [][\A r \in Request :
         Granted(r) /\ strategy = "random"
           => LET t == lease'[r].token
              IN /\ now >= rested[t]
                 /\ Cardinality(Holders(t)) < MaxInflight]_vars

(* Pools are tried in the model's order of preference: an account of a     *)
(* pool is leased only if no active account of an earlier pool has quota   *)
(* left for the same mode, what the pool's turn renews included ("the      *)
(* first pool with an available account wins", AccountDirectory.reserve).  *)
EarlierPoolsFirst ==
    [][\A r \in Request :
         Granted(r) /\ strategy = "quota" /\ ~plan[r].any
           => \A i, j \in DOMAIN plan[r].pools, t \in DOMAIN slot :
                 /\ i < j
                 /\ slot[lease'[r].token].pool = plan[r].pools[j]
                 /\ slot[t].pool = plan[r].pools[i]
                 /\ slot[t].status = "active"
                 /\ slot[t].window[lease'[r].mode] > 0
                 /\ t \notin excluded[r]
                 => slot'[t].quota[lease'[r].mode] <= 0]_vars

(* Every request that was started is answered or fails in the end: the     *)
(* retry loop stops and nobody waits for an account for ever.              *)
EveryRequestEnds == \A r \in Request : pc[r] = "asking" ~> pc[r] = "idle"

(* "Represents a reserved account slot for a single upstream request"      *)
(* (lease.py): the counter counts requests that exist.                     *)
InflightIsRunning ==
    \A t \in Token : inflight[t] = Cardinality(Holders(t))
=============================================================================
