--------------------------- MODULE AccountRefresh ---------------------------
(***************************************************************************)
(* AccountRefreshService of one worker and the writers it races with.      *)
(*                                                                         *)
(* Every refresh reads an account, awaits upstream, computes a patch from  *)
(* what it had read and hands the patch to the repository, which applies   *)
(* it to the row as it is by then: windows, pool and status are set,       *)
(* counters are added to.  Between the steps the administrator, the        *)
(* requests' own updates and the other refreshes go on.                    *)
(*                                                                         *)
(* The repository is one of three backends.  SQLite and the SQL servers    *)
(* apply a patch in one transaction; Redis reads the row and writes to it  *)
(* in two commands.  SQLite alone keeps windows and counters when a token  *)
(* is upserted; Redis has no place for the grok_4_3 window.                *)
(*                                                                         *)
(* A piece of work is one account of a batch (scheduled, import, manual or *)
(* on demand), or the update after a successful or a failed call.          *)
(***************************************************************************)
EXTENDS QuotaPolicy

CONSTANTS Token,     \* accounts
          Caller,    \* scheduler loops, handlers: who runs a batch
          Nobody,    \* work no batch waits for; the free lock
          NoAccount, \* the repository has no row
          NoPatch,   \* work still waiting for upstream
          Same,      \* a patch that leaves pool or status alone
          Tier,      \* pools that upstream may have an account in
          Named,     \* pools that the administrator may name
          Left,      \* numbers of queries left that upstream may report
          Backends,  \* backends that may be configured
          Unread,    \* work whose row the patch has not read
          Interval,  \* on_demand_min_interval_sec
          MaxTime, MaxWork, MaxAdmin, MaxFaults  \* bounds

ASSUME RefreshBoundsAssumption ==
    {Interval, MaxTime, MaxWork, MaxAdmin, MaxFaults} \subseteq Nat
Status == {"active", "disabled", "expired"}
Counts == [use : Nat, fail : Nat, sync : Nat]
NoCounts == [use |-> 0, fail |-> 0, sync |-> 0]

Account == [pool : Pool, status : Status, deleted : BOOLEAN, quota : Quota,
            counts : Counts]

Patch == [quota : [Mode -> Window \cup {Same}],
          pool : Pool \cup {Same}, status : {"expired", Same},
          counts : Counts]

ASSUME InputsAssumption == /\ Tier \subseteq Pool /\ Named \subseteq Pool
                           /\ Left \subseteq Nat
ASSUME BackendsAssumption == Backends \subseteq {"local", "sql", "redis"}
ASSUME RefreshMarkersAssumption == /\ Nobody \notin Caller
                                   /\ NoAccount \notin Account
                                   /\ NoPatch \notin Patch
                                   /\ Unread \notin Counts
                                   /\ Same \notin Pool \cup Status \cup Window

VARIABLES
    now,      \* the clock
    tier,     \* upstream's own idea of each account's pool
    backend,  \* of the repository
    acct,     \* the accounts table
    job,      \* per caller: the batch it runs
    work,     \* pieces of work in progress, by serial number
    started,  \* how many have been started
    odLock,   \* holder of _od_lock
    odLast,   \* _od_last
    orders, faults,  \* bounded counters
    issued,   \* history: windows reported by upstream or renewed by the clock
    tally     \* history: committed uses, failures and syncs per account

refreshVars == <<now, tier, backend, acct, job, work, started, odLock,
                 odLast, orders, faults, issued, tally>>

Batch == {"scheduled", "tokens", "ondemand"}
Work == [by : Caller \cup {Nobody}, kind : Batch \cup {"call", "fail"},
         token : Token, modes : SUBSET Mode, seen : Account,
         patch : Patch \cup {NoPatch}, base : Counts \cup {Unread}]

RefreshTypeOK ==
    /\ now \in Nat
    /\ tier \in [Token -> Pool] /\ backend \in Backends
    /\ acct \in [Token -> Account \cup {NoAccount}]
    /\ job \in [Caller -> Batch \cup {"idle"}]
    /\ DOMAIN work \subseteq (1 .. started) \X Token
    /\ \A i \in DOMAIN work : work[i] \in Work
    /\ started \in Nat /\ orders \in Nat /\ faults \in Nat
    /\ odLock \in Caller \cup {Nobody}
    /\ odLast \in Time
    /\ tally \in [Token -> Counts]

(* _to_hash and the Redis patch_accounts leave grok_4_3 out.               *)
Stored(m, w) == IF backend = "redis" /\ m = "grok_4_3" THEN NoWindow ELSE w

Fresh(pool) == [pool |-> pool, status |-> "active", deleted |-> FALSE,
                quota |-> [m \in Mode |-> Stored(m, DefaultQuota(pool)[m])],
                counts |-> NoCounts]

(* Accounts are there from earlier, or still to be added.                  *)
RefreshInit ==
    /\ now = 0
    /\ tier \in [Token -> Tier]
    /\ backend \in Backends
    /\ acct \in [Token -> {NoAccount} \cup {Fresh(p) : p \in Named}]
    /\ job = [c \in Caller |-> "idle"]
    /\ work = [i \in {} |-> NoPatch]
    /\ started = 0 /\ orders = 0 /\ faults = 0
    /\ odLock = Nobody
    /\ odLast = Never
    /\ issued = {}
    /\ tally = [t \in Token |-> NoCounts]

world == <<now, tier, backend>>
history == <<issued, tally>>

-----------------------------------------------------------------------------
(* Starting work.                                                          *)

Known(t) == acct[t] # NoAccount
Manageable(t) == Known(t) /\ ~acct[t].deleted /\ acct[t].status = "active"

(* A piece of work is named by the number of its start and its account.    *)
Begin(S, by, kind, Modes(_)) ==
    /\ started < MaxWork
    /\ started' = started + 1
    /\ work' = [i \in DOMAIN work \cup {<<started + 1, t>> : t \in S} |->
                  IF i[1] # started + 1 THEN work[i]
                  ELSE [by |-> by, kind |-> kind, token |-> i[2],
                        modes |-> Modes(i[2]), seen |-> acct[i[2]],
                        patch |-> NoPatch, base |-> Unread]]

AllSupported(t) == Supported(acct[t].pool)

(* refresh_scheduled of the accounts of one pool, refresh_on_import (which *)
(* treats those named in the same way) and the manual refresh_tokens: the  *)
(* records are read once, when the batch starts.                           *)
StartBatch(c, kind, S) ==
    /\ job[c] = "idle"
    /\ kind # "ondemand"
    /\ job' = [job EXCEPT ![c] = kind]
    /\ Begin({t \in S : Manageable(t)}, c, kind, AllSupported)
    /\ UNCHANGED <<world, acct, odLock, odLast, orders, faults, history>>

Throttled == odLast # Never /\ now - odLast < Interval

(* A slip: nothing but the interval keeps callers apart.                   *)
OnDemandUnlocked(c) ==
    /\ job[c] = "idle"
    /\ ~Throttled
    /\ job' = [job EXCEPT ![c] = "ondemand"]
    /\ odLock' = c
    /\ Begin({t \in Token : Manageable(t)}, c, "ondemand", AllSupported)
    /\ UNCHANGED <<world, acct, odLast, orders, faults, history>>

(* refresh_on_demand: callers inside the interval, and callers that find   *)
(* the lock taken, return at once; the free lock is taken without an await.*)
OnDemand(c) ==
    /\ job[c] = "idle"
    /\ ~Throttled
    /\ odLock = Nobody
    /\ job' = [job EXCEPT ![c] = "ondemand"]
    /\ odLock' = c
    /\ Begin({t \in Token : Manageable(t)}, c, "ondemand", AllSupported)
    /\ UNCHANGED <<world, acct, odLast, orders, faults, history>>

(* refresh_call_async: one mode, after a call that succeeded.              *)
StartCall(t, m) ==
    /\ Known(t) /\ ~acct[t].deleted
    /\ Begin({t}, Nobody, "call", LAMBDA u : {m})
    /\ UNCHANGED <<world, acct, job, odLock, odLast, orders, faults, history>>

Counting(use, fail, sync) == [use |-> use, fail |-> fail, sync |-> sync]

NothingSet == [m \in Mode |-> Same]
SetOnly(m, w) == [NothingSet EXCEPT ![m] = w]

ExpirePatch == [quota |-> NothingSet, pool |-> Same, status |-> "expired",
                counts |-> NoCounts]

(* record_failure_async: the row is read and the patch computed from it    *)
(* before the next await.  A 429 drains the window of the mode.            *)
FailurePatch(t, m, outcome) ==
    IF outcome = "invalid" THEN ExpirePatch
    ELSE [quota |-> IF outcome = "limited" /\ acct[t].quota[m] # NoWindow
                    THEN SetOnly(m, Drained(acct[t].quota[m], now))
                    ELSE NothingSet,
          pool |-> Same, status |-> Same, counts |-> Counting(0, 1, 0)]

StartFailure(t, m, outcome) ==
    /\ Known(t)
    /\ started < MaxWork
    /\ started' = started + 1
    /\ work' = [i \in DOMAIN work \cup {<<started + 1, t>>} |->
                  IF i[1] # started + 1 THEN work[i]
                  ELSE [by |-> Nobody, kind |-> "fail", token |-> t,
                        modes |-> {m}, seen |-> acct[t],
                        patch |-> FailurePatch(t, m, outcome),
                        base |-> Unread]]
    /\ UNCHANGED <<world, acct, job, odLock, odLast, orders, faults, history>>

-----------------------------------------------------------------------------
(* Upstream answers.                                                       *)

Asking(i) == i \in DOMAIN work /\ work[i].patch = NoPatch
Without(i) == [j \in DOMAIN work \ {i} |-> work[j]]

(* A slip: an estimate is stamped as if upstream had just confirmed it.    *)
CallPatchStamped(w, windows) ==
    LET m == CHOOSE x \in w.modes : TRUE
        told == m \in DOMAIN windows
    IN [quota |-> IF told THEN SetOnly(m, Normalize(w.seen.pool, m,
                                                    windows[m]))
                  ELSE IF w.seen.quota[m] = NoWindow THEN NothingSet
                  ELSE SetOnly(m, [OneLess(w.seen.quota[m])
                                     EXCEPT !.synced = now]),
        pool |-> Same, status |-> Same,
        counts |-> Counting(1, 0, IF told THEN 1 ELSE 0)]

(* _apply_single_mode                                                      *)
CallPatch(w, windows) ==
    LET m == CHOOSE x \in w.modes : TRUE
        told == m \in DOMAIN windows
    IN [quota |-> IF told THEN SetOnly(m, Normalize(w.seen.pool, m,
                                                    windows[m]))
                  ELSE IF w.seen.quota[m] = NoWindow THEN NothingSet
                  ELSE SetOnly(m, OneLess(w.seen.quota[m])),
        pool |-> Same, status |-> Same,
        counts |-> Counting(1, 0, IF told THEN 1 ELSE 0)]

(* _refresh_one and _apply_fallback: what upstream told is normalised; for *)
(* the other modes all batches but the manual one fall back on estimates;  *)
(* the pool follows what was told, if anything was.                        *)
BatchPatch(w, windows) ==
    LET told == DOMAIN windows
    IN [quota |-> [m \in Mode |->
                     IF m \in told THEN Normalize(w.seen.pool, m, windows[m])
                     ELSE IF w.kind # "tokens"
                             /\ NeedsFallback(w.seen.pool, w.seen.quota, m, now)
                     THEN Fallback(w.seen.pool, w.seen.quota, m, now)
                     ELSE Same],
        pool |-> IF told = {} \/ InferPool(windows) = w.seen.pool THEN Same
                 ELSE InferPool(windows),
        status |-> Same,
        counts |-> Counting(0, 0, IF told = {} THEN 0 ELSE 1)]

(* Upstream reports windows for some of the modes asked; each mode whose   *)
(* request failed or timed out is missing.  An account it does not support *)
(* a mode for is not asked about it.                                       *)
Answer(i) ==
    /\ Asking(i)
    /\ LET w == work[i]
           asked == w.modes \cap Supported(w.seen.pool)
       IN \E told \in SUBSET asked : \E left \in [told -> Left] :
            LET total(m) == Limit[tier[w.token]][m]
                windows == [m \in told |-> Reported(left[m], total(m), now)]
                patch == IF w.kind = "call" THEN CallPatch(w, windows)
                                            ELSE BatchPatch(w, windows)
            IN /\ \A m \in told : left[m] <= total(m)
               /\ work' = IF patch.quota = NothingSet /\ w.kind # "call"
                          THEN Without(i)
                          ELSE [work EXCEPT ![i].patch = patch]
               /\ issued' = issued \cup
                    {<<w.token, m, patch.quota[m]>> : m \in
                       {x \in Mode : /\ patch.quota[x] # Same
                                     /\ patch.quota[x].source # "estimated"}}
    /\ UNCHANGED <<world, acct, job, started, odLock, odLast, orders, faults,
                   tally>>

(* Upstream rejects the account's credentials.                             *)
Reject(i) ==
    /\ Asking(i)
    /\ work' = [work EXCEPT ![i].patch = ExpirePatch]
    /\ UNCHANGED <<world, acct, job, started, odLock, odLast, orders, faults,
                   history>>

-----------------------------------------------------------------------------
(* The repository.                                                         *)

Plus(a, b) == [c \in DOMAIN a |-> a[c] + b[c]]

(* A slip: the record that was read is written back as a whole.            *)
PatchedFromSeen(row, w) ==
    [w.seen EXCEPT !.pool = IF w.patch.pool = Same THEN @ ELSE w.patch.pool,
                   !.status = IF w.patch.status = Same THEN @
                              ELSE w.patch.status,
                   !.quota = [m \in Mode |-> IF w.patch.quota[m] = Same
                                             THEN @[m] ELSE w.patch.quota[m]],
                   !.counts = Plus(@, w.patch.counts)]

(* A slip: counters are computed from the record that was read.            *)
PatchedCounts(row, w) ==
    [row EXCEPT !.pool = IF w.patch.pool = Same THEN @ ELSE w.patch.pool,
                !.status = IF w.patch.status = Same THEN @
                           ELSE w.patch.status,
                !.quota = [m \in Mode |-> IF w.patch.quota[m] = Same
                                          THEN @[m] ELSE w.patch.quota[m]],
                !.counts = Plus(w.seen.counts, w.patch.counts)]

(* What a patch adds to the counters of the row as it is now, or of the    *)
(* row as Redis has read it; a counter it adds nothing to is not written.  *)
Counted(counts, w) ==
    IF w.base = Unread THEN Plus(counts, w.patch.counts)
    ELSE [c \in DOMAIN counts |-> IF w.patch.counts[c] = 0 THEN counts[c]
                                  ELSE w.base[c] + w.patch.counts[c]]

(* patch_accounts: what the patch sets is set and the counters are added   *)
(* to; a deleted row is patched and stays deleted.                         *)
Patched(row, w) ==
    [row EXCEPT !.pool = IF w.patch.pool = Same THEN @ ELSE w.patch.pool,
                !.status = IF w.patch.status = Same THEN @
                           ELSE w.patch.status,
                !.quota = [m \in Mode |->
                             IF w.patch.quota[m] = Same THEN @[m]
                             ELSE Stored(m, w.patch.quota[m])],
                !.counts = Counted(@, w)]

Writing(i) == i \in DOMAIN work /\ work[i].patch # NoPatch

(* The Redis patch_accounts reads the row (HGETALL) ...                    *)
ReadRow(i) ==
    /\ backend = "redis"
    /\ Writing(i) /\ work[i].base = Unread
    /\ work' = [work EXCEPT ![i].base = acct[work[i].token].counts]
    /\ UNCHANGED <<world, acct, job, started, odLock, odLast, orders, faults,
                   history>>

(* ... and writes to it in a later command (HSET).                         *)
Commit(i) ==
    /\ Writing(i)
    /\ backend = "redis" => work[i].base # Unread
    /\ acct' = [acct EXCEPT ![work[i].token] = Patched(@, work[i])]
    /\ tally' = [tally EXCEPT ![work[i].token] =
                   Plus(@, work[i].patch.counts)]
    /\ work' = Without(i)
    /\ UNCHANGED <<world, job, started, odLock, odLast, orders, faults,
                   issued>>

(* Nobody waits any longer for the work of caller c.                       *)
Abandon(c, W) ==
    [i \in DOMAIN W |-> IF W[i].by = c THEN [W[i] EXCEPT !.by = Nobody]
                                       ELSE W[i]]

Release(c) == odLock' = IF odLock = c THEN Nobody ELSE odLock

(* The repository fails.  run_batch passes the first error on at once: the *)
(* caller goes on, the rest of the batch too, each for itself.             *)
WriteFails(i) ==
    /\ Writing(i)
    /\ faults < MaxFaults
    /\ faults' = faults + 1
    /\ LET c == work[i].by
       IN IF c = Nobody THEN work' = Without(i) /\ UNCHANGED <<job, odLock>>
          ELSE /\ work' = Abandon(c, Without(i))
               /\ job' = [job EXCEPT ![c] = "idle"]
               /\ Release(c)
    /\ UNCHANGED <<world, acct, started, odLast, orders, history>>

(* The work of c that ends with it: it waits for upstream, or Redis has    *)
(* not been told to write.                                                 *)
Unsent(c) ==
    {i \in DOMAIN work : /\ work[i].by = c
                         /\ \/ Asking(i)
                            \/ backend = "redis" /\ work[i].base = Unread}

(* The scheduler is stopped, or the client of the request is gone: what    *)
(* has not been sent to the repository is cancelled, what has been sent    *)
(* may still be carried out.                                               *)
Cancel(c) ==
    /\ job[c] # "idle"
    /\ faults < MaxFaults
    /\ faults' = faults + 1
    /\ \E lost \in SUBSET {i \in DOMAIN work : work[i].by = c} :
          /\ Unsent(c) \subseteq lost
          /\ work' = Abandon(c, [i \in DOMAIN work \ lost |-> work[i]])
    /\ job' = [job EXCEPT ![c] = "idle"]
    /\ Release(c)
    /\ UNCHANGED <<world, acct, started, odLast, orders, history>>

(* A slip: only a batch that had something to do gives the lock back.      *)
EndBatchBusy(c) ==
    /\ job[c] # "idle"
    /\ \A i \in DOMAIN work : work[i].by # c
    /\ \E t \in Token : Manageable(t)
    /\ job' = [job EXCEPT ![c] = "idle"]
    /\ Release(c)
    /\ odLast' = IF job[c] = "ondemand" THEN now ELSE odLast
    /\ UNCHANGED <<world, acct, work, started, orders, faults, history>>

(* All of a batch is done.  Only such a batch starts the throttle.         *)
EndBatch(c) ==
    /\ job[c] # "idle"
    /\ \A i \in DOMAIN work : work[i].by # c
    /\ job' = [job EXCEPT ![c] = "idle"]
    /\ Release(c)
    /\ odLast' = IF job[c] = "ondemand" THEN now ELSE odLast
    /\ UNCHANGED <<world, acct, work, started, orders, faults, history>>

-----------------------------------------------------------------------------
(* The administrator.                                                      *)

Order == orders < MaxAdmin /\ orders' = orders + 1

(* add_tokens, import, save, edit: upsert_accounts inserts, or makes the   *)
(* row live and active in the pool named.  SQLite then keeps its windows   *)
(* and counters; the others write all of it anew.  "auto" is stored as     *)
(* basic.                                                                  *)
Upsert(t, pool) ==
    /\ Order
    /\ IF backend = "local" /\ Known(t)
       THEN /\ acct' = [acct EXCEPT ![t].pool = pool, ![t].status = "active",
                                    ![t].deleted = FALSE]
            /\ UNCHANGED tally
       ELSE /\ acct' = [acct EXCEPT ![t] = Fresh(pool)]
            /\ tally' = [tally EXCEPT ![t] = NoCounts]
    /\ UNCHANGED <<world, job, work, started, odLock, odLast, faults, issued>>

Disable(t) ==
    /\ Order
    /\ Known(t)
    /\ acct' = [acct EXCEPT ![t].status = "disabled"]
    /\ UNCHANGED <<world, job, work, started, odLock, odLast, faults,
                   history>>

(* clear_failures: active again, the failure count starts at 0.            *)
Restore(t) ==
    /\ Order
    /\ Known(t)
    /\ acct' = [acct EXCEPT ![t].status = "active", ![t].counts.fail = 0]
    /\ tally' = [tally EXCEPT ![t].fail = 0]
    /\ UNCHANGED <<world, job, work, started, odLock, odLast, faults, issued>>

Delete(t) ==
    /\ Order
    /\ Known(t) /\ ~acct[t].deleted
    /\ acct' = [acct EXCEPT ![t].deleted = TRUE]
    /\ UNCHANGED <<world, job, work, started, odLock, odLast, faults,
                   history>>

Tick == /\ now < MaxTime
        /\ now' = now + 1
        /\ UNCHANGED <<tier, backend, acct, job, work, started, odLock,
                       odLast, orders, faults, history>>

-----------------------------------------------------------------------------
CallerStep(c) ==
    \/ \E kind \in {"scheduled", "tokens"}, S \in SUBSET Token \ {{}} :
          StartBatch(c, kind, S)
    \/ OnDemand(c) \/ EndBatch(c) \/ Cancel(c)

RequestStep(t) ==
    \E m \in Mode : \/ StartCall(t, m)
                    \/ \E o \in {"invalid", "limited", "other"} :
                          StartFailure(t, m, o)

WorkStep(i) ==
    Answer(i) \/ Reject(i) \/ ReadRow(i) \/ Commit(i) \/ WriteFails(i)

AdminStep(t) ==
    (\E p \in Named : Upsert(t, p)) \/ Disable(t) \/ Restore(t) \/ Delete(t)

RefreshNext ==
    \/ \E c \in Caller : CallerStep(c)
    \/ \E t \in Token : RequestStep(t) \/ AdminStep(t)
    \/ \E i \in DOMAIN work : WorkStep(i)
    \/ Tick

RefreshSpec == RefreshInit /\ [][RefreshNext]_refreshVars

(* Upstream requests time out after 25 s, writes and coroutines proceed.   *)
Serial == (1 .. MaxWork) \X Token

RefreshFairness ==
    /\ \A i \in Serial : WF_refreshVars(Answer(i) \/ ReadRow(i) \/ Commit(i))
    /\ \A c \in Caller : WF_refreshVars(EndBatch(c))

-----------------------------------------------------------------------------
(* Properties.                                                             *)

(* What the directory selects by is never better than what is known: a     *)
(* window called real is one that upstream has reported, and an estimate   *)
(* has no more queries left than the window its sync time names, however   *)
(* refreshes, calls and failures that have read different versions of the  *)
(* row overwrite each other (_refresh_one, _apply_single_mode,             *)
(* record_failure_async).                                                  *)
EstimateBelowIssued ==
    \A t \in {u \in Token : Known(u)} : \A m \in Mode :
       LET w == acct[t].quota[m]
           origins == issued \cup {<<t, m, DefaultQuota(p)[m]>> : p \in Pool}
       IN w # NoWindow =>
            /\ w.source = "real" => <<t, m, w>> \in issued
            /\ w.source = "estimated" =>
                 \E o \in origins : /\ o[1] = t /\ o[2] = m
                                    /\ o[3] # NoWindow
                                    /\ o[3].synced = w.synced
                                    /\ o[3].total = w.total
                                    /\ w.left <= o[3].left

(* Only the administrator makes an account usable again: no refresh or     *)
(* update that was in flight when the account was deleted, disabled or     *)
(* found expired brings it back (patch_accounts).                          *)
RefreshNeverRevives ==
    [][\A t \in Token :
         Known(t) /\ ~Manageable(t) /\ Manageable(t)'
           => orders' # orders]_refreshVars

(* "Usage counters -- delta values (added to existing counts)"             *)
(* (commands.py:40): the counters of an account are the sum of what has    *)
(* been committed since they were last set to 0.                           *)
DeltasAdded ==
    \A t \in Token : Known(t) => acct[t].counts = tally[t]

(* With SQLite and the SQL servers no use, failure or sync is lost between *)
(* writers that have read the same record (AccountPatch).  Nothing is said *)
(* of Redis, where two patches may read the same row before either writes. *)
CountsExact == backend # "redis" => DeltasAdded

(* Requests that find no account refresh on demand one at a time           *)
(* (_od_lock), also when a batch fails or its client disappears.           *)
OneOnDemand ==
    \A c, d \in Caller : job[c] = "ondemand" /\ job[d] = "ondemand" => c = d

(* Every batch ends, and with it the on-demand lock is given back, whether *)
(* upstream answers, the repository fails or nothing was to be done.       *)
EveryBatchEnds ==
    \A c \in Caller : job[c] # "idle" ~> job[c] = "idle"

Complete(w) == /\ w.kind \in Batch
               /\ \A m \in Supported(w.seen.pool) :
                     w.patch.quota[m] # Same /\ w.patch.quota[m].source = "real"

(* "auto" is a UI alias meaning "let quota sync decide"; save as basic for *)
(* now -- refresh will correct to the real type (_normalize_pool): after a *)
(* refresh that upstream answered in full, the pool is the account's own.  *)
RefreshCorrectsPool ==
    [][\A i \in DOMAIN work \ DOMAIN work' :
         Writing(i) /\ Complete(work[i]) /\ faults' = faults
           => acct'[work[i].token].pool = tier[work[i].token]]_refreshVars
=============================================================================
