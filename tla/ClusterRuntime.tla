--------------------------- MODULE ClusterRuntime ---------------------------
(***************************************************************************)
(* The worker processes of one deployment, seen from their lifespan: the   *)
(* configuration snapshot each keeps, the file lock that elects the worker *)
(* that runs the refresh schedulers, and the selection strategy and the    *)
(* scheduler that every request reconciles with the configuration.         *)
(*                                                                         *)
(* The one setting is account.refresh.enabled.  The backend writes it and  *)
(* its version in one transaction (SQL, Redis).  A load reads the version  *)
(* and then, after an await, the data; the snapshot's lock keeps loads and *)
(* updates of one worker apart, and those of other workers go on.          *)
(* The scheduler's loops, one per pool, start and stop together.           *)
(***************************************************************************)
EXTENDS Integers

CONSTANTS Worker,     \* worker processes of the deployment
          MaxVersion, \* bound on the number of configuration updates
          Free,       \* the lock file is held by nobody
          NoVersion,  \* _version is None: a load is due
          NotLoading  \* no load holds the snapshot's lock

ASSUME MaxVersionAssumption == MaxVersion \in Nat
ASSUME ClusterMarkersAssumption == /\ Free \notin Worker
                                   /\ NoVersion \notin Nat
                                   /\ NotLoading \notin Nat

VARIABLES
    stored,   \* account.refresh.enabled in the configuration backend
    version,  \* the backend's version counter
    life,     \* per worker: its place in the lifespan
    settings, \* per worker: the value in its snapshot's _data
    basis,    \* per worker: _version, the version the snapshot is of
    loading,  \* per worker: the version a load in progress has read
    flock,    \* who holds the lock on .scheduler.lock
    leader,   \* per worker: _refresh_scheduler_leader
    strategy, \* per worker: the selector's strategy
    sched     \* per worker: the scheduler's loops

clusterVars == <<stored, version, life, settings, basis, loading,
                 flock, leader, strategy, sched>>

Life == {"down", "booting", "up", "closing"}

ClusterTypeOK ==
    /\ stored \in BOOLEAN
    /\ version \in Nat
    /\ life \in [Worker -> Life]
    /\ settings \in [Worker -> BOOLEAN]
    /\ basis \in [Worker -> (0 .. version) \cup {NoVersion}]
    /\ loading \in [Worker -> (0 .. version) \cup {NotLoading}]
    /\ flock \in Worker \cup {Free}
    /\ leader \in [Worker -> BOOLEAN]
    /\ strategy \in [Worker -> {"quota", "random"}]
    /\ sched \in [Worker -> {"off", "waiting", "refreshing"}]

ClusterInit ==
    /\ stored \in BOOLEAN
    /\ version = 0
    /\ life = [w \in Worker |-> "down"]
    /\ settings = [w \in Worker |-> TRUE]
    /\ basis = [w \in Worker |-> NoVersion]
    /\ loading = [w \in Worker |-> NotLoading]
    /\ flock = Free
    /\ leader = [w \in Worker |-> FALSE]
    /\ strategy = [w \in Worker |-> "random"]
    /\ sched = [w \in Worker |-> "off"]

-----------------------------------------------------------------------------
(* Hot-applying the configuration.                                         *)

StrategyFor(on) == IF on THEN "quota" ELSE "random"

(* reconcile_refresh_runtime: the strategy follows the setting, and in the *)
(* leader the scheduler is started if it does not run and stopped if it    *)
(* does.                                                                   *)
Reconcile(w, on, leads) ==
    /\ strategy' = [strategy EXCEPT ![w] = StrategyFor(on)]
    /\ sched' = [sched EXCEPT ![w] =
                   IF ~leads THEN @
                   ELSE IF ~on THEN "off"
                   ELSE IF @ = "off" THEN "waiting" ELSE @]

Serving(w) == life[w] \in {"up", "closing"}

-----------------------------------------------------------------------------
(* The configuration snapshot.                                             *)

(* A load that finds another version than its own takes the lock.          *)
BeginLoad(w) ==
    /\ life[w] # "down"
    /\ loading[w] = NotLoading
    /\ basis[w] # version
    /\ loading' = [loading EXCEPT ![w] = version]
    /\ UNCHANGED <<stored, version, life, settings, basis, flock, leader,
                   strategy, sched>>

(* A slip: the version is asked for after the data has been read.          *)
AdoptLate(w) ==
    /\ \E on \in IF loading[w] = version THEN {stored} ELSE BOOLEAN :
          settings' = [settings EXCEPT ![w] = on]
    /\ basis' = [basis EXCEPT ![w] = version]

(* The snapshot is of the version that was read before the data.           *)
Adopt(w) ==
    /\ settings' = [settings EXCEPT ![w] = stored]
    /\ basis' = [basis EXCEPT ![w] = loading[w]]

(* The data arrives.  A request goes straight on to the reconciliation; at *)
(* startup that waits for Launch.                                          *)
FinishLoad(w) ==
    /\ loading[w] # NotLoading
    /\ Adopt(w)
    /\ loading' = [loading EXCEPT ![w] = NotLoading]
    /\ IF Serving(w) THEN Reconcile(w, settings'[w], leader[w])
                     ELSE UNCHANGED <<strategy, sched>>
    /\ UNCHANGED <<stored, version, life, flock, leader>>

(* A request that finds its snapshot up to date only reconciles.           *)
FastPath(w) ==
    /\ Serving(w)
    /\ basis[w] = version
    /\ Reconcile(w, settings[w], leader[w])
    /\ UNCHANGED <<stored, version, life, settings, basis, loading, flock,
                   leader>>

(* A slip: the backend forgets to count.                                   *)
UpdateUncounted(w, on) ==
    /\ life[w] = "up"
    /\ loading[w] = NotLoading
    /\ version < MaxVersion
    /\ stored' = on
    /\ basis' = [basis EXCEPT ![w] = version + 1]
    /\ UNCHANGED <<version, life, settings, loading, flock, leader, strategy,
                   sched>>

(* update: the admin's patch is committed and the snapshot invalidated;    *)
(* the handler's own load that follows is a load like the others.          *)
UpdateConfig(w, on) ==
    /\ life[w] = "up"
    /\ loading[w] = NotLoading
    /\ version < MaxVersion
    /\ stored' = on
    /\ version' = version + 1
    /\ basis' = [basis EXCEPT ![w] = NoVersion]
    /\ UNCHANGED <<life, settings, loading, flock, leader, strategy, sched>>

-----------------------------------------------------------------------------
(* The lifespan of a worker process.                                       *)

Boot(w) ==
    /\ life[w] = "down"
    /\ life' = [life EXCEPT ![w] = "booting"]
    /\ UNCHANGED <<stored, version, settings, basis, loading, flock, leader,
                   strategy, sched>>

(* With the configuration loaded, one try at the lock; the outcome is kept *)
(* for the life of the process.                                            *)
Launch(w) ==
    /\ life[w] = "booting"
    /\ loading[w] = NotLoading
    /\ basis[w] # NoVersion
    /\ life' = [life EXCEPT ![w] = "up"]
    /\ flock' = IF flock = Free THEN w ELSE flock
    /\ leader' = [leader EXCEPT ![w] = flock = Free]
    /\ Reconcile(w, settings[w], flock = Free)
    /\ UNCHANGED <<stored, version, settings, basis, loading>>

(* A cycle of a pool's loop begins after its interval, and ends.           *)
CycleBegins(w) ==
    /\ sched[w] = "waiting"
    /\ sched' = [sched EXCEPT ![w] = "refreshing"]
    /\ UNCHANGED <<stored, version, life, settings, basis, loading, flock,
                   leader, strategy>>

CycleEnds(w) ==
    /\ sched[w] = "refreshing"
    /\ sched' = [sched EXCEPT ![w] = "waiting"]
    /\ UNCHANGED <<stored, version, life, settings, basis, loading, flock,
                   leader, strategy>>

(* A slip: the leader flag outlives the lock.                              *)
ResignQuietly(w) ==
    /\ sched' = [sched EXCEPT ![w] = "off"]
    /\ flock' = IF flock = w THEN Free ELSE flock
    /\ UNCHANGED leader

(* Scheduler stopped, lock released and flag cleared, without an await     *)
(* between them.                                                           *)
Resign(w) ==
    /\ sched' = [sched EXCEPT ![w] = "off"]
    /\ flock' = IF flock = w THEN Free ELSE flock
    /\ leader' = [leader EXCEPT ![w] = FALSE]

(* Shutdown: after Resign the repository is closed, which awaits, and a    *)
(* request that is still being served may reconcile.                       *)
Close(w) ==
    /\ life[w] = "up"
    /\ Resign(w)
    /\ life' = [life EXCEPT ![w] = "closing"]
    /\ UNCHANGED <<stored, version, settings, basis, loading, strategy>>

(* The process is gone, by itself or killed; the kernel drops its lock.    *)
Vanish(w) ==
    /\ life[w] # "down"
    /\ life' = [life EXCEPT ![w] = "down"]
    /\ settings' = [settings EXCEPT ![w] = TRUE]
    /\ basis' = [basis EXCEPT ![w] = NoVersion]
    /\ loading' = [loading EXCEPT ![w] = NotLoading]
    /\ flock' = IF flock = w THEN Free ELSE flock
    /\ leader' = [leader EXCEPT ![w] = FALSE]
    /\ strategy' = [strategy EXCEPT ![w] = "random"]
    /\ sched' = [sched EXCEPT ![w] = "off"]
    /\ UNCHANGED <<stored, version>>

-----------------------------------------------------------------------------
WorkerStep(w) ==
    \/ BeginLoad(w) \/ FinishLoad(w) \/ FastPath(w)
    \/ \E on \in BOOLEAN : UpdateConfig(w, on)
    \/ Boot(w) \/ Launch(w) \/ Close(w) \/ Vanish(w)
    \/ CycleBegins(w) \/ CycleEnds(w)

ClusterNext == \E w \in Worker : WorkerStep(w)

ClusterSpec == ClusterInit /\ [][ClusterNext]_clusterVars

(* What fairness is asked of: requests keep arriving at every worker, and  *)
(* the reads they wait for end.                                            *)
Traffic(w) == life[w] = "up" /\ (BeginLoad(w) \/ FinishLoad(w) \/ FastPath(w))

ClusterFairness == \A w \in Worker : WF_clusterVars(Traffic(w))

-----------------------------------------------------------------------------
(* Properties.                                                             *)

Running(w) == sched[w] # "off"

(* "Uses an advisory file lock so exactly one process runs the heavy       *)
(* upstream quota-fetch loop" (lifespan, step 4): never two, however       *)
(* workers start, close, die and take over, and whatever is reconfigured   *)
(* meanwhile in any of them.                                               *)
OneScheduler ==
    \A v, w \in Worker : Running(v) /\ Running(w) => v = w

InStep(w) ==
    /\ settings[w] = stored
    /\ strategy[w] = StrategyFor(stored)
    /\ flock = w => (Running(w) <=> stored)

(* A change made through any worker reaches every other one (load in       *)
(* _ensure_config): once no further change is made, a worker that stays    *)
(* comes to hold what is stored, its strategy and, in the leader, the      *)
(* scheduler follow, and no update stays hidden behind a version that was  *)
(* read before it.                                                         *)
ConfigReaches ==
    \A w \in Worker : []<>(life[w] # "up" \/ InStep(w))
=============================================================================
