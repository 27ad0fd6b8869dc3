------------------------ MODULE ClusterRuntimeProofs ------------------------
(***************************************************************************)
(* The types of the cluster's state, and that two workers never run the    *)
(* refresh loop at once, for every set of workers.                         *)
(***************************************************************************)
EXTENDS ClusterRuntime, TLAPS

(* The leader flag says who holds the lock, and only a leader's loops run: *)
(* a worker that has yet to try the lock is no leader.                     *)
LeaderInv ==
    \A w \in Worker : /\ leader[w] => flock = w
                      /\ Running(w) => leader[w]
                      /\ life[w] \in {"down", "booting"} => ~leader[w]

ClusterInv == ClusterTypeOK /\ LeaderInv

-----------------------------------------------------------------------------
LEMMA ClusterInitially == ClusterInit => ClusterInv
BY ClusterMarkersAssumption
   DEF ClusterInit, ClusterInv, ClusterTypeOK, LeaderInv, Life, Running

(* Reconciliation changes one worker's strategy and, in the leader, loops. *)
LEMMA ReconcileKeeps ==
    ASSUME ClusterTypeOK, NEW w \in Worker, NEW on \in BOOLEAN,
           NEW leads \in BOOLEAN, Reconcile(w, on, leads)
    PROVE  /\ strategy' \in [Worker -> {"quota", "random"}]
           /\ sched' \in [Worker -> {"off", "waiting", "refreshing"}]
           /\ \A v \in Worker \ {w} : sched'[v] = sched[v]
           /\ ~leads => sched'[w] = sched[w]
BY DEF ClusterTypeOK, Reconcile, StrategyFor

LEMMA LoadKeeps ==
    ASSUME ClusterInv, NEW w \in Worker, BeginLoad(w) \/ FinishLoad(w)
    PROVE  ClusterInv'
<1>1. CASE BeginLoad(w)
  BY <1>1 DEF ClusterInv, ClusterTypeOK, LeaderInv, BeginLoad, Running
<1>2. CASE FinishLoad(w)
  <2>1. /\ settings' \in [Worker -> BOOLEAN]
        /\ basis' \in [Worker -> (0 .. version) \cup {NoVersion}]
        /\ loading' \in [Worker -> (0 .. version) \cup {NotLoading}]
    BY <1>2 DEF ClusterInv, ClusterTypeOK, FinishLoad, Adopt
  <2>2. CASE Serving(w)
    <3>1. Reconcile(w, settings'[w], leader[w])
      BY <1>2, <2>2 DEF FinishLoad
    <3>2. /\ strategy' \in [Worker -> {"quota", "random"}]
          /\ sched' \in [Worker -> {"off", "waiting", "refreshing"}]
          /\ \A v \in Worker \ {w} : sched'[v] = sched[v]
          /\ ~leader[w] => sched'[w] = sched[w]
      BY <2>1, <3>1, ReconcileKeeps DEF ClusterInv, ClusterTypeOK
    <3> QED BY <1>2, <2>1, <3>2
            DEF ClusterInv, ClusterTypeOK, LeaderInv, FinishLoad, Running
  <2>3. CASE ~Serving(w)
    BY <1>2, <2>1, <2>3
       DEF ClusterInv, ClusterTypeOK, LeaderInv, FinishLoad, Running
  <2> QED BY <2>2, <2>3
<1> QED BY <1>1, <1>2

LEMMA FastPathKeeps ==
    ASSUME ClusterInv, NEW w \in Worker, FastPath(w)
    PROVE  ClusterInv'
<1>1. /\ strategy' \in [Worker -> {"quota", "random"}]
      /\ sched' \in [Worker -> {"off", "waiting", "refreshing"}]
      /\ \A v \in Worker \ {w} : sched'[v] = sched[v]
      /\ ~leader[w] => sched'[w] = sched[w]
  BY ReconcileKeeps DEF ClusterInv, ClusterTypeOK, FastPath
<1> QED BY <1>1 DEF ClusterInv, ClusterTypeOK, LeaderInv, FastPath, Running

LEMMA UpdateConfigKeeps ==
    ASSUME ClusterInv, NEW w \in Worker, NEW on \in BOOLEAN,
           UpdateConfig(w, on)
    PROVE  ClusterInv'
<1>1. /\ version' \in Nat
      /\ basis' \in [Worker -> (0 .. version') \cup {NoVersion}]
      /\ loading' \in [Worker -> (0 .. version') \cup {NotLoading}]
  BY MaxVersionAssumption DEF ClusterInv, ClusterTypeOK, UpdateConfig
<1> QED BY <1>1 DEF ClusterInv, ClusterTypeOK, LeaderInv, UpdateConfig, Running

(* The lock was free, and then no worker was a leader, or it is not got.   *)
LEMMA LaunchKeeps ==
    ASSUME ClusterInv, NEW w \in Worker, Launch(w)
    PROVE  ClusterInv'
<1>1. /\ ~leader[w]
      /\ ~Running(w)
  BY DEF ClusterInv, LeaderInv, Launch
<1>2. /\ strategy' \in [Worker -> {"quota", "random"}]
      /\ sched' \in [Worker -> {"off", "waiting", "refreshing"}]
      /\ \A v \in Worker \ {w} : sched'[v] = sched[v]
      /\ flock # Free => sched'[w] = sched[w]
  <2>1. settings[w] \in BOOLEAN /\ (flock = Free) \in BOOLEAN
    BY DEF ClusterInv, ClusterTypeOK
  <2>2. Reconcile(w, settings[w], flock = Free)
    BY DEF Launch
  <2> QED BY <2>1, <2>2, ReconcileKeeps DEF ClusterInv
<1>3. ClusterTypeOK'
  BY <1>2 DEF ClusterInv, ClusterTypeOK, Launch, Life
<1>4. ASSUME NEW v \in Worker
      PROVE  /\ leader'[v] => flock' = v
             /\ Running(v)' => leader'[v]
             /\ life'[v] \in {"down", "booting"} => ~leader'[v]
  <2>1. CASE v = w
    BY <1>1, <1>2, <2>1 DEF ClusterInv, ClusterTypeOK, Launch, Running
  <2>2. CASE v # w
    <3>1. /\ leader'[v] = leader[v] /\ life'[v] = life[v]
          /\ sched'[v] = sched[v]
      BY <1>2, <2>2 DEF ClusterInv, ClusterTypeOK, Launch
    <3>2. leader[v] => flock = v /\ flock' = v
      BY ClusterMarkersAssumption DEF ClusterInv, LeaderInv, Launch
    <3> QED BY <3>1, <3>2 DEF ClusterInv, LeaderInv, Running
  <2> QED BY <2>1, <2>2
<1> QED BY <1>3, <1>4 DEF ClusterInv, LeaderInv

LEMMA EndKeeps ==
    ASSUME ClusterInv, NEW w \in Worker, Close(w) \/ Vanish(w)
    PROVE  ClusterInv'
<1>1. CASE Close(w)
  BY <1>1 DEF ClusterInv, ClusterTypeOK, LeaderInv, Close, Resign, Life, Running
<1>2. CASE Vanish(w)
  BY <1>2 DEF ClusterInv, ClusterTypeOK, LeaderInv, Vanish, Life, Running
<1> QED BY <1>1, <1>2

LEMMA CycleKeeps ==
    ASSUME ClusterInv, NEW w \in Worker,
           Boot(w) \/ CycleBegins(w) \/ CycleEnds(w)
    PROVE  ClusterInv'
BY DEF ClusterInv, ClusterTypeOK, LeaderInv, Boot, CycleBegins, CycleEnds,
       Life, Running

LEMMA ClusterStep == ClusterInv /\ [ClusterNext]_clusterVars => ClusterInv'
<1> SUFFICES ASSUME ClusterInv, [ClusterNext]_clusterVars PROVE ClusterInv'
  OBVIOUS
<1>1. CASE UNCHANGED clusterVars
  BY <1>1 DEF ClusterInv, ClusterTypeOK, LeaderInv, Running, clusterVars
<1>2. ASSUME NEW w \in Worker, WorkerStep(w) PROVE ClusterInv'
  BY <1>2, LoadKeeps, FastPathKeeps, UpdateConfigKeeps, LaunchKeeps, EndKeeps,
     CycleKeeps DEF WorkerStep
<1> QED BY <1>1, <1>2 DEF ClusterNext

THEOREM ClusterInvariant == ClusterSpec => []ClusterInv
BY ClusterInitially, ClusterStep, PTL DEF ClusterSpec

(* The cluster's state keeps its types; no snapshot is of a version that   *)
(* the backend has not had (ConfigSnapshot).                               *)
THEOREM ClusterTypeCorrect == ClusterSpec => []ClusterTypeOK
<1>1. ClusterInv => ClusterTypeOK
  BY DEF ClusterInv
<1> QED BY <1>1, ClusterInvariant, PTL

(* At most one worker runs the refresh loop (lifespan, step 4).            *)
THEOREM AtMostOneScheduler == ClusterSpec => []OneScheduler
<1>1. ClusterInv => OneScheduler
  BY DEF ClusterInv, LeaderInv, OneScheduler
<1> QED BY <1>1, ClusterInvariant, PTL
=============================================================================
