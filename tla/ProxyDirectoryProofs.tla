------------------------ MODULE ProxyDirectoryProofs ------------------------
(***************************************************************************)
(* No lost wake-up and single flight of the clearance guard, for every set *)
(* of requests, nodes, hosts and configurations.                           *)
(***************************************************************************)
EXTENDS ProxyDirectory, TLAPS

(* An event in _refresh_events is that of a process that fetches the key.  *)
EventsOwned ==
    \A k \in DOMAIN events : Fetching(events[k]) /\ key[events[k]] = k

(* A fetching process still has its event in _refresh_events, unless a     *)
(* reload has dropped an event of that key.                                *)
FetchersKnown ==
    \A p \in Process : Fetching(p) =>
       \/ key[p] \in DOMAIN events /\ events[key[p]] = p
       \/ key[p] \in orphaned

(* Who is past its choice of a node has a key.                             *)
KeyChosen ==
    \A p \in Process :
       pc[p] \in {"waiting", "woken", "fetching", "leased", "solving"}
         => key[p] \in Key

GuardInv == WaitersHaveOwner /\ EventsOwned /\ FetchersKnown /\ KeyChosen

(* WaitersHaveOwner is inductive only with EventsOwned (whom a new waiter  *)
(* will wait for), SingleFlight only with FetchersKnown.                   *)
ProxyInv == TypeOK /\ GuardInv

-----------------------------------------------------------------------------
(* Choosing a node gives a key.                                            *)

LEMMA ConfigNodes ==
    ASSUME NEW c \in Config
    PROVE  c.nodes \in Seq(Node) /\ c.resources \in Seq(Node)
BY ConfigAssumption DEF ConfigType

LEMMA Picked ==
    ASSUME TypeOK, NEW resource \in BOOLEAN
    PROVE  Affinity(PickProxyUrl(resource)) \in Node \cup {Direct}
<1> DEFINE nodes == IF resource /\ loaded.resources # <<>>
                    THEN loaded.resources ELSE loaded.nodes
<1>1. nodes \in Seq(Node)
      BY ConfigNodes DEF TypeOK
<1>2. cursor \in Nat
      BY DEF TypeOK
<1>3. PickProxyUrl(resource) = IF loaded.egress = "direct" \/ nodes = <<>>
                               THEN NoUrl
                               ELSE IF loaded.egress = "single_proxy"
                                    THEN nodes[1]
                                    ELSE nodes[(cursor % Len(nodes)) + 1]
      BY DEF PickProxyUrl
<1> HIDE DEF nodes
<1>4. CASE nodes = <<>>
      BY <1>3, <1>4 DEF Affinity
<1>5. CASE nodes # <<>>
  <2>1. Len(nodes) \in Nat \ {0}
        BY <1>1, <1>5
  <2>2. (cursor % Len(nodes)) + 1 \in 1..Len(nodes) /\ 1 \in 1..Len(nodes)
        BY <1>2, <2>1
  <2>3. nodes[(cursor % Len(nodes)) + 1] \in Node /\ nodes[1] \in Node
        BY <1>1, <2>2
  <2> QED BY <1>3, <2>3 DEF Affinity
<1> QED BY <1>4, <1>5

LEMMA DefaultKeysType == ASSUME TypeOK PROVE DefaultKeys \subseteq Key
<1>1. \A i \in DOMAIN loaded.nodes : loaded.nodes[i] \in Node
      BY ConfigNodes DEF TypeOK
<1> QED BY <1>1, HostAssumption DEF DefaultKeys, Key

-----------------------------------------------------------------------------
(* One turn of the guard, by a process that was neither waiting nor        *)
(* fetching: the only step that adds an event or a waiter.                 *)

LEMMA GuardStep ==
    ASSUME ProxyInv, NEW p \in Process, NEW k \in Key,
           pc[p] \notin {"waiting", "fetching"},
           key' = [key EXCEPT ![p] = k], orphaned' = orphaned,
           Guard(p, k) \/ Unguarded(p)
    PROVE  /\ GuardInv'
           /\ bundles' \in [DOMAIN bundles' -> Bundle]
           /\ DOMAIN bundles' \subseteq Key
           /\ events' \in [DOMAIN events' -> Process]
           /\ DOMAIN events' \subseteq Key
           /\ pc' \in [Process -> Stage]
           /\ key' \in [Process -> Key \cup {NoKey}]
           /\ waits' \in [Process -> Process]
           /\ served' \in [Request -> Nat \cup {NoClearance}]
<1> USE DEF ProxyInv, TypeOK, Fetching
<1>1. key' \in [Process -> Key \cup {NoKey}] /\ key'[p] = k
      /\ \A q \in Process : q # p => key'[q] = key[q]
      OBVIOUS
<1>2. ASSUME pc' = [pc EXCEPT ![p] = Returns(p)], events' = events,
             waits' = waits
      PROVE  GuardInv' /\ pc' \in [Process -> Stage]
  <2>1. /\ pc' \in [Process -> Stage]
        /\ pc'[p] \in {"warming", "leased"}
        /\ \A q \in Process : q # p => pc'[q] = pc[q]
        BY <1>2 DEF Returns, Stage
  <2>2. WaitersHaveOwner'
        BY <1>1, <1>2, <2>1 DEF GuardInv, WaitersHaveOwner
  <2>3. EventsOwned'
        BY <1>1, <1>2, <2>1 DEF GuardInv, EventsOwned
  <2>4. FetchersKnown'
        BY <1>1, <1>2, <2>1 DEF GuardInv, FetchersKnown
  <2>5. KeyChosen'
        BY <1>1, <2>1 DEF GuardInv, KeyChosen
  <2> QED BY <2>1, <2>2, <2>3, <2>4, <2>5 DEF GuardInv
<1>3. CASE Unguarded(p)
  <2>1. served' \in [Request -> Nat \cup {NoClearance}]
        BY <1>3 DEF Unguarded, Serve, Process
  <2> QED BY <1>1, <1>2, <1>3, <2>1 DEF Unguarded
<1>4. CASE Cached(p, k)
  <2>1. bundles[k].id \in Nat
        BY <1>4 DEF Cached, Valid, Bundle
  <2>2. served' \in [Request -> Nat \cup {NoClearance}]
        BY <1>4, <2>1 DEF Cached, Serve, Process
  <2> QED BY <1>1, <1>2, <1>4, <2>2 DEF Cached
<1>5. CASE Waits(p, k)
  <2>1. /\ pc' = [pc EXCEPT ![p] = "waiting"]
        /\ waits' = [waits EXCEPT ![p] = events[k]]
        /\ events' = events /\ bundles' = bundles /\ served' = served
        /\ k \in DOMAIN events
        BY <1>5 DEF Waits
  <2>2. pc' \in [Process -> Stage] /\ waits' \in [Process -> Process]
        BY <2>1 DEF Stage
  <2>3. Fetching(events[k]) /\ key[events[k]] = k /\ events[k] # p
        BY <2>1 DEF GuardInv, EventsOwned
  <2>4. WaitersHaveOwner'
        BY <1>1, <2>1, <2>3 DEF GuardInv, WaitersHaveOwner
  <2>5. EventsOwned'
        BY <1>1, <2>1 DEF GuardInv, EventsOwned
  <2>6. FetchersKnown'
        BY <1>1, <2>1 DEF GuardInv, FetchersKnown
  <2>7. KeyChosen'
        BY <1>1, <2>1 DEF GuardInv, KeyChosen
  <2> QED BY <1>1, <2>1, <2>2, <2>4, <2>5, <2>6, <2>7 DEF GuardInv
<1>6. CASE BuildsAtOnce(p, k)
  <2>1. [id |-> MANUAL, valid |-> TRUE] \in Bundle
        BY DEF Bundle, MANUAL
  <2>2. /\ bundles' \in [DOMAIN bundles' -> Bundle]
        /\ DOMAIN bundles' \subseteq Key
    <3>1. \/ bundles' = bundles
          \/ bundles' = Put(bundles, k, [id |-> MANUAL, valid |-> TRUE])
        BY <1>6 DEF BuildsAtOnce
    <3> QED BY <2>1, <3>1 DEF Put
  <2>3. served' \in [Request -> Nat \cup {NoClearance}]
        BY <1>6 DEF BuildsAtOnce, Serve, Process, MANUAL
  <2> QED BY <1>1, <1>2, <1>6, <2>2, <2>3 DEF BuildsAtOnce
<1>7. CASE Fetches(p, k)
  <2>1. /\ pc' = [pc EXCEPT ![p] = "fetching"]
        /\ events' = Put(events, k, p) /\ k \notin DOMAIN events
        /\ waits' = waits /\ bundles' = bundles /\ served' = served
        BY <1>7 DEF Fetches
  <2>2. /\ DOMAIN events' = DOMAIN events \cup {k}
        /\ DOMAIN events' \subseteq Key
        /\ events' \in [DOMAIN events' -> Process]
        /\ events'[k] = p
        /\ \A x \in DOMAIN events : events'[x] = events[x]
        BY <2>1 DEF Put
  <2>3. pc' \in [Process -> Stage]
        BY <2>1 DEF Stage
  <2>4. WaitersHaveOwner'
        BY <1>1, <2>1 DEF GuardInv, WaitersHaveOwner
  <2>5. EventsOwned'
        BY <1>1, <2>1, <2>2 DEF GuardInv, EventsOwned
  <2>6. FetchersKnown'
    <3> SUFFICES ASSUME NEW q \in Process, Fetching(q)'
                 PROVE  (\/ key[q] \in DOMAIN events /\ events[key[q]] = q
                         \/ key[q] \in orphaned)'
        BY DEF FetchersKnown
    <3>1. CASE q = p
        BY <1>1, <2>2, <3>1
    <3>2. CASE q # p
        BY <1>1, <2>1, <2>2, <3>2 DEF GuardInv, FetchersKnown
    <3> QED BY <3>1, <3>2
  <2>7. KeyChosen'
        BY <1>1, <2>1 DEF GuardInv, KeyChosen
  <2> QED BY <1>1, <2>1, <2>2, <2>3, <2>4, <2>5, <2>6, <2>7 DEF GuardInv
<1> QED BY <1>3, <1>4, <1>5, <1>6, <1>7 DEF Guard

-----------------------------------------------------------------------------
(* The end of a guarded fetch, whatever its outcome.                       *)

LEMMA FinishStep ==
    ASSUME ProxyInv, NEW p \in Process, Fetching(p),
           events' = Pop(events, key[p]), orphaned' = orphaned,
           NEW next \in {"warming", "leased", "done"}, WakeUp(p, next),
           \/ key' = key
           \/ next = "done" /\ key' = [key EXCEPT ![p] = NoKey]
    PROVE  /\ GuardInv'
           /\ events' \in [DOMAIN events' -> Process]
           /\ DOMAIN events' \subseteq Key
           /\ pc' \in [Process -> Stage]
           /\ key' \in [Process -> Key \cup {NoKey}]
           /\ waits' \in [Process -> Process]
<1> USE DEF ProxyInv, TypeOK, Fetching
<1>1. /\ DOMAIN events' = DOMAIN events \ {key[p]}
      /\ DOMAIN events' \subseteq Key
      /\ events' \in [DOMAIN events' -> Process]
      /\ \A x \in DOMAIN events : x # key[p] => events'[x] = events[x]
      BY DEF Pop
<1>2. /\ pc' \in [Process -> Stage]
      /\ pc'[p] = next
      /\ \A q \in Process : q # p => pc'[q] = IF q \in Woken(p) THEN "woken"
                                              ELSE pc[q]
      BY DEF WakeUp, Stage
<1>3. /\ waits' \in [Process -> Process]
      /\ \A q \in Process : q \notin Woken(p) => waits'[q] = waits[q]
      BY DEF WakeUp
<1>4. /\ key' \in [Process -> Key \cup {NoKey}]
      /\ \A q \in Process : q # p => key'[q] = key[q]
      /\ next # "done" => key'[p] = key[p]
      OBVIOUS
<1>5. WaitersHaveOwner'
  <2> SUFFICES ASSUME NEW q \in Process, pc'[q] = "waiting"
               PROVE  pc'[waits'[q]] = "fetching" /\ key'[waits'[q]] = key'[q]
      BY DEF WaitersHaveOwner
  <2>1. q # p /\ q \notin Woken(p) /\ pc[q] = "waiting"
      BY <1>2
  <2>2. waits'[q] = waits[q] /\ waits[q] # p
      BY <1>3, <2>1 DEF Woken
  <2>3. pc[waits[q]] = "fetching" /\ key[waits[q]] = key[q]
      BY <2>1 DEF GuardInv, WaitersHaveOwner
  <2>4. pc'[waits[q]] = "fetching"
      BY <1>2, <2>2, <2>3 DEF Woken
  <2> QED BY <1>4, <2>1, <2>2, <2>3, <2>4
<1>6. EventsOwned'
  <2> SUFFICES ASSUME NEW k \in DOMAIN events'
               PROVE  pc'[events'[k]] = "fetching" /\ key'[events'[k]] = k
      BY DEF EventsOwned
  <2>1. k \in DOMAIN events /\ k # key[p] /\ events'[k] = events[k]
      BY <1>1
  <2>2. pc[events[k]] = "fetching" /\ key[events[k]] = k
      BY <2>1 DEF GuardInv, EventsOwned
  <2>3. events[k] # p
      BY <2>1, <2>2
  <2> QED BY <1>2, <1>4, <2>1, <2>2, <2>3 DEF Woken
<1>7. FetchersKnown'
  <2> SUFFICES ASSUME NEW q \in Process, pc'[q] = "fetching"
               PROVE  \/ key'[q] \in DOMAIN events' /\ events'[key'[q]] = q
                      \/ key'[q] \in orphaned'
      BY DEF FetchersKnown
  <2>1. q # p /\ pc[q] = "fetching" /\ key'[q] = key[q]
      BY <1>2, <1>4
  <2>2. CASE key[q] # key[p]
      BY <1>1, <2>1, <2>2 DEF GuardInv, FetchersKnown
  <2>3. CASE key[q] = key[p]
      BY <2>1, <2>3 DEF GuardInv, FetchersKnown
  <2> QED BY <2>2, <2>3
<1>8. KeyChosen'
      BY <1>2, <1>4 DEF GuardInv, KeyChosen, Woken
<1> QED BY <1>1, <1>2, <1>3, <1>4, <1>5, <1>6, <1>7, <1>8 DEF GuardInv

-----------------------------------------------------------------------------
(* A process that fetches nothing moves without touching the guard.        *)

LEMMA QuietStep ==
    ASSUME ProxyInv, NEW p \in Process, ~Fetching(p),
           NEW st \in Stage \ {"waiting", "woken", "fetching"},
           pc' = [pc EXCEPT ![p] = st],
           NEW k \in Key \cup {NoKey}, key' = [key EXCEPT ![p] = k],
           st \in {"leased", "solving"} => k \in Key,
           events' = events, waits' = waits, orphaned' = orphaned
    PROVE  /\ GuardInv'
           /\ pc' \in [Process -> Stage]
           /\ key' \in [Process -> Key \cup {NoKey}]
<1> USE DEF ProxyInv, TypeOK, Fetching
<1>1. /\ pc' \in [Process -> Stage]
      /\ pc'[p] = st
      /\ \A q \in Process : q # p => pc'[q] = pc[q]
      OBVIOUS
<1>2. /\ key' \in [Process -> Key \cup {NoKey}]
      /\ key'[p] = k
      /\ \A q \in Process : q # p => key'[q] = key[q]
      OBVIOUS
<1>3. WaitersHaveOwner'
      BY <1>1, <1>2 DEF GuardInv, WaitersHaveOwner
<1>4. EventsOwned'
      BY <1>1, <1>2 DEF GuardInv, EventsOwned
<1>5. FetchersKnown'
      BY <1>1, <1>2 DEF GuardInv, FetchersKnown
<1>6. KeyChosen'
      BY <1>1, <1>2 DEF GuardInv, KeyChosen
<1> QED BY <1>1, <1>2, <1>3, <1>4, <1>5, <1>6 DEF GuardInv

LEMMA SameKey ==
    ASSUME TypeOK, NEW p \in Process
    PROVE  key = [key EXCEPT ![p] = key[p]] /\ key[p] \in Key \cup {NoKey}
BY DEF TypeOK

(* Nothing of the guard changes.                                           *)
LEMMA IdleStep ==
    ASSUME ProxyInv,
           UNCHANGED <<events, pc, key, waits, orphaned>>
    PROVE  GuardInv'
BY DEF ProxyInv, GuardInv, WaitersHaveOwner, EventsOwned, FetchersKnown,
       KeyChosen, Fetching

-----------------------------------------------------------------------------
(* A reload drops events, and remembers which.                             *)

LEMMA LoadStep == ASSUME ProxyInv, Load PROVE ProxyInv'
<1> USE DEF ProxyInv, TypeOK
<1>1. /\ DOMAIN events' \subseteq DOMAIN events
      /\ events' \in [DOMAIN events' -> Process]
      /\ \A k \in DOMAIN events' : events'[k] = events[k]
      /\ \A k \in DOMAIN events \ DOMAIN events' : k \in orphaned'
      /\ orphaned \subseteq orphaned' /\ orphaned' \subseteq Key
      BY DEF Load, Keeps
<1>2. UNCHANGED <<pc, key, waits>>
      BY DEF Load
<1>3. WaitersHaveOwner'
      BY <1>2 DEF GuardInv, WaitersHaveOwner, Fetching
<1>4. EventsOwned'
      BY <1>1, <1>2 DEF GuardInv, EventsOwned, Fetching
<1>5. FetchersKnown'
  <2> SUFFICES ASSUME NEW p \in Process, pc[p] = "fetching"
               PROVE  \/ key[p] \in DOMAIN events' /\ events'[key[p]] = p
                      \/ key[p] \in orphaned'
      BY <1>2 DEF FetchersKnown, Fetching
  <2> QED BY <1>1 DEF GuardInv, FetchersKnown, Fetching
<1>6. KeyChosen'
      BY <1>2 DEF GuardInv, KeyChosen
<1>7. /\ DOMAIN bundles' \subseteq Key
      /\ bundles' \in [DOMAIN bundles' -> Bundle]
      BY DEF Load, Keeps, Bundle
<1>8. withdrawn' \subseteq Nat
      BY DEF Load, Bundle
<1>9. TypeOK'
      BY <1>1, <1>2, <1>7, <1>8 DEF Load
<1> QED BY <1>3, <1>4, <1>5, <1>6, <1>9 DEF GuardInv

-----------------------------------------------------------------------------
(* Requests.                                                               *)

LEMMA AcquireStep ==
    ASSUME ProxyInv, NEW r \in Request, NEW resource \in BOOLEAN,
           NEW host \in Host, Acquire(r, resource, host)
    PROVE  ProxyInv'
<1> DEFINE k == <<Affinity(PickProxyUrl(resource)), host>>
<1>1. k \in Key
      BY Picked DEF ProxyInv, Key
<1>2. /\ pc[r] = "new" /\ key' = [key EXCEPT ![r] = k]
      /\ Guard(r, k) \/ Unguarded(r)
      /\ UNCHANGED <<config, loaded, cursor, todo, fetched, changes, refreshes,
                     withdrawn, orphaned>>
      BY DEF Acquire
<1>3. r \in Process
      BY DEF Process
<1> HIDE DEF k
<1> QED BY <1>1, <1>2, <1>3, GuardStep DEF ProxyInv, TypeOK

LEMMA RetryStep ==
    ASSUME ProxyInv, NEW p \in Process, Retry(p)
    PROVE  ProxyInv'
<1>1. key[p] \in Key
      BY DEF Retry, ProxyInv, GuardInv, KeyChosen
<1>2. /\ pc[p] = "woken" /\ key' = [key EXCEPT ![p] = key[p]]
      /\ Guard(p, key[p])
      /\ UNCHANGED <<config, loaded, cursor, todo, fetched, changes, refreshes,
                     withdrawn, orphaned>>
      BY SameKey DEF Retry, ProxyInv
<1> QED BY <1>1, <1>2, GuardStep DEF ProxyInv, TypeOK

LEMMA FetchStep ==
    ASSUME ProxyInv, NEW p \in Process, FetchEnds(p)
    PROVE  ProxyInv'
<1>1. /\ Fetching(p) /\ events' = Pop(events, key[p])
      /\ WakeUp(p, Returns(p)) /\ key' = key
      /\ UNCHANGED <<config, loaded, cursor, todo, changes, refreshes,
                     withdrawn, orphaned>>
      BY DEF FetchEnds, FetchSucceeds, FetchFails, Fetching
<1>2. Returns(p) \in {"warming", "leased", "done"}
      BY DEF Returns
<1>3. /\ GuardInv'
      /\ events' \in [DOMAIN events' -> Process]
      /\ DOMAIN events' \subseteq Key
      /\ pc' \in [Process -> Stage]
      /\ key' \in [Process -> Key \cup {NoKey}]
      /\ waits' \in [Process -> Process]
      BY <1>1, <1>2, FinishStep
<1>4. key[p] \in Key
      BY <1>1 DEF ProxyInv, GuardInv, KeyChosen, Fetching
<1>5. /\ fetched' \in Nat
      /\ DOMAIN bundles' \subseteq Key
      /\ bundles' \in [DOMAIN bundles' -> Bundle]
      /\ served' \in [Request -> Nat \cup {NoClearance}]
  <2> USE DEF ProxyInv, TypeOK, Serve, Process
  <2>1. CASE FetchSucceeds(p)
        BY <1>4, <2>1 DEF FetchSucceeds, Put, Bundle
  <2>2. CASE FetchFails(p)
        BY <2>2 DEF FetchFails
  <2> QED BY <2>1, <2>2 DEF FetchEnds
<1> QED BY <1>1, <1>3, <1>5 DEF ProxyInv, TypeOK

LEMMA CancelledStep ==
    ASSUME ProxyInv, NEW r \in Request, Cancelled(r)
    PROVE  ProxyInv'
<1>1. /\ WakeUp(r, "done") /\ key' = [key EXCEPT ![r] = NoKey]
      /\ served' = [served EXCEPT ![r] = NoClearance]
      /\ UNCHANGED <<config, loaded, cursor, bundles, todo, fetched, changes,
                     refreshes, withdrawn, orphaned>>
      BY DEF Cancelled, Forgets
<1>2. r \in Process
      BY DEF Process
<1>3. /\ GuardInv'
      /\ events' \in [DOMAIN events' -> Process]
      /\ DOMAIN events' \subseteq Key
      /\ pc' \in [Process -> Stage]
      /\ key' \in [Process -> Key \cup {NoKey}]
      /\ waits' \in [Process -> Process]
  <2>1. CASE Fetching(r)
    <3>1. events' = Pop(events, key[r])
          BY <2>1 DEF Cancelled, Fetching
    <3> QED BY <1>1, <1>2, <2>1, <3>1, FinishStep
  <2>2. CASE ~Fetching(r)
    <3>1. events' = events
          BY <2>2 DEF Cancelled, Fetching
    <3>2. Woken(r) = {}
          BY <2>2 DEF ProxyInv, GuardInv, WaitersHaveOwner, Woken
    <3>3. pc' = [pc EXCEPT ![r] = "done"] /\ waits' = waits
          BY <1>1, <1>2, <3>2 DEF WakeUp, ProxyInv, TypeOK
    <3>4. "done" \in Stage \ {"waiting", "woken", "fetching"}
          BY DEF Stage
    <3>5. /\ GuardInv'
          /\ pc' \in [Process -> Stage]
          /\ key' \in [Process -> Key \cup {NoKey}]
          BY <1>1, <1>2, <2>2, <3>1, <3>3, <3>4, QuietStep
    <3> QED BY <3>1, <3>3, <3>5 DEF ProxyInv, TypeOK
  <2> QED BY <2>1, <2>2
<1>4. served' \in [Request -> Nat \cup {NoClearance}]
      BY <1>1 DEF ProxyInv, TypeOK
<1> QED BY <1>1, <1>3, <1>4 DEF ProxyInv, TypeOK

LEMMA FeedbackStep ==
    ASSUME ProxyInv, NEW r \in Request, NEW verdict \in Verdict,
           Feedback(r, verdict)
    PROVE  ProxyInv'
<1>1. r \in Process /\ ~Fetching(r)
      BY DEF Feedback, Fetching, Process
<1>2. "done" \in Stage \ {"waiting", "woken", "fetching"}
      BY DEF Stage
<1>3. /\ pc' = [pc EXCEPT ![r] = "done"] /\ key' = [key EXCEPT ![r] = NoKey]
      /\ UNCHANGED <<config, loaded, events, waits, todo, fetched, changes,
                     refreshes, orphaned>>
      BY DEF Feedback, Forgets
<1>4. /\ GuardInv'
      /\ pc' \in [Process -> Stage]
      /\ key' \in [Process -> Key \cup {NoKey}]
      BY <1>1, <1>2, <1>3, QuietStep
<1>5. /\ DOMAIN bundles' \subseteq Key
      /\ bundles' \in [DOMAIN bundles' -> Bundle]
  <2>1. CASE bundles' = bundles
        BY <2>1 DEF ProxyInv, TypeOK
  <2>2. CASE bundles' = [bundles EXCEPT ![key[r]].valid = FALSE]
        BY <2>2 DEF ProxyInv, TypeOK, Bundle
  <2> QED BY <2>1, <2>2 DEF Feedback
<1>6. withdrawn' \subseteq Nat /\ cursor' \in Nat
      /\ served' \in [Request -> Nat \cup {NoClearance}]
      BY DEF Feedback, Forgets, Rotate, ProxyInv, TypeOK
<1> QED BY <1>3, <1>4, <1>5, <1>6 DEF ProxyInv, TypeOK

-----------------------------------------------------------------------------
(* The scheduler.                                                          *)

(* The scheduler turns to its next key.                                    *)
LEMMA SchedulerTurns ==
    ASSUME ProxyInv, ~Fetching(Scheduler),
           NEW st \in {"warming", "refreshing"},
           pc' = [pc EXCEPT ![Scheduler] = st],
           UNCHANGED <<key, events, waits, orphaned>>
    PROVE  /\ GuardInv'
           /\ pc' \in [Process -> Stage]
           /\ key' \in [Process -> Key \cup {NoKey}]
<1>1. Scheduler \in Process
      BY DEF Process
<1>2. /\ st \in Stage \ {"waiting", "woken", "fetching"}
      /\ ~(st \in {"leased", "solving"})
      BY DEF Stage
<1>3. /\ key' = [key EXCEPT ![Scheduler] = key[Scheduler]]
      /\ key[Scheduler] \in Key \cup {NoKey}
      BY <1>1, SameKey DEF ProxyInv
<1> QED BY <1>1, <1>2, <1>3, QuietStep

LEMMA SchedulerKeeps == ASSUME ProxyInv, SchedulerStep PROVE ProxyInv'
<1>1. Scheduler \in Process
      BY DEF Process
<1>2. "solving" \in Stage \ {"waiting", "woken", "fetching"}
      BY DEF Stage
<1>4. CASE WarmUp
  <2>1. todo' \subseteq Key
        BY <1>4, DefaultKeysType DEF WarmUp, ProxyInv
  <2>2. /\ GuardInv'
        /\ pc' \in [Process -> Stage]
        /\ key' \in [Process -> Key \cup {NoKey}]
        BY <1>4, SchedulerTurns DEF WarmUp, Fetching
  <2> QED BY <1>4, <2>1, <2>2 DEF WarmUp, ProxyInv, TypeOK
<1>5. CASE Refresh
  <2>1. todo' \subseteq Key
        BY <1>5, DefaultKeysType DEF Refresh, ProxyInv, TypeOK
  <2>2. /\ GuardInv'
        /\ pc' \in [Process -> Stage]
        /\ key' \in [Process -> Key \cup {NoKey}]
        BY <1>5, SchedulerTurns DEF Refresh, Fetching
  <2> QED BY <1>5, <2>1, <2>2 DEF Refresh, ProxyInv, TypeOK
<1>6. ASSUME NEW k \in todo, WarmUpVisit(k) PROVE ProxyInv'
  <2>1. k \in Key
        BY DEF ProxyInv, TypeOK
  <2>2. /\ pc[Scheduler] = "warming" /\ key' = [key EXCEPT ![Scheduler] = k]
        /\ Guard(Scheduler, k) \/ Unguarded(Scheduler)
        /\ todo' = todo \ {k}
        /\ UNCHANGED <<config, loaded, cursor, fetched, changes, refreshes,
                       withdrawn, orphaned>>
        BY <1>6 DEF WarmUpVisit
  <2> QED BY <1>1, <2>1, <2>2, GuardStep DEF ProxyInv, TypeOK
<1>7. ASSUME NEW k \in todo, RefreshAtOnce(k) PROVE ProxyInv'
  <2>1. k \in Key /\ [id |-> MANUAL, valid |-> TRUE] \in Bundle
        BY DEF ProxyInv, TypeOK, Bundle, MANUAL
  <2>2. \/ bundles' = bundles
        \/ bundles' = Put(bundles, k, [id |-> MANUAL, valid |-> TRUE])
        BY <1>7 DEF RefreshAtOnce
  <2>3. /\ DOMAIN bundles' \subseteq Key
        /\ bundles' \in [DOMAIN bundles' -> Bundle]
        BY <2>1, <2>2 DEF ProxyInv, TypeOK, Put
  <2>4. GuardInv'
        BY <1>7, IdleStep DEF RefreshAtOnce
  <2> QED BY <1>7, <2>3, <2>4 DEF RefreshAtOnce, ProxyInv, TypeOK
<1>8. ASSUME NEW k \in todo, RefreshCalls(k) PROVE ProxyInv'
  <2>1. k \in Key
        BY DEF ProxyInv, TypeOK
  <2>2. /\ GuardInv'
        /\ pc' \in [Process -> Stage]
        /\ key' \in [Process -> Key \cup {NoKey}]
        BY <1>1, <1>2, <1>8, <2>1, QuietStep DEF RefreshCalls, Fetching
  <2> QED BY <1>8, <2>2 DEF RefreshCalls, ProxyInv, TypeOK
<1>9. CASE RefreshSucceeds
  <2>1. key[Scheduler] \in Key
        BY <1>1, <1>9 DEF RefreshSucceeds, ProxyInv, GuardInv, KeyChosen
  <2>2. /\ fetched' \in Nat
        /\ DOMAIN bundles' \subseteq Key
        /\ bundles' \in [DOMAIN bundles' -> Bundle]
        BY <1>9, <2>1 DEF RefreshSucceeds, ProxyInv, TypeOK, Put, Bundle
  <2>3. /\ GuardInv'
        /\ pc' \in [Process -> Stage]
        /\ key' \in [Process -> Key \cup {NoKey}]
        BY <1>9, SchedulerTurns DEF RefreshSucceeds, Fetching
  <2> QED BY <1>9, <2>2, <2>3 DEF RefreshSucceeds, ProxyInv, TypeOK
<1>10. CASE RefreshFails
  <2>1. /\ GuardInv'
        /\ pc' \in [Process -> Stage]
        /\ key' \in [Process -> Key \cup {NoKey}]
        BY <1>10, SchedulerTurns DEF RefreshFails, Fetching
  <2> QED BY <1>10, <2>1 DEF RefreshFails, ProxyInv, TypeOK
<1> QED BY <1>4, <1>5, <1>6, <1>7, <1>8, <1>9, <1>10 DEF SchedulerStep

-----------------------------------------------------------------------------
(* The theorems.                                                           *)

LEMMA InitProxy == Init => ProxyInv
BY DEF Init, ProxyInv, TypeOK, Stage, GuardInv, WaitersHaveOwner, EventsOwned,
       FetchersKnown, KeyChosen, Fetching

LEMMA StepProxy == ProxyInv /\ [Next]_vars => ProxyInv'
<1> SUFFICES ASSUME ProxyInv, [Next]_vars PROVE ProxyInv'
    OBVIOUS
<1>1. ASSUME NEW r \in Request, RequestStep(r) PROVE ProxyInv'
      BY <1>1, AcquireStep, CancelledStep, FeedbackStep DEF RequestStep
<1>2. ASSUME NEW p \in Process, FetchEnds(p) \/ Retry(p) PROVE ProxyInv'
      BY <1>2, FetchStep, RetryStep
<1>3. CASE SchedulerStep
      BY <1>3, SchedulerKeeps
<1>4. ASSUME NEW c \in Config, Reconfigure(c) PROVE ProxyInv'
  <2>1. GuardInv'
        BY <1>4, IdleStep DEF Reconfigure
  <2> QED BY <1>4, <2>1 DEF Reconfigure, ProxyInv, TypeOK
<1>5. CASE Load
      BY <1>5, LoadStep
<1>6. CASE UNCHANGED vars
  <2>1. GuardInv'
        BY <1>6, IdleStep DEF vars
  <2> QED BY <1>6, <2>1 DEF vars, ProxyInv, TypeOK
<1> QED BY <1>1, <1>2, <1>3, <1>4, <1>5, <1>6 DEF Next

(* The inductive invariant of the directory.                               *)
LEMMA ProxyInvariant == Spec => []ProxyInv
BY InitProxy, StepProxy, PTL DEF Spec

(* The dictionaries, cursors and stages keep their types; a node that is   *)
(* picked always gives a key.                                              *)
THEOREM ProxyTypeCorrect == Spec => []TypeOK
BY ProxyInvariant, PTL DEF ProxyInv

(* Nobody waits for an event that nobody will set, however many requests,  *)
(* reloads and cancellations there are.                                    *)
THEOREM NoLostWakeUp == Spec => []WaitersHaveOwner
BY ProxyInvariant, PTL DEF ProxyInv, GuardInv

LEMMA OneFlight == ProxyInv => SingleFlight
<1> SUFFICES ASSUME ProxyInv, NEW p \in Process, NEW q \in Process,
                    Fetching(p), Fetching(q), p # q, key[p] = key[q],
                    key[p] \notin orphaned
             PROVE  FALSE
    BY DEF SingleFlight
<1>1. events[key[p]] = p /\ events[key[q]] = q
      BY DEF ProxyInv, GuardInv, FetchersKnown
<1> QED BY <1>1

(* Two guarded fetches of one key need a reload that dropped the event of  *)
(* one of them; until then there is one call per key.                      *)
THEOREM GuardIsSingleFlight == Spec => []SingleFlight
BY ProxyInvariant, OneFlight, PTL

-----------------------------------------------------------------------------
(* What is withdrawn stays withdrawn: a second invariant, about the        *)
(* numbers of the fetches that bundles come from.                          *)

(* Bundles withdrawn were fetched; the operator's own cookies never are.   *)
WithdrawnInv == \A n \in withdrawn : n \in 1 .. fetched

(* A bundle that may be handed out has not been withdrawn, and none but    *)
(* the operator's cookies is under two keys.                               *)
BundlesInv ==
    \A k \in DOMAIN bundles :
       /\ bundles[k].id \in 0 .. fetched
       /\ bundles[k].valid => bundles[k].id \notin withdrawn
       /\ \A l \in DOMAIN bundles :
             bundles[l].id = bundles[k].id /\ bundles[k].id # MANUAL => l = k

(* A lease's bundle is the one of its key, if it is there at all: that is  *)
(* the one a challenge invalidates.                                        *)
LeasesInv ==
    \A r \in Request :
       /\ pc[r] # "leased" => served[r] = NoClearance
       /\ served[r] # NoClearance => served[r] \in 0 .. fetched
       /\ \A k \in DOMAIN bundles :
             bundles[k].id = served[r] /\ served[r] # MANUAL => k = key[r]

FreshInv == WithdrawnInv /\ BundlesInv /\ LeasesInv

NothingOld == \A r \in Request :
                 served'[r] # served[r] => served'[r] \notin withdrawn

(* A new bundle, of the next fetch or of the operator's cookies.           *)
LEMMA PutStep ==
    ASSUME ProxyInv, FreshInv, NEW k \in Key, NEW n \in Nat,
           bundles' = Put(bundles, k, [id |-> n, valid |-> TRUE]),
           withdrawn' = withdrawn,
           \/ n = MANUAL /\ fetched' = fetched
           \/ n = fetched + 1 /\ fetched' = fetched + 1
    PROVE  /\ WithdrawnInv' /\ BundlesInv'
           /\ k \in DOMAIN bundles' /\ bundles'[k].id = n
           /\ n \notin withdrawn
           /\ \A l \in DOMAIN bundles' \ {k} :
                 l \in DOMAIN bundles /\ bundles'[l] = bundles[l]
<1>1. /\ DOMAIN bundles' = DOMAIN bundles \cup {k}
      /\ bundles'[k] = [id |-> n, valid |-> TRUE]
      /\ \A l \in DOMAIN bundles' \ {k} :
            l \in DOMAIN bundles /\ bundles'[l] = bundles[l]
      BY DEF Put
<1>2. fetched \in Nat
      BY DEF ProxyInv, TypeOK
<1>3. WithdrawnInv'
      BY <1>2 DEF FreshInv, WithdrawnInv
<1>4. n \notin withdrawn
      BY <1>2 DEF FreshInv, WithdrawnInv, MANUAL
<1>5. \A l \in DOMAIN bundles : bundles[l].id \in 0 .. fetched
      BY DEF FreshInv, BundlesInv
<1>6. \A l \in DOMAIN bundles' \ {k} :
         /\ bundles[l].id \in 0 .. fetched'
         /\ bundles[l].valid => bundles[l].id \notin withdrawn
         /\ bundles[l].id = n => n = MANUAL
      BY <1>1, <1>2, <1>5 DEF FreshInv, BundlesInv
<1>7. /\ n \in 0 .. fetched'
      /\ bundles'[k].id = n
      BY <1>1, <1>2 DEF MANUAL
<1>8. BundlesInv'
  <2> SUFFICES ASSUME NEW x \in DOMAIN bundles'
               PROVE /\ bundles'[x].id \in 0 .. fetched'
                     /\ bundles'[x].valid => bundles'[x].id \notin withdrawn'
                     /\ \A l \in DOMAIN bundles' :
                           bundles'[l].id = bundles'[x].id
                             /\ bundles'[x].id # MANUAL => l = x
      BY Zenon DEF BundlesInv
  <2>1. CASE x = k
        BY <1>1, <1>4, <1>6, <1>7, <2>1
  <2>2. CASE x # k
    <3>1. x \in DOMAIN bundles /\ bundles'[x] = bundles[x]
          BY <1>1, <2>2
    <3>2. ASSUME NEW l \in DOMAIN bundles',
                 bundles'[l].id = bundles'[x].id, bundles'[x].id # MANUAL
          PROVE  l = x
      <4>1. CASE l = k
            BY <1>6, <1>7, <2>2, <3>1, <3>2, <4>1
      <4>2. CASE l # k
        <5>1. l \in DOMAIN bundles /\ bundles'[l] = bundles[l]
              BY <1>1, <4>2
        <5>2. bundles[l].id = bundles[x].id /\ bundles[x].id # MANUAL
              BY <3>1, <3>2, <5>1, Zenon
        <5> QED BY <3>1, <5>1, <5>2, Zenon DEF FreshInv, BundlesInv
      <4> QED BY <4>1, <4>2
    <3> QED BY <1>6, <2>2, <3>1, <3>2
  <2> QED BY <2>1, <2>2
<1> QED BY <1>1, <1>3, <1>4, <1>7, <1>8

(* Every lease is as it was, or is of the bundle of its key by now.        *)
LEMMA LeasesStep ==
    ASSUME ProxyInv, FreshInv, BundlesInv',
           fetched' = fetched \/ fetched' = fetched + 1,
           \A k \in DOMAIN bundles' :
              \/ k \in DOMAIN bundles /\ bundles'[k].id = bundles[k].id
              \/ bundles'[k].id = MANUAL
              \/ fetched' = fetched + 1 /\ bundles'[k].id = fetched',
           \A r \in Request :
              \/ served'[r] = NoClearance
              \/ /\ pc'[r] = "leased"
                 /\ served'[r] = served[r] /\ key'[r] = key[r]
              \/ /\ pc'[r] = "leased"
                 /\ key'[r] \in DOMAIN bundles'
                 /\ bundles'[key'[r]].id = served'[r]
    PROVE  LeasesInv'
<1> SUFFICES ASSUME NEW r \in Request
             PROVE /\ pc'[r] # "leased" => served'[r] = NoClearance
                   /\ served'[r] # NoClearance => served'[r] \in 0 .. fetched'
                   /\ \A k \in DOMAIN bundles' :
                         bundles'[k].id = served'[r] /\ served'[r] # MANUAL
                           => k = key'[r]
    BY DEF LeasesInv
<1>1. /\ fetched \in Nat /\ NoClearance \notin Nat
      /\ \A k \in DOMAIN bundles' : bundles'[k].id \in 0 .. fetched'
      BY MarkersAssumption DEF ProxyInv, TypeOK, BundlesInv
<1>2. CASE served'[r] = NoClearance
      BY <1>1, <1>2
<1>3. CASE /\ pc'[r] = "leased"
           /\ served'[r] = served[r] /\ key'[r] = key[r]
  <2>1. /\ served[r] # NoClearance => served[r] \in 0 .. fetched
        /\ \A k \in DOMAIN bundles :
              bundles[k].id = served[r] /\ served[r] # MANUAL => k = key[r]
        BY DEF FreshInv, LeasesInv
  <2> QED BY <1>1, <1>3, <2>1
<1>4. CASE /\ pc'[r] = "leased"
           /\ key'[r] \in DOMAIN bundles'
           /\ bundles'[key'[r]].id = served'[r]
      BY <1>1, <1>4 DEF BundlesInv
<1> QED BY <1>2, <1>3, <1>4

(* Who holds no lease has no bundle; only leases are left alone.           *)
LEMMA NoLeaseNothing ==
    ASSUME FreshInv, NEW r \in Request, pc[r] # "leased"
    PROVE  served[r] = NoClearance
BY DEF FreshInv, LeasesInv

(* A turn of the guard hands out what is there and valid.                  *)
LEMMA GuardFresh ==
    ASSUME ProxyInv, FreshInv, NEW p \in Process, NEW k \in Key,
           pc[p] # "leased", key' = [key EXCEPT ![p] = k],
           UNCHANGED <<fetched, withdrawn>>,
           Guard(p, k) \/ Unguarded(p)
    PROVE  FreshInv' /\ NothingOld
<1> USE DEF ProxyInv, TypeOK
<1>1. /\ NoClearance \notin withdrawn /\ Scheduler \notin Request
      /\ \A r \in Request : r \in Process
      BY MarkersAssumption DEF FreshInv, WithdrawnInv, Process
<1>2. ASSUME NEW got, Serve(p, got), pc' = [pc EXCEPT ![p] = Returns(p)],
             BundlesInv', got \notin withdrawn,
             \A l \in DOMAIN bundles' :
                \/ l \in DOMAIN bundles /\ bundles'[l].id = bundles[l].id
                \/ bundles'[l].id = MANUAL,
             \/ got = NoClearance
             \/ k \in DOMAIN bundles' /\ bundles'[k].id = got
      PROVE  FreshInv' /\ NothingOld
  <2>1. \A r \in Request : r # p => served'[r] = served[r] /\ pc'[r] = pc[r]
                                    /\ key'[r] = key[r]
        BY <1>2 DEF Serve
  <2>2. p \in Request => /\ served'[p] = got /\ pc'[p] = "leased"
                         /\ key'[p] = k
        BY <1>1, <1>2 DEF Serve, Returns
  <2>3. LeasesInv'
    <3>1. \A r \in Request :
             \/ served'[r] = NoClearance
             \/ /\ pc'[r] = "leased"
                /\ served'[r] = served[r] /\ key'[r] = key[r]
             \/ /\ pc'[r] = "leased"
                /\ key'[r] \in DOMAIN bundles'
                /\ bundles'[key'[r]].id = served'[r]
          BY <1>2, <2>1, <2>2, NoLeaseNothing
    <3> QED BY <1>2, <3>1, LeasesStep
  <2>4. NothingOld
        BY <1>2, <2>1, <2>2 DEF NothingOld
  <2> QED BY <1>2, <2>3, <2>4 DEF FreshInv, WithdrawnInv
<1>3. CASE Unguarded(p)
  <2>1. BundlesInv' /\ bundles' = bundles
        BY <1>3 DEF Unguarded, FreshInv, BundlesInv
  <2> QED BY <1>1, <1>2, <1>3, <2>1 DEF Unguarded
<1>4. CASE Cached(p, k)
  <2>1. /\ BundlesInv' /\ bundles' = bundles
        /\ k \in DOMAIN bundles /\ bundles[k].id \notin withdrawn
        BY <1>4 DEF Cached, Valid, FreshInv, BundlesInv
  <2> QED BY <1>2, <1>4, <2>1 DEF Cached
<1>5. CASE Waits(p, k) \/ Fetches(p, k)
  <2>1. /\ bundles' = bundles /\ served' = served
        /\ BundlesInv' /\ NothingOld
        BY <1>5 DEF Waits, Fetches, FreshInv, BundlesInv, NothingOld
  <2>2. \A r \in Request : r # p => pc'[r] = pc[r] /\ key'[r] = key[r]
        BY <1>1, <1>5 DEF Waits, Fetches
  <2>3. \A r \in Request : \/ served'[r] = NoClearance
                           \/ /\ pc'[r] = "leased"
                              /\ served'[r] = served[r] /\ key'[r] = key[r]
        BY <2>1, <2>2, NoLeaseNothing
  <2>4. LeasesInv'
        BY <2>1, <2>3, LeasesStep
  <2> QED BY <2>1, <2>4 DEF FreshInv, WithdrawnInv
<1>6. CASE BuildsAtOnce(p, k)
  <2> DEFINE built == loaded.clearance = "manual" /\ config.clearance = "manual"
  <2>1. CASE built
    <3>1. /\ bundles' = Put(bundles, k, [id |-> MANUAL, valid |-> TRUE])
          /\ Serve(p, MANUAL) /\ pc' = [pc EXCEPT ![p] = Returns(p)]
          BY <1>6, <2>1 DEF BuildsAtOnce
    <3>2. MANUAL \in Nat
          BY DEF MANUAL
    <3>3. /\ BundlesInv' /\ MANUAL \notin withdrawn
          /\ k \in DOMAIN bundles' /\ bundles'[k].id = MANUAL
          /\ \A l \in DOMAIN bundles' \ {k} :
                l \in DOMAIN bundles /\ bundles'[l] = bundles[l]
          BY <3>1, <3>2, PutStep
    <3> QED BY <1>2, <3>1, <3>3
  <2>2. CASE ~built
    <3>1. /\ bundles' = bundles
          /\ Serve(p, NoClearance) /\ pc' = [pc EXCEPT ![p] = Returns(p)]
          BY <1>6, <2>2 DEF BuildsAtOnce
    <3>2. BundlesInv'
          BY <3>1 DEF FreshInv, BundlesInv
    <3> QED BY <1>1, <1>2, <3>1, <3>2
  <2> QED BY <2>1, <2>2
<1> QED BY <1>3, <1>4, <1>5, <1>6 DEF Guard

(* FlareSolverr answers, or fails to.                                      *)
LEMMA FetchFresh ==
    ASSUME ProxyInv, FreshInv, NEW p \in Process, FetchEnds(p)
    PROVE  FreshInv' /\ NothingOld
<1> USE DEF ProxyInv, TypeOK
<1>1. /\ NoClearance \notin withdrawn /\ Scheduler \notin Request
      /\ \A r \in Request : r \in Process
      /\ fetched \in Nat /\ fetched + 1 \notin withdrawn
      BY MarkersAssumption DEF FreshInv, WithdrawnInv, Process
<1>2. /\ pc[p] = "fetching" /\ key' = key /\ withdrawn' = withdrawn
      /\ key[p] \in Key
      /\ WakeUp(p, Returns(p))
      BY DEF FetchEnds, FetchSucceeds, FetchFails, GuardInv, KeyChosen
<1>3. /\ p \in Request => pc'[p] = "leased"
      /\ \A r \in Request : r # p => pc'[r] = pc[r] \/ pc[r] # "leased"
      BY <1>1, <1>2 DEF WakeUp, Returns, Woken
<1>4. CASE FetchSucceeds(p)
  <2>1. /\ bundles' = Put(bundles, key[p], [id |-> fetched + 1, valid |-> TRUE])
        /\ fetched' = fetched + 1 /\ fetched + 1 \in Nat
        /\ Serve(p, fetched + 1)
        BY <1>1, <1>4 DEF FetchSucceeds
  <2>2. /\ WithdrawnInv' /\ BundlesInv'
        /\ key[p] \in DOMAIN bundles' /\ bundles'[key[p]].id = fetched + 1
        /\ \A l \in DOMAIN bundles' \ {key[p]} :
              l \in DOMAIN bundles /\ bundles'[l] = bundles[l]
        BY <1>2, <2>1, PutStep
  <2>3. /\ \A r \in Request : r # p => served'[r] = served[r]
        /\ p \in Request => served'[p] = fetched + 1
        BY <1>1, <2>1 DEF Serve
  <2>4. \A r \in Request :
           \/ served'[r] = NoClearance
           \/ /\ pc'[r] = "leased"
              /\ served'[r] = served[r] /\ key'[r] = key[r]
           \/ /\ pc'[r] = "leased"
              /\ key'[r] \in DOMAIN bundles'
              /\ bundles'[key'[r]].id = served'[r]
        BY <1>2, <1>3, <2>2, <2>3, NoLeaseNothing
  <2>5. \A l \in DOMAIN bundles' :
           \/ l \in DOMAIN bundles /\ bundles'[l].id = bundles[l].id
           \/ bundles'[l].id = MANUAL
           \/ fetched' = fetched + 1 /\ bundles'[l].id = fetched'
        BY <2>1, <2>2
  <2>6. LeasesInv'
        BY <2>1, <2>2, <2>4, <2>5, LeasesStep
  <2>7. NothingOld
        BY <1>1, <2>3 DEF NothingOld
  <2> QED BY <2>2, <2>6, <2>7 DEF FreshInv
<1>5. CASE FetchFails(p)
  <2>1. /\ bundles' = bundles /\ fetched' = fetched
        /\ Serve(p, NoClearance)
        BY <1>5 DEF FetchFails
  <2>2. WithdrawnInv' /\ BundlesInv'
        BY <1>2, <2>1 DEF FreshInv, WithdrawnInv, BundlesInv
  <2>3. \A r \in Request : served'[r] = IF r = p THEN NoClearance ELSE served[r]
        BY <1>1, <2>1 DEF Serve
  <2>4. \A r \in Request : \/ served'[r] = NoClearance
                           \/ /\ pc'[r] = "leased"
                              /\ served'[r] = served[r] /\ key'[r] = key[r]
        BY <1>2, <1>3, <2>3, NoLeaseNothing
  <2>5. LeasesInv'
        BY <2>1, <2>2, <2>4, LeasesStep
  <2>6. NothingOld
        BY <1>1, <2>3 DEF NothingOld
  <2> QED BY <2>2, <2>5, <2>6 DEF FreshInv
<1> QED BY <1>4, <1>5 DEF FetchEnds

(* A challenge withdraws the bundle of the lease, and invalidates the one  *)
(* of its key, which is the same if it is there.                           *)
LEMMA FeedbackFresh ==
    ASSUME ProxyInv, FreshInv, NEW r \in Request, NEW verdict \in Verdict,
           Feedback(r, verdict)
    PROVE  FreshInv' /\ NothingOld
<1> USE DEF ProxyInv, TypeOK
<1>1. NoClearance \notin withdrawn
      BY MarkersAssumption DEF FreshInv, WithdrawnInv
<1>2. /\ fetched' = fetched /\ fetched \in Nat
      /\ pc' = [pc EXCEPT ![r] = "done"] /\ key' = [key EXCEPT ![r] = NoKey]
      /\ served' = [served EXCEPT ![r] = NoClearance]
      /\ r \in Process
      BY DEF Feedback, Forgets, Process
<1>3. /\ DOMAIN bundles' = DOMAIN bundles
      /\ \A k \in DOMAIN bundles :
            /\ bundles'[k].id = bundles[k].id
            /\ bundles'[k].valid => bundles[k].valid
            /\ verdict = "challenged" /\ k = key[r] => ~bundles'[k].valid
  <2>1. CASE /\ bundles' = bundles
             /\ ~(verdict = "challenged" /\ key[r] \in DOMAIN bundles)
        BY <2>1
  <2>2. CASE bundles' = [bundles EXCEPT ![key[r]].valid = FALSE]
        BY <2>2 DEF Bundle
  <2> QED BY <2>1, <2>2 DEF Feedback
<1>4. /\ withdrawn' = withdrawn \/ verdict = "challenged"
      /\ \A n \in withdrawn' : \/ n \in withdrawn
                               \/ n = served[r] /\ n \notin {NoClearance, MANUAL}
      BY DEF Feedback
<1>5. /\ served[r] # NoClearance => served[r] \in 0 .. fetched
      /\ \A k \in DOMAIN bundles :
            bundles[k].id = served[r] /\ served[r] # MANUAL => k = key[r]
      BY DEF FreshInv, LeasesInv
<1>6. WithdrawnInv'
      BY <1>2, <1>4, <1>5 DEF FreshInv, WithdrawnInv, MANUAL
<1>7. BundlesInv'
  <2>1. \A k \in DOMAIN bundles : bundles'[k].valid
                                    => bundles[k].id \notin withdrawn'
        BY <1>3, <1>4, <1>5 DEF FreshInv, BundlesInv
  <2> QED BY <1>2, <1>3, <2>1 DEF FreshInv, BundlesInv
<1>8. \A q \in Request : \/ served'[q] = NoClearance
                         \/ /\ pc'[q] = "leased"
                            /\ served'[q] = served[q] /\ key'[q] = key[q]
      BY <1>2, NoLeaseNothing DEF Process
<1>9. LeasesInv'
      BY <1>2, <1>3, <1>7, <1>8, LeasesStep
<1>10. NothingOld
       BY <1>1, <1>2 DEF NothingOld
<1> QED BY <1>6, <1>7, <1>9, <1>10 DEF FreshInv

(* A reload withdraws all bundles, and leaves none that is valid.          *)
LEMMA LoadFresh ==
    ASSUME ProxyInv, FreshInv, Load
    PROVE  FreshInv' /\ NothingOld
<1> USE DEF ProxyInv, TypeOK
<1>1. /\ UNCHANGED <<pc, key, served, fetched>> /\ fetched \in Nat
      /\ DOMAIN bundles' \subseteq DOMAIN bundles
      /\ \A k \in DOMAIN bundles' : /\ bundles'[k].id = bundles[k].id
                                    /\ ~bundles'[k].valid
      BY DEF Load, Keeps, Bundle
<1>2. WithdrawnInv'
  <2>1. \A n \in withdrawn' : \/ n \in withdrawn
                              \/ \E k \in DOMAIN bundles :
                                    n = bundles[k].id /\ n # MANUAL
        BY DEF Load
  <2> QED BY <1>1, <2>1 DEF FreshInv, WithdrawnInv, BundlesInv, MANUAL
<1>3. BundlesInv'
      BY <1>1 DEF FreshInv, BundlesInv
<1>4. LeasesInv'
      BY <1>1 DEF FreshInv, LeasesInv
<1> QED BY <1>1, <1>2, <1>3, <1>4 DEF FreshInv, NothingOld

(* A step that neither serves nor invalidates.                             *)
LEMMA QuietFresh ==
    ASSUME ProxyInv, FreshInv,
           UNCHANGED <<bundles, served, fetched, withdrawn>>,
           \A r \in Request : key'[r] = key[r] /\ pc'[r] = pc[r]
    PROVE  FreshInv' /\ NothingOld
BY DEF FreshInv, WithdrawnInv, BundlesInv, LeasesInv, NothingOld

LEMMA CancelledFresh ==
    ASSUME ProxyInv, FreshInv, NEW r \in Request, Cancelled(r)
    PROVE  FreshInv' /\ NothingOld
<1> USE DEF ProxyInv, TypeOK
<1>1. NoClearance \notin withdrawn
      BY MarkersAssumption DEF FreshInv, WithdrawnInv
<1>2. /\ UNCHANGED <<bundles, fetched, withdrawn>>
      /\ key' = [key EXCEPT ![r] = NoKey]
      /\ served' = [served EXCEPT ![r] = NoClearance]
      /\ WakeUp(r, "done")
      BY DEF Cancelled, Forgets
<1>3. \A q \in Request : q # r => /\ pc'[q] = pc[q] \/ pc[q] # "leased"
                                  /\ key'[q] = key[q]
      BY <1>2 DEF WakeUp, Woken, Process
<1>4. \A q \in Request : \/ served'[q] = NoClearance
                         \/ /\ pc'[q] = "leased"
                            /\ served'[q] = served[q] /\ key'[q] = key[q]
      BY <1>2, <1>3, NoLeaseNothing
<1>5. WithdrawnInv' /\ BundlesInv'
      BY <1>2 DEF FreshInv, WithdrawnInv, BundlesInv
<1>6. LeasesInv'
      BY <1>2, <1>4, <1>5, LeasesStep
<1>7. NothingOld
      BY <1>1, <1>2 DEF NothingOld
<1> QED BY <1>5, <1>6, <1>7 DEF FreshInv

(* The scheduler serves nobody; what it puts under a key is new.           *)
LEMMA SchedulerFresh ==
    ASSUME ProxyInv, FreshInv, SchedulerStep
    PROVE  FreshInv' /\ NothingOld
<1> USE DEF ProxyInv, TypeOK
<1>1. Scheduler \in Process /\ Scheduler \notin Request
      BY MarkersAssumption DEF Process
<1>2. ASSUME NEW k \in Key, NEW n \in Nat,
             bundles' = Put(bundles, k, [id |-> n, valid |-> TRUE]),
             UNCHANGED <<served, key, withdrawn>>,
             \/ n = MANUAL /\ fetched' = fetched
             \/ n = fetched + 1 /\ fetched' = fetched + 1,
             \A r \in Request : pc'[r] = pc[r]
      PROVE  FreshInv' /\ NothingOld
  <2>1. /\ WithdrawnInv' /\ BundlesInv'
        /\ bundles'[k].id = n
        /\ \A l \in DOMAIN bundles' \ {k} :
              l \in DOMAIN bundles /\ bundles'[l] = bundles[l]
        BY <1>2, PutStep
  <2>2. \A l \in DOMAIN bundles' :
           \/ l \in DOMAIN bundles /\ bundles'[l].id = bundles[l].id
           \/ bundles'[l].id = MANUAL
           \/ fetched' = fetched + 1 /\ bundles'[l].id = fetched'
        BY <1>2, <2>1
  <2>3. \A r \in Request : \/ served'[r] = NoClearance
                           \/ /\ pc'[r] = "leased"
                              /\ served'[r] = served[r] /\ key'[r] = key[r]
        BY <1>2, NoLeaseNothing
  <2>4. LeasesInv'
        BY <1>2, <2>1, <2>2, <2>3, LeasesStep
  <2> QED BY <1>2, <2>1, <2>4 DEF FreshInv, NothingOld
<1>3. CASE WarmUp \/ Refresh \/ RefreshFails
  <2>1. /\ UNCHANGED <<bundles, served, fetched, withdrawn, key>>
        /\ \A r \in Request : pc'[r] = pc[r]
        BY <1>1, <1>3 DEF WarmUp, Refresh, RefreshFails, Process
  <2> QED BY <2>1, QuietFresh
<1>4. ASSUME NEW k \in todo, WarmUpVisit(k)
      PROVE  FreshInv' /\ NothingOld
  <2>1. /\ k \in Key /\ pc[Scheduler] # "leased"
        /\ key' = [key EXCEPT ![Scheduler] = k]
        /\ UNCHANGED <<fetched, withdrawn>>
        /\ Guard(Scheduler, k) \/ Unguarded(Scheduler)
        BY <1>4 DEF WarmUpVisit
  <2> QED BY <1>1, <2>1, GuardFresh
<1>5. ASSUME NEW k \in todo, RefreshAtOnce(k)
      PROVE  FreshInv' /\ NothingOld
  <2>1. /\ k \in Key /\ MANUAL \in Nat
        /\ UNCHANGED <<served, key, fetched, withdrawn, pc>>
        /\ \/ bundles' = Put(bundles, k, [id |-> MANUAL, valid |-> TRUE])
           \/ bundles' = bundles
        BY <1>5 DEF RefreshAtOnce, MANUAL
  <2>2. CASE bundles' = Put(bundles, k, [id |-> MANUAL, valid |-> TRUE])
        BY <1>2, <2>1, <2>2
  <2>3. CASE bundles' = bundles
        BY <2>1, <2>3, QuietFresh
  <2> QED BY <2>1, <2>2, <2>3
<1>6. ASSUME NEW k \in todo, RefreshCalls(k)
      PROVE  FreshInv' /\ NothingOld
  <2>1. /\ UNCHANGED <<bundles, served, fetched, withdrawn>>
        /\ \A r \in Request : pc'[r] = pc[r] /\ key'[r] = key[r]
        BY <1>1, <1>6 DEF RefreshCalls, Process
  <2> QED BY <2>1, QuietFresh
<1>7. CASE RefreshSucceeds
  <2>1. key[Scheduler] \in Key
        BY <1>1, <1>7 DEF RefreshSucceeds, GuardInv, KeyChosen
  <2>2. /\ bundles' = Put(bundles, key[Scheduler],
                          [id |-> fetched + 1, valid |-> TRUE])
        /\ fetched' = fetched + 1 /\ fetched + 1 \in Nat
        /\ UNCHANGED <<served, key, withdrawn>>
        /\ \A r \in Request : pc'[r] = pc[r]
        BY <1>1, <1>7 DEF RefreshSucceeds
  <2> QED BY <1>2, <2>1, <2>2
<1> QED BY <1>3, <1>4, <1>5, <1>6, <1>7 DEF SchedulerStep

LEMMA StepFresh ==
    ASSUME ProxyInv, FreshInv, [Next]_vars
    PROVE  FreshInv' /\ NothingOld
<1>1. ASSUME NEW r \in Request, NEW resource \in BOOLEAN, NEW host \in Host,
             Acquire(r, resource, host)
      PROVE  FreshInv' /\ NothingOld
  <2> DEFINE k == <<Affinity(PickProxyUrl(resource)), host>>
  <2>1. k \in Key
        BY Picked DEF ProxyInv, Key
  <2>2. /\ pc[r] = "new" /\ key' = [key EXCEPT ![r] = k]
        /\ Guard(r, k) \/ Unguarded(r)
        /\ UNCHANGED <<fetched, withdrawn>> /\ r \in Process
        BY <1>1 DEF Acquire, Process
  <2> HIDE DEF k
  <2> QED BY <2>1, <2>2, GuardFresh
<1>2. ASSUME NEW p \in Process, Retry(p)
      PROVE  FreshInv' /\ NothingOld
  <2>1. key[p] \in Key
        BY <1>2 DEF Retry, ProxyInv, GuardInv, KeyChosen
  <2>2. /\ pc[p] # "leased" /\ key' = [key EXCEPT ![p] = key[p]]
        /\ Guard(p, key[p])
        /\ UNCHANGED <<fetched, withdrawn>>
        BY <1>2, SameKey DEF Retry, ProxyInv
  <2> QED BY <2>1, <2>2, GuardFresh
<1>3. ASSUME NEW r \in Request, RequestStep(r)
      PROVE  FreshInv' /\ NothingOld
      BY <1>1, <1>3, CancelledFresh, FeedbackFresh DEF RequestStep
<1>4. ASSUME NEW p \in Process, FetchEnds(p) \/ Retry(p)
      PROVE  FreshInv' /\ NothingOld
      BY <1>2, <1>4, FetchFresh
<1>5. CASE (\E c \in Config : Reconfigure(c)) \/ UNCHANGED vars
      BY <1>5, QuietFresh DEF Reconfigure, vars
<1> QED BY <1>3, <1>4, <1>5, SchedulerFresh, LoadFresh DEF Next

LEMMA InitFresh == Init => FreshInv
BY DEF Init, FreshInv, WithdrawnInv, BundlesInv, LeasesInv

(* A bundle that was challenged or that a reload has invalidated is handed *)
(* out no more, for any number of requests that wait for, fetch or hold it *)
(* at the time (feedback, load, _get_or_build_bundle).                     *)
THEOREM WithdrawnStaysAway == Spec => WithdrawnNotServed
<1>1. ProxyInv /\ FreshInv /\ [Next]_vars => FreshInv' /\ [NothingOld]_vars
      BY StepFresh
<1> QED BY <1>1, InitFresh, ProxyInvariant, PTL
        DEF Spec, WithdrawnNotServed, NothingOld
=============================================================================
