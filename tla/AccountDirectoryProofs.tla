----------------------- MODULE AccountDirectoryProofs -----------------------
(***************************************************************************)
(* The directory's type correctness, the exactness of its availability     *)
(* index and of its in-flight counters, for every set of accounts,         *)
(* requests, pools, modes and records.                                     *)
(***************************************************************************)
EXTENDS AccountDirectory, FiniteSetTheorems, TLAPS

(* What a request's stage says of its plan and its lease.                  *)
StageInv ==
    \A r \in Request :
       /\ pc[r] # "idle" => plan[r] \in Plan
       /\ pc[r] \in {"held", "running"} <=> lease[r] # NoLease
       /\ lease[r] # NoLease => lease[r].token \in DOMAIN slot

(* Selection looks at indexed accounts, requests hold accounts with a      *)
(* slot: TypeOK cannot be shown without StageInv and IndexExact.           *)
DirectoryInv == TypeOK /\ StageInv /\ IndexExact /\ InflightExact

-----------------------------------------------------------------------------
(* Slots.                                                                  *)

LEMMA StatusChange ==
    ASSUME NEW s \in Slot, NEW st \in Status
    PROVE  [s EXCEPT !.status = st] \in Slot
BY DEF Slot

LEMMA QuotaChange ==
    ASSUME NEW s \in Slot, NEW m \in Mode, NEW q \in Int
    PROVE  /\ [s EXCEPT !.quota[m] = q] \in Slot
           /\ [s EXCEPT !.quota[m] = q].pool = s.pool
           /\ [s EXCEPT !.quota[m] = q].status = s.status
           /\ [s EXCEPT !.quota[m] = q].window = s.window
BY DEF Slot

(* A page of a sync leaves a well-typed table.                             *)
LEMMA PageType ==
    ASSUME NEW page \in Pages
    PROVE  /\ DOMAIN page \subseteq Token
           /\ \A t \in DOMAIN page : page[t] # Gone => page[t] \in Slot
BY RecordAssumption DEF Pages

(* Renewing windows changes quotas and resets only.                        *)
LEMMA RenewType ==
    ASSUME TypeOK, NEW X, NEW ts \in Nat, RenewWindows(X, ts)
    PROVE  /\ slot' \in [DOMAIN slot -> Slot]
           /\ DOMAIN slot' = DOMAIN slot
           /\ limited' \subseteq limited
           /\ \A t \in DOMAIN slot : /\ slot'[t].pool = slot[t].pool
                                     /\ slot'[t].status = slot[t].status
                                     /\ slot'[t].window = slot[t].window
<1> DEFINE q(t) == [m \in Mode |-> IF <<t, m>> \in X THEN slot[t].total[m]
                                                   ELSE slot[t].quota[m]]
           z(t) == [m \in Mode |-> IF <<t, m>> \in X THEN ts + slot[t].window[m]
                                                   ELSE slot[t].reset[m]]
<1>1. ASSUME NEW t \in DOMAIN slot
      PROVE  /\ slot'[t] = [slot[t] EXCEPT !.quota = q(t), !.reset = z(t)]
             /\ slot[t] \in Slot
      BY <1>1 DEF TypeOK, RenewWindows
<1>2. ASSUME NEW t \in DOMAIN slot
      PROVE  q(t) \in [Mode -> Int] /\ z(t) \in [Mode -> Nat]
  <2>1. slot[t] \in Slot
        BY <1>2, <1>1
  <2>2. \A m \in Mode : /\ slot[t].total[m] \in Nat /\ slot[t].quota[m] \in Int
                        /\ slot[t].window[m] \in Nat /\ slot[t].reset[m] \in Nat
        BY <2>1 DEF Slot
  <2> QED BY <2>2
<1>3. ASSUME NEW t \in DOMAIN slot
      PROVE  /\ slot'[t] \in Slot
             /\ slot'[t].pool = slot[t].pool
             /\ slot'[t].status = slot[t].status
             /\ slot'[t].window = slot[t].window
  <2>1. q(t) \in [Mode -> Int] /\ z(t) \in [Mode -> Nat]
        BY <1>3, <1>2
  <2>2. slot'[t] = [slot[t] EXCEPT !.quota = q(t), !.reset = z(t)]
        BY <1>3, <1>1
  <2>3. PICK qs \in [Mode -> Int], zs \in [Mode -> Nat] :
           slot'[t] = [slot[t] EXCEPT !.quota = qs, !.reset = zs]
        BY <2>1, <2>2
  <2>4. slot[t] \in Slot
        BY <1>3, <1>1
  <2> HIDE DEF q, z
  <2> QED BY ONLY <2>3, <2>4 DEF Slot
<1>4. DOMAIN slot' = DOMAIN slot /\ limited' \subseteq limited
      BY DEF RenewWindows
<1>5. slot' = [t \in DOMAIN slot |-> slot'[t]]
      BY DEF RenewWindows
<1> QED BY <1>3, <1>4, <1>5

-----------------------------------------------------------------------------
(* Counting the holders of an account.                                     *)

LEMMA HoldersFinite ==
    ASSUME NEW t
    PROVE  /\ IsFiniteSet(Holders(t))
           /\ Cardinality(Holders(t)) \in Nat
           /\ Cardinality(Holders(t)) <= Cardinality(Request)
           /\ Holders(t) \subseteq Request
BY InflightAssumption, FS_Subset, FS_CardinalityType DEF Holders

LEMMA OneMoreHolder ==
    ASSUME NEW r \in Request, NEW S \in SUBSET Request, r \notin S
    PROVE  /\ Cardinality(S \cup {r}) = Cardinality(S) + 1
           /\ Cardinality(S) + 1 <= Cardinality(Request)
           /\ Cardinality(S) \in Nat
<1>1. IsFiniteSet(S) /\ IsFiniteSet(S \cup {r})
      BY InflightAssumption, FS_Subset
<1>2. Cardinality(S \cup {r}) = Cardinality(S) + 1
      BY <1>1, FS_AddElement
<1>3. Cardinality(S \cup {r}) <= Cardinality(Request)
      BY InflightAssumption, FS_Subset
<1> QED BY <1>1, <1>2, <1>3, FS_CardinalityType

LEMMA OneHolderLess ==
    ASSUME NEW S \in SUBSET Request, NEW r \in S
    PROVE  /\ Cardinality(S \ {r}) = Cardinality(S) - 1
           /\ Cardinality(S) \in Nat /\ Cardinality(S) >= 1
<1>1. IsFiniteSet(S)
      BY InflightAssumption, FS_Subset
<1>2. Cardinality(S \ {r}) = Cardinality(S) - 1
      BY <1>1, FS_RemoveElement
<1>3. Cardinality(S) \in Nat /\ Cardinality(S \ {r}) \in Nat
      BY <1>1, FS_Subset, FS_CardinalityType
<1> QED BY <1>2, <1>3

-----------------------------------------------------------------------------
(* Type correctness, one action at a time.                                 *)

LEMMA ReindexedType ==
    ASSUME TypeOK, NEW S, NEW live, DOMAIN live \subseteq Token
    PROVE  Reindexed(S, live) \in [Pool \X Mode -> SUBSET Token]
BY DEF TypeOK, Reindexed

LEMMA SyncType ==
    ASSUME TypeOK, NEW page \in Pages, Sync(page)
    PROVE  TypeOK'
<1> DEFINE live == [t \in {u \in DOMAIN page : page[u] # Gone} |-> page[t]]
           dead == {t \in DOMAIN slot \cap DOMAIN page : page[t] = Gone}
<1>1. /\ DOMAIN live \subseteq Token
      /\ \A t \in DOMAIN live : live[t] \in Slot
      BY PageType
<1>2. available' \in [Pool \X Mode -> SUBSET Token]
      BY <1>1, ReindexedType DEF Sync
<1>3. slot' = [t \in DOMAIN slot \cup DOMAIN live |->
                 IF t \in DOMAIN live THEN live[t]
                 ELSE IF t \in dead THEN [slot[t] EXCEPT !.status = "deleted"]
                      ELSE slot[t]]
      BY DEF Sync
<1>4. /\ slot' \in [DOMAIN slot' -> Slot]
      /\ DOMAIN slot' \subseteq Token
  <2>1. ASSUME NEW t \in DOMAIN slot PROVE slot[t] \in Slot
        BY DEF TypeOK
  <2>2. ASSUME NEW t \in DOMAIN slot
        PROVE  [slot[t] EXCEPT !.status = "deleted"] \in Slot
        BY <2>1, StatusChange DEF Status
  <2>3. DOMAIN slot \subseteq Token
        BY DEF TypeOK
  <2> HIDE DEF live, dead
  <2> QED BY <1>1, <1>3, <2>1, <2>2, <2>3
<1>5. limited' \subseteq limited
      BY DEF Sync
<1>6. UNCHANGED <<inflight, cooling, strategy, now, requestVars, rested, leaked>>
      BY DEF Sync
<1> HIDE DEF live, dead
<1> QED BY <1>2, <1>4, <1>5, <1>6 DEF TypeOK, requestVars

(* A request that is looking for an account: where a turn leads.           *)
LEMMA TurnType ==
    ASSUME NEW r \in Request, plan[r] \in Plan, NEW c \in Turns(r)
    PROVE  /\ plan[r].modes[c[1]] \in Mode
           /\ plan[r].pools[c[2]] \in Pool
           /\ plan[r].eager \in BOOLEAN
<1>1. /\ plan[r].modes \in Seq(Mode)
      /\ plan[r].pools \in Seq(Pool)
      /\ plan[r].eager \in BOOLEAN
      BY PlanAssumption DEF PlanType
<1>2. c[1] \in DOMAIN plan[r].modes /\ c[2] \in DOMAIN plan[r].pools
      BY DEF Turns
<1> QED BY <1>1, <1>2

LEMMA WorkingIndexed ==
    ASSUME TypeOK, IndexExact, NEW r \in Request, plan[r] \in Plan,
           NEW c \in Turns(r), NEW ts, NEW t \in WorkingAt(r, c, ts)
    PROVE  t \in DOMAIN slot /\ t \in Token
<1>1. t \in PoolUnion(plan[r].pools[c[2]]) /\ plan[r].pools[c[2]] \in Pool
      BY TurnType DEF WorkingAt, Working
<1>2. PICK m \in Mode : t \in available[<<plan[r].pools[c[2]], m>>]
      BY <1>1 DEF PoolUnion
<1>3. <<plan[r].pools[c[2]], m>> \in Pool \X Mode
      BY <1>1
<1>4. t \in DOMAIN slot
      BY <1>2, <1>3 DEF IndexExact
<1> QED BY <1>4 DEF TypeOK

(* What Grant does, without the selection.                                 *)
LEMMA GrantEffect ==
    ASSUME TypeOK, IndexExact, NEW r \in Request, plan[r] \in Plan,
           NEW ts \in Nat, Grant(r, ts)
    PROVE  /\ \E t \in DOMAIN slot, m \in Mode :
                 /\ inflight' = [inflight EXCEPT ![t] =
                       IF @ + 1 < InflightLimit THEN @ + 1 ELSE InflightLimit]
                 /\ lease' = [lease EXCEPT ![r] = [token |-> t, mode |-> m]]
           /\ \E st \in {"held", "running"} : pc' = [pc EXCEPT ![r] = st]
           /\ \E X : RenewWindows(X, ts)
           /\ UNCHANGED <<available, cooling, strategy, now, plan, attempt,
                          retries, excluded, asked, rested, leaked>>
<1>1. PICK c \in Turns(r) : \E t \in WorkingAt(r, c, ts) :
         /\ \E X : RenewWindows(X, ts)
         /\ inflight' = [inflight EXCEPT ![t] =
               IF @ + 1 < InflightLimit THEN @ + 1 ELSE InflightLimit]
         /\ lease' = [lease EXCEPT ![r] = [token |-> t,
                                           mode |-> plan[r].modes[c[1]]]]
         /\ pc' = [pc EXCEPT ![r] = IF plan[r].eager THEN "held" ELSE "running"]
         /\ UNCHANGED <<available, cooling, strategy, now, plan, attempt,
                        retries, excluded, asked, rested, leaked>>
      BY ONLY Grant(r, ts) DEF Grant
<1>2. \A t \in WorkingAt(r, c, ts) : t \in DOMAIN slot
      BY WorkingIndexed
<1>3. plan[r].modes[c[1]] \in Mode
      BY TurnType
<1> QED BY <1>1, <1>2, <1>3

LEMMA GrantType ==
    ASSUME TypeOK, IndexExact, NEW r \in Request, plan[r] \in Plan,
           NEW ts \in Nat, Grant(r, ts)
    PROVE  TypeOK'
<1>1. PICK t \in DOMAIN slot, m \in Mode :
         /\ inflight' = [inflight EXCEPT ![t] =
               IF @ + 1 < InflightLimit THEN @ + 1 ELSE InflightLimit]
         /\ lease' = [lease EXCEPT ![r] = [token |-> t, mode |-> m]]
      BY GrantEffect
<1>2. PICK st \in {"held", "running"} : pc' = [pc EXCEPT ![r] = st]
      BY GrantEffect
<1>3. PICK X : RenewWindows(X, ts)
      BY GrantEffect
<1>4. UNCHANGED <<available, cooling, strategy, now, plan, attempt,
                  retries, excluded, asked, rested, leaked>>
      BY GrantEffect
<1>5. /\ slot' \in [DOMAIN slot' -> Slot] /\ DOMAIN slot' \subseteq Token
      /\ limited' \subseteq limited
      BY <1>3, RenewType DEF TypeOK
<1>6. inflight' \in [Token -> 0..InflightLimit]
      BY <1>1, InflightAssumption DEF TypeOK
<1>7. lease' \in [Request -> Lease \cup {NoLease}]
      BY <1>1 DEF TypeOK, Lease
<1>8. pc' \in [Request -> Stage]
      BY <1>2 DEF TypeOK, Stage
<1> QED BY <1>4, <1>5, <1>6, <1>7, <1>8 DEF TypeOK

LEMMA EndsType ==
    ASSUME TypeOK, NEW r \in Request, Ends(r)
    PROVE  /\ pc' \in [Request -> Stage]
           /\ plan' \in [Request -> Plan \cup {NoPlan}]
           /\ lease' \in [Request -> Lease \cup {NoLease}]
           /\ attempt' \in [Request -> Nat]
           /\ retries' \in [Request -> Nat]
           /\ excluded' \in [Request -> SUBSET Token]
           /\ asked' \in [Request -> Nat]
BY DEF TypeOK, Ends, Stage

LEMMA RejectType ==
    ASSUME TypeOK, NEW r \in Request, NEW ts \in Nat, Reject(r, ts)
    PROVE  TypeOK'
<1>1. PICK X : RenewWindows(X, ts)
      BY DEF Reject
<1>2. /\ slot' \in [DOMAIN slot' -> Slot] /\ DOMAIN slot' \subseteq Token
      /\ limited' \subseteq limited
      BY <1>1, RenewType DEF TypeOK
<1>3. Ends(r) /\ UNCHANGED <<available, inflight, cooling, strategy, now,
                             rested, leaked>>
      BY DEF Reject
<1> QED BY <1>2, <1>3, EndsType DEF TypeOK

LEMMA ReleaseType ==
    ASSUME TypeOK, NEW t, Release(t)
    PROVE  inflight' \in [Token -> 0..InflightLimit]
<1>1. \A n \in 0..InflightLimit : (IF n > 0 THEN n - 1 ELSE 0) \in 0..InflightLimit
      BY InflightAssumption
<1>2. inflight \in [Token -> 0..InflightLimit]
      BY DEF TypeOK
<1> QED BY <1>1, <1>2 DEF Release

(* The lease of a request that runs is of an account with a slot.          *)
LEMMA LeaseHeld ==
    ASSUME TypeOK, StageInv, NEW r \in Request, pc[r] \in {"held", "running"}
    PROVE  /\ lease[r] # NoLease
           /\ lease[r].token \in DOMAIN slot
           /\ lease[r].token \in Token
           /\ lease[r].mode \in Mode
           /\ plan[r] \in Plan
<1>1. lease[r] # NoLease /\ lease[r] \in Lease /\ lease[r].token \in DOMAIN slot
      BY DEF TypeOK, StageInv
<1> QED BY <1>1 DEF Lease, StageInv

LEMMA FeedbackType ==
    ASSUME TypeOK, StageInv, NEW r \in Request, pc[r] = "running",
           NEW outcome, Feedback(r, outcome)
    PROVE  /\ slot' \in [DOMAIN slot -> Slot]
           /\ available' \in [Pool \X Mode -> SUBSET Token]
           /\ cooling' \in [Token -> Nat]
           /\ limited' \in SUBSET (Token \X Mode)
           /\ rested' \in [Token -> Nat]
<1> DEFINE t == lease[r].token
           m == lease[r].mode
<1>1. t \in DOMAIN slot /\ t \in Token /\ m \in Mode
      BY LeaseHeld
<1>2. slot[t] \in Slot
      BY <1>1 DEF TypeOK
<1>3. \/ UnauthorizedFeedback(t) \/ SuccessFeedback(t, m)
      \/ RateLimitedFeedback(t, m) \/ HealthFeedback
      BY DEF Feedback
<1> HIDE DEF t, m
<1>4. CASE UnauthorizedFeedback(t)
  <2>1. slot' = [slot EXCEPT ![t] = [slot[t] EXCEPT !.status = "expired"]]
        BY <1>4, <1>1 DEF UnauthorizedFeedback
  <2>2. [slot[t] EXCEPT !.status = "expired"] \in Slot
        BY <1>2, StatusChange DEF Status
  <2>3. slot' \in [DOMAIN slot -> Slot]
        BY <2>1, <2>2, <1>1 DEF TypeOK
  <2>4. available' \in [Pool \X Mode -> SUBSET Token]
        BY <1>4, ReindexedType DEF UnauthorizedFeedback
  <2> QED BY <2>3, <2>4, <1>4 DEF UnauthorizedFeedback, TypeOK
<1>5. CASE SuccessFeedback(t, m)
  <2> DEFINE q == IF slot[t].quota[m] > 0 THEN slot[t].quota[m] - 1 ELSE 0
  <2>1. slot' = [slot EXCEPT ![t] = [slot[t] EXCEPT !.quota[m] = q]]
        \/ slot' = slot
        BY <1>5, <1>1 DEF SuccessFeedback
  <2>2. q \in Int
        BY <1>1, <1>2 DEF Slot
  <2> HIDE DEF q
  <2>3. [slot[t] EXCEPT !.quota[m] = q] \in Slot
        BY <2>2, <1>1, <1>2, QuotaChange
  <2>4. slot' \in [DOMAIN slot -> Slot]
        BY <2>1, <2>3, <1>1 DEF TypeOK
  <2> QED BY <2>4, <1>5 DEF SuccessFeedback, TypeOK
<1>6. CASE RateLimitedFeedback(t, m)
  <2>1. slot' = [slot EXCEPT ![t] = [slot[t] EXCEPT !.quota[m] = 0]]
        \/ slot' = slot
        BY <1>6, <1>1 DEF RateLimitedFeedback
  <2>6. [slot[t] EXCEPT !.quota[m] = 0] \in Slot
        BY <1>1, <1>2, QuotaChange
  <2>2. slot' \in [DOMAIN slot -> Slot]
        BY <2>1, <2>6, <1>1 DEF TypeOK
  <2>3. now + CoolingSec[slot[t].pool] \in Nat
        BY <1>2, CoolingAssumption DEF TypeOK, Slot
  <2>4. cooling' \in [Token -> Nat] /\ rested' \in [Token -> Nat]
        BY <2>3, <1>6, <1>1 DEF RateLimitedFeedback, TypeOK
  <2>5. limited' \in SUBSET (Token \X Mode)
        BY <1>6, <1>1 DEF RateLimitedFeedback, TypeOK
  <2> QED BY <2>2, <2>4, <2>5, <1>6 DEF RateLimitedFeedback, TypeOK
<1>7. CASE HealthFeedback
      BY <1>7 DEF HealthFeedback, TypeOK
<1> QED BY <1>3, <1>4, <1>5, <1>6, <1>7

LEMMA NextType ==
    ASSUME TypeOK, StageInv, IndexExact, Next
    PROVE  TypeOK'
<1>1. ASSUME NEW page \in Pages, Sync(page) PROVE TypeOK'
      BY <1>1, SyncType
<1>2. ASSUME NEW r \in Request, NEW p \in Plan, Start(r, p) PROVE TypeOK'
  <2>1. (IF ~p.retries THEN 0
         ELSE IF strategy = "random" THEN RandomMaxRetries
                                     ELSE QuotaMaxRetries) \in Nat
        BY RetriesAssumption
  <2>2. retries' \in [Request -> Nat]
        BY <2>1, <1>2 DEF Start, TypeOK
  <2>3. pc' \in [Request -> Stage] /\ plan' \in [Request -> Plan \cup {NoPlan}]
        BY <1>2 DEF Start, TypeOK, Stage
  <2> QED BY <2>2, <2>3, <1>2 DEF Start, TypeOK, tableVars, historyVars
<1>3. ASSUME NEW r \in Request, Advances(r) \/ Fails(r) PROVE TypeOK'
  <2>1. pc[r] # "idle" => plan[r] \in Plan
        BY DEF StageInv
  <2>2. now \in Nat /\ asked[r] \in Nat
        BY DEF TypeOK
  <2>3. CASE ReserveGrants(r)
        BY <2>1, <2>2, <2>3, GrantType DEF ReserveGrants
  <2>4. CASE ReserveRejects(r)
        BY <2>2, <2>4, RejectType DEF ReserveRejects
  <2>5. CASE NeedsRefresh(r)
    <3>1. PICK X : RenewWindows(X, now)
          BY <2>5 DEF NeedsRefresh
    <3>2. /\ slot' \in [DOMAIN slot' -> Slot] /\ DOMAIN slot' \subseteq Token
          /\ limited' \subseteq limited
          BY <2>2, <3>1, RenewType DEF TypeOK
    <3>3. pc' \in [Request -> Stage] /\ asked' \in [Request -> Nat]
          BY <2>2, <2>5 DEF NeedsRefresh, TypeOK, Stage
    <3> QED BY <3>2, <3>3, <2>5 DEF NeedsRefresh, TypeOK
  <2>6. CASE RefreshedGrants(r)
        BY <2>1, <2>2, <2>6, GrantType DEF RefreshedGrants
  <2>7. CASE RefreshedRejects(r)
        BY <2>2, <2>7, RejectType DEF RefreshedRejects
  <2>8. CASE StreamStarts(r)
        BY <2>8 DEF StreamStarts, TypeOK, Stage, tableVars, historyVars
  <2>9. ASSUME NEW outcome \in Outcome, Finish(r, outcome) PROVE TypeOK'
    <3>1. /\ pc[r] = "running" /\ Release(lease[r].token)
          /\ Feedback(r, outcome) /\ Ends(r)
          /\ UNCHANGED <<strategy, now, leaked>>
          BY <2>9 DEF Finish
    <3>2. inflight' \in [Token -> 0..InflightLimit]
          BY <3>1, ReleaseType
    <3>3. /\ slot' \in [DOMAIN slot' -> Slot] /\ DOMAIN slot' \subseteq Token
          /\ available' \in [Pool \X Mode -> SUBSET Token]
          /\ cooling' \in [Token -> Nat]
          /\ limited' \in SUBSET (Token \X Mode)
          /\ rested' \in [Token -> Nat]
          BY <3>1, FeedbackType DEF TypeOK
    <3> QED BY <3>1, <3>2, <3>3, EndsType DEF TypeOK
  <2>10. ASSUME NEW outcome \in Outcome, TryNext(r, outcome) PROVE TypeOK'
    <3>1. /\ pc[r] = "running" /\ Release(lease[r].token)
          /\ Feedback(r, outcome)
          /\ pc' = [pc EXCEPT ![r] = "asking"]
          /\ attempt' = [attempt EXCEPT ![r] = @ + 1]
          /\ excluded' = [excluded EXCEPT ![r] = @ \cup {lease[r].token}]
          /\ lease' = [lease EXCEPT ![r] = NoLease]
          /\ UNCHANGED <<strategy, now, plan, retries, asked, leaked>>
          BY <2>10 DEF TryNext
    <3>2. inflight' \in [Token -> 0..InflightLimit]
          BY <3>1, ReleaseType
    <3>3. /\ slot' \in [DOMAIN slot' -> Slot] /\ DOMAIN slot' \subseteq Token
          /\ available' \in [Pool \X Mode -> SUBSET Token]
          /\ cooling' \in [Token -> Nat]
          /\ limited' \in SUBSET (Token \X Mode)
          /\ rested' \in [Token -> Nat]
          BY <3>1, FeedbackType DEF TypeOK
    <3>4. lease[r].token \in Token
          BY <3>1, LeaseHeld
    <3>5. /\ pc' \in [Request -> Stage] /\ attempt' \in [Request -> Nat]
          /\ excluded' \in [Request -> SUBSET Token]
          /\ lease' \in [Request -> Lease \cup {NoLease}]
          BY <3>1, <3>4 DEF TypeOK, Stage
    <3> QED BY <3>1, <3>2, <3>3, <3>5 DEF TypeOK
  <2>11. CASE RefreshAborts(r)
        BY <2>11, EndsType DEF RefreshAborts, TypeOK, tableVars, historyVars
  <2>12. CASE PreparationFails(r)
        BY <2>12, EndsType, ReleaseType DEF PreparationFails, TypeOK, historyVars
  <2>13. CASE StreamNeverStarts(r)
    <3>1. leaked' \in [Token -> 0..MaxLeaks]
      <4>1. leaked \in [Token -> 0..MaxLeaks] /\ lease[r].token \in Token
            BY <2>13, LeaseHeld DEF StreamNeverStarts, TypeOK
      <4>2. leaked[lease[r].token] + 1 \in 0..MaxLeaks
            BY <4>1, <2>13, BoundsAssumption DEF StreamNeverStarts
      <4> QED BY <4>1, <4>2, <2>13 DEF StreamNeverStarts
    <3> QED BY <3>1, <2>13, EndsType DEF StreamNeverStarts, TypeOK, tableVars
  <2> QED BY <1>3, <2>3, <2>4, <2>5, <2>6, <2>7, <2>8, <2>9, <2>10, <2>11,
             <2>12, <2>13 DEF Advances, Fails
<1>4. CASE SwitchStrategy
      BY <1>4 DEF SwitchStrategy, TypeOK, tableVars, requestVars, historyVars
<1>5. CASE Tick
      BY <1>5 DEF Tick, TypeOK, tableVars, requestVars, historyVars
<1> QED BY <1>1, <1>2, <1>3, <1>4, <1>5 DEF Next

-----------------------------------------------------------------------------
(* The availability index.                                                 *)

(* Steps that leave the pool, status and window columns alone.             *)
LEMMA IndexKept ==
    ASSUME IndexExact, UNCHANGED available, DOMAIN slot' = DOMAIN slot,
           \A t \in DOMAIN slot : /\ slot'[t].pool = slot[t].pool
                                  /\ slot'[t].status = slot[t].status
                                  /\ slot'[t].window = slot[t].window
    PROVE  IndexExact'
BY DEF IndexExact

LEMMA RenewKeepsIndex ==
    ASSUME TypeOK, IndexExact, NEW X, NEW ts \in Nat, RenewWindows(X, ts),
           UNCHANGED available
    PROVE  IndexExact'
BY RenewType, IndexKept

(* Leaving the buckets of the present pool and entering those of the new   *)
(* one is all a sync has to do, because nothing else is in the index.      *)
LEMMA SyncKeepsIndex ==
    ASSUME TypeOK, IndexExact, NEW page \in Pages, Sync(page)
    PROVE  IndexExact'
<1> DEFINE live == [t \in {u \in DOMAIN page : page[u] # Gone} |-> page[t]]
           dead == {t \in DOMAIN slot \cap DOMAIN page : page[t] = Gone}
           S == DOMAIN slot \cap DOMAIN page
<1>1. available' = Reindexed(S, live)
      BY DEF Sync
<1>2. slot' = [t \in DOMAIN slot \cup DOMAIN live |->
                 IF t \in DOMAIN live THEN live[t]
                 ELSE IF t \in dead THEN [slot[t] EXCEPT !.status = "deleted"]
                      ELSE slot[t]]
      BY DEF Sync
<1>3. DOMAIN live \subseteq DOMAIN page
      OBVIOUS
<1>4. \A t \in S : t \in dead \/ t \in DOMAIN live
      OBVIOUS
<1>5. \A t \in dead : t \notin DOMAIN live /\ t \in S
      OBVIOUS
<1>6. ASSUME NEW b \in Pool \X Mode, NEW t
      PROVE  t \in available'[b] <=> /\ t \in DOMAIN slot'
                                     /\ slot'[t].status = "active"
                                     /\ slot'[t].pool = b[1]
                                     /\ slot'[t].window[b[2]] > 0
  <2>1. t \in available'[b] <=>
          \/ t \in available[b] /\ (t \notin S \/ slot[t].pool # b[1])
          \/ /\ t \in DOMAIN live /\ live[t].status = "active"
             /\ live[t].pool = b[1] /\ live[t].window[b[2]] > 0
    <3> HIDE DEF live, S
    <3> QED BY <1>1 DEF Reindexed
  <2>2. t \in available[b] <=> /\ t \in DOMAIN slot
                               /\ slot[t].status = "active"
                               /\ slot[t].pool = b[1]
                               /\ slot[t].window[b[2]] > 0
        BY DEF IndexExact
  <2>3. t \in S <=> t \in DOMAIN slot /\ t \in DOMAIN page
        OBVIOUS
  <2> HIDE DEF live, dead, S
  <2>4. CASE t \in DOMAIN live
        BY <2>1, <2>2, <2>3, <2>4, <1>2, <1>3
  <2>5. CASE t \in dead
    <3>1. t \notin available'[b]
          BY <2>1, <2>2, <2>5, <1>5
    <3>2. slot'[t] = [slot[t] EXCEPT !.status = "deleted"]
          BY <2>3, <2>5, <1>2, <1>5
    <3>4. slot[t] \in Slot
          BY <2>3, <2>5, <1>5 DEF TypeOK
    <3>3. slot'[t].status # "active"
          BY <3>2, <3>4 DEF Slot
    <3> QED BY <3>1, <3>3
  <2>6. CASE t \notin DOMAIN live /\ t \notin dead
        BY <2>1, <2>2, <2>6, <1>2, <1>4
  <2> QED BY <2>4, <2>5, <2>6
<1>7. available' = [b \in Pool \X Mode |-> available'[b]]
      BY <1>1 DEF Reindexed
<1> HIDE DEF live, dead, S
<1> QED BY <1>6, <1>7 DEF IndexExact

LEMMA FeedbackKeepsIndex ==
    ASSUME TypeOK, StageInv, IndexExact, NEW r \in Request, pc[r] = "running",
           NEW outcome, Feedback(r, outcome)
    PROVE  IndexExact' /\ DOMAIN slot' = DOMAIN slot
<1> DEFINE t == lease[r].token
           m == lease[r].mode
<1>1. t \in DOMAIN slot /\ t \in Token /\ m \in Mode
      BY LeaseHeld
<1>2. slot[t] \in Slot
      BY <1>1 DEF TypeOK
<1>3. \/ UnauthorizedFeedback(t) \/ SuccessFeedback(t, m)
      \/ RateLimitedFeedback(t, m) \/ HealthFeedback
      BY DEF Feedback
<1> HIDE DEF t, m
<1>4. CASE UnauthorizedFeedback(t)
  <2>1. slot' = [slot EXCEPT ![t] = [slot[t] EXCEPT !.status = "expired"]]
        BY <1>4, <1>1 DEF UnauthorizedFeedback
  <2>2. slot'[t].status # "active"
        BY <2>1, <1>1, <1>2 DEF Slot
  <2>3. \A u \in DOMAIN slot : u # t => slot'[u] = slot[u]
        BY <2>1
  <2>4. DOMAIN slot' = DOMAIN slot
        BY <2>1
  <2>5. available' = [b \in Pool \X Mode |->
                        {u \in available[b] : u # t \/ slot[t].pool # b[1]}]
        BY <1>4 DEF UnauthorizedFeedback, Reindexed
  <2>6. available' = [b \in Pool \X Mode |->
                        {u \in DOMAIN slot' : /\ slot'[u].status = "active"
                                             /\ slot'[u].pool = b[1]
                                             /\ slot'[u].window[b[2]] > 0}]
        BY <2>2, <2>3, <2>4, <2>5, <1>1 DEF IndexExact
  <2> QED BY <2>4, <2>6 DEF IndexExact
<1>5. CASE SuccessFeedback(t, m)
  <2> DEFINE q == IF slot[t].quota[m] > 0 THEN slot[t].quota[m] - 1 ELSE 0
  <2>1. slot' = [slot EXCEPT ![t] = [slot[t] EXCEPT !.quota[m] = q]]
        \/ slot' = slot
        BY <1>5, <1>1 DEF SuccessFeedback
  <2>2. q \in Int
        BY <1>1, <1>2 DEF Slot
  <2> HIDE DEF q
  <2>3. /\ [slot[t] EXCEPT !.quota[m] = q].pool = slot[t].pool
        /\ [slot[t] EXCEPT !.quota[m] = q].status = slot[t].status
        /\ [slot[t] EXCEPT !.quota[m] = q].window = slot[t].window
        BY <2>2, <1>1, <1>2, QuotaChange
  <2>4. available' = available
        BY <1>5 DEF SuccessFeedback
  <2> QED BY <2>1, <2>3, <2>4, <1>1, IndexKept
<1>6. CASE RateLimitedFeedback(t, m)
  <2>1. slot' = [slot EXCEPT ![t] = [slot[t] EXCEPT !.quota[m] = 0]]
        \/ slot' = slot
        BY <1>6, <1>1 DEF RateLimitedFeedback
  <2>2. /\ [slot[t] EXCEPT !.quota[m] = 0].pool = slot[t].pool
        /\ [slot[t] EXCEPT !.quota[m] = 0].status = slot[t].status
        /\ [slot[t] EXCEPT !.quota[m] = 0].window = slot[t].window
        BY <1>1, <1>2, QuotaChange
  <2>3. available' = available
        BY <1>6 DEF RateLimitedFeedback
  <2> QED BY <2>1, <2>2, <2>3, <1>1, IndexKept
<1>7. CASE HealthFeedback
      BY <1>7, IndexKept DEF HealthFeedback
<1> QED BY <1>3, <1>4, <1>5, <1>6, <1>7

(* Slots are never removed.                                                *)
LEMMA NextIndex ==
    ASSUME TypeOK, StageInv, IndexExact, Next
    PROVE  IndexExact' /\ DOMAIN slot \subseteq DOMAIN slot'
<1>1. ASSUME NEW page \in Pages, Sync(page)
      PROVE  IndexExact' /\ DOMAIN slot \subseteq DOMAIN slot'
      BY <1>1, SyncKeepsIndex DEF Sync
<1>2. ASSUME UNCHANGED <<slot, available>>
      PROVE  IndexExact' /\ DOMAIN slot \subseteq DOMAIN slot'
      BY <1>2, IndexKept
<1>3. ASSUME UNCHANGED available, NEW ts \in Nat, NEW X, RenewWindows(X, ts)
      PROVE  IndexExact' /\ DOMAIN slot \subseteq DOMAIN slot'
      BY <1>3, RenewKeepsIndex, RenewType
<1>4. ASSUME NEW r \in Request, Advances(r) \/ Fails(r)
      PROVE  IndexExact' /\ DOMAIN slot \subseteq DOMAIN slot'
  <2>1. now \in Nat /\ asked[r] \in Nat
        BY DEF TypeOK
  <2>2. ASSUME NEW ts \in Nat, Grant(r, ts)
        PROVE  \E X : RenewWindows(X, ts) /\ UNCHANGED available
        BY <2>2 DEF Grant
  <2>3. ASSUME NEW ts \in Nat, Reject(r, ts)
        PROVE  \E X : RenewWindows(X, ts) /\ UNCHANGED available
        BY <2>3 DEF Reject
  <2>4. CASE ReserveGrants(r) \/ RefreshedGrants(r)
        BY <2>1, <2>2, <2>4, <1>3 DEF ReserveGrants, RefreshedGrants
  <2>5. CASE ReserveRejects(r) \/ RefreshedRejects(r)
        BY <2>1, <2>3, <2>5, <1>3 DEF ReserveRejects, RefreshedRejects
  <2>6. CASE NeedsRefresh(r)
        BY <2>1, <2>6, <1>3 DEF NeedsRefresh
  <2>7. CASE StreamStarts(r)
        BY <2>7, <1>2 DEF StreamStarts, tableVars
  <2>8. ASSUME NEW outcome \in Outcome, Finish(r, outcome) \/ TryNext(r, outcome)
        PROVE  IndexExact' /\ DOMAIN slot \subseteq DOMAIN slot'
        BY <2>8, FeedbackKeepsIndex DEF Finish, TryNext
  <2>9. CASE Fails(r)
        BY <2>9, <1>2 DEF Fails, RefreshAborts, PreparationFails,
                          StreamNeverStarts, tableVars
  <2> QED BY <1>4, <2>4, <2>5, <2>6, <2>7, <2>8, <2>9 DEF Advances
<1>5. ASSUME NEW r \in Request, NEW p \in Plan, Start(r, p)
      PROVE  IndexExact' /\ DOMAIN slot \subseteq DOMAIN slot'
      BY <1>5, <1>2 DEF Start, tableVars
<1>6. CASE SwitchStrategy \/ Tick
      BY <1>6, <1>2 DEF SwitchStrategy, Tick, tableVars
<1> QED BY <1>1, <1>4, <1>5, <1>6 DEF Next

-----------------------------------------------------------------------------
(* Stages and holders.                                                     *)

(* A request takes a lease of t.                                           *)
LEMMA HolderAdded ==
    ASSUME TypeOK, StageInv, InflightExact, NEW r \in Request,
           pc[r] \notin {"held", "running"}, plan[r] \in Plan,
           NEW t \in Token, NEW m \in Mode, NEW st \in {"held", "running"},
           pc' = [pc EXCEPT ![r] = st],
           lease' = [lease EXCEPT ![r] = [token |-> t, mode |-> m]],
           inflight' = [inflight EXCEPT ![t] =
               IF @ + 1 < InflightLimit THEN @ + 1 ELSE InflightLimit],
           UNCHANGED leaked
    PROVE  InflightExact'
<1>1. /\ r \notin Holders(t)
      /\ Holders(t)' = Holders(t) \cup {r}
      BY DEF Holders, TypeOK
<1>2. \A u \in Token : u # t => Holders(u)' = Holders(u)
      BY DEF Holders, TypeOK
<1>3. /\ Cardinality(Holders(t)') = Cardinality(Holders(t)) + 1
      /\ Cardinality(Holders(t)) + 1 <= Cardinality(Request)
      /\ Cardinality(Holders(t)) \in Nat
      BY <1>1, OneMoreHolder, HoldersFinite
<1>4. /\ inflight[t] = Cardinality(Holders(t)) + leaked[t]
      /\ leaked[t] \in 0..MaxLeaks
      BY DEF InflightExact, TypeOK
<1>5. Cardinality(Request) \in Nat
      BY InflightAssumption, FS_CardinalityType
<1>6. inflight[t] + 1 <= InflightLimit
      BY <1>3, <1>4, <1>5, InflightAssumption, BoundsAssumption
<1>7. inflight'[t] = inflight[t] + 1
      BY <1>3, <1>4, <1>6, InflightAssumption, BoundsAssumption DEF TypeOK
<1>8. \A u \in Token : u # t => inflight'[u] = inflight[u]
      BY DEF TypeOK
<1>9. inflight'[t] = Cardinality(Holders(t)') + leaked'[t]
      BY <1>3, <1>4, <1>7, BoundsAssumption
<1> QED BY <1>2, <1>8, <1>9 DEF InflightExact

(* A request gives its lease up; where the lease goes is the caller's.     *)
LEMMA HolderRemoved ==
    ASSUME TypeOK, StageInv, NEW r \in Request, pc[r] \in {"held", "running"},
           NEW t, t = lease[r].token,
           NEW st \in Stage \ {"held", "running"},
           pc' = [pc EXCEPT ![r] = st],
           lease' = [lease EXCEPT ![r] = NoLease]
    PROVE  /\ Cardinality(Holders(t)') = Cardinality(Holders(t)) - 1
           /\ Cardinality(Holders(t)) \in Nat
           /\ Cardinality(Holders(t)) >= 1
           /\ \A u \in Token : u # t => Holders(u)' = Holders(u)
<1>1. /\ r \in Holders(t)
      /\ Holders(t)' = Holders(t) \ {r}
      BY DEF Holders, TypeOK
<1>2. \A u \in Token : u # t => Holders(u)' = Holders(u)
      BY DEF Holders, TypeOK
<1>3. /\ Cardinality(Holders(t) \ {r}) = Cardinality(Holders(t)) - 1
      /\ Cardinality(Holders(t)) \in Nat /\ Cardinality(Holders(t)) >= 1
      BY <1>1, OneHolderLess, HoldersFinite
<1> QED BY <1>1, <1>2, <1>3

(* ... back to the counter.                                                *)
LEMMA LeaseReturned ==
    ASSUME TypeOK, StageInv, InflightExact, NEW r \in Request,
           pc[r] \in {"held", "running"},
           NEW st \in Stage \ {"held", "running"},
           pc' = [pc EXCEPT ![r] = st],
           lease' = [lease EXCEPT ![r] = NoLease],
           Release(lease[r].token), UNCHANGED leaked
    PROVE  InflightExact'
<1>1. PICK t : t = lease[r].token
      OBVIOUS
<1>2. /\ Cardinality(Holders(t)') = Cardinality(Holders(t)) - 1
      /\ Cardinality(Holders(t)) \in Nat
      /\ Cardinality(Holders(t)) >= 1
      /\ \A u \in Token : u # t => Holders(u)' = Holders(u)
      BY <1>1, HolderRemoved
<1>3. t \in Token
      BY <1>1, LeaseHeld
<1>4. /\ inflight[t] = Cardinality(Holders(t)) + leaked[t]
      /\ leaked[t] \in Nat /\ leaked'[t] = leaked[t]
      BY <1>3, BoundsAssumption DEF InflightExact, TypeOK
<1>5. /\ inflight'[t] = inflight[t] - 1
      /\ \A u \in Token : u # t => inflight'[u] = inflight[u]
      BY <1>1, <1>2, <1>3, <1>4 DEF Release, TypeOK
<1>6. inflight'[t] = Cardinality(Holders(t)') + leaked'[t]
      BY <1>2, <1>4, <1>5
<1> QED BY <1>2, <1>5, <1>6 DEF InflightExact

(* ... or nowhere.                                                         *)
LEMMA LeaseLost ==
    ASSUME TypeOK, StageInv, InflightExact, NEW r \in Request,
           StreamNeverStarts(r)
    PROVE  InflightExact'
<1>1. PICK t : t = lease[r].token
      OBVIOUS
<1>0. /\ pc[r] = "held"
      /\ pc' = [pc EXCEPT ![r] = "idle"]
      /\ lease' = [lease EXCEPT ![r] = NoLease]
      /\ leaked' = [leaked EXCEPT ![t] = @ + 1]
      /\ inflight' = inflight
      BY <1>1 DEF StreamNeverStarts, Ends, tableVars
<1>2. /\ Cardinality(Holders(t)') = Cardinality(Holders(t)) - 1
      /\ Cardinality(Holders(t)) \in Nat
      /\ \A u \in Token : u # t => Holders(u)' = Holders(u)
      BY <1>0, <1>1, HolderRemoved DEF Stage
<1>3. t \in Token
      BY <1>0, <1>1, LeaseHeld
<1>4. /\ inflight[t] = Cardinality(Holders(t)) + leaked[t]
      /\ leaked[t] \in Nat /\ leaked'[t] = leaked[t] + 1
      /\ \A u \in Token : u # t => leaked'[u] = leaked[u]
      BY <1>0, <1>3, BoundsAssumption DEF InflightExact, TypeOK
<1>5. inflight'[t] = Cardinality(Holders(t)') + leaked'[t]
      BY <1>0, <1>2, <1>4
<1> QED BY <1>0, <1>2, <1>4, <1>5 DEF InflightExact

LEMMA NextStage ==
    ASSUME TypeOK, TypeOK', StageInv, IndexExact, Next
    PROVE  StageInv'
<1>1. DOMAIN slot \subseteq DOMAIN slot'
      BY NextIndex
<1>2. ASSUME UNCHANGED <<pc, plan, lease>> PROVE StageInv'
      BY <1>1, <1>2 DEF StageInv
<1>3. ASSUME NEW r \in Request, Ends(r) PROVE StageInv'
      BY <1>1, <1>3 DEF StageInv, Ends, TypeOK
<1>4. ASSUME NEW r \in Request, plan[r] \in Plan, NEW ts \in Nat, Grant(r, ts)
      PROVE  StageInv'
  <2>1. PICK t \in DOMAIN slot, m \in Mode :
           lease' = [lease EXCEPT ![r] = [token |-> t, mode |-> m]]
        BY <1>4, GrantEffect
  <2>2. PICK st \in {"held", "running"} : pc' = [pc EXCEPT ![r] = st]
        BY <1>4, GrantEffect
  <2>3. plan' = plan
        BY <1>4, GrantEffect
  <2>4. t \in Token /\ [token |-> t, mode |-> m] # NoLease
        BY MarkersAssumption DEF TypeOK
  <2> QED BY <1>1, <1>4, <2>1, <2>2, <2>3, <2>4 DEF StageInv, TypeOK
<1>5. ASSUME NEW r \in Request, pc[r] \notin {"idle", "held", "running"},
             NEW st \in {"asking", "refreshing"}, pc' = [pc EXCEPT ![r] = st],
             UNCHANGED <<plan, lease>>
      PROVE  StageInv'
      BY <1>1, <1>5 DEF StageInv, TypeOK
<1>6. ASSUME NEW r \in Request, Advances(r) \/ Fails(r)
      PROVE  StageInv'
  <2>1. now \in Nat /\ asked[r] \in Nat
        BY DEF TypeOK
  <2>2. pc[r] # "idle" => plan[r] \in Plan
        BY DEF StageInv
  <2>3. CASE ReserveGrants(r) \/ RefreshedGrants(r)
        BY <2>1, <2>2, <2>3, <1>4 DEF ReserveGrants, RefreshedGrants
  <2>4. CASE ReserveRejects(r) \/ RefreshedRejects(r)
        BY <2>4, <1>3 DEF ReserveRejects, RefreshedRejects, Reject
  <2>5. CASE NeedsRefresh(r)
        BY <2>5, <1>5 DEF NeedsRefresh
  <2>6. CASE StreamStarts(r)
        BY <2>6, <1>1 DEF StreamStarts, StageInv, TypeOK
  <2>7. ASSUME NEW outcome \in Outcome, Finish(r, outcome)
        PROVE  StageInv'
        BY <2>7, <1>3 DEF Finish
  <2>8. ASSUME NEW outcome \in Outcome, TryNext(r, outcome)
        PROVE  StageInv'
        BY <2>8, <1>1 DEF TryNext, StageInv, TypeOK
  <2>9. CASE Fails(r)
        BY <2>9, <1>3 DEF Fails, RefreshAborts, PreparationFails, StreamNeverStarts
  <2> QED BY <1>6, <2>3, <2>4, <2>5, <2>6, <2>7, <2>8, <2>9 DEF Advances
<1>7. ASSUME NEW r \in Request, NEW p \in Plan, Start(r, p) PROVE StageInv'
      BY <1>1, <1>7 DEF Start, StageInv, TypeOK
<1>8. ASSUME NEW page \in Pages, Sync(page) PROVE StageInv'
      BY <1>8, <1>2 DEF Sync, requestVars
<1>9. CASE SwitchStrategy \/ Tick
      BY <1>9, <1>2 DEF SwitchStrategy, Tick, requestVars
<1> QED BY <1>6, <1>7, <1>8, <1>9 DEF Next

LEMMA NextInflight ==
    ASSUME TypeOK, StageInv, IndexExact, InflightExact, Next
    PROVE  InflightExact'
<1>1. ASSUME UNCHANGED <<inflight, leaked, lease>>,
             \A r \in Request : pc'[r] \in {"held", "running"}
                                <=> pc[r] \in {"held", "running"}
      PROVE  InflightExact'
  <2>1. \A t \in Token : Holders(t)' = Holders(t)
        BY <1>1 DEF Holders
  <2> QED BY <1>1, <2>1 DEF InflightExact
<1>2. ASSUME NEW r \in Request, pc[r] \in {"asking", "refreshing"},
             NEW ts \in Nat, Grant(r, ts)
      PROVE  InflightExact'
  <2>1. plan[r] \in Plan
        BY <1>2 DEF StageInv
  <2>2. PICK t \in DOMAIN slot, m \in Mode :
           /\ inflight' = [inflight EXCEPT ![t] =
                 IF @ + 1 < InflightLimit THEN @ + 1 ELSE InflightLimit]
           /\ lease' = [lease EXCEPT ![r] = [token |-> t, mode |-> m]]
        BY <1>2, <2>1, GrantEffect
  <2>3. PICK st \in {"held", "running"} : pc' = [pc EXCEPT ![r] = st]
        BY <1>2, <2>1, GrantEffect
  <2>4. leaked' = leaked
        BY <1>2, <2>1, GrantEffect
  <2>5. t \in Token
        BY DEF TypeOK
  <2> QED BY <1>2, <2>1, <2>2, <2>3, <2>4, <2>5, HolderAdded
<1>3. ASSUME NEW r \in Request, pc[r] \in {"asking", "refreshing"}, Ends(r),
             UNCHANGED <<inflight, leaked>>
      PROVE  InflightExact'
  <2>1. lease[r] = NoLease
        BY <1>3 DEF StageInv
  <2>2. lease' = lease
        BY <1>3, <2>1 DEF Ends, TypeOK
  <2> QED BY <1>1, <1>3, <2>2 DEF Ends, TypeOK
<1>4. ASSUME NEW r \in Request, Advances(r) \/ Fails(r)
      PROVE  InflightExact'
  <2>1. now \in Nat /\ asked[r] \in Nat
        BY DEF TypeOK
  <2>2. CASE ReserveGrants(r) \/ RefreshedGrants(r)
        BY <2>1, <2>2, <1>2 DEF ReserveGrants, RefreshedGrants
  <2>3. CASE ReserveRejects(r) \/ RefreshedRejects(r)
        BY <2>3, <1>3 DEF ReserveRejects, RefreshedRejects, Reject
  <2>4. CASE NeedsRefresh(r)
        BY <2>4, <1>1 DEF NeedsRefresh, TypeOK
  <2>5. CASE StreamStarts(r)
        BY <2>5, <1>1 DEF StreamStarts, TypeOK, tableVars, historyVars
  <2>6. ASSUME NEW outcome \in Outcome, Finish(r, outcome)
        PROVE  InflightExact'
        BY <2>6, LeaseReturned DEF Finish, Ends, Stage
  <2>7. ASSUME NEW outcome \in Outcome, TryNext(r, outcome)
        PROVE  InflightExact'
        BY <2>7, LeaseReturned DEF TryNext, Stage
  <2>8. CASE RefreshAborts(r)
        BY <2>8, <1>3 DEF RefreshAborts, tableVars, historyVars
  <2>9. CASE PreparationFails(r)
        BY <2>9, LeaseReturned DEF PreparationFails, Ends, Stage, historyVars
  <2>10. CASE StreamNeverStarts(r)
        BY <2>10, LeaseLost
  <2> QED BY <1>4, <2>2, <2>3, <2>4, <2>5, <2>6, <2>7, <2>8, <2>9, <2>10
             DEF Advances, Fails
<1>5. ASSUME NEW r \in Request, NEW p \in Plan, Start(r, p)
      PROVE  InflightExact'
      BY <1>5, <1>1 DEF Start, TypeOK, tableVars, historyVars
<1>6. ASSUME NEW page \in Pages, Sync(page) PROVE InflightExact'
      BY <1>6, <1>1 DEF Sync, requestVars
<1>7. CASE SwitchStrategy \/ Tick
      BY <1>7, <1>1 DEF SwitchStrategy, Tick, requestVars, tableVars, historyVars
<1> QED BY <1>4, <1>5, <1>6, <1>7 DEF Next

-----------------------------------------------------------------------------
(* The theorems.                                                           *)

LEMMA InitDirectory == Init => DirectoryInv
<1> SUFFICES ASSUME Init PROVE DirectoryInv
    OBVIOUS
<1>1. TypeOK
  <2>1. 0 \in 0..InflightLimit /\ 0 \in 0..MaxLeaks
        BY InflightAssumption, BoundsAssumption
  <2>2. slot \in [DOMAIN slot -> Slot] /\ DOMAIN slot \subseteq Token
        BY DEF Init
  <2> QED BY <2>1, <2>2 DEF Init, TypeOK, Stage
<1>2. StageInv
      BY DEF Init, StageInv
<1>3. IndexExact
      BY DEF Init, IndexExact
<1>4. InflightExact
  <2>1. \A t \in Token : Holders(t) = {}
        BY DEF Init, Holders
  <2>2. Cardinality({}) = 0
        BY FS_EmptySet
  <2>3. \A t \in Token : inflight[t] = 0 /\ leaked[t] = 0
        BY DEF Init
  <2>4. \A t \in Token : inflight[t] = Cardinality(Holders(t)) + leaked[t]
        BY <2>1, <2>2, <2>3
  <2> QED BY <2>4 DEF InflightExact
<1> QED BY <1>1, <1>2, <1>3, <1>4 DEF DirectoryInv

LEMMA StepDirectory == DirectoryInv /\ [Next]_vars => DirectoryInv'
<1> SUFFICES ASSUME DirectoryInv, [Next]_vars PROVE DirectoryInv'
    OBVIOUS
<1> USE DEF DirectoryInv
<1>1. CASE Next
      BY <1>1, NextType, NextStage, NextIndex, NextInflight
<1>2. CASE UNCHANGED vars
  <2>1. \A t \in Token : Holders(t)' = Holders(t)
        BY <1>2 DEF Holders, vars, requestVars
  <2> QED BY <1>2, <2>1 DEF TypeOK, StageInv, IndexExact, InflightExact, vars,
             tableVars, requestVars, historyVars
<1> QED BY <1>1, <1>2

(* The inductive invariant of the directory.                               *)
LEMMA DirectoryInvariant == Spec => []DirectoryInv
BY InitDirectory, StepDirectory, PTL DEF Spec

(* Every column, index, lease and counter keeps its type, the uint16       *)
(* in-flight column its range.                                             *)
THEOREM DirectoryTypeCorrect == Spec => []TypeOK
BY DirectoryInvariant, PTL DEF DirectoryInv

(* mode_available is exactly the active accounts with a window, whatever   *)
(* syncs, feedback and window resets come in whatever order.               *)
THEOREM DirectoryIndexExact == Spec => []IndexExact
BY DirectoryInvariant, PTL DEF DirectoryInv

(* The in-flight counter counts the holders of the account and the leases  *)
(* lost with streams that never started, and nothing else.                 *)
THEOREM DirectoryInflightExact == Spec => []InflightExact
BY DirectoryInvariant, PTL DEF DirectoryInv

-----------------------------------------------------------------------------
(* Attempts, exhausted accounts and cool-downs: a second invariant, which  *)
(* stands on the first.                                                    *)

(* The accounts tried are finitely many; an idle request has tried none.   *)
AttemptInv ==
    /\ AttemptsDistinct
    /\ \A r \in Request : /\ IsFiniteSet(excluded[r])
                          /\ pc[r] = "idle" => attempt[r] = 0

(* What a 429 has exhausted has a slot without quota for the mode.         *)
LimitedInv ==
    \A x \in limited : x[1] \in DOMAIN slot /\ slot[x[1]].quota[x[2]] <= 0

(* The cool-down of the last 429 is over or is in the column that          *)
(* selection reads; the time of a request waiting for a refresh is past.   *)
RestInv ==
    /\ \A t \in Token : rested[t] <= cooling[t] \/ rested[t] <= now
    /\ \A r \in Request : asked[r] <= now

SparingInv == AttemptInv /\ LimitedInv /\ RestInv

(* Whom Grant leases.                                                      *)
LEMMA GrantSpares ==
    ASSUME DirectoryInv, LimitedInv, RestInv, NEW r \in Request,
           pc[r] \in {"asking", "refreshing"},
           NEW ts \in Nat, ts <= now, Grant(r, ts)
    PROVE  /\ lease'[r] # NoLease /\ lease'[r].token \notin excluded[r]
           /\ strategy = "quota" /\ ~plan[r].any
                => <<lease'[r].token, lease'[r].mode>> \notin limited'
           /\ strategy = "random"
                => /\ now >= rested[lease'[r].token]
                   /\ Cardinality(Holders(lease'[r].token)) < MaxInflight
<1> USE DEF DirectoryInv
<1>0. plan[r] \in Plan
      BY DEF StageInv
<1>1a. PICK c \in Turns(r) : \E t \in WorkingAt(r, c, ts) :
         /\ RenewWindows(Renewed(r, {d \in Turns(r) : ~Before(c, d)}, ts), ts)
         /\ lease' = [lease EXCEPT ![r] = [token |-> t,
                                           mode |-> plan[r].modes[c[1]]]]
      BY DEF Grant
<1>1. PICK t \in WorkingAt(r, c, ts) :
         /\ RenewWindows(Renewed(r, {d \in Turns(r) : ~Before(c, d)}, ts), ts)
         /\ lease' = [lease EXCEPT ![r] = [token |-> t,
                                           mode |-> plan[r].modes[c[1]]]]
      BY <1>1a
<1>2. t \in DOMAIN slot /\ t \in Token
      BY <1>0, WorkingIndexed
<1> DEFINE p == plan[r].pools[c[2]]
           m == plan[r].modes[c[1]]
<1>3. m \in Mode /\ p \in Pool
      BY <1>0, TurnType
<1>4. lease'[r] = [token |-> t, mode |-> m]
      BY <1>1 DEF TypeOK
<1>5. /\ t \notin excluded[r]
      /\ IF strategy = "random"
         THEN cooling[t] <= ts /\ inflight[t] < MaxInflight
         ELSE plan[r].any \/ (t \in available[<<p, m>>] /\ QuotaLeft(t, m, ts) > 0)
      BY DEF WorkingAt, Working
<1>6. lease'[r] # NoLease
      BY <1>2, <1>3, <1>4, MarkersAssumption
<1>7. strategy = "quota" /\ ~plan[r].any => <<t, m>> \notin limited'
  <2> SUFFICES ASSUME strategy = "quota", ~plan[r].any, <<t, m>> \in limited'
               PROVE FALSE
      OBVIOUS
  <2>1. t \in available[<<p, m>>] /\ QuotaLeft(t, m, ts) > 0
        BY <1>5
  <2> DEFINE X == Renewed(r, {d \in Turns(r) : ~Before(c, d)}, ts)
  <2>2. limited' = limited \ X
        BY <1>1 DEF RenewWindows
  <2>3. slot[t].quota[m] <= 0
        BY <2>2 DEF LimitedInv
  <2>4. Renews(t, m, ts)
        BY <1>2, <1>3, <2>1, <2>3 DEF QuotaLeft, TypeOK, Slot
  <2>5. p = Basic
    <3>1. t \in available[<<Basic, m>>] /\ slot[t].pool = Basic
          BY <2>4 DEF Renews
    <3>2. slot[t].pool = p
          BY <1>3, <2>1 DEF IndexExact
    <3> QED BY <3>1, <3>2
  <2>6. ~Before(c, c)
    <3>1. c[1] \in Int /\ c[2] \in Int
      <4>1. plan[r].modes \in Seq(Mode) /\ plan[r].pools \in Seq(Pool)
            BY <1>0, PlanAssumption DEF PlanType
      <4> QED BY <4>1 DEF Turns
    <3> QED BY <3>1 DEF Before
  <2>7. <<t, m>> \in X
        BY <1>2, <1>3, <2>4, <2>5, <2>6 DEF Renewed
  <2> QED BY <2>2, <2>7
<1>8. strategy = "random" => /\ now >= rested[t]
                             /\ Cardinality(Holders(t)) < MaxInflight
  <2> SUFFICES ASSUME strategy = "random"
               PROVE now >= rested[t] /\ Cardinality(Holders(t)) < MaxInflight
      OBVIOUS
  <2>1. cooling[t] <= ts /\ inflight[t] < MaxInflight
        BY <1>5
  <2>2. /\ cooling[t] \in Nat /\ rested[t] \in Nat /\ now \in Nat
        /\ leaked[t] \in Nat /\ inflight[t] \in Nat
        BY <1>2, InflightAssumption, BoundsAssumption DEF TypeOK
  <2>3. rested[t] <= cooling[t] \/ rested[t] <= now
        BY <1>2 DEF RestInv
  <2>4. now >= rested[t]
        BY <2>1, <2>2, <2>3
  <2>5. Cardinality(Holders(t)) \in Nat
        BY HoldersFinite
  <2>6. inflight[t] = Cardinality(Holders(t)) + leaked[t]
        BY <1>2 DEF InflightExact
  <2>7. MaxInflight \in Nat
        BY InflightAssumption
  <2> QED BY <2>1, <2>2, <2>4, <2>5, <2>6, <2>7
<1> HIDE DEF p, m
<1> QED BY <1>4, <1>5, <1>6, <1>7, <1>8

(* Every lease is granted in one of two places.                            *)
LEMMA GrantsOnly ==
    ASSUME DirectoryInv, RestInv, NEW r \in Request, ReserveGrants(r) \/ RefreshedGrants(r)
    PROVE  \E ts \in Nat : /\ ts <= now /\ Grant(r, ts)
                           /\ pc[r] \in {"asking", "refreshing"}
<1>1. now \in Nat /\ asked[r] \in Nat /\ asked[r] <= now
      BY DEF DirectoryInv, TypeOK, RestInv
<1> QED BY <1>1 DEF ReserveGrants, RefreshedGrants

LEMMA AttemptEnds ==
    ASSUME DirectoryInv, AttemptInv, NEW r \in Request, Ends(r)
    PROVE  AttemptInv'
<1>1. IsFiniteSet({}) /\ Cardinality({}) = 0
      BY FS_EmptySet
<1> QED BY <1>1 DEF Ends, AttemptInv, AttemptsDistinct, DirectoryInv, TypeOK

LEMMA NextAttempt ==
    ASSUME DirectoryInv, SparingInv, Next
    PROVE  AttemptInv'
<1> USE DEF SparingInv
<1>1. ASSUME UNCHANGED <<lease, attempt, excluded, retries>>,
             \A r \in Request : pc'[r] = "idle" => pc[r] = "idle"
      PROVE  AttemptInv'
      BY <1>1 DEF AttemptInv, AttemptsDistinct
<1>2. ASSUME NEW r \in Request, ReserveGrants(r) \/ RefreshedGrants(r)
      PROVE  AttemptInv'
  <2>1. PICK ts \in Nat : /\ ts <= now /\ Grant(r, ts)
                          /\ pc[r] \in {"asking", "refreshing"}
        BY <1>2, GrantsOnly
  <2>2. lease'[r] # NoLease /\ lease'[r].token \notin excluded[r]
        BY <2>1, GrantSpares
  <2>3. plan[r] \in Plan
        BY <2>1 DEF DirectoryInv, StageInv
  <2>4. /\ \E l : lease' = [lease EXCEPT ![r] = l]
        /\ UNCHANGED <<attempt, excluded, retries>>
        /\ \E st \in {"held", "running"} : pc' = [pc EXCEPT ![r] = st]
    <3>1. TypeOK /\ IndexExact
          BY DEF DirectoryInv
    <3> QED BY <2>1, <2>3, <3>1, GrantEffect
  <2> QED BY <2>2, <2>4 DEF AttemptInv, AttemptsDistinct, DirectoryInv, TypeOK
<1>3. ASSUME NEW r \in Request, NEW outcome \in Outcome, TryNext(r, outcome)
      PROVE  AttemptInv'
  <2>1. /\ pc[r] = "running" /\ attempt[r] < retries[r]
        /\ pc' = [pc EXCEPT ![r] = "asking"]
        /\ attempt' = [attempt EXCEPT ![r] = @ + 1]
        /\ excluded' = [excluded EXCEPT ![r] = @ \cup {lease[r].token}]
        /\ lease' = [lease EXCEPT ![r] = NoLease]
        /\ retries' = retries
        BY <1>3 DEF TryNext
  <2>2. lease[r].token \notin excluded[r] /\ IsFiniteSet(excluded[r])
        BY <2>1 DEF AttemptInv, AttemptsDistinct, DirectoryInv, StageInv
  <2>3. /\ IsFiniteSet(excluded[r] \cup {lease[r].token})
        /\ Cardinality(excluded[r] \cup {lease[r].token})
             = Cardinality(excluded[r]) + 1
        BY <2>2, FS_AddElement
  <2>4. attempt[r] \in Nat /\ retries[r] \in Nat
        BY DEF DirectoryInv, TypeOK
  <2>5. attempt[r] + 1 <= retries[r]
        BY <2>1, <2>4
  <2> QED BY <2>1, <2>3, <2>5
          DEF AttemptInv, AttemptsDistinct, DirectoryInv, TypeOK
<1>4. ASSUME NEW r \in Request, Advances(r) \/ Fails(r)
      PROVE  AttemptInv'
  <2>1. CASE ReserveGrants(r) \/ RefreshedGrants(r)
        BY <2>1, <1>2
  <2>2. CASE \/ ReserveRejects(r) \/ RefreshedRejects(r) \/ Fails(r)
             \/ \E outcome \in Outcome : Finish(r, outcome)
        BY <2>2, AttemptEnds
        DEF ReserveRejects, RefreshedRejects, Reject, Finish, Fails,
            RefreshAborts, PreparationFails, StreamNeverStarts
  <2>3. CASE NeedsRefresh(r) \/ StreamStarts(r)
        BY <2>3, <1>1 DEF NeedsRefresh, StreamStarts, DirectoryInv, TypeOK
  <2> QED BY <1>3, <1>4, <2>1, <2>2, <2>3 DEF Advances
<1>5. ASSUME NEW r \in Request, NEW p \in Plan, Start(r, p) PROVE AttemptInv'
  <2>1. /\ pc[r] = "idle" /\ pc' = [pc EXCEPT ![r] = "asking"]
        /\ UNCHANGED <<lease, attempt, excluded>>
        /\ retries'[r] \in Nat
        /\ \A q \in Request \ {r} : retries'[q] = retries[q]
        BY <1>5, RetriesAssumption DEF Start, DirectoryInv, TypeOK
  <2>2. attempt[r] = 0
        BY <2>1 DEF AttemptInv
  <2> QED BY <2>1, <2>2 DEF AttemptInv, AttemptsDistinct, DirectoryInv, TypeOK
<1>6. CASE (\E page \in Pages : Sync(page)) \/ SwitchStrategy \/ Tick
      BY <1>6, <1>1 DEF Sync, SwitchStrategy, Tick, requestVars
<1> QED BY <1>4, <1>5, <1>6 DEF Next

(* No quota comes back for what is exhausted, but by news or a renewal.    *)
LEMMA NextLimited ==
    ASSUME DirectoryInv, SparingInv, Next
    PROVE  LimitedInv'
<1> USE DEF SparingInv
<1>0. /\ slot \in [DOMAIN slot -> Slot] /\ DOMAIN slot \subseteq Token
      /\ limited \subseteq Token \X Mode
      BY DEF DirectoryInv, TypeOK
<1>1. ASSUME NEW X, NEW ts, RenewWindows(X, ts) PROVE LimitedInv'
  <2> SUFFICES ASSUME NEW x \in limited'
               PROVE x[1] \in DOMAIN slot' /\ slot'[x[1]].quota[x[2]] <= 0
      BY DEF LimitedInv
  <2>1. x \in limited /\ x \notin X /\ DOMAIN slot' = DOMAIN slot
        BY <1>1 DEF RenewWindows
  <2>2. PICK t \in Token, m \in Mode : x = <<t, m>>
        BY <1>0, <2>1
  <2>3. t \in DOMAIN slot /\ slot[t].quota[m] <= 0
        BY <2>1, <2>2 DEF LimitedInv
  <2>4. slot[t] \in Slot
        BY <1>0, <2>3
  <2>5. slot'[t].quota[m] = slot[t].quota[m]
        BY <1>1, <2>1, <2>2, <2>3, <2>4 DEF RenewWindows, Slot
  <2> QED BY <2>1, <2>2, <2>3, <2>5
<1>2. ASSUME UNCHANGED <<slot, limited>> PROVE LimitedInv'
      BY <1>2 DEF LimitedInv
<1>3. ASSUME NEW page \in Pages, Sync(page) PROVE LimitedInv'
  <2> SUFFICES ASSUME NEW x \in limited'
               PROVE x[1] \in DOMAIN slot' /\ slot'[x[1]].quota[x[2]] <= 0
      BY DEF LimitedInv
  <2>1. x \in limited /\ x[1] \notin DOMAIN page
        BY <1>3 DEF Sync
  <2>2. x[1] \in DOMAIN slot /\ slot[x[1]].quota[x[2]] <= 0
        BY <2>1 DEF LimitedInv
  <2>3. x[1] \in DOMAIN slot' /\ slot'[x[1]] = slot[x[1]]
        BY <1>3, <2>1, <2>2 DEF Sync
  <2> QED BY <2>2, <2>3
<1>4. ASSUME NEW r \in Request, pc[r] = "running", NEW outcome,
             Feedback(r, outcome)
      PROVE  LimitedInv'
  <2>1. /\ lease[r].token \in DOMAIN slot /\ lease[r].token \in Token
        /\ lease[r].mode \in Mode
    <3>1. TypeOK /\ StageInv
          BY DEF DirectoryInv
    <3> QED BY <3>1, <1>4, LeaseHeld
  <2>2. PICK t \in DOMAIN slot, m \in Mode :
           \/ UnauthorizedFeedback(t) \/ SuccessFeedback(t, m)
           \/ RateLimitedFeedback(t, m) \/ HealthFeedback
        BY <1>4, <2>1 DEF Feedback
  <2>3. slot[t] \in Slot
        BY <1>0
  <2>4. /\ DOMAIN slot' = DOMAIN slot
        /\ \A u \in DOMAIN slot : u # t => slot'[u] = slot[u]
        BY <2>2 DEF UnauthorizedFeedback, SuccessFeedback,
                    RateLimitedFeedback, HealthFeedback
  <2>5. \A n \in Mode : slot[t].quota[n] <= 0 => slot'[t].quota[n] <= 0
    <3> SUFFICES ASSUME NEW n \in Mode, slot[t].quota[n] <= 0
                 PROVE slot'[t].quota[n] <= 0
        OBVIOUS
    <3>1. CASE UnauthorizedFeedback(t)
          BY <2>3, <3>1 DEF UnauthorizedFeedback, Slot
    <3>2. CASE SuccessFeedback(t, m)
          BY <2>3, <3>2 DEF SuccessFeedback, Slot
    <3>3. CASE RateLimitedFeedback(t, m)
          BY <2>3, <3>3 DEF RateLimitedFeedback, Slot
    <3>4. CASE HealthFeedback
          BY <3>4 DEF HealthFeedback
    <3> QED BY <2>2, <3>1, <3>2, <3>3, <3>4
  <2>6. \A x \in limited' : \/ x \in limited
                            \/ x = <<t, m>> /\ slot'[t].quota[m] <= 0
    <3>1. CASE RateLimitedFeedback(t, m)
      <4>1. CASE strategy = "random"
            BY <3>1, <4>1 DEF RateLimitedFeedback
      <4>2. CASE strategy # "random"
        <5>1. slot'[t].quota[m] = 0
              BY <2>3, <3>1, <4>2 DEF RateLimitedFeedback, Slot
        <5> QED BY <3>1, <5>1 DEF RateLimitedFeedback
      <4> QED BY <4>1, <4>2
    <3>2. CASE ~RateLimitedFeedback(t, m)
          BY <2>2, <3>2
          DEF UnauthorizedFeedback, SuccessFeedback, HealthFeedback
    <3> QED BY <3>1, <3>2
  <2> SUFFICES ASSUME NEW x \in limited'
               PROVE x[1] \in DOMAIN slot' /\ slot'[x[1]].quota[x[2]] <= 0
      BY DEF LimitedInv
  <2>7. CASE x \in limited
    <3>1. PICK u \in Token, n \in Mode : x = <<u, n>>
          BY <1>0, <2>7
    <3>2. u \in DOMAIN slot /\ slot[u].quota[n] <= 0
          BY <2>7, <3>1 DEF LimitedInv
    <3> QED BY <2>4, <2>5, <3>1, <3>2
  <2>8. CASE x = <<t, m>> /\ slot'[t].quota[m] <= 0
        BY <2>4, <2>8
  <2> QED BY <2>6, <2>7, <2>8
<1>5. ASSUME NEW r \in Request, Advances(r) \/ Fails(r)
      PROVE  LimitedInv'
  <2>1. CASE \/ ReserveGrants(r) \/ RefreshedGrants(r) \/ ReserveRejects(r)
             \/ RefreshedRejects(r) \/ NeedsRefresh(r)
    <3>1. \E X, ts : RenewWindows(X, ts)
          BY <2>1 DEF ReserveGrants, RefreshedGrants, ReserveRejects,
                      RefreshedRejects, NeedsRefresh, Grant, Reject
    <3> QED BY <3>1, <1>1
  <2>2. CASE StreamStarts(r) \/ Fails(r)
        BY <2>2, <1>2
        DEF StreamStarts, Fails, RefreshAborts, PreparationFails,
            StreamNeverStarts, tableVars, historyVars
  <2>3. CASE \E outcome \in Outcome : Finish(r, outcome) \/ TryNext(r, outcome)
        BY <2>3, <1>4 DEF Finish, TryNext
  <2> QED BY <1>5, <2>1, <2>2, <2>3 DEF Advances
<1>6. CASE \/ \E r \in Request, p \in Plan : Start(r, p)
           \/ SwitchStrategy \/ Tick
      BY <1>6, <1>2 DEF Start, SwitchStrategy, Tick, tableVars, historyVars
<1> QED BY <1>3, <1>5, <1>6 DEF Next

LEMMA NextRest ==
    ASSUME DirectoryInv, SparingInv, Next
    PROVE  RestInv'
<1> USE DEF SparingInv
<1>0. /\ now \in Nat /\ asked \in [Request -> Nat]
      /\ rested \in [Token -> Nat] /\ cooling \in [Token -> Nat]
      BY DEF DirectoryInv, TypeOK
<1>1. ASSUME UNCHANGED <<rested, cooling, now>>,
             \A r \in Request : asked'[r] = asked[r] \/ asked'[r] <= now
      PROVE  RestInv'
      BY <1>1 DEF RestInv
<1>2. ASSUME NEW r \in Request, Ends(r)
      PROVE  \A q \in Request : asked'[q] = asked[q] \/ asked'[q] <= now
      BY <1>0, <1>2 DEF Ends
<1>3. ASSUME NEW r \in Request, pc[r] = "running", NEW outcome,
             Feedback(r, outcome), now' = now,
             \A q \in Request : asked'[q] = asked[q] \/ asked'[q] <= now
      PROVE  RestInv'
  <2>1. CASE UNCHANGED <<cooling, rested>>
        BY <1>1, <1>3, <2>1
  <2>2. CASE RateLimitedFeedback(lease[r].token, lease[r].mode)
    <3> DEFINE t == lease[r].token
               end == now + CoolingSec[slot[t].pool]
    <3>1. t \in DOMAIN slot /\ t \in Token
      <4>1. TypeOK /\ StageInv
            BY DEF DirectoryInv
      <4> QED BY <4>1, <1>3, LeaseHeld
    <3>2. end \in Nat
      <4>1. slot[t].pool \in Pool
            BY <3>1 DEF DirectoryInv, TypeOK, Slot
      <4> QED BY <1>0, <4>1, CoolingAssumption
    <3>3. /\ rested' = [rested EXCEPT ![t] = end]
          /\ cooling' = [cooling EXCEPT ![t] =
                IF end > @ /\ (strategy = "random" \/ end > now)
                THEN end ELSE @]
          BY <2>2 DEF RateLimitedFeedback
    <3> HIDE DEF t, end
    <3>4. rested'[t] <= cooling'[t] \/ rested'[t] <= now
          BY <1>0, <3>1, <3>2, <3>3
    <3>5. \A u \in Token \ {t} : rested'[u] = rested[u] /\ cooling'[u] = cooling[u]
          BY <1>0, <3>3
    <3> QED BY <1>3, <3>4, <3>5 DEF RestInv
  <2> QED BY <1>3, <2>1, <2>2
          DEF Feedback, UnauthorizedFeedback, SuccessFeedback, HealthFeedback
<1>4. ASSUME NEW r \in Request, Advances(r) \/ Fails(r)
      PROVE  RestInv'
  <2>1. CASE ReserveGrants(r) \/ RefreshedGrants(r)
        BY <2>1, <1>1 DEF ReserveGrants, RefreshedGrants, Grant
  <2>2. CASE ReserveRejects(r) \/ RefreshedRejects(r) \/ Fails(r)
        BY <2>2, <1>1, <1>2
        DEF ReserveRejects, RefreshedRejects, Reject, Fails, RefreshAborts,
            PreparationFails, StreamNeverStarts, tableVars, historyVars
  <2>3. CASE NeedsRefresh(r)
        BY <2>3, <1>0, <1>1 DEF NeedsRefresh
  <2>4. CASE StreamStarts(r)
        BY <2>4, <1>1 DEF StreamStarts, tableVars, historyVars
  <2>5. CASE \E outcome \in Outcome : Finish(r, outcome) \/ TryNext(r, outcome)
        BY <2>5, <1>2, <1>3 DEF Finish, TryNext
  <2> QED BY <1>4, <2>1, <2>2, <2>3, <2>4, <2>5 DEF Advances
<1>5. CASE \/ \E r \in Request, p \in Plan : Start(r, p)
           \/ \E page \in Pages : Sync(page)
           \/ SwitchStrategy
      BY <1>5, <1>1
      DEF Start, Sync, SwitchStrategy, tableVars, requestVars, historyVars
<1>6. CASE Tick
  <2>1. /\ now' = now + 1 /\ UNCHANGED <<rested, cooling, asked>>
        BY <1>6 DEF Tick, tableVars, requestVars, historyVars
  <2> QED BY <1>0, <2>1 DEF RestInv
<1> QED BY <1>4, <1>5, <1>6 DEF Next

LEMMA InitSparing == Init => SparingInv
<1> SUFFICES ASSUME Init PROVE SparingInv
    OBVIOUS
<1>1. IsFiniteSet({}) /\ Cardinality({}) = 0
      BY FS_EmptySet
<1> QED BY <1>1 DEF Init, SparingInv, AttemptInv, AttemptsDistinct, LimitedInv,
                    RestInv

LEMMA SparingInvariant == Spec => []SparingInv
<1>1. DirectoryInv /\ SparingInv /\ [Next]_vars => SparingInv'
  <2> SUFFICES ASSUME DirectoryInv, SparingInv, [Next]_vars PROVE SparingInv'
      OBVIOUS
  <2>1. CASE Next
        BY <2>1, NextAttempt, NextLimited, NextRest DEF SparingInv
  <2>2. CASE UNCHANGED vars
        BY <2>2 DEF SparingInv, AttemptInv, AttemptsDistinct, LimitedInv,
                    RestInv, vars, tableVars, requestVars, historyVars
  <2> QED BY <2>1, <2>2
<1> QED BY <1>1, InitSparing, DirectoryInvariant, PTL DEF Spec

(* A step that grants a lease is a grant.                                  *)
LEMMA GrantedIsGrant ==
    ASSUME DirectoryInv, Next, NEW r \in Request, Granted(r)
    PROVE  ReserveGrants(r) \/ RefreshedGrants(r)
<1>1. \A q \in Request : ReserveGrants(q) \/ RefreshedGrants(q)
         => \E l : lease' = [lease EXCEPT ![q] = l]
      BY DEF ReserveGrants, RefreshedGrants, Grant
<1>2. \A q \in Request : Ends(q) => lease'[r] = lease[r] \/ lease'[r] = NoLease
      BY DEF Ends, DirectoryInv, TypeOK
<1>3. ASSUME NEW q \in Request, Advances(q) \/ Fails(q)
      PROVE  \/ lease'[r] = lease[r] \/ lease'[r] = NoLease
             \/ ReserveGrants(r) \/ RefreshedGrants(r)
  <2>1. CASE ReserveGrants(q) \/ RefreshedGrants(q)
        BY <1>1, <2>1 DEF DirectoryInv, TypeOK
  <2>2. CASE \/ ReserveRejects(q) \/ RefreshedRejects(q) \/ Fails(q)
             \/ \E outcome \in Outcome : Finish(q, outcome)
        BY <2>2, <1>2
        DEF ReserveRejects, RefreshedRejects, Reject, Finish, Fails,
            RefreshAborts, PreparationFails, StreamNeverStarts
  <2>3. CASE NeedsRefresh(q) \/ StreamStarts(q)
        BY <2>3 DEF NeedsRefresh, StreamStarts
  <2>4. CASE \E outcome \in Outcome : TryNext(q, outcome)
        BY <2>4 DEF TryNext, DirectoryInv, TypeOK
  <2> QED BY <1>3, <2>1, <2>2, <2>3, <2>4 DEF Advances
<1>4. CASE \/ \E page \in Pages : Sync(page)
           \/ \E q \in Request, p \in Plan : Start(q, p)
           \/ SwitchStrategy \/ Tick
      BY <1>4 DEF Sync, Start, SwitchStrategy, Tick, requestVars, Granted
<1> QED BY <1>3, <1>4 DEF Next, Granted

(* The retry loop never tries an account twice and stops after the         *)
(* configured number of retries, for any number of accounts and requests   *)
(* (excluded, exclude_tokens).                                             *)
THEOREM DirectoryAttemptsDistinct == Spec => []AttemptsDistinct
BY SparingInvariant, PTL DEF SparingInv, AttemptInv

(* An account exhausted by a 429 is spared for the mode until a sync       *)
(* brings news of it or its window is over (apply_rate_limited_quota,      *)
(* _maybe_reset_windows).                                                  *)
THEOREM DirectorySparesExhausted == Spec => ExhaustedNotLeased
<1>1. DirectoryInv /\ SparingInv /\ [Next]_vars
        => [\A r \in Request :
              Granted(r) /\ strategy = "quota" /\ ~plan[r].any
                => <<lease'[r].token, lease'[r].mode>> \notin limited']_vars
  <2> SUFFICES ASSUME DirectoryInv, SparingInv, Next, NEW r \in Request,
                      Granted(r), strategy = "quota", ~plan[r].any
               PROVE <<lease'[r].token, lease'[r].mode>> \notin limited'
      OBVIOUS
  <2>1. PICK ts \in Nat : /\ ts <= now /\ Grant(r, ts)
                          /\ pc[r] \in {"asking", "refreshing"}
        BY GrantedIsGrant, GrantsOnly DEF SparingInv
  <2> QED BY <2>1, GrantSpares DEF SparingInv
<1> QED BY <1>1, DirectoryInvariant, SparingInvariant, PTL
        DEF Spec, ExhaustedNotLeased

(* The random strategy leases no account before the end of its last        *)
(* cool-down and none more often than max_inflight allows                  *)
(* (_random_select, apply_rate_limited_random).                            *)
THEOREM DirectoryRandomSpares == Spec => RandomSpares
<1>1. DirectoryInv /\ SparingInv /\ [Next]_vars
        => [\A r \in Request :
              Granted(r) /\ strategy = "random"
                => LET t == lease'[r].token
                   IN /\ now >= rested[t]
                      /\ Cardinality(Holders(t)) < MaxInflight]_vars
  <2> SUFFICES ASSUME DirectoryInv, SparingInv, Next, NEW r \in Request,
                      Granted(r), strategy = "random"
               PROVE /\ now >= rested[lease'[r].token]
                     /\ Cardinality(Holders(lease'[r].token)) < MaxInflight
      OBVIOUS
  <2>1. PICK ts \in Nat : /\ ts <= now /\ Grant(r, ts)
                          /\ pc[r] \in {"asking", "refreshing"}
        BY GrantedIsGrant, GrantsOnly DEF SparingInv
  <2> QED BY <2>1, GrantSpares DEF SparingInv
<1> QED BY <1>1, DirectoryInvariant, SparingInvariant, PTL
        DEF Spec, RandomSpares
(* Whom Grant passes over: an account of an earlier pool whose quota for   *)
(* the mode is spent.                                                      *)
LEMMA GrantInOrder ==
    ASSUME DirectoryInv, NEW r \in Request,
           pc[r] \in {"asking", "refreshing"}, NEW ts \in Nat, Grant(r, ts),
           strategy = "quota", ~plan[r].any,
           NEW i \in DOMAIN plan[r].pools, NEW j \in DOMAIN plan[r].pools,
           NEW t \in DOMAIN slot, i < j,
           slot[lease'[r].token].pool = plan[r].pools[j],
           slot[t].pool = plan[r].pools[i], slot[t].status = "active",
           slot[t].window[lease'[r].mode] > 0, t \notin excluded[r]
    PROVE  slot'[t].quota[lease'[r].mode] <= 0
<1> USE DEF DirectoryInv
<1>0. plan[r] \in Plan
      BY DEF StageInv
<1>1a. PICK c \in Turns(r) : \E u \in WorkingAt(r, c, ts) :
         /\ Wins(r, c, ts)
         /\ RenewWindows(Renewed(r, {d \in Turns(r) : ~Before(c, d)}, ts), ts)
         /\ lease' = [lease EXCEPT ![r] = [token |-> u,
                                           mode |-> plan[r].modes[c[1]]]]
      BY DEF Grant
<1>1. PICK u \in WorkingAt(r, c, ts) :
         /\ Wins(r, c, ts)
         /\ RenewWindows(Renewed(r, {d \in Turns(r) : ~Before(c, d)}, ts), ts)
         /\ lease' = [lease EXCEPT ![r] = [token |-> u,
                                           mode |-> plan[r].modes[c[1]]]]
      BY <1>1a
<1> DEFINE p == plan[r].pools[c[2]]
           m == plan[r].modes[c[1]]
<1>2. lease'[r] = [token |-> u, mode |-> m]
      BY <1>1 DEF TypeOK
<1>3. /\ m \in Mode /\ p \in Pool
      /\ c[1] \in DOMAIN plan[r].modes /\ c[2] \in DOMAIN plan[r].pools
      BY <1>0, TurnType DEF Turns
<1>4. slot[u].pool = p
      BY <1>3 DEF WorkingAt, Working, IndexExact
<1>5. c[2] = j
      BY <1>0, <1>2, <1>3, <1>4, PoolsAssumption
<1>6. /\ <<c[1], i>> \in Turns(r)
      /\ Before(<<c[1], i>>, c)
      BY <1>3, <1>5 DEF Turns, Before
<1>7. t \notin WorkingAt(r, <<c[1], i>>, ts)
      BY <1>1, <1>6 DEF Wins
<1>8. plan[r].pools[i] \in Pool /\ t \in available[<<plan[r].pools[i], m>>]
  <2>1. plan[r].pools[i] \in Pool
        BY <1>0, <1>6, TurnType
  <2> QED BY <1>2, <1>3, <2>1 DEF IndexExact
<1>9. ~(QuotaLeft(t, m, ts) > 0)
      BY <1>3, <1>7, <1>8 DEF WorkingAt, Working, PoolUnion
<1>10. slot[t].quota[m] \in Int
      BY <1>3 DEF TypeOK, Slot
<1>11. ~Renews(t, m, ts) /\ slot[t].quota[m] <= 0
      BY <1>9, <1>10 DEF QuotaLeft, Renews
<1> DEFINE X == Renewed(r, {d \in Turns(r) : ~Before(c, d)}, ts)
<1>12. <<t, m>> \notin X
      BY <1>11 DEF Renewed
<1> HIDE DEF X
<1>13. slot'[t].quota[m] = slot[t].quota[m]
  <2>1. RenewWindows(X, ts)
        BY <1>1 DEF X
  <2> DEFINE quota == [n \in Mode |-> IF <<t, n>> \in X THEN slot[t].total[n]
                                      ELSE slot[t].quota[n]]
             reset == [n \in Mode |-> IF <<t, n>> \in X
                                      THEN ts + slot[t].window[n]
                                      ELSE slot[t].reset[n]]
  <2>2. slot'[t] = [slot[t] EXCEPT !.quota = quota, !.reset = reset]
        BY <2>1 DEF RenewWindows
  <2>3. slot[t] \in Slot
        BY DEF TypeOK
  <2>4. quota[m] = slot[t].quota[m]
        BY <1>3, <1>12
  <2> HIDE DEF quota, reset
  <2>5. slot'[t].quota = quota
        BY <2>2, <2>3 DEF Slot
  <2> QED BY <2>4, <2>5
<1> QED BY <1>2, <1>11, <1>13

(* An account of a pool is leased only when every active account of the    *)
(* pools before it has spent its quota for the mode and has no window to   *)
(* renew, for any number of pools and accounts (reserve: the first pool    *)
(* that has one wins).                                                     *)
THEOREM DirectoryPoolsInOrder == Spec => EarlierPoolsFirst
<1> DEFINE A == \A r \in Request :
             Granted(r) /\ strategy = "quota" /\ ~plan[r].any
               => \A i, j \in DOMAIN plan[r].pools, t \in DOMAIN slot :
                     /\ i < j
                     /\ slot[lease'[r].token].pool = plan[r].pools[j]
                     /\ slot[t].pool = plan[r].pools[i]
                     /\ slot[t].status = "active"
                     /\ slot[t].window[lease'[r].mode] > 0
                     /\ t \notin excluded[r]
                     => slot'[t].quota[lease'[r].mode] <= 0
<1>1. DirectoryInv /\ SparingInv /\ [Next]_vars => [A]_vars
  <2> SUFFICES ASSUME DirectoryInv, SparingInv, Next PROVE A
      OBVIOUS
  <2>1. ASSUME NEW r \in Request, Granted(r)
        PROVE  \E ts \in Nat : Grant(r, ts) /\ pc[r] \in {"asking", "refreshing"}
        BY <2>1, GrantedIsGrant, GrantsOnly DEF SparingInv
  <2> QED BY <2>1, GrantInOrder
<1> QED BY <1>1, DirectoryInvariant, SparingInvariant, PTL
        DEF Spec, EarlierPoolsFirst
=============================================================================
