------------------------- MODULE AccountSyncProofs -------------------------
(***************************************************************************)
(* Proofs about AccountSync for every set of tokens, workers and payloads: *)
(* type correctness, and, for tables that fit in one page of the change    *)
(* scan, that no change is ever lost and that the protocol implements      *)
(* AccountReplica.                                                         *)
(***************************************************************************)
EXTENDS AccountSync, TLAPS

(* Every set of changed rows fits in one page (batch_limit is 5000).       *)
OnePage == \A S \in SUBSET Token : Cardinality(S) <= BatchLimit

(* A row or slot shown for t by the page being applied, or by the table    *)
(* where the page is silent.                                               *)
Upcoming(w, t) == IF t \in DOMAIN page[w] THEN page[w][t] ELSE table[w][t]

(* The repository never stamps a row beyond its counter, and a row that    *)
(* was never stamped does not exist.                                       *)
StampsInv == \A t \in Token : /\ changed[t] <= revision
                              /\ changed[t] = 0 => row[t] = NoRow

(* A worker's revisions are ordered, and its table is empty until the      *)
(* snapshot has been read.                                                 *)
HorizonInv == \A w \in Worker : /\ synced[w] <= seen[w]
                                /\ seen[w] <= revision
                                /\ phase[w] \in {"down", "booting"} =>
                                      synced[w] = 0 /\ table[w] = Empty

(* What a page under way says is still true of every row that has not      *)
(* changed since the scan read the revision.                               *)
PageInv == \A w \in Worker, t \in Token :
              phase[w] = "applying" /\ changed[t] <= seen[w]
                 => Visible(Upcoming(w, t)) = Visible(row[t])

SyncInv == TypeOK /\ StampsInv /\ HorizonInv /\ NoLostChange /\ PageInv

-----------------------------------------------------------------------------
(* What any transaction, whole or half, does to the repository.            *)
WriteEffect ==
    /\ UNCHANGED <<backend, workerVars>>
    /\ revision' \in Nat
    /\ revision' >= revision
    /\ row' \in [Token -> Row]
    /\ changed' \in [Token -> Nat]
    /\ replacing' \subseteq Job
    /\ \A t \in Token : \/ row'[t] = row[t] /\ changed'[t] = changed[t]
                        \/ changed'[t] > revision /\ changed'[t] <= revision'
    /\ revision' = revision => row' = row /\ changed' = changed

(* Every operation of the repository only stamps rows above the revision   *)
(* it started from (the bump and the row writes commit together).          *)
LEMMA WritesStampAbove ==
    ASSUME TypeOK, Write
    PROVE  WriteEffect
<1> USE DEF WriteEffect, TypeOK, Bump, Store, Row, Live, Job, workerVars
<1>1. ASSUME NEW S \in SUBSET Token, NEW c \in Content, UpsertAccounts(S, c)
      PROVE  WriteEffect
  BY <1>1 DEF UpsertAccounts
<1>2. ASSUME NEW S \in SUBSET Token, NEW c \in Content, PatchAccounts(S, c)
      PROVE  WriteEffect
  BY <1>2, MarkersAssumption DEF PatchAccounts
<1>3. ASSUME NEW S \in SUBSET Token, NEW c \in Content, NEW p \in Pool,
             ReplacePoolLocal(p, S, c)
      PROVE  WriteEffect
  BY <1>3 DEF ReplacePoolLocal, InPool
<1>4. ASSUME NEW S \in SUBSET Token, NEW c \in Content, NEW p \in Pool,
             ReplacePoolSql(p, S, c)
      PROVE  WriteEffect
  BY <1>4 DEF ReplacePoolSql, InPool
<1>5. ASSUME NEW S \in SUBSET Token, DeleteAccounts(S)
      PROVE  WriteEffect
  BY <1>5 DEF DeleteAccounts
<1>6. ASSUME NEW job \in replacing, ReplacePoolUpsert(job)
      PROVE  WriteEffect
  <2>1. job.tokens \in SUBSET Token /\ job.content \in Content
    OBVIOUS
  <2>2. QED BY <1>6, <2>1 DEF ReplacePoolUpsert
<1>7. ASSUME NEW job \in replacing, ReplacePoolAborts(job)
      PROVE  WriteEffect
  BY <1>7 DEF ReplacePoolAborts
<1>8. QED BY <1>1, <1>2, <1>3, <1>4, <1>5, <1>6, <1>7 DEF Write

-----------------------------------------------------------------------------
(* Type correctness.  Every variable keeps its type under every step of    *)
(* the repository and of the workers.                                      *)
LEMMA PageType ==
    ASSUME NEW S \in SUBSET Token, NEW f \in [S -> Row]
    PROVE  f \in UNION {[P -> Row] : P \in SUBSET Token}
  OBVIOUS

LEMMA NoPageType ==
    [t \in {} |-> NoRow] \in UNION {[P -> Row] : P \in SUBSET Token}
<1>1. [t \in {} |-> NoRow] \in [{} -> Row] OBVIOUS
<1>2. QED BY <1>1, PageType

LEMMA InitType == Init => TypeOK
<1> SUFFICES ASSUME Init PROVE TypeOK
  OBVIOUS
<1>1. /\ backend \in {"local", "sql", "redis"}
      /\ revision \in Nat
      /\ changed \in [Token -> Nat]
      /\ replacing \subseteq Job
      /\ phase \in [Worker -> Phase]
      /\ seen \in [Worker -> Nat]
      /\ synced \in [Worker -> Nat]
  BY DEF Init, EmptyStart, Phase
<1>2. Empty \in [Token -> Row] BY DEF Empty, Row
<1>3. row \in [Token -> Row] /\ table \in [Worker -> [Token -> Row]]
  BY <1>2 DEF Init, EmptyStart
<1>4. page \in [Worker -> UNION {[P -> Row] : P \in SUBSET Token}]
  BY NoPageType DEF Init, EmptyStart
<1>5. QED BY <1>1, <1>3, <1>4 DEF TypeOK

LEMMA NextType == TypeOK /\ [Next]_vars => TypeOK'
<1> SUFFICES ASSUME TypeOK, [Next]_vars PROVE TypeOK'
  OBVIOUS
<1>1. CASE Write
  <2>1. WriteEffect BY <1>1, WritesStampAbove
  <2>2. QED BY <2>1 DEF WriteEffect, TypeOK, workerVars
<1>2. ASSUME NEW w \in Worker, SnapshotRevision(w) PROVE TypeOK'
  BY <1>2 DEF SnapshotRevision, TypeOK, repoVars, Phase
<1>3. ASSUME NEW w \in Worker, SnapshotRows(w) PROVE TypeOK'
  <2>1. [t \in Token |-> IF Live(t) THEN row[t] ELSE NoRow] \in [Token -> Row]
    BY DEF Row, Live
  <2>2. QED BY <1>3, <2>1 DEF SnapshotRows, TypeOK, repoVars, Phase
<1>4. ASSUME NEW w \in Worker, ScanRevision(w) PROVE TypeOK'
  BY <1>4 DEF ScanRevision, TypeOK, repoVars, Phase
<1>5. ASSUME NEW w \in Worker, ScanRows(w) PROVE TypeOK'
  <2>1. PICK P \in Pages(w) : page' = [page EXCEPT ![w] = [t \in P |-> row[t]]]
    BY <1>5 DEF ScanRows
  <2>2. P \in SUBSET Token BY DEF Pages, Changed
  <2>3. [t \in P |-> row[t]] \in [P -> Row] BY <2>2 DEF TypeOK
  <2>4. [t \in P |-> row[t]] \in UNION {[Q -> Row] : Q \in SUBSET Token}
    BY <2>2, <2>3, PageType
  <2>5. QED BY <1>5, <2>1, <2>4 DEF ScanRows, TypeOK, repoVars, Phase
<1>6. ASSUME NEW w \in Worker, ScanFails(w) PROVE TypeOK'
  BY <1>6 DEF ScanFails, TypeOK, repoVars, Phase
<1>7. ASSUME NEW w \in Worker, ApplyPage(w) PROVE TypeOK'
  <2>1. PICK P \in SUBSET Token : page[w] \in [P -> Row] BY DEF TypeOK
  <2>2. Applied(table[w], page[w]) \in [Token -> Row]
    BY <2>1 DEF Applied, TypeOK, Row
  <2>3. QED BY <1>7, <2>2, NoPageType DEF ApplyPage, TypeOK, repoVars, Phase
<1>8. ASSUME NEW w \in Worker, Restart(w) PROVE TypeOK'
  <2>1. Empty \in [Token -> Row] BY DEF Empty, Row
  <2>2. QED BY <1>8, <2>1, NoPageType DEF Restart, TypeOK, repoVars, Phase
<1>9. CASE UNCHANGED vars
  BY <1>9 DEF vars, repoVars, workerVars, TypeOK
<1>10. QED
  BY <1>1, <1>2, <1>3, <1>4, <1>5, <1>6, <1>7, <1>8, <1>9
     DEF Next, WorkerStep

(* The state of repository and workers is always well typed.               *)
THEOREM TypeCorrect == Spec => []TypeOK
  BY InitType, NextType, PTL DEF Spec

-----------------------------------------------------------------------------
(* No change is lost.  The invariant is inductive only together with the   *)
(* stamps never running ahead of the counter, the order of a worker's      *)
(* revisions, and what a page under way still guarantees.                  *)
LEMMA InitSync == Init => SyncInv
<1> SUFFICES ASSUME Init PROVE SyncInv
  OBVIOUS
<1>1. TypeOK BY InitType
<1>2. StampsInv BY DEF Init, EmptyStart, StampsInv, Empty
<1>3. HorizonInv BY DEF Init, EmptyStart, HorizonInv, Empty
<1>4. NoLostChange BY DEF Init, EmptyStart, NoLostChange, Empty
<1>5. PageInv BY DEF Init, EmptyStart, PageInv
<1>6. QED BY <1>1, <1>2, <1>3, <1>4, <1>5 DEF SyncInv

LEMMA WritePreservesSync ==
    ASSUME SyncInv, Write
    PROVE  StampsInv' /\ HorizonInv' /\ NoLostChange' /\ PageInv'
<1>1. TypeOK /\ WriteEffect
  BY WritesStampAbove DEF SyncInv
<1>2. StampsInv'
  BY <1>1 DEF SyncInv, StampsInv, WriteEffect, TypeOK
<1>3. HorizonInv'
  BY <1>1 DEF SyncInv, HorizonInv, WriteEffect, TypeOK, workerVars, Empty
<1>4. ASSUME NEW w \in Worker, NEW t \in Token, changed'[t] <= seen[w]
      PROVE  row'[t] = row[t] /\ changed'[t] = changed[t]
  BY <1>1, <1>4 DEF SyncInv, HorizonInv, WriteEffect, TypeOK
<1>5. NoLostChange'
  <2> SUFFICES ASSUME NEW w \in Worker, NEW t \in Token, changed'[t] <= synced[w]
               PROVE  Visible(table[w][t]) = Visible(row'[t])
    BY <1>1 DEF NoLostChange, WriteEffect, workerVars, Visible
  <2>1. changed'[t] <= seen[w]
    BY <1>1 DEF SyncInv, HorizonInv, WriteEffect, TypeOK
  <2>2. row'[t] = row[t] /\ changed[t] <= synced[w]
    BY <2>1, <1>4
  <2>3. QED BY <2>2 DEF SyncInv, NoLostChange
<1>6. PageInv'
  <2> SUFFICES ASSUME NEW w \in Worker, NEW t \in Token,
                      phase[w] = "applying", changed'[t] <= seen[w]
               PROVE  Visible(Upcoming(w, t)) = Visible(row'[t])
    BY <1>1 DEF PageInv, WriteEffect, workerVars, Visible, Upcoming
  <2>1. row'[t] = row[t] /\ changed[t] <= seen[w]
    BY <1>4
  <2>2. QED BY <2>1 DEF SyncInv, PageInv
<1>7. QED BY <1>2, <1>3, <1>5, <1>6

(* With the page limit out of the way, a scan returns every row stamped    *)
(* after the table's revision.                                             *)
LEMMA OnePageIsAll ==
    ASSUME OnePage, NEW w \in Worker, NEW P \in Pages(w)
    PROVE  P = Changed(w)
<1>1. Cardinality(Changed(w)) <= BatchLimit BY DEF OnePage, Changed
<1>2. QED BY <1>1 DEF Pages

(* A worker's own step disturbs nothing but its own part of the invariant. *)
LEMMA WorkerPreservesSync ==
    ASSUME OnePage, SyncInv, NEW w \in Worker, WorkerStep(w)
    PROVE  StampsInv' /\ HorizonInv' /\ NoLostChange' /\ PageInv'
<1> USE DEF SyncInv, TypeOK
<1>1. UNCHANGED repoVars /\ StampsInv'
  BY DEF WorkerStep, SnapshotRevision, SnapshotRows, ScanRevision, ScanRows,
         ScanFails, ApplyPage, Restart, repoVars, StampsInv
<1>2. CASE SnapshotRevision(w)
  <2>1. HorizonInv' BY <1>2 DEF SnapshotRevision, HorizonInv, repoVars
  <2>2. NoLostChange'
    BY <1>2 DEF SnapshotRevision, NoLostChange, repoVars, Visible
  <2>3. PageInv'
    BY <1>2 DEF SnapshotRevision, PageInv, repoVars, Visible, Upcoming
  <2>4. QED BY <1>1, <2>1, <2>2, <2>3
<1>3. CASE SnapshotRows(w)
  <2>1. HorizonInv' BY <1>3 DEF SnapshotRows, HorizonInv, repoVars
  <2>2. \A t \in Token : Visible(table'[w][t]) = Visible(row[t])
    BY <1>3, MarkersAssumption DEF SnapshotRows, Visible, Live, Absent
  <2>3. NoLostChange'
    BY <1>3, <2>2 DEF SnapshotRows, NoLostChange, repoVars, Visible
  <2>4. PageInv'
    BY <1>3 DEF SnapshotRows, PageInv, repoVars, Visible, Upcoming
  <2>5. QED BY <1>1, <2>1, <2>3, <2>4
<1>4. CASE ScanRevision(w)
  <2>1. HorizonInv' BY <1>4 DEF ScanRevision, HorizonInv, repoVars
  <2>2. NoLostChange' BY <1>4 DEF ScanRevision, NoLostChange, repoVars, Visible
  <2>3. PageInv'
    BY <1>4 DEF ScanRevision, PageInv, repoVars, Visible, Upcoming
  <2>4. QED BY <1>1, <2>1, <2>2, <2>3
<1>5. CASE ScanRows(w)
  <2>1. page' = [page EXCEPT ![w] = [t \in Changed(w) |-> row[t]]]
    BY <1>5, OnePageIsAll DEF ScanRows
  <2>2. HorizonInv' BY <1>5 DEF ScanRows, HorizonInv, repoVars
  <2>3. NoLostChange' BY <1>5 DEF ScanRows, NoLostChange, repoVars, Visible
  <2>4. ASSUME NEW t \in Token
        PROVE  Visible(Upcoming(w, t)') = Visible(row[t])
    <3>1. CASE t \in Changed(w)
      BY <2>1, <3>1 DEF Upcoming
    <3>2. CASE t \notin Changed(w)
      <4>1. Upcoming(w, t)' = table[w][t]
        BY <1>5, <2>1, <3>2 DEF Upcoming, ScanRows
      <4>2. changed[t] <= synced[w] BY <3>2 DEF Changed
      <4>3. QED BY <4>1, <4>2 DEF NoLostChange
    <3>3. QED BY <3>1, <3>2
  <2>5. PageInv'
    <3> SUFFICES ASSUME NEW u \in Worker, NEW t \in Token,
                        (phase[u] = "applying" /\ changed[t] <= seen[u])'
                 PROVE  Visible(Upcoming(u, t)') = Visible(row[t])
      BY <1>1 DEF PageInv, repoVars, Visible
    <3>1. CASE u = w BY <2>4, <3>1
    <3>2. CASE u # w
      BY <1>5, <2>1, <3>2 DEF ScanRows, PageInv, repoVars, Upcoming
    <3>3. QED BY <3>1, <3>2
  <2>6. QED BY <1>1, <2>2, <2>3, <2>5
<1>6. CASE ScanFails(w)
  <2>1. HorizonInv' BY <1>6 DEF ScanFails, HorizonInv, repoVars
  <2>2. NoLostChange' BY <1>6 DEF ScanFails, NoLostChange, repoVars, Visible
  <2>3. PageInv'
    BY <1>6 DEF ScanFails, PageInv, repoVars, Visible, Upcoming
  <2>4. QED BY <1>1, <2>1, <2>2, <2>3
<1>7. CASE ApplyPage(w)
  <2>1. synced'[w] = seen[w] /\ seen' = seen
    BY <1>7 DEF ApplyPage, HorizonInv
  <2>2. HorizonInv' BY <1>7, <2>1 DEF ApplyPage, HorizonInv, repoVars
  <2>3. ASSUME NEW t \in Token
        PROVE  Visible(table'[w][t]) = Visible(Upcoming(w, t))
    <3>1. table'[w][t] = Applied(table[w], page[w])[t]
      BY <1>7 DEF ApplyPage
    <3>2. QED BY <3>1, MarkersAssumption
              DEF Applied, Upcoming, Visible, Absent
  <2>4. NoLostChange'
    <3> SUFFICES ASSUME NEW u \in Worker, NEW t \in Token,
                        changed[t] <= synced'[u]
                 PROVE  Visible(table'[u][t]) = Visible(row[t])
      BY <1>1 DEF NoLostChange, repoVars, Visible
    <3>1. CASE u = w
      BY <1>7, <2>1, <2>3, <3>1 DEF PageInv, ApplyPage
    <3>2. CASE u # w BY <1>7, <3>2 DEF ApplyPage, NoLostChange
    <3>3. QED BY <3>1, <3>2
  <2>5. PageInv'
    BY <1>7 DEF ApplyPage, PageInv, repoVars, Visible, Upcoming
  <2>6. QED BY <1>1, <2>2, <2>4, <2>5
<1>8. CASE Restart(w)
  <2>1. HorizonInv' BY <1>8 DEF Restart, HorizonInv, repoVars
  <2>2. ASSUME NEW t \in Token, changed[t] <= 0
        PROVE  Visible(row[t]) = Absent
    BY <2>2, MarkersAssumption DEF StampsInv, Visible, Absent
  <2>3. NoLostChange'
    <3> SUFFICES ASSUME NEW u \in Worker, NEW t \in Token,
                        changed[t] <= synced'[u]
                 PROVE  Visible(table'[u][t]) = Visible(row[t])
      BY <1>1 DEF NoLostChange, repoVars, Visible
    <3>1. CASE u = w
      BY <1>8, <2>2, <3>1, MarkersAssumption
         DEF Restart, Empty, Visible, Absent
    <3>2. CASE u # w BY <1>8, <3>2 DEF Restart, NoLostChange
    <3>3. QED BY <3>1, <3>2
  <2>4. PageInv'
    BY <1>8 DEF Restart, PageInv, repoVars, Visible, Upcoming
  <2>5. QED BY <1>1, <2>1, <2>3, <2>4
<1>9. QED
  BY <1>2, <1>3, <1>4, <1>5, <1>6, <1>7, <1>8 DEF WorkerStep

LEMMA NextSync ==
    ASSUME OnePage PROVE SyncInv /\ [Next]_vars => SyncInv'
<1> SUFFICES ASSUME SyncInv, [Next]_vars PROVE SyncInv'
  OBVIOUS
<1>1. TypeOK' BY NextType DEF SyncInv
<1>2. CASE Write BY <1>1, <1>2, WritePreservesSync DEF SyncInv
<1>3. ASSUME NEW w \in Worker, WorkerStep(w) PROVE SyncInv'
  BY <1>1, <1>3, WorkerPreservesSync DEF SyncInv
<1>4. CASE UNCHANGED vars
  <2>1. StampsInv' /\ HorizonInv'
    BY <1>4 DEF SyncInv, vars, repoVars, workerVars, StampsInv, HorizonInv
  <2>2. NoLostChange'
    BY <1>4 DEF SyncInv, vars, repoVars, workerVars, NoLostChange, Visible
  <2>3. PageInv'
    BY <1>4 DEF SyncInv, vars, repoVars, workerVars, PageInv, Visible, Upcoming
  <2>4. QED BY <1>1, <2>1, <2>2, <2>3 DEF SyncInv
<1>5. QED BY <1>2, <1>3, <1>4 DEF Next

(* As long as the changes between two polls fit in one page, a table shows *)
(* every change the repository made up to the table's revision, whatever   *)
(* writers, failed scans and restarts come in between.                     *)
THEOREM ChangesNotLost ==
    ASSUME OnePage PROVE Spec => []NoLostChange
<1>1. Init => SyncInv BY InitSync
<1>2. SyncInv /\ [Next]_vars => SyncInv' BY NextSync
<1>3. SyncInv => NoLostChange BY DEF SyncInv
<1>4. QED BY <1>1, <1>2, <1>3, PTL DEF Spec

-----------------------------------------------------------------------------
(* The refinement: a transaction is a Publish (or changes nothing the      *)
(* contract sees), a snapshot or a page applied is a Refresh, a restart is *)
(* a Forget, and the reading steps in between are stutters.                *)
ShownRows   == [t \in Token |-> Visible(row[t])]
ShownTables == [w \in Worker |-> [t \in Token |-> Visible(table[w][t])]]

LEMMA VisibleType == \A v : Visible(v) \in Content \cup {Absent}
  BY DEF Visible

LEMMA WriteRefines ==
    ASSUME SyncInv, Write
    PROVE  [Replica!Publish]_Replica!vars
<1>1. TypeOK /\ WriteEffect
  BY WritesStampAbove DEF SyncInv
<1>2. ShownTables' = ShownTables /\ synced' = synced
  BY <1>1 DEF ShownTables, WriteEffect, workerVars, Visible
<1>3. CASE revision' = revision
  <2>1. ShownRows' = ShownRows /\ changed' = changed
    BY <1>1, <1>3 DEF WriteEffect, ShownRows, Visible
  <2>2. QED BY <1>2, <1>3, <2>1 DEF Replica!vars, ShownRows, ShownTables
<1>4. CASE revision' # revision
  <2>1. revision' > revision BY <1>1, <1>4 DEF WriteEffect, TypeOK
  <2>2. ShownRows' \in [Token -> Content \cup {Absent}]
    BY VisibleType DEF ShownRows
  <2>3. changed' \in [Token -> Int] BY <1>1 DEF WriteEffect
  <2>4. ASSUME NEW t \in Token
        PROVE  \/ ShownRows'[t] = ShownRows[t] /\ changed'[t] = changed[t]
               \/ changed'[t] > revision /\ changed'[t] <= revision'
    BY <1>1 DEF WriteEffect, ShownRows, Visible
  <2>5. QED
    BY <1>2, <2>1, <2>2, <2>3, <2>4
       DEF Replica!Publish, ShownRows, ShownTables
<1>5. QED BY <1>3, <1>4

(* Moving a table and its revision forward is a Refresh when afterwards    *)
(* the table shows every row stamped by then.                              *)
LEMMA MoveRefines ==
    ASSUME SyncInv, NEW w \in Worker, UNCHANGED repoVars,
           NEW T \in [Token -> Row], NEW h \in Nat,
           table' = [table EXCEPT ![w] = T],
           synced' = [synced EXCEPT ![w] = h],
           h >= synced[w], h <= revision,
           \A t \in Token : changed[t] <= h => Visible(T[t]) = Visible(row[t])
    PROVE  Replica!Refresh(w)
<1> USE DEF SyncInv, TypeOK
<1>1. UNCHANGED <<revision, changed>> /\ ShownRows' = ShownRows
  BY DEF repoVars, ShownRows, Visible
<1>2. synced'[w] = h OBVIOUS
<1>3. ShownTables'[w] = [t \in Token |-> Visible(T[t])]
  BY DEF ShownTables, Visible
<1>4. ShownTables'[w] \in [Token -> Content \cup {Absent}]
  BY <1>3, VisibleType
<1>5. ShownTables' = [ShownTables EXCEPT ![w] = ShownTables'[w]]
  BY DEF ShownTables, Visible
<1>6. \A t \in Token : changed[t] <= synced'[w] =>
                         ShownTables'[w][t] = ShownRows[t]
  BY <1>2, <1>3 DEF ShownRows
<1>7. QED
  BY <1>1, <1>2, <1>4, <1>5, <1>6
     DEF Replica!Refresh, ShownRows, ShownTables

LEMMA LaterWins ==
    ASSUME NEW a \in Nat, NEW b \in Nat, a <= b
    PROVE  (IF b > a THEN b ELSE a) = b
  OBVIOUS

LEMMA WorkerRefines ==
    ASSUME OnePage, SyncInv, SyncInv', NEW w \in Worker, WorkerStep(w)
    PROVE  \/ Replica!Refresh(w) \/ Replica!Forget(w)
           \/ UNCHANGED Replica!vars
<1> USE DEF SyncInv, TypeOK
<1>1. UNCHANGED repoVars /\ ShownRows' = ShownRows
  BY DEF WorkerStep, SnapshotRevision, SnapshotRows, ScanRevision, ScanRows,
         ScanFails, ApplyPage, Restart, repoVars, ShownRows, Visible
<1>2. CASE UNCHANGED <<table, synced>>
  <2>1. ShownTables' = ShownTables BY <1>2 DEF ShownTables, Visible
  <2>2. QED BY <1>1, <1>2, <2>1
            DEF Replica!vars, repoVars, ShownRows, ShownTables
<1>3. CASE SnapshotRows(w)
  <2> DEFINE T == [t \in Token |-> IF Live(t) THEN row[t] ELSE NoRow]
  <2>1. T \in [Token -> Row] BY DEF Live, Row
  <2>2. \A t \in Token : Visible(T[t]) = Visible(row[t])
    BY MarkersAssumption DEF Visible, Live, Absent
  <2>3. synced[w] = 0 /\ seen[w] <= revision
    BY <1>3 DEF SnapshotRows, HorizonInv
  <2>4. /\ table' = [table EXCEPT ![w] = T]
        /\ synced' = [synced EXCEPT ![w] = seen[w]]
    BY <1>3 DEF SnapshotRows
  <2>5. seen[w] \in Nat /\ seen[w] >= synced[w]
    BY <2>3
  <2> HIDE DEF T
  <2>6. Replica!Refresh(w)
    BY <1>1, <2>1, <2>2, <2>3, <2>4, <2>5, MoveRefines
  <2>7. QED BY <2>6
<1>4. CASE ApplyPage(w)
  <2>1. synced' = [synced EXCEPT ![w] = seen[w]] /\ synced[w] <= seen[w]
        /\ seen[w] <= revision
    <3>1. synced[w] <= seen[w] /\ seen[w] <= revision BY DEF HorizonInv
    <3>2. seen[w] \in Nat /\ synced[w] \in Nat OBVIOUS
    <3> HIDE DEF SyncInv, TypeOK
    <3>3. (IF seen[w] > synced[w] THEN seen[w] ELSE synced[w]) = seen[w]
      BY <3>1, <3>2, LaterWins
    <3>4. QED BY <1>4, <3>1, <3>3 DEF ApplyPage
  <2>2. table' = [table EXCEPT ![w] = table'[w]] /\ table'[w] \in [Token -> Row]
    BY <1>4 DEF ApplyPage
  <2>3. \A t \in Token : changed[t] <= seen[w] =>
                           Visible(table'[w][t]) = Visible(row[t])
    BY <1>1, <2>1 DEF NoLostChange, repoVars, Visible
  <2>4. Replica!Refresh(w) BY <1>1, <2>1, <2>2, <2>3, MoveRefines
  <2>5. QED BY <2>4
<1>5. CASE Restart(w)
  <2>1. ShownTables' = [ShownTables EXCEPT ![w] = [t \in Token |-> Absent]]
    <3>1. table \in [Worker -> [Token -> Row]] OBVIOUS
    <3>2. table' = [table EXCEPT ![w] = Empty] BY <1>5 DEF Restart
    <3> HIDE DEF SyncInv, TypeOK
    <3>3. \A t \in Token : Visible(Empty[t]) = Absent
      BY MarkersAssumption DEF Visible, Empty, Absent
    <3>4. \A v \in Worker : v # w => table'[v] = table[v]
      BY <3>1, <3>2
    <3>5. table'[w] = Empty BY <3>1, <3>2
    <3>6. ShownTables'[w] = [t \in Token |-> Absent]
      BY <3>3, <3>5 DEF ShownTables, Visible
    <3>7. \A v \in Worker : v # w => ShownTables'[v] = ShownTables[v]
      BY <3>4 DEF ShownTables, Visible
    <3>8. QED BY <3>6, <3>7 DEF ShownTables
  <2>2. Replica!Forget(w)
    BY <1>1, <1>5, <2>1
       DEF Replica!Forget, Restart, repoVars, ShownRows, ShownTables
  <2>3. QED BY <2>2
<1>6. QED
  BY <1>2, <1>3, <1>4, <1>5
     DEF WorkerStep, SnapshotRevision, ScanRevision, ScanRows, ScanFails

(* Repository and workers implement the replica contract.                  *)
THEOREM ReplicaImplemented ==
    ASSUME OnePage PROVE Spec => ImplementsReplica
<1>1. Init => Replica!Init
  <2> SUFFICES ASSUME Init PROVE Replica!Init
    OBVIOUS
  <2>1. ShownRows = [t \in Token |-> Absent]
    BY MarkersAssumption
       DEF Init, EmptyStart, ShownRows, Visible, Empty, Absent
  <2>2. ShownTables = [w \in Worker |-> [t \in Token |-> Absent]]
    BY MarkersAssumption
       DEF Init, EmptyStart, ShownTables, Visible, Empty, Absent
  <2>3. QED
    BY <2>1, <2>2
       DEF Init, EmptyStart, Replica!Init, ShownRows, ShownTables
<1>2. SyncInv /\ SyncInv' /\ [Next]_vars => [Replica!Next]_Replica!vars
  <2> SUFFICES ASSUME SyncInv, SyncInv', [Next]_vars
               PROVE  [Replica!Next]_Replica!vars
    OBVIOUS
  <2>1. CASE Write BY <2>1, WriteRefines DEF Replica!Next
  <2>2. ASSUME NEW w \in Worker, WorkerStep(w)
        PROVE  [Replica!Next]_Replica!vars
    BY <2>2, WorkerRefines DEF Replica!Next
  <2>3. CASE UNCHANGED vars
    <3>1. ShownRows' = ShownRows /\ ShownTables' = ShownTables
      BY <2>3 DEF vars, repoVars, workerVars, ShownRows, ShownTables, Visible
    <3>2. QED
      BY <2>3, <3>1 DEF vars, repoVars, workerVars, Replica!vars,
                        ShownRows, ShownTables
  <2>4. QED BY <2>1, <2>2, <2>3 DEF Next
<1>3. Init => SyncInv BY InitSync
<1>4. SyncInv /\ [Next]_vars => SyncInv' BY NextSync
<1>5. QED
  BY <1>1, <1>2, <1>3, <1>4, PTL DEF Spec, ImplementsReplica, Replica!Spec
=============================================================================
