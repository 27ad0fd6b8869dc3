---------------------------- MODULE AccountSync ----------------------------
(***************************************************************************)
(* The account repository on a transactional backend (SQLite, MySQL,       *)
(* PostgreSQL) and the workers that mirror it in memory.                   *)
(*                                                                         *)
(* Every write bumps one global revision and stamps the rows it touches    *)
(* inside one transaction.  A worker process bootstraps its runtime table  *)
(* from a snapshot and from then on polls scan_changes(table.revision):    *)
(* the scan first reads the global revision, then reads one page of the    *)
(* rows stamped after the table's revision; the loop of apply_changes      *)
(* applies the page, moves the table to the revision the scan returned     *)
(* and scans again while the page was full.                                *)
(*                                                                         *)
(* A row's payload (pool, status, quotas, tags) is one value of Content:   *)
(* the protocol moves it whole.  Runtime columns that the sync never       *)
(* writes are the business of AccountDirectory.                            *)
(***************************************************************************)
EXTENDS Integers, FiniteSets

CONSTANTS Token,        \* the SSO tokens that identify accounts
          Worker,       \* worker processes sharing the database
          Content,      \* payloads a live row may carry
          Pool,         \* account pools
          PoolOf,       \* the pool a payload puts its account in
          BatchLimit,   \* batch_limit of apply_changes (5000 in the code)
          MaxRevision,  \* bound on the revision counter, for model checking
          NoRow,        \* no row / no slot for the token
          Gone          \* a soft-deleted row / a slot whose status is DELETED

ASSUME PoolOfAssumption == PoolOf \in [Content -> Pool]
ASSUME BatchLimitAssumption == BatchLimit \in Nat \ {0}
ASSUME MaxRevisionAssumption == MaxRevision \in Nat
ASSUME MarkersAssumption == NoRow \notin Content /\ Gone \notin Content
                            /\ NoRow # Gone

VARIABLES
    backend,   \* which backend the deployment uses; it never changes
    revision,  \* account_meta.revision
    row,       \* the accounts table
    changed,   \* its revision column; 0 where there is no row
    replacing, \* upserts that the SQL replace_pool has still to commit
    phase,     \* where each worker is in bootstrap / apply_changes
    seen,      \* the global revision the current scan has read
    page,      \* the rows the current scan has returned
    table,     \* each worker's runtime table: token -> payload
    synced     \* table.revision of each worker

repoVars   == <<backend, revision, row, changed, replacing>>
workerVars == <<phase, seen, page, table, synced>>
vars       == <<repoVars, workerVars>>

Row   == Content \cup {NoRow, Gone}
Phase == {"down", "booting", "idle", "reading", "applying"}
Job   == [tokens : SUBSET Token, content : Content]
Empty == [t \in Token |-> NoRow]

TypeOK ==
    /\ backend \in {"local", "sql", "redis"}
    /\ revision \in Nat
    /\ row \in [Token -> Row]
    /\ changed \in [Token -> Nat]
    /\ replacing \subseteq Job
    /\ phase \in [Worker -> Phase]
    /\ seen \in [Worker -> Nat]
    /\ page \in [Worker -> UNION {[P -> Row] : P \in SUBSET Token}]
    /\ table \in [Worker -> [Token -> Row]]
    /\ synced \in [Worker -> Nat]

(* An empty database and no worker running.                                *)
EmptyStart ==
    /\ revision = 0
    /\ row = Empty
    /\ changed = [t \in Token |-> 0]
    /\ replacing = {}
    /\ phase = [w \in Worker |-> "down"]
    /\ seen = [w \in Worker |-> 0]
    /\ page = [w \in Worker |-> [t \in {} |-> NoRow]]
    /\ table = [w \in Worker |-> Empty]
    /\ synced = [w \in Worker |-> 0]

Init == backend \in {"local", "sql"} /\ EmptyStart

-----------------------------------------------------------------------------
(* Writers.  Each transaction bumps the revision by n and stamps the rows  *)
(* it writes; the revision row's lock makes transactions one at a time.    *)

Live(t) == row[t] \in Content

Bump(n) == /\ revision + n <= MaxRevision
           /\ revision' = revision + n

(* Write value v under revision rev into the rows of S.                    *)
Store(S, v, rev) ==
    /\ row' = [t \in Token |-> IF t \in S THEN v ELSE row[t]]
    /\ changed' = [t \in Token |-> IF t \in S THEN rev ELSE changed[t]]

(* upsert_accounts: INSERT ... ON CONFLICT, which also revives a           *)
(* soft-deleted row.                                                       *)
UpsertAccounts(S, c) ==
    /\ S # {}
    /\ Bump(1)
    /\ Store(S, c, revision + 1)
    /\ UNCHANGED <<backend, replacing, workerVars>>

(* A slip: the UPDATE of patch_accounts leaves the revision column alone.   *)
PatchUnstamped(S, c) ==
    /\ S # {}
    /\ Bump(1)
    /\ row' = [t \in Token |-> IF t \in S /\ Live(t) THEN c ELSE row[t]]
    /\ UNCHANGED <<backend, changed, replacing, workerVars>>

(* patch_accounts: tokens without a row are skipped; the UPDATE has no     *)
(* deleted_at condition, so a soft-deleted row is stamped and stays        *)
(* deleted.                                                                *)
PatchAccounts(S, c) ==
    /\ S # {}
    /\ Bump(1)
    /\ row' = [t \in Token |-> IF t \in S /\ Live(t) THEN c ELSE row[t]]
    /\ changed' = [t \in Token |->
                     IF t \in S /\ row[t] # NoRow THEN revision + 1
                                                  ELSE changed[t]]
    /\ UNCHANGED <<backend, replacing, workerVars>>

(* delete_accounts: soft delete, of live rows only.                        *)
DeleteAccounts(S) ==
    /\ S # {}
    /\ Bump(1)
    /\ Store({t \in S : Live(t)}, Gone, revision + 1)
    /\ UNCHANGED <<backend, replacing, workerVars>>

InPool(p) == {t \in Token : Live(t) /\ PoolOf[row[t]] = p}

(* replace_pool of the SQLite backend: the deletion and the upserts under  *)
(* two revisions of one transaction.                                       *)
ReplacePoolLocal(p, S, c) ==
    /\ backend = "local"
    /\ Bump(2)
    /\ row' = [t \in Token |-> IF t \in S THEN c
                               ELSE IF t \in InPool(p) THEN Gone ELSE row[t]]
    /\ changed' = [t \in Token |->
                     IF t \in S THEN revision + 2
                     ELSE IF t \in InPool(p) THEN revision + 1 ELSE changed[t]]
    /\ UNCHANGED <<backend, replacing, workerVars>>

(* replace_pool of the SQL backend: the deletion commits first ...         *)
ReplacePoolSql(p, S, c) ==
    /\ backend = "sql"
    /\ Bump(1)
    /\ Store(InPool(p), Gone, revision + 1)
    /\ replacing' = IF S = {} THEN replacing
                    ELSE replacing \cup {[tokens |-> S, content |-> c]}
    /\ UNCHANGED <<backend, workerVars>>

(* ... the upserts follow in a transaction of their own ...                *)
ReplacePoolUpsert(job) ==
    /\ Bump(1)
    /\ Store(job.tokens, job.content, revision + 1)
    /\ replacing' = replacing \ {job}
    /\ UNCHANGED <<backend, workerVars>>

(* ... unless the process stops or the statement fails in between.         *)
ReplacePoolAborts(job) ==
    /\ replacing' = replacing \ {job}
    /\ UNCHANGED <<backend, revision, row, changed, workerVars>>

Write ==
    \/ \E S \in SUBSET Token, c \in Content :
          \/ UpsertAccounts(S, c)
          \/ PatchAccounts(S, c)
          \/ \E p \in Pool : \/ ReplacePoolLocal(p, S, c)
                             \/ ReplacePoolSql(p, S, c)
    \/ \E S \in SUBSET Token : DeleteAccounts(S)
    \/ \E job \in replacing : \/ ReplacePoolUpsert(job)
                              \/ ReplacePoolAborts(job)

-----------------------------------------------------------------------------
(* A worker process.                                                       *)

(* bootstrap: runtime_snapshot reads the revision ...                      *)
SnapshotRevision(w) ==
    /\ phase[w] = "down"
    /\ seen' = [seen EXCEPT ![w] = revision]
    /\ phase' = [phase EXCEPT ![w] = "booting"]
    /\ UNCHANGED <<repoVars, page, table, synced>>

(* ... then the live rows, which fill an empty table.                      *)
SnapshotRows(w) ==
    /\ phase[w] = "booting"
    /\ table' = [table EXCEPT ![w] =
                   [t \in Token |-> IF Live(t) THEN row[t] ELSE NoRow]]
    /\ synced' = [synced EXCEPT ![w] = seen[w]]
    /\ phase' = [phase EXCEPT ![w] = "idle"]
    /\ UNCHANGED <<repoVars, seen, page>>

(* apply_changes, one turn of its loop: scan_changes reads the revision;   *)
(* the sync lock keeps a second sync of the same worker out.               *)
ScanRevision(w) ==
    /\ phase[w] = "idle"
    /\ seen' = [seen EXCEPT ![w] = revision]
    /\ phase' = [phase EXCEPT ![w] = "reading"]
    /\ UNCHANGED <<repoVars, page, table, synced>>

(* A slip: the scan leaves the soft-deleted rows out.                      *)
ChangedAndLive(w) == {t \in Token : changed[t] > synced[w] /\ Live(t)}

Changed(w) == {t \in Token : changed[t] > synced[w]}

(* The pages WHERE revision > since ORDER BY revision LIMIT limit may      *)
(* return: the order among rows of one revision is the database's choice.  *)
Pages(w) ==
    IF Cardinality(Changed(w)) <= BatchLimit
    THEN {Changed(w)}
    ELSE {P \in SUBSET Changed(w) :
            /\ Cardinality(P) = BatchLimit
            /\ \A t \in P, u \in Changed(w) \ P : changed[t] <= changed[u]}

(* ... then one page of rows; a separate statement, so a writer may have   *)
(* committed in between.                                                   *)
ScanRows(w) ==
    /\ phase[w] = "reading"
    /\ \E P \in Pages(w) : page' = [page EXCEPT ![w] = [t \in P |-> row[t]]]
    /\ phase' = [phase EXCEPT ![w] = "applying"]
    /\ UNCHANGED <<repoVars, seen, table, synced>>

(* The query fails; _sync_loop logs it and polls again later.              *)
ScanFails(w) ==
    /\ phase[w] = "reading"
    /\ phase' = [phase EXCEPT ![w] = "idle"]
    /\ UNCHANGED <<repoVars, seen, page, table, synced>>

(* A slip: the page replaces the table instead of being merged into it.    *)
AppliedAlone(tab, p) == p

(* What a table shows for token t once page p is applied: a live row       *)
(* appends or overwrites a slot, a deleted one marks an existing slot.     *)
Applied(tab, p) ==
    [t \in Token |->
       IF t \notin DOMAIN p THEN tab[t]
       ELSE IF p[t] = Gone /\ tab[t] = NoRow THEN NoRow ELSE p[t]]

(* A slip: the table takes the revision the repository has by now.         *)
ApplyPageAtPresent(w) ==
    /\ phase[w] = "applying"
    /\ table' = [table EXCEPT ![w] = Applied(table[w], page[w])]
    /\ synced' = [synced EXCEPT ![w] = revision]
    /\ page' = [page EXCEPT ![w] = [t \in {} |-> NoRow]]
    /\ phase' = [phase EXCEPT ![w] = "idle"]
    /\ UNCHANGED <<repoVars, seen>>

(* The page is applied in one go (no await) and the table takes over the   *)
(* revision the scan returned, which is the global one.  With a full page  *)
(* the loop scans again at once, otherwise at the next poll: both are      *)
(* ScanRevision from "idle".                                               *)
ApplyPage(w) ==
    /\ phase[w] = "applying"
    /\ table' = [table EXCEPT ![w] = Applied(table[w], page[w])]
    /\ synced' = [synced EXCEPT ![w] = IF seen[w] > synced[w]
                                       THEN seen[w] ELSE synced[w]]
    /\ page' = [page EXCEPT ![w] = [t \in {} |-> NoRow]]
    /\ phase' = [phase EXCEPT ![w] = "idle"]
    /\ UNCHANGED <<repoVars, seen>>

(* The worker process stops; its table is lost.                            *)
Restart(w) ==
    /\ phase[w] # "down"
    /\ phase' = [phase EXCEPT ![w] = "down"]
    /\ seen' = [seen EXCEPT ![w] = 0]
    /\ page' = [page EXCEPT ![w] = [t \in {} |-> NoRow]]
    /\ table' = [table EXCEPT ![w] = Empty]
    /\ synced' = [synced EXCEPT ![w] = 0]
    /\ UNCHANGED repoVars

WorkerStep(w) ==
    \/ SnapshotRevision(w) \/ SnapshotRows(w)
    \/ ScanRevision(w) \/ ScanRows(w) \/ ScanFails(w) \/ ApplyPage(w)
    \/ Restart(w)

Next == Write \/ \E w \in Worker : WorkerStep(w)

Spec == Init /\ [][Next]_vars

(* The lifespan boots every worker and _sync_loop polls for ever; a        *)
(* database that is asked again and again answers again and again.         *)
SyncFairness ==
    \A w \in Worker :
       /\ WF_vars(SnapshotRevision(w)) /\ WF_vars(SnapshotRows(w))
       /\ WF_vars(ScanRevision(w)) /\ SF_vars(ScanRows(w))
       /\ WF_vars(ApplyPage(w))

FairSpec == Spec /\ SyncFairness

-----------------------------------------------------------------------------
(* Properties.                                                             *)

Absent == NoRow

Visible(v) == IF v \in Content THEN v ELSE Absent

(* No change is lost: whatever the repository last changed at or below a   *)
(* table's revision, the table shows; the next scan asks only for what     *)
(* came later, so anything missing here stays missing (sync.py: the loop   *)
(* of apply_changes, "Incrementally sync changes since table.revision").   *)
NoLostChange ==
    \A w \in Worker, t \in Token :
       changed[t] <= synced[w] => Visible(table[w][t]) = Visible(row[t])

InSync(w) == \A t \in Token : Visible(table[w][t]) = Visible(row[t])

Running(w) == phase[w] \notin {"down", "booting"}

(* "Keeps each worker's in-memory table eventually consistent with the     *)
(* repo" (main.py, at the sync loop): the writers stop at MaxRevision, and *)
(* from some time on every running worker shows exactly what is stored.    *)
EventuallyConsistent == \A w \in Worker : <>[](Running(w) => InSync(w))

(* The protocol implements the replica contract.                           *)
Replica == INSTANCE AccountReplica
             WITH row <- [t \in Token |-> Visible(row[t])],
                  horizon <- synced,
                  view <- [w \in Worker |->
                             [t \in Token |-> Visible(table[w][t])]]

(* Every step of the database and of the workers is a step the contract    *)
(* allows: horizons only move forward, except when a worker restarts, and  *)
(* a table that moves forward shows everything up to where it moved.       *)
ImplementsReplica == Replica!Spec
=============================================================================
