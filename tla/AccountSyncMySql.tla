-------------------------- MODULE AccountSyncMySql --------------------------
(***************************************************************************)
(* The SQL backend on MySQL, where initialising the repository is not only *)
(* a read: a process that starts (a new worker, a restarted one, a         *)
(* serverless cold start) seeds the revision row with                      *)
(* ON DUPLICATE KEY UPDATE value = '0'.                                    *)
(***************************************************************************)
EXTENDS AccountSync

CONSTANT MaxStarts  \* bound on the process starts after the first

VARIABLE starts     \* process starts so far

mySqlVars == <<vars, starts>>

(* _do_initialize on MySQL, in whatever process calls it.                  *)
InitializeRepository ==
    /\ starts < MaxStarts
    /\ starts' = starts + 1
    /\ revision' = 0
    /\ UNCHANGED <<backend, row, changed, replacing, workerVars>>

MySqlInit == backend = "sql" /\ EmptyStart /\ starts = 0

MySqlNext == (Next /\ UNCHANGED starts) \/ InitializeRepository

MySqlFairSpec == MySqlInit /\ [][MySqlNext]_mySqlVars /\ SyncFairness
=============================================================================
