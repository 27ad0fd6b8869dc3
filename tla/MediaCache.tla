----------------------------- MODULE MediaCache -----------------------------
(***************************************************************************)
(* The local media files of one type, and the index that keeps them below  *)
(* a limit (LocalMediaCacheStore).                                         *)
(*                                                                         *)
(* With a limit set, every operation holds a lock across threads and       *)
(* processes, works on the files first, and commits the index last; a      *)
(* process that dies in between leaves the files changed and the index as  *)
(* it was.  With no limit a save takes no lock and leaves the index alone. *)
(*                                                                         *)
(* A file is the number of the write that made it, which stands for its    *)
(* contents and its time; an index row is the write it was made for.       *)
(***************************************************************************)
EXTENDS Integers, FiniteSets, FiniteSetsExt

CONSTANTS FileName,   \* names of media files
          Saver,      \* threads of any process that use the cache
          Bytes,      \* size of each file
          MaxBytes,   \* the limit, when one is set
          Absent,     \* no such file, no such row
          Unlocked,   \* nobody holds the lock
          Resting,    \* a saver that does nothing
          MaxOps, MaxFlips, MaxRefusals, MaxDeaths \* bounds

ASSUME CacheSizesAssumption == /\ IsFiniteSet(FileName)
                               /\ Bytes \in [FileName -> Nat \ {0}]
                               /\ {MaxBytes, MaxOps, MaxFlips, MaxRefusals,
                                   MaxDeaths} \subseteq Nat
                               /\ MaxBytes > 0
ASSUME CacheMarkersAssumption == Absent \notin Nat /\ Unlocked \notin Saver

VARIABLES
    limit,    \* cache.local.<type>_max_mb
    files,    \* the directory
    rows,     \* the committed index
    lockedBy, \* the thread lock and the lock file
    doing,    \* per saver: the operation it is in
    writes,   \* files written so far
    outside,  \* history: names the index may be wrong about
    ops, flips, refusals, deaths  \* bounded counters

counters == <<ops, flips, refusals, deaths>>
cacheVars == <<limit, files, rows, lockedBy, doing, writes, outside,
               counters>>

Table == [FileName -> Nat \cup {Absent}]

Operation == [op : {"save", "reconcile", "delete", "clear"},
              name : FileName \cup {Absent},  \* none for reconcile, clear
              at : {"checked", "waiting", "locked", "trimming", "committing"},
              draft : Table,  \* the index in the open transaction
              spared : SUBSET FileName] \* files that could not be unlinked

ASSUME RestingAssumption == Resting \notin Operation

CacheTypeOK ==
    /\ limit \in {0, MaxBytes}
    /\ files \in Table /\ rows \in Table
    /\ lockedBy \in Saver \cup {Unlocked}
    /\ doing \in [Saver -> Operation \cup {Resting}]
    /\ {writes, ops, flips, refusals, deaths} \subseteq Nat
    /\ outside \subseteq FileName
    /\ \A s \in Saver : doing[s] # Resting =>
          (lockedBy = s <=> doing[s].at \in {"locked", "trimming", "committing"})

(* A process has started and reconciled an empty directory.                *)
CacheInit ==
    /\ limit \in {0, MaxBytes}
    /\ files = [n \in FileName |-> Absent]
    /\ rows = files
    /\ lockedBy = Unlocked
    /\ doing = [s \in Saver |-> Resting]
    /\ writes = 0 /\ ops = 0 /\ flips = 0 /\ refusals = 0 /\ deaths = 0
    /\ outside = {}

-----------------------------------------------------------------------------
(* The index.                                                              *)

Listed(table) == {n \in FileName : table[n] # Absent}
Usage(table) == MapThenSumSet(LAMBDA n : Bytes[n], Listed(table))

(* _target_bytes: the low watermark.                                       *)
Target == (MaxBytes * 6) \div 10

Newest(table) == {n \in Listed(table) :
                    \A m \in Listed(table) : table[m] <= table[n]}

(* A slip: only the newest file is protected.                              *)
CandidatesUnprotected(d) ==
    Listed(d.draft) \ (Newest(d.draft) \cup d.spared)

(* What _enforce_limit_locked may delete, oldest first.                    *)
Candidates(d) ==
    Listed(d.draft) \ (Newest(d.draft) \cup d.spared
                       \cup IF d.op = "save" THEN {d.name} ELSE {})

TooMuch(table) == limit > 0 /\ Usage(table) > limit

(* The next phase, when the files are as they are and the draft is new.    *)
Drafted(d, table) ==
    [d EXCEPT !.draft = table,
              !.at = IF d.op \in {"save", "reconcile"} /\ TooMuch(table)
                     THEN "trimming" ELSE "committing"]

Doing(s, op, n, at) ==
    doing' = [doing EXCEPT ![s] = [op |-> op, name |-> n, at |-> at,
                                   draft |-> rows, spared |-> {}]]

At(s, phase) == doing[s] # Resting /\ doing[s].at = phase

Ordered(s) == /\ doing[s] = Resting
              /\ ops < MaxOps
              /\ ops' = ops + 1

-----------------------------------------------------------------------------
(* Saving without a limit.                                                 *)

(* _write_if_missing looks for the file first.                             *)
BeginUnlimited(s, n) ==
    /\ Ordered(s)
    /\ limit = 0
    /\ files[n] = Absent
    /\ Doing(s, "save", n, "checked")
    /\ UNCHANGED <<limit, files, rows, lockedBy, writes, outside,
                   flips, refusals, deaths>>

(* The complete file is put in its place, whatever is there by then.       *)
Put(s) ==
    /\ At(s, "checked")
    /\ files' = [files EXCEPT ![doing[s].name] = writes + 1]
    /\ writes' = writes + 1
    /\ outside' = outside \cup {doing[s].name}
    /\ doing' = [doing EXCEPT ![s] = Resting]
    /\ UNCHANGED <<limit, rows, lockedBy, counters>>

-----------------------------------------------------------------------------
(* Operations under the lock.                                              *)

Begin(s, op, n) ==
    /\ Ordered(s)
    /\ op \in {"save", "reconcile"} => limit > 0
    /\ Doing(s, op, n, "waiting")
    /\ UNCHANGED <<limit, files, rows, lockedBy, writes, outside,
                   flips, refusals, deaths>>

(* _guard                                                                  *)
Lock(s) ==
    /\ At(s, "waiting")
    /\ lockedBy = Unlocked
    /\ lockedBy' = s
    /\ doing' = [doing EXCEPT ![s].at = "locked", ![s].draft = rows]
    /\ UNCHANGED <<limit, files, rows, writes, outside, counters>>

(* The files once the saved one is there: it is written if it is missing.  *)
WithFile(n) == IF files[n] = Absent THEN [files EXCEPT ![n] = writes + 1]
               ELSE files
WritesFor(n) == IF files[n] = Absent THEN writes + 1 ELSE writes

(* The row of a file that is there keeps its time.                         *)
Upserted(n) ==
    [rows EXCEPT ![n] = IF files[n] = Absent \/ @ = Absent
                        THEN WithFile(n)[n] ELSE @]

(* save                                                                    *)
Save(s) ==
    /\ At(s, "locked") /\ doing[s].op = "save"
    /\ LET n == doing[s].name
       IN /\ writes' = WritesFor(n)
          /\ files' = WithFile(n)
          /\ doing' = [doing EXCEPT ![s] = Drafted(@, Upserted(n))]
    /\ UNCHANGED <<limit, rows, lockedBy, outside, counters>>

(* reconcile: the directory is listed, and its files replace the rows.     *)
List(s) ==
    /\ At(s, "locked") /\ doing[s].op = "reconcile"
    /\ doing' = [doing EXCEPT ![s] = Drafted(@, files)]
    /\ outside' = {}
    /\ UNCHANGED <<limit, files, rows, lockedBy, writes, counters>>

Doomed(d) == IF d.op = "delete" THEN {d.name} ELSE FileName

Minus(table, N) == [n \in FileName |-> IF n \in N THEN Absent ELSE table[n]]

(* A slip: the rows of a cleared directory stay.                           *)
UnlinkOnly(s) ==
    /\ At(s, "locked") /\ doing[s].op \in {"delete", "clear"}
    /\ files' = Minus(files, Doomed(doing[s]))
    /\ doing' = [doing EXCEPT ![s] = Drafted(@, IF @.op = "clear" THEN rows
                                           ELSE Minus(rows, Doomed(@)))]
    /\ UNCHANGED <<limit, rows, lockedBy, writes, outside, counters>>

(* delete, clear: the files go first, then their rows.                     *)
Unlink(s) ==
    /\ At(s, "locked") /\ doing[s].op \in {"delete", "clear"}
    /\ files' = Minus(files, Doomed(doing[s]))
    /\ doing' = [doing EXCEPT ![s] = Drafted(@, Minus(rows, Doomed(@)))]
    /\ UNCHANGED <<limit, rows, lockedBy, writes, outside, counters>>

(* What an operation has done to the files when sqlite refuses to open the *)
(* index or to change it.                                                  *)
Refused(s) ==
    /\ At(s, "locked")
    /\ refusals < MaxRefusals
    /\ refusals' = refusals + 1
    /\ LET d == doing[s]
       IN \/ /\ d.op = "save"
             /\ writes' = WritesFor(d.name)
             /\ files' = WithFile(d.name)
             /\ outside' = outside \cup {d.name}
          \/ /\ d.op \in {"delete", "clear"}
             /\ files' = Minus(files, Doomed(d))
             /\ outside' = outside \cup Doomed(d)
             /\ UNCHANGED writes
          \/ /\ d.op \in {"save", "reconcile"}
             /\ UNCHANGED <<files, outside, writes>>
    /\ doing' = [doing EXCEPT ![s] = Resting]
    /\ UNCHANGED <<limit, rows, ops, flips, deaths>>

(* A slip: the lock is not given back on the way out.                      *)
IndexBusyHolding(s) == Refused(s) /\ UNCHANGED lockedBy

(* The index is busy with an operation on the other media type for longer  *)
(* than sqlite waits: the operation fails and leaves what it has done to   *)
(* the files.                                                              *)
IndexBusy(s) == Refused(s) /\ lockedBy' = Unlocked

(* The file that _enforce_limit_locked looks at next: down to the low      *)
(* watermark, oldest first.                                                *)
Victim(d, n) ==
    /\ d.at = "trimming"
    /\ Usage(d.draft) > Target
    /\ n \in Candidates(d)
    /\ \A m \in Candidates(d) : d.draft[n] <= d.draft[m]

Trim(s, n) ==
    /\ doing[s] # Resting /\ Victim(doing[s], n)
    /\ files' = Minus(files, {n})
    /\ doing' = [doing EXCEPT ![s].draft = Minus(@, {n})]
    /\ UNCHANGED <<limit, rows, lockedBy, writes, outside, counters>>

(* A file that cannot be unlinked keeps its row.                           *)
Spare(s, n) ==
    /\ doing[s] # Resting /\ Victim(doing[s], n)
    /\ files[n] # Absent
    /\ refusals < MaxRefusals
    /\ refusals' = refusals + 1
    /\ doing' = [doing EXCEPT ![s].spared = @ \cup {n}]
    /\ UNCHANGED <<limit, files, rows, lockedBy, writes, outside, ops,
                   flips, deaths>>

(* The transaction ends and the lock is given back.                        *)
Commit(s) ==
    /\ doing[s] # Resting
    /\ \/ doing[s].at = "committing"
       \/ doing[s].at = "trimming" /\ \A n \in FileName : ~Victim(doing[s], n)
    /\ rows' = doing[s].draft
    /\ lockedBy' = Unlocked
    /\ doing' = [doing EXCEPT ![s] = Resting]
    /\ UNCHANGED <<limit, files, writes, outside, counters>>

-----------------------------------------------------------------------------
(* The limit is set or lifted.  A reconciliation follows, later.           *)
Flip ==
    /\ flips < MaxFlips
    /\ flips' = flips + 1
    /\ limit' = MaxBytes - limit
    /\ UNCHANGED <<files, rows, lockedBy, doing, writes, outside, ops,
                   refusals, deaths>>

(* A saver is gone with its process; the kernel drops the lock file's lock *)
(* and sqlite forgets the open transaction.                                *)
Die(s) ==
    /\ doing[s] # Resting
    /\ deaths < MaxDeaths
    /\ deaths' = deaths + 1
    /\ doing' = [doing EXCEPT ![s] = Resting]
    /\ lockedBy' = IF lockedBy = s THEN Unlocked ELSE lockedBy
    /\ outside' = IF lockedBy = s THEN FileName ELSE outside
    /\ UNCHANGED <<limit, files, rows, writes, ops, flips, refusals>>

-----------------------------------------------------------------------------
SaverStep(s) ==
    \/ \E n \in FileName :
          \/ BeginUnlimited(s, n)
          \/ \E op \in {"save", "delete"} : Begin(s, op, n)
          \/ Trim(s, n) \/ Spare(s, n)
    \/ \E op \in {"reconcile", "clear"} : Begin(s, op, Absent)
    \/ Put(s) \/ Lock(s) \/ Save(s) \/ IndexBusy(s) \/ List(s) \/ Unlink(s)
    \/ Commit(s) \/ Die(s)

CacheNext == Flip \/ \E s \in Saver : SaverStep(s)

CacheSpec == CacheInit /\ [][CacheNext]_cacheVars

-----------------------------------------------------------------------------
(* Properties.                                                             *)

(* The index says of every file what is there, but for what was written    *)
(* without a limit, or left by a dead process or by an operation that the  *)
(* busy index refused, and not reconciled yet ("keep the index             *)
(* consistent", delete; reconcile).                                        *)
IndexTruthful ==
    lockedBy = Unlocked =>
        \A n \in FileName \ outside : rows[n] = files[n]

(* The path that save_video returns is that of a file: until the lock is   *)
(* given back the trimming has not taken the file just saved, however old  *)
(* it is and even if it exceeds the limit by itself (protected_names).     *)
SaveKeepsFile ==
    \A s \in Saver : (At(s, "trimming") \/ At(s, "committing"))
                        /\ doing[s].op = "save"
                     => files[doing[s].name] # Absent
=============================================================================
