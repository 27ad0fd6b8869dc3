-------------------------- MODULE MediaCacheProofs --------------------------
(***************************************************************************)
(* What is proved of the media cache, for any number of files of any size  *)
(* and any number of threads: the index is true when the lock is free, and *)
(* a save does not lose its own file to the trimming.                      *)
(***************************************************************************)
EXTENDS MediaCache, TLAPS

Inside == {"locked", "trimming", "committing"}

(* An operation past its first look holds the lock, and no other thread.   *)
LockExact ==
    \A s \in Saver : lockedBy = s <=> doing[s] # Resting /\ doing[s].at \in Inside

(* Who holds the lock has a draft: of the index until the files have been  *)
(* worked on, and from then on of the files.                               *)
DraftTrue ==
    \A s \in Saver : lockedBy = s =>
       \A n \in FileName \ outside :
          IF doing[s].at = "locked"
          THEN rows[n] = files[n] /\ doing[s].draft[n] = rows[n]
          ELSE doing[s].draft[n] = files[n]

SavesName ==
    \A s \in Saver :
       doing[s] # Resting
         /\ (doing[s].op \in {"save", "delete"} \/ doing[s].at = "checked")
         => doing[s].name \in FileName

CacheInv ==
    /\ CacheTypeOK /\ LockExact /\ SavesName
    /\ IndexTruthful /\ DraftTrue /\ SaveKeepsFile

-----------------------------------------------------------------------------
(* Changes of an operation under way.                                      *)

LEMMA OperationFields ==
    ASSUME NEW d \in Operation, NEW table \in Table
    PROVE  /\ Drafted(d, table) \in Operation
           /\ Drafted(d, table).op = d.op /\ Drafted(d, table).name = d.name
           /\ Drafted(d, table).draft = table
           /\ Drafted(d, table).at \in {"trimming", "committing"}
           /\ [d EXCEPT !.draft = table] \in Operation
           /\ d # Resting
  <1>1. [d EXCEPT !.draft = table] \in Operation
    BY DEF Operation
  <1> DEFINE at == IF d.op \in {"save", "reconcile"} /\ TooMuch(table)
                   THEN "trimming" ELSE "committing"
  <1>2. at \in {"trimming", "committing"}
    OBVIOUS
  <1>3. Drafted(d, table) = [d EXCEPT !.draft = table, !.at = at]
    BY DEF Drafted
  <1> HIDE DEF at
  <1>4. /\ Drafted(d, table) \in Operation
        /\ Drafted(d, table).op = d.op /\ Drafted(d, table).name = d.name
        /\ Drafted(d, table).draft = table /\ Drafted(d, table).at = at
    BY <1>2, <1>3 DEF Operation
  <1> QED
    BY <1>1, <1>2, <1>4, RestingAssumption

LEMMA MinusType ==
    ASSUME NEW table \in Table, NEW N
    PROVE  Minus(table, N) \in Table
  BY DEF Minus, Table

(* A step of the thread that holds the lock and keeps it: what it leaves   *)
(* as its draft is true of the files it leaves.                            *)
LEMMA HolderStep ==
    ASSUME CacheInv, NEW s \in Saver, lockedBy = s,
           NEW d \in Operation, doing' = [doing EXCEPT ![s] = d],
           d.at \in {"trimming", "committing"},
           d.op = doing[s].op, d.name = doing[s].name,
           files' \in Table, outside' \subseteq outside,
           \A n \in FileName \ outside' : d.draft[n] = files'[n],
           d.op = "save" => files'[d.name] # Absent,
           writes' \in Nat, refusals' \in Nat,
           UNCHANGED <<limit, rows, lockedBy, ops, flips, deaths>>
    PROVE  CacheInv'
  <1> USE DEF CacheInv
  <1>1. /\ doing \in [Saver -> Operation \cup {Resting}] /\ Unlocked \notin Saver
        /\ d # Resting
    BY RestingAssumption, CacheMarkersAssumption DEF CacheTypeOK
  <1>2. doing'[s] = d /\ \A t \in Saver \ {s} : doing'[t] = doing[t]
    BY <1>1
  <1>3. doing[s] # Resting /\ doing[s].at \in Inside
    BY DEF LockExact
  <1>4. LockExact'
    BY <1>1, <1>2 DEF LockExact, Inside
  <1>5. CacheTypeOK'
    <2>1. doing' \in [Saver -> Operation \cup {Resting}]
      BY <1>1
    <2>2. outside' \subseteq FileName
      BY DEF CacheTypeOK
    <2> QED
      BY <1>4, <2>1, <2>2 DEF CacheTypeOK, LockExact, Inside
  <1>6. SavesName'
    BY <1>2, <1>3 DEF SavesName
  <1>7. IndexTruthful'
    BY <1>1 DEF IndexTruthful
  <1>8. DraftTrue'
    BY <1>2 DEF DraftTrue
  <1>9. SaveKeepsFile'
    <2> SUFFICES ASSUME NEW t \in Saver, doing'[t] # Resting,
                        doing'[t].at \in {"trimming", "committing"},
                        doing'[t].op = "save"
                 PROVE files'[doing'[t].name] # Absent
      BY DEF SaveKeepsFile, At
    <2>1. t = s
      BY <1>2 DEF LockExact, Inside
    <2> QED
      BY <1>2, <2>1
  <1> QED
    BY <1>4, <1>5, <1>6, <1>7, <1>8, <1>9

(* A step of a thread that does not hold the lock, now or after it.        *)
LEMMA OutsiderStep ==
    ASSUME CacheInv, NEW s \in Saver, lockedBy # s,
           NEW d \in Operation \cup {Resting},
           doing' = [doing EXCEPT ![s] = d],
           d # Resting => d.at \notin Inside /\
                          (d.op \in {"save", "delete"} \/ d.at = "checked"
                             => d.name \in FileName),
           files' \in Table, outside' \subseteq FileName,
           outside \subseteq outside',
           \A n \in FileName : files'[n] = files[n]
                                 \/ (n \in outside' /\ files'[n] # Absent),
           writes' \in Nat, ops' \in Nat, deaths' \in Nat,
           UNCHANGED <<limit, rows, lockedBy, flips, refusals>>
    PROVE  CacheInv'
  <1> USE DEF CacheInv
  <1>1. doing \in [Saver -> Operation \cup {Resting}] /\ Unlocked \notin Saver
    BY CacheMarkersAssumption DEF CacheTypeOK
  <1>2. doing'[s] = d /\ \A t \in Saver \ {s} : doing'[t] = doing[t]
    BY <1>1
  <1>4. LockExact'
    BY <1>1, <1>2 DEF LockExact, Inside
  <1>5. CacheTypeOK'
    <2>1. doing' \in [Saver -> Operation \cup {Resting}]
      BY <1>1
    <2> QED
      BY <1>4, <2>1 DEF CacheTypeOK, LockExact, Inside
  <1>6. SavesName'
    <2> SUFFICES ASSUME NEW t \in Saver, doing'[t] # Resting,
                        \/ doing'[t].op \in {"save", "delete"}
                        \/ doing'[t].at = "checked"
                 PROVE doing'[t].name \in FileName
      BY DEF SavesName
    <2>1. CASE t = s
      BY <1>2, <2>1
    <2>2. CASE t # s
      BY <1>2, <2>2 DEF SavesName
    <2> QED
      BY <2>1, <2>2
  <1>7. IndexTruthful'
    BY DEF IndexTruthful
  <1>8. DraftTrue'
    BY <1>2 DEF DraftTrue
  <1>9. SaveKeepsFile'
    <2> SUFFICES ASSUME NEW t \in Saver, doing'[t] # Resting,
                        doing'[t].at \in {"trimming", "committing"},
                        doing'[t].op = "save"
                 PROVE files'[doing'[t].name] # Absent
      BY DEF SaveKeepsFile, At
    <2>1. t # s
      BY <1>2 DEF Inside
    <2>2. /\ files[doing[t].name] # Absent /\ doing[t].name \in FileName
          /\ doing'[t] = doing[t]
      BY <1>2, <2>1 DEF SaveKeepsFile, At, SavesName
    <2> QED
      BY <2>2
  <1> QED
    BY <1>4, <1>5, <1>6, <1>7, <1>8, <1>9

(* A step in which the holder of the lock gives it back.                   *)
LEMMA UnlockStep ==
    ASSUME CacheInv, NEW s \in Saver, lockedBy = s, lockedBy' = Unlocked,
           doing' = [doing EXCEPT ![s] = Resting],
           files' \in Table, rows' \in Table, outside' \subseteq FileName,
           \A n \in FileName \ outside' : rows'[n] = files'[n],
           writes' \in Nat, refusals' \in Nat, deaths' \in Nat,
           UNCHANGED <<limit, ops, flips>>
    PROVE  CacheInv'
  <1> USE DEF CacheInv
  <1>1. doing \in [Saver -> Operation \cup {Resting}] /\ Unlocked \notin Saver
    BY CacheMarkersAssumption DEF CacheTypeOK
  <1>2. /\ doing'[s] = Resting /\ \A t \in Saver \ {s} : doing'[t] = doing[t]
        /\ \A t \in Saver \ {s} : doing[t] # Resting => doing[t].at \notin Inside
    BY <1>1 DEF LockExact
  <1>4. LockExact'
    BY <1>1, <1>2 DEF LockExact
  <1>5. CacheTypeOK'
    <2>1. doing' \in [Saver -> Operation \cup {Resting}]
      BY <1>1
    <2> QED
      BY <1>4, <2>1 DEF CacheTypeOK, LockExact, Inside
  <1>6. SavesName'
    <2> SUFFICES ASSUME NEW t \in Saver, doing'[t] # Resting,
                        \/ doing'[t].op \in {"save", "delete"}
                        \/ doing'[t].at = "checked"
                 PROVE doing'[t].name \in FileName
      BY DEF SavesName
    <2>1. t # s /\ doing'[t] = doing[t]
      BY <1>2
    <2> QED
      BY <2>1 DEF SavesName
  <1>7. IndexTruthful'
    BY DEF IndexTruthful
  <1>8. DraftTrue'
    BY <1>1 DEF DraftTrue
  <1>9. SaveKeepsFile'
    BY <1>2 DEF SaveKeepsFile, At, Inside
  <1> QED
    BY <1>4, <1>5, <1>6, <1>7, <1>8, <1>9

-----------------------------------------------------------------------------
(* The operations.                                                         *)

LEMMA OutsiderInv ==
    ASSUME CacheInv, NEW s \in Saver,
           \/ \E n \in FileName : \/ BeginUnlimited(s, n)
                                  \/ \E op \in {"save", "delete"} : Begin(s, op, n)
           \/ \E op \in {"reconcile", "clear"} : Begin(s, op, Absent)
           \/ Put(s)
    PROVE  CacheInv'
  <1>0. /\ files \in Table /\ rows \in Table /\ {writes, ops, deaths} \subseteq Nat
        /\ doing[s] \in Operation \cup {Resting} /\ outside \subseteq FileName
    BY DEF CacheInv, CacheTypeOK
  <1>1. ASSUME NEW op \in {"save", "reconcile", "delete", "clear"},
               NEW n \in FileName \cup {Absent}, NEW at \in {"checked", "waiting"},
               op \in {"save", "delete"} \/ at = "checked" => n \in FileName,
               Doing(s, op, n, at), doing[s] = Resting, ops' = ops + 1,
               UNCHANGED <<limit, files, rows, lockedBy, writes, outside,
                           flips, refusals, deaths>>
        PROVE  CacheInv'
    <2> DEFINE d == [op |-> op, name |-> n, at |-> at, draft |-> rows,
                     spared |-> {}]
    <2>1. /\ d \in Operation /\ d.at \notin Inside
          /\ (d.op \in {"save", "delete"} \/ d.at = "checked")
               => d.name \in FileName
          /\ doing' = [doing EXCEPT ![s] = d] /\ lockedBy # s
      BY <1>0, <1>1 DEF Operation, Doing, Inside, CacheInv, LockExact
    <2>2. /\ writes' \in Nat /\ ops' \in Nat /\ deaths' \in Nat
          /\ files' \in Table /\ outside' \subseteq FileName
          /\ outside \subseteq outside'
          /\ \A m \in FileName : files'[m] = files[m]
      BY <1>0, <1>1
    <2> HIDE DEF d
    <2> QED
      BY <1>1, <2>1, <2>2, OutsiderStep
  <1>2. ASSUME NEW n \in FileName, BeginUnlimited(s, n)
        PROVE  CacheInv'
    BY <1>1, <1>2 DEF BeginUnlimited, Ordered
  <1>3. ASSUME NEW n \in FileName \cup {Absent},
               NEW op \in {"save", "reconcile", "delete", "clear"},
               op \in {"save", "delete"} => n \in FileName, Begin(s, op, n)
        PROVE  CacheInv'
    BY <1>1, <1>3 DEF Begin, Ordered
  <1>4. CASE Put(s)
    <2> DEFINE n == doing[s].name
    <2>1. /\ doing[s] # Resting /\ doing[s].at = "checked"
          /\ files' = [files EXCEPT ![n] = writes + 1]
          /\ writes' = writes + 1 /\ outside' = outside \cup {n}
          /\ doing' = [doing EXCEPT ![s] = Resting]
          /\ UNCHANGED <<limit, rows, lockedBy, ops, flips, refusals, deaths>>
      BY <1>4 DEF Put, At, counters
    <2>2. lockedBy # s
      BY <2>1 DEF CacheInv, LockExact, Inside
    <2>3. writes + 1 \in Nat /\ writes + 1 # Absent
      BY <1>0, CacheMarkersAssumption
    <2>4. files' \in Table
      BY <1>0, <2>1, <2>3 DEF Table
    <2>5. \A m \in FileName : \/ files'[m] = files[m]
                              \/ m \in outside' /\ files'[m] # Absent
      BY <1>0, <2>1, <2>3 DEF Table
    <2>6. n \in FileName
      BY <2>1 DEF CacheInv, SavesName
    <2> HIDE DEF n
    <2> QED
      BY <1>0, <2>1, <2>2, <2>3, <2>4, <2>5, <2>6, OutsiderStep
  <1> QED
    BY <1>2, <1>3, <1>4

LEMMA HolderInv ==
    ASSUME CacheInv, NEW s \in Saver,
           \/ Save(s) \/ List(s) \/ Unlink(s)
           \/ \E n \in FileName : Trim(s, n) \/ Spare(s, n)
    PROVE  CacheInv'
  <1> DEFINE d == doing[s]
  <1>0. /\ files \in Table /\ rows \in Table /\ writes \in Nat /\ refusals \in Nat
        /\ d # Resting => d \in Operation
        /\ outside \subseteq FileName
    BY DEF CacheInv, CacheTypeOK
  <1>1. CASE Save(s)
    <2> DEFINE n == d.name
               table == Upserted(n)
               new == WithFile(n)
    <2>1. /\ d # Resting /\ d.at = "locked" /\ d.op = "save"
          /\ writes' = WritesFor(n) /\ files' = new
          /\ doing' = [doing EXCEPT ![s] = Drafted(d, table)]
          /\ UNCHANGED <<limit, rows, lockedBy, outside, refusals, ops, flips,
                         deaths>>
      BY <1>1 DEF Save, At, counters
    <2>2. lockedBy = s /\ n \in FileName
      BY <2>1 DEF CacheInv, LockExact, Inside, SavesName
    <2>3. writes + 1 \in Nat /\ Absent \notin Nat
      BY <1>0, CacheMarkersAssumption
    <2>4. new \in Table /\ new[n] # Absent /\ writes' \in Nat
      BY <1>0, <2>1, <2>2, <2>3 DEF WithFile, WritesFor, Table
    <2>5. table \in Table
      BY <1>0, <2>2, <2>4 DEF Upserted, Table
    <2>6. \A m \in FileName \ outside : table[m] = new[m]
      <3>1. \A m \in FileName \ outside : rows[m] = files[m]
        BY <2>1, <2>2 DEF CacheInv, DraftTrue
      <3> QED
        BY <1>0, <2>2, <3>1 DEF Upserted, WithFile, Table
    <2> DEFINE e == Drafted(d, table)
    <2> HIDE DEF table, new
    <2>7. /\ e \in Operation /\ e.op = doing[s].op /\ e.name = doing[s].name
          /\ e.draft = table /\ e.at \in {"trimming", "committing"}
      BY <1>0, <2>1, <2>5, OperationFields
    <2>8. files'[e.name] # Absent
      BY <2>1, <2>4, <2>7
    <2>9. \A m \in FileName \ outside' : e.draft[m] = files'[m]
      BY <2>1, <2>6, <2>7
    <2>10. files' \in Table /\ outside' \subseteq outside /\ refusals' \in Nat
      BY <1>0, <2>1, <2>4
    <2>11. doing' = [doing EXCEPT ![s] = e]
      BY <2>1
    <2> HIDE DEF e, n, d
    <2> QED
      BY <2>1, <2>2, <2>4, <2>7, <2>8, <2>9, <2>10, <2>11, HolderStep
  <1>2. CASE List(s)
    <2>1. /\ d # Resting /\ d.at = "locked" /\ d.op = "reconcile"
          /\ doing' = [doing EXCEPT ![s] = Drafted(d, files)]
          /\ outside' = {} /\ files' = files /\ writes' = writes
          /\ UNCHANGED <<limit, rows, lockedBy, refusals, ops, flips, deaths>>
      BY <1>2 DEF List, At, counters
    <2>2. lockedBy = s
      BY <2>1 DEF CacheInv, LockExact, Inside
    <2> DEFINE e == Drafted(d, files)
    <2>3. /\ e \in Operation /\ e.op = "reconcile"
          /\ e.op = doing[s].op /\ e.name = doing[s].name
          /\ e.draft = files' /\ e.at \in {"trimming", "committing"}
          /\ doing' = [doing EXCEPT ![s] = e]
      BY <1>0, <2>1, OperationFields
    <2>4. /\ files' \in Table /\ outside' \subseteq outside
          /\ writes' \in Nat /\ refusals' \in Nat
          /\ \A m \in FileName \ outside' : e.draft[m] = files'[m]
      BY <1>0, <2>1, <2>3
    <2> HIDE DEF e, d
    <2> QED
      BY <2>1, <2>2, <2>3, <2>4, HolderStep
  <1>3. CASE Unlink(s)
    <2> DEFINE N == Doomed(d)
               table == Minus(rows, N)
    <2>1. /\ d # Resting /\ d.at = "locked" /\ d.op \in {"delete", "clear"}
          /\ files' = Minus(files, N)
          /\ doing' = [doing EXCEPT ![s] = Drafted(d, table)]
          /\ UNCHANGED <<limit, rows, lockedBy, writes, outside, refusals, ops,
                         flips, deaths>>
      BY <1>3 DEF Unlink, At, counters
    <2>2. lockedBy = s
      BY <2>1 DEF CacheInv, LockExact, Inside
    <2>3. table \in Table /\ files' \in Table
      BY <1>0, <2>1, MinusType
    <2>4. \A m \in FileName \ outside : table[m] = files'[m]
      BY <2>1, <2>2 DEF CacheInv, DraftTrue, Minus
    <2> DEFINE e == Drafted(d, table)
    <2> HIDE DEF N, table
    <2>5. /\ e \in Operation /\ e.op # "save"
          /\ e.op = doing[s].op /\ e.name = doing[s].name
          /\ e.draft = table /\ e.at \in {"trimming", "committing"}
          /\ doing' = [doing EXCEPT ![s] = e]
      BY <1>0, <2>1, <2>3, OperationFields
    <2>6. /\ outside' \subseteq outside
          /\ writes' \in Nat /\ refusals' \in Nat
          /\ \A m \in FileName \ outside' : e.draft[m] = files'[m]
      BY <1>0, <2>1, <2>4, <2>5
    <2> HIDE DEF e, d
    <2> QED
      BY <2>1, <2>2, <2>3, <2>5, <2>6, HolderStep
  <1>4. ASSUME NEW n \in FileName, Trim(s, n)
        PROVE  CacheInv'
    <2> DEFINE new == [d EXCEPT !.draft = Minus(d.draft, {n})]
    <2>1. /\ d # Resting /\ d.at = "trimming" /\ n \in Candidates(d)
          /\ files' = Minus(files, {n})
          /\ doing' = [doing EXCEPT ![s] = new]
          /\ UNCHANGED <<limit, rows, lockedBy, writes, outside, refusals, ops,
                         flips, deaths>>
      BY <1>4 DEF Trim, Victim, counters
    <2>2. lockedBy = s
      BY <2>1 DEF CacheInv, LockExact, Inside
    <2>3. d \in Operation /\ Minus(d.draft, {n}) \in Table /\ files' \in Table
      BY <1>0, <2>1, MinusType DEF Operation
    <2>4. /\ new \in Operation /\ new.op = d.op /\ new.name = d.name
          /\ new.at = "trimming" /\ new.draft = Minus(d.draft, {n})
      BY <2>1, <2>3 DEF Operation
    <2>5. \A m \in FileName \ outside : new.draft[m] = files'[m]
      BY <2>1, <2>2, <2>4 DEF CacheInv, DraftTrue, Minus
    <2>6. d.op = "save" => files'[d.name] # Absent
      <3> SUFFICES ASSUME d.op = "save" PROVE files'[d.name] # Absent
        OBVIOUS
      <3>1. d.name \in FileName /\ files[d.name] # Absent /\ n # d.name
        BY <2>1 DEF CacheInv, SavesName, SaveKeepsFile, At, Candidates
      <3>2. files'[d.name] = files[d.name]
        BY <2>1, <3>1, Zenon DEF Minus
      <3> QED BY <3>1, <3>2
    <2> HIDE DEF d, new
    <2> QED
      BY <1>0, <2>1, <2>2, <2>3, <2>4, <2>5, <2>6, HolderStep DEF d
  <1>5. ASSUME NEW n \in FileName, Spare(s, n)
        PROVE  CacheInv'
    <2> DEFINE new == [d EXCEPT !.spared = d.spared \cup {n}]
    <2>1. /\ d # Resting /\ d.at = "trimming"
          /\ files' = files /\ refusals' = refusals + 1
          /\ doing' = [doing EXCEPT ![s] = new]
          /\ UNCHANGED <<limit, rows, lockedBy, writes, outside, ops, flips,
                         deaths>>
      BY <1>5 DEF Spare, Victim
    <2>2. lockedBy = s
      BY <2>1 DEF CacheInv, LockExact, Inside
    <2>3. /\ new \in Operation /\ new.op = d.op /\ new.name = d.name
          /\ new.at = "trimming" /\ new.draft = d.draft
      BY <1>0, <2>1 DEF Operation
    <2>4. \A m \in FileName \ outside : new.draft[m] = files'[m]
      BY <2>1, <2>2, <2>3 DEF CacheInv, DraftTrue
    <2>5. new.op = "save" => files'[new.name] # Absent
      BY <2>1, <2>3 DEF CacheInv, SaveKeepsFile, At
    <2>6. /\ files' \in Table /\ outside' \subseteq outside
          /\ writes' \in Nat /\ refusals' \in Nat
          /\ \A m \in FileName \ outside' : new.draft[m] = files'[m]
          /\ new.op = doing[s].op /\ new.name = doing[s].name
      BY <1>0, <2>1, <2>3, <2>4
    <2> HIDE DEF d, new
    <2> QED
      BY <2>1, <2>2, <2>3, <2>5, <2>6, HolderStep
  <1> QED
    BY <1>1, <1>2, <1>3, <1>4, <1>5
LEMMA UnlockInv ==
    ASSUME CacheInv, NEW s \in Saver, IndexBusy(s) \/ Commit(s)
    PROVE  CacheInv'
  <1>0. /\ files \in Table /\ rows \in Table /\ writes \in Nat
        /\ refusals \in Nat /\ deaths \in Nat /\ outside \subseteq FileName
        /\ doing[s] # Resting => doing[s] \in Operation
    BY DEF CacheInv, CacheTypeOK
  <1>1. CASE IndexBusy(s)
    <2> DEFINE d == doing[s]
    <2>1. /\ doing[s] # Resting /\ doing[s].at = "locked"
          /\ refusals' = refusals + 1 /\ lockedBy' = Unlocked
          /\ doing' = [doing EXCEPT ![s] = Resting]
          /\ UNCHANGED <<limit, rows, ops, flips, deaths>>
      BY <1>1 DEF IndexBusy, Refused, At
    <2>2. lockedBy = s /\ refusals' \in Nat
      BY <1>0, <2>1 DEF CacheInv, LockExact, Inside
    <2>3. \A m \in FileName \ outside : rows[m] = files[m]
      BY <2>1, <2>2 DEF CacheInv, DraftTrue
    <2>4. /\ writes' \in Nat /\ files' \in Table /\ outside' \subseteq FileName
          /\ \A m \in FileName \ outside' : rows'[m] = files'[m]
      <3>1. CASE /\ d.op = "save" /\ writes' = WritesFor(d.name)
                 /\ files' = WithFile(d.name)
                 /\ outside' = outside \cup {d.name}
        <4>1. d.name \in FileName
          BY <2>1, <3>1 DEF CacheInv, SavesName
        <4>2. writes' \in Nat /\ files' \in Table
          BY <1>0, <3>1, <4>1 DEF WritesFor, WithFile, Table
        <4>3. \A m \in FileName \ outside' : files'[m] = files[m]
          BY <1>0, <3>1, <4>1 DEF WithFile, Table
        <4> QED
          BY <1>0, <2>1, <2>3, <3>1, <4>1, <4>2, <4>3
      <3>2. CASE /\ d.op \in {"delete", "clear"}
                 /\ files' = Minus(files, Doomed(d))
                 /\ outside' = outside \cup Doomed(d) /\ writes' = writes
        <4>1. Doomed(d) \subseteq FileName
          BY <2>1, <3>2 DEF CacheInv, SavesName, Doomed
        <4>2. files' \in Table
          BY <1>0, <3>2, MinusType
        <4>3. \A m \in FileName \ outside' : files'[m] = files[m]
          BY <1>0, <3>2 DEF Minus, Table
        <4> QED
          BY <1>0, <2>1, <2>3, <3>2, <4>1, <4>2, <4>3
      <3>3. CASE UNCHANGED <<files, outside, writes>>
        BY <1>0, <2>1, <2>3, <3>3
      <3> QED
        BY <1>1, <3>1, <3>2, <3>3 DEF IndexBusy, Refused
    <2> HIDE DEF d
    <2> QED
      BY <1>0, <2>1, <2>2, <2>4, UnlockStep
  <1>2. CASE Commit(s)
    <2>1. /\ doing[s] # Resting /\ doing[s].at \in {"trimming", "committing"}
          /\ rows' = doing[s].draft /\ lockedBy' = Unlocked
          /\ doing' = [doing EXCEPT ![s] = Resting]
          /\ UNCHANGED <<limit, files, writes, outside, ops, flips, refusals,
                         deaths>>
      BY <1>2 DEF Commit, counters
    <2>2. lockedBy = s
      BY <2>1 DEF CacheInv, LockExact, Inside
    <2>3. rows' \in Table
      BY <1>0, <2>1 DEF Operation
    <2>4. \A m \in FileName \ outside' : rows'[m] = files'[m]
      BY <2>1, <2>2 DEF CacheInv, DraftTrue
    <2> QED
      BY <1>0, <2>1, <2>2, <2>3, <2>4, UnlockStep
  <1> QED
    BY <1>1, <1>2

LEMMA LockInv ==
    ASSUME CacheInv, NEW s \in Saver, Lock(s)
    PROVE  CacheInv'
  <1> DEFINE d == [doing[s] EXCEPT !.at = "locked", !.draft = rows]
  <1>1. /\ doing[s] # Resting /\ doing[s].at = "waiting"
        /\ lockedBy = Unlocked /\ lockedBy' = s
        /\ doing \in [Saver -> Operation \cup {Resting}]
        /\ UNCHANGED <<limit, files, rows, writes, outside, ops, flips,
                       refusals, deaths>>
    BY DEF Lock, At, counters, CacheInv, CacheTypeOK
  <1>2. doing' = [doing EXCEPT ![s] = d]
    BY <1>1 DEF Lock, Operation
  <1>3. /\ d \in Operation /\ d # Resting /\ d.at = "locked" /\ d.draft = rows
        /\ d.op = doing[s].op /\ d.name = doing[s].name
    <2>1. doing[s] \in Operation /\ rows \in Table
      BY <1>1 DEF CacheInv, CacheTypeOK
    <2> QED
      BY <2>1, RestingAssumption DEF Operation
  <1> HIDE DEF d
  <1>4. /\ doing'[s] = d /\ \A t \in Saver \ {s} : doing'[t] = doing[t]
        /\ doing' \in [Saver -> Operation \cup {Resting}]
    BY <1>1, <1>2, <1>3
  <1>5. \A t \in Saver : lockedBy # t
    BY <1>1, CacheMarkersAssumption
  <1>6. LockExact'
    BY <1>1, <1>3, <1>4, <1>5 DEF CacheInv, LockExact, Inside
  <1>7. CacheTypeOK'
    BY <1>1, <1>4, <1>6 DEF CacheInv, CacheTypeOK, LockExact, Inside
  <1>8. SavesName'
    BY <1>1, <1>3, <1>4 DEF CacheInv, SavesName
  <1>9. IndexTruthful'
    BY <1>1, CacheMarkersAssumption DEF IndexTruthful
  <1>10. DraftTrue'
    BY <1>1, <1>3, <1>4 DEF CacheInv, IndexTruthful, DraftTrue
  <1>11. SaveKeepsFile'
    BY <1>1, <1>3, <1>4 DEF CacheInv, SaveKeepsFile, At
  <1> QED
    BY <1>6, <1>7, <1>8, <1>9, <1>10, <1>11 DEF CacheInv

LEMMA DieInv ==
    ASSUME CacheInv, NEW s \in Saver, Die(s)
    PROVE  CacheInv'
  <1>0. /\ files \in Table /\ rows \in Table /\ writes \in Nat /\ ops \in Nat
        /\ refusals \in Nat /\ deaths \in Nat /\ outside \subseteq FileName
    BY DEF CacheInv, CacheTypeOK
  <1>1. /\ doing' = [doing EXCEPT ![s] = Resting] /\ deaths' = deaths + 1
        /\ lockedBy' = IF lockedBy = s THEN Unlocked ELSE lockedBy
        /\ outside' = IF lockedBy = s THEN FileName ELSE outside
        /\ UNCHANGED <<limit, files, rows, writes, ops, flips, refusals>>
        /\ deaths' \in Nat
    BY <1>0 DEF Die
  <1>2. CASE lockedBy = s
    BY <1>0, <1>1, <1>2, UnlockStep
  <1>3. CASE lockedBy # s
    <2> DEFINE d == Resting
    <2>1. /\ d \in Operation \cup {Resting} /\ d = Resting
          /\ doing' = [doing EXCEPT ![s] = d] /\ lockedBy' = lockedBy
          /\ outside' = outside
      BY <1>1, <1>3
    <2> HIDE DEF d
    <2> QED
      BY <1>0, <1>1, <1>3, <2>1, OutsiderStep
  <1> QED
    BY <1>2, <1>3

LEMMA FlipInv ==
    ASSUME CacheInv, Flip \/ UNCHANGED cacheVars
    PROVE  CacheInv'
  <1>1. /\ limit' \in {0, MaxBytes} /\ flips' \in Nat
        /\ UNCHANGED <<files, rows, lockedBy, doing, writes, outside, ops,
                       refusals, deaths>>
    BY CacheSizesAssumption
    DEF Flip, cacheVars, counters, CacheInv, CacheTypeOK
  <1> QED
    BY <1>1
    DEF CacheInv, CacheTypeOK, LockExact, SavesName, IndexTruthful, DraftTrue,
        SaveKeepsFile, At

(* The invariant: the lock is held by who works on the files, and its      *)
(* draft of the index is true of the files except where the history says   *)
(* otherwise.                                                              *)
THEOREM CacheInvariant == CacheSpec => []CacheInv
  <1>1. CacheInit => CacheInv
    <2> SUFFICES ASSUME CacheInit PROVE CacheInv
      OBVIOUS
    <2>1. files \in Table /\ rows = files
      BY DEF CacheInit, Table
    <2>2. doing \in [Saver -> {Resting}] /\ lockedBy = Unlocked
      BY DEF CacheInit
    <2>3. CacheTypeOK
      BY <2>1, <2>2 DEF CacheInit, CacheTypeOK
    <2>4. \A s \in Saver : doing[s] = Resting /\ lockedBy # s
      BY <2>2, CacheMarkersAssumption
    <2>5. LockExact /\ SavesName /\ DraftTrue /\ SaveKeepsFile
      BY <2>4 DEF LockExact, SavesName, DraftTrue, SaveKeepsFile, At
    <2>6. IndexTruthful
      BY <2>1 DEF IndexTruthful
    <2> QED
      BY <2>3, <2>5, <2>6 DEF CacheInv
  <1>2. CacheInv /\ [CacheNext]_cacheVars => CacheInv'
    <2> SUFFICES ASSUME CacheInv, [CacheNext]_cacheVars PROVE CacheInv'
      OBVIOUS
    <2>1. CASE Flip \/ UNCHANGED cacheVars
      BY <2>1, FlipInv
    <2>2. ASSUME NEW s \in Saver, SaverStep(s)
          PROVE  CacheInv'
      BY <2>2, OutsiderInv, HolderInv, UnlockInv, LockInv, DieInv
      DEF SaverStep
    <2> QED
      BY <2>1, <2>2 DEF CacheNext
  <1> QED
    BY <1>1, <1>2, PTL DEF CacheSpec

-----------------------------------------------------------------------------
(* The types of the directory, the index, the lock and the operations.     *)
THEOREM CacheTypeCorrect == CacheSpec => []CacheTypeOK
  BY CacheInvariant, PTL DEF CacheInv

(* With the lock free the index says what is there, for any interleaving   *)
(* of saves, deletions, reconciliations and deaths, except for what was    *)
(* written without a limit or left by a dead process (_guard, reconcile).  *)
THEOREM IndexIsTrue == CacheSpec => []IndexTruthful
  BY CacheInvariant, PTL DEF CacheInv

(* The file of a save is there for as long as the save has the lock: its   *)
(* own trimming spares it and nobody else can remove it (save).            *)
THEOREM SavedFileStays == CacheSpec => []SaveKeepsFile
  BY CacheInvariant, PTL DEF CacheInv
=============================================================================
