------------------------ MODULE AccountRefreshProofs ------------------------
(***************************************************************************)
(* What is proved of the refresh service, for any number of accounts,      *)
(* callers and pieces of work, and any defaults: the types, that counters  *)
(* lose nothing, that nothing is brought back, that one caller at a time   *)
(* refreshes on demand, and that no window claims more than is known.      *)
(***************************************************************************)
EXTENDS AccountRefresh, TLAPS

(* Window w of account t has an origin: a window issued to it (one of I),  *)
(* or one it started with, of the same sync and total and with at least as *)
(* many queries left; and what is called real has been issued.             *)
Grounded(t, m, w, I) ==
    /\ w.source = "real" => <<t, m, w>> \in I
    /\ \E o \in Window : /\ \/ <<t, m, o>> \in I
                            \/ \E p \in Pool : o = DefaultQuota(p)[m]
                         /\ o.synced = w.synced
                         /\ o.total = w.total
                         /\ w.left <= o.left

QuotaGrounded(t, quota, I) ==
    \A m \in Mode : quota[m] \in Window => Grounded(t, m, quota[m], I)

(* Work in progress is on an account that is there, and what it has read   *)
(* and what it is about to write is grounded.                              *)
SoundWork(w, A, I) ==
    /\ w \in Work
    /\ A[w.token] # NoAccount
    /\ w.kind = "call" => w.modes # {}
    /\ QuotaGrounded(w.token, w.seen.quota, I)
    /\ w.patch # NoPatch => QuotaGrounded(w.token, w.patch.quota, I)

WorkSound == \A i \in DOMAIN work : SoundWork(work[i], acct, issued)

RowsGrounded ==
    \A t \in Token : Known(t) => QuotaGrounded(t, acct[t].quota, issued)

(* Who refreshes on demand holds the lock.                                 *)
LockHeld == \A c \in Caller : job[c] = "ondemand" => odLock = c

(* Only Redis reads a row ahead of writing to it.                          *)
AllUnread == backend # "redis" => \A i \in DOMAIN work : work[i].base = Unread

RefreshInv ==
    /\ RefreshTypeOK /\ CountsExact
    /\ LockHeld /\ WorkSound /\ RowsGrounded /\ AllUnread

-----------------------------------------------------------------------------
(* Windows and pools.                                                      *)

LEMMA WindowTypes ==
    ASSUME NEW p \in Pool, NEW m \in Mode, NEW w \in Window, NEW n \in Nat,
           NEW total \in Nat, NEW clk \in Nat
    PROVE  /\ OneLess(w) \in Window /\ OneLess(w).source = "estimated"
           /\ Drained(w, clk) \in Window
           /\ Drained(w, clk).source = "estimated"
           /\ Renewed(p, m, clk) \in Window
           /\ Renewed(p, m, clk).source = "default"
           /\ Reported(n, total, clk) \in Window
           /\ Reported(n, total, clk).source = "real"
           /\ Normalize(p, m, w) \in Window
           /\ Normalize(p, m, w).source = w.source
           /\ Limit[p][m] \in Nat
  <1>1. Limit[p][m] \in Nat /\ Limit["basic"]["fast"] \in Nat
    BY LimitAssumption, ModeAssumption DEF Pool, AllModes
  <1>2. clk + Span \in Nat
    BY SpanAssumption
  <1>3. OneLess(w) \in Window /\ OneLess(w).source = "estimated"
    <2>1. w.left \in Nat /\ (IF w.left > 0 THEN w.left - 1 ELSE 0) \in Nat
      BY DEF Window
    <2> QED
      BY <2>1 DEF OneLess, Window, Source
  <1>4. Drained(w, clk) \in Window /\ Drained(w, clk).source = "estimated"
    BY <1>2 DEF Drained, Window, Source, Time
  <1>5. /\ Renewed(p, m, clk) \in Window
        /\ Renewed(p, m, clk).source = "default"
    BY <1>1, <1>2 DEF Renewed, Window, Source, Time
  <1>6. /\ Reported(n, total, clk) \in Window
        /\ Reported(n, total, clk).source = "real"
    BY <1>2 DEF Reported, Window, Source, Time
  <1>7. Normalize(p, m, w) \in Window /\ Normalize(p, m, w).source = w.source
    BY <1>1 DEF Normalize, Window
  <1> QED
    BY <1>1, <1>3, <1>4, <1>5, <1>6, <1>7

LEMMA DefaultTypes ==
    ASSUME NEW p \in Pool
    PROVE  /\ DefaultQuota(p) \in Quota
           /\ \A m \in Mode : DefaultQuota(p)[m] \in Window
                                => DefaultQuota(p)[m].source = "default"
  <1>1. \A n \in Nat : /\ Untouched(n) \in Window
                       /\ Untouched(n).source = "default"
    BY DEF Untouched, Window, Source, Time
  <1>2. \A m \in Mode : Limit[p][m] \in Nat
    BY LimitAssumption, ModeAssumption
  <1>3. \A m \in Mode : \/ DefaultQuota(p)[m] = NoWindow
                        \/ \E n \in Nat : DefaultQuota(p)[m] = Untouched(n)
    BY <1>2 DEF DefaultQuota
  <1> QED
    BY <1>1, <1>3, NoWindowAssumption DEF DefaultQuota, Quota

LEMMA InferredPool ==
    ASSUME NEW windows PROVE InferPool(windows) \in Pool
  BY DEF InferPool, Pool

LEMMA FreshType ==
    ASSUME NEW p \in Pool
    PROVE  /\ Fresh(p) \in Account /\ Fresh(p).counts = NoCounts
           /\ \A m \in Mode : Fresh(p).quota[m] \in {NoWindow,
                                                     DefaultQuota(p)[m]}
  <1> DEFINE q == [m \in Mode |-> Stored(m, DefaultQuota(p)[m])]
  <1>1. \A m \in Mode : q[m] \in {NoWindow, DefaultQuota(p)[m]}
    BY DEF Stored
  <1>2. q \in Quota
    BY <1>1, DefaultTypes DEF Quota
  <1>3. Fresh(p) = [pool |-> p, status |-> "active", deleted |-> FALSE,
                    quota |-> q, counts |-> NoCounts]
    BY DEF Fresh
  <1> HIDE DEF q
  <1> QED
    BY <1>1, <1>2, <1>3 DEF Account, Status, NoCounts, Counts

(* Grounds: more issued windows do no harm; an issued window and a default *)
(* one are their own origin; a query less or a drained window keeps its.   *)
LEMMA Grounds ==
    ASSUME NEW t \in Token, NEW m \in Mode, NEW w \in Window, NEW I,
           NEW clk \in Nat
    PROVE  /\ \A J : I \subseteq J /\ Grounded(t, m, w, I)
                       => Grounded(t, m, w, J)
           /\ <<t, m, w>> \in I => Grounded(t, m, w, I)
           /\ \A p \in Pool : w = DefaultQuota(p)[m] => Grounded(t, m, w, I)
           /\ Grounded(t, m, w, I) => /\ Grounded(t, m, OneLess(w), I)
                                      /\ Grounded(t, m, Drained(w, clk), I)
  <1>0. \A u \in Window : u.left \in Nat
    BY DEF Window
  <1>1. \A J : I \subseteq J /\ Grounded(t, m, w, I) => Grounded(t, m, w, J)
    BY DEF Grounded
  <1>2. <<t, m, w>> \in I => Grounded(t, m, w, I)
    BY <1>0 DEF Grounded
  <1>3. \A p \in Pool : w = DefaultQuota(p)[m] => Grounded(t, m, w, I)
    <2>1. \A p \in Pool : w = DefaultQuota(p)[m] => w.source = "default"
      BY DefaultTypes
    <2> QED
      BY <1>0, <2>1 DEF Grounded
  <1>4. /\ OneLess(w).synced = w.synced /\ OneLess(w).total = w.total
        /\ OneLess(w).left <= w.left /\ OneLess(w).source = "estimated"
        /\ OneLess(w).left \in Nat
    BY <1>0 DEF OneLess, Window
  <1>5. /\ Drained(w, clk).synced = w.synced
        /\ Drained(w, clk).total = w.total
        /\ Drained(w, clk).left <= w.left /\ Drained(w, clk).left \in Nat
        /\ Drained(w, clk).source = "estimated"
    BY <1>0 DEF Drained, Window
  <1>6. ASSUME NEW v, Grounded(t, m, w, I), v.synced = w.synced,
               v.total = w.total, v.left <= w.left, v.left \in Nat,
               v.source = "estimated"
        PROVE  Grounded(t, m, v, I)
    <2>1. PICK o \in Window : /\ \/ <<t, m, o>> \in I
                                 \/ \E p \in Pool : o = DefaultQuota(p)[m]
                              /\ o.synced = w.synced /\ o.total = w.total
                              /\ w.left <= o.left
      BY <1>6 DEF Grounded
    <2>2. v.left <= o.left
      BY <1>0, <1>6, <2>1
    <2> QED
      BY <1>6, <2>1, <2>2 DEF Grounded
  <1> QED
    BY <1>1, <1>2, <1>3, <1>4, <1>5, <1>6

LEMMA FreshGrounded ==
    ASSUME NEW t \in Token, NEW p \in Pool, NEW I
    PROVE  QuotaGrounded(t, Fresh(p).quota, I)
  <1> SUFFICES ASSUME NEW m \in Mode, Fresh(p).quota[m] \in Window
               PROVE Grounded(t, m, Fresh(p).quota[m], I)
    BY DEF QuotaGrounded
  <1>1. Fresh(p).quota[m] = DefaultQuota(p)[m] /\ 0 \in Nat
    BY FreshType, NoWindowAssumption
  <1> QED
    BY <1>1, Grounds

LEMMA MoreIssued ==
    ASSUME NEW t \in Token, NEW quota, NEW I, NEW J, I \subseteq J,
           QuotaGrounded(t, quota, I)
    PROVE  QuotaGrounded(t, quota, J)
  <1> SUFFICES ASSUME NEW m \in Mode, quota[m] \in Window
               PROVE Grounded(t, m, quota[m], J)
    BY DEF QuotaGrounded
  <1>1. Grounded(t, m, quota[m], I)
    BY DEF QuotaGrounded
  <1> QED
    BY <1>1 DEF Grounded

-----------------------------------------------------------------------------
(* The patches that answers and failures are turned into.                  *)

(* A patch sets a mode to an estimate from the window read, or to a window *)
(* that has just been issued.                                              *)
PatchShape(w, patch) ==
    /\ patch \in Patch
    /\ \A m \in Mode :
          \/ patch.quota[m] = Same
          \/ /\ w.seen.quota[m] \in Window
             /\ patch.quota[m] = OneLess(w.seen.quota[m])
          \/ /\ patch.quota[m] \in Window
             /\ patch.quota[m].source # "estimated"

LEMMA CallShape ==
    ASSUME NEW w \in Work, w.modes # {}, NEW windows,
           \A m \in DOMAIN windows : /\ windows[m] \in Window
                                     /\ windows[m].source = "real"
    PROVE PatchShape(w, CallPatch(w, windows))
  <1> DEFINE m == CHOOSE x \in w.modes : TRUE
             told == m \in DOMAIN windows
             q == IF told THEN SetOnly(m, Normalize(w.seen.pool, m,
                                                    windows[m]))
                  ELSE IF w.seen.quota[m] = NoWindow THEN NothingSet
                  ELSE SetOnly(m, OneLess(w.seen.quota[m]))
  <1>1. w.modes \subseteq Mode /\ w.seen \in Account
    BY DEF Work
  <1>2. m \in Mode
    BY <1>1
  <1>3. w.seen.pool \in Pool /\ w.seen.quota \in [Mode -> Window \cup {NoWindow}]
    BY <1>1 DEF Account, Quota
  <1>4. CallPatch(w, windows) =
           [quota |-> q, pool |-> Same, status |-> Same,
            counts |-> Counting(1, 0, IF told THEN 1 ELSE 0)]
    BY DEF CallPatch
  <1> HIDE DEF m
  <1>5. told => /\ Normalize(w.seen.pool, m, windows[m]) \in Window
                /\ Normalize(w.seen.pool, m, windows[m]).source = "real"
    BY <1>2, <1>3, WindowTypes
  <1>6. w.seen.quota[m] # NoWindow => /\ w.seen.quota[m] \in Window
                                      /\ OneLess(w.seen.quota[m]) \in Window
    BY <1>2, <1>3, WindowTypes DEF Pool
  <1>7. q \in [Mode -> Window \cup {Same}]
    BY <1>2, <1>5, <1>6 DEF SetOnly, NothingSet
  <1>8. \A x \in Mode :
          \/ q[x] = Same
          \/ w.seen.quota[x] \in Window /\ q[x] = OneLess(w.seen.quota[x])
          \/ q[x] \in Window /\ q[x].source # "estimated"
    BY <1>2, <1>5, <1>6 DEF SetOnly, NothingSet
  <1> HIDE DEF q, told
  <1>9. Counting(1, 0, IF told THEN 1 ELSE 0) \in Counts
    BY DEF Counting, Counts
  <1> QED
    BY <1>4, <1>7, <1>8, <1>9 DEF PatchShape, Patch

LEMMA BatchShape ==
    ASSUME NEW w \in Work, now \in Nat, NEW windows,
           DOMAIN windows \subseteq Mode,
           \A m \in DOMAIN windows : /\ windows[m] \in Window
                                     /\ windows[m].source = "real"
    PROVE PatchShape(w, BatchPatch(w, windows))
  <1> DEFINE told == DOMAIN windows
             q == [m \in Mode |->
                     IF m \in told THEN Normalize(w.seen.pool, m, windows[m])
                     ELSE IF w.kind # "tokens"
                             /\ NeedsFallback(w.seen.pool, w.seen.quota, m, now)
                     THEN Fallback(w.seen.pool, w.seen.quota, m, now)
                     ELSE Same]
             pool == IF told = {} \/ InferPool(windows) = w.seen.pool THEN Same
                     ELSE InferPool(windows)
  <1>1. w.seen \in Account
    BY DEF Work
  <1>2. w.seen.pool \in Pool /\ w.seen.quota \in [Mode -> Window \cup {NoWindow}]
    BY <1>1 DEF Account, Quota
  <1>3. BatchPatch(w, windows) =
           [quota |-> q, pool |-> pool, status |-> Same,
            counts |-> Counting(0, 0, IF told = {} THEN 0 ELSE 1)]
    BY DEF BatchPatch
  <1>4. \A m \in Mode :
          \/ q[m] = Same
          \/ w.seen.quota[m] \in Window /\ q[m] = OneLess(w.seen.quota[m])
          \/ q[m] \in Window /\ q[m].source # "estimated"
    <2> SUFFICES ASSUME NEW m \in Mode
                 PROVE \/ q[m] = Same
                       \/ /\ w.seen.quota[m] \in Window
                          /\ q[m] = OneLess(w.seen.quota[m])
                       \/ q[m] \in Window /\ q[m].source # "estimated"
      OBVIOUS
    <2>1. CASE m \in told
      BY <2>1, <1>2, WindowTypes
    <2>2. CASE m \notin told /\ NeedsFallback(w.seen.pool, w.seen.quota, m, now)
      <3>1. w.seen.quota[m] \in Window
        BY <2>2, <1>2 DEF NeedsFallback
      <3>2. \/ Fallback(w.seen.pool, w.seen.quota, m, now)
                 = OneLess(w.seen.quota[m])
            \/ Fallback(w.seen.pool, w.seen.quota, m, now)
                 = Renewed(w.seen.pool, m, now)
        BY DEF Fallback
      <3> QED
        BY <2>2, <3>1, <3>2, <1>2, WindowTypes
    <2> QED
      BY <2>1, <2>2
  <1>5. q \in [Mode -> Window \cup {Same}]
    <2>1. \A m \in Mode : w.seen.quota[m] \in Window
                            => OneLess(w.seen.quota[m]) \in Window
      BY <1>2, WindowTypes
    <2> QED
      BY <1>4, <2>1
  <1>6. pool \in Pool \cup {Same}
    BY InferredPool
  <1> HIDE DEF q, pool, told
  <1>7. Counting(0, 0, IF told = {} THEN 0 ELSE 1) \in Counts
    BY DEF Counting, Counts
  <1> QED
    BY <1>3, <1>4, <1>5, <1>6, <1>7 DEF PatchShape, Patch
-----------------------------------------------------------------------------
(* Rows.                                                                   *)

LEMMA PlusType ==
    ASSUME NEW a \in Counts, NEW b \in Counts
    PROVE  Plus(a, b) \in Counts
  <1>1. DOMAIN a = {"use", "fail", "sync"}
    BY DEF Counts
  <1>2. \A c \in {"use", "fail", "sync"} : a[c] \in Nat /\ b[c] \in Nat
    BY DEF Counts
  <1>3. \A c \in {"use", "fail", "sync"} : a[c] + b[c] \in Nat
    BY <1>2
  <1> QED
    BY <1>1, <1>3 DEF Plus, Counts

LEMMA CountedType ==
    ASSUME NEW a \in Counts, NEW w \in Work, w.patch # NoPatch
    PROVE  /\ Counted(a, w) \in Counts
           /\ w.base = Unread => Counted(a, w) = Plus(a, w.patch.counts)
  <1>1. w.patch.counts \in Counts /\ w.base \in Counts \cup {Unread}
    BY DEF Work, Patch
  <1>2. CASE w.base = Unread
    BY <1>1, <1>2, PlusType DEF Counted
  <1>3. CASE w.base # Unread
    <2> DEFINE new == [c \in DOMAIN a |->
                         IF w.patch.counts[c] = 0 THEN a[c]
                         ELSE w.base[c] + w.patch.counts[c]]
    <2>1. DOMAIN a = {"use", "fail", "sync"}
      BY DEF Counts
    <2>2. \A c \in {"use", "fail", "sync"} :
             a[c] \in Nat /\ w.base[c] \in Nat /\ w.patch.counts[c] \in Nat
      BY <1>1, <1>3 DEF Counts
    <2>3. \A c \in {"use", "fail", "sync"} :
             w.base[c] + w.patch.counts[c] \in Nat
      BY <2>2
    <2>4. new \in Counts
      BY <2>1, <2>2, <2>3 DEF Counts
    <2> QED
      BY <1>3, <2>4 DEF Counted
  <1> QED
    BY <1>2, <1>3

LEMMA PatchedRow ==
    ASSUME NEW row \in Account, NEW w \in Work, w.patch # NoPatch
    PROVE  LET new == Patched(row, w)
           IN /\ new \in Account
              /\ w.base = Unread
                   => new.counts = Plus(row.counts, w.patch.counts)
              /\ new.deleted = row.deleted
              /\ new.status \in {row.status, "expired"}
              /\ \A m \in Mode : new.quota[m] \in {row.quota[m], NoWindow,
                                                   w.patch.quota[m]}
              /\ \A m \in Mode : w.patch.quota[m] = Same
                                   => new.quota[m] = row.quota[m]
  <1> DEFINE pool == IF w.patch.pool = Same THEN row.pool ELSE w.patch.pool
             status == IF w.patch.status = Same THEN row.status
                       ELSE w.patch.status
             quota == [m \in Mode |->
                         IF w.patch.quota[m] = Same THEN row.quota[m]
                         ELSE Stored(m, w.patch.quota[m])]
             counts == Counted(row.counts, w)
  <1>1. w.patch \in Patch
    BY DEF Work
  <1>2. pool \in Pool
    BY <1>1 DEF Patch, Account
  <1>3. status \in Status /\ status \in {row.status, "expired"}
    BY <1>1 DEF Patch, Account, Status
  <1>4. \A m \in Mode :
           /\ quota[m] \in {row.quota[m], NoWindow, w.patch.quota[m]}
           /\ w.patch.quota[m] = Same => quota[m] = row.quota[m]
           /\ quota[m] \in Window \cup {NoWindow}
    BY <1>1 DEF Stored, Patch, Account, Quota
  <1>5. quota \in Quota
    BY <1>4 DEF Quota
  <1>6. /\ counts \in Counts
        /\ w.base = Unread => counts = Plus(row.counts, w.patch.counts)
    BY CountedType DEF Account
  <1>7. Patched(row, w) = [row EXCEPT !.pool = pool, !.status = status,
                                      !.quota = quota, !.counts = counts]
    BY DEF Patched
  <1> HIDE DEF pool, status, quota, counts
  <1>8. LET new == [row EXCEPT !.pool = pool, !.status = status,
                               !.quota = quota, !.counts = counts]
        IN /\ new \in Account
           /\ new.counts = counts /\ new.deleted = row.deleted
           /\ new.status = status /\ new.quota = quota
    BY <1>2, <1>3, <1>5, <1>6 DEF Account
  <1> QED
    BY <1>3, <1>4, <1>6, <1>7, <1>8

-----------------------------------------------------------------------------
(* Pieces of work.                                                         *)

(* Some work is gone, or nobody waits for it any longer.                   *)
LEMMA LessWork ==
    ASSUME RefreshInv, DOMAIN work' \subseteq DOMAIN work,
           \A i \in DOMAIN work' :
              work'[i] = work[i] \/ work'[i] = [work[i] EXCEPT !.by = Nobody],
           \A t \in Token : acct[t] # NoAccount => acct'[t] # NoAccount,
           issued \subseteq issued', started' = started, backend' = backend
    PROVE  /\ WorkSound' /\ AllUnread'
           /\ DOMAIN work' \subseteq (1 .. started') \X Token
           /\ \A i \in DOMAIN work' : work'[i] \in Work
  <1> USE DEF RefreshInv
  <1>1. \A i \in DOMAIN work' : SoundWork(work'[i], acct', issued')
    <2> SUFFICES ASSUME NEW i \in DOMAIN work'
                 PROVE SoundWork(work'[i], acct', issued')
      OBVIOUS
    <2>1. SoundWork(work[i], acct, issued)
      BY DEF WorkSound
    <2>2. work[i] \in Work /\ work[i].token \in Token
      BY <2>1 DEF SoundWork, Work
    <2>3. /\ work'[i] \in Work /\ work'[i].token = work[i].token
          /\ work'[i].kind = work[i].kind /\ work'[i].modes = work[i].modes
          /\ work'[i].seen = work[i].seen /\ work'[i].patch = work[i].patch
      BY <2>2 DEF Work
    <2>4. /\ QuotaGrounded(work[i].token, work[i].seen.quota, issued')
          /\ work[i].patch # NoPatch
               => QuotaGrounded(work[i].token, work[i].patch.quota, issued')
      BY <2>1, <2>2, MoreIssued DEF SoundWork
    <2> QED
      BY <2>1, <2>2, <2>3, <2>4 DEF SoundWork
  <1>2. \A i \in DOMAIN work' : work'[i].base = work[i].base
    <2> SUFFICES ASSUME NEW i \in DOMAIN work'
                 PROVE work'[i].base = work[i].base
      OBVIOUS
    <2>1. work[i] \in Work
      BY DEF WorkSound, SoundWork
    <2> QED
      BY <2>1 DEF Work
  <1>3. AllUnread'
    BY <1>2 DEF AllUnread
  <1> QED
    BY <1>1, <1>3 DEF WorkSound, SoundWork, RefreshTypeOK

(* New work, one piece for each account in S.                              *)
Started(S, new) ==
    [i \in DOMAIN work \cup {<<started + 1, t>> : t \in S} |->
       IF i[1] # started + 1 THEN work[i] ELSE new[i[2]]]

LEMMA MoreWork ==
    ASSUME RefreshInv, NEW S \in SUBSET Token, NEW new,
           \A t \in S : SoundWork(new[t], acct, issued),
           \A t \in S : new[t].base = Unread,
           work' = Started(S, new), started' = started + 1,
           acct' = acct, issued' = issued, backend' = backend
    PROVE  /\ WorkSound' /\ AllUnread'
           /\ DOMAIN work' \subseteq (1 .. started') \X Token
           /\ \A i \in DOMAIN work' : work'[i] \in Work
           /\ started' \in Nat
  <1> USE DEF RefreshInv, Started
  <1>0. started \in Nat /\ DOMAIN work \subseteq (1 .. started) \X Token
    BY DEF RefreshTypeOK
  <1>1. \A i \in DOMAIN work : i \in (1 .. started') \X Token
                               /\ i[1] # started + 1
    <2> SUFFICES ASSUME NEW i \in DOMAIN work
                 PROVE i \in (1 .. started') \X Token /\ i[1] # started + 1
      OBVIOUS
    <2>1. PICK n \in 1 .. started, t \in Token : i = <<n, t>>
      BY <1>0
    <2>2. n \in 1 .. started' /\ n # started + 1
      BY <1>0
    <2> QED
      BY <2>1, <2>2
  <1>2. DOMAIN work' = DOMAIN work \cup {<<started + 1, t>> : t \in S}
    OBVIOUS
  <1>3. \A t \in S : <<started + 1, t>> \in (1 .. started') \X Token
    BY <1>0
  <1>4. DOMAIN work' \subseteq (1 .. started') \X Token
    BY <1>1, <1>2, <1>3
  <1>5. \A i \in DOMAIN work' : SoundWork(work'[i], acct', issued')
    <2> SUFFICES ASSUME NEW i \in DOMAIN work'
                 PROVE SoundWork(work'[i], acct', issued')
      OBVIOUS
    <2>1. CASE i \in DOMAIN work
      BY <1>1, <2>1 DEF WorkSound
    <2>2. CASE i \notin DOMAIN work
      <3>1. PICK t \in S : i = <<started + 1, t>>
        BY <1>2, <2>2
      <3>2. work'[i] = new[t]
        BY <3>1
      <3> QED
        BY <3>2
    <2> QED
      BY <2>1, <2>2
  <1>6. WorkSound'
    BY <1>5 DEF WorkSound
  <1>7. \A i \in DOMAIN work' : work'[i] \in Work
    BY <1>5 DEF SoundWork
  <1>8. started' \in Nat
    BY <1>0
  <1>9. AllUnread'
    <2> SUFFICES ASSUME backend # "redis", NEW i \in DOMAIN work'
                 PROVE work'[i].base = Unread
      BY DEF AllUnread
    <2>1. CASE i \in DOMAIN work
      BY <1>1, <2>1 DEF AllUnread
    <2>2. CASE i \notin DOMAIN work
      <3>1. PICK t \in S : i = <<started + 1, t>>
        BY <1>2, <2>2
      <3> QED
        BY <3>1
    <2> QED
      BY <2>1, <2>2
  <1> QED
    BY <1>4, <1>6, <1>7, <1>8, <1>9

(* The work that a batch or an update after a call starts with.            *)
LEMMA BatchWork ==
    ASSUME RefreshInv, NEW t \in Token, Known(t),
           NEW by \in Caller \cup {Nobody},
           NEW kind \in Batch \cup {"call", "fail"},
           NEW modes \in SUBSET Mode, kind = "call" => modes # {}
    PROVE  SoundWork([by |-> by, kind |-> kind, token |-> t, modes |-> modes,
                      seen |-> acct[t], patch |-> NoPatch, base |-> Unread],
                     acct, issued)
  BY DEF RefreshInv, SoundWork, Work, RefreshTypeOK, RowsGrounded, Known

-----------------------------------------------------------------------------
(* The steps of callers.                                                   *)

LEMMA BatchStarts ==
    ASSUME RefreshInv, NEW c \in Caller, NEW kind \in Batch,
           NEW S \in SUBSET Token, \A t \in S : Manageable(t),
           Begin(S, c, kind, AllSupported),
           job[c] = "idle", job' = [job EXCEPT ![c] = kind],
           \/ kind # "ondemand" /\ odLock' = odLock
           \/ odLock = Nobody /\ odLock' = c,
           UNCHANGED <<now, tier, backend, acct, odLast, orders, faults,
                       issued, tally>>
    PROVE  RefreshInv'
  <1> DEFINE new == [t \in S |->
                       [by |-> c, kind |-> kind, token |-> t,
                        modes |-> AllSupported(t), seen |-> acct[t],
                        patch |-> NoPatch, base |-> Unread]]
  <1> USE DEF RefreshInv
  <1>0. \A t \in S : new[t].base = Unread
    OBVIOUS
  <1>1. \A t \in S : SoundWork(new[t], acct, issued)
    <2> SUFFICES ASSUME NEW t \in S PROVE SoundWork(new[t], acct, issued)
      OBVIOUS
    <2>1. Known(t) /\ t \in Token
      BY DEF Manageable
    <2>2. AllSupported(t) \in SUBSET Mode
      BY DEF AllSupported, Supported
    <2>3. kind # "call"
      BY DEF Batch
    <2> QED
      BY <2>1, <2>2, <2>3, BatchWork
  <1>2. /\ started' = started + 1
        /\ work' = Started(S, new)
    <2>0. started \in Nat /\ DOMAIN work \subseteq (1 .. started) \X Token
      BY DEF RefreshTypeOK
    <2>1. \A i \in DOMAIN work : i[1] # started + 1
      BY <2>0
    <2>2. \A i \in {<<started + 1, t>> : t \in S} : i[2] \in S
      OBVIOUS
    <2> QED
      BY <2>1, <2>2 DEF Begin, Started
  <1> HIDE DEF new
  <1>3. /\ WorkSound' /\ AllUnread' /\ started' \in Nat
        /\ DOMAIN work' \subseteq (1 .. started') \X Token
        /\ \A i \in DOMAIN work' : work'[i] \in Work
    BY <1>0, <1>1, <1>2, MoreWork
  <1>4. RefreshTypeOK'
    BY <1>3 DEF RefreshTypeOK
  <1>5. LockHeld'
    BY RefreshMarkersAssumption DEF LockHeld, RefreshTypeOK
  <1>6. CountsExact' /\ RowsGrounded'
    BY DEF CountsExact, DeltasAdded, RowsGrounded, Known
  <1> QED
    BY <1>3, <1>4, <1>5, <1>6
LEMMA CallerInv ==
    ASSUME RefreshInv, NEW c \in Caller, CallerStep(c)
    PROVE  RefreshInv'
  <1>1. ASSUME NEW kind \in {"scheduled", "tokens"}, NEW S \in SUBSET Token,
               StartBatch(c, kind, S)
        PROVE  RefreshInv'
    <2> DEFINE M == {t \in S : Manageable(t)}
    <2>1. M \in SUBSET Token /\ \A t \in M : Manageable(t)
      OBVIOUS
    <2>2. /\ Begin(M, c, kind, AllSupported) /\ job[c] = "idle"
          /\ job' = [job EXCEPT ![c] = kind]
          /\ kind \in Batch /\ kind # "ondemand" /\ odLock' = odLock
          /\ UNCHANGED <<now, tier, backend, acct, odLast, orders, faults,
                         issued, tally>>
      BY <1>1 DEF StartBatch, Batch, world, history
    <2> HIDE DEF M
    <2> QED
      BY <2>1, <2>2, BatchStarts
  <1>2. CASE OnDemand(c)
    <2> DEFINE M == {t \in Token : Manageable(t)}
    <2>1. M \in SUBSET Token /\ \A t \in M : Manageable(t)
      OBVIOUS
    <2>2. /\ Begin(M, c, "ondemand", AllSupported) /\ job[c] = "idle"
          /\ job' = [job EXCEPT ![c] = "ondemand"]
          /\ "ondemand" \in Batch /\ odLock = Nobody /\ odLock' = c
          /\ UNCHANGED <<now, tier, backend, acct, odLast, orders, faults,
                         issued, tally>>
      BY <1>2 DEF OnDemand, Batch, world, history
    <2> HIDE DEF M
    <2> QED
      BY <2>1, <2>2, BatchStarts
  <1>3. CASE EndBatch(c) \/ Cancel(c)
    <2>1. /\ job' = [job EXCEPT ![c] = "idle"]
          /\ odLock' = IF odLock = c THEN Nobody ELSE odLock
          /\ odLast' \in {odLast, now} /\ faults' \in {faults, faults + 1}
          /\ UNCHANGED <<now, tier, backend, acct, started, orders, issued,
                         tally>>
      BY <1>3 DEF EndBatch, Cancel, Release, world, history
    <2>2. /\ DOMAIN work' \subseteq DOMAIN work
          /\ \A i \in DOMAIN work' :
                work'[i] = work[i] \/ work'[i] = [work[i] EXCEPT !.by = Nobody]
      <3>1. CASE EndBatch(c)
        BY <3>1 DEF EndBatch
      <3>2. CASE Cancel(c)
        <4>1. PICK lost :
                work' = Abandon(c, [i \in DOMAIN work \ lost |-> work[i]])
          BY <3>2 DEF Cancel
        <4> QED
          BY <4>1 DEF Abandon
      <3> QED
        BY <1>3, <3>1, <3>2
    <2>3. /\ WorkSound' /\ AllUnread'
          /\ DOMAIN work' \subseteq (1 .. started') \X Token
          /\ \A i \in DOMAIN work' : work'[i] \in Work
      BY <2>1, <2>2, LessWork
    <2>4. RefreshTypeOK'
      BY <2>1, <2>3 DEF RefreshInv, RefreshTypeOK, Time
    <2>5. LockHeld'
      BY <2>1 DEF RefreshInv, LockHeld, RefreshTypeOK
    <2> QED
      BY <2>1, <2>3, <2>4, <2>5
      DEF RefreshInv, CountsExact, DeltasAdded, RowsGrounded, Known
  <1> QED
    BY <1>1, <1>2, <1>3 DEF CallerStep

-----------------------------------------------------------------------------
(* The steps of requests.                                                  *)

LEMMA RequestWork ==
    ASSUME RefreshInv, NEW t \in Token, NEW w,
           SoundWork(w, acct, issued), w.base = Unread, started' = started + 1,
           work' = [i \in DOMAIN work \cup {<<started + 1, t>>} |->
                      IF i[1] # started + 1 THEN work[i] ELSE w],
           UNCHANGED <<now, tier, backend, acct, job, odLock, odLast, orders,
                       faults, issued, tally>>
    PROVE  RefreshInv'
  <1> DEFINE S == {t}
             new == [u \in S |-> w]
  <1>1. /\ S \in SUBSET Token
        /\ \A u \in S : SoundWork(new[u], acct, issued)
        /\ \A u \in S : new[u].base = Unread
    OBVIOUS
  <1>2. work' = Started(S, new)
    <2>0. started \in Nat /\ DOMAIN work \subseteq (1 .. started) \X Token
      BY DEF RefreshInv, RefreshTypeOK
    <2>1. \A i \in DOMAIN work : i[1] # started + 1
      BY <2>0
    <2>2. {<<started + 1, u>> : u \in S} = {<<started + 1, t>>}
      OBVIOUS
    <2>3. new[(<<started + 1, t>>)[2]] = w
      OBVIOUS
    <2> HIDE DEF new, S
    <2> QED
      BY <2>1, <2>2, <2>3 DEF Started
  <1> HIDE DEF new, S
  <1>3. /\ WorkSound' /\ AllUnread' /\ started' \in Nat
        /\ DOMAIN work' \subseteq (1 .. started') \X Token
        /\ \A i \in DOMAIN work' : work'[i] \in Work
    BY <1>1, <1>2, MoreWork
  <1>4. RefreshTypeOK'
    BY <1>3 DEF RefreshInv, RefreshTypeOK
  <1>5. CountsExact' /\ RowsGrounded' /\ LockHeld'
    <2>1. UNCHANGED <<backend, acct, job, odLock, issued, tally>>
      OBVIOUS
    <2> QED
      BY <2>1
      DEF RefreshInv, LockHeld, CountsExact, DeltasAdded, RowsGrounded, Known
  <1> QED
    BY <1>3, <1>4, <1>5 DEF RefreshInv

LEMMA FailureShape ==
    ASSUME RefreshInv, NEW t \in Token, Known(t), NEW m \in Mode, NEW outcome
    PROVE  /\ FailurePatch(t, m, outcome) \in Patch
           /\ QuotaGrounded(t, FailurePatch(t, m, outcome).quota, issued)
  <1> DEFINE limited == outcome = "limited" /\ acct[t].quota[m] # NoWindow
             w == Drained(acct[t].quota[m], now)
             q == IF limited THEN SetOnly(m, w) ELSE NothingSet
  <1>0. /\ now \in Nat /\ acct[t] \in Account
        /\ QuotaGrounded(t, acct[t].quota, issued)
    BY DEF RefreshInv, RefreshTypeOK, RowsGrounded, Known
  <1>1. acct[t].quota[m] \in Window \cup {NoWindow}
    BY <1>0 DEF Account, Quota
  <1>2. Same \notin Window
    BY RefreshMarkersAssumption
  <1>3. limited => w \in Window /\ Grounded(t, m, w, issued)
    <2>1. SUFFICES ASSUME limited
                   PROVE w \in Window /\ Grounded(t, m, w, issued)
      OBVIOUS
    <2>2. /\ acct[t].quota[m] \in Window
          /\ Grounded(t, m, acct[t].quota[m], issued)
      BY <2>1, <1>0, <1>1 DEF QuotaGrounded
    <2>3. "basic" \in Pool
      BY DEF Pool
    <2> QED
      BY <1>0, <2>2, <2>3, Grounds, WindowTypes
  <1>4. NothingSet \in [Mode -> Window \cup {Same}]
        /\ \A x \in Mode : NothingSet[x] = Same
    BY DEF NothingSet
  <1> HIDE DEF w
  <1>5. /\ q \in [Mode -> Window \cup {Same}]
        /\ \A x \in Mode : q[x] = Same \/ (x = m /\ q[x] = w /\ limited)
    BY <1>3, <1>4 DEF SetOnly
  <1>6. QuotaGrounded(t, q, issued)
    BY <1>2, <1>3, <1>5 DEF QuotaGrounded
  <1>7. ExpirePatch \in Patch /\ QuotaGrounded(t, ExpirePatch.quota, issued)
    <2>1. QuotaGrounded(t, NothingSet, issued)
      BY <1>2, <1>4 DEF QuotaGrounded
    <2> QED
      BY <1>4, <2>1 DEF ExpirePatch, Patch, NoCounts, Counts
  <1>8. FailurePatch(t, m, outcome) =
          IF outcome = "invalid" THEN ExpirePatch
          ELSE [quota |-> q, pool |-> Same, status |-> Same,
                counts |-> Counting(0, 1, 0)]
    BY DEF FailurePatch, w
  <1> HIDE DEF q, limited
  <1> QED
    BY <1>5, <1>6, <1>7, <1>8 DEF Patch, Counting, Counts

LEMMA RequestInv ==
    ASSUME RefreshInv, NEW t \in Token, RequestStep(t)
    PROVE  RefreshInv'
  <1>1. ASSUME NEW m \in Mode, StartCall(t, m)
        PROVE  RefreshInv'
    <2> DEFINE w == [by |-> Nobody, kind |-> "call", token |-> t,
                     modes |-> {m}, seen |-> acct[t], patch |-> NoPatch,
                     base |-> Unread]
    <2>1. /\ Known(t) /\ started' = started + 1
          /\ UNCHANGED <<now, tier, backend, acct, job, odLock, odLast, orders,
                         faults, issued, tally>>
      BY <1>1 DEF StartCall, Begin, world, history
    <2>2. SoundWork(w, acct, issued) /\ w.base = Unread
      BY <2>1, BatchWork
    <2>3. work' = [i \in DOMAIN work \cup {<<started + 1, t>>} |->
                     IF i[1] # started + 1 THEN work[i] ELSE w]
      <3>0. started \in Nat /\ DOMAIN work \subseteq (1 .. started) \X Token
        BY DEF RefreshInv, RefreshTypeOK
      <3>1. \A i \in DOMAIN work : i[1] # started + 1
        BY <3>0
      <3>2. {<<started + 1, u>> : u \in {t}} = {<<started + 1, t>>}
            /\ (<<started + 1, t>>)[2] = t
        OBVIOUS
      <3> QED
        BY <1>1, <3>1, <3>2 DEF StartCall, Begin
    <2> HIDE DEF w
    <2> QED
      BY <2>1, <2>2, <2>3, RequestWork
  <1>2. ASSUME NEW m \in Mode, NEW o, StartFailure(t, m, o)
        PROVE  RefreshInv'
    <2> DEFINE w == [by |-> Nobody, kind |-> "fail", token |-> t,
                     modes |-> {m}, seen |-> acct[t],
                     patch |-> FailurePatch(t, m, o), base |-> Unread]
    <2>1. /\ Known(t) /\ started' = started + 1
          /\ UNCHANGED <<now, tier, backend, acct, job, odLock, odLast, orders,
                         faults, issued, tally>>
          /\ work' = [i \in DOMAIN work \cup {<<started + 1, t>>} |->
                        IF i[1] # started + 1 THEN work[i] ELSE w]
      BY <1>2 DEF StartFailure, world, history
    <2>2. SoundWork(w, acct, issued) /\ w.base = Unread
      BY <2>1, FailureShape
      DEF RefreshInv, SoundWork, Work, RefreshTypeOK, RowsGrounded, Known
    <2> HIDE DEF w
    <2> QED
      BY <2>1, <2>2, RequestWork
  <1> QED
    BY <1>1, <1>2 DEF RequestStep
-----------------------------------------------------------------------------
(* The steps of work.                                                      *)

(* Upstream's answer has been turned into a patch.                         *)
LEMMA PatchReady ==
    ASSUME RefreshInv, NEW i \in DOMAIN work, NEW patch \in Patch,
           work' = [work EXCEPT ![i].patch = patch],
           QuotaGrounded(work[i].token, patch.quota, issued'),
           issued \subseteq issued', acct' = acct, started' = started,
           backend' = backend
    PROVE  /\ WorkSound' /\ AllUnread'
           /\ DOMAIN work' \subseteq (1 .. started') \X Token
           /\ \A j \in DOMAIN work' : work'[j] \in Work
  <1> USE DEF RefreshInv
  <1>1. DOMAIN work' = DOMAIN work
    OBVIOUS
  <1>2. \A j \in DOMAIN work' : SoundWork(work'[j], acct', issued')
    <2> SUFFICES ASSUME NEW j \in DOMAIN work
                 PROVE SoundWork(work'[j], acct', issued')
      BY <1>1
    <2>1. SoundWork(work[j], acct, issued)
      BY DEF WorkSound
    <2>2. work[j] \in Work /\ work[j].token \in Token
      BY <2>1 DEF SoundWork, Work
    <2>3. /\ QuotaGrounded(work[j].token, work[j].seen.quota, issued')
          /\ work[j].patch # NoPatch
               => QuotaGrounded(work[j].token, work[j].patch.quota, issued')
      BY <2>1, <2>2, MoreIssued DEF SoundWork
    <2>4. CASE j # i
      BY <2>1, <2>2, <2>3, <2>4 DEF SoundWork
    <2>5. CASE j = i
      <3>1. work'[j] = [work[j] EXCEPT !.patch = patch]
        BY <2>5
      <3>2. /\ work'[j] \in Work /\ work'[j].token = work[j].token
            /\ work'[j].kind = work[j].kind /\ work'[j].modes = work[j].modes
            /\ work'[j].seen = work[j].seen /\ work'[j].patch = patch
        BY <2>2, <3>1 DEF Work
      <3> QED
        BY <2>1, <2>3, <2>5, <3>2 DEF SoundWork
    <2> QED
      BY <2>4, <2>5
  <1>3. WorkSound'
    BY <1>2 DEF WorkSound
  <1>4. \A j \in DOMAIN work' : work'[j] \in Work
    BY <1>2 DEF SoundWork
  <1>5. AllUnread'
    <2>1. \A j \in DOMAIN work : work'[j].base = work[j].base
      <3> SUFFICES ASSUME NEW j \in DOMAIN work
                   PROVE work'[j].base = work[j].base
        OBVIOUS
      <3>1. work[j] \in Work
        BY DEF WorkSound, SoundWork
      <3> QED
        BY <3>1 DEF Work
    <2> QED
      BY <1>1, <2>1 DEF AllUnread
  <1> QED
    BY <1>1, <1>3, <1>4, <1>5 DEF RefreshTypeOK

LEMMA AnswerInv ==
    ASSUME RefreshInv, NEW i \in DOMAIN work, Answer(i)
    PROVE  RefreshInv'
  <1> DEFINE w == work[i]
             windows(told, left) ==
                [m \in told |-> Reported(left[m], Limit[tier[w.token]][m], now)]
             turned(ws) == IF w.kind = "call" THEN CallPatch(w, ws)
                                              ELSE BatchPatch(w, ws)
             news(patch) == {<<w.token, m, patch.quota[m]>> : m \in
                               {x \in Mode :
                                  /\ patch.quota[x] # Same
                                  /\ patch.quota[x].source # "estimated"}}
  <1>0. PICK told \in SUBSET (w.modes \cap Supported(w.seen.pool)) :
           \E left \in [told -> Left] :
              /\ work' = IF /\ turned(windows(told, left)).quota = NothingSet
                            /\ w.kind # "call"
                         THEN Without(i)
                         ELSE [work EXCEPT ![i].patch =
                                              turned(windows(told, left))]
              /\ issued' = issued \cup news(turned(windows(told, left)))
    BY DEF Answer
  <1>1. PICK left \in [told -> Left] :
           /\ \/ work' = Without(i)
              \/ work' = [work EXCEPT ![i].patch = turned(windows(told, left))]
           /\ issued' = issued \cup news(turned(windows(told, left)))
    BY <1>0
  <1> DEFINE ws == windows(told, left)
             patch == turned(ws)
  <1>2. UNCHANGED <<now, tier, backend, acct, job, started, odLock, odLast,
                    orders, faults, tally>>
    BY DEF Answer, world
  <1>3. /\ SoundWork(w, acct, issued) /\ w \in Work /\ w.token \in Token
        /\ now \in Nat /\ w.modes \subseteq Mode /\ tier[w.token] \in Pool
    BY DEF RefreshInv, WorkSound, SoundWork, Work, RefreshTypeOK
  <1>4. /\ DOMAIN ws \subseteq Mode
        /\ \A m \in DOMAIN ws : ws[m] \in Window /\ ws[m].source = "real"
    <2>1. DOMAIN ws = told /\ told \subseteq Mode
      BY <1>3
    <2> SUFFICES ASSUME NEW m \in told
                 PROVE ws[m] \in Window /\ ws[m].source = "real"
      BY <2>1
    <2>2. left[m] \in Nat /\ m \in Mode
      BY <2>1, InputsAssumption
    <2>3. Limit[tier[w.token]][m] \in Nat
      BY <1>3, <2>2, LimitAssumption, ModeAssumption
    <2>4. ws[m] = Reported(left[m], Limit[tier[w.token]][m], now)
      OBVIOUS
    <2>5. Reported(left[m], Limit[tier[w.token]][m], now) \in Window
      BY <1>3, <2>2, <2>3, SpanAssumption
      DEF Reported, Window, Time, Source
    <2> QED
      BY <2>4, <2>5 DEF Reported
  <1> HIDE DEF windows
  <1>5. PatchShape(w, patch)
    <2>1. CASE w.kind = "call"
      BY <1>3, <1>4, <2>1, CallShape DEF SoundWork
    <2>2. CASE w.kind # "call"
      BY <1>3, <1>4, <2>2, BatchShape
    <2> QED
      BY <2>1, <2>2
  <1>6. /\ work' = Without(i) \/ work' = [work EXCEPT ![i].patch = patch]
        /\ issued' = issued \cup news(patch)
    BY <1>1
  <1> HIDE DEF patch, turned, ws
  <1>7. QuotaGrounded(w.token, patch.quota, issued')
    <2> SUFFICES ASSUME NEW m \in Mode, patch.quota[m] \in Window
                 PROVE Grounded(w.token, m, patch.quota[m], issued')
      BY DEF QuotaGrounded
    <2>0. patch.quota[m] # Same
      BY RefreshMarkersAssumption
    <2>1. CASE patch.quota[m].source # "estimated"
      <3>1. <<w.token, m, patch.quota[m]>> \in issued'
        BY <1>6, <2>0, <2>1
      <3> QED
        BY <1>3, <3>1, Grounds
    <2>2. CASE /\ w.seen.quota[m] \in Window
               /\ patch.quota[m] = OneLess(w.seen.quota[m])
      <3>1. Grounded(w.token, m, w.seen.quota[m], issued)
        BY <1>3, <2>2 DEF SoundWork, QuotaGrounded
      <3>2. Grounded(w.token, m, w.seen.quota[m], issued')
        BY <3>1, <1>6 DEF Grounded
      <3> QED
        BY <1>3, <2>2, <3>2, Grounds
    <2> QED
      BY <1>5, <2>0, <2>1, <2>2 DEF PatchShape
  <1>8. issued \subseteq issued' /\ patch \in Patch
    BY <1>5, <1>6 DEF PatchShape
  <1>9. /\ WorkSound' /\ AllUnread'
        /\ DOMAIN work' \subseteq (1 .. started') \X Token
        /\ \A j \in DOMAIN work' : work'[j] \in Work
    <2>1. CASE work' = [work EXCEPT ![i].patch = patch]
      BY <1>2, <1>7, <1>8, <2>1, PatchReady
    <2>2. CASE work' = Without(i)
      BY <1>2, <1>8, <2>2, LessWork DEF Without
    <2> QED
      BY <1>6, <2>1, <2>2
  <1>10. RefreshTypeOK'
    BY <1>2, <1>9 DEF RefreshInv, RefreshTypeOK
  <1>11. RowsGrounded'
    BY <1>2, <1>8, MoreIssued DEF RefreshInv, RowsGrounded, Known
  <1> QED
    BY <1>2, <1>9, <1>10, <1>11 DEF RefreshInv, LockHeld, CountsExact,
                                    DeltasAdded, Known

LEMMA CommitInv ==
    ASSUME RefreshInv, NEW i \in DOMAIN work, Commit(i)
    PROVE  RefreshInv'
  <1> DEFINE w == work[i]
             t == w.token
  <1>1. /\ acct' = [acct EXCEPT ![t] = Patched(acct[t], w)]
        /\ tally' = [tally EXCEPT ![t] = Plus(tally[t], w.patch.counts)]
        /\ work' = Without(i) /\ w.patch # NoPatch
        /\ UNCHANGED <<now, tier, backend, job, started, odLock, odLast,
                       orders, faults, issued>>
    BY DEF Commit, Writing, world
  <1>2. SoundWork(w, acct, issued) /\ w \in Work /\ t \in Token
    BY DEF RefreshInv, WorkSound, SoundWork, Work
  <1>3. /\ acct[t] \in Account
        /\ backend # "redis" => acct[t].counts = tally[t] /\ w.base = Unread
        /\ tally[t] \in Counts /\ w.patch.counts \in Counts
        /\ tally \in [Token -> Counts]
        /\ \A u \in Token : acct[u] \in Account \cup {NoAccount}
        /\ QuotaGrounded(t, acct[t].quota, issued)
    BY <1>1, <1>2
    DEF RefreshInv, RefreshTypeOK, SoundWork, CountsExact, DeltasAdded, Known,
        Work, Patch, RowsGrounded, AllUnread
  <1> DEFINE new == Patched(acct[t], w)
  <1>4. /\ new \in Account
        /\ w.base = Unread
             => new.counts = Plus(acct[t].counts, w.patch.counts)
        /\ \A m \in Mode : new.quota[m] \in {acct[t].quota[m], NoWindow,
                                             w.patch.quota[m]}
    BY <1>1, <1>2, <1>3, PatchedRow
  <1> HIDE DEF w, t, new
  <1>5. \A u \in Token : IF u = t /\ u \in DOMAIN acct THEN acct'[u] = new
                         ELSE acct'[u] = acct[u]
    BY <1>1 DEF new
  <1>6. \A u \in Token : acct[u] # NoAccount => acct'[u] # NoAccount
    BY <1>4, <1>5, RefreshMarkersAssumption
  <1>7. /\ WorkSound' /\ AllUnread'
        /\ DOMAIN work' \subseteq (1 .. started') \X Token
        /\ \A j \in DOMAIN work' : work'[j] \in Work
    BY <1>1, <1>6, LessWork DEF Without
  <1>8. RefreshTypeOK'
    <2>1. tally' \in [Token -> Counts]
      BY <1>1, <1>3, PlusType
    <2>2. \A u \in Token : acct'[u] \in Account \cup {NoAccount}
      BY <1>3, <1>4, <1>5
    <2> QED
      BY <1>1, <1>7, <2>1, <2>2 DEF RefreshInv, RefreshTypeOK
  <1>9. CountsExact'
    <2> SUFFICES ASSUME backend # "redis", NEW u \in Token,
                        acct'[u] # NoAccount
                 PROVE acct'[u].counts = tally'[u]
      BY <1>1 DEF CountsExact, DeltasAdded, Known
    <2>1. CASE u = t /\ u \in DOMAIN acct
      <3>1. tally'[u] = Plus(tally[t], w.patch.counts)
        BY <1>1, <1>3, <2>1
      <3> QED
        BY <1>3, <1>4, <1>5, <2>1, <3>1
    <2>2. CASE u # t
      BY <1>1, <1>3, <1>5, <2>2 DEF RefreshInv, CountsExact, DeltasAdded, Known
    <2>3. t \in DOMAIN acct
      BY <1>2 DEF RefreshInv, RefreshTypeOK
    <2> QED
      BY <2>1, <2>2, <2>3
  <1>10. RowsGrounded'
    <2> SUFFICES ASSUME NEW u \in Token, acct'[u] # NoAccount,
                        NEW m \in Mode, acct'[u].quota[m] \in Window
                 PROVE Grounded(u, m, acct'[u].quota[m], issued')
      BY DEF RowsGrounded, Known, QuotaGrounded
    <2>1. CASE acct'[u] = acct[u]
      BY <1>1, <2>1 DEF RefreshInv, RowsGrounded, Known, QuotaGrounded
    <2>2. CASE u = t /\ acct'[u] = new
      <3>1. QuotaGrounded(t, w.patch.quota, issued)
        BY <1>1, <1>2 DEF SoundWork, t
      <3> QED
        BY <1>1, <1>3, <1>4, <2>2, <3>1, NoWindowAssumption
        DEF QuotaGrounded
    <2> QED
      BY <1>5, <2>1, <2>2
  <1> QED
    BY <1>1, <1>7, <1>8, <1>9, <1>10 DEF RefreshInv, LockHeld

LEMMA WorkInv ==
    ASSUME RefreshInv, NEW i \in DOMAIN work, WorkStep(i)
    PROVE  RefreshInv'
  <1>1. CASE Answer(i)
    BY <1>1, AnswerInv
  <1>2. CASE Commit(i)
    BY <1>2, CommitInv
  <1>3. CASE Reject(i)
    <2>1. /\ work' = [work EXCEPT ![i].patch = ExpirePatch]
          /\ UNCHANGED <<now, tier, backend, acct, job, started, odLock, odLast,
                         orders, faults, issued, tally>>
      BY <1>3 DEF Reject, world, history
    <2>2. /\ ExpirePatch \in Patch
          /\ QuotaGrounded(work[i].token, ExpirePatch.quota, issued')
      BY RefreshMarkersAssumption
      DEF ExpirePatch, NothingSet, Patch, NoCounts, Counts, QuotaGrounded
    <2> HIDE DEF ExpirePatch
    <2>3. /\ WorkSound' /\ AllUnread'
          /\ DOMAIN work' \subseteq (1 .. started') \X Token
          /\ \A j \in DOMAIN work' : work'[j] \in Work
      BY <2>1, <2>2, PatchReady
    <2>4. RefreshTypeOK'
      BY <2>1, <2>3 DEF RefreshInv, RefreshTypeOK
    <2> QED
      BY <2>1, <2>3, <2>4
      DEF RefreshInv, LockHeld, CountsExact, DeltasAdded, RowsGrounded, Known
  <1>4. CASE WriteFails(i)
    <2> DEFINE c == work[i].by
    <2>1. /\ faults' = faults + 1
          /\ UNCHANGED <<now, tier, backend, acct, started, odLast, orders,
                         issued, tally>>
          /\ \/ job' = job /\ odLock' = odLock
             \/ /\ job' = [job EXCEPT ![c] = "idle"]
                /\ odLock' = IF odLock = c THEN Nobody ELSE odLock
      BY <1>4 DEF WriteFails, Release, world, history
    <2>2. /\ DOMAIN work' \subseteq DOMAIN work
          /\ \A j \in DOMAIN work' :
                work'[j] = work[j] \/ work'[j] = [work[j] EXCEPT !.by = Nobody]
      BY <1>4 DEF WriteFails, Abandon, Without
    <2>3. /\ WorkSound' /\ AllUnread'
          /\ DOMAIN work' \subseteq (1 .. started') \X Token
          /\ \A j \in DOMAIN work' : work'[j] \in Work
      BY <2>1, <2>2, LessWork
    <2>4. RefreshTypeOK'
      BY <2>1, <2>3 DEF RefreshInv, RefreshTypeOK
    <2>5. LockHeld'
      BY <2>1 DEF RefreshInv, LockHeld, RefreshTypeOK
    <2> QED
      BY <2>1, <2>3, <2>4, <2>5
      DEF RefreshInv, CountsExact, DeltasAdded, RowsGrounded, Known
  <1>5. CASE ReadRow(i)
    <2>1. /\ work' = [work EXCEPT ![i].base = acct[work[i].token].counts]
          /\ backend = "redis"
          /\ UNCHANGED <<now, tier, backend, acct, job, started, odLock, odLast,
                         orders, faults, issued, tally>>
      BY <1>5 DEF ReadRow, world, history
    <2>2. DOMAIN work' = DOMAIN work
      BY <2>1
    <2>3. \A j \in DOMAIN work : SoundWork(work'[j], acct, issued)
      <3> SUFFICES ASSUME NEW j \in DOMAIN work
                   PROVE SoundWork(work'[j], acct, issued)
        OBVIOUS
      <3>1. /\ SoundWork(work[j], acct, issued) /\ work[j] \in Work
            /\ work[j].token \in Token
        BY DEF RefreshInv, WorkSound, SoundWork, Work
      <3>2. CASE j # i
        BY <2>1, <3>1, <3>2
      <3>3. CASE j = i
        <4> DEFINE n == acct[work[i].token].counts
        <4>1. n \in Counts
          BY <3>1, <3>3 DEF RefreshInv, RefreshTypeOK, SoundWork, Account
        <4>2. work'[j] = [work[j] EXCEPT !.base = n]
          BY <2>1, <3>3
        <4> HIDE DEF n
        <4>3. /\ work'[j] \in Work /\ work'[j].token = work[j].token
              /\ work'[j].kind = work[j].kind /\ work'[j].modes = work[j].modes
              /\ work'[j].seen = work[j].seen /\ work'[j].patch = work[j].patch
          BY <3>1, <4>1, <4>2 DEF Work
        <4> QED
          BY <3>1, <4>3 DEF SoundWork
      <3> QED
        BY <3>2, <3>3
    <2>4. WorkSound' /\ \A j \in DOMAIN work' : work'[j] \in Work
      BY <2>1, <2>2, <2>3 DEF WorkSound, SoundWork
    <2>5. RefreshTypeOK'
      BY <2>1, <2>2, <2>4 DEF RefreshInv, RefreshTypeOK
    <2>6. AllUnread'
      BY <2>1 DEF AllUnread
    <2> QED
      BY <2>1, <2>4, <2>5, <2>6
      DEF RefreshInv, LockHeld, CountsExact, DeltasAdded, RowsGrounded, Known
  <1> QED
    BY <1>1, <1>2, <1>3, <1>4, <1>5 DEF WorkStep
-----------------------------------------------------------------------------
(* The administrator and the clock.                                        *)

LEMMA RowReplaced ==
    ASSUME RefreshInv, NEW t \in Token, NEW row \in Account,
           NEW n \in Counts, backend # "redis" => row.counts = n,
           QuotaGrounded(t, row.quota, issued),
           acct' = [acct EXCEPT ![t] = row], tally' = [tally EXCEPT ![t] = n],
           orders' = orders + 1,
           UNCHANGED <<now, tier, backend, job, work, started, odLock, odLast,
                       faults, issued>>
    PROVE  RefreshInv'
  <1>0. /\ acct \in [Token -> Account \cup {NoAccount}]
        /\ tally \in [Token -> Counts] /\ NoAccount \notin Account
    BY RefreshMarkersAssumption DEF RefreshInv, RefreshTypeOK
  <1>1. /\ acct'[t] = row /\ tally'[t] = n
        /\ \A u \in Token \ {t} : acct'[u] = acct[u] /\ tally'[u] = tally[u]
        /\ acct' \in [Token -> Account \cup {NoAccount}]
        /\ tally' \in [Token -> Counts]
    BY <1>0
  <1>2. /\ WorkSound' /\ AllUnread'
        /\ DOMAIN work' \subseteq (1 .. started') \X Token
        /\ \A j \in DOMAIN work' : work'[j] \in Work
    BY <1>0, <1>1, LessWork
  <1>3. RefreshTypeOK'
    BY <1>1, <1>2 DEF RefreshInv, RefreshTypeOK
  <1>4. CountsExact'
    BY <1>0, <1>1 DEF RefreshInv, CountsExact, DeltasAdded, Known
  <1>5. RowsGrounded'
    BY <1>1 DEF RefreshInv, RowsGrounded, Known
  <1> QED
    BY <1>2, <1>3, <1>4, <1>5 DEF RefreshInv, LockHeld

LEMMA AdminInv ==
    ASSUME RefreshInv, NEW t \in Token, AdminStep(t)
    PROVE  RefreshInv'
  <1>0. /\ acct \in [Token -> Account \cup {NoAccount}]
        /\ tally \in [Token -> Counts] /\ tally = [tally EXCEPT ![t] = tally[t]]
        /\ tally[t] \in Counts
        /\ acct[t] # NoAccount =>
              /\ acct[t] \in Account
              /\ backend # "redis" => acct[t].counts = tally[t]
              /\ QuotaGrounded(t, acct[t].quota, issued)
    BY DEF RefreshInv, RefreshTypeOK, CountsExact, DeltasAdded, RowsGrounded,
           Known
  <1>1. ASSUME NEW p \in Named, Upsert(t, p)
        PROVE  RefreshInv'
    <2>1. /\ p \in Pool /\ orders' = orders + 1
          /\ UNCHANGED <<now, tier, backend, job, work, started, odLock, odLast,
                         faults, issued>>
      BY <1>1, InputsAssumption DEF Upsert, Order, world
    <2>2. CASE backend = "local" /\ Known(t)
      <3> DEFINE row == [acct[t] EXCEPT !.pool = p, !.status = "active",
                                        !.deleted = FALSE]
      <3>1. /\ acct' = [acct EXCEPT ![t] = row]
            /\ tally' = [tally EXCEPT ![t] = tally[t]]
        BY <1>0, <1>1, <2>2 DEF Upsert
      <3>2. /\ row \in Account /\ row.counts = acct[t].counts
            /\ row.quota = acct[t].quota
        BY <1>0, <2>1, <2>2 DEF Account, Status, Known
      <3> HIDE DEF row
      <3> QED
        BY <1>0, <2>1, <2>2, <3>1, <3>2, RowReplaced DEF Known
    <2>3. CASE ~(backend = "local" /\ Known(t))
      <3>1. /\ acct' = [acct EXCEPT ![t] = Fresh(p)]
            /\ tally' = [tally EXCEPT ![t] = NoCounts]
        BY <1>1, <2>3 DEF Upsert
      <3>2. NoCounts \in Counts
        BY DEF NoCounts, Counts
      <3> QED
        BY <2>1, <3>1, <3>2, FreshType, FreshGrounded, RowReplaced
    <2> QED
      BY <2>2, <2>3
  <1>2. CASE Disable(t)
    <2> DEFINE row == [acct[t] EXCEPT !.status = "disabled"]
    <2>1. /\ acct' = [acct EXCEPT ![t] = row] /\ acct[t] # NoAccount
          /\ tally' = [tally EXCEPT ![t] = tally[t]] /\ orders' = orders + 1
          /\ UNCHANGED <<now, tier, backend, job, work, started, odLock,
                         odLast, faults, issued>>
      BY <1>0, <1>2 DEF Disable, Known, Order, world, history
    <2>2. /\ row \in Account /\ row.counts = acct[t].counts
          /\ row.quota = acct[t].quota
      BY <1>0, <2>1 DEF Account, Status
    <2> HIDE DEF row
    <2> QED
      BY <1>0, <2>1, <2>2, RowReplaced
  <1>3. CASE Delete(t)
    <2> DEFINE row == [acct[t] EXCEPT !.deleted = TRUE]
    <2>1. /\ acct' = [acct EXCEPT ![t] = row] /\ acct[t] # NoAccount
          /\ tally' = [tally EXCEPT ![t] = tally[t]] /\ orders' = orders + 1
          /\ UNCHANGED <<now, tier, backend, job, work, started, odLock,
                         odLast, faults, issued>>
      BY <1>0, <1>3 DEF Delete, Known, Order, world, history
    <2>2. /\ row \in Account /\ row.counts = acct[t].counts
          /\ row.quota = acct[t].quota
      BY <1>0, <2>1 DEF Account
    <2> HIDE DEF row
    <2> QED
      BY <1>0, <2>1, <2>2, RowReplaced
  <1>4. CASE Restore(t)
    <2> DEFINE n == [tally[t] EXCEPT !.fail = 0]
               counts == [acct[t].counts EXCEPT !.fail = 0]
               row == [acct[t] EXCEPT !.status = "active", !.counts = counts]
    <2>1. /\ tally' = [tally EXCEPT ![t] = n] /\ acct[t] # NoAccount
          /\ orders' = orders + 1
          /\ UNCHANGED <<now, tier, backend, job, work, started, odLock,
                         odLast, faults, issued>>
      BY <1>4 DEF Restore, Known, Order, world
    <2>2. acct' = [acct EXCEPT ![t] = row]
      BY <1>0, <1>4, <2>1 DEF Restore, Account
    <2>3. /\ n \in Counts /\ counts \in Counts
          /\ backend # "redis" => counts = n
      BY <1>0, <2>1 DEF Counts, Account
    <2> HIDE DEF n, counts
    <2>4. row \in Account /\ row.counts = counts /\ row.quota = acct[t].quota
      BY <1>0, <2>1, <2>3 DEF Account, Status
    <2> HIDE DEF row
    <2> QED
      BY <1>0, <2>1, <2>2, <2>3, <2>4, RowReplaced
  <1> QED
    BY <1>1, <1>2, <1>3, <1>4 DEF AdminStep

LEMMA QuietInv ==
    ASSUME RefreshInv, Tick \/ UNCHANGED refreshVars
    PROVE  RefreshInv'
  <1>1. /\ now' \in Nat
        /\ UNCHANGED <<tier, backend, acct, job, work, started, odLock, odLast,
                       orders, faults, issued, tally>>
    BY DEF Tick, history, refreshVars, RefreshInv, RefreshTypeOK
  <1> QED
    BY <1>1
    DEF RefreshInv, RefreshTypeOK, CountsExact, DeltasAdded, LockHeld,
        WorkSound, RowsGrounded, AllUnread, Known

-----------------------------------------------------------------------------
(* The invariant: types, counters and lock, and with them that every       *)
(* window in the table, in what the work in progress has read and in what  *)
(* it is about to write is grounded.                                       *)
THEOREM RefreshInvariant == RefreshSpec => []RefreshInv
  <1>1. RefreshInit => RefreshInv
    <2> SUFFICES ASSUME RefreshInit PROVE RefreshInv
      OBVIOUS
    <2>1. \A t \in Token : acct[t] # NoAccount =>
             \E p \in Pool : acct[t] = Fresh(p)
      BY InputsAssumption DEF RefreshInit
    <2>2. \A p \in Pool : /\ Fresh(p) \in Account
                          /\ Fresh(p).counts = NoCounts
      BY FreshType
    <2>3. NoCounts \in Counts
      BY DEF NoCounts, Counts
    <2>4. work = [i \in {} |-> NoPatch] /\ DOMAIN work = {}
      BY DEF RefreshInit
    <2>5. RefreshTypeOK
      <3>1. acct \in [Token -> Account \cup {NoAccount}]
        BY <2>1, <2>2 DEF RefreshInit
      <3>2. tier \in [Token -> Pool]
        BY InputsAssumption DEF RefreshInit
      <3> QED
        BY <2>3, <2>4, <3>1, <3>2 DEF RefreshInit, RefreshTypeOK, Time
    <2>6. CountsExact
      BY <2>1, <2>2 DEF RefreshInit, CountsExact, DeltasAdded, Known
    <2>7. LockHeld /\ WorkSound
      BY <2>4 DEF RefreshInit, LockHeld, WorkSound
    <2>8. RowsGrounded
      BY <2>1, FreshGrounded DEF RowsGrounded, Known
    <2>9. AllUnread
      BY <2>4 DEF AllUnread
    <2> QED
      BY <2>5, <2>6, <2>7, <2>8, <2>9 DEF RefreshInv
  <1>2. RefreshInv /\ [RefreshNext]_refreshVars => RefreshInv'
    BY CallerInv, RequestInv, AdminInv, WorkInv, QuietInv DEF RefreshNext
  <1> QED
    BY <1>1, <1>2, PTL DEF RefreshSpec

-----------------------------------------------------------------------------
(* The types of the accounts, of the work in progress and of the patches.  *)
THEOREM RefreshTypeCorrect == RefreshSpec => []RefreshTypeOK
  BY RefreshInvariant, PTL DEF RefreshInv

(* With SQLite and the SQL servers the counters of an account are the sum  *)
(* of what was committed since they were last set to 0, for any number of  *)
(* writers that have read the same record (AccountPatch).  Redis loses     *)
(* counts and is left out by CountsExact.                                  *)
THEOREM CountersExact == RefreshSpec => []CountsExact
  BY RefreshInvariant, PTL DEF RefreshInv

(* Two callers never refresh on demand at the same time (_od_lock).        *)
THEOREM OnDemandIsSingle == RefreshSpec => []OneOnDemand
  <1>1. RefreshInv => OneOnDemand
    BY DEF RefreshInv, LockHeld, OneOnDemand
  <1> QED
    BY <1>1, RefreshInvariant, PTL

(* No window claims more than upstream has reported, the defaults promise  *)
(* or the clock has renewed, in whatever order refreshes, calls and        *)
(* failures that have read different versions of a row overwrite each      *)
(* other (_refresh_one, _apply_single_mode, record_failure_async).         *)
THEOREM WindowsGrounded == RefreshSpec => []EstimateBelowIssued
  <1>1. RefreshInv => EstimateBelowIssued
    <2> SUFFICES ASSUME RefreshInv, NEW t \in Token, Known(t), NEW m \in Mode,
                        acct[t].quota[m] # NoWindow
                 PROVE
          LET w == acct[t].quota[m]
              origins == issued \cup {<<t, m, DefaultQuota(p)[m]>> : p \in Pool}
          IN /\ w.source = "real" => <<t, m, w>> \in issued
             /\ w.source = "estimated" =>
                  \E o \in origins : /\ o[1] = t /\ o[2] = m
                                     /\ o[3] # NoWindow
                                     /\ o[3].synced = w.synced
                                     /\ o[3].total = w.total
                                     /\ w.left <= o[3].left
      BY DEF EstimateBelowIssued
    <2> DEFINE w == acct[t].quota[m]
               origins == issued \cup {<<t, m,
               DefaultQuota(p)[m]>> : p \in Pool}
    <2>1. w \in Window
      BY DEF RefreshInv, RefreshTypeOK, Known, Account, Quota
    <2>2. Grounded(t, m, w, issued)
      BY <2>1 DEF RefreshInv, RowsGrounded, QuotaGrounded
    <2>3. PICK o \in Window : /\ \/ <<t, m, o>> \in issued
                                 \/ \E p \in Pool : o = DefaultQuota(p)[m]
                              /\ o.synced = w.synced /\ o.total = w.total
                              /\ w.left <= o.left
      BY <2>2 DEF Grounded
    <2>4. <<t, m, o>> \in origins /\ o # NoWindow
      BY <2>3, NoWindowAssumption
    <2> HIDE DEF origins
    <2>5. \E x \in origins : /\ x[1] = t /\ x[2] = m /\ x[3] # NoWindow
                             /\ x[3].synced = w.synced
                             /\ x[3].total = w.total /\ w.left <= x[3].left
      <3> DEFINE x == <<t, m, o>>
      <3>1. x \in origins /\ x[1] = t /\ x[2] = m /\ x[3] = o
        BY <2>4
      <3> HIDE DEF x, w
      <3> QED
        BY <2>3, <2>4, <3>1
    <2>6. w.source = "real" => <<t, m, w>> \in issued
      BY <2>2 DEF Grounded
    <2> QED
      BY <2>5, <2>6 DEF origins
  <1> QED
    BY <1>1, RefreshInvariant, PTL

(* No step of a batch, of a request's update or of the clock makes an      *)
(* account usable that is deleted, disabled or expired; only orders of the *)
(* administrator do (patch_accounts).                                      *)
THEOREM NothingRevives == RefreshSpec => RefreshNeverRevives
  <1>1. ASSUME RefreshInv, RefreshNext, NEW t \in Token, Known(t),
               ~Manageable(t), Manageable(t)'
        PROVE  orders' # orders
    <2>0. orders \in Nat
      BY <1>1 DEF RefreshInv, RefreshTypeOK
    <2>1. acct' # acct
      BY <1>1 DEF Manageable, Known
    <2>2. ASSUME NEW i \in DOMAIN work, Commit(i)
          PROVE  FALSE
      <3> DEFINE w == work[i]
      <3>1. /\ acct' = [acct EXCEPT ![w.token] = Patched(acct[w.token], w)]
            /\ w.patch # NoPatch
        BY <2>2 DEF Commit, Writing
      <3>2. w \in Work /\ w.token \in Token /\ acct[w.token] # NoAccount
        BY <1>1 DEF RefreshInv, WorkSound, SoundWork, Work
      <3>3. /\ acct \in [Token -> Account \cup {NoAccount}]
            /\ acct[w.token] \in Account
        BY <1>1, <3>2 DEF RefreshInv, RefreshTypeOK
      <3> DEFINE new == Patched(acct[w.token], w)
      <3>4. /\ new.deleted = acct[w.token].deleted
            /\ new.status \in {acct[w.token].status, "expired"}
        BY <3>1, <3>2, <3>3, PatchedRow
      <3> HIDE DEF w, new
      <3>5. acct'[t] = acct[t] \/ (t = w.token /\ acct'[t] = new)
        BY <3>1, <3>3 DEF new
      <3> QED
        BY <1>1, <3>4, <3>5 DEF Manageable, Known
    <2>3. \A c \in Caller : CallerStep(c) => acct' = acct
      BY DEF CallerStep, StartBatch, OnDemand, EndBatch, Cancel
    <2>4. \A u \in Token : RequestStep(u) => acct' = acct
      BY DEF RequestStep, StartCall, StartFailure
    <2>5. \A i \in DOMAIN work : WorkStep(i) => Commit(i) \/ acct' = acct
      BY DEF WorkStep, Answer, Reject, ReadRow, WriteFails
    <2>6. \A u \in Token : AdminStep(u) => orders' = orders + 1
      BY DEF AdminStep, Upsert, Disable, Restore, Delete, Order
    <2>7. Tick => acct' = acct
      BY DEF Tick
    <2> QED
      BY <1>1, <2>0, <2>1, <2>2, <2>3, <2>4, <2>5, <2>6, <2>7 DEF RefreshNext
  <1>2. RefreshInv /\ [RefreshNext]_refreshVars
          => [\A t \in Token : Known(t) /\ ~Manageable(t) /\ Manageable(t)'
                                 => orders' # orders]_refreshVars
    BY <1>1
  <1> QED
    BY <1>2, RefreshInvariant, PTL DEF RefreshSpec, RefreshNeverRevives
=============================================================================
