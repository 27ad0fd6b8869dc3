--------------------------- MODULE AccountReplica ---------------------------
(***************************************************************************)
(* What the account repository and the per-worker runtime tables promise   *)
(* each other, without saying how the changes travel.                      *)
(*                                                                         *)
(* The repository stamps every write with a revision.  A worker's table    *)
(* carries a horizon (the revision it has synchronised to), and shows,     *)
(* for every account whose last change is at or below that horizon,        *)
(* exactly what the repository holds.  An account that changed after the   *)
(* horizon may be shown in any state.                                      *)
(***************************************************************************)
EXTENDS Integers

CONSTANTS Token, Worker, Content, Absent

VARIABLES revision,  \* the repository's revision counter
          row,       \* what the repository holds for each account
          changed,   \* the revision of each account's last write
          horizon,   \* the revision each worker has synchronised to
          view       \* what each worker's table shows for each account

vars == <<revision, row, changed, horizon, view>>

Init == /\ revision = 0
        /\ row = [t \in Token |-> Absent]
        /\ changed = [t \in Token |-> 0]
        /\ horizon = [w \in Worker |-> 0]
        /\ view = [w \in Worker |-> [t \in Token |-> Absent]]

(* A commit raises the revision and stamps every account it touches.       *)
Publish ==
    /\ revision' > revision
    /\ row' \in [Token -> Content \cup {Absent}]
    /\ changed' \in [Token -> Int]
    /\ \A t \in Token : \/ row'[t] = row[t] /\ changed'[t] = changed[t]
                        \/ changed'[t] > revision /\ changed'[t] <= revision'
    /\ UNCHANGED <<horizon, view>>

(* A worker moves its horizon forward, never past the repository, and      *)
(* afterwards shows every account that had last changed by then.           *)
Refresh(w) ==
    /\ horizon' = [horizon EXCEPT ![w] = horizon'[w]]
    /\ horizon'[w] >= horizon[w]
    /\ horizon'[w] <= revision
    /\ view' = [view EXCEPT ![w] = view'[w]]
    /\ view'[w] \in [Token -> Content \cup {Absent}]
    /\ \A t \in Token : changed[t] <= horizon'[w] => view'[w][t] = row[t]
    /\ UNCHANGED <<revision, row, changed>>

(* A worker process that restarts begins again from nothing.               *)
Forget(w) ==
    /\ horizon' = [horizon EXCEPT ![w] = 0]
    /\ view' = [view EXCEPT ![w] = [t \in Token |-> Absent]]
    /\ UNCHANGED <<revision, row, changed>>

Next == Publish \/ \E w \in Worker : Refresh(w) \/ Forget(w)

Spec == Init /\ [][Next]_vars

(* Below its horizon a worker shows what the repository holds.             *)
Consistent == \A w \in Worker, t \in Token :
                 changed[t] <= horizon[w] => view[w][t] = row[t]
=============================================================================
