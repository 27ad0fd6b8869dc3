---------------------------- MODULE QuotaPolicy ----------------------------
(***************************************************************************)
(* Quota windows and the rules every writer of them shares: which modes a  *)
(* pool supports, the window an account starts with, the pool that live    *)
(* windows point to, and the estimates made when upstream says nothing.    *)
(*                                                                         *)
(* All windows last Span ticks of the clock.                               *)
(***************************************************************************)
EXTENDS Integers

CONSTANTS Mode,     \* the modes in use, some of AllModes
          Limit,    \* the default totals: pool -> mode -> number
          Span,     \* length of a window
          NoWindow, \* the account has no window for the mode
          Never     \* no timestamp

AllModes == {"auto", "fast", "expert", "heavy", "grok_4_3"}
Pool     == {"basic", "super", "heavy"}
Source   == {"default", "real", "estimated"}

ASSUME ModeAssumption == Mode \subseteq AllModes
ASSUME LimitAssumption == Limit \in [Pool -> [AllModes -> Nat]]
ASSUME SpanAssumption == Span \in Nat \ {0}
ASSUME QuotaMarkersAssumption == Never \notin Nat

Time == Nat \cup {Never}

Window == [left : Nat, total : Nat, reset : Time, synced : Time,
           source : Source]

ASSUME NoWindowAssumption == NoWindow \notin Window

Quota == [Mode -> Window \cup {NoWindow}]

(* _SUPPORTED_MODE_IDS_BY_POOL                                             *)
Supported(pool) ==
    Mode \cap CASE pool = "basic" -> {"fast"}
                [] pool = "super" -> AllModes \ {"heavy"}
                [] OTHER -> AllModes

Untouched(n) == [left |-> n, total |-> n, reset |-> Never, synced |-> Never,
                 source |-> "default"]

(* default_quota_set: auto, fast and expert always have a window, of no    *)
(* queries where the pool does not support the mode.                       *)
DefaultQuota(pool) ==
    [m \in Mode |-> IF m \in Supported(pool) THEN Untouched(Limit[pool][m])
                    ELSE IF m \in {"heavy", "grok_4_3"} THEN NoWindow
                    ELSE Untouched(0)]

(* A window as upstream reports it (_to_quota_window).                     *)
Reported(n, total, clock) ==
    [left |-> n, total |-> total, reset |-> clock + Span, synced |-> clock,
     source |-> "real"]

(* normalize_quota_window of a supported mode: the fast window of a basic  *)
(* account is capped by the product's own limit.                           *)
Normalize(pool, m, w) ==
    IF pool = "basic" /\ m = "fast"
    THEN LET cap == Limit["basic"]["fast"]
         IN [w EXCEPT !.left = IF @ > cap THEN cap ELSE @, !.total = cap]
    ELSE w

(* infer_pool: auto.total tells the pools apart; without it, basic.        *)
InferPool(windows) ==
    IF "auto" \notin DOMAIN windows THEN "basic"
    ELSE LET alike == {p \in {"super", "heavy"} :
                         Limit[p]["auto"] = windows["auto"].total}
         IN IF alike = {} THEN "basic" ELSE CHOOSE p \in alike : TRUE

Expired(w, clock) == w.reset # Never /\ clock >= w.reset

(* A slip: below nothing.                                                  *)
OneLessUnguarded(w) == [w EXCEPT !.left = @ - 1, !.source = "estimated"]

(* One query spent that upstream has not confirmed.                        *)
OneLess(w) == [w EXCEPT !.left = IF @ > 0 THEN @ - 1 ELSE 0,
                        !.source = "estimated"]

(* A window whose time is over starts again, on the clock of this process. *)
Renewed(pool, m, clock) ==
    [left |-> Limit[pool][m], total |-> Limit[pool][m],
     reset |-> clock + Span, synced |-> clock, source |-> "default"]

(* The modes that a refresh rewrites without a report (_apply_fallback,    *)
(* and the elif of _refresh_one), and what it makes of them.               *)
NeedsFallback(pool, quota, m, clock) ==
    /\ quota[m] # NoWindow
    /\ \/ quota[m].source = "real"
       \/ Expired(quota[m], clock) /\ m \in Supported(pool)

Fallback(pool, quota, m, clock) ==
    IF quota[m].source = "real" THEN OneLess(quota[m])
                                ELSE Renewed(pool, m, clock)

(* A rate-limited window (record_failure_async): empty until its reset     *)
(* time, or for one more window when that is unknown or past.              *)
Drained(w, clock) ==
    [w EXCEPT !.left = 0, !.source = "estimated",
              !.reset = IF @ # Never /\ @ > clock THEN @ ELSE clock + Span]
=============================================================================
