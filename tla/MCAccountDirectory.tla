------------------------ MODULE MCAccountDirectory ------------------------
(* A small worker: two accounts or two concurrent requests, two pools and  *)
(* the modes auto and fast.                                                *)
EXTENDS AccountDirectory, TLC
CONSTANTS t1, t2, r1, r2   \* accounts and requests

Per(a, f) == [m \in Mode |-> IF m = "auto" THEN a ELSE f]

(* A basic account (fast only) with one query left in a window that ends   *)
(* at time 1; a super account with one auto query left and no fast one; an *)
(* account that is not active.                                             *)
MCRecord == {
    [pool |-> "basic", status |-> "active", quota |-> Per(0, 1),
     total |-> Per(0, 1), window |-> Per(0, 1), reset |-> Per(0, 1)],
    [pool |-> "super", status |-> "active", quota |-> Per(1, 0),
     total |-> Per(1, 1), window |-> Per(2, 2), reset |-> Per(0, 0)],
    [pool |-> "super", status |-> "disabled", quota |-> Per(1, 1),
     total |-> Per(1, 1), window |-> Per(2, 2), reset |-> Per(0, 0)]}

Chat == [pools |-> <<"basic", "super">>, modes |-> <<"auto", "fast">>,
         any |-> FALSE, refreshes |-> TRUE, retries |-> TRUE, eager |-> FALSE]
Images == [pools |-> <<"super">>, modes |-> <<"auto">>,
           any |-> TRUE, refreshes |-> FALSE, retries |-> FALSE, eager |-> TRUE]
Edit == [pools |-> <<"super", "basic">>, modes |-> <<"fast">>,
         any |-> FALSE, refreshes |-> FALSE, retries |-> FALSE, eager |-> TRUE]

MCPlan == {Chat, Images, Edit}
MCChatOnly == {Chat}

(* The active ones, with one fast query left in either pool; the window of *)
(* the basic one ends at time 1, that of the other is not known.           *)
MCActive == {[a EXCEPT !.quota = Per(0, 1)] :
                a \in {b \in MCRecord : b.status = "active"}}
MCOneSecond == [p \in Pool |-> 1]
MCCooling == [p \in Pool |-> IF p = "basic" THEN 1 ELSE 2]
MCSymmetry == Permutations({r1, r2})
=============================================================================
