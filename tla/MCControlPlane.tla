--------------------------- MODULE MCControlPlane ---------------------------
(***************************************************************************)
(* Two components beside the request path, checked side by side: the       *)
(* workers' configuration and leader lock, and the refresh service of one  *)
(* worker.  They share no variable.  The component in focus, chosen once,  *)
(* takes all the steps and the other stays where it began.                 *)
(***************************************************************************)
EXTENDS ClusterRuntime, AccountRefresh

VARIABLE focus

MCLimit ==
    [p \in Pool |-> [m \in AllModes |->
        CASE p = "basic" -> IF m = "fast" THEN 1 ELSE 0
          [] p = "super" -> 2
          [] OTHER -> 3]]

ControlInit ==
    /\ focus \in {"cluster", "refresh"}
    /\ ClusterInit /\ (focus # "cluster" => stored)
    /\ RefreshInit
    /\ focus # "refresh" => /\ \A t \in Token : ~Known(t)
                            /\ backend = CHOOSE b \in Backends : TRUE

(* The clock matters to windows and to the throttle, not to repositories:  *)
(* it moves with one of them only.                                         *)
ControlNext ==
    /\ UNCHANGED focus
    /\ \/ /\ focus = "cluster"
          /\ ClusterNext /\ UNCHANGED refreshVars
       \/ /\ focus = "refresh"
          /\ RefreshNext /\ UNCHANGED clusterVars
          /\ backend # "local" => UNCHANGED now

(* At rest no step that is asked to be fair is enabled in either component. *)
ControlSpec ==
    /\ ControlInit
    /\ [][ControlNext]_<<clusterVars, refreshVars, focus>>
    /\ ClusterFairness
    /\ RefreshFairness
=============================================================================
