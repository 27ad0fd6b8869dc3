--------------------------- MODULE VideoLifecycle ---------------------------
(***************************************************************************)
(* What a client that polls a video job may see, without saying who works  *)
(* on the job.                                                             *)
(*                                                                         *)
(* A job is queued, then begun: in progress, completed or failed.  A begun *)
(* job may be worked on again, but is never queued again.  What is shown   *)
(* of it goes together: a completed job has its video and no error, a      *)
(* failed one its error, one in progress neither.  A job is shown with a   *)
(* video only once the video has been stored.  A deleted job stays so.     *)
(***************************************************************************)
CONSTANTS Job,
          NoJob,   \* not there yet
          Deleted  \* not there any more

VARIABLES row,    \* what is shown of a job
          stored  \* jobs whose video has been stored, trimmed since or not

vars == <<row, stored>>

Queued == [status |-> "queued", path |-> FALSE, error |-> FALSE]
InProgress == [status |-> "in_progress", path |-> FALSE, error |-> FALSE]
Completed == [status |-> "completed", path |-> TRUE, error |-> FALSE]
Failed == [status : {"failed"}, path : BOOLEAN, error : {TRUE}]

Begun == {InProgress, Completed} \cup Failed

Init == row = [j \in Job |-> NoJob] /\ stored = {}

Shows(j, r) == row' = [row EXCEPT ![j] = r] /\ UNCHANGED stored

Submit(j) == row[j] = NoJob /\ Shows(j, Queued)

Progress(j) == row[j] \in Begun \cup {Queued} /\ Shows(j, InProgress)

(* The work on a deleted job may go on.                                    *)
Store(j) ==
    /\ row[j] \in Begun \cup {Deleted}
    /\ stored' = stored \cup {j}
    /\ UNCHANGED row

Complete(j) == row[j] \in Begun /\ j \in stored /\ Shows(j, Completed)

Fail(j) ==
    /\ row[j] \in Begun
    /\ \E r \in Failed : (r.path => j \in stored) /\ Shows(j, r)

Delete(j) == row[j] # NoJob /\ Shows(j, Deleted)

Next == \E j \in Job : \/ Submit(j) \/ Progress(j) \/ Store(j)
                       \/ Complete(j) \/ Fail(j) \/ Delete(j)

Spec == Init /\ [][Next]_vars
=============================================================================
