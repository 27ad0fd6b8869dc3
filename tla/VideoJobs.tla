----------------------------- MODULE VideoJobs -----------------------------
(***************************************************************************)
(* Video jobs: a row per job in the database, a coroutine that runs it, an *)
(* in-memory timer that deletes it, and the recovery that every starting   *)
(* worker makes of the jobs it finds in progress.                          *)
(*                                                                         *)
(* A run keeps a copy of the row and writes all of it with every update;   *)
(* an update of a row that is gone changes nothing.  The finished video is *)
(* saved in the media cache under the name of its job; of the cache this   *)
(* module knows that a save leaves the file there, and that files go.      *)
(***************************************************************************)
EXTENDS Integers

CONSTANTS Job,         \* jobs
          VideoWorker, \* worker processes
          NoJob,       \* the row is not there yet
          Deleted,     \* the row has been deleted
          MaxRetries,  \* selection_max_retries
          MaxOutages,  \* bound on failures of the database
          MaxMishaps   \* bound on crashes, failing saves, files dropped

(* A worker runs a job because it has created or has recovered it.         *)
Run == VideoWorker \X {"created", "recovered"} \X Job
WorkerOf(r) == r[1]
JobOf(r) == r[3]

ASSUME VideoAssumption ==
    {MaxRetries, MaxOutages, MaxMishaps} \subseteq Nat

VARIABLES
    row,        \* the video_jobs table
    timers,     \* the pending _expire_video_job, with the worker they are in
    late,       \* jobs older than _VIDEO_JOB_TTL_S
    alive,      \* workers that run
    recovering, \* those whose recovery has not read the table yet
    run,        \* per run: its phase
    copy,       \* per run: its _VideoJob
    attempt,    \* per run: attempt
    saved,      \* jobs whose file is in the cache
    dropped,    \* history: jobs whose file was trimmed or deleted
    outages, mishaps  \* bounded counters

store == <<row, outages>>
hosts == <<timers, late, alive, recovering>>
shelf == <<saved, dropped, mishaps>>
videoVars == <<store, hosts, run, copy, attempt, shelf>>

Final == {"completed", "failed"}
Row == [status : {"queued", "in_progress"} \cup Final,
        path : BOOLEAN,   \* content_path is set
        error : BOOLEAN]  \* error is set
Phase == {"none", "starting", "generating", "saving", "marking",
          "measuring", "failing"}

ASSUME RowMarkersAssumption ==
    NoJob # Deleted /\ NoJob \notin Row /\ Deleted \notin Row

VideoTypeOK ==
    /\ row \in [Job -> Row \cup {NoJob, Deleted}]
    /\ timers \subseteq VideoWorker \X Job
    /\ late \subseteq Job
    /\ alive \subseteq VideoWorker /\ recovering \subseteq alive
    /\ run \in [Run -> Phase]
    /\ copy \in [Run -> Row]
    /\ attempt \in [Run -> 0 .. MaxRetries]
    /\ saved \subseteq Job /\ dropped \subseteq Job
    /\ {outages, mishaps} \subseteq Nat
    /\ \A r \in Run : run[r] # "none" => WorkerOf(r) \in alive

Queued == [status |-> "queued", path |-> FALSE, error |-> FALSE]

VideoInit ==
    /\ row = [j \in Job |-> NoJob]
    /\ timers = {} /\ late = {} /\ alive = {} /\ recovering = {}
    /\ run = [r \in Run |-> "none"]
    /\ copy = [r \in Run |-> Queued]
    /\ attempt = [r \in Run |-> 0]
    /\ saved = {} /\ dropped = {}
    /\ outages = 0 /\ mishaps = 0

-----------------------------------------------------------------------------
(* The job store.                                                          *)

Exists(j) == row[j] \in Row

(* A slip: a row that is gone is inserted again.                           *)
UpsertRow(j, c) == row' = [row EXCEPT ![j] = c]

(* update_job: UPDATE ... WHERE id = ?, all columns.                       *)
UpdateRow(j, c) == row' = [row EXCEPT ![j] = IF Exists(j) THEN c ELSE @]

(* The database fails.                                                     *)
Outage == outages < MaxOutages /\ outages' = outages + 1 /\ UNCHANGED row

Mishap == mishaps < MaxMishaps /\ mishaps' = mishaps + 1

-----------------------------------------------------------------------------
(* A run (_run_video_job).                                                 *)

Goes(r, phase) == run' = [run EXCEPT ![r] = phase]

(* What a run remembers is gone with it.                                   *)
Keeps(r, c, n) ==
    /\ copy' = [copy EXCEPT ![r] = IF run'[r] = "none" THEN Queued ELSE c]
    /\ attempt' = [attempt EXCEPT ![r] = IF run'[r] = "none" THEN 0 ELSE n]

(* The copy is updated, then the row; an error of the database leads       *)
(* elsewhere.                                                              *)
Writes(r, c, phase, otherwise) ==
    /\ \/ UpdateRow(JobOf(r), c) /\ Goes(r, phase) /\ UNCHANGED outages
       \/ Outage /\ Goes(r, otherwise)
    /\ Keeps(r, c, attempt[r])
    /\ UNCHANGED <<hosts, shelf>>

(* The first update.  When it fails the handler of the failure stumbles    *)
(* over attempt, which is not bound yet, and the run is over.              *)
StartRun(r) ==
    /\ run[r] = "starting"
    /\ Writes(r, [copy[r] EXCEPT !.status = "in_progress"], "generating", "none")

(* Upstream reports progress on a segment.                                 *)
Report(r) ==
    /\ run[r] = "generating"
    /\ Writes(r, [copy[r] EXCEPT !.status = "in_progress"],
              "generating", "failing")

(* A slip: the row is completed before the video is saved.                 *)
GeneratedUnsaved(r) ==
    /\ run[r] = "generating"
    /\ Goes(r, "marking")
    /\ UNCHANGED <<store, hosts, copy, attempt, shelf>>

(* All segments are there, downloaded and, if need be, upscaled.           *)
Generated(r) ==
    /\ run[r] = "generating"
    /\ Goes(r, "saving")
    /\ UNCHANGED <<store, hosts, copy, attempt, shelf>>

(* A slip: every error of upstream is tried again.                         *)
UpstreamFailsAgain(r) ==
    /\ run[r] = "generating"
    /\ attempt' = [attempt EXCEPT ![r] = @ + 1]
    /\ UNCHANGED <<store, hosts, run, copy, shelf>>

(* An error of upstream that is to be retried is, with another account; or *)
(* it is not, or there is no account.                                      *)
UpstreamFails(r) ==
    /\ run[r] = "generating"
    /\ \/ /\ attempt[r] < MaxRetries
          /\ attempt' = [attempt EXCEPT ![r] = @ + 1]
          /\ UNCHANGED run
       \/ Goes(r, "failing") /\ UNCHANGED attempt
    /\ UNCHANGED <<store, hosts, copy, shelf>>

(* save_local_video; an error of the cache's index leaves the file behind. *)
SaveVideo(r) ==
    /\ run[r] = "saving"
    /\ saved' = saved \cup {JobOf(r)}
    /\ \/ Goes(r, "marking") /\ UNCHANGED mishaps
       \/ Goes(r, "failing") /\ Mishap
    /\ UNCHANGED <<store, hosts, copy, attempt, dropped>>

Mark(r) ==
    /\ run[r] = "marking"
    /\ Writes(r, [copy[r] EXCEPT !.status = "completed", !.path = TRUE],
              "measuring", "failing")

(* path.stat(), for the log: the file may have been trimmed by now.        *)
Measure(r) ==
    /\ run[r] = "measuring"
    /\ Goes(r, IF JobOf(r) \in saved THEN "none" ELSE "failing")
    /\ Keeps(r, copy[r], attempt[r])
    /\ UNCHANGED <<store, hosts, shelf>>

(* The handler of all that has failed.                                     *)
FailRun(r) ==
    /\ run[r] = "failing"
    /\ Writes(r, [copy[r] EXCEPT !.status = "failed", !.error = TRUE],
              "none", "none")

-----------------------------------------------------------------------------
(* Workers.                                                                *)

(* create_video                                                            *)
CreateVideo(w, j) ==
    /\ w \in alive
    /\ row[j] = NoJob
    /\ row' = [row EXCEPT ![j] = Queued]
    /\ Goes(<<w, "created", j>>, "starting")
    /\ timers' = timers \cup {<<w, j>>}
    /\ UNCHANGED <<outages, late, alive, recovering, copy, attempt, shelf>>

GrowLate(j) ==
    /\ Exists(j) /\ j \notin late
    /\ late' = late \cup {j}
    /\ UNCHANGED <<store, timers, alive, recovering, run, copy, attempt,
                   shelf>>

(* _expire_video_job wakes up.                                             *)
Expire(w, j) ==
    /\ <<w, j>> \in timers /\ j \in late
    /\ timers' = timers \ {<<w, j>>}
    /\ \/ row' = [row EXCEPT ![j] = Deleted] /\ UNCHANGED outages
       \/ Outage
    /\ UNCHANGED <<late, alive, recovering, run, copy, attempt, shelf>>

StartWorker(w) ==
    /\ w \notin alive
    /\ alive' = alive \cup {w}
    /\ recovering' = recovering \cup {w}
    /\ UNCHANGED <<store, timers, late, run, copy, attempt, shelf>>

InProgress(j) == Exists(j) /\ row[j].status = "in_progress"

(* A slip: jobs that were never started are recovered instead.             *)
StuckQueued == {j \in Job \ late : Exists(j) /\ row[j].status = "queued"}

(* find_stuck_in_progress_jobs                                             *)
Stuck == {j \in Job \ late : InProgress(j)}

(* recover_in_progress_video_jobs; no matter who else runs the job.        *)
Recover(w) ==
    /\ w \in recovering
    /\ recovering' = recovering \ {w}
    /\ \/ LET S == {<<w, "recovered", j>> : j \in Stuck}
          IN /\ run' = [r \in Run |-> IF r \in S THEN "starting" ELSE run[r]]
             /\ copy' = [r \in Run |-> IF r \in S THEN row[JobOf(r)]
                                                  ELSE copy[r]]
             /\ UNCHANGED store
       \/ Outage /\ UNCHANGED <<run, copy>>
    /\ UNCHANGED <<timers, late, alive, attempt, shelf>>

(* The process ends, killed or not: a cancelled run does not write.        *)
CrashWorker(w) ==
    /\ w \in alive
    /\ Mishap
    /\ alive' = alive \ {w}
    /\ recovering' = recovering \ {w}
    /\ timers' = {t \in timers : t[1] # w}
    /\ run' = [r \in Run |-> IF WorkerOf(r) = w THEN "none" ELSE run[r]]
    /\ copy' = [r \in Run |-> IF WorkerOf(r) = w THEN Queued ELSE copy[r]]
    /\ attempt' = [r \in Run |-> IF WorkerOf(r) = w THEN 0 ELSE attempt[r]]
    /\ UNCHANGED <<store, late, saved, dropped>>

(* Another save trims the cache, or the administrator deletes the file.    *)
DropFile(j) ==
    /\ j \in saved
    /\ Mishap
    /\ saved' = saved \ {j}
    /\ dropped' = dropped \cup {j}
    /\ UNCHANGED <<store, hosts, run, copy, attempt>>

-----------------------------------------------------------------------------
(* What does not depend on a further report of upstream's.                 *)
Proceed(r) ==
    \/ StartRun(r) \/ Generated(r) \/ UpstreamFails(r) \/ SaveVideo(r)
    \/ Mark(r) \/ Measure(r) \/ FailRun(r)

VideoNext ==
    \/ \E r \in Run : Proceed(r) \/ Report(r)
    \/ \E w \in VideoWorker :
          \/ StartWorker(w) \/ Recover(w) \/ CrashWorker(w)
          \/ \E j \in Job : CreateVideo(w, j) \/ Expire(w, j)
    \/ \E j \in Job : GrowLate(j) \/ DropFile(j)

VideoSpec == VideoInit /\ [][VideoNext]_videoVars

(* Requests to upstream time out, and processes that end are started again. *)
VideoFairness ==
    /\ \A r \in Run : WF_videoVars(Proceed(r))
    /\ \A w \in VideoWorker : WF_videoVars(StartWorker(w) \/ Recover(w))

-----------------------------------------------------------------------------
(* Properties.                                                             *)

(* A row that has the path of its video, and so is served (content_path),  *)
(* got it after the video was saved: the file is there unless it has been  *)
(* trimmed or deleted, whichever of the runs of the job wrote the row and  *)
(* whatever died in between.                                               *)
CompletedHasFile ==
    \A j \in Job : Exists(j) /\ row[j].path => j \in saved \cup dropped

(* What a client is shown of a job, and the file of its video, obey the    *)
(* contract of VideoLifecycle, however many runs of the job write all the  *)
(* columns of its row from their own copies, after it has been recovered   *)
(* elsewhere or has expired (_set_job_status, update_job, content_path).   *)
Lifecycle == INSTANCE VideoLifecycle WITH stored <- saved \cup dropped

ImplementsLifecycle == Lifecycle!Spec

(* "Replaces the in-memory dict so video jobs survive restarts": a job in  *)
(* progress comes to an end, if need be in another process, unless it has  *)
(* grown too old to be recovered or the database has failed                *)
(* (recover_in_progress_video_jobs).                                       *)
InProgressSettles ==
    \A j \in Job : InProgress(j)
                     ~> (~InProgress(j) \/ j \in late \/ outages > 0)
=============================================================================
