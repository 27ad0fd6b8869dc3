----------------------------- MODULE MCProducts -----------------------------
(***************************************************************************)
(* Four components beside the account pool, checked side by side: a batch  *)
(* task and its event streams, the media cache, the video jobs, and the    *)
(* streaming interfaces.  They share no variable.  The component in focus, *)
(* chosen once, takes all the steps and the others stay where they began.  *)
(***************************************************************************)
EXTENDS BatchTask, MediaCache, VideoJobs, Streams

VARIABLE focus

productVars == <<batchVars, cacheVars, videoVars, streamVars, focus>>

MCBytes == [n \in FileName |-> 2]

ProductsInit ==
    /\ focus \in {"batch", "cache", "video", "streams"}
    /\ BatchInit /\ VideoInit
    /\ CacheInit /\ (focus # "cache" => limit = 0)
    /\ StreamsInit /\ (focus # "streams" => api = "chat" /\ ~tools)

ProductsNext ==
    /\ UNCHANGED focus
    /\ \/ focus = "batch" /\ BatchNext
          /\ UNCHANGED <<cacheVars, videoVars, streamVars>>
       \/ focus = "cache" /\ CacheNext
          /\ UNCHANGED <<batchVars, videoVars, streamVars>>
       \/ focus = "video" /\ VideoNext
          /\ UNCHANGED <<batchVars, cacheVars, streamVars>>
       \/ focus = "streams" /\ StreamsNext
          /\ UNCHANGED <<batchVars, cacheVars, videoVars>>

(* BatchFairness and VideoFairness, of the component in focus: some of     *)
(* their steps are enabled where the component began.                      *)
ProductsFairness ==
    /\ \A i \in Item : WF_batchVars(focus = "batch" /\ TaskStep(i))
    /\ WF_batchVars(focus = "batch" /\ Finish)
    /\ \A s \in Subscriber : WF_batchVars(StreamStep(s))
    /\ \A r \in Run : WF_videoVars(Proceed(r))
    /\ \A w \in VideoWorker :
          WF_videoVars(focus = "video" /\ (StartWorker(w) \/ Recover(w)))

ProductsSpec ==
    ProductsInit /\ [][ProductsNext]_productVars /\ ProductsFairness
=============================================================================
