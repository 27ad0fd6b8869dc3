------------------------------ MODULE BatchTask ------------------------------
(***************************************************************************)
(* One asynchronous batch operation of the admin API: a background task    *)
(* that runs a handler for every item with bounded concurrency, and the    *)
(* clients that follow its progress over server-sent events.               *)
(*                                                                         *)
(* Each client has a queue of its own; an event that finds a queue full is *)
(* dropped.  A client that hears nothing for 15 seconds asks for the final *)
(* event itself.  Nothing in the task awaits between changing its counters *)
(* and publishing them.                                                    *)
(***************************************************************************)
EXTENDS Integers, Sequences, FiniteSets

CONSTANTS Item,        \* the tokens of the batch
          Subscriber,  \* clients that may open the event stream
          Concurrency, \* slots of the semaphore
          QueueLimit   \* maxsize of a client's queue (200)

ASSUME BatchAssumption == /\ IsFiniteSet(Item)
                          /\ Concurrency \in Nat \ {0}
                          /\ QueueLimit \in Nat \ {0}

VARIABLES
    itemAt,    \* per item: where its coroutine is
    processed, \* items recorded
    outcome,   \* status
    cancelled, \* cancelled
    listed,    \* the task is in _TASKS
    place,     \* per client: where its stream is
    queue,     \* per client: its queue, while attached
    received   \* per client: the events sent to it

batchVars == <<itemAt, processed, outcome, cancelled, listed, place, queue,
               received>>

Terminal == {"done", "cancelled"}
Event == [type : {"snapshot", "progress"} \cup Terminal, processed : Nat]

BatchTypeOK ==
    /\ itemAt \in [Item -> {"new", "queued", "running", "done", "skipped"}]
    /\ processed \in Nat
    /\ outcome \in {"running"} \cup Terminal
    /\ cancelled \in BOOLEAN
    /\ listed \in BOOLEAN
    /\ place \in [Subscriber -> {"away", "checking", "looping", "ended"}]
    /\ queue \in [Subscriber -> Seq(Event)]
    /\ received \in [Subscriber -> Seq(Event)]

BatchInit ==
    /\ itemAt = [i \in Item |-> "new"]
    /\ processed = 0
    /\ outcome = "running"
    /\ cancelled = FALSE
    /\ listed = TRUE
    /\ place = [s \in Subscriber |-> "away"]
    /\ queue = [s \in Subscriber |-> <<>>]
    /\ received = [s \in Subscriber |-> <<>>]

task == <<itemAt, processed, outcome, cancelled, listed>>
clients == <<place, queue, received>>

-----------------------------------------------------------------------------
(* The background task.                                                    *)

Attached(s) == place[s] \in {"checking", "looping"}

(* _publish: a full queue drops the event.                                 *)
Publish(e) ==
    queue' = [s \in Subscriber |->
                IF Attached(s) /\ Len(queue[s]) < QueueLimit
                THEN Append(queue[s], e) ELSE queue[s]]

Taken == Cardinality({i \in Item : itemAt[i] = "running"})

(* A slip: no second look at the flag once the slot is there.              *)
GrantBlindly(i) ==
    /\ itemAt[i] \in {"new", "queued"}
    /\ IF itemAt[i] = "new" /\ cancelled
       THEN itemAt' = [itemAt EXCEPT ![i] = "skipped"]
       ELSE IF Taken < Concurrency
       THEN itemAt' = [itemAt EXCEPT ![i] = "running"]
       ELSE itemAt[i] = "new" /\ itemAt' = [itemAt EXCEPT ![i] = "queued"]
    /\ UNCHANGED <<processed, outcome, cancelled, listed, clients>>

(* _one: an item looks at the flag, waits for a slot if there is none, and *)
(* looks again when it has one.                                            *)
Grant(i) ==
    /\ itemAt[i] \in {"new", "queued"}
    /\ IF itemAt[i] = "new" /\ cancelled
       THEN itemAt' = [itemAt EXCEPT ![i] = "skipped"]
       ELSE IF Taken < Concurrency
       THEN itemAt' = [itemAt EXCEPT ![i] = IF cancelled THEN "skipped"
                                                         ELSE "running"]
       ELSE itemAt[i] = "new" /\ itemAt' = [itemAt EXCEPT ![i] = "queued"]
    /\ UNCHANGED <<processed, outcome, cancelled, listed, clients>>

(* The handler returns or raises; both are recorded (record).              *)
Record(i) ==
    /\ itemAt[i] = "running"
    /\ itemAt' = [itemAt EXCEPT ![i] = "done"]
    /\ processed' = processed + 1
    /\ Publish([type |-> "progress", processed |-> processed + 1])
    /\ UNCHANGED <<outcome, cancelled, listed, place, received>>

(* A slip: a cancelled task is finished like any other.                    *)
FinishAsDone ==
    /\ outcome = "running"
    /\ \A i \in Item : itemAt[i] \in {"done", "skipped"}
    /\ outcome' = "done"
    /\ Publish([type |-> "done", processed |-> processed])
    /\ UNCHANGED <<itemAt, processed, cancelled, listed, place, received>>

(* finish or finish_cancelled, when gather returns.                        *)
Finish ==
    /\ outcome = "running"
    /\ \A i \in Item : itemAt[i] \in {"done", "skipped"}
    /\ outcome' = IF cancelled THEN "cancelled" ELSE "done"
    /\ Publish([type |-> outcome', processed |-> processed])
    /\ UNCHANGED <<itemAt, processed, cancelled, listed, place, received>>

CancelTask ==
    /\ listed
    /\ cancelled' = TRUE
    /\ UNCHANGED <<itemAt, processed, outcome, listed, clients>>

(* expire_task, 300 seconds after the end.                                 *)
ExpireTask ==
    /\ outcome # "running"
    /\ listed' = FALSE
    /\ UNCHANGED <<itemAt, processed, outcome, cancelled, clients>>

-----------------------------------------------------------------------------
(* The event stream of one client (batch_stream).                          *)

Send(s, e) == received' = [received EXCEPT ![s] = Append(@, e)]

(* The queue is attached before the snapshot is taken.                     *)
Attach(s) ==
    /\ place[s] = "away"
    /\ listed
    /\ Send(s, [type |-> "snapshot", processed |-> processed])
    /\ place' = [place EXCEPT ![s] = "checking"]
    /\ UNCHANGED <<task, queue>>

Detach(s) == /\ place' = [place EXCEPT ![s] = "ended"]
             /\ queue' = [queue EXCEPT ![s] = <<>>]

(* A slip: the final event that was asked for does not end the stream.     *)
CheckFinalStays(s) ==
    /\ place[s] = "checking"
    /\ IF outcome # "running"
       THEN Send(s, [type |-> outcome, processed |-> processed])
       ELSE UNCHANGED received
    /\ place' = [place EXCEPT ![s] = "looping"]
    /\ UNCHANGED <<task, queue>>

(* After the snapshot, and after a ping: is there a final event?           *)
CheckFinal(s) ==
    /\ place[s] = "checking"
    /\ IF outcome # "running"
       THEN Send(s, [type |-> outcome, processed |-> processed]) /\ Detach(s)
       ELSE /\ place' = [place EXCEPT ![s] = "looping"]
            /\ UNCHANGED <<queue, received>>
    /\ UNCHANGED task

Receive(s) ==
    /\ place[s] = "looping"
    /\ queue[s] # <<>>
    /\ Send(s, Head(queue[s]))
    /\ IF Head(queue[s]).type \in Terminal
       THEN Detach(s)
       ELSE /\ queue' = [queue EXCEPT ![s] = Tail(@)]
            /\ UNCHANGED place
    /\ UNCHANGED task

(* A slip: a ping is all that a quiet stream sends.                        *)
PingOnly(s) == FALSE

(* 15 seconds without an event.                                            *)
Ping(s) ==
    /\ place[s] = "looping"
    /\ queue[s] = <<>>
    /\ place' = [place EXCEPT ![s] = "checking"]
    /\ UNCHANGED <<task, queue, received>>

(* The client disconnects.                                                 *)
Leave(s) ==
    /\ Attached(s)
    /\ Detach(s)
    /\ UNCHANGED <<task, received>>

-----------------------------------------------------------------------------
BatchNext ==
    \/ \E i \in Item : Grant(i) \/ Record(i)
    \/ Finish \/ CancelTask \/ ExpireTask
    \/ \E s \in Subscriber :
          Attach(s) \/ CheckFinal(s) \/ Receive(s) \/ Ping(s) \/ Leave(s)

BatchSpec == BatchInit /\ [][BatchNext]_batchVars

(* Handlers end (their upstream calls time out) and coroutines proceed.    *)
TaskStep(i) == Grant(i) \/ Record(i)
StreamStep(s) == CheckFinal(s) \/ Receive(s) \/ Ping(s)

BatchFairness == /\ \A i \in Item : WF_batchVars(TaskStep(i))
                 /\ WF_batchVars(Finish)
                 /\ \A s \in Subscriber : WF_batchVars(StreamStep(s))

-----------------------------------------------------------------------------
(* Properties.                                                             *)

(* "Re-check after acquiring slot: cancel may have been set while this     *)
(* coroutine was waiting" (_one): no handler starts after a cancellation.  *)
CancelStops ==
    [][cancelled => \A i \in Item : itemAt'[i] = "running"
                                      => itemAt[i] = "running"]_batchVars

(* A task that reports "done" has worked on every item, and its counters   *)
(* say so; items are left out only of a task that reports its cancellation *)
(* (finish, finish_cancelled).                                             *)
DoneMeansAll ==
    outcome = "done" => /\ \A i \in Item : itemAt[i] = "done"
                        /\ processed = Cardinality(Item)

(* What one client sees is a run of the task: progress only ever grows,    *)
(* starting from the snapshot, nothing is shown twice, and there is at     *)
(* most one final event, the last, though events are dropped and the final *)
(* event comes by two ways (batch_stream).                                 *)
EventsOrdered ==
    \A s \in Subscriber : \A j \in 2 .. Len(received[s]) :
       LET e == received[s][j - 1] f == received[s][j]
       IN /\ e.type \notin Terminal
          /\ IF f.type \in Terminal THEN f.processed >= e.processed
             ELSE f.type = "progress" /\ f.processed > e.processed

(* Every client that stays learns how the task ended, also one whose full  *)
(* queue has dropped the final event (batch_stream, the ping branch).      *)
EveryClientEnds ==
    \A s \in Subscriber : Attached(s) ~> place[s] = "ended"
=============================================================================
