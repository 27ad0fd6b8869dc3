----------------------------- MODULE JobsProofs -----------------------------
(***************************************************************************)
(* What is proved of the two kinds of work that outlive a request.         *)
(*                                                                         *)
(* A batch task finishes as "done" only when all its work is done, starts  *)
(* nothing after a cancellation, and shows every client an ordered run of  *)
(* events, for every set of items and clients and every limit.             *)
(*                                                                         *)
(* A video job that is complete has its file, what is shown of a job obeys *)
(* the contract of VideoLifecycle, for any number of jobs, workers and     *)
(* runs, and a job that is run once at a time stays finished.              *)
(***************************************************************************)
EXTENDS BatchTask, VideoJobs, FiniteSetTheorems, SequenceTheorems, TLAPS

-----------------------------------------------------------------------------
(* Batch tasks.                                                            *)

Recorded == {i \in Item : itemAt[i] = "done"}

(* What the counter and the outcome say of the items.                      *)
CountInv ==
    /\ processed = Cardinality(Recorded)
    /\ \A i \in Item : itemAt[i] = "skipped" => cancelled
    /\ outcome # "running" => \A i \in Item : itemAt[i] \in {"done", "skipped"}
    /\ outcome = "done" => Recorded = Item

(* f may follow e in what a client is sent.                                *)
Follows(e, f) ==
    /\ e.type \notin Terminal
    /\ IF f.type \in Terminal THEN f.processed >= e.processed
       ELSE f.type = "progress" /\ f.processed > e.processed

(* What a client has been sent and what waits for it, in one sequence.     *)
Line(s) == received[s] \o queue[s]

Chain(l) == \A j \in 2 .. Len(l) : Follows(l[j - 1], l[j])

LineInv(s) ==
    /\ Chain(Line(s))
    /\ \A j \in 1 .. Len(Line(s)) :
          /\ Line(s)[j].processed <= processed
          /\ outcome = "running" => Line(s)[j].type \notin Terminal
    /\ Attached(s) => \A j \in 1 .. Len(received[s]) :
                         received[s][j].type \notin Terminal
    /\ place[s] = "away" => received[s] = <<>>
    /\ ~Attached(s) => queue[s] = <<>>

BatchInv == BatchTypeOK /\ CountInv /\ \A s \in Subscriber : LineInv(s)

-----------------------------------------------------------------------------
(* Sequences of events.                                                    *)

LEMMA ChainAppend ==
    ASSUME NEW l \in Seq(Event), NEW e \in Event, Chain(l),
           Len(l) > 0 => Follows(l[Len(l)], e)
    PROVE  Chain(Append(l, e))
BY DEF Chain

LEMMA ChainPrefix ==
    ASSUME NEW r \in Seq(Event), NEW q \in Seq(Event), Chain(r \o q)
    PROVE  Chain(r)
<1> SUFFICES ASSUME NEW j \in 2 .. Len(r) PROVE Follows(r[j - 1], r[j])
  BY DEF Chain
<1>1. /\ j \in 2 .. Len(r \o q)
      /\ (r \o q)[j - 1] = r[j - 1]
      /\ (r \o q)[j] = r[j]
  OBVIOUS
<1> QED BY <1>1 DEF Chain

LEMMA AppendParts ==
    ASSUME NEW l \in Seq(Event), NEW e \in Event
    PROVE  /\ Len(l) \in Nat /\ Len(Append(l, e)) = Len(l) + 1
           /\ \A k \in 1 .. Len(l) : Append(l, e)[k] = l[k]
           /\ Append(l, e)[Len(l) + 1] = e
BY LenProperties, AppendProperties

(* Moving the head of the queue to the sent events changes nothing.        *)
LEMMA ShiftLine ==
    ASSUME NEW r \in Seq(Event), NEW q \in Seq(Event), q # <<>>
    PROVE  /\ Len(Append(r, Head(q)) \o Tail(q)) = Len(r \o q)
           /\ \A j \in 1 .. Len(r \o q) :
                 (Append(r, Head(q)) \o Tail(q))[j] = (r \o q)[j]
<1>1. Append(r, Head(q)) \in Seq(Event) /\ Tail(q) \in Seq(Event)
  OBVIOUS
<1> QED BY <1>1

(* Appending to the queue is appending to the line.                        *)
LEMMA GrowLine ==
    ASSUME NEW r \in Seq(Event), NEW q \in Seq(Event), NEW e \in Event
    PROVE  /\ Len(r \o Append(q, e)) = Len(r \o q) + 1
           /\ (r \o Append(q, e))[Len(r \o q) + 1] = e
           /\ \A j \in 1 .. Len(r \o q) : (r \o Append(q, e))[j] = (r \o q)[j]
<1>1. Append(q, e) \in Seq(Event)
  OBVIOUS
<1> QED BY <1>1

LEMMA LineType == BatchTypeOK => \A s \in Subscriber : Line(s) \in Seq(Event)
BY DEF BatchTypeOK, Line

LEMMA InFront ==
    ASSUME NEW m \in Nat, NEW n \in Nat
    PROVE  m + n \in Nat /\ \A j \in 1 .. m : j \in 1 .. m + n /\ j <= m
OBVIOUS

(* What has been sent is the front of the line.                            *)
LEMMA LineParts ==
    ASSUME BatchTypeOK, NEW s \in Subscriber
    PROVE  /\ Len(received[s]) \in Nat
           /\ Len(Line(s)) \in Nat
           /\ \A j \in 1 .. Len(received[s]) :
                 j \in 1 .. Len(Line(s)) /\ Line(s)[j] = received[s][j]
<1>1. received[s] \in Seq(Event) /\ queue[s] \in Seq(Event)
  BY DEF BatchTypeOK
<1>2. Len(received[s]) \in Nat /\ Len(queue[s]) \in Nat
  BY <1>1, LenProperties
<1>3. /\ Len(Line(s)) = Len(received[s]) + Len(queue[s])
      /\ \A j \in 1 .. Len(received[s]) + Len(queue[s]) :
            Line(s)[j] = IF j <= Len(received[s]) THEN received[s][j]
                         ELSE queue[s][j - Len(received[s])]
  BY <1>1, ConcatProperties, Zenon DEF Line
<1>4. /\ Len(received[s]) + Len(queue[s]) \in Nat
      /\ \A j \in 1 .. Len(received[s]) :
            /\ j \in 1 .. Len(received[s]) + Len(queue[s])
            /\ j <= Len(received[s])
  BY <1>2, InFront, Zenon
<1> QED BY <1>2, <1>3, <1>4, Zenon

-----------------------------------------------------------------------------
LEMMA BatchInitially == BatchInit => BatchInv
<1> SUFFICES ASSUME BatchInit PROVE BatchInv
  OBVIOUS
<1>1. BatchTypeOK
  <2>1. <<>> \in Seq(Event)
    BY EmptySeq
  <2>2. queue \in [Subscriber -> Seq(Event)]
    BY <2>1, Zenon DEF BatchInit
  <2>3. received \in [Subscriber -> Seq(Event)]
    BY <2>1, Zenon DEF BatchInit
  <2> QED BY <2>2, <2>3 DEF BatchInit, BatchTypeOK
<1>2. Recorded = {}
  BY DEF BatchInit, Recorded
<1>3. CountInv
  BY <1>2, FS_EmptySet DEF BatchInit, CountInv
<1>4. ASSUME NEW s \in Subscriber PROVE LineInv(s)
  <2>1. received[s] = <<>> /\ queue[s] = <<>> /\ place[s] = "away"
    BY DEF BatchInit
  <2>2. Len(Line(s)) = 0
    BY <2>1 DEF Line
  <2> QED BY <2>1, <2>2 DEF LineInv, Chain, Attached
<1> QED BY <1>1, <1>3, <1>4 DEF BatchInv

(* The task's steps: what is published.                                    *)
LEMMA PublishKeeps ==
    ASSUME BatchTypeOK, NEW e \in Event, Publish(e),
           UNCHANGED <<place, received>>, NEW s \in Subscriber,
           LineInv(s), outcome = "running",
           processed' \in Nat, processed <= processed',
           e.processed = processed', e.type # "snapshot",
           e.type = "progress" => processed < processed',
           e.type \in Terminal => outcome' # "running"
    PROVE  LineInv(s)' /\ queue'[s] \in Seq(Event)
<1>1. CASE Attached(s) /\ Len(queue[s]) < QueueLimit
  <2>1. queue'[s] = Append(queue[s], e)
    BY <1>1 DEF Publish
  <2>2. received[s] \in Seq(Event) /\ queue[s] \in Seq(Event)
    BY DEF BatchTypeOK
  <2>3. /\ Len(Line(s)') = Len(Line(s)) + 1
        /\ Line(s)'[Len(Line(s)) + 1] = e
        /\ \A j \in 1 .. Len(Line(s)) : Line(s)'[j] = Line(s)[j]
        /\ Len(Line(s)) \in Nat
    <3>1. /\ Line(s) = received[s] \o queue[s]
          /\ Line(s)' = received[s] \o Append(queue[s], e)
      BY <2>1, Zenon DEF Line
    <3>2. Len(Line(s)) \in Nat
      BY LineParts
    <3>3. /\ Len(received[s] \o Append(queue[s], e))
               = Len(received[s] \o queue[s]) + 1
          /\ (received[s] \o Append(queue[s], e))
                 [Len(received[s] \o queue[s]) + 1] = e
          /\ \A j \in 1 .. Len(received[s] \o queue[s]) :
                (received[s] \o Append(queue[s], e))[j]
                  = (received[s] \o queue[s])[j]
      BY <2>2, GrowLine, Zenon
    <3> QED BY <3>1, <3>2, <3>3, Zenon
  <2>4. ASSUME NEW j \in 1 .. Len(Line(s))
        PROVE  /\ Line(s)[j] \in Event
               /\ Line(s)[j].processed <= processed
               /\ Line(s)[j].type \notin Terminal
    BY LineType DEF LineInv
  <2>5. Len(Line(s)) > 0 => Follows(Line(s)[Len(Line(s))], e)
    BY <2>3, <2>4 DEF Follows, Event, BatchTypeOK, Terminal
  <2>6. Chain(Line(s)')
    BY <2>3, <2>5 DEF Chain, LineInv
  <2>7. ASSUME NEW j \in 1 .. Len(Line(s)')
        PROVE  /\ Line(s)'[j].processed <= processed'
               /\ outcome' = "running" => Line(s)'[j].type \notin Terminal
    <3>1. CASE j \in 1 .. Len(Line(s))
      <4>1. Line(s)[j].processed \in Nat /\ processed \in Nat
        BY <2>4, <3>1 DEF Event, BatchTypeOK
      <4> QED BY <2>3, <2>4, <3>1, <4>1
    <3>2. CASE j = Len(Line(s)) + 1
      BY <2>3, <3>2
    <3> QED BY <2>3, <3>1, <3>2
  <2> QED BY <1>1, <2>1, <2>2, <2>6, <2>7 DEF LineInv, Attached
<1>2. CASE ~(Attached(s) /\ Len(queue[s]) < QueueLimit)
  <2>1. queue'[s] = queue[s]
    BY <1>2 DEF Publish
  <2>2. Line(s)' = Line(s)
    BY <2>1 DEF Line
  <2>3. Line(s) \in Seq(Event)
    BY LineType
  <2>4. ASSUME NEW j \in 1 .. Len(Line(s))
        PROVE  Line(s)[j].processed <= processed'
    <3>1. Line(s)[j] \in Event
      BY <2>3, ElementOfSeq
    <3>2. /\ Line(s)[j].processed \in Nat /\ processed \in Nat
          /\ Line(s)[j].processed <= processed
      BY <3>1 DEF Event, BatchTypeOK, LineInv
    <3> QED BY <3>2
  <2>5. queue'[s] \in Seq(Event)
    BY <2>1 DEF BatchTypeOK
  <2> QED BY <2>1, <2>2, <2>4, <2>5 DEF LineInv, Chain, Attached
<1> QED BY <1>1, <1>2

LEMMA QueueType ==
    ASSUME BatchTypeOK, NEW e \in Event, Publish(e)
    PROVE  queue' \in [Subscriber -> Seq(Event)]
BY DEF BatchTypeOK, Publish

(* Neither the lines nor the counters change.                              *)
LEMMA LinesStay ==
    ASSUME BatchInv, UNCHANGED <<processed, outcome, place, queue, received>>
    PROVE  \A s \in Subscriber : LineInv(s)'
BY DEF BatchInv, LineInv, Line, Attached

LEMMA GrantKeeps ==
    ASSUME BatchInv, NEW i \in Item, Grant(i)
    PROVE  BatchInv'
<1>1. /\ BatchTypeOK'
      /\ Recorded' = Recorded
      /\ UNCHANGED <<processed, outcome, cancelled, place, queue, received>>
  BY DEF BatchInv, BatchTypeOK, Grant, Recorded, clients
<1>2. itemAt[i] # "done" /\ itemAt[i] # "skipped"
  BY DEF Grant
<1>3. CountInv'
  BY <1>1, <1>2 DEF BatchInv, BatchTypeOK, CountInv, Grant
<1> QED BY <1>1, <1>3, LinesStay DEF BatchInv

LEMMA RecordKeeps ==
    ASSUME BatchInv, NEW i \in Item, Record(i)
    PROVE  BatchInv'
<1> DEFINE e == [type |-> "progress", processed |-> processed + 1]
<1>1. outcome = "running" /\ i \notin Recorded
  BY DEF BatchInv, CountInv, Record, Recorded
<1>2. e \in Event /\ Publish(e)
  BY DEF BatchInv, BatchTypeOK, Event, Record
<1>3. BatchTypeOK'
  BY <1>2, QueueType DEF BatchInv, BatchTypeOK, Record
<1>4. Recorded' = Recorded \cup {i}
  BY DEF BatchInv, BatchTypeOK, Record, Recorded
<1>5. Cardinality(Recorded') = Cardinality(Recorded) + 1
  <2>1. IsFiniteSet(Recorded)
    BY BatchAssumption, FS_Subset DEF Recorded
  <2> QED BY <1>1, <1>4, <2>1, FS_AddElement
<1>6. CountInv'
  BY <1>1, <1>5 DEF BatchInv, BatchTypeOK, CountInv, Record
<1>7. ASSUME NEW s \in Subscriber PROVE LineInv(s)'
  <2>1. /\ processed' = processed + 1
        /\ UNCHANGED <<place, received>>
        /\ processed \in Nat
        /\ e.processed = processed' /\ e.type = "progress"
    BY DEF BatchInv, BatchTypeOK, Record
  <2> QED BY <1>1, <1>2, <2>1, PublishKeeps DEF BatchInv, Terminal
<1> QED BY <1>3, <1>6, <1>7 DEF BatchInv

LEMMA FinishKeeps ==
    ASSUME BatchInv, Finish
    PROVE  BatchInv'
<1> DEFINE e == [type |-> outcome', processed |-> processed]
<1>1. /\ outcome = "running" /\ outcome' \in Terminal
      /\ outcome' = "done" <=> ~cancelled
      /\ UNCHANGED <<itemAt, processed, cancelled, listed, place, received>>
  BY DEF Finish, Terminal
<1>2. e \in Event /\ Publish(e)
  BY <1>1 DEF BatchInv, BatchTypeOK, Event, Finish
<1>3. BatchTypeOK'
  BY <1>1, <1>2, QueueType DEF BatchInv, BatchTypeOK, Finish
<1>4. ~cancelled => Recorded = Item
  BY DEF BatchInv, CountInv, Finish, Recorded
<1>5. CountInv'
  BY <1>1, <1>4 DEF BatchInv, CountInv, Finish, Recorded
<1>6. ASSUME NEW s \in Subscriber PROVE LineInv(s)'
  <2>1. /\ processed' \in Nat /\ processed <= processed'
        /\ e.processed = processed' /\ e.type = outcome'
        /\ outcome' # "running" /\ outcome' # "snapshot"
        /\ outcome' # "progress"
    BY <1>1 DEF BatchInv, BatchTypeOK, Terminal
  <2> QED BY <1>1, <1>2, <2>1, PublishKeeps DEF BatchInv
<1> QED BY <1>3, <1>5, <1>6 DEF BatchInv

LEMMA TaskOtherKeeps ==
    ASSUME BatchInv, CancelTask \/ ExpireTask
    PROVE  BatchInv'
<1>1. /\ BatchTypeOK' /\ CountInv'
      /\ UNCHANGED <<processed, outcome, place, queue, received>>
  BY DEF BatchInv, BatchTypeOK, CountInv, CancelTask, ExpireTask, Recorded,
         clients
<1> QED BY <1>1, LinesStay DEF BatchInv

-----------------------------------------------------------------------------
(* The streams' steps.                                                     *)

(* The task stays as it is.                                                *)
LEMMA CountStays ==
    ASSUME BatchInv, UNCHANGED task
    PROVE  CountInv'
BY DEF BatchInv, CountInv, Recorded, task

(* The other clients' lines stay too.                                      *)
LEMMA OthersStay ==
    ASSUME BatchInv, UNCHANGED task, NEW s \in Subscriber,
           NEW u \in Subscriber, u # s,
           place'[u] = place[u], queue'[u] = queue[u],
           received'[u] = received[u]
    PROVE  LineInv(u)'
BY DEF BatchInv, LineInv, Line, Attached, task

LEMMA AttachKeeps ==
    ASSUME BatchInv, NEW s \in Subscriber, Attach(s)
    PROVE  BatchInv'
<1> DEFINE e == [type |-> "snapshot", processed |-> processed]
<1>1. e \in Event
  BY DEF BatchInv, BatchTypeOK, Event
<1>2. received[s] = <<>> /\ queue[s] = <<>>
  BY DEF BatchInv, LineInv, Attach, Attached
<1>3. /\ received'[s] = <<e>> /\ queue'[s] = <<>>
      /\ place'[s] = "checking"
      /\ UNCHANGED task
  BY <1>2 DEF BatchInv, BatchTypeOK, Attach, Send
<1>4. BatchTypeOK'
  BY <1>1 DEF BatchInv, BatchTypeOK, Attach, Send, task
<1>5. LineInv(s)'
  <2>1. Len(Line(s)') = 1 /\ Line(s)'[1] = e
    BY <1>1, <1>3 DEF Line
  <2>2. e.type \notin Terminal /\ e.processed <= processed
    BY DEF Terminal, BatchInv, BatchTypeOK
  <2> QED BY <1>3, <2>1, <2>2 DEF LineInv, Chain, Attached, task
<1>6. ASSUME NEW u \in Subscriber, u # s PROVE LineInv(u)'
  <2>1. /\ place'[u] = place[u] /\ queue'[u] = queue[u]
        /\ received'[u] = received[u]
    BY <1>6 DEF BatchInv, BatchTypeOK, Attach, Send
  <2> QED BY <1>3, <1>6, <2>1, OthersStay
<1> QED BY <1>3, <1>4, <1>5, <1>6, CountStays DEF BatchInv

(* A client that is sent e, which may follow what it has been sent, and    *)
(* then nothing more.                                                      *)
LEMMA LastEvent ==
    ASSUME BatchTypeOK, NEW s \in Subscriber, LineInv(s), NEW e \in Event,
           e.type \in Terminal, e.processed = processed, outcome # "running",
           Attached(s),
           received'[s] = Append(received[s], e), queue'[s] = <<>>,
           place'[s] = "ended", UNCHANGED task
    PROVE  LineInv(s)'
<1>1. received[s] \in Seq(Event) /\ queue[s] \in Seq(Event)
  BY DEF BatchTypeOK
<1>2. ASSUME NEW j \in 1 .. Len(received[s])
      PROVE  /\ received[s][j] \in Event
             /\ received[s][j].processed <= processed
             /\ received[s][j].type \notin Terminal
  <2>1. /\ j \in 1 .. Len(Line(s)) /\ Line(s)[j] = received[s][j]
    BY LineParts
  <2> QED BY <1>1, <2>1 DEF LineInv
<1>3. Chain(received[s])
  BY <1>1, ChainPrefix DEF LineInv, Line
<1>4. Len(received[s]) > 0 => Follows(received[s][Len(received[s])], e)
  BY <1>1, <1>2 DEF Follows, Event, BatchTypeOK
<1>5. Chain(Append(received[s], e))
  BY <1>1, <1>3, <1>4, ChainAppend
<1>6. Line(s)' = Append(received[s], e)
  BY <1>1 DEF Line
<1>7. ASSUME NEW j \in 1 .. Len(Line(s)')
      PROVE  Line(s)'[j].processed <= processed
  BY <1>1, <1>2, <1>6 DEF BatchTypeOK
<1> QED BY <1>5, <1>6, <1>7 DEF LineInv, Attached, task

LEMMA CheckFinalKeeps ==
    ASSUME BatchInv, NEW s \in Subscriber, CheckFinal(s)
    PROVE  BatchInv'
<1>1. UNCHANGED task /\ Attached(s)
  BY DEF CheckFinal, Attached
<1>2. ASSUME NEW u \in Subscriber, u # s PROVE LineInv(u)'
  <2>1. /\ place'[u] = place[u] /\ queue'[u] = queue[u]
        /\ received'[u] = received[u]
    BY <1>2 DEF BatchInv, BatchTypeOK, CheckFinal, Send, Detach
  <2> QED BY <1>1, <1>2, <2>1, OthersStay
<1>3. CASE outcome = "running"
  <2>1. /\ queue' = queue /\ received' = received
        /\ place' = [place EXCEPT ![s] = "looping"]
    BY <1>3 DEF CheckFinal
  <2>2. BatchTypeOK'
    BY <1>1, <2>1 DEF BatchInv, BatchTypeOK, task
  <2>3. LineInv(s)'
    BY <1>1, <2>1 DEF BatchInv, BatchTypeOK, LineInv, Line, Attached, task
  <2> QED BY <1>1, <1>2, <2>2, <2>3, CountStays DEF BatchInv
<1>4. CASE outcome # "running"
  <2> DEFINE e == [type |-> outcome, processed |-> processed]
  <2>1. e \in Event /\ e.type \in Terminal
    BY <1>4 DEF BatchInv, BatchTypeOK, Event
  <2>2. /\ received' = [received EXCEPT ![s] = Append(@, e)]
        /\ queue' = [queue EXCEPT ![s] = <<>>]
        /\ place' = [place EXCEPT ![s] = "ended"]
    BY <1>4 DEF CheckFinal, Send, Detach
  <2>3. BatchTypeOK'
    BY <1>1, <2>1, <2>2 DEF BatchInv, BatchTypeOK, task
  <2>4. /\ received'[s] = Append(received[s], e) /\ queue'[s] = <<>>
        /\ place'[s] = "ended"
    BY <2>2 DEF BatchInv, BatchTypeOK
  <2>5. LineInv(s)'
    BY <1>1, <1>4, <2>1, <2>4, LastEvent DEF BatchInv
  <2> QED BY <1>1, <1>2, <2>3, <2>5, CountStays DEF BatchInv
<1> QED BY <1>3, <1>4

LEMMA ReceiveKeeps ==
    ASSUME BatchInv, NEW s \in Subscriber, Receive(s)
    PROVE  BatchInv'
<1> DEFINE r == received[s]
           q == queue[s]
           e == Head(q)
<1>1. UNCHANGED task /\ Attached(s) /\ q # <<>>
  BY DEF Receive, Attached
<1>2. r \in Seq(Event) /\ q \in Seq(Event) /\ e \in Event
      /\ Tail(q) \in Seq(Event)
  BY <1>1 DEF BatchInv, BatchTypeOK
<1>3. received' = [received EXCEPT ![s] = Append(r, e)]
  BY DEF Receive, Send
<1>4. ASSUME NEW u \in Subscriber, u # s PROVE LineInv(u)'
  <2>1. /\ place'[u] = place[u] /\ queue'[u] = queue[u]
        /\ received'[u] = received[u]
    BY <1>4 DEF BatchInv, BatchTypeOK, Receive, Send, Detach
  <2> QED BY <1>1, <1>4, <2>1, OthersStay
<1>5. /\ Len(Append(r, e) \o Tail(q)) = Len(Line(s))
      /\ \A j \in 1 .. Len(Line(s)) : (Append(r, e) \o Tail(q))[j] = Line(s)[j]
      /\ Len(Line(s)) \in Nat
  <2>1. Line(s) = r \o q
    BY DEF Line
  <2>2. /\ Len(Append(r, e) \o Tail(q)) = Len(r \o q)
        /\ \A j \in 1 .. Len(r \o q) :
              (Append(r, e) \o Tail(q))[j] = (r \o q)[j]
    BY <1>1, <1>2, ShiftLine, Zenon
  <2>3. Len(Line(s)) \in Nat
    BY LineParts DEF BatchInv
  <2> QED BY <2>1, <2>2, <2>3, Zenon
<1>6. Chain(Append(r, e) \o Tail(q))
  <2> DEFINE l == Append(r, e) \o Tail(q)
  <2>1. /\ Len(l) = Len(Line(s)) /\ Len(Line(s)) \in Nat
        /\ \A j \in 1 .. Len(Line(s)) : l[j] = Line(s)[j]
    BY <1>5, Zenon
  <2>2. Chain(Line(s))
    BY DEF BatchInv, LineInv
  <2> HIDE DEF l
  <2>3. Chain(l)
    <3> SUFFICES ASSUME NEW j \in 2 .. Len(l) PROVE Follows(l[j - 1], l[j])
      BY DEF Chain
    <3>1. /\ j \in 2 .. Len(Line(s))
          /\ l[j - 1] = Line(s)[j - 1] /\ l[j] = Line(s)[j]
      BY <2>1
    <3> QED BY <2>2, <3>1 DEF Chain
  <2> QED BY <2>3 DEF l
<1>7. CASE e.type \notin Terminal
  <2>1. /\ queue' = [queue EXCEPT ![s] = Tail(q)] /\ place' = place
    BY <1>7 DEF Receive
  <2>2. BatchTypeOK'
    BY <1>1, <1>2, <1>3, <2>1 DEF BatchInv, BatchTypeOK, task
  <2>3. Line(s)' = Append(r, e) \o Tail(q) /\ received'[s] = Append(r, e)
    BY <1>3, <2>1 DEF BatchInv, BatchTypeOK, Line
  <2>4. LineInv(s)'
    <3>1. /\ Len(Line(s)') = Len(Line(s))
          /\ \A j \in 1 .. Len(Line(s)) : Line(s)'[j] = Line(s)[j]
          /\ Chain(Line(s)')
      BY <1>5, <1>6, <2>3, Zenon
    <3>2. \A j \in 1 .. Len(Line(s)) :
             /\ Line(s)[j].processed <= processed
             /\ outcome = "running" => Line(s)[j].type \notin Terminal
      BY DEF BatchInv, LineInv
    <3>3. ASSUME NEW j \in 1 .. Len(Append(r, e))
          PROVE  Append(r, e)[j].type \notin Terminal
      <4>1. /\ Len(Append(r, e)) = Len(r) + 1 /\ Len(r) \in Nat
            /\ \A k \in 1 .. Len(r) : Append(r, e)[k] = r[k]
            /\ Append(r, e)[Len(r) + 1] = e
        BY <1>2, AppendParts, Zenon
      <4>2. \A k \in 1 .. Len(r) : r[k].type \notin Terminal
        BY <1>1 DEF BatchInv, LineInv
      <4>3. j \in 1 .. Len(r) \/ j = Len(r) + 1
        BY <4>1
      <4> QED BY <1>7, <4>1, <4>2, <4>3, Zenon
    <3>4. UNCHANGED <<place, processed, outcome>>
      BY <1>1, <2>1 DEF task
    <3>5. place'[s] # "away" /\ Attached(s)'
      BY <1>1, <3>4 DEF Attached
    <3> QED BY <2>3, <3>1, <3>2, <3>3, <3>4, <3>5, Zenon DEF LineInv
  <2> QED BY <1>1, <1>4, <2>2, <2>4, CountStays DEF BatchInv
<1>8. CASE e.type \in Terminal
  <2>1. /\ queue' = [queue EXCEPT ![s] = <<>>]
        /\ place' = [place EXCEPT ![s] = "ended"]
    BY <1>8 DEF Receive, Detach
  <2>2. BatchTypeOK'
    BY <1>1, <1>2, <1>3, <2>1 DEF BatchInv, BatchTypeOK, task
  <2>3. /\ received'[s] = Append(r, e) /\ queue'[s] = <<>>
        /\ place'[s] = "ended"
    BY <1>3, <2>1 DEF BatchInv, BatchTypeOK
  <2>4. Line(s)' = Append(r, e)
    BY <1>2, <2>3 DEF Line
  <2>5. Chain(Append(r, e))
    <3>1. Append(r, e) \in Seq(Event)
      BY <1>2, AppendProperties, Zenon
    <3> QED BY <1>2, <1>6, <3>1, ChainPrefix, Zenon
  <2>6. ASSUME NEW j \in 1 .. Len(Append(r, e))
        PROVE  /\ j \in 1 .. Len(Line(s))
               /\ Append(r, e)[j] = Line(s)[j]
    <3> DEFINE l == Append(r, e)
               t == Tail(q)
    <3>1. l \in Seq(Event) /\ t \in Seq(Event)
      BY <1>2, AppendProperties, Zenon
    <3>2. Len(l) \in Nat /\ Len(t) \in Nat /\ j \in 1 .. Len(l)
      BY <3>1, LenProperties, Zenon
    <3>3. /\ Len(l \o t) = Len(l) + Len(t)
          /\ \A k \in 1 .. Len(l) + Len(t) :
                (l \o t)[k] = IF k <= Len(l) THEN l[k] ELSE t[k - Len(l)]
      BY <3>1, ConcatProperties, Zenon
    <3> HIDE DEF l, t
    <3>4. j \in 1 .. Len(l \o t) /\ (l \o t)[j] = l[j]
      BY <3>2, <3>3
    <3>5. /\ j \in 1 .. Len(Append(r, e) \o Tail(q))
          /\ (Append(r, e) \o Tail(q))[j] = Append(r, e)[j]
      BY <3>4, Zenon DEF l, t
    <3> QED BY <1>5, <3>5, Zenon
  <2>7. LineInv(s)'
    BY <1>1, <2>3, <2>4, <2>5, <2>6
       DEF BatchInv, LineInv, Attached, task
  <2> QED BY <1>1, <1>4, <2>2, <2>7, CountStays DEF BatchInv
<1> QED BY <1>7, <1>8

LEMMA PingKeeps ==
    ASSUME BatchInv, NEW s \in Subscriber, Ping(s)
    PROVE  BatchInv'
<1>1. UNCHANGED task /\ BatchTypeOK'
  BY DEF BatchInv, BatchTypeOK, Ping, task
<1>2. ASSUME NEW u \in Subscriber PROVE LineInv(u)'
  <2>1. /\ Line(u)' = Line(u) /\ received'[u] = received[u]
        /\ queue'[u] = queue[u]
        /\ place'[u] = place[u] \/ (Attached(u) /\ Attached(u)')
    BY DEF BatchInv, BatchTypeOK, Ping, Line, Attached
  <2> QED BY <1>1, <2>1 DEF BatchInv, LineInv, Attached, task
<1> QED BY <1>1, <1>2, CountStays DEF BatchInv

LEMMA LeaveKeeps ==
    ASSUME BatchInv, NEW s \in Subscriber, Leave(s)
    PROVE  BatchInv'
<1>1. UNCHANGED task /\ BatchTypeOK' /\ received' = received
  BY DEF BatchInv, BatchTypeOK, Leave, Detach, task
<1>2. ASSUME NEW u \in Subscriber, u # s PROVE LineInv(u)'
  <2>1. /\ place'[u] = place[u] /\ queue'[u] = queue[u]
        /\ received'[u] = received[u]
    BY <1>2 DEF BatchInv, BatchTypeOK, Leave, Detach
  <2> QED BY <1>1, <1>2, <2>1, OthersStay
<1>3. LineInv(s)'
  <2>1. received[s] \in Seq(Event) /\ queue[s] \in Seq(Event)
    BY DEF BatchInv, BatchTypeOK
  <2>2. queue'[s] = <<>> /\ place'[s] = "ended"
    BY DEF BatchInv, BatchTypeOK, Leave, Detach
  <2>3. Line(s)' = received[s]
    BY <1>1, <2>1, <2>2 DEF Line
  <2>4. Chain(received[s])
    BY <2>1, ChainPrefix DEF BatchInv, LineInv, Line
  <2>5. ASSUME NEW j \in 1 .. Len(received[s])
        PROVE  j \in 1 .. Len(Line(s)) /\ Line(s)[j] = received[s][j]
    BY LineParts DEF BatchInv
  <2> QED BY <1>1, <2>2, <2>3, <2>4, <2>5
          DEF BatchInv, LineInv, Attached, task
<1> QED BY <1>1, <1>2, <1>3, CountStays DEF BatchInv

LEMMA BatchStep == BatchInv /\ [BatchNext]_batchVars => BatchInv'
<1> SUFFICES ASSUME BatchInv, [BatchNext]_batchVars PROVE BatchInv'
  OBVIOUS
<1>1. CASE UNCHANGED batchVars
  BY <1>1 DEF BatchInv, BatchTypeOK, CountInv, LineInv, Line, Attached,
              Recorded, batchVars
<1>2. CASE BatchNext
  BY <1>2, GrantKeeps, RecordKeeps, FinishKeeps, TaskOtherKeeps, AttachKeeps,
     CheckFinalKeeps, ReceiveKeeps, PingKeeps, LeaveKeeps DEF BatchNext
<1> QED BY <1>1, <1>2

THEOREM BatchInvariant == BatchSpec => []BatchInv
BY BatchInitially, BatchStep, PTL DEF BatchSpec

(* "done" is the outcome of a task that has worked on every item.          *)
THEOREM DoneIsAll == BatchSpec => []DoneMeansAll
<1>1. BatchInv => DoneMeansAll
  BY DEF BatchInv, CountInv, DoneMeansAll, Recorded
<1> QED BY <1>1, BatchInvariant, PTL

(* What a client sees is in order and ends once.                           *)
THEOREM EventsInOrder == BatchSpec => []EventsOrdered
<1>1. BatchInv => EventsOrdered
  <2> SUFFICES ASSUME BatchInv, NEW s \in Subscriber,
                      NEW j \in 2 .. Len(received[s])
               PROVE  Follows(received[s][j - 1], received[s][j])
    BY DEF EventsOrdered, Follows
  <2>1. received[s] \in Seq(Event) /\ queue[s] \in Seq(Event)
    BY DEF BatchInv, BatchTypeOK
  <2>2. Chain(received[s])
    BY <2>1, ChainPrefix DEF BatchInv, LineInv, Line
  <2> QED BY <2>2 DEF Chain
<1> QED BY <1>1, BatchInvariant, PTL

(* No handler starts after a cancellation.                                 *)
THEOREM CancelStopsAll == BatchSpec => CancelStops
<1>1. BatchInv /\ [BatchNext]_batchVars =>
        [cancelled => \A i \in Item : itemAt'[i] = "running"
                                        => itemAt[i] = "running"]_batchVars
  <2> SUFFICES ASSUME BatchTypeOK, BatchNext, cancelled, NEW i \in Item,
                      itemAt'[i] = "running"
               PROVE  itemAt[i] = "running"
    BY DEF BatchInv
  <2> QED BY DEF BatchTypeOK, BatchNext, Grant, Record, Finish, CancelTask,
             ExpireTask, Attach, CheckFinal, Receive, Ping, Leave, task
<1> QED BY <1>1, BatchInvariant, PTL DEF BatchSpec, CancelStops

-----------------------------------------------------------------------------
(* Video jobs.                                                             *)

(* Jobs whose file has been saved at some time.                            *)
Shelved == saved \cup dropped

(* What a run writes next is in its copy: a copy that has the path of a    *)
(* video, or a run about to set it, is that of a job that has been saved.  *)
CopiesHaveFile ==
    \A r \in Run : copy[r].path \/ run[r] = "marking" => JobOf(r) \in Shelved

VideoInv == VideoTypeOK /\ CompletedHasFile /\ CopiesHaveFile

-----------------------------------------------------------------------------
(* A job is one, a row is no marker, and a fresh copy has no path.         *)
LEMMA RunFacts ==
    /\ \A r \in Run : JobOf(r) \in Job /\ WorkerOf(r) \in VideoWorker
    /\ \A w \in VideoWorker, j \in Job :
          /\ <<w, "created", j>> \in Run /\ <<w, "recovered", j>> \in Run
          /\ JobOf(<<w, "created", j>>) = j /\ WorkerOf(<<w, "created", j>>) = w
          /\ JobOf(<<w, "recovered", j>>) = j
          /\ WorkerOf(<<w, "recovered", j>>) = w
    /\ NoJob \notin Row /\ Deleted \notin Row
    /\ Queued \in Row /\ ~Queued.path
  <1>1. Queued \in Row /\ ~Queued.path
    BY DEF Queued, Row, Final
  <1>2. \A r \in Run : JobOf(r) \in Job /\ WorkerOf(r) \in VideoWorker
    BY DEF Run, JobOf, WorkerOf
  <1> QED
    BY <1>1, <1>2, RowMarkersAssumption DEF Run, JobOf, WorkerOf

(* An update of a row by a run keeps the types, and CompletedHasFile with  *)
(* them if a copy that has the path of a video is that of a saved job.     *)
LEMMA WritesInv ==
    ASSUME VideoInv, NEW r \in Run, NEW c \in Row,
           NEW phase \in Phase, NEW otherwise \in Phase,
           run[r] # "none", phase # "marking", otherwise # "marking",
           c.path => JobOf(r) \in Shelved,
           Writes(r, c, phase, otherwise)
    PROVE VideoInv'
  <1> USE DEF VideoInv
  <1>1. /\ saved' = saved /\ dropped' = dropped /\ mishaps' = mishaps
        /\ timers' = timers /\ late' = late
        /\ alive' = alive /\ recovering' = recovering
    BY DEF Writes, hosts, shelf
  <1>2. \/ /\ row' = [row EXCEPT ![JobOf(r)] = IF Exists(JobOf(r)) THEN c ELSE @]
           /\ run' = [run EXCEPT ![r] = phase] /\ outages' = outages
        \/ /\ row' = row /\ outages' = outages + 1
           /\ run' = [run EXCEPT ![r] = otherwise]
    BY DEF Writes, UpdateRow, Outage, Goes
  <1>3. /\ copy' = [copy EXCEPT ![r] = IF run'[r] = "none" THEN Queued ELSE c]
        /\ attempt' = [attempt EXCEPT ![r] = IF run'[r] = "none" THEN 0
                                             ELSE attempt[r]]
    BY DEF Writes, Keeps
  <1>4. VideoTypeOK'
    <2>1. row' \in [Job -> Row \cup {NoJob, Deleted}]
      BY <1>2, RunFacts DEF VideoTypeOK
    <2>2. copy' \in [Run -> Row] /\ run' \in [Run -> Phase]
      BY <1>2, <1>3, RunFacts DEF VideoTypeOK
    <2>3. attempt' \in [Run -> 0 .. MaxRetries]
      BY <1>3, VideoAssumption DEF VideoTypeOK
    <2>4. outages' \in Nat
      BY <1>2 DEF VideoTypeOK
    <2>5. \A q \in Run : run'[q] # "none" => WorkerOf(q) \in alive
      BY <1>2 DEF VideoTypeOK
    <2> QED
      BY <1>1, <2>1, <2>2, <2>3, <2>4, <2>5 DEF VideoTypeOK
  <1>5. CompletedHasFile'
    BY <1>1, <1>2, RunFacts DEF CompletedHasFile, Exists, Shelved, VideoTypeOK
  <1>6. CopiesHaveFile'
    BY <1>1, <1>2, <1>3, RunFacts DEF CopiesHaveFile, Shelved, VideoTypeOK
  <1> QED
    BY <1>4, <1>5, <1>6

(* The steps of a run.                                                     *)
LEMMA RunInv ==
    ASSUME VideoInv, NEW r \in Run, Proceed(r) \/ Report(r)
    PROVE VideoInv'
  <1> USE DEF VideoInv
  <1>0. /\ copy[r] \in Row /\ (copy[r].path => JobOf(r) \in Shelved)
        /\ [copy[r] EXCEPT !.status = "in_progress"] \in Row
        /\ [copy[r] EXCEPT !.status = "failed", !.error = TRUE] \in Row
        /\ [copy[r] EXCEPT !.status = "completed", !.path = TRUE] \in Row
    BY DEF VideoTypeOK, CopiesHaveFile, Row, Final
  <1>1. CASE StartRun(r) \/ Report(r)
    <2> DEFINE c == [copy[r] EXCEPT !.status = "in_progress"]
    <2>1. c \in Row /\ (c.path => JobOf(r) \in Shelved)
      BY <1>0 DEF Row
    <2>2. /\ run[r] # "none"
          /\ \E o \in {"none", "failing"} : Writes(r, c, "generating", o)
      BY <1>1 DEF StartRun, Report
    <2> HIDE DEF c
    <2> QED
      BY <2>1, <2>2, WritesInv DEF Phase
  <1>2. CASE Generated(r) \/ UpstreamFails(r)
    <2>1. /\ row' = row /\ outages' = outages /\ saved' = saved
          /\ dropped' = dropped /\ mishaps' = mishaps /\ copy' = copy
          /\ timers' = timers /\ late' = late
          /\ alive' = alive /\ recovering' = recovering
          /\ run[r] = "generating"
      BY <1>2 DEF Generated, UpstreamFails, store, hosts, shelf
    <2>2. \E p \in {"generating", "saving", "failing"} :
             run' = [run EXCEPT ![r] = p]
      BY <1>2, <2>1 DEF Generated, UpstreamFails, Goes, VideoTypeOK
    <2>3. attempt' \in [Run -> 0 .. MaxRetries]
      BY <1>2, VideoAssumption
      DEF Generated, UpstreamFails, VideoTypeOK
    <2>4. VideoTypeOK'
      BY <2>1, <2>2, <2>3 DEF VideoTypeOK, Phase
    <2> QED
      BY <2>1, <2>2, <2>4
      DEF CompletedHasFile, CopiesHaveFile, Exists, Shelved, VideoTypeOK
  <1>3. CASE SaveVideo(r)
    <2>1. /\ row' = row /\ outages' = outages
          /\ dropped' = dropped /\ copy' = copy /\ attempt' = attempt
          /\ timers' = timers /\ late' = late
          /\ alive' = alive /\ recovering' = recovering
          /\ run[r] = "saving" /\ saved' = saved \cup {JobOf(r)}
          /\ mishaps' \in {mishaps, mishaps + 1}
      BY <1>3 DEF SaveVideo, Mishap, store, hosts
    <2>2. \E p \in {"marking", "failing"} : run' = [run EXCEPT ![r] = p]
      BY <1>3 DEF SaveVideo, Goes
    <2>3. VideoTypeOK'
      BY <2>1, <2>2, RunFacts DEF VideoTypeOK, Phase
    <2> QED
      BY <2>1, <2>2, <2>3
      DEF CompletedHasFile, CopiesHaveFile, Exists, Shelved, VideoTypeOK
  <1>4. CASE Mark(r)
    <2> DEFINE c == [copy[r] EXCEPT !.status = "completed", !.path = TRUE]
    <2>1. c \in Row /\ JobOf(r) \in Shelved
      BY <1>0, <1>4 DEF Mark, CopiesHaveFile
    <2>2. run[r] # "none" /\ Writes(r, c, "measuring", "failing")
      BY <1>4 DEF Mark
    <2> HIDE DEF c
    <2> QED
      BY <2>1, <2>2, WritesInv DEF Phase
  <1>5. CASE Measure(r)
    <2>1. /\ row' = row /\ outages' = outages /\ saved' = saved
          /\ dropped' = dropped /\ mishaps' = mishaps
          /\ timers' = timers /\ late' = late
          /\ alive' = alive /\ recovering' = recovering
          /\ run[r] = "measuring"
      BY <1>5 DEF Measure, store, hosts, shelf
    <2>2. \E p \in {"none", "failing"} : run' = [run EXCEPT ![r] = p]
      BY <1>5 DEF Measure, Goes
    <2>3. /\ copy' = [copy EXCEPT ![r] = IF run'[r] = "none" THEN Queued
                                         ELSE copy[r]]
          /\ attempt' = [attempt EXCEPT ![r] = IF run'[r] = "none" THEN 0
                                               ELSE attempt[r]]
      BY <1>5 DEF Measure, Keeps
    <2>4. VideoTypeOK'
      BY <2>1, <2>2, <2>3, <1>0, RunFacts, VideoAssumption
      DEF VideoTypeOK, Phase
    <2> QED
      BY <2>1, <2>2, <2>3, <2>4, RunFacts
      DEF CompletedHasFile, CopiesHaveFile, Exists, Shelved, VideoTypeOK
  <1>6. CASE FailRun(r)
    <2> DEFINE c == [copy[r] EXCEPT !.status = "failed", !.error = TRUE]
    <2>1. c \in Row /\ (c.path => JobOf(r) \in Shelved)
      BY <1>0 DEF Row
    <2>2. run[r] # "none" /\ Writes(r, c, "none", "none")
      BY <1>6 DEF FailRun
    <2> HIDE DEF c
    <2> QED
      BY <2>1, <2>2, WritesInv DEF Phase
  <1> QED
    BY <1>1, <1>2, <1>3, <1>4, <1>5, <1>6 DEF Proceed

(* The steps of a worker.                                                  *)
LEMMA WorkerInv ==
    ASSUME VideoInv, NEW w \in VideoWorker,
           \/ StartWorker(w) \/ Recover(w) \/ CrashWorker(w)
           \/ \E j \in Job : CreateVideo(w, j) \/ Expire(w, j)
    PROVE VideoInv'
  <1> USE DEF VideoInv
  <1>1. CASE StartWorker(w)
    <2>1. VideoTypeOK'
      BY <1>1 DEF StartWorker, VideoTypeOK, store, shelf
    <2> QED
      BY <1>1, <2>1
      DEF StartWorker, CompletedHasFile, CopiesHaveFile, Exists, Shelved,
          store, shelf
  <1>2. CASE Recover(w)
    <2>1. /\ saved' = saved /\ dropped' = dropped /\ mishaps' = mishaps
          /\ timers' = timers /\ late' = late /\ alive' = alive
          /\ recovering' = recovering \ {w} /\ w \in alive
          /\ attempt' = attempt /\ row' = row
          /\ outages' \in {outages, outages + 1}
      BY <1>2 DEF Recover, Outage, store, shelf, VideoTypeOK
    <2> DEFINE S == {<<w, "recovered", j>> : j \in Stuck}
    <2>2. \/ /\ run' = [r \in Run |-> IF r \in S THEN "starting" ELSE run[r]]
             /\ copy' = [r \in Run |-> IF r \in S THEN row[JobOf(r)]
                                                  ELSE copy[r]]
          \/ run' = run /\ copy' = copy
      BY <1>2 DEF Recover
    <2>3. \A r \in Run : r \in S => WorkerOf(r) = w /\ row[JobOf(r)] \in Row
      <3> SUFFICES ASSUME NEW r \in Run, r \in S
                   PROVE WorkerOf(r) = w /\ row[JobOf(r)] \in Row
        OBVIOUS
      <3>1. PICK j \in Stuck : r = <<w, "recovered", j>>
        OBVIOUS
      <3>2. j \in Job /\ row[j] \in Row
        BY DEF Stuck, InProgress, Exists
      <3> QED
        BY <3>1, <3>2, RunFacts
    <2> HIDE DEF S
    <2>4. VideoTypeOK'
      BY <2>1, <2>2, <2>3 DEF VideoTypeOK, Phase
    <2> QED
      BY <2>1, <2>2, <2>3, <2>4, RunFacts
      DEF CompletedHasFile, CopiesHaveFile, Exists, Shelved, VideoTypeOK
  <1>3. CASE CrashWorker(w)
    <2>1. VideoTypeOK'
      <3>1. run' \in [Run -> Phase] /\ copy' \in [Run -> Row]
        BY <1>3, RunFacts DEF CrashWorker, VideoTypeOK, Phase
      <3>2. attempt' \in [Run -> 0 .. MaxRetries]
        BY <1>3, VideoAssumption DEF CrashWorker, VideoTypeOK
      <3>3. \A r \in Run : run'[r] # "none" => WorkerOf(r) \in alive'
        BY <1>3 DEF CrashWorker, VideoTypeOK
      <3>4. /\ timers' \subseteq VideoWorker \X Job
            /\ alive' \subseteq VideoWorker /\ recovering' \subseteq alive'
            /\ mishaps' \in Nat
        BY <1>3 DEF CrashWorker, Mishap, VideoTypeOK
      <3> QED
        BY <1>3, <3>1, <3>2, <3>3, <3>4
        DEF CrashWorker, VideoTypeOK, store
    <2> QED
      BY <1>3, <2>1, RunFacts
      DEF CrashWorker, CompletedHasFile, CopiesHaveFile, Exists, Shelved,
          store
  <1>4. ASSUME NEW j \in Job, CreateVideo(w, j)
        PROVE VideoInv'
    <2>1. VideoTypeOK'
      <3> DEFINE r == <<w, "created", j>>
      <3>1. r \in Run /\ WorkerOf(r) = w /\ w \in alive
        BY <1>4, RunFacts DEF CreateVideo
      <3>2. /\ run' = [run EXCEPT ![r] = "starting"]
            /\ row' = [row EXCEPT ![j] = Queued]
            /\ timers' = timers \cup {<<w, j>>}
            /\ UNCHANGED <<outages, late, alive, recovering, copy, attempt,
                           saved, dropped, mishaps>>
        BY <1>4 DEF CreateVideo, Goes, shelf
      <3> HIDE DEF r
      <3>3. run' \in [Run -> Phase] /\ row' \in [Job -> Row \cup {NoJob, Deleted}]
        BY <3>2, RunFacts DEF VideoTypeOK, Phase
      <3>4. \A q \in Run : run'[q] # "none" => WorkerOf(q) \in alive
        BY <3>1, <3>2 DEF VideoTypeOK
      <3> QED
        BY <3>2, <3>3, <3>4 DEF VideoTypeOK
    <2> QED
      BY <1>4, <2>1, RunFacts
      DEF CreateVideo, Goes, CompletedHasFile, CopiesHaveFile, Exists,
          Shelved, shelf, VideoTypeOK
  <1>5. ASSUME NEW j \in Job, Expire(w, j)
        PROVE VideoInv'
    <2>1. VideoTypeOK'
      BY <1>5 DEF Expire, Outage, VideoTypeOK, shelf
    <2> QED
      BY <1>5, <2>1, RunFacts
      DEF Expire, Outage, CompletedHasFile, CopiesHaveFile, Exists, Shelved,
          shelf, VideoTypeOK
  <1> QED
    BY <1>1, <1>2, <1>3, <1>4, <1>5

(* The steps of time and of the cache.                                     *)
LEMMA CacheInv ==
    ASSUME VideoInv, NEW j \in Job, GrowLate(j) \/ DropFile(j)
    PROVE VideoInv'
  <1> USE DEF VideoInv
  <1>1. VideoTypeOK'
    BY DEF GrowLate, DropFile, Mishap, VideoTypeOK, store, shelf, hosts
  <1> QED
    BY <1>1
    DEF GrowLate, DropFile, CompletedHasFile, CopiesHaveFile, Exists, Shelved,
        store, shelf, hosts

(* To begin with there is no job and no run.                               *)
LEMMA VideoStarts == VideoInit => VideoInv
  <1> SUFFICES ASSUME VideoInit PROVE VideoInv
    OBVIOUS
  <1>1. VideoTypeOK
    BY RunFacts, VideoAssumption DEF VideoInit, VideoTypeOK, Phase
  <1> QED
    BY <1>1, RunFacts
    DEF VideoInit, VideoInv, CompletedHasFile, CopiesHaveFile, Exists

(* The invariant: with the types, what has the path of a video belongs to  *)
(* a job that has been saved, in the table and in the copies of the runs.  *)
THEOREM VideoInvariant == VideoSpec => []VideoInv
  <1>1. VideoInit => VideoInv
    BY VideoStarts
  <1>2. VideoInv /\ [VideoNext]_videoVars => VideoInv'
    <2> SUFFICES ASSUME VideoInv, [VideoNext]_videoVars PROVE VideoInv'
      OBVIOUS
    <2>1. CASE UNCHANGED videoVars
      BY <2>1
      DEF VideoInv, VideoTypeOK, CompletedHasFile, CopiesHaveFile, Exists,
          Shelved, videoVars, store, hosts, shelf
    <2>2. CASE VideoNext
      BY <2>2, RunInv, WorkerInv, CacheInv DEF VideoNext
    <2> QED
      BY <2>1, <2>2
  <1> QED
    BY <1>1, <1>2, PTL DEF VideoSpec

-----------------------------------------------------------------------------
(* The types of the table, of what the workers know of their runs, and of  *)
(* the files (video.py, video_job_store.py).                               *)
THEOREM VideoTypeCorrect == VideoSpec => []VideoTypeOK
  BY VideoInvariant, PTL DEF VideoInv

(* A row with the path of a video is that of a job whose file has been     *)
(* saved, with any number of runs of the job in any number of processes    *)
(* (_run_video_job).                                                       *)
THEOREM ServedHasFile == VideoSpec => []CompletedHasFile
  BY VideoInvariant, PTL DEF VideoInv

-----------------------------------------------------------------------------
(* The contract of VideoLifecycle.                                         *)

Begun == Lifecycle!Begun

(* A run that is past its first update finds its row begun or deleted, and *)
(* what it will write has neither path nor error until it sets them.       *)
RunFollows(r) ==
    /\ run[r] # "none" => row[JobOf(r)] # NoJob
    /\ run[r] \notin {"none", "starting"} =>
          row[JobOf(r)] \in Begun \cup {Deleted}
    /\ ~copy[r].error
    /\ run[r] \notin {"measuring", "failing"} => ~copy[r].path

(* Every row is one that the contract can show, and what is to be expired  *)
(* has been there.                                                         *)
LifecycleInv ==
    /\ VideoInv
    /\ \A j \in Job : row[j] \in Begun \cup {NoJob, Deleted, Queued}
    /\ \A t \in timers : row[t[2]] # NoJob
    /\ \A r \in Run : RunFollows(r)

(* The rows of the contract are rows, and what an update makes of a copy   *)
(* is one of them.                                                         *)
LEMMA ShownRows ==
    /\ Begun \subseteq Row /\ Lifecycle!Queued = Queued /\ Queued \notin Begun
    /\ \A r \in Begun : r.status = "in_progress" => ~r.path /\ ~r.error
    /\ \A c \in Row : ~c.path /\ ~c.error =>
          [c EXCEPT !.status = "in_progress"] = Lifecycle!InProgress
    /\ \A c \in Row : ~c.error =>
          [c EXCEPT !.status = "completed", !.path = TRUE] = Lifecycle!Completed
    /\ \A c \in Row :
          /\ [c EXCEPT !.status = "failed", !.error = TRUE] \in Lifecycle!Failed
          /\ [c EXCEPT !.status = "failed", !.error = TRUE].path = c.path
  <1>1. /\ Begun \subseteq Row
        /\ Lifecycle!Queued = Queued /\ Queued \notin Begun
        /\ \A r \in Begun : r.status = "in_progress" => ~r.path /\ ~r.error
    <2> USE DEF Lifecycle!InProgress, Lifecycle!Completed, Lifecycle!Failed
    <2>1. Lifecycle!Queued = Queued
      BY DEF Lifecycle!Queued, Queued
    <2>2. ASSUME NEW r \in Begun
          PROVE  /\ r \in Row /\ r.status # "queued"
                 /\ r.status = "in_progress" => ~r.path /\ ~r.error
      <3>1. CASE r = Lifecycle!InProgress
        BY <3>1 DEF Row
      <3>2. CASE r = Lifecycle!Completed
        BY <3>2 DEF Row, Final
      <3>3. CASE r \in Lifecycle!Failed
        BY <3>3 DEF Row, Final
      <3> QED
        BY <2>2, <3>1, <3>2, <3>3, Zenon DEF Begun, Lifecycle!Begun
    <2>3. Queued.status = "queued"
      BY DEF Queued
    <2> QED
      BY <2>1, <2>2, <2>3
  <1>2. ASSUME NEW d \in Row
        PROVE  d = [status |-> d.status, path |-> d.path, error |-> d.error]
    BY DEF Row
  <1>3. ASSUME NEW c \in Row, ~c.path, ~c.error
        PROVE  [c EXCEPT !.status = "in_progress"] = Lifecycle!InProgress
    <2> DEFINE d == [c EXCEPT !.status = "in_progress"]
    <2>1. /\ d \in Row /\ d.status = "in_progress"
          /\ d.path = FALSE /\ d.error = FALSE
      BY <1>3 DEF Row
    <2> HIDE DEF d
    <2>2. d = Lifecycle!InProgress
      BY <1>2, <2>1, Zenon DEF Lifecycle!InProgress
    <2> QED
      BY <2>2 DEF d
  <1>4. ASSUME NEW c \in Row, ~c.error
        PROVE  [c EXCEPT !.status = "completed", !.path = TRUE] =
                  Lifecycle!Completed
    <2> DEFINE d == [c EXCEPT !.status = "completed", !.path = TRUE]
    <2>1. /\ d \in Row /\ d.status = "completed"
          /\ d.path = TRUE /\ d.error = FALSE
      BY <1>4 DEF Row, Final
    <2> HIDE DEF d
    <2>2. d = Lifecycle!Completed
      BY <1>2, <2>1, Zenon DEF Lifecycle!Completed
    <2> QED
      BY <2>2 DEF d
  <1>5. ASSUME NEW c \in Row
        PROVE /\ [c EXCEPT !.status = "failed", !.error = TRUE] \in
                    Lifecycle!Failed
              /\ [c EXCEPT !.status = "failed", !.error = TRUE].path = c.path
    BY DEF Row, Lifecycle!Failed
  <1> QED
    BY <1>1, <1>3, <1>4, <1>5

(* What an update does to the table and to the run.                        *)
LEMMA WritesDo ==
    ASSUME LifecycleInv, NEW r \in Run, NEW c, NEW phase, NEW otherwise,
           Writes(r, c, phase, otherwise), run[r] # "none"
    PROVE  /\ \/ /\ Exists(JobOf(r)) /\ row' = [row EXCEPT ![JobOf(r)] = c]
                 /\ run' = [run EXCEPT ![r] = phase]
              \/ /\ row[JobOf(r)] = Deleted /\ row' = row
                 /\ run' = [run EXCEPT ![r] = phase]
              \/ row' = row /\ run' = [run EXCEPT ![r] = otherwise]
           /\ copy' = [copy EXCEPT ![r] = IF run'[r] = "none" THEN Queued
                                          ELSE c]
           /\ UNCHANGED <<timers, saved, dropped>>
  <1>1. /\ row[JobOf(r)] # NoJob /\ JobOf(r) \in Job
        /\ row \in [Job -> Row \cup {NoJob, Deleted}]
    BY RunFacts DEF LifecycleInv, RunFollows, VideoInv, VideoTypeOK
  <1>2. UpdateRow(JobOf(r), c) =>
           \/ Exists(JobOf(r)) /\ row' = [row EXCEPT ![JobOf(r)] = c]
           \/ row[JobOf(r)] = Deleted /\ row' = row
    BY <1>1 DEF UpdateRow, Exists
  <1>3. UNCHANGED <<timers, saved, dropped>>
    BY DEF Writes, hosts, shelf
  <1> QED
    BY <1>2, <1>3 DEF Writes, Outage, Goes, Keeps

(* An update keeps the invariant: the row is begun after it, or deleted.   *)
LEMMA WritesFollow ==
    ASSUME LifecycleInv, VideoInv', NEW r \in Run, NEW c \in Begun,
           NEW phase \in {"generating", "measuring", "none"},
           NEW otherwise \in {"failing", "none"},
           Writes(r, c, phase, otherwise), run[r] # "none",
           run[r] = "starting" => otherwise = "none",
           phase = "generating" => ~c.path,
           {phase, otherwise} # {"none"} => ~c.error
    PROVE  LifecycleInv'
  <1>1. /\ \A q \in Run : JobOf(q) \in Job
        /\ row \in [Job -> Row \cup {NoJob, Deleted}]
        /\ run \in [Run -> Phase] /\ copy \in [Run -> Row]
        /\ c # NoJob /\ c # Deleted
        /\ ~Queued.path /\ ~Queued.error
    <2>1. ~Queued.path /\ ~Queued.error
      BY DEF Queued
    <2>2. c # NoJob /\ c # Deleted
      BY ShownRows, RowMarkersAssumption
    <2> QED
      BY <2>1, <2>2, RunFacts DEF LifecycleInv, VideoInv, VideoTypeOK
  <1>2. \A j \in Job : \/ row'[j] = row[j]
                       \/ row'[j] = c /\ row[j] # NoJob /\ row[j] # Deleted
    BY <1>1, WritesDo, RowMarkersAssumption DEF Exists
  <1>3. \A j \in Job : row'[j] \in Begun \cup {NoJob, Deleted, Queued}
    BY <1>2 DEF LifecycleInv
  <1>4. \A t \in timers' : row'[t[2]] # NoJob
    BY <1>1, <1>2, WritesDo DEF LifecycleInv, VideoInv, VideoTypeOK
  <1>5. ASSUME NEW q \in Run PROVE RunFollows(q)'
    <2>1. CASE q # r
      BY <1>1, <1>2, <2>1, WritesDo DEF LifecycleInv, RunFollows
    <2>2. CASE q = r
      <3>1. run'[r] \in {phase, otherwise}
        BY <1>1, WritesDo
      <3>2. copy'[r] = IF run'[r] = "none" THEN Queued ELSE c
        BY <1>1, WritesDo
      <3>3. run'[r] # "none" => ~c.error
        <4> SUFFICES ASSUME run'[r] # "none" PROVE {phase, otherwise} # {"none"}
          OBVIOUS
        <4> QED
          BY <3>1
      <3>4. run'[r] # "none" => row'[JobOf(r)] \in Begun \cup {Deleted}
        BY <1>1, WritesDo DEF LifecycleInv, RunFollows
      <3>5. NoJob \notin Begun \cup {Deleted}
        BY ShownRows, RowMarkersAssumption
      <3>6. ~copy'[r].error
        BY <1>1, <3>2, <3>3
      <3>7. run'[r] \notin {"measuring", "failing"} => ~copy'[r].path
        BY <1>1, <3>1, <3>2
      <3> QED
        BY <2>2, <3>4, <3>5, <3>6, <3>7 DEF RunFollows
    <2> QED
      BY <2>1, <2>2
  <1> QED
    BY <1>3, <1>4, <1>5 DEF LifecycleInv

(* An update is a step of the contract, or none.                           *)
LEMMA WritesShow ==
    ASSUME LifecycleInv, NEW r \in Run, NEW c, NEW phase, NEW otherwise,
           Writes(r, c, phase, otherwise), run[r] # "none",
           \/ c = Lifecycle!InProgress
           \/ /\ c = Lifecycle!Completed /\ JobOf(r) \in Shelved
              /\ run[r] # "starting"
           \/ /\ c \in Lifecycle!Failed /\ (c.path => JobOf(r) \in Shelved)
              /\ run[r] # "starting"
    PROVE  [Lifecycle!Next]_Lifecycle!vars
  <1> DEFINE j == JobOf(r)
  <1>1. /\ j \in Job
        /\ row[j] \in Begun \cup {NoJob, Deleted, Queued}
        /\ run[r] # "starting" => row[j] \in Begun \cup {Deleted}
    BY RunFacts DEF LifecycleInv, RunFollows
  <1>2. saved' \cup dropped' = saved \cup dropped
    BY WritesDo
  <1>3. CASE row' = row
    BY <1>2, <1>3 DEF Lifecycle!vars
  <1>4. CASE Exists(j) /\ row' = [row EXCEPT ![j] = c]
    <2>1. Lifecycle!Shows(j, c)
      BY <1>2, <1>4 DEF Lifecycle!Shows
    <2>2. /\ row[j] \in Begun \cup {Queued}
          /\ run[r] # "starting" => row[j] \in Begun
      BY <1>1, <1>4, RowMarkersAssumption DEF Exists
    <2>3. CASE c = Lifecycle!InProgress
      <3>1. Lifecycle!Progress(j)
        BY <2>1, <2>2, <2>3, ShownRows DEF Lifecycle!Progress, Begun
      <3> QED
        BY <1>1, <3>1 DEF Lifecycle!Next
    <2>4. CASE c = Lifecycle!Completed /\ j \in Shelved /\ run[r] # "starting"
      <3>1. Lifecycle!Complete(j)
        BY <2>1, <2>2, <2>4 DEF Lifecycle!Complete, Begun, Shelved
      <3> QED
        BY <1>1, <3>1 DEF Lifecycle!Next
    <2>5. CASE /\ c \in Lifecycle!Failed /\ (c.path => j \in Shelved)
               /\ run[r] # "starting"
      <3>1. Lifecycle!Fail(j)
        BY <2>1, <2>2, <2>5 DEF Lifecycle!Fail, Begun, Shelved
      <3> QED
        BY <1>1, <3>1 DEF Lifecycle!Next
    <2> QED
      BY <2>3, <2>4, <2>5
  <1> QED
    BY <1>3, <1>4, WritesDo

(* The steps of a run.                                                     *)
LEMMA RunLifecycle ==
    ASSUME LifecycleInv, VideoInv', NEW r \in Run, Proceed(r) \/ Report(r)
    PROVE  [Lifecycle!Next]_Lifecycle!vars /\ LifecycleInv'
  <1>1. /\ copy[r] \in Row /\ ~copy[r].error
        /\ copy[r].path => JobOf(r) \in Shelved
        /\ run[r] \notin {"measuring", "failing"} => ~copy[r].path
        /\ run[r] = "marking" => JobOf(r) \in Shelved
    BY DEF LifecycleInv, RunFollows, VideoInv, VideoTypeOK, CopiesHaveFile
  <1>2. CASE StartRun(r) \/ Report(r)
    <2> DEFINE c == [copy[r] EXCEPT !.status = "in_progress"]
    <2>1. run[r] \in {"starting", "generating"}
      BY <1>2 DEF StartRun, Report
    <2>2. c = Lifecycle!InProgress
      BY <1>1, <2>1, ShownRows
    <2>3. c \in Begun /\ ~c.path /\ ~c.error
      BY <2>2 DEF Begun, Lifecycle!Begun, Lifecycle!InProgress
    <2>4. \/ Writes(r, c, "generating", "none")
          \/ run[r] = "generating" /\ Writes(r, c, "generating", "failing")
      BY <1>2 DEF StartRun, Report
    <2> HIDE DEF c
    <2> QED
      BY <2>1, <2>2, <2>3, <2>4, WritesShow, WritesFollow
  <1>3. CASE Mark(r)
    <2> DEFINE c == [copy[r] EXCEPT !.status = "completed", !.path = TRUE]
    <2>1. run[r] = "marking" /\ Writes(r, c, "measuring", "failing")
      BY <1>3 DEF Mark
    <2>2. c = Lifecycle!Completed
      BY <1>1, ShownRows
    <2>3. c \in Begun /\ ~c.error
      BY <2>2 DEF Begun, Lifecycle!Begun, Lifecycle!Completed
    <2> HIDE DEF c
    <2> QED
      BY <1>1, <2>1, <2>2, <2>3, WritesShow, WritesFollow
  <1>4. CASE FailRun(r)
    <2> DEFINE c == [copy[r] EXCEPT !.status = "failed", !.error = TRUE]
    <2>1. run[r] = "failing" /\ Writes(r, c, "none", "none")
      BY <1>4 DEF FailRun
    <2>2. c \in Lifecycle!Failed /\ (c.path => JobOf(r) \in Shelved)
      BY <1>1, ShownRows
    <2>3. c \in Begun
      BY <2>2 DEF Begun, Lifecycle!Begun
    <2> HIDE DEF c
    <2> QED
      BY <2>1, <2>2, <2>3, WritesShow, WritesFollow
  <1>5. CASE SaveVideo(r)
    <2>1. /\ row' = row /\ copy' = copy /\ timers' = timers
          /\ saved' = saved \cup {JobOf(r)} /\ dropped' = dropped
          /\ run[r] = "saving"
          /\ \E p \in {"marking", "failing"} : run' = [run EXCEPT ![r] = p]
      BY <1>5 DEF SaveVideo, Goes, store, hosts
    <2>2. LifecycleInv'
      BY <2>1 DEF LifecycleInv, RunFollows, VideoInv, VideoTypeOK
    <2>3. Lifecycle!Store(JobOf(r)) /\ JobOf(r) \in Job
      BY <2>1, RunFacts DEF Lifecycle!Store, LifecycleInv, RunFollows, Begun
    <2> QED
      BY <2>2, <2>3 DEF Lifecycle!Next
  <1>6. CASE Generated(r) \/ UpstreamFails(r) \/ Measure(r)
    <2>1. /\ row' = row /\ saved' = saved /\ dropped' = dropped
          /\ timers' = timers
          /\ copy' \in {copy, [copy EXCEPT ![r] = Queued]}
          /\ run[r] \in {"generating", "measuring"}
      BY <1>6 DEF Generated, UpstreamFails, Measure, Keeps, store, hosts, shelf,
                  LifecycleInv, VideoInv, VideoTypeOK
    <2>2. \E p \in {run[r], "saving", "failing", "none"} :
             /\ run' = [run EXCEPT ![r] = p]
             /\ p = "saving" => run[r] = "generating"
             /\ p = "none" => copy' = [copy EXCEPT ![r] = Queued]
      <3>1. run \in [Run -> Phase] /\ copy \in [Run -> Row]
        BY DEF LifecycleInv, VideoInv, VideoTypeOK
      <3>2. CASE Generated(r)
        BY <3>2, <2>1 DEF Generated, Goes
      <3>3. CASE UpstreamFails(r)
        BY <3>1, <3>3, <2>1 DEF UpstreamFails, Goes
      <3>4. CASE Measure(r)
        BY <3>1, <3>4, <2>1 DEF Measure, Goes, Keeps
      <3> QED
        BY <1>6, <3>2, <3>3, <3>4
    <2>3. ~Queued.path /\ ~Queued.error
      BY DEF Queued
    <2>4. LifecycleInv'
      BY <2>1, <2>2, <2>3 DEF LifecycleInv, RunFollows, VideoInv, VideoTypeOK
    <2> QED
      BY <2>1, <2>4 DEF Lifecycle!vars
  <1> QED
    BY <1>2, <1>3, <1>4, <1>5, <1>6 DEF Proceed

(* The steps of a worker.                                                  *)
LEMMA WorkerLifecycle ==
    ASSUME LifecycleInv, VideoInv', NEW w \in VideoWorker,
           \/ StartWorker(w) \/ Recover(w) \/ CrashWorker(w)
           \/ \E j \in Job : CreateVideo(w, j) \/ Expire(w, j)
    PROVE  [Lifecycle!Next]_Lifecycle!vars /\ LifecycleInv'
  <1>1. ~Queued.path /\ ~Queued.error
    BY DEF Queued
  <1>2. CASE StartWorker(w)
    <2>1. UNCHANGED <<row, saved, dropped, timers, run, copy>>
      BY <1>2 DEF StartWorker, store, shelf
    <2> QED
      BY <2>1 DEF LifecycleInv, RunFollows, Lifecycle!vars
  <1>3. CASE CrashWorker(w)
    <2>1. /\ UNCHANGED <<row, saved, dropped>>
          /\ timers' \subseteq timers
          /\ \A r \in Run : \/ run'[r] = run[r] /\ copy'[r] = copy[r]
                            \/ run'[r] = "none" /\ copy'[r] = Queued
      BY <1>3 DEF CrashWorker, store
    <2>2. LifecycleInv'
      BY <1>1, <2>1 DEF LifecycleInv, RunFollows
    <2> QED
      BY <2>1, <2>2 DEF Lifecycle!vars
  <1>4. CASE Recover(w)
    <2>1. UNCHANGED <<row, saved, dropped, timers>>
      BY <1>4 DEF Recover, Outage, store, shelf
    <2>2. \A r \in Run :
             \/ run'[r] = run[r] /\ copy'[r] = copy[r]
             \/ /\ run'[r] = "starting" /\ copy'[r] = row[JobOf(r)]
                /\ JobOf(r) \in Stuck
      <3> DEFINE S == {<<w, "recovered", j>> : j \in Stuck}
      <3>1. \A r \in S : JobOf(r) \in Stuck
        BY RunFacts DEF Stuck
      <3> HIDE DEF S
      <3>2. \/ run' = run /\ copy' = copy
            \/ /\ run' = [r \in Run |-> IF r \in S THEN "starting" ELSE run[r]]
               /\ copy' = [r \in Run |-> IF r \in S THEN row[JobOf(r)]
                                                    ELSE copy[r]]
        BY <1>4 DEF Recover, S
      <3> QED
        BY <3>1, <3>2
    <2>3. \A j \in Stuck : row[j] \in Begun /\ ~row[j].path /\ ~row[j].error
      <3>1. Queued.status # "in_progress"
        BY DEF Queued
      <3> QED
        BY <3>1, ShownRows, RowMarkersAssumption
        DEF Stuck, InProgress, Exists, LifecycleInv
    <2>4. LifecycleInv'
      <3>1. ASSUME NEW r \in Run PROVE RunFollows(r)'
        <4>1. CASE run'[r] = run[r] /\ copy'[r] = copy[r]
          BY <2>1, <4>1 DEF LifecycleInv, RunFollows
        <4>2. CASE /\ run'[r] = "starting" /\ copy'[r] = row[JobOf(r)]
                   /\ JobOf(r) \in Stuck
          <5>1. row[JobOf(r)] # NoJob
            BY <4>2, <2>3, ShownRows, RowMarkersAssumption
          <5> QED
            BY <2>1, <2>3, <4>2, <5>1 DEF RunFollows
        <4> QED
          BY <2>2, <4>1, <4>2
      <3> QED
        BY <2>1, <3>1 DEF LifecycleInv
    <2> QED
      BY <2>1, <2>4 DEF Lifecycle!vars
  <1>5. ASSUME NEW j \in Job, CreateVideo(w, j)
        PROVE  [Lifecycle!Next]_Lifecycle!vars /\ LifecycleInv'
    <2> DEFINE r == <<w, "created", j>>
    <2>1. /\ row[j] = NoJob /\ row' = [row EXCEPT ![j] = Queued]
          /\ run' = [run EXCEPT ![r] = "starting"]
          /\ timers' = timers \cup {<<w, j>>}
          /\ UNCHANGED <<copy, saved, dropped>>
      BY <1>5 DEF CreateVideo, Goes, shelf
    <2>2. r \in Run /\ JobOf(r) = j /\ (\A q \in Run : JobOf(q) \in Job)
      BY RunFacts
    <2> HIDE DEF r
    <2>3. Lifecycle!Submit(j)
      BY <2>1, ShownRows DEF Lifecycle!Submit, Lifecycle!Shows
    <2>4. /\ row \in [Job -> Row \cup {NoJob, Deleted}]
          /\ run \in [Run -> Phase]
          /\ timers \subseteq VideoWorker \X Job
          /\ Queued # NoJob
      BY RunFacts DEF LifecycleInv, VideoInv, VideoTypeOK
    <2>5. \A i \in Job : IF i = j THEN row'[i] = Queued ELSE row'[i] = row[i]
      BY <2>1, <2>4
    <2>6. ASSUME NEW q \in Run PROVE RunFollows(q)'
      <3>1. CASE JobOf(q) # j
        BY <2>1, <2>2, <2>4, <2>5, <3>1 DEF LifecycleInv, RunFollows
      <3>2. CASE JobOf(q) = j
        <4>1. run[q] = "none"
          BY <2>1, <3>2 DEF LifecycleInv, RunFollows
        <4>2. run'[q] \in {"none", "starting"}
          BY <2>1, <2>4, <4>1
        <4>3. ~copy[q].path /\ ~copy[q].error
          BY <4>1 DEF LifecycleInv, RunFollows
        <4> QED
          BY <2>1, <2>2, <2>4, <2>5, <3>2, <4>2, <4>3 DEF RunFollows
      <3> QED
        BY <3>1, <3>2
    <2>7. LifecycleInv'
      BY <2>1, <2>4, <2>5, <2>6 DEF LifecycleInv
    <2> QED
      BY <2>3, <2>7 DEF Lifecycle!Next
  <1>6. ASSUME NEW j \in Job, Expire(w, j)
        PROVE  [Lifecycle!Next]_Lifecycle!vars /\ LifecycleInv'
    <2>1. /\ row' \in {row, [row EXCEPT ![j] = Deleted]}
          /\ <<w, j>> \in timers /\ timers' \subseteq timers
          /\ UNCHANGED <<run, copy, saved, dropped>>
      BY <1>6 DEF Expire, Outage, shelf
    <2>2. row[j] # NoJob
      BY <2>1 DEF LifecycleInv
    <2>3. [Lifecycle!Next]_Lifecycle!vars
      <3>1. CASE row' = row
        BY <2>1, <3>1 DEF Lifecycle!vars
      <3>2. CASE row' = [row EXCEPT ![j] = Deleted]
        BY <2>1, <2>2, <3>2
        DEF Lifecycle!Next, Lifecycle!Delete, Lifecycle!Shows
      <3> QED
        BY <2>1, <3>1, <3>2
    <2>4. \A i \in Job : row'[i] = row[i] \/ (i = j /\ row'[i] = Deleted)
      BY <2>1 DEF LifecycleInv, VideoInv, VideoTypeOK
    <2>5. \A r \in Run : RunFollows(r)'
      BY <2>1, <2>4, RunFacts, RowMarkersAssumption
      DEF LifecycleInv, RunFollows
    <2>6. \A t \in timers' : row'[t[2]] # NoJob
      BY <2>1, <2>4, RowMarkersAssumption
      DEF LifecycleInv, VideoInv, VideoTypeOK
    <2> QED
      BY <2>3, <2>4, <2>5, <2>6 DEF LifecycleInv
  <1> QED
    BY <1>2, <1>3, <1>4, <1>5, <1>6

(* The steps of time and of the cache.                                     *)
LEMMA CacheLifecycle ==
    ASSUME LifecycleInv, VideoInv', NEW j \in Job, GrowLate(j) \/ DropFile(j)
    PROVE  [Lifecycle!Next]_Lifecycle!vars /\ LifecycleInv'
  <1>1. /\ UNCHANGED <<row, timers, run, copy>>
        /\ saved' \cup dropped' = saved \cup dropped
    BY DEF GrowLate, DropFile, store, hosts, shelf
  <1> QED
    BY <1>1 DEF LifecycleInv, RunFollows, Lifecycle!vars

(* What a step keeps, and what it shows.                                   *)
LEMMA LifecycleStep ==
    ASSUME LifecycleInv, VideoInv', [VideoNext]_videoVars
    PROVE  [Lifecycle!Next]_Lifecycle!vars /\ LifecycleInv'
  <1>1. CASE UNCHANGED videoVars
    BY <1>1 DEF videoVars, store, hosts, shelf, LifecycleInv, RunFollows,
                Lifecycle!vars
  <1>2. CASE VideoNext
    BY <1>2, RunLifecycle, WorkerLifecycle, CacheLifecycle DEF VideoNext
  <1> QED
    BY <1>1, <1>2

(* The runs follow the contract, whichever has written the row last.       *)
THEOREM LifecycleInvariant == VideoSpec => []LifecycleInv
  <1>1. VideoInit => LifecycleInv
    <2> SUFFICES ASSUME VideoInit PROVE LifecycleInv
      OBVIOUS
    <2>1. ~Queued.path /\ ~Queued.error
      BY DEF Queued
    <2>2. \A r \in Run : RunFollows(r)
      BY <2>1 DEF VideoInit, RunFollows
    <2> QED
      BY <2>2, VideoStarts DEF VideoInit, LifecycleInv
  <1>2. LifecycleInv /\ VideoInv' /\ [VideoNext]_videoVars => LifecycleInv'
    BY LifecycleStep
  <1> QED
    BY <1>1, <1>2, VideoInvariant, PTL DEF VideoSpec

(* update_job writes all columns of a row that is there, each run from its *)
(* own copy: whatever runs work on a job, restart, outlive its expiry or   *)
(* overwrite each other, what a client is shown follows the contract.      *)
THEOREM LifecycleImplemented == VideoSpec => ImplementsLifecycle
  <1>1. VideoInit => Lifecycle!Init
    BY DEF VideoInit, Lifecycle!Init
  <1>2. LifecycleInv /\ VideoInv' /\ [VideoNext]_videoVars =>
           [Lifecycle!Next]_Lifecycle!vars
    BY LifecycleStep
  <1> QED
    BY <1>1, <1>2, VideoInvariant, LifecycleInvariant, PTL
    DEF VideoSpec, ImplementsLifecycle, Lifecycle!Spec

-----------------------------------------------------------------------------
(* What depends on a job being run once.                                   *)

Finished(j) == Exists(j) /\ row[j].status \in Final

(* No job is run twice at a time: what a recovery does not make sure of    *)
(* when the worker that has created the job is still alive.                *)
OneRun ==
    \A q, r \in Run :
        run[q] # "none" /\ run[r] # "none" /\ JobOf(q) = JobOf(r) => q = r

(* A run of a finished job has completed it and looks at the file, or has  *)
(* missed the file.                                                        *)
FinishedInv ==
    \A r \in Run : Finished(JobOf(r)) /\ run[r] # "none" =>
        /\ row[JobOf(r)].status = "completed"
        /\ run[r] = "measuring" \/ (run[r] = "failing" /\ JobOf(r) \in dropped)

Stays(j) == \/ row'[j] \in {row[j], Deleted}
            \/ /\ row[j].status = "completed" /\ row'[j].status = "failed"
               /\ j \in dropped

(* An update by the one run of a job.                                      *)
LEMMA WritesFinish ==
    ASSUME LifecycleInv, FinishedInv, OneRun, NEW r \in Run, NEW c,
           NEW phase, NEW otherwise, Writes(r, c, phase, otherwise),
           run[r] # "none",
           Finished(JobOf(r)) =>
              /\ row[JobOf(r)].status = "completed" /\ c.status = "failed"
              /\ JobOf(r) \in dropped /\ otherwise = "none",
           c.status \in Final =>
              phase = "none" \/ (phase = "measuring" /\ c.status = "completed")
    PROVE  FinishedInv' /\ \A j \in Job : Finished(j) => Stays(j)
  <1> DEFINE i == JobOf(r)
  <1>1. /\ i \in Job /\ (\A q \in Run : JobOf(q) \in Job)
        /\ row \in [Job -> Row \cup {NoJob, Deleted}]
        /\ run \in [Run -> Phase] /\ dropped' = dropped
    BY RunFacts, WritesDo DEF LifecycleInv, VideoInv, VideoTypeOK
  <1>2. \A q \in Run \ {r} : /\ run'[q] = run[q]
                             /\ JobOf(q) = i => run[q] = "none"
    BY <1>1, WritesDo DEF OneRun
  <1>3. CASE Exists(i) /\ row' = [row EXCEPT ![i] = c] /\ run'[r] = phase
    <2>1. row'[i] = c /\ \A j \in Job : j # i => row'[j] = row[j]
      BY <1>1, <1>3
    <2>2. ASSUME NEW j \in Job, Finished(j) PROVE Stays(j)
      BY <2>1, <2>2 DEF Stays
    <2>3. ASSUME NEW q \in Run, Finished(JobOf(q))', run'[q] # "none"
          PROVE  /\ row'[JobOf(q)].status = "completed"
                 /\ \/ run'[q] = "measuring"
                    \/ run'[q] = "failing" /\ JobOf(q) \in dropped'
      <3>1. CASE q = r
        BY <1>3, <2>1, <2>3, <3>1 DEF Finished
      <3>2. CASE q # r
        <4>1. JobOf(q) # i /\ run'[q] = run[q]
          BY <1>2, <2>3, <3>2
        <4>2. row'[JobOf(q)] = row[JobOf(q)] /\ Finished(JobOf(q))
          BY <1>1, <2>1, <2>3, <4>1 DEF Finished, Exists
        <4> QED
          BY <1>1, <2>3, <4>1, <4>2 DEF FinishedInv
      <3> QED
        BY <3>1, <3>2
    <2> QED
      BY <2>2, <2>3 DEF FinishedInv
  <1>4. CASE row' = row /\ (run'[r] = "none" \/ ~Finished(i))
    <2>1. \A j \in Job : (Finished(j)' <=> Finished(j)) /\ Stays(j)
      BY <1>4 DEF Finished, Exists, Stays
    <2>2. ASSUME NEW q \in Run, Finished(JobOf(q))', run'[q] # "none"
          PROVE  run'[q] = run[q] /\ Finished(JobOf(q))
      BY <1>1, <1>2, <1>4, <2>1, <2>2
    <2> QED
      BY <1>1, <1>4, <2>1, <2>2 DEF FinishedInv
  <1>5. \/ /\ Exists(i) /\ row' = [row EXCEPT ![i] = c] /\ run'[r] = phase
        \/ row' = row /\ (run'[r] = "none" \/ ~Finished(i))
    BY <1>1, WritesDo, RowMarkersAssumption DEF Finished, Exists
  <1> QED
    BY <1>3, <1>4, <1>5

(* The steps that write no row, but for a job that is new or expires.      *)
LEMMA OthersFinish ==
    ASSUME LifecycleInv, FinishedInv, [VideoNext]_videoVars,
           ~\E r \in Run : StartRun(r) \/ Report(r) \/ Mark(r) \/ FailRun(r)
    PROVE  FinishedInv' /\ \A j \in Job : Finished(j) => Stays(j)
  <1>1. /\ row \in [Job -> Row \cup {NoJob, Deleted}]
        /\ run \in [Run -> Phase] /\ \A q \in Run : JobOf(q) \in Job
    BY RunFacts DEF LifecycleInv, VideoInv, VideoTypeOK
  <1>2. SUFFICES
          /\ dropped \subseteq dropped'
          /\ \A j \in Job : \/ row'[j] = row[j] \/ row'[j] = Deleted
                            \/ row[j] = NoJob /\ row'[j] = Queued
          /\ \A r \in Run :
                \/ run'[r] = run[r] \/ run'[r] = "none"
                \/ ~Finished(JobOf(r))
                \/ /\ run[r] = "measuring" /\ run'[r] = "failing"
                   /\ JobOf(r) \in dropped
    <2>1. Queued.status \notin Final
      BY DEF Queued, Final
    <2>2. ASSUME NEW j \in Job
          PROVE  /\ Finished(j)' => Finished(j) /\ row'[j] = row[j]
                 /\ Finished(j) => Stays(j)
      BY <1>2, <2>1, RowMarkersAssumption DEF Finished, Exists, Stays
    <2>3. FinishedInv'
      BY <1>1, <1>2, <2>2 DEF FinishedInv
    <2> QED
      BY <2>2, <2>3
  <1>3. CASE UNCHANGED videoVars
    BY <1>3 DEF videoVars, store, hosts, shelf
  <1>4. ASSUME NEW r \in Run, Proceed(r) \/ Report(r)
        PROVE  /\ dropped \subseteq dropped' /\ row' = row
               /\ \A q \in Run \ {r} : run'[q] = run[q]
               /\ \/ run'[r] = run[r] \/ run'[r] = "none"
                  \/ ~Finished(JobOf(r))
                  \/ /\ run[r] = "measuring" /\ run'[r] = "failing"
                     /\ JobOf(r) \in dropped
    <2>1. Generated(r) \/ UpstreamFails(r) \/ SaveVideo(r) \/ Measure(r)
      BY <1>4 DEF Proceed
    <2>2. UNCHANGED <<row, dropped>>
      BY <2>1 DEF Generated, UpstreamFails, SaveVideo, Measure, store, shelf
    <2>3. \E p : run' = [run EXCEPT ![r] = p]
      BY <1>1, <2>1 DEF Generated, UpstreamFails, SaveVideo, Measure, Goes
    <2>4. CASE run[r] \in {"generating", "saving"}
      BY <1>1, <2>2, <2>3, <2>4 DEF FinishedInv
    <2>5. CASE Measure(r)
      <3>1. Finished(JobOf(r)) => JobOf(r) \in saved \cup dropped
        <4> SUFFICES ASSUME Finished(JobOf(r))
                     PROVE  JobOf(r) \in saved \cup dropped
          OBVIOUS
        <4>1. /\ row[JobOf(r)].status = "completed"
              /\ row[JobOf(r)] \in Begun \cup {Queued} /\ Exists(JobOf(r))
          BY <1>1, <2>5, RowMarkersAssumption
          DEF FinishedInv, Measure, LifecycleInv, Finished, Exists
        <4>2. \A c \in Begun \cup {Queued} : c.status = "completed" => c.path
          <5>1. /\ Queued.status # "completed"
                /\ Lifecycle!InProgress.status # "completed"
                /\ Lifecycle!Completed.path
                /\ \A c \in Lifecycle!Failed : c.status # "completed"
            BY DEF Queued, Lifecycle!InProgress, Lifecycle!Completed,
                   Lifecycle!Failed
          <5> QED
            BY <5>1, Zenon DEF Begun, Lifecycle!Begun
        <4> QED
          BY <1>1, <4>1, <4>2 DEF LifecycleInv, VideoInv, CompletedHasFile
      <3> QED
        BY <1>1, <2>2, <2>5, <3>1 DEF Measure, Goes
    <2> QED
      BY <2>1, <2>4, <2>5 DEF Generated, UpstreamFails, SaveVideo
  <1>5. CASE \E r \in Run : Proceed(r) \/ Report(r)
    BY <1>4, <1>5
  <1>6. CASE \E w \in VideoWorker : StartWorker(w) \/ CrashWorker(w)
    BY <1>6 DEF StartWorker, CrashWorker, store, shelf
  <1>7. CASE \E w \in VideoWorker : Recover(w)
    <2>1. PICK w \in VideoWorker : Recover(w)
      BY <1>7
    <2>2. UNCHANGED <<row, dropped>>
      BY <2>1 DEF Recover, Outage, store, shelf
    <2>3. ASSUME NEW r \in Run
          PROVE  run'[r] = run[r] \/ ~Finished(JobOf(r))
      <3> DEFINE S == {<<w, "recovered", j>> : j \in Stuck}
      <3>1. \A q \in S : ~Finished(JobOf(q))
        BY RunFacts DEF Stuck, InProgress, Finished, Final
      <3> HIDE DEF S
      <3>2. \/ run' = run
            \/ run' = [q \in Run |-> IF q \in S THEN "starting" ELSE run[q]]
        BY <2>1 DEF Recover, S
      <3> QED
        BY <3>1, <3>2
    <2> QED
      BY <2>2, <2>3
  <1>8. CASE \E w \in VideoWorker, j \in Job : CreateVideo(w, j)
    <2>1. PICK w \in VideoWorker, j \in Job : CreateVideo(w, j)
      BY <1>8
    <2>2. /\ row[j] = NoJob /\ row' = [row EXCEPT ![j] = Queued]
          /\ run' = [run EXCEPT ![<<w, "created", j>>] = "starting"]
          /\ dropped' = dropped
      BY <2>1 DEF CreateVideo, Goes, shelf
    <2>3. JobOf(<<w, "created", j>>) = j /\ ~Finished(j)
      BY <2>2, RunFacts, RowMarkersAssumption DEF Finished, Exists
    <2> QED
      BY <1>1, <2>2, <2>3
  <1>9. CASE \E w \in VideoWorker, j \in Job : Expire(w, j)
    BY <1>1, <1>9 DEF Expire, Outage, shelf
  <1>10. CASE \E j \in Job : GrowLate(j) \/ DropFile(j)
    BY <1>10 DEF GrowLate, DropFile, store, hosts, shelf
  <1> QED
    BY <1>3, <1>5, <1>6, <1>7, <1>8, <1>9, <1>10 DEF VideoNext

(* As long as no job is run twice at a time, a finished job stays as it    *)
(* is until it is deleted, unless its file is trimmed before the run has   *)
(* looked at its size: what a recovery may break when it takes up a job    *)
(* whose worker is alive (recover_in_progress_video_jobs).                 *)
THEOREM FinishedJobsStay ==
    VideoSpec /\ []OneRun =>
        [][\A j \in Job : Finished(j) => Stays(j)]_videoVars
  <1>1. VideoInit => FinishedInv
    BY DEF VideoInit, FinishedInv
  <1>2. LifecycleInv /\ FinishedInv /\ OneRun /\ [VideoNext]_videoVars =>
           FinishedInv' /\ \A j \in Job : Finished(j) => Stays(j)
    <2> SUFFICES ASSUME LifecycleInv, FinishedInv, OneRun,
                        [VideoNext]_videoVars
                 PROVE  FinishedInv' /\ \A j \in Job : Finished(j) => Stays(j)
      OBVIOUS
    <2>1. CASE \E r \in Run : StartRun(r) \/ Report(r) \/ Mark(r)
      <3>1. PICK r \in Run : StartRun(r) \/ Report(r) \/ Mark(r)
        BY <2>1
      <3>2. run[r] \in {"starting", "generating", "marking"} /\ copy[r] \in Row
        BY <3>1 DEF StartRun, Report, Mark, LifecycleInv, VideoInv, VideoTypeOK
      <3>3. ~Finished(JobOf(r))
        BY <3>2 DEF FinishedInv
      <3>4. CASE Mark(r)
        <4> DEFINE c == [copy[r] EXCEPT !.status = "completed", !.path = TRUE]
        <4>1. Writes(r, c, "measuring", "failing") /\ c.status = "completed"
          BY <3>2, <3>4 DEF Mark, Row
        <4> HIDE DEF c
        <4> QED
          BY <3>2, <3>3, <4>1, WritesFinish
      <3>5. CASE StartRun(r) \/ Report(r)
        <4> DEFINE c == [copy[r] EXCEPT !.status = "in_progress"]
        <4>1. /\ c.status \notin Final
              /\ \/ Writes(r, c, "generating", "none")
                 \/ Writes(r, c, "generating", "failing")
          BY <3>2, <3>5 DEF StartRun, Report, Row, Final
        <4> HIDE DEF c
        <4> QED
          BY <3>2, <3>3, <4>1, WritesFinish
      <3> QED
        BY <3>1, <3>4, <3>5
    <2>2. CASE \E r \in Run : FailRun(r)
      <3>1. PICK r \in Run : FailRun(r)
        BY <2>2
      <3> DEFINE c == [copy[r] EXCEPT !.status = "failed", !.error = TRUE]
      <3>2. copy[r] \in Row
        BY DEF LifecycleInv, VideoInv, VideoTypeOK
      <3>3. /\ run[r] = "failing" /\ Writes(r, c, "none", "none")
            /\ c.status = "failed"
        BY <3>1, <3>2 DEF FailRun, Row
      <3>4. Finished(JobOf(r)) =>
               row[JobOf(r)].status = "completed" /\ JobOf(r) \in dropped
        BY <3>3 DEF FinishedInv
      <3> HIDE DEF c
      <3> QED
        BY <3>3, <3>4, WritesFinish
    <2>3. CASE ~\E r \in Run : StartRun(r) \/ Report(r) \/ Mark(r) \/ FailRun(r)
      BY <2>3, OthersFinish
    <2> QED
      BY <2>1, <2>2, <2>3
  <1>3. VideoSpec /\ []OneRun => []FinishedInv
    BY <1>1, <1>2, LifecycleInvariant, PTL DEF VideoSpec
  <1> QED
    BY <1>2, <1>3, LifecycleInvariant, PTL DEF VideoSpec
=============================================================================
