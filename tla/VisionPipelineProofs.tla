------------------------ MODULE VisionPipelineProofs ------------------------
(***************************************************************************)
(* Theorems about VisionPipeline, for either policy, any queue size, any   *)
(* number of attempts and any bound on epochs, frames and faults.          *)
(*                                                                         *)
(* The inductive invariant VInv follows one frame through the pipeline:    *)
(* the frames of the epoch that were ever received have no gap and the     *)
(* receiver never is beyond them (SeenOK), each of them is in exactly one  *)
(* of queue, worker and completed (PlacesOK), and these three are ordered  *)
(* (OrderOK).                                                              *)
(***************************************************************************)
EXTENDS VisionPipeline, TLAPS

\* The frames of the epoch that were received, since the epoch was entered.
Received(st) == st.queued \cup st.completed

Working == worker.pc # "get"

Older(f, g) == f.epoch < g.epoch \/ (f.epoch = g.epoch /\ f.seq < g.seq)

\* Everything the state keeps is of the current epoch; what was acknowledged or
\* can be is among the completed frames.
CurrentOK ==
    /\ \A f \in Received(state) : f.epoch = state.epoch /\ f.epoch # 0
    /\ state.results \subseteq state.completed
    /\ state.last # -1 => \E f \in state.completed : f.seq = state.last
    /\ feed.up => state.epoch # 0

\* A rewind goes back, never ahead: no frame is left out.
SeenOK ==
    /\ \A f \in Received(state) : \A n \in 0..f.seq :
           [epoch |-> state.epoch, seq |-> n] \in Received(state)
    /\ feed.up => \A n \in 0..(feed.next - 1) :
           [epoch |-> state.epoch, seq |-> n] \in Received(state)

\* A frame that is queued is in the queue or with the worker, and there once.
PlacesOK ==
    /\ state.queued \cap state.completed = {}
    /\ Entries(queue) \subseteq state.queued
    /\ NoneForgotten
    /\ worker.frame.epoch <= state.epoch
    /\ Working /\ ~Stale(worker.frame) => worker.frame \in state.queued
    /\ ~Working => worker.frame = NoFrame

\* The worker is before the queue, and the queue is in order; what was inferred is
\* before both.
OrderOK ==
    /\ \A i, j \in DOMAIN queue : i < j => queue[i].seq < queue[j].seq
    /\ Working /\ ~Stale(worker.frame) =>
           \A i \in DOMAIN queue : worker.frame.seq < queue[i].seq
    /\ \A f \in state.queued : Older(inferred, f)
    /\ inferred.epoch <= state.epoch
    /\ state.epoch # 0 /\ inferred.epoch = state.epoch => inferred \in state.completed

VInv == TypeOK /\ CurrentOK /\ SeenOK /\ PlacesOK /\ OrderOK

----------------------------------------------------------------------------
(* The operators                                                           *)

LEMMA FramesType == NoFrame \in Frames /\ \A f \in Frames : f.epoch \in Nat /\ f.seq \in Nat
    BY DEF NoFrame, Frames

LEMMA FrameIs ==
    ASSUME NEW f \in Frames
    PROVE  f = [epoch |-> f.epoch, seq |-> f.seq]
    BY DEF Frames

LEMMA FrameMade ==
    ASSUME NEW e \in Nat, NEW n \in Nat
    PROVE  [epoch |-> e, seq |-> n] \in Frames
    BY DEF Frames

LEMMA SkipEffect ==
    ASSUME NEW st \in State, NEW dropped \in SUBSET Frames,
           \A f \in dropped : f.epoch = st.epoch
    PROVE  /\ Skip(st, dropped) \in State
           /\ Skip(st, dropped).epoch = st.epoch
           /\ Skip(st, dropped).queued = st.queued \ dropped
           /\ Skip(st, dropped).completed = st.completed \cup dropped
           /\ Skip(st, dropped).results = st.results \cup dropped
           /\ Skip(st, dropped).last = st.last
           /\ Skip(st, dropped).fault = st.fault
           /\ Skip(st, dropped).tracker = st.tracker
<1>1. {f \in dropped : f.epoch = st.epoch} = dropped
    OBVIOUS
<1>2. Skip(st, dropped) = [st EXCEPT !.queued = @ \ dropped,
                                     !.completed = @ \cup dropped,
                                     !.results = @ \cup dropped]
    BY <1>1 DEF Skip
<1> QED
    BY <1>2 DEF State

LEMMA EntriesType ==
    ASSUME NEW q \in Seq(Frames)
    PROVE  Entries(q) \in SUBSET Frames
    BY DEF Entries

LEMMA EntriesOne ==
    ASSUME NEW f \in Frames
    PROVE  <<f>> \in Seq(Frames) /\ Len(<<f>>) = 1 /\ Entries(<<f>>) = {f}
    BY DEF Entries

LEMMA EntriesAppend ==
    ASSUME NEW q \in Seq(Frames), NEW f \in Frames
    PROVE  /\ Append(q, f) \in Seq(Frames) /\ Len(Append(q, f)) = Len(q) + 1
           /\ Entries(Append(q, f)) = Entries(q) \cup {f}
           /\ \A i \in DOMAIN Append(q, f) :
                  Append(q, f)[i] = IF i = Len(q) + 1 THEN f ELSE q[i]
    BY DEF Entries

LEMMA EntriesTail ==
    ASSUME NEW q \in Seq(Frames), q # <<>>
    PROVE  /\ Tail(q) \in Seq(Frames) /\ Len(Tail(q)) = Len(q) - 1
           /\ Head(q) = q[1] /\ Head(q) \in Entries(q) /\ Head(q) \in Frames
           /\ Entries(q) = {Head(q)} \cup Entries(Tail(q))
           /\ \A i \in DOMAIN Tail(q) : Tail(q)[i] = q[i + 1] /\ i + 1 \in DOMAIN q
<1>1. Len(q) \in Nat /\ Len(q) > 0 /\ DOMAIN q = 1..Len(q)
    OBVIOUS
<1>2. Tail(q) \in Seq(Frames) /\ Len(Tail(q)) = Len(q) - 1
    BY <1>1
<1>3. \A i \in DOMAIN Tail(q) : Tail(q)[i] = q[i + 1] /\ i + 1 \in DOMAIN q
    BY <1>1
<1>4. Head(q) = q[1] /\ Head(q) \in Entries(q) /\ Head(q) \in Frames
    BY <1>1 DEF Entries
<1>5. ASSUME NEW f \in Entries(q) PROVE f \in {Head(q)} \cup Entries(Tail(q))
  <2>1. PICK i \in DOMAIN q : f = q[i]
      BY DEF Entries
  <2>2. CASE i = 1
      BY <1>4, <2>1, <2>2
  <2>3. CASE i # 1
    <3>1. i - 1 \in DOMAIN Tail(q) /\ Tail(q)[i - 1] = q[i]
        BY <1>1, <1>2, <2>1, <2>3
    <3> QED
        BY <2>1, <3>1 DEF Entries
  <2> QED
      BY <2>2, <2>3
<1>6. Entries(Tail(q)) \subseteq Entries(q)
    BY <1>3 DEF Entries
<1> QED
    BY <1>2, <1>3, <1>4, <1>5, <1>6

LEMMA EntriesLast ==
    ASSUME NEW q \in Seq(Frames), q # <<>>
    PROVE  q[Len(q)] \in Entries(q) /\ q[Len(q)] \in Frames
<1>1. Len(q) \in DOMAIN q
    OBVIOUS
<1> QED
    BY <1>1 DEF Entries

LEMMA EntriesNone == <<>> \in Seq(Frames) /\ Len(<<>>) = 0 /\ Entries(<<>>) = {}
    BY DEF Entries

----------------------------------------------------------------------------
(* Types                                                                   *)

LEMMA ProceedType ==
    ASSUME NEW st \in State, NEW f \in Frames, Proceed(st, f)
    PROVE  worker' \in Worker
    BY FramesType DEF Proceed, Idle, Worker

LEMMA EnqueueType ==
    ASSUME TypeOK, NEW st \in State, NEW f \in Frames, f.epoch = st.epoch,
           \A g \in Entries(queue) : g.epoch = st.epoch, Enqueue(st, f)
    PROVE  state' \in State /\ queue' \in Seq(Frames) /\ Len(queue') <= QueueSize
<1>1. QueueSize \in Nat \ {0} /\ queue \in Seq(Frames) /\ Len(queue) <= QueueSize
    BY VisionPipelineAssumption DEF TypeOK
<1>2. Entries(queue) \in SUBSET Frames
    BY <1>1, EntriesType
<1>3. CASE policy = "latest"
  <2>1. state' = Skip(st, Entries(queue)) /\ queue' = <<f>>
      BY <1>3 DEF Enqueue
  <2> QED
      BY <1>1, <1>2, <2>1, SkipEffect, EntriesOne
<1>4. CASE policy # "latest" /\ Len(queue) = QueueSize
  <2>1. state' = Skip(st, {f}) /\ queue' = queue
      BY <1>4 DEF Enqueue
  <2>2. {f} \in SUBSET Frames /\ \A g \in {f} : g.epoch = st.epoch
      OBVIOUS
  <2>3. Skip(st, {f}) \in State
      BY <2>2, SkipEffect
  <2> QED
      BY <1>1, <2>1, <2>3
<1>5. CASE policy # "latest" /\ Len(queue) # QueueSize
  <2>1. state' = st /\ queue' = Append(queue, f)
      BY <1>5 DEF Enqueue
  <2> QED
      BY <1>1, <1>5, <2>1, EntriesAppend
<1> QED
    BY <1>3, <1>4, <1>5

----------------------------------------------------------------------------
(* What the steps do to the state                                          *)

LEMMA Bounds == /\ QueueSize \in Nat \ {0} /\ Attempts \in Nat \ {0}
                /\ MaxEpoch \in Nat /\ MaxSeq \in Nat /\ MaxFaults \in Nat
    BY VisionPipelineAssumption

LEMMA EnterEpochEffect ==
    ASSUME state \in State, NEW e \in Nat, EnterEpoch(e)
    PROVE  /\ state' \in State /\ queue' = <<>>
           /\ state'.epoch = e /\ state'.queued = {} /\ state'.completed = {}
           /\ state'.results = {} /\ state'.last = -1
    BY FramesType DEF EnterEpoch, State

\* The frame that Receive is about, and the state it is enqueued in.
NextFrame == [epoch |-> state.epoch, seq |-> feed.next]
WithNext == [state EXCEPT !.queued = @ \cup {NextFrame}]

LEMMA WithEffect ==
    ASSUME TypeOK
    PROVE  /\ NextFrame \in Frames /\ NextFrame.epoch = state.epoch /\ NextFrame.seq = feed.next
           /\ WithNext \in State /\ WithNext.epoch = state.epoch
           /\ WithNext.queued = state.queued \cup {NextFrame}
           /\ WithNext.completed = state.completed /\ WithNext.results = state.results
           /\ WithNext.last = state.last
<1>1. state \in State /\ state.epoch \in Nat /\ feed.next \in Nat
    BY DEF TypeOK, State, Feed
<1>2. NextFrame \in Frames /\ NextFrame.epoch = state.epoch /\ NextFrame.seq = feed.next
    BY <1>1 DEF NextFrame, Frames
<1> QED
    BY <1>1, <1>2 DEF WithNext, State

LEMMA PresentedEffect ==
    ASSUME TypeOK, Presented
    PROVE  /\ state' \in State
           /\ state'.epoch = state.epoch /\ state'.queued = state.queued
           /\ state'.completed = state.completed /\ state'.fault = state.fault
           /\ state'.results \subseteq state.results
           /\ state'.last = state.last \/ \E f \in state.results : state'.last = f.seq
<1>1. PICK f \in state.results :
          state' = [state EXCEPT
                      !.results = {g \in @ : g.epoch # f.epoch \/ g.seq > f.seq},
                      !.last = IF f.seq > @ THEN f.seq ELSE @]
    BY DEF Presented
<1> DEFINE rs == {g \in state.results : g.epoch # f.epoch \/ g.seq > f.seq}
<1> DEFINE la == IF f.seq > state.last THEN f.seq ELSE state.last
<1>2. state \in State /\ f \in Frames /\ f.seq \in Nat
    BY <1>1, FramesType DEF TypeOK, State
<1>3. state' = [state EXCEPT !.results = rs, !.last = la]
    BY <1>1, <1>2 DEF State
<1>4. /\ rs \in SUBSET Frames /\ rs \subseteq state.results
      /\ la \in Nat \cup {-1} /\ (la = state.last \/ la = f.seq)
    BY <1>2 DEF State
<1> HIDE DEF rs, la
<1>5. /\ state' \in State
      /\ state'.epoch = state.epoch /\ state'.queued = state.queued
      /\ state'.completed = state.completed /\ state'.fault = state.fault
      /\ state'.results = rs /\ state'.last = la
    BY <1>2, <1>3, <1>4 DEF State
<1> QED
    BY <1>1, <1>4, <1>5

LEMMA ResyncEffect ==
    ASSUME TypeOK, Resync
    PROVE  /\ state' \in State
           /\ state'.epoch = state.epoch /\ state'.queued = state.queued
           /\ state'.completed = state.completed
           /\ state'.results = {} /\ state'.last = -1
    BY FramesType DEF TypeOK, Resync, State

LEMMA TrackerResetEffect ==
    ASSUME TypeOK, TrackerReset
    PROVE  /\ state' \in State
           /\ state'.epoch = state.epoch /\ state'.queued = state.queued
           /\ state'.completed = state.completed
           /\ state'.results = state.results /\ state'.last = state.last
           /\ worker' \in Worker /\ worker'.frame = worker.frame /\ worker'.pc # "get"
    BY FramesType DEF TypeOK, TrackerReset, State, Worker

LEMMA GiveUpEffect ==
    ASSUME TypeOK, GiveUp
    PROVE  /\ state' \in State
           /\ state'.epoch = state.epoch /\ state'.queued = state.queued
           /\ state'.completed = state.completed
           /\ state'.results = state.results /\ state'.last = state.last
    BY DEF TypeOK, GiveUp, State, Worker

LEMMA InferredEffect ==
    ASSUME TypeOK, Inferred, ~Stale(worker.frame)
    PROVE  /\ state' \in State
           /\ state'.epoch = state.epoch
           /\ state'.queued = state.queued \ {worker.frame}
           /\ state'.completed = state.completed \cup {worker.frame}
           /\ state'.results = state.results \cup {worker.frame}
           /\ state'.last = state.last
           /\ inferred' = worker.frame
<1> DEFINE f == worker.frame
<1>1. state \in State /\ f \in Frames
    BY DEF TypeOK, Worker
<1>2. /\ state' = [state EXCEPT !.queued = @ \ {f}, !.completed = @ \cup {f},
                                !.results = @ \cup {f}]
      /\ inferred' = f
    BY DEF Inferred
<1> HIDE DEF f
<1>3. /\ state' \in State
      /\ state'.epoch = state.epoch
      /\ state'.queued = state.queued \ {f}
      /\ state'.completed = state.completed \cup {f}
      /\ state'.results = state.results \cup {f}
      /\ state'.last = state.last
    BY <1>1, <1>2 DEF State
<1> QED
    BY <1>2, <1>3 DEF f

\* From the top of the worker's loop: either it keeps the frame or it is stale.
LEMMA ProceedEffect ==
    ASSUME NEW st \in State, NEW f \in Frames, Proceed(st, f)
    PROVE  /\ worker' \in Worker
           /\ \/ f.epoch # st.epoch /\ worker'.pc = "get" /\ worker'.frame = NoFrame
              \/ f.epoch = st.epoch /\ worker'.pc # "get" /\ worker'.frame = f
<1>0. worker' \in Worker
    BY ProceedType
<1>1. CASE f.epoch # st.epoch
    BY <1>0, <1>1 DEF Proceed, Idle
<1>2. CASE f.epoch = st.epoch
  <2> DEFINE pc == IF st.fault # NoFrame THEN "faultWait"
                   ELSE IF st.tracker # f.epoch THEN "resetting" ELSE "inferring"
  <2>1. worker' = [pc |-> pc, frame |-> f, attempt |-> 1] /\ pc # "get"
      BY <1>2 DEF Proceed
  <2> HIDE DEF pc
  <2> QED
      BY <1>0, <1>2, <2>1
<1> QED
    BY <1>1, <1>2

----------------------------------------------------------------------------
(* Types of each step                                                      *)

LEMMA TypeStep == TypeOK /\ CurrentOK /\ PlacesOK /\ [Next]_vars => TypeOK'
<1> SUFFICES ASSUME TypeOK, CurrentOK, PlacesOK, [Next]_vars PROVE TypeOK'
    OBVIOUS
<1>0. /\ state \in State /\ worker \in Worker /\ worker.frame \in Frames
      /\ worker.attempt \in Nat /\ feed \in Feed /\ feed.next \in Nat
      /\ state.epoch \in Nat /\ state.last \in Nat \cup {-1}
    BY DEF TypeOK, Worker, State, Feed
<1>a. queue \in Seq(Frames) /\ Len(queue) <= QueueSize
    BY DEF TypeOK
<1>b. \A f \in Entries(queue) : f.epoch = state.epoch
    BY DEF PlacesOK, CurrentOK, Received
<1>f. ASSUME Fault PROVE faults' \in 0..MaxFaults
    BY <1>f, Bounds DEF Fault, TypeOK
<1>1. CASE Connect
  <2>1. PICK e \in {state.epoch, state.epoch + 1} \cap 1..MaxEpoch :
          IF e # state.epoch
          THEN EnterEpoch(e) /\ feed' = [up |-> TRUE, next |-> 0]
          ELSE /\ \E n \in 0..(state.last + 1) : feed' = [up |-> TRUE, next |-> n]
               /\ UNCHANGED <<state, queue>>
      BY <1>1 DEF Connect
  <2>2. CASE e # state.epoch
    <3>a. e \in Nat /\ EnterEpoch(e) /\ feed' = [up |-> TRUE, next |-> 0]
        BY <1>0, <2>1, <2>2
    <3>b. feed' \in Feed
        BY <3>a DEF Feed
    <3>1. state' \in State /\ queue' = <<>> /\ feed' \in Feed
        BY <1>0, <3>a, <3>b, EnterEpochEffect
    <3> QED
        BY <1>1, <3>1, Bounds, EntriesNone DEF Connect, TypeOK
  <2>3. CASE e = state.epoch
    <3>1. PICK n \in 0..(state.last + 1) : feed' = [up |-> TRUE, next |-> n]
        BY <2>1, <2>3
    <3>2. feed' \in Feed
        BY <1>0, <3>1 DEF Feed
    <3> QED
        BY <1>1, <2>1, <2>3, <3>2 DEF Connect, TypeOK
  <2> QED
      BY <2>2, <2>3
<1>2. CASE Reset
  <2>1. PICK e \in {state.epoch, state.epoch + 1} \cap 1..MaxEpoch : EnterEpoch(e)
      BY <1>2 DEF Reset
  <2>2. state' \in State /\ queue' = <<>>
      BY <1>0, <2>1, EnterEpochEffect
  <2>3. feed' \in Feed
      BY <1>0, <1>2 DEF Reset, Feed
  <2> QED
      BY <1>2, <2>2, <2>3, Bounds, EntriesNone DEF Reset, TypeOK
<1>3. CASE Receive
  <2>1. feed' \in Feed
      BY <1>0, <1>3 DEF Receive, Feed
  <2>2. IF Seen(state, NextFrame) THEN UNCHANGED <<state, queue>> ELSE Enqueue(WithNext, NextFrame)
      BY <1>3 DEF Receive, NextFrame, WithNext
  <2>3. CASE Seen(state, NextFrame)
      BY <1>3, <2>1, <2>2, <2>3 DEF Receive, TypeOK
  <2>4. CASE ~Seen(state, NextFrame)
    <3>1. state' \in State /\ queue' \in Seq(Frames) /\ Len(queue') <= QueueSize
        BY <1>b, <2>2, <2>4, WithEffect, EnqueueType
    <3> QED
        BY <1>3, <2>1, <3>1 DEF Receive, TypeOK
  <2> QED
      BY <2>3, <2>4
<1>4. CASE Leave
  <2>1. feed' \in Feed
      BY <1>0, <1>4 DEF Leave, Feed
  <2> QED
      BY <1>4, <1>f, <2>1 DEF Leave, TypeOK
<1>5. CASE Presented
    BY <1>5, PresentedEffect DEF Presented, TypeOK
<1>6. CASE Resync
    BY <1>6, <1>f, ResyncEffect DEF Resync, TypeOK
<1>7. CASE Take
  <2>1. CASE policy = "latest"
    <3> DEFINE f == queue[Len(queue)]
    <3>1. /\ state' = Skip(state, Entries(queue) \ {f})
          /\ queue' = <<>> /\ Proceed(state, f) /\ queue # <<>>
        BY <1>7, <2>1 DEF Take
    <3>2. f \in Frames /\ Entries(queue) \ {f} \in SUBSET Frames
        BY <1>a, <3>1, EntriesLast, EntriesType
    <3> HIDE DEF f
    <3>3. state' \in State
        BY <1>0, <1>b, <3>1, <3>2, SkipEffect
    <3>4. worker' \in Worker
        BY <1>0, <3>1, <3>2, ProceedType
    <3> QED
        BY <1>7, <3>1, <3>3, <3>4, Bounds, EntriesNone DEF Take, TypeOK
  <2>2. CASE policy # "latest"
    <3>1. queue' = Tail(queue) /\ Proceed(state, Head(queue)) /\ state' = state
        BY <1>7, <2>2 DEF Take
    <3>2. /\ Tail(queue) \in Seq(Frames) /\ Len(Tail(queue)) = Len(queue) - 1
          /\ Head(queue) \in Frames
        BY <1>7, <1>a, EntriesTail DEF Take
    <3>3. worker' \in Worker
        BY <1>0, <3>1, <3>2, ProceedType
    <3>4. Len(Tail(queue)) <= QueueSize
        BY <1>a, <3>2, Bounds
    <3> QED
        BY <1>7, <3>1, <3>2, <3>3, <3>4 DEF Take, TypeOK
  <2> QED
      BY <2>1, <2>2
<1>8. CASE Released
  <2>1. worker' \in Worker
      BY <1>0, <1>8, ProceedType DEF Released
  <2> QED
      BY <1>8, <2>1 DEF Released, TypeOK
<1>9. CASE TrackerReset
    BY <1>9, TrackerResetEffect DEF TrackerReset, TypeOK
<1>10. CASE Inferred
  <2>1. worker' \in Worker
      BY <1>10, FramesType DEF Inferred, Idle, Worker
  <2>2. CASE Stale(worker.frame)
      BY <1>10, <2>1, <2>2 DEF Inferred, TypeOK
  <2>3. CASE ~Stale(worker.frame)
    <3>1. state' \in State /\ inferred' = worker.frame
        BY <1>10, <2>3, InferredEffect
    <3> QED
        BY <1>0, <1>10, <2>1, <3>1 DEF Inferred, TypeOK
  <2> QED
      BY <2>2, <2>3
<1>11. CASE TryAgain
  <2>1. worker' \in Worker
      BY <1>0, <1>11 DEF TryAgain, Worker
  <2> QED
      BY <1>11, <2>1 DEF TryAgain, TypeOK
<1>12. CASE BackoffOver
  <2>a. /\ worker' = [worker EXCEPT !.pc = "inferring", !.attempt = @ + 1]
        /\ worker.attempt + 1 \in Nat
      BY <1>0, <1>12 DEF BackoffOver
  <2>1. worker' \in Worker
      BY <1>0, <2>a DEF Worker
  <2> QED
      BY <1>12, <2>1 DEF BackoffOver, TypeOK
<1>13. CASE GiveUp
  <2>1. state' \in State
      BY <1>13, GiveUpEffect
  <2>2. Proceed(state', worker.frame)
      BY <1>13 DEF GiveUp
  <2>3. worker' \in Worker
      BY <1>0, <2>1, <2>2, ProceedType
  <2> QED
      BY <1>13, <2>1, <2>3 DEF GiveUp, TypeOK
<1>14. CASE UNCHANGED vars
    BY <1>14 DEF vars, TypeOK
<1> QED
    BY <1>1, <1>2, <1>3, <1>4, <1>5, <1>6, <1>7, <1>8, <1>9, <1>10, <1>11, <1>12,
       <1>13, <1>14 DEF Next, Work

----------------------------------------------------------------------------
(* The way of a frame                                                      *)

FlowOK == CurrentOK /\ SeenOK /\ PlacesOK /\ OrderOK

\* The types the proofs below use.
LEMMA FlowTypes ==
    ASSUME TypeOK
    PROVE  /\ state \in State /\ state.epoch \in Nat /\ state.last \in Nat \cup {-1}
           /\ state.queued \in SUBSET Frames /\ state.completed \in SUBSET Frames
           /\ Received(state) \in SUBSET Frames
           /\ queue \in Seq(Frames) /\ Entries(queue) \in SUBSET Frames
           /\ \A i \in DOMAIN queue : queue[i] \in Frames /\ queue[i] \in Entries(queue)
           /\ worker.frame \in Frames /\ worker.frame.epoch \in Nat
           /\ worker.frame.seq \in Nat
           /\ inferred \in Frames /\ inferred.epoch \in Nat /\ inferred.seq \in Nat
           /\ feed.next \in Nat
    BY EntriesType DEF TypeOK, State, Worker, Feed, Frames, Received, Entries

LEMMA FlowEnterEpoch ==
    ASSUME TypeOK, FlowOK, NEW e \in Nat \ {0}, e >= state.epoch,
           e = state.epoch => Received(state) = {}, EnterEpoch(e),
           feed'.next = 0, worker' = worker, inferred' = inferred
    PROVE  FlowOK'
<1>1. /\ queue' = <<>> /\ state'.epoch = e
      /\ state'.queued = {} /\ state'.completed = {}
      /\ state'.results = {} /\ state'.last = -1
    BY FlowTypes, EnterEpochEffect
<1>2. Received(state)' = {}
    BY <1>1 DEF Received
<1>3. CurrentOK'
    BY <1>1, <1>2 DEF CurrentOK
<1>4. SeenOK'
    BY <1>1, <1>2 DEF SeenOK
<1>5. PlacesOK'
  <2>1. worker.frame.epoch <= e
      BY FlowTypes DEF FlowOK, PlacesOK
  <2>2. ~(Working /\ worker.frame.epoch = e)
    <3> SUFFICES ASSUME Working, worker.frame.epoch = e PROVE FALSE
        OBVIOUS
    <3>1. e = state.epoch
        BY FlowTypes DEF FlowOK, PlacesOK
    <3>2. worker.frame \in state.queued
        BY <3>1 DEF FlowOK, PlacesOK, Stale
    <3> QED
        BY <3>1, <3>2 DEF Received
  <2>3. Entries(queue') = {}
      BY <1>1, EntriesNone
  <2> QED
      BY <1>1, <2>1, <2>2, <2>3 DEF FlowOK, PlacesOK, NoneForgotten, Working, Stale, Entries
<1>6. OrderOK'
  <2>1. inferred.epoch <= e
      BY FlowTypes DEF FlowOK, OrderOK
  <2>2. inferred.epoch # e
    <3> SUFFICES ASSUME inferred.epoch = e PROVE FALSE
        OBVIOUS
    <3>1. e = state.epoch
        BY FlowTypes DEF FlowOK, OrderOK
    <3>2. inferred \in state.completed
        BY <3>1 DEF FlowOK, OrderOK
    <3> QED
        BY <3>1, <3>2 DEF Received
  <2>3. DOMAIN queue' = {}
      BY <1>1
  <2> QED
      BY <1>1, <2>1, <2>2, <2>3 DEF OrderOK
<1> QED
    BY <1>3, <1>4, <1>5, <1>6 DEF FlowOK

\* Steps that move no frame: the worker goes on with its frame, or drops a stale one.
LEMMA FlowKept ==
    ASSUME TypeOK, FlowOK,
           state'.epoch = state.epoch, state'.queued = state.queued,
           state'.completed = state.completed, queue' = queue, inferred' = inferred,
           state'.results \subseteq state.results,
           \/ state'.last \in {-1, state.last}
           \/ \E f \in state.results : state'.last = f.seq,
           feed'.up => /\ state.epoch # 0
                       /\ \A n \in 0..(feed'.next - 1) :
                              [epoch |-> state.epoch, seq |-> n] \in Received(state),
           \/ worker' = worker
           \/ worker.pc # "get" /\ worker'.pc # "get" /\ worker'.frame = worker.frame
           \/ Stale(worker.frame) /\ worker'.pc = "get" /\ worker'.frame = NoFrame
    PROVE  FlowOK'
<1>1. Received(state)' = Received(state)
    BY DEF Received
<1>2. CurrentOK'
    BY <1>1 DEF FlowOK, CurrentOK
<1>3. SeenOK'
    BY <1>1 DEF FlowOK, SeenOK
<1>4. Stale(worker.frame)' <=> worker'.frame.epoch # state.epoch
    BY DEF Stale
<1>5. PlacesOK'
  <2>1. CASE worker'.frame = worker.frame /\ (Working' <=> Working)
      BY <1>4, <2>1 DEF FlowOK, PlacesOK, NoneForgotten, Stale
  <2>2. CASE Stale(worker.frame) /\ worker'.pc = "get" /\ worker'.frame = NoFrame
    <3>1. worker.frame \notin state.queued
        BY <2>2 DEF Stale, FlowOK, CurrentOK, Received
    <3>2. NoFrame.epoch <= state.epoch
        BY FlowTypes DEF NoFrame
    <3> QED
        BY <2>2, <3>1, <3>2 DEF FlowOK, PlacesOK, NoneForgotten, Working
  <2> QED
      BY <2>1, <2>2 DEF Working
<1>6. OrderOK'
  <2>1. CASE worker'.frame = worker.frame /\ (Working' <=> Working)
      BY <1>4, <2>1 DEF FlowOK, OrderOK, Stale
  <2>2. CASE ~Working'
      BY <2>2 DEF FlowOK, OrderOK
  <2> QED
      BY <2>1, <2>2 DEF Working
<1> QED
    BY <1>2, <1>3, <1>5, <1>6 DEF FlowOK

\* A new frame is ahead of every frame of the epoch.
LEMMA NextIsNewest ==
    ASSUME TypeOK, FlowOK, feed.up, ~Seen(state, NextFrame)
    PROVE  \A g \in Received(state) : g.seq < NextFrame.seq /\ g # NextFrame
<1> SUFFICES ASSUME NEW g \in Received(state), ~(g.seq < NextFrame.seq) PROVE FALSE
    BY FlowTypes, FramesType
<1>1. g.seq \in Nat /\ NextFrame.seq = feed.next /\ feed.next \in Nat
    BY FlowTypes, FramesType, WithEffect
<1>2. feed.next \in 0..g.seq
    BY <1>1
<1>3. NextFrame \in Received(state)
    BY <1>2 DEF FlowOK, SeenOK, NextFrame
<1> QED
    BY <1>3 DEF Seen, Received

LEMMA WorkerNotQueued ==
    ASSUME TypeOK, FlowOK, Working, ~Stale(worker.frame)
    PROVE  worker.frame \notin Entries(queue)
<1> SUFFICES ASSUME NEW i \in DOMAIN queue, queue[i] = worker.frame PROVE FALSE
    BY DEF Entries
<1>1. worker.frame.seq < queue[i].seq
    BY DEF FlowOK, OrderOK
<1>2. worker.frame.seq < worker.frame.seq /\ worker.frame.seq \in Nat
    BY <1>1, FlowTypes
<1> QED
    BY <1>2

\* Where Enqueue leaves the new frame, and the others.
LEMMA FlowEnqueue ==
    ASSUME TypeOK, FlowOK, feed.up, ~Seen(state, NextFrame), Enqueue(WithNext, NextFrame),
           feed' = [feed EXCEPT !.next = @ + 1], worker' = worker, inferred' = inferred
    PROVE  FlowOK'
<1> DEFINE f == NextFrame
<1>1. /\ f \in Frames /\ f.epoch = state.epoch /\ f.seq = feed.next
      /\ WithNext \in State /\ WithNext.epoch = state.epoch
      /\ WithNext.queued = state.queued \cup {f}
      /\ WithNext.completed = state.completed /\ WithNext.results = state.results
      /\ WithNext.last = state.last
    BY WithEffect
<1>2. \A g \in Received(state) : g.seq < f.seq /\ g # f
    BY NextIsNewest
<1> HIDE DEF f
<1>3. /\ Entries(queue) \in SUBSET Frames /\ Entries(queue) \subseteq state.queued
      /\ \A g \in state.queued \cup state.completed : g.epoch = state.epoch
    BY FlowTypes DEF FlowOK, PlacesOK, CurrentOK, Received
<1>4. f \notin state.queued \cup state.completed
    BY <1>2 DEF Received
<1>5. state.epoch # 0
    BY DEF FlowOK, CurrentOK
<1>6. feed'.up = feed.up /\ feed'.next = feed.next + 1 /\ feed.next \in Nat
    BY FlowTypes DEF TypeOK, Feed
<1>7. \A g \in state.queued \cup {f} : Older(inferred, g)
  <2>1. Older(inferred, f)
    <3>1. CASE inferred.epoch = state.epoch
      <4>1. inferred \in Received(state)
          BY <1>5, <3>1 DEF FlowOK, OrderOK, Received
      <4> QED
          BY <1>1, <1>2, <3>1, <4>1 DEF Older
    <3>2. CASE inferred.epoch # state.epoch
        BY <1>1, <3>2, FlowTypes DEF FlowOK, OrderOK, Older
    <3> QED
        BY <3>1, <3>2
  <2> QED
      BY <2>1 DEF FlowOK, OrderOK
<1>8. worker.frame # f /\ (Working /\ ~Stale(worker.frame) => worker.frame.seq < f.seq)
  <2>1. Working /\ ~Stale(worker.frame) => worker.frame \in Received(state)
      BY DEF FlowOK, PlacesOK, Received
  <2>2. ~Working => worker.frame.epoch = 0
      BY DEF FlowOK, PlacesOK, NoFrame
  <2> QED
      BY <1>1, <1>2, <1>5, <2>1, <2>2 DEF Stale
<1> DEFINE Moved(D) ==
      /\ D \subseteq state.queued \cup {f}
      /\ state'.epoch = state.epoch
      /\ state'.queued = (state.queued \cup {f}) \ D
      /\ state'.completed = state.completed \cup D
      /\ state'.results = state.results \cup D
      /\ state'.last = state.last
<1>9. ASSUME NEW D, Moved(D) PROVE CurrentOK' /\ SeenOK'
  <2>1. Received(state)' = Received(state) \cup {f}
      BY <1>9 DEF Received
  <2>2. CurrentOK'
      BY <1>1, <1>5, <1>9, <2>1 DEF FlowOK, CurrentOK
  <2>3. ASSUME NEW n \in 0..f.seq
        PROVE  [epoch |-> state.epoch, seq |-> n] \in Received(state) \cup {f}
    <3>1. CASE n = f.seq
        BY <1>1, <3>1, FrameIs
    <3>2. CASE n # f.seq
      <4>1. n \in 0..(feed.next - 1)
          BY <1>1, <1>6, <2>3, <3>2
      <4> QED
          BY <4>1 DEF FlowOK, SeenOK
    <3> QED
        BY <3>1, <3>2
  <2>4. \A n \in 0..(feed'.next - 1) : n \in 0..f.seq
      BY <1>1, <1>6
  <2>5. SeenOK'
      BY <1>1, <1>9, <2>1, <2>3, <2>4 DEF FlowOK, SeenOK
  <2> QED
      BY <2>2, <2>5
<1>10. CASE policy = "latest"
  <2>1. state' = Skip(WithNext, Entries(queue)) /\ queue' = <<f>>
      BY <1>10 DEF Enqueue, f
  <2>2. Moved(Entries(queue))
      BY <1>1, <1>3, <2>1, SkipEffect
  <2>3. Entries(queue') = {f} /\ DOMAIN queue' = {1} /\ queue'[1] = f
      BY <1>1, <2>1, EntriesOne
  <2>4. f \notin Entries(queue)
      BY <1>3, <1>4
  <2>5. Working /\ ~Stale(worker.frame) => worker.frame \notin Entries(queue)
      BY WorkerNotQueued
  <2>6. PlacesOK'
      BY <1>3, <1>4, <2>2, <2>3, <2>4, <2>5 DEF FlowOK, PlacesOK, NoneForgotten, Working, Stale
  <2>7. OrderOK'
      BY <1>7, <1>8, <2>2, <2>3 DEF FlowOK, OrderOK, Working, Stale
  <2> QED
      BY <1>9, <2>2, <2>6, <2>7 DEF FlowOK
<1>11. CASE policy # "latest" /\ Len(queue) = QueueSize
  <2>1. state' = Skip(WithNext, {f}) /\ queue' = queue
      BY <1>11 DEF Enqueue, f
  <2>2. Moved({f})
      BY <1>1, <2>1, SkipEffect
  <2>3. state'.queued = state.queued
      BY <1>4, <2>2
  <2>4. PlacesOK'
      BY <1>4, <1>8, <2>1, <2>2, <2>3 DEF FlowOK, PlacesOK, NoneForgotten, Working, Stale
  <2>5. OrderOK'
      BY <2>1, <2>2, <2>3 DEF FlowOK, OrderOK, Working, Stale
  <2> QED
      BY <1>9, <2>2, <2>4, <2>5 DEF FlowOK
<1>12. CASE policy # "latest" /\ Len(queue) # QueueSize
  <2>1. state' = WithNext /\ queue' = Append(queue, f)
      BY <1>12 DEF Enqueue, f
  <2>2. Moved({})
      BY <1>1, <2>1
  <2>3. /\ Entries(queue') = Entries(queue) \cup {f}
        /\ \A i \in DOMAIN queue' : queue'[i] = IF i = Len(queue) + 1 THEN f ELSE queue[i]
        /\ DOMAIN queue = 1..Len(queue) /\ DOMAIN queue' = 1..(Len(queue) + 1)
        /\ Len(queue) \in Nat
      BY <1>1, <2>1, FlowTypes, EntriesAppend
  <2>4. PlacesOK'
      BY <1>3, <1>4, <2>2, <2>3 DEF FlowOK, PlacesOK, NoneForgotten, Working, Stale
  <2>5. \A i \in DOMAIN queue : queue[i].seq < f.seq
      BY <1>2, <1>3, FlowTypes DEF Received
  <2>6. \A i, j \in DOMAIN queue' : i < j => queue'[i].seq < queue'[j].seq
    <3> SUFFICES ASSUME NEW i \in DOMAIN queue', NEW j \in DOMAIN queue', i < j
                 PROVE  queue'[i].seq < queue'[j].seq
        OBVIOUS
    <3>1. i \in DOMAIN queue /\ i # Len(queue) + 1
        BY <2>3
    <3>2. CASE j = Len(queue) + 1
        BY <2>3, <2>5, <3>1, <3>2
    <3>3. CASE j # Len(queue) + 1
      <4>1. j \in DOMAIN queue
          BY <2>3, <3>3
      <4> QED
          BY <2>3, <3>1, <3>3, <4>1 DEF FlowOK, OrderOK
    <3> QED
        BY <3>2, <3>3
  <2>7. OrderOK'
    <3>1. Working /\ ~Stale(worker.frame) =>
              \A i \in DOMAIN queue' : worker.frame.seq < queue'[i].seq
        BY <1>8, <2>3 DEF FlowOK, OrderOK
    <3>2. (Working' <=> Working) /\ (Stale(worker.frame)' <=> Stale(worker.frame))
        BY <2>2 DEF Working, Stale
    <3>3. /\ inferred.epoch <= state.epoch
          /\ state.epoch # 0 /\ inferred.epoch = state.epoch =>
                 inferred \in state.completed
        BY DEF FlowOK, OrderOK
    <3>4. \A g \in state'.queued : Older(inferred', g)
        BY <1>7, <2>2
    <3> QED
        BY <2>2, <2>6, <3>1, <3>2, <3>3, <3>4 DEF OrderOK
  <2>8. CurrentOK' /\ SeenOK'
    <3> HIDE DEF Moved
    <3> QED
        BY <1>9, <2>2
  <2> QED
      BY <2>4, <2>7, <2>8 DEF FlowOK
<1> QED
    BY <1>10, <1>11, <1>12

\* The worker takes the newest frame that waits, and the others are left out.
LEMMA FlowTakeLatest ==
    ASSUME TypeOK, FlowOK, Take, policy = "latest"
    PROVE  FlowOK'
<1> DEFINE f == queue[Len(queue)]
<1> DEFINE D == Entries(queue) \ {f}
<1>1. /\ ~Working /\ queue # <<>> /\ state' = Skip(state, D) /\ queue' = <<>>
      /\ Proceed(state, f) /\ feed' = feed /\ inferred' = inferred
    BY DEF Take, Working
<1>2. f \in Frames /\ f \in Entries(queue)
    BY <1>1, FlowTypes, EntriesLast
<1> HIDE DEF f
<1>3. /\ D \in SUBSET Frames /\ D \subseteq state.queued /\ f \in state.queued
      /\ \A g \in Received(state) : g.epoch = state.epoch /\ g.epoch # 0
    BY <1>2, FlowTypes DEF FlowOK, PlacesOK, CurrentOK
<1>4. f.epoch = state.epoch /\ \A g \in D : g.epoch = state.epoch
    BY <1>3 DEF Received
<1>5. /\ state'.epoch = state.epoch
      /\ state'.queued = state.queued \ D
      /\ state'.completed = state.completed \cup D
      /\ state'.results = state.results \cup D
      /\ state'.last = state.last
    BY <1>1, <1>3, <1>4, FlowTypes, SkipEffect
<1>6. worker'.pc # "get" /\ worker'.frame = f
    BY <1>1, <1>2, <1>4, FlowTypes, ProceedEffect
<1>7. state.queued \subseteq Entries(queue)
  <2>1. worker.frame = NoFrame /\ NoFrame.epoch = 0
      BY <1>1 DEF FlowOK, PlacesOK, NoFrame
  <2>2. NoFrame \notin state.queued
      BY <1>3, <2>1 DEF Received
  <2> QED
      BY <2>1, <2>2 DEF FlowOK, PlacesOK, NoneForgotten
<1>8. state'.queued = {f}
    BY <1>2, <1>3, <1>5, <1>7
<1>9. Received(state)' = Received(state)
    BY <1>3, <1>5 DEF Received
<1>10. Entries(queue') = {} /\ DOMAIN queue' = {}
    BY <1>1, EntriesNone
<1> HIDE DEF D
<1>11. CurrentOK'
    BY <1>1, <1>5, <1>9 DEF FlowOK, CurrentOK
<1>12. SeenOK'
    BY <1>1, <1>5, <1>9 DEF FlowOK, SeenOK
<1>13. PlacesOK'
  <2>1. f \notin state'.completed
      BY <1>3, <1>5 DEF FlowOK, PlacesOK, D
  <2>2. f.epoch <= state.epoch
      BY <1>4, FlowTypes
  <2> QED
      BY <1>4, <1>5, <1>6, <1>8, <1>10, <2>1, <2>2
      DEF PlacesOK, NoneForgotten, Working, Stale
<1>14. OrderOK'
    BY <1>1, <1>3, <1>5, <1>8, <1>10 DEF FlowOK, OrderOK
<1> QED
    BY <1>11, <1>12, <1>13, <1>14 DEF FlowOK

LEMMA FlowTakeFirst ==
    ASSUME TypeOK, FlowOK, Take, policy # "latest"
    PROVE  FlowOK'
<1> DEFINE f == Head(queue)
<1>1. /\ ~Working /\ queue # <<>> /\ state' = state /\ queue' = Tail(queue)
      /\ Proceed(state, f) /\ feed' = feed /\ inferred' = inferred
    BY DEF Take, Working
<1>2. /\ f = queue[1] /\ f \in Entries(queue) /\ f \in Frames
      /\ Entries(queue) = {f} \cup Entries(queue')
      /\ \A i \in DOMAIN queue' : queue'[i] = queue[i + 1] /\ i + 1 \in DOMAIN queue
      /\ DOMAIN queue = 1..Len(queue) /\ Len(queue) \in Nat /\ Len(queue) >= 1
      /\ DOMAIN queue' \subseteq Nat \ {0}
    BY <1>1, FlowTypes, EntriesTail
<1> HIDE DEF f
<1>3. f \in state.queued /\ f.epoch = state.epoch /\ state.epoch # 0
    BY <1>2 DEF FlowOK, PlacesOK, CurrentOK, Received
<1>4. worker'.pc # "get" /\ worker'.frame = f
    BY <1>1, <1>2, <1>3, FlowTypes, ProceedEffect
<1>5. Received(state)' = Received(state)
    BY <1>1 DEF Received
<1>6. CurrentOK' /\ SeenOK'
    BY <1>1, <1>5 DEF FlowOK, CurrentOK, SeenOK
<1>7. PlacesOK'
  <2>1. NoFrame \notin state.queued /\ worker.frame = NoFrame
      BY <1>1 DEF FlowOK, PlacesOK, CurrentOK, Received, NoFrame
  <2>2. state.queued \subseteq Entries(queue') \cup {f}
      BY <1>2, <2>1 DEF FlowOK, PlacesOK, NoneForgotten
  <2>3. f.epoch <= state.epoch
      BY <1>3, FlowTypes
  <2> QED
      BY <1>1, <1>2, <1>3, <1>4, <2>2, <2>3
      DEF FlowOK, PlacesOK, NoneForgotten, Working, Stale
<1>8. OrderOK'
  <2>1. \A i, j \in DOMAIN queue' : i < j => queue'[i].seq < queue'[j].seq
    <3> SUFFICES ASSUME NEW i \in DOMAIN queue', NEW j \in DOMAIN queue', i < j
                 PROVE  queue'[i].seq < queue'[j].seq
        OBVIOUS
    <3>1. i + 1 < j + 1 /\ i + 1 \in DOMAIN queue /\ j + 1 \in DOMAIN queue
        BY <1>2
    <3>2. queue[i + 1].seq < queue[j + 1].seq
        BY <3>1 DEF FlowOK, OrderOK
    <3> QED
        BY <1>2, <3>2
  <2>2. \A i \in DOMAIN queue' : f.seq < queue'[i].seq
    <3> SUFFICES ASSUME NEW i \in DOMAIN queue' PROVE f.seq < queue'[i].seq
        OBVIOUS
    <3>1. 1 < i + 1 /\ i + 1 \in DOMAIN queue /\ 1 \in DOMAIN queue
        BY <1>2
    <3>2. queue[1].seq < queue[i + 1].seq
        BY <3>1 DEF FlowOK, OrderOK
    <3> QED
        BY <1>2, <3>2
  <2> QED
      BY <1>1, <1>4, <2>1, <2>2 DEF FlowOK, OrderOK
<1> QED
    BY <1>6, <1>7, <1>8 DEF FlowOK

LEMMA FlowInferred ==
    ASSUME TypeOK, FlowOK, Inferred
    PROVE  FlowOK'
<1> DEFINE f == worker.frame
<1>1. /\ Working /\ queue' = queue /\ feed' = feed
      /\ worker'.pc = "get" /\ worker'.frame = NoFrame
    BY DEF Inferred, Working, Idle
<1>2. CASE Stale(f)
  <2>1. state' = state /\ inferred' = inferred
      BY <1>2 DEF Inferred
  <2>2. feed.up => /\ state.epoch # 0
                   /\ \A n \in 0..(feed.next - 1) :
                          [epoch |-> state.epoch, seq |-> n] \in Received(state)
      BY DEF FlowOK, CurrentOK, SeenOK
  <2> QED
      BY <1>1, <1>2, <2>1, <2>2, FlowKept
<1>3. CASE ~Stale(f)
  <2>1. /\ state'.epoch = state.epoch
        /\ state'.queued = state.queued \ {f}
        /\ state'.completed = state.completed \cup {f}
        /\ state'.results = state.results \cup {f}
        /\ state'.last = state.last
        /\ inferred' = f
      BY <1>3, InferredEffect
  <2>2. f \in state.queued /\ f.epoch = state.epoch /\ f.epoch <= state.epoch
      BY <1>1, <1>3, FlowTypes DEF FlowOK, PlacesOK, Stale
  <2>3. f \notin Entries(queue)
      BY <1>1, <1>3, WorkerNotQueued
  <2>4. \A i \in DOMAIN queue : f.seq < queue[i].seq
      BY <1>1, <1>3 DEF FlowOK, OrderOK
  <2>5. Received(state)' = Received(state)
      BY <2>1, <2>2 DEF Received
  <2>6. CurrentOK' /\ SeenOK'
      BY <1>1, <2>1, <2>5 DEF FlowOK, CurrentOK, SeenOK
  <2>7. state'.queued \subseteq Entries(queue)
      BY <2>1 DEF FlowOK, PlacesOK, NoneForgotten
  <2>8. PlacesOK'
    <3>1. NoFrame.epoch <= state.epoch
        BY FlowTypes DEF NoFrame
    <3> QED
        BY <1>1, <2>1, <2>3, <2>7, <3>1 DEF FlowOK, PlacesOK, NoneForgotten, Working
  <2>9. \A g \in state'.queued : Older(f, g)
    <3> SUFFICES ASSUME NEW g \in state'.queued PROVE Older(f, g)
        OBVIOUS
    <3>1. g.epoch = state.epoch
        BY <2>1 DEF FlowOK, CurrentOK, Received
    <3>2. PICK i \in DOMAIN queue : g = queue[i]
        BY <2>7 DEF Entries
    <3> QED
        BY <2>2, <2>4, <3>1, <3>2 DEF Older
  <2>10. OrderOK'
    <3>1. ~Working'
        BY <1>1 DEF Working
    <3> QED
        BY <1>1, <2>1, <2>2, <2>9, <3>1 DEF FlowOK, OrderOK
  <2> QED
      BY <2>6, <2>8, <2>10 DEF FlowOK
<1> QED
    BY <1>2, <1>3

\* The relay goes on with the epoch, or the receiver enters the next one.
LEMMA FlowConnect ==
    ASSUME TypeOK, FlowOK, Connect
    PROVE  FlowOK'
<1>1. PICK e \in {state.epoch, state.epoch + 1} \cap 1..MaxEpoch :
        IF e # state.epoch
        THEN EnterEpoch(e) /\ feed' = [up |-> TRUE, next |-> 0]
        ELSE /\ \E n \in 0..(state.last + 1) : feed' = [up |-> TRUE, next |-> n]
             /\ UNCHANGED <<state, queue>>
    BY DEF Connect
<1>2. worker' = worker /\ inferred' = inferred
    BY DEF Connect
<1>3. e \in Nat \ {0} /\ e >= state.epoch
    BY FlowTypes
<1>4. CASE e # state.epoch
  <2>1. EnterEpoch(e) /\ feed'.next = 0
      BY <1>1, <1>4
  <2> QED
      BY <1>2, <1>3, <1>4, <2>1, FlowEnterEpoch
<1>5. CASE e = state.epoch
  <2>1. PICK n \in 0..(state.last + 1) : feed' = [up |-> TRUE, next |-> n]
      BY <1>1, <1>5
  <2>2. UNCHANGED <<state, queue>>
      BY <1>1, <1>5
  <2>3. ASSUME NEW m \in 0..(n - 1)
        PROVE  [epoch |-> state.epoch, seq |-> m] \in Received(state)
    <3>1. state.last \in Nat /\ m \in 0..state.last
        BY <2>1, <2>3, FlowTypes
    <3>2. PICK f \in state.completed : f.seq = state.last
        BY <3>1 DEF FlowOK, CurrentOK
    <3> QED
        BY <3>1, <3>2 DEF FlowOK, SeenOK, Received
  <2>4. feed'.next = n /\ state.epoch # 0
      BY <1>3, <1>5, <2>1
  <2> QED
      BY <1>2, <2>2, <2>3, <2>4, FlowKept
<1> QED
    BY <1>4, <1>5

LEMMA FlowReset ==
    ASSUME TypeOK, FlowOK, Reset
    PROVE  FlowOK'
<1>1. PICK e \in {state.epoch, state.epoch + 1} \cap 1..MaxEpoch :
          /\ e = state.epoch => state.queued \cup state.completed = {}
          /\ EnterEpoch(e)
    BY DEF Reset
<1>2. worker' = worker /\ inferred' = inferred /\ feed' = [feed EXCEPT !.next = 0]
    BY DEF Reset
<1>3. e \in Nat \ {0} /\ e >= state.epoch
    BY FlowTypes
<1>4. feed'.next = 0
    BY <1>2 DEF TypeOK, Feed
<1> QED
    BY <1>1, <1>2, <1>3, <1>4, FlowEnterEpoch DEF Received

LEMMA FlowReceive ==
    ASSUME TypeOK, FlowOK, Receive
    PROVE  FlowOK'
<1>1. /\ feed.up /\ feed' = [feed EXCEPT !.next = @ + 1]
      /\ worker' = worker /\ inferred' = inferred
      /\ IF Seen(state, NextFrame) THEN UNCHANGED <<state, queue>>
         ELSE Enqueue(WithNext, NextFrame)
    BY DEF Receive, NextFrame, WithNext
<1>2. CASE Seen(state, NextFrame)
  <2>1. NextFrame \in Received(state)
      BY <1>2 DEF Seen, Received
  <2>2. feed'.next = feed.next + 1 /\ feed.next \in Nat
      BY <1>1, FlowTypes DEF TypeOK, Feed
  <2>3. ASSUME NEW n \in 0..(feed'.next - 1)
        PROVE  [epoch |-> state.epoch, seq |-> n] \in Received(state)
    <3>1. CASE n = feed.next
        BY <2>1, <3>1 DEF NextFrame
    <3>2. CASE n # feed.next
      <4>1. n \in 0..(feed.next - 1)
          BY <2>2, <3>2
      <4> QED
          BY <1>1, <4>1 DEF FlowOK, SeenOK
    <3> QED
        BY <3>1, <3>2
  <2>4. state' = state /\ queue' = queue
      BY <1>1, <1>2
  <2>5. state.epoch # 0
      BY <1>1 DEF FlowOK, CurrentOK
  <2> QED
      BY <1>1, <2>3, <2>4, <2>5, FlowKept
<1>3. CASE ~Seen(state, NextFrame)
    BY <1>1, <1>3, FlowEnqueue
<1> QED
    BY <1>2, <1>3

LEMMA FlowStep == TypeOK /\ FlowOK /\ [Next]_vars => FlowOK'
<1> SUFFICES ASSUME TypeOK, FlowOK, [Next]_vars PROVE FlowOK'
    OBVIOUS
<1>0. feed.up => /\ state.epoch # 0
                 /\ \A n \in 0..(feed.next - 1) :
                        [epoch |-> state.epoch, seq |-> n] \in Received(state)
    BY DEF FlowOK, CurrentOK, SeenOK
<1>1. CASE Leave
  <2>1. ~feed'.up /\ UNCHANGED <<state, queue, worker, inferred>>
      BY <1>1 DEF Leave, TypeOK, Feed
  <2> QED
      BY <2>1, FlowKept
<1>2. CASE Presented
  <2>1. UNCHANGED <<queue, worker, feed, inferred>>
      BY <1>2 DEF Presented
  <2> QED
      BY <1>0, <1>2, <2>1, PresentedEffect, FlowKept
<1>3. CASE Resync
  <2>1. UNCHANGED <<queue, worker, feed, inferred>>
      BY <1>3 DEF Resync
  <2> QED
      BY <1>0, <1>3, <2>1, ResyncEffect, FlowKept
<1>4. CASE Released
  <2>1. /\ UNCHANGED <<state, queue, feed, inferred>> /\ worker.pc # "get"
        /\ Proceed(state, worker.frame)
      BY <1>4 DEF Released
  <2>2. \/ Stale(worker.frame) /\ worker'.pc = "get" /\ worker'.frame = NoFrame
        \/ worker'.pc # "get" /\ worker'.frame = worker.frame
      BY <2>1, FlowTypes, ProceedEffect DEF Stale
  <2> QED
      BY <1>0, <2>1, <2>2, FlowKept
<1>5. CASE TrackerReset
  <2>1. UNCHANGED <<queue, feed, inferred>> /\ worker.pc # "get"
      BY <1>5 DEF TrackerReset
  <2> QED
      BY <1>0, <1>5, <2>1, TrackerResetEffect, FlowKept
<1>6. CASE TryAgain \/ BackoffOver
  <2>1. /\ UNCHANGED <<state, queue, feed, inferred>> /\ worker.pc # "get"
        /\ worker'.pc # "get" /\ worker'.frame = worker.frame
      BY <1>6 DEF TryAgain, BackoffOver, TypeOK, Worker
  <2> QED
      BY <1>0, <2>1, FlowKept
<1>7. CASE GiveUp
  <2>1. /\ UNCHANGED <<queue, feed, inferred>> /\ worker.pc # "get"
        /\ Proceed(state', worker.frame)
      BY <1>7 DEF GiveUp
  <2>2. state' \in State /\ state'.epoch = state.epoch
      BY <1>7, GiveUpEffect
  <2>3. \/ Stale(worker.frame) /\ worker'.pc = "get" /\ worker'.frame = NoFrame
        \/ worker'.pc # "get" /\ worker'.frame = worker.frame
      BY <2>1, <2>2, FlowTypes, ProceedEffect DEF Stale
  <2> QED
      BY <1>0, <1>7, <2>1, <2>3, GiveUpEffect, FlowKept
<1>8. CASE UNCHANGED vars
  <2>1. UNCHANGED <<state, queue, worker, feed, inferred>>
      BY <1>8 DEF vars
  <2> QED
      BY <1>0, <2>1, FlowKept
<1> QED
    BY <1>1, <1>2, <1>3, <1>4, <1>5, <1>6, <1>7, <1>8, FlowConnect, FlowReset,
       FlowReceive, FlowTakeLatest, FlowTakeFirst, FlowInferred DEF Next, Work

----------------------------------------------------------------------------
(* Results                                                                 *)

NewResults == state'.results \ state.results

\* A result is made of a frame that was queued, or of the one just received.
LEMMA EnqueueResults ==
    ASSUME TypeOK, FlowOK, ~Seen(state, NextFrame), Enqueue(WithNext, NextFrame)
    PROVE  NewResults \cap state.completed = {}
<1>1. /\ NextFrame \in Frames /\ NextFrame.epoch = state.epoch
      /\ WithNext \in State /\ WithNext.epoch = state.epoch
      /\ WithNext.results = state.results
    BY WithEffect
<1>2. NextFrame \notin state.completed
    BY DEF Seen
<1>3. /\ Entries(queue) \in SUBSET Frames /\ Entries(queue) \cap state.completed = {}
      /\ \A g \in Entries(queue) : g.epoch = state.epoch
    BY FlowTypes DEF FlowOK, PlacesOK, CurrentOK, Received
<1>4. CASE policy = "latest"
  <2>1. state' = Skip(WithNext, Entries(queue))
      BY <1>4 DEF Enqueue
  <2>2. state'.results = state.results \cup Entries(queue)
      BY <1>1, <1>3, <2>1, SkipEffect
  <2> QED
      BY <1>3, <2>2 DEF NewResults
<1>5. CASE policy # "latest" /\ Len(queue) = QueueSize
  <2>1. state' = Skip(WithNext, {NextFrame})
      BY <1>5 DEF Enqueue
  <2>2. state'.results = state.results \cup {NextFrame}
      BY <1>1, <2>1, SkipEffect
  <2> QED
      BY <1>2, <2>2 DEF NewResults
<1>6. CASE policy # "latest" /\ Len(queue) # QueueSize
    BY <1>1, <1>6 DEF Enqueue, NewResults
<1> QED
    BY <1>4, <1>5, <1>6

LEMMA OneResultStep == VInv /\ [Next]_vars => NewResults \cap state.completed = {}
<1> SUFFICES ASSUME VInv, [Next]_vars PROVE NewResults \cap state.completed = {}
    OBVIOUS
<1>0. TypeOK /\ FlowOK
    BY DEF VInv, FlowOK
<1>1. ASSUME state'.results \subseteq state.results
      PROVE  NewResults \cap state.completed = {}
    BY <1>1 DEF NewResults
<1>2. ASSUME NEW e \in {state.epoch, state.epoch + 1} \cap 1..MaxEpoch, EnterEpoch(e)
      PROVE  NewResults \cap state.completed = {}
  <2>1. e \in Nat
      OBVIOUS
  <2> QED
      BY <1>0, <1>1, <1>2, <2>1, FlowTypes, EnterEpochEffect
<1>3. CASE Connect \/ Reset
  <2>1. state' = state \/ \E e \in {state.epoch, state.epoch + 1} \cap 1..MaxEpoch : EnterEpoch(e)
      BY <1>3 DEF Connect, Reset
  <2> QED
      BY <1>1, <1>2, <2>1
<1>4. CASE Receive
  <2>1. IF Seen(state, NextFrame) THEN UNCHANGED <<state, queue>>
        ELSE Enqueue(WithNext, NextFrame)
      BY <1>4 DEF Receive, NextFrame, WithNext
  <2> QED
      BY <1>0, <1>1, <2>1, EnqueueResults
<1>5. CASE Take
  <2>1. CASE policy = "latest"
    <3> DEFINE D == Entries(queue) \ {queue[Len(queue)]}
    <3>1. state' = Skip(state, D)
        BY <1>5, <2>1 DEF Take
    <3>2. /\ D \in SUBSET Frames /\ D \subseteq state.queued
          /\ \A g \in D : g.epoch = state.epoch
        BY <1>0, FlowTypes DEF FlowOK, PlacesOK, CurrentOK, Received
    <3> HIDE DEF D
    <3>3. state'.results = state.results \cup D
        BY <1>0, <3>1, <3>2, FlowTypes, SkipEffect
    <3> QED
        BY <1>0, <3>2, <3>3 DEF FlowOK, PlacesOK, NewResults
  <2>2. CASE policy # "latest"
      BY <1>1, <1>5, <2>2 DEF Take
  <2> QED
      BY <2>1, <2>2
<1>6. CASE Inferred
  <2>1. CASE Stale(worker.frame)
      BY <1>1, <1>6, <2>1 DEF Inferred
  <2>2. CASE ~Stale(worker.frame)
    <3>1. state'.results = state.results \cup {worker.frame}
        BY <1>0, <1>6, <2>2, InferredEffect
    <3>2. worker.frame \in state.queued
        BY <1>0, <1>6, <2>2 DEF FlowOK, PlacesOK, Working, Inferred
    <3> QED
        BY <1>0, <3>1, <3>2 DEF FlowOK, PlacesOK, NewResults
  <2> QED
      BY <2>1, <2>2
<1>7. CASE Presented \/ Resync \/ TrackerReset \/ GiveUp
    BY <1>0, <1>1, <1>7, PresentedEffect, ResyncEffect, TrackerResetEffect, GiveUpEffect
<1>8. CASE Leave \/ Released \/ TryAgain \/ BackoffOver \/ UNCHANGED vars
  <2>1. state' = state
      BY <1>8 DEF Leave, Released, TryAgain, BackoffOver, vars
  <2> QED
      BY <1>1, <2>1
<1> QED
    BY <1>3, <1>4, <1>5, <1>6, <1>7, <1>8 DEF Next, Work

LEMMA InOrderStep == VInv /\ [Next]_vars => (inferred' # inferred => Older(inferred, inferred'))
<1> SUFFICES ASSUME VInv, [Next]_vars, inferred' # inferred PROVE Older(inferred, inferred')
    OBVIOUS
<1>1. Inferred
    BY DEF Next, Work, Connect, Reset, Receive, Leave, Presented, Resync, Take, Released,
           TrackerReset, TryAgain, BackoffOver, GiveUp, vars
<1>2. ~Stale(worker.frame) /\ inferred' = worker.frame
    BY <1>1 DEF Inferred
<1>3. worker.frame \in state.queued
    BY <1>1, <1>2 DEF VInv, PlacesOK, Working, Inferred
<1> QED
    BY <1>2, <1>3 DEF VInv, OrderOK

----------------------------------------------------------------------------
(* Theorems                                                                *)

LEMMA VInit == Init => VInv
<1> SUFFICES ASSUME Init PROVE VInv
    OBVIOUS
<1> USE DEF Init
<1>1. /\ state.epoch = 0 /\ state.queued = {} /\ state.completed = {}
      /\ state.results = {} /\ state.last = -1 /\ Received(state) = {}
    BY DEF Received
<1>2. TypeOK
  <2>1. state \in State
      BY FramesType DEF State
  <2>2. worker \in Worker /\ feed \in Feed
      BY FramesType DEF Worker, Feed, Idle
  <2>3. faults \in 0..MaxFaults /\ 0 <= QueueSize
      BY Bounds
  <2> QED
      BY <2>1, <2>2, <2>3, FramesType, EntriesNone DEF TypeOK
<1>3. CurrentOK /\ SeenOK
    BY <1>1 DEF CurrentOK, SeenOK
<1>4. PlacesOK
    BY <1>1, EntriesNone DEF PlacesOK, NoneForgotten, Working, Idle, NoFrame
<1>5. OrderOK
    BY <1>1 DEF OrderOK, Working, Idle, NoFrame
<1> QED
    BY <1>2, <1>3, <1>4, <1>5 DEF VInv

\* The invariant that the other theorems follow from: the received frames of the
\* epoch have no gap, each is in one place on its way, and the places are in order.
THEOREM VisionInvariance == Spec => []VInv
<1>1. VInv /\ [Next]_vars => VInv'
    BY TypeStep, FlowStep DEF VInv, FlowOK
<1> QED
    BY VInit, <1>1, PTL DEF Spec

\* The pipeline's state is well formed, and the queue never exceeds
\* YOLO_INFERENCE_QUEUE_SIZE under either drop policy.
THEOREM VisionTypeCorrect == Spec => []TypeOK
<1>1. VInv => TypeOK
    BY DEF VInv
<1> QED
    BY <1>1, VisionInvariance, PTL

\* No frame of an epoch that has ended is shown or counted as done, also when its
\* inference was under way at the reset.
THEOREM ResultsAreCurrent == Spec => []OnlyCurrentResults
<1>1. VInv => OnlyCurrentResults
    BY DEF VInv, CurrentOK, Received, OnlyCurrentResults
<1> QED
    BY <1>1, VisionInvariance, PTL

\* No decoded frame is forgotten over a full queue, a failed inference, a retry, a
\* rewind or a new epoch.
THEOREM NothingForgotten == Spec => []NoneForgotten
<1>1. VInv => NoneForgotten
    BY DEF VInv, PlacesOK
<1> QED
    BY <1>1, VisionInvariance, PTL

\* A frame that has its result never gets another one, however often the relay
\* rewinds and the frame is decoded again.
THEOREM OneResultEach == Spec => OneResult
<1>1. VInv /\ [Next]_vars => [(state'.results \ state.results) \cap state.completed = {}]_vars
    BY OneResultStep DEF NewResults
<1> QED
    BY <1>1, VisionInvariance, PTL DEF Spec, OneResult

\* The tracker is fed the frames of each epoch in order, and never one of an older
\* epoch again, over retries, drops and rewinds.
THEOREM InferredInOrder == Spec => InferenceInOrder
<1>1. VInv /\ [Next]_vars =>
        [inferred' # inferred =>
             \/ inferred'.epoch > inferred.epoch
             \/ inferred'.epoch = inferred.epoch /\ inferred'.seq > inferred.seq]_vars
  <2> SUFFICES ASSUME VInv, [Next]_vars, inferred' # inferred
               PROVE  \/ inferred'.epoch > inferred.epoch
                      \/ inferred'.epoch = inferred.epoch /\ inferred'.seq > inferred.seq
      OBVIOUS
  <2> QED
      BY InOrderStep DEF Older
<1> QED
    BY <1>1, VisionInvariance, PTL DEF Spec, InferenceInOrder

=============================================================================
