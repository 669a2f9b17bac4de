--------------------------- MODULE VisionPipeline ---------------------------
(***************************************************************************)
(* The inference pipeline of the vision service (yolo.py): the receiver    *)
(* that decodes the relay's records and hands frames over, the bounded     *)
(* queue between them, and the worker that infers them one at a time.      *)
(*                                                                         *)
(* Receiver, worker and playback handlers are asyncio tasks; inferences    *)
(* and the tracker's resets run in a thread, so everything the other       *)
(* tasks do can come between the start and the end of one inference.  Each *)
(* stretch between two awaits is one action; result_condition is always    *)
(* free when it is asked for, and every change that can release its        *)
(* waiters notifies them.                                                  *)
(*                                                                         *)
(* The relay is seen through the records the receiver reads.  H.264        *)
(* decoding is abstracted to one picture per access unit, and a result to  *)
(* the frame it is of.                                                     *)
(***************************************************************************)
EXTENDS Integers, Sequences, FiniteSets

CONSTANTS
    Policies,     \* the frame drop policies to consider: "latest", "queue"
    QueueSize,    \* YOLO_INFERENCE_QUEUE_SIZE
    Attempts,     \* INFERENCE_RETRY_COUNT
    MaxEpoch,     \* bound: newest epoch
    MaxSeq,       \* bound: frames per epoch
    MaxFaults     \* bound: lost connections, decode errors, resyncs

ASSUME VisionPipelineAssumption ==
    /\ Policies \subseteq {"latest", "queue"}
    /\ {QueueSize, Attempts} \subseteq Nat \ {0}
    /\ {MaxEpoch, MaxSeq, MaxFaults} \subseteq Nat

VARIABLES
    policy,     \* the policy of this process
    state,      \* AppState
    queue,      \* state.inference_queue
    worker,     \* yolo_worker
    feed,       \* the records still to come on the relay's connection
    inferred,   \* history: the newest frame that was inferred
    faults      \* how much of MaxFaults is spent

vars == <<policy, state, queue, worker, feed, inferred, faults>>
-----------------------------------------------------------------------------

Frames == [epoch : Nat, seq : Nat]
NoFrame == [epoch |-> 0, seq |-> 0]     \* epoch 0 has no frames

\* last is the newest acknowledged sequence number, or -1.
State == [epoch : Nat, queued : SUBSET Frames, completed : SUBSET Frames,
          results : SUBSET Frames, last : Nat \cup {-1}, fault : Frames,
          tracker : Nat]

Worker == [pc : {"get", "faultWait", "resetting", "inferring", "backoff"},
           frame : Frames, attempt : Nat]

Feed == [up : BOOLEAN, next : Nat]

Idle == [pc |-> "get", frame |-> NoFrame, attempt |-> 0]

Init ==
    /\ policy \in Policies
    /\ state = [epoch |-> 0, queued |-> {}, completed |-> {}, results |-> {},
                last |-> -1, fault |-> NoFrame, tracker |-> 0]
    /\ queue = <<>>
    /\ worker = Idle
    /\ feed = [up |-> FALSE, next |-> 0]
    /\ inferred = NoFrame
    /\ faults = 0

Fault == faults < MaxFaults /\ faults' = faults + 1
-----------------------------------------------------------------------------
(* Frames on their way to the worker.                                      *)

Entries(q) == {q[i] : i \in DOMAIN q}

\* Mutant: frames left out by the model are not shown either.
SkipSilently(st, dropped) == st

\* _publish_skipped_frames(): dropped frames are still shown, without inference of
\* their own.
Skip(st, dropped) ==
    LET current == {f \in dropped : f.epoch = st.epoch}
    IN  [st EXCEPT !.queued = @ \ dropped, !.completed = @ \cup current,
                   !.results = @ \cup current]

\* Mutant: only what still waits is a duplicate.
SeenQueued(st, f) == f \in st.queued

\* A frame is decoded again when the relay rewinds to a keyframe.
Seen(st, f) == f \in st.queued \cup st.completed

\* Mutant: the queue has no limit.
EnqueueUnbounded(st, f) ==
    IF policy = "latest"
    THEN state' = Skip(st, Entries(queue)) /\ queue' = <<f>>
    ELSE state' = st /\ queue' = Append(queue, f)

\* _enqueue_inference_frame(): the newest frame replaces all that wait, or is left
\* out itself when the queue is full.  The receiver never waits.
Enqueue(st, f) ==
    CASE policy = "latest" -> state' = Skip(st, Entries(queue)) /\ queue' = <<f>>
      [] policy # "latest" /\ Len(queue) = QueueSize ->
             state' = Skip(st, {f}) /\ queue' = queue
      [] OTHER -> state' = st /\ queue' = Append(queue, f)
-----------------------------------------------------------------------------
(* frame_receiver.                                                         *)

\* RESET, and START of another epoch, drop everything of the old one.
EnterEpoch(e) ==
    /\ state' = [state EXCEPT !.epoch = e, !.queued = {}, !.completed = {},
                              !.results = {}, !.last = -1, !.fault = NoFrame]
    /\ queue' = <<>>

\* START: the relay goes on with the epoch, from a keyframe at or before the first
\* frame not acknowledged, or has a new one.
Connect ==
    /\ ~feed.up
    /\ \E e \in {state.epoch, state.epoch + 1} \cap 1..MaxEpoch :
          IF e # state.epoch
          THEN EnterEpoch(e) /\ feed' = [up |-> TRUE, next |-> 0]
          ELSE /\ \E n \in 0..(state.last + 1) : feed' = [up |-> TRUE, next |-> n]
               /\ UNCHANGED <<state, queue>>
    /\ UNCHANGED <<policy, worker, inferred, faults>>

\* RESET: only an epoch of which nothing was sent is announced twice.
Reset ==
    /\ feed.up
    /\ \E e \in {state.epoch, state.epoch + 1} \cap 1..MaxEpoch :
          /\ e = state.epoch => state.queued \cup state.completed = {}
          /\ EnterEpoch(e)
    /\ feed' = [feed EXCEPT !.next = 0]
    /\ UNCHANGED <<policy, worker, inferred, faults>>

\* FRAME.
Receive ==
    LET f == [epoch |-> state.epoch, seq |-> feed.next]
    IN  /\ feed.up /\ feed.next < MaxSeq
        /\ feed' = [feed EXCEPT !.next = @ + 1]
        /\ IF Seen(state, f) THEN UNCHANGED <<state, queue>>
           ELSE Enqueue([state EXCEPT !.queued = @ \cup {f}], f)
        /\ UNCHANGED <<policy, worker, inferred, faults>>

\* END, a lost connection, or a unit that cannot be decoded: connect again.
Leave ==
    /\ feed.up /\ Fault
    /\ feed' = [feed EXCEPT !.up = FALSE]
    /\ UNCHANGED <<policy, state, queue, worker, inferred>>
-----------------------------------------------------------------------------
(* The playback handlers, as far as the pipeline sees them.                *)

\* A painted frame is acknowledged.
Presented ==
    /\ \E f \in state.results :
          state' = [state EXCEPT
                      !.results = {g \in @ : g.epoch # f.epoch \/ g.seq > f.seq},
                      !.last = IF f.seq > @ THEN f.seq ELSE @]
    /\ UNCHANGED <<policy, queue, worker, feed, inferred, faults>>

\* A viewer starts, or jumps to live.  (The relay's answer is a Reset.)
Resync ==
    /\ Fault
    /\ state' = [state EXCEPT !.results = {}, !.last = -1, !.fault = NoFrame]
    /\ UNCHANGED <<policy, queue, worker, feed, inferred>>
-----------------------------------------------------------------------------
(* yolo_worker.                                                            *)

Stale(f) == f.epoch # state.epoch

\* From the top of the loop with frame f in hand, up to the next await.
Proceed(st, f) ==
    worker' =
        IF f.epoch # st.epoch THEN Idle
        ELSE [pc |-> IF st.fault # NoFrame THEN "faultWait"
                     ELSE IF st.tracker # f.epoch THEN "resetting" ELSE "inferring",
              frame |-> f, attempt |-> 1]

\* With the "latest" policy the worker takes the newest frame that waits.
Take ==
    /\ worker.pc = "get" /\ queue # <<>>
    /\ IF policy = "latest"
       THEN LET f == queue[Len(queue)]
            IN  /\ state' = Skip(state, Entries(queue) \ {f})
                /\ queue' = <<>>
                /\ Proceed(state, f)
       ELSE /\ queue' = Tail(queue)
            /\ Proceed(state, Head(queue))
            /\ UNCHANGED state
    /\ UNCHANGED <<policy, feed, inferred, faults>>

\* Mutant: only a new epoch ends the wait.
ReleasedByEpoch ==
    /\ worker.pc = "faultWait" /\ Stale(worker.frame)
    /\ Proceed(state, worker.frame)
    /\ UNCHANGED <<policy, state, queue, feed, inferred, faults>>

\* The fault was cleared, or the frame's epoch has ended.
Released ==
    /\ worker.pc = "faultWait"
    /\ state.fault = NoFrame \/ Stale(worker.frame)
    /\ Proceed(state, worker.frame)
    /\ UNCHANGED <<policy, state, queue, feed, inferred, faults>>

\* The tracker has dropped the tracks of the old epoch.  The epoch is not compared
\* again before the frame is inferred.
TrackerReset ==
    /\ worker.pc = "resetting"
    /\ state' = [state EXCEPT !.tracker = worker.frame.epoch]
    /\ worker' = [worker EXCEPT !.pc = "inferring"]
    /\ UNCHANGED <<policy, queue, feed, inferred, faults>>

\* Mutant: the epoch is not compared again.
InferredAnyEpoch ==
    LET f == worker.frame
    IN  /\ worker.pc = "inferring"
        /\ worker' = Idle
        /\ state' = [state EXCEPT !.queued = @ \ {f}, !.completed = @ \cup {f},
                                  !.results = @ \cup {f}]
        /\ inferred' = f
        /\ UNCHANGED <<policy, queue, feed, faults>>

\* run_yolo() returned.  The result of an epoch that has ended is dropped.
Inferred ==
    LET f == worker.frame
    IN  /\ worker.pc = "inferring"
        /\ worker' = Idle
        /\ IF Stale(f) THEN UNCHANGED <<state, inferred>>
           ELSE /\ state' = [state EXCEPT !.queued = @ \ {f},
                                          !.completed = @ \cup {f},
                                          !.results = @ \cup {f}]
                /\ inferred' = f
        /\ UNCHANGED <<policy, queue, feed, faults>>

\* It failed, and will be called again.
TryAgain ==
    /\ worker.pc = "inferring" /\ worker.attempt < Attempts
    /\ worker' = [worker EXCEPT !.pc = "backoff"]
    /\ UNCHANGED <<policy, state, queue, feed, inferred, faults>>

BackoffOver ==
    /\ worker.pc = "backoff"
    /\ worker' = [worker EXCEPT !.pc = "inferring", !.attempt = @ + 1]
    /\ UNCHANGED <<policy, state, queue, feed, inferred, faults>>

\* Mutant: the frame goes to the end of the queue, and the next one is taken.
GiveUpAndRequeue ==
    /\ worker.pc = "inferring" /\ worker.attempt = Attempts
    /\ state' = [state EXCEPT !.fault = worker.frame]
    /\ queue' = IF Stale(worker.frame) \/ Len(queue) = QueueSize THEN queue
                ELSE Append(queue, worker.frame)
    /\ worker' = Idle
    /\ UNCHANGED <<policy, feed, inferred, faults>>

\* It failed too often: the fault is set, whatever epoch it is now, and the frame is
\* kept for another try.
GiveUp ==
    /\ worker.pc = "inferring" /\ worker.attempt = Attempts
    /\ state' = [state EXCEPT !.fault = worker.frame]
    /\ Proceed(state', worker.frame)
    /\ UNCHANGED <<policy, queue, feed, inferred, faults>>

Work ==
    Take \/ Released \/ TrackerReset \/ Inferred \/ TryAgain \/ BackoffOver \/ GiveUp
-----------------------------------------------------------------------------

Next ==
    \/ Connect \/ Reset \/ Receive \/ Leave
    \/ Presented \/ Resync
    \/ Work

\* The worker's task runs whenever it can, and a call of the model ends.
Spec == Init /\ [][Next]_vars /\ WF_vars(Work)
-----------------------------------------------------------------------------
(* Properties                                                              *)

TypeOK ==
    /\ policy \in Policies /\ state \in State /\ worker \in Worker /\ feed \in Feed
    /\ queue \in Seq(Frames) /\ Len(queue) <= QueueSize
    /\ inferred \in Frames /\ faults \in 0..MaxFaults

\* A frame of an epoch that has ended is never shown: not when its inference ended
\* after the reset either (asyncio.to_thread cannot be cancelled).
OnlyCurrentResults == \A f \in state.results \cup state.completed : f.epoch = state.epoch

\* A decoded frame that has no result yet is waiting or being worked on: none is
\* forgotten over a full queue, a failed inference, a retry or a rewind.
NoneForgotten == state.queued \subseteq Entries(queue) \cup {worker.frame}

\* A frame gets one result: the relay's rewinds, which decode frames again, neither
\* bring back what was painted nor replace a result.
OneResult == [][(state'.results \ state.results) \cap state.completed = {}]_vars

\* The tracker sees the frames of an epoch in order, over retries as well.
InferenceInOrder ==
    [][inferred' # inferred =>
         \/ inferred'.epoch > inferred.epoch
         \/ inferred'.epoch = inferred.epoch /\ inferred'.seq > inferred.seq]_vars

\* Every decoded frame gets a result, unless a fault stops the pipeline or the epoch
\* ends.
EventuallyResult ==
    \A e \in 1..MaxEpoch : \A n \in 0..(MaxSeq - 1) :
        LET f == [epoch |-> e, seq |-> n]
        IN  f \in state.queued ~> f \notin state.queued \/ state.fault # NoFrame

\* A fault that stops the pipeline is about the current epoch.
FaultIsCurrent == state.fault # NoFrame => state.fault.epoch = state.epoch
=============================================================================
